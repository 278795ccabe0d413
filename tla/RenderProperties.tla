-------------------------- MODULE RenderProperties --------------------------
(***************************************************************************)
(* What a job's client may rely on while its renderings overlap, fail and  *)
(* are killed: the video, the progress and the stream.                     *)
(***************************************************************************)
EXTENDS Render

(* Every variable keeps its type; no script prints, and no scanner reads,  *)
(* more lines than the plan has steps.                                     *)
TypeOK ==
  /\ row       \in Rows(Call)
  /\ shown     \in [processed : Nat, total : Nat \ {0}]
  /\ plan      \in Requests
  /\ missed    \subseteq Call
  /\ call      \in [Call -> {"idle", "service", "script", "verify", "complete", "returned"}]
  /\ read      \in [Call -> Nat]
  /\ \A c \in Call : read[c] <= drawn[Script(c)]
  /\ cancel    \in {None} \cup Call
  /\ aborted   \subseteq Call
  /\ at        \in [Rendering -> {"none", "started"} \cup Busy \cup Ended]
  /\ drawn     \in [Rendering -> Nat]
  /\ \A r \in Rendering : drawn[r] <= TotalSteps(Asked)
  /\ sink      \in [Rendering -> {None} \cup File]
  /\ dir       \in [out : {None} \cup File, raw : {None} \cup File]
  /\ content   \in [File -> {"none", "partial", "whole", "mixed"}]
  /\ latest    \in {None} \cup Rendering
  /\ sole      \in BOOLEAN
  /\ delete    \in {"none", "aborted", "removed", "done"}
  /\ stream    \in {"open"} \cup Terminal
  /\ faults    \in Nat

-----------------------------------------------------------------------------
(* A rendering that succeeded without being overlapped leaves a whole      *)
(* video under the published name and no raw file, whatever killed and     *)
(* failed renderings left behind before it and whichever way its ffmpeg    *)
(* ended, until somebody renders again or deletes (compositor.py:366-392,  *)
(* generate_video.py:378-404).                                             *)
SoleRenderingIsWhole ==
  latest # None /\ at[latest] = "ok" /\ sole =>
      /\ dir.out # None /\ content[dir.out] = "whole"
      /\ dir.raw = None

(* A job completed by a script shows the progress of all of its frames if  *)
(* no other call has reported and the update for its last line was not the *)
(* one the database refused: an update lost before, a killed and a stale   *)
(* rendering, or a row refused in between cost nothing.  The last line is  *)
(* in the row before the row is COMPLETED (pipeline.go:372-384).           *)
Reporters == {c \in Call : read[c] > 0}

CompletedShowsAllFrames ==
  \A c \in Call :
    row.status = "COMPLETED" /\ row.worker = c /\ Reporters = {c} /\ c \notin missed =>
      shown = [processed |-> FramesAfter(Asked, TotalSteps(Asked)), total |-> Asked.frames]

(* The displayed progress of a job goes back only when another call starts *)
(* to report (pipeline.go:372-379, job_repo.go:309-313).                   *)
ProgressGoesBackOnlyWithACall ==
  [][Cardinality(Reporters') <= 1 => shown'.processed >= shown.processed]_vars

(* A client whose stream was ended was told the outcome that stands, with  *)
(* every stale call still running (sse_handler.go:98-100).                 *)
ToldTheOutcome ==
  stream \in Terminal => row.status \in {stream, "DELETED"}

-----------------------------------------------------------------------------
(* The job after its INSERT follows JobLifecycle, although a call here may *)
(* have two renderings running and none of them knows of the lease.  A     *)
(* claim follows a recovery and both advance the version, so the round of  *)
(* the c-th claim is 2c - 1.                                               *)
Phase == [j \in {"job"} |-> row.status]
Round == [j \in {"job"} |-> row.version]
Held  == [c \in Call |-> IF Works(c) THEN <<"job", 2 * c - 1>> ELSE None]

Lifecycle == INSTANCE JobLifecycle WITH Job <- {"job"}, Slot <- Call, phase <- Phase,
                                        round <- Round, claim <- Held

(* Only the call whose claim is in force finishes the job, whichever of    *)
(* its renderings answered, failed or was killed and whatever older calls  *)
(* still do; a finished job stays so until it is deleted, and then for     *)
(* good (pipeline.go:126-216, job_repo.go:232-241).                        *)
FollowsLifecycle == [][Lifecycle!JNext]_(Lifecycle!jvars)

-----------------------------------------------------------------------------
(* Liveness.  Renderings and calls go on, a lease that nobody extends runs *)
(* out, the sweep runs and the ticker ticks.  Nothing is assumed about     *)
(* deletes, lapses and calls given up.                                     *)
Fairness ==
  /\ WF_vars(\E r \in Rendering : RenderStep(r))
  /\ WF_vars(\E c \in Call : CallStep(c))
  /\ WF_vars(LeaseExpires)
  /\ WF_vars(Sweep)
  /\ WF_vars(Poll)

FairSpec == Spec /\ Fairness

(* The stream of a job in progress comes to its end: renderings do not     *)
(* hang on one another's files, the call that waits for them answers, and  *)
(* the loop sees the final status, unless the row goes back to PENDING for *)
(* want of a call or is deleted (pipeline.go:156-216, sse_handler.go:67-101). *)
StreamEnds ==
  row.status = "PROCESSING" ~> stream # "open" \/ row.status \in {"PENDING", "DELETED"}

-----------------------------------------------------------------------------
(* compositor.py:362, "Progress reporting via stdout (consumed by Go       *)
(* pipeline or FastAPI)": of a rendering by the service nothing is         *)
(* consumed, and its job is COMPLETED with 0 frames processed.  No run     *)
(* checks this statement: it is what CompletedShowsAllFrames would say     *)
(* without naming the reporter.                                            *)
CompletedShowsSomeFrames ==
  row.status = "COMPLETED" => shown.processed > 0
=============================================================================
