------------------------------- MODULE Render -------------------------------
(***************************************************************************)
(* The renderings of one job and what its clients see of them: the         *)
(* processJob calls that claim it one after the other, the service thread  *)
(* and the script each call may start, the files <id>.mp4 and              *)
(* <id>_raw.mp4 all of them share, the progress lines on the script's      *)
(* stdout, the jobs row, a delete request and a progress stream.           *)
(*                                                                         *)
(* A rendering that nobody waits for any more goes on: the service does    *)
(* not see that its caller gave up, and a call that lost its lease is not  *)
(* stopped.  Queue, heartbeats and crashes are in Pipeline; here a call    *)
(* claims whenever the row is PENDING, and its claim includes loading.     *)
(***************************************************************************)
EXTENDS JobRepo, FramePlan, FiniteSets

CONSTANTS
  Calls,       \* bound: processJob calls that claim the job
  Served,      \* the calls whose request reaches the service; for the others
               \* there is none, or its circuit breaker is open
  Requests,    \* bound: the plans a client may ask for
  MaxFaults    \* bound: lapses of a live lease, calls to the service given up,
               \* statements that fail, deletes

Call == 1..Calls               \* in the order of their claims

ASSUME CallAssumption    == Calls \in Nat /\ None \notin Call
ASSUME ServedAssumption  == Served \subseteq Call
ASSUME RequestAssumption == Requests \subseteq Plans
ASSUME FaultAssumption   == MaxFaults \in Nat

VARIABLES
  row,        \* the jobs row of job_repo.go
  shown,      \* its processed_frames and frame_count
  plan,       \* what the client asked for
  missed,     \* calls of which the row missed the last line read (history)
  call,       \* per call, where processJob is
  read,       \* per call, progress lines its scanner has read
  cancel,     \* jobCancels[id]: the call whose cancel function is stored
  aborted,    \* calls whose context AbortJob cancelled
  at,         \* per rendering, where it is
  drawn,      \* per rendering, steps drawn; the script printed a line for each
  sink,       \* per rendering, the file it has open for writing
  dir,        \* the files the two names stand for
  content,    \* per file, what is in it
  latest,     \* the rendering that opened the video last (history)
  sole,       \* no other one, and no delete, overlapped it (history)
  delete,     \* progress of the DELETE request
  stream,     \* the SSE loop of a client that stays: open, or the final
              \* status it ended with
  faults

rowVars    == <<row, shown, plan, missed>>
callVars   == <<call, read, cancel, aborted>>
fileVars   == <<dir, content, latest, sole>>
renderVars == <<at, drawn, sink>>
clientVars == <<delete, stream>>
vars == <<rowVars, callVars, fileVars, renderVars, clientVars, faults>>

Rendering == Call \X {"service", "script"}
File      == Rendering \X {"drawing", "encoding"}    \* a file, by what created it

ASSUME NoneAssumption == None \notin Rendering \cup File

Writing == {"drawing", "encoding", "orphan"}
Busy    == Writing \cup {"released", "movedAside", "encoded", "restore", "timedOut"}
Ended   == {"ok", "failed", "killed"}

Fault   == faults < MaxFaults /\ faults' = faults + 1
NoFault == UNCHANGED faults

-----------------------------------------------------------------------------
(* Files.  Two writers of one file leave a mixture; opening a file that    *)
(* nobody else writes truncates it.  A file without a name that nobody has *)
(* open is gone.                                                           *)

OthersBusy(r)   == {q \in Rendering \ {r} : at[q] \in Busy}
OpenAnew(r, i)  == [content EXCEPT ![i] =
                      IF \E q \in Rendering \ {r} : sink[q] = i THEN "mixed" ELSE "partial"]
Closed(i)       == [content EXCEPT ![i] = IF @ = "partial" THEN "whole" ELSE "mixed"]
Kept(files)     == content' = [i \in File |->
                     IF \/ i \in {dir'.out, dir'.raw}
                        \/ \E q \in Rendering : sink'[q] = i
                     THEN files[i] ELSE "none"]
OutOr(i)        == IF dir.out = None THEN i ELSE dir.out

Goto(r, l) == at' = [at EXCEPT ![r] = l]

(* What a renderer is asked for.  frame_count is read from the row, where  *)
(* the total of an earlier script may already stand.                       *)
Asked == [plan EXCEPT !.frames = FrameCount(shown.total)]

Init ==
  /\ row       = CreateJob(Absent)
  /\ plan      \in Requests
  /\ shown     = [processed |-> 0, total |-> plan.frames]
  /\ missed    = {}
  /\ call      = [c \in Call |-> "idle"]
  /\ read      = [c \in Call |-> 0]
  /\ cancel    = None
  /\ aborted   = {}
  /\ at        = [r \in Rendering |-> "none"]
  /\ drawn     = [r \in Rendering |-> 0]
  /\ sink      = [r \in Rendering |-> None]
  /\ dir       = [out |-> None, raw |-> None]
  /\ content   = [i \in File |-> "none"]
  /\ latest    = None
  /\ sole      = FALSE
  /\ delete    = "none"
  /\ stream    = "open"
  /\ faults    = 0

-----------------------------------------------------------------------------
(* render_video, and the script's main: the same steps.                    *)

Opens(r, i, files) ==
  /\ dir'  = [dir EXCEPT !.out = i]
  /\ sink' = [sink EXCEPT ![r] = i]
  /\ Kept(files)

Closes(r) == sink' = [sink EXCEPT ![r] = None]

(* cv2.VideoWriter on the published name *)
OpenWriter(r) ==
  /\ at[r] = "started"
  /\ LET i == OutOr(<<r, "drawing">>) IN Opens(r, i, OpenAnew(r, i))
  /\ Goto(r, "drawing")
  /\ latest' = r
  /\ sole'   = (OthersBusy(r) = {})
  /\ UNCHANGED <<rowVars, callVars, drawn, clientVars, faults>>

(* one turn of the loop: frames, and a line of progress *)
DrawStep(r) ==
  /\ at[r] = "drawing" /\ StepsOn(Asked, drawn[r])
  /\ drawn' = [drawn EXCEPT ![r] = @ + 1]
  /\ UNCHANGED <<rowVars, callVars, fileVars, at, sink, clientVars, faults>>

(* no codec, no layers, or an exception on the way: the file stays as it is *)
RenderRaises(r) ==
  /\ at[r] \in {"started", "drawing"}
  /\ Goto(r, "failed")
  /\ Closes(r)
  /\ UNCHANGED <<rowVars, callVars, dir, latest, sole, drawn, clientVars, faults>>
  /\ Kept(content)

(* out.release() *)
Release(r) ==
  /\ at[r] = "drawing" /\ ~StepsOn(Asked, drawn[r])
  /\ Goto(r, "released")
  /\ Closes(r)
  /\ UNCHANGED <<rowVars, callVars, dir, latest, sole, drawn, clientVars, faults>>
  /\ Kept(Closed(sink[r]))

(* os.rename, which raises FileNotFoundError where there is no source *)
Rename(r, from, moved, l) ==
  /\ IF from = None THEN Goto(r, "failed") /\ UNCHANGED dir
                    ELSE Goto(r, l) /\ dir' = moved
  /\ UNCHANGED <<rowVars, callVars, latest, sole, drawn, sink, clientVars, faults>>
  /\ Kept(content)

(* output_path to temp_path, outside of the try *)
MoveAside(r) ==
  /\ at[r] = "released"
  /\ Rename(r, dir.out, [out |-> None, raw |-> dir.out], "movedAside")

(* ffmpeg -y opens its input, then its output.  A file without its index,  *)
(* which the writer's release adds, is no input; from a mixture comes      *)
(* another one.                                                            *)
EncodeStarts(r) ==
  /\ at[r] = "movedAside" /\ dir.raw # None /\ content[dir.raw] # "partial"
  /\ LET i == OutOr(<<r, "encoding">>)
     IN  Opens(r, i, IF content[dir.raw] = "whole" THEN OpenAnew(r, i)
                     ELSE [content EXCEPT ![i] = "mixed"])
  /\ Goto(r, "encoding")
  /\ UNCHANGED <<rowVars, callVars, latest, sole, drawn, clientVars, faults>>

(* no ffmpeg (FileNotFoundError), or it ends with an error at once *)
EncodeRefused(r) ==
  /\ at[r] = "movedAside"
  /\ Goto(r, "restore")
  /\ UNCHANGED <<rowVars, callVars, fileVars, drawn, sink, clientVars, faults>>

EncodeOk(r) ==
  /\ at[r] = "encoding"
  /\ Goto(r, "encoded")
  /\ Closes(r)
  /\ UNCHANGED <<rowVars, callVars, dir, latest, sole, drawn, clientVars, faults>>
  /\ Kept(Closed(sink[r]))

(* a return code other than 0, or the 120 s are over and ffmpeg is killed *)
EncodeFails(r) ==
  /\ at[r] = "encoding"
  /\ Goto(r, "restore") \/ Goto(r, "timedOut")
  /\ Closes(r)
  /\ UNCHANGED <<rowVars, callVars, dir, latest, sole, drawn, clientVars, faults>>
  /\ Kept(content)

(* os.remove(temp_path); its FileNotFoundError is taken for a missing      *)
(* ffmpeg, and the handler renames                                         *)
RemoveRaw(r) ==
  /\ at[r] = "encoded"
  /\ Goto(r, IF dir.raw = None THEN "restore" ELSE "ok")
  /\ dir' = [dir EXCEPT !.raw = None]
  /\ UNCHANGED <<rowVars, callVars, latest, sole, drawn, sink, clientVars, faults>>
  /\ Kept(content)

KeepsPartial(r) ==             \* mutant: the raw file is not put back
  /\ at[r] = "restore"
  /\ Goto(r, "ok")
  /\ UNCHANGED <<rowVars, callVars, fileVars, drawn, sink, clientVars, faults>>

(* temp_path back to output_path.  After a return code other than 0 this   *)
(* stands inside the try: if there is no raw file, the FileNotFoundError   *)
(* leads to the handler, which renames again.  A rename without a source   *)
(* changes nothing, so the step is the last of the two.                    *)
Restore(r) ==
  /\ at[r] = "restore"
  /\ Rename(r, dir.raw, [out |-> dir.raw, raw |-> None], "ok")

(* if os.path.exists(temp_path) *)
LookForRaw(r) ==
  /\ at[r] = "timedOut"
  /\ Goto(r, IF dir.raw = None THEN "ok" ELSE "restore")
  /\ UNCHANGED <<rowVars, callVars, fileVars, drawn, sink, clientVars, faults>>

(* SIGKILL hits the script, not its ffmpeg, which goes on or breaks off. *)
OrphanEnds(r) ==
  /\ at[r] = "orphan"
  /\ Goto(r, "killed")
  /\ Closes(r)
  /\ UNCHANGED <<rowVars, callVars, dir, latest, sole, drawn, clientVars, faults>>
  /\ (Kept(Closed(sink[r])) \/ Kept(content))

RenderStep(r) ==
  \/ OpenWriter(r) \/ DrawStep(r) \/ RenderRaises(r) \/ Release(r) \/ MoveAside(r)
  \/ EncodeStarts(r) \/ EncodeRefused(r) \/ EncodeOk(r) \/ EncodeFails(r)
  \/ RemoveRaw(r) \/ Restore(r) \/ LookForRaw(r) \/ OrphanEnds(r)

-----------------------------------------------------------------------------
(* processJob, from its claim on                                           *)

Service(c) == <<c, "service">>
Script(c)  == <<c, "script">>
Advance(c, l) == call' = [call EXCEPT ![c] = l]
Start(r)   == Goto(r, "started")

Return(c) ==
  /\ Advance(c, "returned")
  /\ cancel' = None            \* jobCancels.Delete(jobID), whoever stored it

Claim(c) ==
  /\ call[c] = "idle" /\ CanClaim(row)
  /\ \A d \in 1..(c - 1) : call[d] # "idle"
  /\ row'    = ClaimJobCAS(row, c)
  /\ cancel' = c
  /\ IF c \in Served THEN Advance(c, "service") /\ Start(Service(c))
                    ELSE Advance(c, "script")  /\ Start(Script(c))
  /\ UNCHANGED <<shown, plan, missed, read, aborted, drawn, sink, fileVars, clientVars, faults>>

ServiceAnswers(c) ==
  /\ call[c] = "service" /\ c \notin aborted /\ at[Service(c)] = "ok"
  /\ Advance(c, "verify")
  /\ UNCHANGED <<rowVars, read, cancel, aborted, renderVars, fileVars, clientVars, faults>>

(* The rendering failed (500), or the call to it did: refused, timed out,  *)
(* its answer lost.  The service is told nothing and renders on.           *)
ServiceGivenUp(c) ==
  /\ call[c] = "service" /\ c \notin aborted
  /\ \/ at[Service(c)] = "failed" /\ NoFault
     \/ at[Service(c)] # "failed" /\ Fault
  /\ Advance(c, "script")
  /\ Start(Script(c))
  /\ UNCHANGED <<rowVars, read, cancel, aborted, drawn, sink, fileVars, clientVars>>

(* A cancelled context ends the call to the service and fails the start of *)
(* the script; MarkFailed, on the same context, fails as well.             *)
ServiceCancelled(c) ==
  /\ call[c] = "service" /\ c \in aborted
  /\ Return(c)
  /\ UNCHANGED <<rowVars, read, aborted, renderVars, fileVars, clientVars, faults>>

(* exec.CommandContext kills the process it started, and only that one *)
KillScript(c) ==
  LET r == Script(c)
  IN  /\ c \in aborted
      /\ \/ at[r] = "encoding" /\ Goto(r, "orphan") /\ UNCHANGED sink
         \/ /\ at[r] \in (Busy \cup {"started"}) \ {"encoding", "orphan"}
            /\ Goto(r, "killed") /\ Closes(r)
      /\ UNCHANGED <<rowVars, callVars, dir, latest, sole, drawn, clientVars, faults>>
      /\ Kept(content)

(* One turn of the scanner's loop; UpdateProgress has no owner in its      *)
(* WHERE clause, and its error is dropped.                                 *)
Unread(c)   == read[c] < drawn[Script(c)]
ReadLine(c) == /\ call[c] = "script" /\ Unread(c)
               /\ read' = [read EXCEPT ![c] = @ + 1]
               /\ UNCHANGED <<row, plan, call, cancel, aborted, renderVars, fileVars, clientVars>>

ReadProgress(c) ==
  /\ ReadLine(c) /\ NoFault
  /\ shown'  = IF c \in aborted \/ row.status \notin HasRow THEN shown
               ELSE [processed |-> Progress(Asked, read[c] + 1), total |-> Asked.frames]
  /\ missed' = missed \ {c}

ProgressLost(c) ==
  /\ ReadLine(c) /\ Fault
  /\ missed' = missed \cup {c}
  /\ UNCHANGED shown

ScriptOkUndrained(c) ==        \* mutant: Wait before the pipe is drained
  /\ call[c] = "script" /\ at[Script(c)] = "ok"
  /\ Advance(c, "verify")
  /\ UNCHANGED <<rowVars, read, cancel, aborted, renderVars, fileVars, clientVars, faults>>

(* the scanner met the end of the pipe, and cmd.Wait returned nil *)
ScriptOk(c) ==
  /\ call[c] = "script" /\ at[Script(c)] = "ok" /\ ~Unread(c)
  /\ Advance(c, "verify")
  /\ UNCHANGED <<rowVars, read, cancel, aborted, renderVars, fileVars, clientVars, faults>>

(* cmd.Wait returned an error: MarkFailed on the context of the call *)
ScriptFailed(c) == call[c] = "script" /\ at[Script(c)] \in {"failed", "killed", "orphan"}
                                      /\ ~Unread(c)

ScriptFails(c) ==
  /\ ScriptFailed(c)
  /\ row' = IF c \notin aborted /\ OwnedBy(row, c) THEN MarkFailed(row) ELSE row
  /\ Return(c)
  /\ UNCHANGED <<shown, plan, missed, read, aborted, renderVars, fileVars, clientVars, faults>>

Verify(c) ==
  /\ call[c] = "verify"
  /\ \/ /\ VerifyOwnership(row, c)
        /\ Advance(c, "complete")
        /\ UNCHANGED cancel
     \/ /\ ~VerifyOwnership(row, c)
        /\ Return(c)
  /\ UNCHANGED <<rowVars, read, aborted, renderVars, fileVars, clientVars, faults>>

Complete(c) ==
  /\ call[c] = "complete"
  /\ row' = IF c \notin aborted /\ OwnedBy(row, c) THEN MarkCompleted(row, "local") ELSE row
  /\ Return(c)
  /\ UNCHANGED <<shown, plan, missed, read, aborted, renderVars, fileVars, clientVars, faults>>

(* The database refuses the last statement of a call: MarkFailed after the *)
(* script's end, VerifyOwnership or MarkCompleted.  The call returns.      *)
StatementFails(c) ==
  /\ ScriptFailed(c) \/ call[c] \in {"verify", "complete"}
  /\ Fault
  /\ Return(c)
  /\ UNCHANGED <<rowVars, read, aborted, renderVars, fileVars, clientVars>>

CallStep(c) ==
  \/ Claim(c) \/ ServiceAnswers(c) \/ ServiceGivenUp(c) \/ ServiceCancelled(c)
  \/ KillScript(c) \/ ReadProgress(c) \/ ProgressLost(c) \/ ScriptOk(c) \/ ScriptFails(c)
  \/ Verify(c) \/ Complete(c) \/ StatementFails(c)

Works(c) == call[c] \notin {"idle", "returned"}

Lapses ==
  /\ row.status = "PROCESSING" /\ row.lease = "live"
  /\ row' = Lapse(row)
  /\ UNCHANGED <<shown, plan, missed, callVars, renderVars, fileVars, clientVars>>

(* after a call that could not finish its row *)
LeaseExpires == Lapses /\ ~Works(row.worker) /\ NoFault

(* under a call whose heartbeat fails *)
LeaseLapses == Lapses /\ Works(row.worker) /\ Fault

Sweep ==
  /\ Stalled(row)
  /\ row' = Recover(row)
  /\ UNCHANGED <<shown, plan, missed, callVars, renderVars, fileVars, clientVars, faults>>

-----------------------------------------------------------------------------
(* DeleteJobHandler with local files, and StreamProgress                   *)

AbortJob ==
  /\ delete = "none" /\ Fault
  /\ aborted' = IF cancel = None THEN aborted ELSE aborted \cup {cancel}
  /\ delete'  = "aborted"
  /\ UNCHANGED <<rowVars, call, read, cancel, renderVars, fileVars, stream>>

(* os.Remove of the published name; the raw file is not looked for *)
RemoveVideo ==
  /\ delete = "aborted"
  /\ dir'    = [dir EXCEPT !.out = None]
  /\ sole'   = FALSE
  /\ delete' = "removed"
  /\ UNCHANGED <<rowVars, callVars, latest, renderVars, stream, faults>>
  /\ Kept(content)

DeleteRow ==
  /\ delete = "removed"
  /\ row'    = DeleteJob(row)
  /\ delete' = "done"
  /\ UNCHANGED <<shown, plan, missed, callVars, renderVars, fileVars, stream, faults>>

EndsOnSuccess(s) == s = "COMPLETED"     \* mutant: only a success ends the stream
EndsStream(s)    == s \in Terminal

(* One tick.  A status that is not final is sent and changes nothing here; *)
(* without a row the poll fails, and the loop goes on.                     *)
Poll ==
  /\ stream = "open" /\ EndsStream(row.status)
  /\ stream' = row.status
  /\ UNCHANGED <<rowVars, callVars, renderVars, fileVars, delete, faults>>

-----------------------------------------------------------------------------
Next == \/ \E r \in Rendering : RenderStep(r)
        \/ \E c \in Call : CallStep(c)
        \/ LeaseExpires \/ LeaseLapses \/ Sweep
        \/ AbortJob \/ RemoveVideo \/ DeleteRow
        \/ Poll

Spec == Init /\ [][Next]_vars
=============================================================================
