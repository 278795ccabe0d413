------------------------- MODULE PipelineProperties -------------------------
(***************************************************************************)
(* What Pipeline is expected to guarantee, the fairness its scheduling     *)
(* justifies, and its refinement of JobLifecycle.                          *)
(***************************************************************************)
EXTENDS Pipeline

(* Every variable keeps its type; the queue never exceeds its capacity.    *)
TypeOK ==
  /\ jobs    \in [Job -> Rows(Worker)]
  /\ video   \in [Job -> Worker \cup {None}]
  /\ queue   \in Seq(Job) /\ Len(queue) <= QueueSize
  /\ life    \in Life
  /\ epoch   \in Nat
  /\ todo    \subseteq Job
  /\ pc      \in [Slot -> PC]
  /\ cur     \in [Slot -> Job \cup {None}]
  /\ stamp   \in [Slot -> Nat]
  /\ aborted \in [Slot -> BOOLEAN]
  /\ beat    \in [Slot -> BOOLEAN]
  /\ cancels \in [Job -> Slot \cup {None}]
  /\ create  \in [Job -> {"none", "inserted", "accepted", "refused"}]
  /\ delete  \in [Job -> {"none", "aborted", "videoDone", "done", "failed"}]
  /\ parked  \subseteq Job
  /\ faults  \in Nat
  /\ stops   \in Nat

-----------------------------------------------------------------------------
(* Safety *)

(* A worker that the row still names holds the newest claim of the row:    *)
(* worker_id alone fences (no WHERE clause tests version) because a worker *)
(* that lost its row can never be named by it again while it still works   *)
(* on it (job_repo.go:94-95, 111-112, 166-169).                            *)
Fenced ==
  \A s \in Slot :
    pc[s] \in Claimed /\ OwnedBy(Row(s), Me(s)) => Row(s).version = stamp[s]

(* A job is finished only by a call that holds the claim in force, however *)
(* many stale calls are still running: MarkCompleted and MarkFailed after  *)
(* a lapse, a sweep and a new claim change nothing.                        *)
OnlyClaimantFinishes ==
  [][\A j \in Job :
       jobs[j].status \notin Terminal /\ jobs'[j].status \in Terminal =>
         \E s \in Slot : /\ pc[s] \in Claimed /\ cur[s] = j
                         /\ stamp[s] = jobs[j].version]_vars

(* While the process is up a PENDING job is exactly once in its hands      *)
(* (queued, about to be published, received and not claimed), except for   *)
(* the jobs it parked; a job in any other state is not in them.  So the    *)
(* channel never delivers a job twice and no job is dropped silently       *)
(* (channel.go:29-36, pipeline.go:485-491, 509-515).                       *)
OneTicket ==
  \A j \in Job :
    CASE jobs[j].status = "DELETED" -> Tickets(j) <= 1
      [] jobs[j].status = "PENDING" /\ life \notin {"sweep", "fetch", "down"} ->
           Tickets(j) = IF j \in parked THEN 0 ELSE 1
      [] OTHER -> Tickets(j) = 0

(* retry_count is the number of failures, and a job fails once at most: a  *)
(* claim that lapses, is lost or is refused, a sweep and a stale worker    *)
(* leave it at zero.  So the limit of the sweeps (retry_count < 5,         *)
(* job_repo.go:210, 237, pipeline.go:471, 479) leaves out no active job,   *)
(* nor does it ever stop the recovery of one that takes its process down,  *)
(* and CHECK valid_retry (000001_init_schema.up.sql:59) cannot refuse a    *)
(* MarkFailed.                                                             *)
RetryCountsFailures ==
  \A j \in Job :
    /\ jobs[j].status \in {"PENDING", "PROCESSING"} => jobs[j].retry = 0
    /\ jobs[j].status = "FAILED" => jobs[j].retry = 1

(* The cancel function AbortJob finds under a job id belongs to a call     *)
(* working on that job: an abort never hits the wrong job, even when       *)
(* stale and new calls of several jobs register and unregister in any      *)
(* order (pipeline.go:90-95, 130-135).                                     *)
AbortHitsItsJob ==
  \A j \in Job : cancels[j] # None => cur[cancels[j]] = j

(* A completed job whose URL is that of S3, and that nobody asked to       *)
(* delete, has its object there: stale uploads, recoveries, crashes and    *)
(* failed uploads never cost it (pipeline.go:194-208,                      *)
(* job_handler.go:205-215).  What the uploaded file holds is Render's.     *)
Published(j) == jobs[j].status = "COMPLETED" /\ jobs[j].url = "s3"

CompletedHasVideo ==
  \A j \in Job : Published(j) /\ delete[j] = "none" => video[j] # None

-----------------------------------------------------------------------------
(* Refinement: the row version is the round, a call past its claim holds   *)
(* <<job, version it wrote>>.                                              *)

Phase == [j \in Job |-> jobs[j].status]
Round == [j \in Job |-> jobs[j].version]
Claim == [s \in Slot |-> IF pc[s] \in Claimed THEN <<cur[s], stamp[s]>> ELSE None]

Lifecycle == INSTANCE JobLifecycle WITH phase <- Phase, round <- Round, claim <- Claim

(* Every step of the pipeline is a step the job life cycle allows.         *)
ImplementsLifecycle == Lifecycle!JSpec

-----------------------------------------------------------------------------
(* Fairness.  Goroutines run, timers fire, statements and renderer calls   *)
(* return, and somebody restarts the process.  Nothing is assumed about    *)
(* clients, shutdowns, crashes or faults.                                  *)

Fairness ==
  /\ \A s \in Slot : WF_vars(WorkerStep(s))
  /\ WF_vars(\E s \in Slot : HeartbeatStop(s))
  /\ WF_vars(\E j \in Job : LeaseExpires(j))
  /\ WF_vars(\E j \in Job : SubmitJob(j) \/ SubmitRefused(j))
  /\ WF_vars(\E j \in Job : DeleteVideo(j) \/ DeleteRow(j))
  /\ WF_vars(\E j \in Job : PublishRecovered(j) \/ SkipRecovered(j))
  /\ WF_vars(StartupReclaim \/ StartupFetch \/ StartupDone)
  /\ WF_vars(ScheduledSweep)
  /\ WF_vars(CancelContext \/ CloseQueue \/ Exit \/ SweepPanics)
  /\ WF_vars(Restart)

FairSpec == Spec /\ Fairness

(* No job stays PROCESSING for ever: it is finished, deleted, or its lease *)
(* runs out and a sweep reclaims it, through crashes, aborted calls, lost  *)
(* answers and shutdowns (pipeline.go:494-519).                            *)
NeverStuckProcessing ==
  \A j \in Job : jobs[j].status = "PROCESSING" ~> jobs[j].status # "PROCESSING"

(* A job the process has taken charge of is eventually claimed, deleted or *)
(* parked: nothing blocks the queue.                                       *)
QueueMoves ==
  \A j \in Job : j \in Range(queue) ~> j \notin Range(queue)

(* A graceful shutdown ends: the workers come back and the process exits   *)
(* (pipeline.go:443-463).                                                  *)
ShutdownEnds == life = "cancelled" ~> life = "down"

(* Without faults and stops, a job answered 202 is finished or deleted: the *)
(* create handler, the queue and the workers lose nothing between them     *)
(* (job_handler.go:157-171, pipeline.go:126-216).                          *)
AcceptedFinishes ==
  [](faults = 0 /\ stops = 0) =>
    \A j \in Job : create[j] = "accepted" ~> jobs[j].status \in Terminal \cup {"DELETED"}

-----------------------------------------------------------------------------
(* What the repository says and the code does not do: TLC ends in a        *)
(* counterexample to each of these (DrainFinishesInFlight has no run).     *)

(* README.md:69, "zero risk of duplicate processing": no two workers       *)
(* render the same job.  A worker that lost its lease is not stopped.      *)
NoDuplicateProcessing ==
  \A s, t \in Slot : pc[s] \in Rendering /\ pc[t] \in Rendering /\ cur[s] = cur[t]
                      => s = t

(* job_handler.go:160-161, "let it sit as PENDING and the startup/recovery *)
(* sweep can enqueue it later": the scheduled sweep never looks at PENDING *)
(* rows, so while the process runs nobody does.                            *)
ParkedIsEnqueuedLater ==
  \A j \in Job : j \in parked /\ jobs[j].status = "PENDING"
                   ~> jobs[j].status # "PENDING" \/ Ticketed(j)

(* main.go:245, "drain the pipeline workers (they finish in-flight jobs)": *)
(* once the workers have drained, none of them has left a job PROCESSING.  *)
DrainFinishesInFlight ==
  life = "closed" /\ Drained =>
    \A j \in Job, s \in Slot : ~OwnedBy(jobs[j], Me(s))

(* job_handler.go:176, "Aborts the active process, deletes the S3 video,   *)
(* and removes the job from the DB": when a delete has succeeded and no    *)
(* worker is on the job any more, its video is gone.                       *)
DeleteLeavesNoVideo ==
  \A j \in Job : delete[j] = "done" /\ (\A s \in Slot : cur[s] # j) => video[j] = None
=============================================================================
