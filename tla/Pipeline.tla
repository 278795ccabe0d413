------------------------------ MODULE Pipeline ------------------------------
(***************************************************************************)
(* One orchestrator process (cmd/server/main.go) with its worker pool,     *)
(* in-memory job queue, lease heartbeats, recovery sweeps and the create   *)
(* and delete handlers, over the jobs table and the video store, through   *)
(* crashes, graceful shutdowns and restarts.                               *)
(*                                                                         *)
(* A step is one database statement, one queue operation, one call to the  *)
(* renderer or to the video store, or one cancellation: between two of     *)
(* them any other goroutine may run.  The video store is S3; what          *)
(* renderings do to the files under videos/ is in Render.                  *)
(***************************************************************************)
EXTENDS JobRepo, Sequences, FiniteSets, Functions

CONSTANTS
  Job,         \* job ids
  Slot,        \* the goroutines of the worker pool
  QueueSize,   \* capacity of the channel
  UseService,  \* a renderer service (gRPC or HTTP) is configured
  UseS3,       \* an S3 uploader is configured
  Unwanted,    \* bound: the jobs a client may ask to delete
  MaxFaults,   \* bound: database errors, lost heartbeats, timeouts
  MaxStops     \* bound: crashes and shutdowns

ASSUME QueueAssumption == QueueSize \in Nat \ {0}
ASSUME UnwantedAssumption == Unwanted \subseteq Job
ASSUME ModeAssumption  == UseService \in BOOLEAN /\ UseS3 \in BOOLEAN
ASSUME BoundAssumption == MaxFaults \in Nat /\ MaxStops \in Nat
ASSUME NoneAssumption  == None \notin Job /\ None \notin Slot /\ None \notin Slot \X Nat

VARIABLES
  jobs,     \* the jobs table
  video,    \* worker that last wrote the S3 object videos/<id>.mp4
  queue,    \* ChannelQueue.ch
  life,     \* where main() is
  epoch,    \* process incarnation; worker ids carry a fresh uuid in each
  todo,     \* ids a recovery sweep has still to publish
  pc,       \* per slot, the next statement of worker/processJob
  cur,      \* per slot, the jobID of its processJob call
  stamp,    \* per slot, the row version its claim wrote (history)
  aborted,  \* per slot, its jobCancel was called by AbortJob
  beat,     \* per slot, its heartbeat goroutine is running
  cancels,  \* Pipeline.jobCancels: the slot whose cancel function is stored
  create,   \* per job, progress of the CreateJob request
  delete,   \* per job, progress of the DELETE request
  parked,   \* ids left PENDING and in nobody's hands (history)
  faults,   \* faults so far
  stops     \* crashes and shutdowns so far

callVars == <<pc, cur, stamp, aborted, beat, cancels>>
procVars == <<life, epoch, stops>>
apiVars  == <<create, delete>>
vars == <<jobs, video, queue, todo, parked, faults, callVars, procVars, apiVars>>

Worker == Slot \X Nat
Me(s)  == <<s, epoch>>          \* fmt.Sprintf("worker-%d-%s", id, uuid)

Boot      == {"sweep", "fetch", "publish"}      \* the steps of StartupRecovery
Life      == Boot \cup {"serving", "draining", "cancelled", "closed", "down"}
Up        == life # "down"
CtxDone   == life \in {"cancelled", "closed"}   \* the pipeline's context
JobCtxDone(s) == CtxDone \/ aborted[s]          \* the context of one call

Rendering == {"service", "subprocess"}
Finishing == {"completeS3", "completeLocal"}
Claimed   == {"load", "failLoad"} \cup Rendering \cup {"failRender", "verify", "upload"}
               \cup Finishing
PC        == {"idle", "claim", "exited"} \cup Claimed

Fault   == faults < MaxFaults /\ faults' = faults + 1
NoFault == UNCHANGED faults

-----------------------------------------------------------------------------
(* How long an id stays in the process: queued, about to be published, or  *)
(* received and not yet claimed.                                           *)

Ticketed(j) == \/ j \in Range(queue)
               \/ j \in todo
               \/ create[j] = "inserted"
               \/ \E s \in Slot : pc[s] = "claim" /\ cur[s] = j

Tickets(j) == Cardinality({i \in 1..Len(queue) : queue[i] = j})
            + Cardinality({s \in Slot : pc[s] = "claim" /\ cur[s] = j})
            + (IF j \in todo THEN 1 ELSE 0)
            + (IF create[j] = "inserted" THEN 1 ELSE 0)

RoomForOneMore == Len(queue) <= QueueSize      \* mutant: off by one
Room       == Len(queue) < QueueSize
Publish(j) == queue' = Append(queue, j)

Park(J) == parked' = parked \cup J

-----------------------------------------------------------------------------
Init ==
  /\ jobs    = [j \in Job |-> Absent]
  /\ video   = [j \in Job |-> None]
  /\ queue   = << >>
  /\ life    = "sweep"
  /\ epoch   = 0
  /\ todo    = {}
  /\ pc      = [s \in Slot |-> "idle"]
  /\ cur     = [s \in Slot |-> None]
  /\ stamp   = [s \in Slot |-> 0]
  /\ aborted = [s \in Slot |-> FALSE]
  /\ beat    = [s \in Slot |-> FALSE]
  /\ cancels = [j \in Job |-> None]
  /\ create  = [j \in Job |-> "none"]
  /\ delete  = [j \in Job |-> "none"]
  /\ parked  = {}
  /\ faults  = 0
  /\ stops   = 0

-----------------------------------------------------------------------------
(* processJob, one worker goroutine per slot                               *)

Goto(s, l) == pc' = [pc EXCEPT ![s] = l]

ReturnRegistered(s) ==      \* mutant: the cancel function is left in the map
  /\ Goto(s, "idle")
  /\ cur'     = [cur EXCEPT ![s] = None]
  /\ stamp'   = [stamp EXCEPT ![s] = 0]
  /\ aborted' = [aborted EXCEPT ![s] = FALSE]
  /\ beat'    = [beat EXCEPT ![s] = FALSE]
  /\ UNCHANGED cancels

(* The deferred calls of processJob: the heartbeat and the job's context   *)
(* are cancelled, and whatever cancel function is stored under the job's   *)
(* id is deleted.                                                          *)
Return(s) ==
  /\ Goto(s, "idle")
  /\ cur'     = [cur EXCEPT ![s] = None]
  /\ stamp'   = [stamp EXCEPT ![s] = 0]
  /\ aborted' = [aborted EXCEPT ![s] = FALSE]
  /\ beat'    = [beat EXCEPT ![s] = FALSE]
  /\ cancels' = [cancels EXCEPT ![cur[s]] = None]

SetRow(s, r) == jobs' = [jobs EXCEPT ![cur[s]] = r]
Row(s)       == jobs[cur[s]]

(* The worker loop takes an id; processJob stores its cancel function      *)
(* before it claims.                                                       *)
Receive(s) ==
  /\ pc[s] = "idle" /\ Up /\ queue # << >> /\ ~CtxDone
  /\ queue'   = Tail(queue)
  /\ Goto(s, "claim")
  /\ cur'     = [cur EXCEPT ![s] = Head(queue)]
  /\ cancels' = [cancels EXCEPT ![Head(queue)] = s]
  /\ UNCHANGED <<jobs, video, todo, parked, faults, stamp, aborted, beat, procVars, apiVars>>

(* select may still pick the channel after the context is cancelled: the   *)
(* id it took is dropped                                                   *)
ReceiveAndExit(s) ==
  /\ pc[s] = "idle" /\ queue # << >> /\ CtxDone
  /\ queue' = Tail(queue)
  /\ Park({Head(queue)})
  /\ Goto(s, "exited")
  /\ UNCHANGED <<jobs, video, todo, faults, cur, stamp, aborted, beat, cancels,
                 procVars, apiVars>>

WorkerExitAfterQueue(s) ==  \* mutant: the worker loop has no ctx.Done() case
  /\ pc[s] = "idle" /\ CtxDone /\ queue # << >>
  /\ Goto(s, "exited")
  /\ UNCHANGED <<jobs, video, queue, todo, parked, faults, cur, stamp, aborted, beat,
                 cancels, procVars, apiVars>>

WorkerExit(s) ==
  /\ pc[s] = "idle" /\ CtxDone
  /\ Goto(s, "exited")
  /\ UNCHANGED <<jobs, video, queue, todo, parked, faults, cur, stamp, aborted, beat,
                 cancels, procVars, apiVars>>

ClaimWon(s) ==
  /\ pc[s] = "claim" /\ ~CtxDone /\ CanClaim(Row(s))
  /\ SetRow(s, ClaimJobCAS(Row(s), Me(s)))
  /\ stamp' = [stamp EXCEPT ![s] = Row(s).version + 1]
  /\ Goto(s, "load")
  /\ UNCHANGED <<video, queue, todo, parked, faults, cur, aborted, beat, cancels,
                 procVars, apiVars>>

ClaimRefusedStops(s) ==     \* mutant: a refused claim ends the worker's loop
  /\ pc[s] = "claim" /\ ~CtxDone /\ ~CanClaim(Row(s))
  /\ Goto(s, "exited")
  /\ cur'     = [cur EXCEPT ![s] = None]
  /\ cancels' = [cancels EXCEPT ![cur[s]] = None]
  /\ UNCHANGED <<jobs, video, queue, todo, parked, faults, stamp, aborted, beat,
                 procVars, apiVars>>

ClaimRefused(s) ==
  /\ pc[s] = "claim" /\ ~CtxDone /\ ~CanClaim(Row(s))
  /\ Return(s)
  /\ UNCHANGED <<jobs, video, queue, todo, parked, faults, procVars, apiVars>>

(* ClaimJobCAS returns an error: the statement did not run, or it did and  *)
(* the answer was lost.  Either way the call returns.                      *)
ClaimError(s) ==
  /\ pc[s] = "claim"
  /\ \/ CtxDone /\ NoFault
     \/ ~CtxDone /\ Fault
  /\ Park({cur[s]})
  /\ Return(s)
  /\ UNCHANGED <<jobs, video, queue, todo, procVars, apiVars>>

ClaimAnswerLost(s) ==
  /\ pc[s] = "claim" /\ ~CtxDone /\ CanClaim(Row(s)) /\ Fault
  /\ SetRow(s, ClaimJobCAS(Row(s), Me(s)))
  /\ Return(s)
  /\ UNCHANGED <<video, queue, todo, parked, procVars, apiVars>>

(* GetJobByID, then startHeartbeat *)
LoadJob(s) ==
  /\ pc[s] = "load" /\ ~CtxDone /\ Row(s).status \in HasRow
  /\ Goto(s, IF UseService THEN "service" ELSE "subprocess")
  /\ beat' = [beat EXCEPT ![s] = TRUE]
  /\ UNCHANGED <<jobs, video, queue, todo, parked, faults, cur, stamp, aborted, cancels,
                 procVars, apiVars>>

LoadError(s) ==
  /\ pc[s] = "load"
  /\ \/ (CtxDone \/ Row(s).status \notin HasRow) /\ NoFault
     \/ ~CtxDone /\ Row(s).status \in HasRow /\ Fault
  /\ Goto(s, "failLoad")
  /\ UNCHANGED <<jobs, video, queue, todo, parked, cur, stamp, aborted, beat, cancels,
                 procVars, apiVars>>

RenderOk(s) ==
  /\ pc[s] \in Rendering /\ ~JobCtxDone(s)
  /\ Goto(s, "verify")
  /\ UNCHANGED <<jobs, video, queue, todo, parked, faults, cur, stamp, aborted, beat,
                 cancels, procVars, apiVars>>

(* the service failed, its breaker is open, or the context is cancelled *)
ServiceError(s) ==
  /\ pc[s] = "service"
  /\ Goto(s, "subprocess")
  /\ UNCHANGED <<jobs, video, queue, todo, parked, faults, cur, stamp, aborted, beat,
                 cancels, procVars, apiVars>>

SubprocessError(s) ==
  /\ pc[s] = "subprocess"
  /\ Goto(s, "failRender")
  /\ UNCHANGED <<jobs, video, queue, todo, parked, faults, cur, stamp, aborted, beat,
                 cancels, procVars, apiVars>>

(* MarkFailed: on the pipeline's context after a load error, on the job's  *)
(* own context after a render error.                                       *)
FailCtxDone(s) == IF pc[s] = "failLoad" THEN CtxDone ELSE JobCtxDone(s)

MarkJobFailed(s) ==
  /\ pc[s] \in {"failLoad", "failRender"} /\ ~FailCtxDone(s)
  /\ jobs' = IF OwnedBy(Row(s), Me(s))
             THEN [jobs EXCEPT ![cur[s]] = MarkFailed(Row(s))] ELSE jobs
  /\ Return(s)
  /\ UNCHANGED <<video, queue, todo, parked, faults, procVars, apiVars>>

MarkFailedError(s) ==
  /\ pc[s] \in {"failLoad", "failRender"}
  /\ \/ FailCtxDone(s) /\ NoFault
     \/ ~FailCtxDone(s) /\ Fault
  /\ Return(s)
  /\ UNCHANGED <<jobs, video, queue, todo, parked, procVars, apiVars>>

OwnershipValid(s) ==
  /\ pc[s] = "verify" /\ ~CtxDone /\ VerifyOwnership(Row(s), Me(s))
  /\ Goto(s, IF UseS3 THEN "upload" ELSE "completeLocal")
  /\ UNCHANGED <<jobs, video, queue, todo, parked, faults, cur, stamp, aborted, beat,
                 cancels, procVars, apiVars>>

OwnershipLost(s) ==
  /\ pc[s] = "verify"
  /\ \/ (CtxDone \/ ~VerifyOwnership(Row(s), Me(s))) /\ NoFault
     \/ ~CtxDone /\ VerifyOwnership(Row(s), Me(s)) /\ Fault
  /\ Return(s)
  /\ UNCHANGED <<jobs, video, queue, todo, parked, procVars, apiVars>>

(* UploadVideo runs on the pipeline's context: AbortJob does not stop it *)
UploadOk(s) ==
  /\ pc[s] = "upload" /\ ~CtxDone
  /\ video' = [video EXCEPT ![cur[s]] = Me(s)]
  /\ Goto(s, "completeS3")
  /\ UNCHANGED <<jobs, queue, todo, parked, faults, cur, stamp, aborted, beat, cancels,
                 procVars, apiVars>>

UploadErrorIgnored(s) ==       \* mutant: the S3 URL is kept after a failed upload
  /\ pc[s] = "upload"
  /\ Goto(s, "completeS3")
  /\ UNCHANGED <<jobs, video, queue, todo, parked, faults, cur, stamp, aborted, beat,
                 cancels, procVars, apiVars>>

(* PutObject failed, or it worked and presigning did not: local URL *)
UploadError(s) ==
  /\ pc[s] = "upload"
  /\ \/ UNCHANGED video
     \/ ~CtxDone /\ video' = [video EXCEPT ![cur[s]] = Me(s)]
  /\ Goto(s, "completeLocal")
  /\ UNCHANGED <<jobs, queue, todo, parked, faults, cur, stamp, aborted, beat, cancels,
                 procVars, apiVars>>

UrlOf(s) == IF pc[s] = "completeS3" THEN "s3" ELSE "local"

CompletesJob(s) == pc[s] \in Finishing /\ ~JobCtxDone(s) /\ OwnedBy(Row(s), Me(s))

(* MarkCompleted, its answer received or lost: the call returns *)
MarkJobCompleted(s) ==
  /\ CompletesJob(s)
  /\ SetRow(s, MarkCompleted(Row(s), UrlOf(s)))
  /\ Return(s)
  /\ UNCHANGED <<video, queue, todo, parked, faults, procVars, apiVars>>

(* ErrOptimisticLock, a cancelled context, or a database error *)
MarkCompletedError(s) ==
  /\ pc[s] \in Finishing
  /\ \/ ~CompletesJob(s) /\ NoFault
     \/ CompletesJob(s) /\ Fault
  /\ Return(s)
  /\ UNCHANGED <<jobs, video, queue, todo, parked, procVars, apiVars>>

WorkerStep(s) ==
  \/ Receive(s) \/ ReceiveAndExit(s) \/ WorkerExit(s)
  \/ ClaimWon(s) \/ ClaimRefused(s) \/ ClaimError(s) \/ ClaimAnswerLost(s)
  \/ LoadJob(s) \/ LoadError(s)
  \/ RenderOk(s) \/ ServiceError(s) \/ SubprocessError(s)
  \/ MarkJobFailed(s) \/ MarkFailedError(s)
  \/ OwnershipValid(s) \/ OwnershipLost(s)
  \/ UploadOk(s) \/ UploadError(s)
  \/ MarkJobCompleted(s) \/ MarkCompletedError(s)

-----------------------------------------------------------------------------
(* Heartbeats and the passing of time                                      *)

(* One tick of startHeartbeat.  ErrOptimisticLock ends the heartbeat and   *)
(* nothing else; a database error leaves things as they are.               *)
Heartbeat(s) ==
  /\ beat[s]
  /\ \/ /\ OwnedBy(Row(s), Me(s))
        /\ SetRow(s, ExtendLease(Row(s)))
        /\ UNCHANGED beat
     \/ /\ ~OwnedBy(Row(s), Me(s))
        /\ beat' = [beat EXCEPT ![s] = FALSE]
        /\ UNCHANGED jobs
  /\ UNCHANGED <<video, queue, todo, parked, faults, pc, cur, stamp, aborted, cancels,
                 procVars, apiVars>>

HeartbeatStop(s) ==
  /\ beat[s] /\ JobCtxDone(s)
  /\ beat' = [beat EXCEPT ![s] = FALSE]
  /\ UNCHANGED <<jobs, video, queue, todo, parked, faults, pc, cur, stamp, aborted,
                 cancels, procVars, apiVars>>

KeptAlive(j) ==
  \E s \in Slot : /\ pc[s] \in Claimed /\ cur[s] = j /\ jobs[j].worker = Me(s)
                  /\ beat[s] \/ pc[s] \in {"load", "failLoad"}

(* The clock passes the lease of a row nobody keeps alive. *)
LeaseExpires(j) ==
  /\ jobs[j].status = "PROCESSING" /\ jobs[j].lease = "live" /\ ~KeptAlive(j)
  /\ jobs' = [jobs EXCEPT ![j] = Lapse(@)]
  /\ UNCHANGED <<video, queue, todo, parked, faults, callVars, procVars, apiVars>>

(* Three ticks fit in a lease, so a lease runs out under a heartbeat, or   *)
(* before it could start, only if the ticks fail or the process stalls.    *)
LeaseLapses(j) ==
  /\ jobs[j].status = "PROCESSING" /\ jobs[j].lease = "live" /\ KeptAlive(j) /\ Fault
  /\ jobs' = [jobs EXCEPT ![j] = Lapse(@)]
  /\ UNCHANGED <<video, queue, todo, parked, callVars, procVars, apiVars>>

-----------------------------------------------------------------------------
(* StartupRecovery and StartScheduledRecovery                              *)

StartupReclaim ==
  /\ life = "sweep"
  /\ \/ jobs' = RecoverStalledJobs(jobs) /\ NoFault
     \/ UNCHANGED jobs /\ Fault
  /\ life' = "fetch"
  /\ UNCHANGED <<video, queue, todo, parked, callVars, epoch, stops, apiVars>>

StartupFetch ==
  /\ life = "fetch"
  /\ todo' = {j \in Job : IsPending(jobs[j])}
  /\ life' = "publish"
  /\ parked' = {}
  /\ UNCHANGED <<jobs, video, queue, faults, callVars, epoch, stops, apiVars>>

(* GetPendingJobs failed: the server starts without re-enqueueing *)
StartupFetchError ==
  /\ life = "fetch" /\ Fault
  /\ life' = "serving"
  /\ Park({j \in Job : IsPending(jobs[j])})
  /\ UNCHANGED <<jobs, video, queue, todo, callVars, epoch, stops, apiVars>>

StartupDone ==
  /\ life = "publish" /\ todo = {}
  /\ life' = "serving"
  /\ UNCHANGED <<jobs, video, queue, todo, parked, faults, callVars, epoch, stops, apiVars>>

(* One tick of the scheduled sweep.  Its context is main's Background: it  *)
(* is never cancelled and outlives the worker pool.                        *)
SweepDue == /\ life \in {"serving", "draining", "cancelled", "closed"} /\ todo = {}
            /\ \E j \in Job : Stalled(jobs[j])

SweepOfAllPending ==           \* mutant: every PENDING row is published, queued or not
  /\ SweepDue
  /\ jobs' = RecoverStalledJobs(jobs)
  /\ todo' = {j \in Job : IsPending(jobs'[j])}
  /\ UNCHANGED <<video, queue, parked, faults, callVars, procVars, apiVars>>

ScheduledSweep ==
  /\ SweepDue
  /\ jobs' = RecoverStalledJobs(jobs)
  /\ todo' = {j \in Job : Stalled(jobs[j])}
  /\ UNCHANGED <<video, queue, parked, faults, callVars, procVars, apiVars>>

(* The rows were reclaimed and the ids were lost on the way back. *)
SweepAnswerLost ==
  /\ SweepDue /\ Fault
  /\ jobs' = RecoverStalledJobs(jobs)
  /\ Park({j \in Job : Stalled(jobs[j])})
  /\ UNCHANGED <<video, queue, todo, callVars, procVars, apiVars>>

PublishRecovered(j) ==
  /\ j \in todo /\ life # "closed" /\ Room
  /\ Publish(j)
  /\ todo' = todo \ {j}
  /\ UNCHANGED <<jobs, video, parked, faults, callVars, procVars, apiVars>>

SkipRecovered(j) ==     \* "Queue full ..., skipping"
  /\ j \in todo /\ life # "closed" /\ ~Room
  /\ todo' = todo \ {j}
  /\ Park({j})
  /\ UNCHANGED <<jobs, video, queue, faults, callVars, procVars, apiVars>>

-----------------------------------------------------------------------------
(* The CreateJob and DeleteJobHandler requests                             *)

InsertJob(j) ==
  /\ life = "serving" /\ create[j] = "none"
  /\ jobs'   = [jobs EXCEPT ![j] = CreateJob(@)]
  /\ create' = [create EXCEPT ![j] = "inserted"]
  /\ UNCHANGED <<video, queue, todo, parked, faults, callVars, procVars, delete>>

(* 500 although the row is there: nothing submits it *)
InsertAnswerLost(j) ==
  /\ life = "serving" /\ create[j] = "none" /\ Fault
  /\ jobs'   = [jobs EXCEPT ![j] = CreateJob(@)]
  /\ create' = [create EXCEPT ![j] = "refused"]
  /\ Park({j})
  /\ UNCHANGED <<video, queue, todo, callVars, procVars, delete>>

SubmitJob(j) ==
  /\ create[j] = "inserted" /\ Up /\ life # "closed" /\ Room
  /\ Publish(j)
  /\ create' = [create EXCEPT ![j] = "accepted"]
  /\ UNCHANGED <<jobs, video, todo, parked, faults, callVars, procVars, delete>>

SubmitRefusedAccepted(j) ==    \* mutant: the handler ignores the error of SubmitJob
  /\ create[j] = "inserted" /\ Up /\ (life = "closed" \/ ~Room)
  /\ create' = [create EXCEPT ![j] = "accepted"]
  /\ Park({j})
  /\ UNCHANGED <<jobs, video, queue, todo, faults, callVars, procVars, delete>>

(* 503 on a full channel; a send on the closed channel panics and the      *)
(* router's Recoverer turns that into a 500.  The row stays PENDING.       *)
SubmitRefused(j) ==
  /\ create[j] = "inserted" /\ Up /\ (life = "closed" \/ ~Room)
  /\ create' = [create EXCEPT ![j] = "refused"]
  /\ Park({j})
  /\ UNCHANGED <<jobs, video, queue, todo, faults, callVars, procVars, delete>>

(* The handler looks the row up only when it deletes it, so a request that  *)
(* is repeated after its answer was lost does all of this again.           *)
AbortJob(j) ==
  /\ j \in Unwanted
  /\ life = "serving" /\ delete[j] \in {"none", "failed"} /\ jobs[j].status # "ABSENT"
  /\ delete'  = [delete EXCEPT ![j] = "aborted"]
  /\ aborted' = IF cancels[j] = None THEN aborted
                ELSE [aborted EXCEPT ![cancels[j]] = TRUE]
  /\ UNCHANGED <<jobs, video, queue, todo, parked, faults, pc, cur, stamp, beat, cancels,
                 procVars, create>>

(* The error of DeleteVideoFromS3 is only logged; without S3 it removes    *)
(* files, which are in Render.                                             *)
DeleteVideo(j) ==
  /\ delete[j] = "aborted" /\ Up
  /\ \/ UseS3 /\ video' = [video EXCEPT ![j] = None] /\ NoFault
     \/ UseS3 /\ UNCHANGED video /\ Fault
     \/ ~UseS3 /\ UNCHANGED video /\ NoFault
  /\ delete' = [delete EXCEPT ![j] = "videoDone"]
  /\ UNCHANGED <<jobs, queue, todo, parked, callVars, procVars, create>>

DeleteRow(j) ==
  /\ delete[j] = "videoDone" /\ Up
  /\ jobs'   = [jobs EXCEPT ![j] = DeleteJob(@)]
  /\ delete' = [delete EXCEPT ![j] = "done"]
  /\ UNCHANGED <<video, queue, todo, parked, faults, callVars, procVars, create>>

(* 500 with the call aborted and the video gone, and the row too if only   *)
(* the answer was lost; the client may ask again                           *)
DeleteRowError(j) ==
  /\ delete[j] = "videoDone" /\ Up /\ Fault
  /\ UNCHANGED jobs \/ jobs' = [jobs EXCEPT ![j] = DeleteJob(@)]
  /\ delete' = [delete EXCEPT ![j] = "failed"]
  /\ UNCHANGED <<video, queue, todo, parked, callVars, procVars, create>>

-----------------------------------------------------------------------------
(* Shutdown, crash and restart of the process                              *)

MayStop == stops < MaxStops /\ stops' = stops + 1

HandlersIdle == \A j \in Job : create[j] # "inserted"
                            /\ delete[j] \notin {"aborted", "videoDone"}
Drained      == \A s \in Slot : pc[s] = "exited"

(* SIGTERM: server.Shutdown accepts no new request *)
ShutdownServer ==
  /\ life = "serving" /\ MayStop
  /\ life' = "draining"
  /\ UNCHANGED <<jobs, video, queue, todo, parked, faults, callVars, epoch, apiVars>>

(* GracefulShutdown step 1; requests still running after 10 s are left behind *)
CancelContext ==
  /\ life = "draining"
  /\ \/ HandlersIdle /\ NoFault
     \/ ~HandlersIdle /\ Fault
  /\ life' = "cancelled"
  /\ UNCHANGED <<jobs, video, queue, todo, parked, callVars, epoch, stops, apiVars>>

(* step 2 *)
CloseQueue ==
  /\ life = "cancelled"
  /\ life' = "closed"
  /\ UNCHANGED <<jobs, video, queue, todo, parked, faults, callVars, epoch, stops, apiVars>>

(* What ends with the process: goroutines, the channel, open requests. *)
Die ==
  /\ life'    = "down"
  /\ queue'   = << >>
  /\ todo'    = {}
  /\ pc'      = [s \in Slot |-> "exited"]
  /\ cur'     = [s \in Slot |-> None]
  /\ stamp'   = [s \in Slot |-> 0]
  /\ aborted' = [s \in Slot |-> FALSE]
  /\ beat'    = [s \in Slot |-> FALSE]
  /\ cancels' = [j \in Job |-> None]
  /\ create'  = [j \in Job |-> IF create[j] = "inserted" THEN "refused" ELSE create[j]]
  /\ delete'  = [j \in Job |-> IF delete[j] \in {"aborted", "videoDone"}
                               THEN "failed" ELSE delete[j]]
  /\ parked'  = parked \cup {j \in Job : Ticketed(j)}
  /\ UNCHANGED <<jobs, video, epoch>>

(* step 3: all workers are back, or 30 s have passed *)
Exit ==
  /\ life = "closed"
  /\ \/ Drained /\ NoFault
     \/ ~Drained /\ Fault
  /\ Die
  /\ UNCHANGED stops

(* the sweep sends on the closed channel: an unrecovered panic *)
SweepPanics ==
  /\ life = "closed" /\ todo # {}
  /\ Die
  /\ UNCHANGED <<faults, stops>>

Crash ==
  /\ Up /\ MayStop
  /\ Die
  /\ UNCHANGED faults

Restart ==
  /\ life = "down"
  /\ life'  = "sweep"
  /\ epoch' = epoch + 1
  /\ pc'    = [s \in Slot |-> "idle"]
  /\ UNCHANGED <<jobs, video, queue, todo, parked, faults, cur, stamp, aborted, beat,
                 cancels, stops, apiVars>>

-----------------------------------------------------------------------------
SweepStep == \/ StartupReclaim \/ StartupFetch \/ StartupFetchError \/ StartupDone
             \/ ScheduledSweep \/ SweepAnswerLost
             \/ \E j \in Job : PublishRecovered(j) \/ SkipRecovered(j)

ApiStep(j) == \/ InsertJob(j) \/ InsertAnswerLost(j) \/ SubmitJob(j) \/ SubmitRefused(j)
              \/ AbortJob(j) \/ DeleteVideo(j) \/ DeleteRow(j) \/ DeleteRowError(j)

ProcessStep == \/ ShutdownServer \/ CancelContext \/ CloseQueue
               \/ Exit \/ SweepPanics \/ Crash \/ Restart

Next == \/ \E s \in Slot : WorkerStep(s) \/ Heartbeat(s) \/ HeartbeatStop(s)
        \/ \E j \in Job : LeaseExpires(j) \/ LeaseLapses(j) \/ ApiStep(j)
        \/ SweepStep
        \/ ProcessStep

Spec == Init /\ [][Next]_vars
=============================================================================
