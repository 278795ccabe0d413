--------------------------- MODULE PipelineProofs ---------------------------
(***************************************************************************)
(* Theorems about Pipeline, for any set of jobs, any worker pool, any      *)
(* queue capacity and any number of faults, crashes and restarts.          *)
(***************************************************************************)
EXTENDS PipelineProperties, TLAPS

(* A slot works on a job exactly while it is in a call, only a call that   *)
(* has claimed has a heartbeat, and a process that is down runs no worker. *)
Busy ==
  \A s \in Slot : /\ cur[s] = None <=> pc[s] \in {"idle", "exited"}
                  /\ beat[s] => pc[s] \in Claimed
                  /\ life = "down" => pc[s] = "exited"

TypeInv == TypeOK /\ Busy

-----------------------------------------------------------------------------
(* Rows *)

(* Every statement of job_repo.go maps rows to rows.                       *)
LEMMA RowTypes ==
  ASSUME NEW W, NEW r \in Rows(W)
  PROVE  /\ r.status \in Status /\ r.version \in Nat
         /\ CreateJob(r) \in Rows(W)
         /\ \A w \in W : ClaimJobCAS(r, w) \in Rows(W)
         /\ ExtendLease(r) \in Rows(W)
         /\ \A u \in Url : MarkCompleted(r, u) \in Rows(W)
         /\ MarkFailed(r) \in Rows(W)
         /\ Lapse(r) \in Rows(W)
         /\ Recover(r) \in Rows(W)
         /\ DeleteJob(r) \in Rows(W)
         /\ Absent \in Rows(W)
<1> USE DEF Rows
<1>1. r.status \in Status /\ r.version \in Nat /\ r.version + 1 \in Nat /\ r.retry + 1 \in Nat
  OBVIOUS
<1>2. CreateJob(r) \in Rows(W)
  BY DEF CreateJob, Status, HasRow
<1>3. \A w \in W : ClaimJobCAS(r, w) \in Rows(W)
  BY <1>1 DEF ClaimJobCAS, Status, HasRow, Lease
<1>4. ExtendLease(r) \in Rows(W) /\ Lapse(r) \in Rows(W)
  BY DEF ExtendLease, Lapse, Lease
<1>5. \A u \in Url : MarkCompleted(r, u) \in Rows(W)
  BY <1>1 DEF MarkCompleted, Status, HasRow, Terminal
<1>6. MarkFailed(r) \in Rows(W)
  BY <1>1 DEF MarkFailed, Status, HasRow, Terminal
<1>7. Recover(r) \in Rows(W)
  BY <1>1 DEF Recover, Status, HasRow, Lease
<1>8. Absent \in Rows(W)
  BY DEF Absent, Status, Lease, Url
<1>9. DeleteJob(r) \in Rows(W)
  BY DEF DeleteJob, Absent, Status, Lease, Url
<1> QED
  BY <1>1, <1>2, <1>3, <1>4, <1>5, <1>6, <1>7, <1>8, <1>9

LEMMA RecoverTypes ==
  ASSUME TypeOK
  PROVE  RecoverStalledJobs(jobs) \in [Job -> Rows(Worker)]
BY RowTypes DEF TypeOK, RecoverStalledJobs

LEMMA QueueTypes ==
  ASSUME TypeOK, queue # << >>
  PROVE  /\ Head(queue) \in Job
         /\ Tail(queue) \in Seq(Job) /\ Len(Tail(queue)) <= QueueSize
BY QueueAssumption DEF TypeOK

LEMMA PublishTypes ==
  ASSUME TypeOK, Room, NEW j \in Job, Publish(j)
  PROVE  queue' \in Seq(Job) /\ Len(queue') <= QueueSize
BY QueueAssumption DEF TypeOK, Room, Publish

LEMMA CallTypes ==
  ASSUME TypeInv, NEW s \in Slot, pc[s] \in {"claim"} \cup Claimed
  PROVE  cur[s] \in Job /\ Row(s) \in Rows(Worker) /\ Me(s) \in Worker
<1>1. pc[s] \notin {"idle", "exited"}
  BY DEF Claimed, Rendering, Finishing
<1> QED
  BY <1>1 DEF TypeInv, TypeOK, Busy, Row, Me, Worker

LEMMA FaultTypes ==
  ASSUME TypeOK, NoFault \/ Fault
  PROVE  faults' \in Nat
BY DEF TypeOK, NoFault, Fault

-----------------------------------------------------------------------------
(* Type correctness *)

LEMMA TypeInit == Init => TypeInv
<1> SUFFICES ASSUME Init PROVE TypeInv
  OBVIOUS
<1>1. jobs \in [Job -> Rows(Worker)]
  BY RowTypes DEF Init, Rows, Absent, Status, Lease, Url
<1>2. queue \in Seq(Job) /\ Len(queue) <= QueueSize
  BY QueueAssumption DEF Init
<1> QED
  BY <1>1, <1>2 DEF Init, TypeInv, TypeOK, Busy, Life, Boot, PC

LEMMA DieTypes ==
  ASSUME TypeInv, Die, faults' \in Nat, stops' \in Nat
  PROVE  TypeInv'
<1>1. create' \in [Job -> {"none", "inserted", "accepted", "refused"}]
  BY DEF TypeInv, TypeOK, Die
<1>2. delete' \in [Job -> {"none", "aborted", "videoDone", "done", "failed"}]
  BY DEF TypeInv, TypeOK, Die
<1>3. queue' \in Seq(Job) /\ Len(queue') <= QueueSize
  BY QueueAssumption DEF Die
<1>4. Busy' /\ pc' \in [Slot -> PC] /\ life' \in Life
  BY DEF Die, Busy, PC, Life
<1>5. parked' \subseteq Job
  BY DEF TypeInv, TypeOK, Die
<1> QED
  BY <1>1, <1>2, <1>3, <1>4, <1>5 DEF TypeInv, TypeOK, Die

LEMMA WorkerTypeStep ==
  ASSUME TypeInv, NEW s \in Slot, WorkerStep(s) \/ Heartbeat(s) \/ HeartbeatStop(s)
  PROVE  TypeInv'
<1> USE NoneAssumption DEF TypeInv, TypeOK, Busy, PC, Claimed, Rendering, Finishing, Goto,
                           procVars, apiVars
<1>1. CASE Receive(s)
  BY <1>1, QueueTypes DEF Receive
<1>2. CASE ReceiveAndExit(s)
  BY <1>2, QueueTypes DEF ReceiveAndExit, Park
<1>3. CASE WorkerExit(s)
  BY <1>3 DEF WorkerExit
<1>4. CASE ClaimWon(s)
  <2>1. jobs' \in [Job -> Rows(Worker)]
    BY <1>4, CallTypes, RowTypes DEF ClaimWon, SetRow
  <2>2. stamp' \in [Slot -> Nat]
    <3>1. Row(s).version \in Nat
      BY <1>4, CallTypes, RowTypes DEF ClaimWon
    <3>2. Row(s).version + 1 \in Nat
      BY <3>1
    <3> QED
      BY <1>4, <3>2 DEF ClaimWon
  <2> QED
    BY <1>4, <2>1, <2>2 DEF ClaimWon
<1>5. CASE ClaimRefused(s)
  BY <1>5 DEF ClaimRefused, Return
<1>6. CASE ClaimError(s)
  <2>1. NoFault \/ Fault
    BY <1>6 DEF ClaimError
  <2>2. faults' \in Nat
    BY <2>1, FaultTypes
  <2> QED
    BY <1>6, <2>2, CallTypes DEF ClaimError, Return, Park
<1>7. CASE ClaimAnswerLost(s)
  <2>1. jobs' \in [Job -> Rows(Worker)]
    BY <1>7, CallTypes, RowTypes DEF ClaimAnswerLost, SetRow
  <2> QED
    BY <1>7, <2>1, FaultTypes DEF ClaimAnswerLost, Return
<1>8. CASE LoadJob(s)
  BY <1>8 DEF LoadJob
<1>9. CASE LoadError(s)
  BY <1>9 DEF LoadError, Fault, NoFault
<1>10. CASE RenderOk(s)
  BY <1>10 DEF RenderOk, Me, Worker
<1>11. CASE ServiceError(s)
  BY <1>11 DEF ServiceError
<1>12. CASE SubprocessError(s)
  BY <1>12 DEF SubprocessError
<1>13. CASE MarkJobFailed(s)
  BY <1>13, RowTypes DEF MarkJobFailed, Return, Row
<1>14. CASE MarkFailedError(s)
  <2>1. NoFault \/ Fault
    BY <1>14 DEF MarkFailedError
  <2>2. faults' \in Nat
    BY <2>1, FaultTypes
  <2> QED
    BY <1>14, <2>2 DEF MarkFailedError, Return
<1>15. CASE OwnershipValid(s)
  BY <1>15 DEF OwnershipValid
<1>16. CASE OwnershipLost(s)
  <2>1. NoFault \/ Fault
    BY <1>16 DEF OwnershipLost
  <2>2. faults' \in Nat
    BY <2>1, FaultTypes
  <2> QED
    BY <1>16, <2>2 DEF OwnershipLost, Return
<1>17. CASE UploadOk(s)
  BY <1>17 DEF UploadOk, Me, Worker
<1>18. CASE UploadError(s)
  <2>1. video' \in [Job -> Worker \cup {None}]
    <3>1. Me(s) \in Worker
      BY DEF Me, Worker
    <3>2. video' = video \/ video' = [video EXCEPT ![cur[s]] = Me(s)]
      BY <1>18 DEF UploadError
    <3> QED
      BY <3>1, <3>2
  <2> QED
    BY <1>18, <2>1 DEF UploadError
<1>19. CASE MarkJobCompleted(s)
  BY <1>19, RowTypes DEF MarkJobCompleted, CompletesJob, Return, SetRow, Row, UrlOf, Url
<1>20. CASE MarkCompletedError(s)
  <2>1. NoFault \/ Fault
    BY <1>20 DEF MarkCompletedError
  <2>2. faults' \in Nat
    BY <2>1, FaultTypes
  <2> QED
    BY <1>20, <2>2 DEF MarkCompletedError, Return
<1>21. CASE Heartbeat(s)
  <2>1. jobs' \in [Job -> Rows(Worker)]
    <3>1. cur[s] \in Job /\ Row(s) \in Rows(Worker)
      BY <1>21, CallTypes DEF Heartbeat
    <3>2. ExtendLease(Row(s)) \in Rows(Worker)
      BY <3>1, RowTypes
    <3>3. jobs' = jobs \/ jobs' = [jobs EXCEPT ![cur[s]] = ExtendLease(Row(s))]
      BY <1>21 DEF Heartbeat, SetRow
    <3> QED
      BY <3>1, <3>2, <3>3
  <2>2. beat' \in [Slot -> BOOLEAN] /\ \A t \in Slot : beat'[t] => beat[t]
    BY <1>21 DEF Heartbeat
  <2> QED
    BY <1>21, <2>1, <2>2 DEF Heartbeat
<1>22. CASE HeartbeatStop(s)
  BY <1>22 DEF HeartbeatStop
<1> QED
  BY <1>1, <1>2, <1>3, <1>4, <1>5, <1>6, <1>7, <1>8, <1>9, <1>10, <1>11, <1>12, <1>13,
     <1>14, <1>15, <1>16, <1>17, <1>18, <1>19, <1>20, <1>21, <1>22 DEF WorkerStep

LEMMA JobTypeStep ==
  ASSUME TypeInv, NEW j \in Job,
         \/ LeaseExpires(j) \/ LeaseLapses(j)
         \/ PublishRecovered(j) \/ SkipRecovered(j) \/ ApiStep(j)
  PROVE  TypeInv'
<1> USE DEF TypeInv, TypeOK, Busy, PC, callVars, procVars, apiVars
<1>1. CASE LeaseExpires(j)
  BY <1>1, RowTypes DEF LeaseExpires
<1>2. CASE LeaseLapses(j)
  BY <1>2, RowTypes, FaultTypes DEF LeaseLapses
<1>3. CASE PublishRecovered(j)
  BY <1>3, PublishTypes DEF PublishRecovered
<1>4. CASE SkipRecovered(j)
  BY <1>4 DEF SkipRecovered, Park
<1>5. CASE InsertJob(j)
  BY <1>5, RowTypes DEF InsertJob
<1>12. CASE InsertAnswerLost(j)
  BY <1>12, RowTypes DEF InsertAnswerLost, Park, Fault
<1>6. CASE SubmitJob(j)
  BY <1>6, PublishTypes DEF SubmitJob
<1>7. CASE SubmitRefused(j)
  BY <1>7 DEF SubmitRefused, Park
<1>8. CASE AbortJob(j)
  BY <1>8 DEF AbortJob
<1>9. CASE DeleteVideo(j)
  <2>1. NoFault \/ Fault
    BY <1>9 DEF DeleteVideo
  <2>2. faults' \in Nat
    BY <2>1, FaultTypes
  <2>3. video' \in [Job -> Worker \cup {None}]
    BY <1>9 DEF DeleteVideo
  <2> QED
    BY <1>9, <2>2, <2>3 DEF DeleteVideo
<1>10. CASE DeleteRow(j)
  BY <1>10, RowTypes DEF DeleteRow
<1>11. CASE DeleteRowError(j)
  <2>1. jobs' \in [Job -> Rows(Worker)]
    <3>1. UNCHANGED jobs \/ jobs' = [jobs EXCEPT ![j] = DeleteJob(@)]
      BY <1>11 DEF DeleteRowError
    <3>2. DeleteJob(jobs[j]) \in Rows(Worker)
      BY RowTypes
    <3> QED
      BY <3>1, <3>2
  <2>2. faults' \in Nat
    BY <1>11, FaultTypes DEF DeleteRowError
  <2> QED
    BY <1>11, <2>1, <2>2 DEF DeleteRowError
<1> QED
  BY <1>1, <1>2, <1>3, <1>4, <1>5, <1>6, <1>7, <1>8, <1>9, <1>10, <1>11, <1>12 DEF ApiStep

LEMMA ProcessTypeStep ==
  ASSUME TypeInv,
         \/ StartupReclaim \/ StartupFetch \/ StartupFetchError \/ StartupDone
         \/ ScheduledSweep \/ SweepAnswerLost \/ ProcessStep
  PROVE  TypeInv'
<1> USE DEF TypeInv, TypeOK, Busy, PC, Claimed, Life, Boot, callVars, apiVars, procVars
<1>1. CASE StartupReclaim
  BY <1>1, RecoverTypes DEF StartupReclaim, Fault, NoFault
<1>2. CASE StartupFetch
  BY <1>2 DEF StartupFetch
<1>3. CASE StartupFetchError
  BY <1>3 DEF StartupFetchError, Park, Fault
<1>4. CASE StartupDone
  BY <1>4 DEF StartupDone
<1>5. CASE ScheduledSweep \/ SweepAnswerLost
  BY <1>5, RecoverTypes DEF ScheduledSweep, SweepAnswerLost, Park, Fault
<1>6. CASE ShutdownServer
  BY <1>6 DEF ShutdownServer, MayStop
<1>7. CASE CancelContext
  BY <1>7 DEF CancelContext, Fault, NoFault
<1>8. CASE CloseQueue
  BY <1>8 DEF CloseQueue
<1>9. CASE Exit
  BY <1>9, FaultTypes, DieTypes DEF Exit
<1>10. CASE SweepPanics
  BY <1>10, DieTypes DEF SweepPanics
<1>11. CASE Crash
  BY <1>11, DieTypes DEF Crash, MayStop
<1>12. CASE Restart
  <2>1. \A s \in Slot : cur[s] = None /\ ~beat[s]
    BY <1>12 DEF Restart, Rendering, Finishing
  <2> QED
    BY <1>12, <2>1 DEF Restart
<1> QED
  BY <1>1, <1>2, <1>3, <1>4, <1>5, <1>6, <1>7, <1>8, <1>9, <1>10, <1>11, <1>12 DEF ProcessStep

LEMMA TypeStep == TypeInv /\ [Next]_vars => TypeInv'
<1> SUFFICES ASSUME TypeInv, [Next]_vars
             PROVE  TypeInv'
  OBVIOUS
<1>1. CASE UNCHANGED vars
  BY <1>1 DEF vars, callVars, procVars, apiVars, TypeInv, TypeOK, Busy
<1>2. CASE Next
  BY <1>2, WorkerTypeStep, JobTypeStep, ProcessTypeStep DEF Next, SweepStep
<1> QED
  BY <1>1, <1>2

(* Every variable keeps its type, and the channel its capacity.            *)
THEOREM TypeCorrect == Spec => []TypeOK
<1>1. Spec => []TypeInv
  BY TypeInit, TypeStep, PTL DEF Spec
<1>2. TypeInv => TypeOK
  BY DEF TypeInv
<1> QED
  BY <1>1, <1>2, PTL

-----------------------------------------------------------------------------
(* Fencing.  The rows named by a worker id change hands only through a     *)
(* claim, which a slot makes when it holds none, and through a recovery,   *)
(* which names no worker; every other statement keeps version and worker,  *)
(* or ends PROCESSING.                                                     *)

(* A step that moves no row except to one that OwnedBy rejects or that     *)
(* keeps its version and owner, and takes no slot past its claim, keeps    *)
(* the fence.                                                              *)
Harmless(r, n) == n.status = "PROCESSING" => n = r \/ n = ExtendLease(r) \/ n = Lapse(r)

LEMMA HarmlessOwner ==
  ASSUME NEW r \in Rows(Worker), NEW n, Harmless(r, n), NEW w, OwnedBy(n, w)
  PROVE  OwnedBy(r, w) /\ n.version = r.version
BY DEF Harmless, OwnedBy, ExtendLease, Lapse, Rows

LEMMA FencedIfHarmless ==
  ASSUME TypeInv, Fenced, epoch' = epoch,
         \A j \in Job : Harmless(jobs[j], jobs'[j]),
         \A s \in Slot : pc'[s] \in Claimed =>
            pc[s] \in Claimed /\ cur'[s] = cur[s] /\ stamp'[s] = stamp[s]
  PROVE  Fenced'
<1> SUFFICES ASSUME NEW s \in Slot, pc'[s] \in Claimed, OwnedBy(jobs'[cur'[s]], Me(s)')
             PROVE  jobs'[cur'[s]].version = stamp'[s]
  BY DEF Fenced, Row
<1>1. pc[s] \in Claimed /\ cur'[s] = cur[s] /\ stamp'[s] = stamp[s] /\ Me(s)' = Me(s)
  BY DEF Me
<1>2. cur[s] \in Job /\ jobs[cur[s]] \in Rows(Worker)
  BY <1>1, CallTypes DEF Row
<1>3. OwnedBy(jobs[cur[s]], Me(s)) /\ jobs'[cur[s]].version = jobs[cur[s]].version
  BY <1>1, <1>2, HarmlessOwner
<1> QED
  BY <1>1, <1>3 DEF Fenced, Row

LEMMA RowFields ==
  ASSUME NEW W, NEW r \in Rows(W)
  PROVE  /\ CreateJob(r).status = "PENDING"
         /\ \A u : MarkCompleted(r, u).status = "COMPLETED"
         /\ MarkFailed(r).status = "FAILED"
         /\ Recover(r).status = "PENDING"
         /\ DeleteJob(r).status = "DELETED"
         /\ ExtendLease(r).status = r.status
         /\ Lapse(r).status = r.status
BY DEF Rows, CreateJob, MarkCompleted, MarkFailed, Recover, DeleteJob, ExtendLease, Lapse,
       Absent

LEMMA ClaimFields ==
  ASSUME NEW r \in Rows(Worker), NEW w
  PROVE  /\ ClaimJobCAS(r, w).status = "PROCESSING"
         /\ ClaimJobCAS(r, w).worker = w
         /\ ClaimJobCAS(r, w).version = r.version + 1
BY DEF Rows, ClaimJobCAS

(* A claim names the claimant only, which holds nothing else: the fence of *)
(* every other slot is lifted, not broken.                                 *)
LEMMA ClaimFenced ==
  ASSUME TypeInv, Fenced, NEW s \in Slot, pc[s] = "claim", epoch' = epoch,
         SetRow(s, ClaimJobCAS(Row(s), Me(s))),
         \A t \in Slot : t # s => pc'[t] = pc[t] /\ cur'[t] = cur[t] /\ stamp'[t] = stamp[t],
         pc'[s] \in Claimed => cur'[s] = cur[s] /\ stamp'[s] = Row(s).version + 1
  PROVE  Fenced'
<1> SUFFICES ASSUME NEW t \in Slot, pc'[t] \in Claimed, OwnedBy(jobs'[cur'[t]], Me(t)')
             PROVE  jobs'[cur'[t]].version = stamp'[t]
  BY DEF Fenced, Row
<1>1. Me(t)' = Me(t) /\ (t # s => Me(t) # Me(s))
  BY DEF Me
<1>2. cur[s] \in Job /\ Row(s) \in Rows(Worker) /\ jobs \in [Job -> Rows(Worker)]
  BY CallTypes DEF TypeInv, TypeOK
<1>3. jobs' = [jobs EXCEPT ![cur[s]] = ClaimJobCAS(Row(s), Me(s))]
  BY DEF SetRow
<1>4. CASE t = s
  BY <1>2, <1>3, <1>4, ClaimFields
<1>5. CASE t # s
  <2>1. pc[t] \in Claimed /\ cur'[t] = cur[t] /\ stamp'[t] = stamp[t]
    BY <1>5
  <2>2. cur[t] \in Job
    BY <2>1, CallTypes
  <2>3. CASE cur[t] = cur[s]
    BY <1>1, <1>2, <1>3, <1>5, <2>1, <2>3, ClaimFields DEF OwnedBy
  <2>4. CASE cur[t] # cur[s]
    <3>1. jobs'[cur[t]] = jobs[cur[t]]
      BY <1>2, <1>3, <2>2, <2>4
    <3> QED
      BY <1>1, <2>1, <3>1 DEF Fenced, Row
  <2> QED
    BY <2>3, <2>4
<1> QED
  BY <1>4, <1>5

LEMMA WorkerFenced ==
  ASSUME TypeInv, Fenced, NEW s \in Slot, WorkerStep(s) \/ Heartbeat(s) \/ HeartbeatStop(s)
  PROVE  Fenced'
<1> DEFINE Idles  == \A j \in Job : Harmless(jobs[j], jobs'[j])
           Keeps == \A t \in Slot : pc'[t] \in Claimed =>
                      pc[t] \in Claimed /\ cur'[t] = cur[t] /\ stamp'[t] = stamp[t]
<1>t. /\ jobs \in [Job -> Rows(Worker)] /\ pc \in [Slot -> PC]
      /\ cur \in [Slot -> Job \cup {None}] /\ stamp \in [Slot -> Nat]
  BY DEF TypeInv, TypeOK
<1>r. Return(s) => Keeps
  BY <1>t DEF Return, Goto, Claimed, Rendering, Finishing
<1>g. ASSUME NEW l, Goto(s, l), UNCHANGED <<cur, stamp>>, l \in Claimed => pc[s] \in Claimed
      PROVE  Keeps
  BY <1>t, <1>g DEF Goto
<1>h. UNCHANGED jobs => Idles
  BY DEF Harmless
<1>1. CASE Receive(s)
  <2>1. Keeps
    BY <1>1, <1>t DEF Receive, Goto, Claimed, Rendering, Finishing
  <2> QED
    BY <1>1, <2>1, <1>h, FencedIfHarmless DEF Receive, procVars
<1>2. CASE ReceiveAndExit(s)
  <2>1. Keeps
    BY <1>2, <1>g DEF ReceiveAndExit, Claimed, Rendering, Finishing
  <2> QED
    BY <1>2, <2>1, <1>h, FencedIfHarmless DEF ReceiveAndExit, procVars
<1>3. CASE WorkerExit(s)
  <2>1. Keeps
    BY <1>3, <1>g DEF WorkerExit, Claimed, Rendering, Finishing
  <2> QED
    BY <1>3, <2>1, <1>h, FencedIfHarmless DEF WorkerExit, procVars
<1>4. CASE ClaimRefused(s)
  BY <1>4, <1>r, <1>h, FencedIfHarmless DEF ClaimRefused, procVars
<1>5. CASE ClaimError(s)
  BY <1>5, <1>r, <1>h, FencedIfHarmless DEF ClaimError, procVars
<1>6. CASE MarkFailedError(s)
  BY <1>6, <1>r, <1>h, FencedIfHarmless DEF MarkFailedError, procVars
<1>7. CASE OwnershipLost(s)
  BY <1>7, <1>r, <1>h, FencedIfHarmless DEF OwnershipLost, procVars
<1>8. CASE MarkCompletedError(s)
  BY <1>8, <1>r, <1>h, FencedIfHarmless DEF MarkCompletedError, procVars
<1>9. CASE LoadJob(s)
  <2>1. Keeps
    BY <1>9, <1>g DEF LoadJob, Claimed, Rendering, Finishing
  <2> QED
    BY <1>9, <2>1, <1>h, FencedIfHarmless DEF LoadJob, procVars
<1>10. CASE LoadError(s)
  <2>1. Keeps
    BY <1>10, <1>g DEF LoadError, Claimed, Rendering, Finishing
  <2> QED
    BY <1>10, <2>1, <1>h, FencedIfHarmless DEF LoadError, procVars
<1>11. CASE ServiceError(s)
  <2>1. Keeps
    BY <1>11, <1>g DEF ServiceError, Claimed, Rendering, Finishing
  <2> QED
    BY <1>11, <2>1, <1>h, FencedIfHarmless DEF ServiceError, procVars
<1>12. CASE SubprocessError(s)
  <2>1. Keeps
    BY <1>12, <1>g DEF SubprocessError, Claimed, Rendering, Finishing
  <2> QED
    BY <1>12, <2>1, <1>h, FencedIfHarmless DEF SubprocessError, procVars
<1>13. CASE OwnershipValid(s)
  <2>1. Keeps
    BY <1>13, <1>g DEF OwnershipValid, Claimed, Rendering, Finishing
  <2> QED
    BY <1>13, <2>1, <1>h, FencedIfHarmless DEF OwnershipValid, procVars
<1>14. CASE UploadOk(s)
  <2>1. Keeps
    BY <1>14, <1>g DEF UploadOk, Claimed, Rendering, Finishing
  <2> QED
    BY <1>14, <2>1, <1>h, FencedIfHarmless DEF UploadOk, procVars
<1>15. CASE UploadError(s)
  <2>1. Keeps
    BY <1>15, <1>g DEF UploadError, Claimed, Rendering, Finishing
  <2> QED
    BY <1>15, <2>1, <1>h, FencedIfHarmless DEF UploadError, procVars
<1>16. CASE RenderOk(s)
  <2>1. Keeps
    BY <1>16, <1>g DEF RenderOk, Claimed, Rendering, Finishing
  <2> QED
    BY <1>16, <2>1, <1>h, FencedIfHarmless DEF RenderOk, procVars
<1>17. CASE HeartbeatStop(s)
  BY <1>17, <1>h, FencedIfHarmless DEF HeartbeatStop, procVars
<1>18. CASE MarkJobFailed(s)
  <2>1. cur[s] \in Job /\ Row(s) \in Rows(Worker)
    BY <1>18, CallTypes DEF MarkJobFailed, Claimed
  <2>2. Idles
    BY <1>18, <1>t, <2>1, RowFields DEF MarkJobFailed, Harmless
  <2> QED
    BY <1>18, <1>r, <2>2, FencedIfHarmless DEF MarkJobFailed, procVars
<1>19. CASE MarkJobCompleted(s)
  <2>1. cur[s] \in Job /\ Row(s) \in Rows(Worker)
    BY <1>19, CallTypes DEF MarkJobCompleted, CompletesJob, Claimed
  <2>2. Idles
    BY <1>19, <1>t, <2>1, RowFields DEF MarkJobCompleted, SetRow, Harmless
  <2> QED
    BY <1>19, <1>r, <2>2, FencedIfHarmless DEF MarkJobCompleted, procVars
<1>20. CASE Heartbeat(s)
  <2>1. Idles
    BY <1>20, <1>t DEF Heartbeat, SetRow, Row, Harmless
  <2> QED
    BY <1>20, <2>1, FencedIfHarmless DEF Heartbeat, procVars
<1>21. CASE ClaimWon(s)
  <2>1. cur[s] \in Job /\ Row(s) \in Rows(Worker)
    BY <1>21, CallTypes DEF ClaimWon
  <2>2. stamp'[s] = Row(s).version + 1 /\ UNCHANGED cur
    BY <1>21, <1>t DEF ClaimWon
  <2>3. \A u \in Slot : u # s => pc'[u] = pc[u] /\ stamp'[u] = stamp[u]
    BY <1>21, <1>t DEF ClaimWon, Goto
  <2> QED
    BY <1>21, <2>2, <2>3, ClaimFenced DEF ClaimWon, procVars
<1>22. CASE ClaimAnswerLost(s)
  <2>1. pc'[s] \notin Claimed
    BY <1>22, <1>t DEF ClaimAnswerLost, Return, Goto, Claimed, Rendering, Finishing
  <2>2. \A u \in Slot : u # s => pc'[u] = pc[u] /\ cur'[u] = cur[u] /\ stamp'[u] = stamp[u]
    BY <1>22, <1>t DEF ClaimAnswerLost, Return, Goto
  <2> QED
    BY <1>22, <2>1, <2>2, ClaimFenced DEF ClaimAnswerLost, procVars
<1> QED
  BY <1>1, <1>2, <1>3, <1>4, <1>5, <1>6, <1>7, <1>8, <1>9, <1>10, <1>11, <1>12, <1>13,
     <1>14, <1>15, <1>16, <1>17, <1>18, <1>19, <1>20, <1>21, <1>22 DEF WorkerStep

LEMMA JobFenced ==
  ASSUME TypeInv, Fenced, NEW j \in Job,
         \/ LeaseExpires(j) \/ LeaseLapses(j)
         \/ PublishRecovered(j) \/ SkipRecovered(j) \/ ApiStep(j)
  PROVE  Fenced'
<1>1. jobs \in [Job -> Rows(Worker)]
  BY DEF TypeInv, TypeOK
<1>2. UNCHANGED <<pc, cur, stamp, epoch>>
  BY DEF LeaseExpires, LeaseLapses, PublishRecovered, SkipRecovered, ApiStep, InsertJob,
         InsertAnswerLost,
         SubmitJob, SubmitRefused, AbortJob, DeleteVideo, DeleteRow, DeleteRowError,
         callVars, procVars
<1>3. \/ UNCHANGED jobs
      \/ jobs' = [jobs EXCEPT ![j] = Lapse(@)]
      \/ jobs' = [jobs EXCEPT ![j] = CreateJob(@)]
      \/ jobs' = [jobs EXCEPT ![j] = DeleteJob(@)]
  BY DEF LeaseExpires, LeaseLapses, PublishRecovered, SkipRecovered, ApiStep, InsertJob,
         InsertAnswerLost,
         SubmitJob, SubmitRefused, AbortJob, DeleteVideo, DeleteRow, DeleteRowError
<1>4. \A i \in Job : Harmless(jobs[i], jobs'[i])
  BY <1>1, <1>3, RowFields DEF Harmless
<1> QED
  BY <1>2, <1>4, FencedIfHarmless

LEMMA ProcessFenced ==
  ASSUME TypeInv, Fenced,
         \/ StartupReclaim \/ StartupFetch \/ StartupFetchError \/ StartupDone
         \/ ScheduledSweep \/ SweepAnswerLost \/ ProcessStep
  PROVE  Fenced'
<1>1. CASE Exit \/ SweepPanics \/ Crash \/ Restart
  <2>1. \A s \in Slot : pc'[s] \in {"exited", "idle"}
    BY <1>1 DEF Exit, SweepPanics, Crash, Restart, Die
  <2> QED
    BY <2>1 DEF Fenced, Claimed, Rendering, Finishing
<1>2. CASE ~(Exit \/ SweepPanics \/ Crash \/ Restart)
  <2>1. UNCHANGED <<pc, cur, stamp, epoch>>
    BY <1>2 DEF ProcessStep, StartupReclaim, StartupFetch, StartupFetchError, StartupDone,
                ScheduledSweep, SweepAnswerLost, ShutdownServer, CancelContext, CloseQueue,
                callVars, procVars
  <2>2. UNCHANGED jobs \/ jobs' = RecoverStalledJobs(jobs)
    BY <1>2 DEF ProcessStep, StartupReclaim, StartupFetch, StartupFetchError, StartupDone,
                ScheduledSweep, SweepAnswerLost, ShutdownServer, CancelContext, CloseQueue
  <2>3. \A j \in Job : Harmless(jobs[j], jobs'[j])
    BY <2>2, RowFields DEF TypeInv, TypeOK, RecoverStalledJobs, Harmless
  <2> QED
    BY <2>1, <2>3, FencedIfHarmless
<1> QED
  BY <1>1, <1>2

LEMMA FencedStep == TypeInv /\ Fenced /\ [Next]_vars => Fenced'
<1> SUFFICES ASSUME TypeInv, Fenced, [Next]_vars
             PROVE  Fenced'
  OBVIOUS
<1>1. CASE UNCHANGED vars
  BY <1>1 DEF vars, callVars, procVars, Fenced, Row, Me
<1>2. CASE Next
  BY <1>2, WorkerFenced, JobFenced, ProcessFenced DEF Next, SweepStep
<1> QED
  BY <1>1, <1>2

Inv == TypeInv /\ Fenced

LEMMA Invariance == Spec => []Inv
<1>1. Init => Fenced
  BY DEF Init, Fenced, Claimed, Rendering, Finishing
<1> QED
  BY <1>1, TypeInit, TypeStep, FencedStep, PTL DEF Spec, Inv

(* A worker that a PROCESSING row names, and that is past its claim, holds *)
(* the newest version of that row: worker_id is a sufficient fencing token *)
(* although no statement of job_repo.go compares versions.                 *)
THEOREM FencingHolds == Spec => []Fenced
<1>1. Inv => Fenced
  BY DEF Inv
<1> QED
  BY <1>1, Invariance, PTL

-----------------------------------------------------------------------------
(* Who finishes a job *)

FinishedByClaimant ==
  \A j \in Job :
    jobs[j].status \notin Terminal /\ jobs'[j].status \in Terminal =>
      \E s \in Slot : /\ pc[s] \in Claimed /\ cur[s] = j
                      /\ stamp[s] = jobs[j].version

(* The only two statements that finish a row test OwnedBy, so the fence    *)
(* gives the version.                                                      *)
LEMMA FinisherHoldsClaim ==
  ASSUME TypeInv, Fenced, NEW s \in Slot, pc[s] \in Claimed, OwnedBy(Row(s), Me(s)),
         NEW r, jobs' = [jobs EXCEPT ![cur[s]] = r]
  PROVE  FinishedByClaimant
<1>1. stamp[s] = jobs[cur[s]].version
  BY DEF Fenced, Row
<1>2. jobs \in [Job -> Rows(Worker)] /\ cur[s] \in Job
  BY CallTypes DEF TypeInv, TypeOK
<1> QED
  BY <1>1, <1>2 DEF FinishedByClaimant

(* Every other statement leaves a row as it is or writes a status that is  *)
(* not terminal.                                                           *)
LEMMA OthersDoNotFinish ==
  ASSUME TypeOK,
         \A j \in Job : \/ jobs'[j].status = jobs[j].status
                        \/ jobs'[j].status \notin Terminal
  PROVE  FinishedByClaimant
BY DEF FinishedByClaimant

LEMMA FinishStep == Inv /\ [Next]_vars => FinishedByClaimant
<1> SUFFICES ASSUME TypeInv, Fenced, [Next]_vars
             PROVE  FinishedByClaimant
  BY DEF Inv
<1> USE DEF Terminal
<1>t. jobs \in [Job -> Rows(Worker)] /\ TypeOK
  BY DEF TypeInv, TypeOK
<1>1. ASSUME NEW s \in Slot, MarkJobFailed(s) PROVE FinishedByClaimant
  <2>1. pc[s] \in Claimed
    BY <1>1 DEF MarkJobFailed, Claimed
  <2>2. CASE OwnedBy(Row(s), Me(s))
    BY <1>1, <2>1, <2>2, FinisherHoldsClaim DEF MarkJobFailed
  <2>3. CASE ~OwnedBy(Row(s), Me(s))
    BY <1>1, <1>t, <2>3, OthersDoNotFinish DEF MarkJobFailed
  <2> QED
    BY <2>2, <2>3
<1>2. ASSUME NEW s \in Slot, MarkJobCompleted(s) PROVE FinishedByClaimant
  BY <1>2, FinisherHoldsClaim DEF MarkJobCompleted, CompletesJob, SetRow, Claimed
<1>3. ASSUME NEW s \in Slot, ClaimWon(s) \/ ClaimAnswerLost(s) PROVE FinishedByClaimant
  <2>1. cur[s] \in Job /\ Row(s) \in Rows(Worker)
    BY <1>3, CallTypes DEF ClaimWon, ClaimAnswerLost
  <2> QED
    BY <1>3, <1>t, <2>1, ClaimFields, OthersDoNotFinish DEF ClaimWon, ClaimAnswerLost, SetRow
<1>4. ASSUME NEW s \in Slot, Heartbeat(s) PROVE FinishedByClaimant
  BY <1>4, <1>t, RowFields, OthersDoNotFinish DEF Heartbeat, SetRow, Row
<1>5. ASSUME NEW s \in Slot, WorkerStep(s) \/ HeartbeatStop(s),
             ~(MarkJobFailed(s) \/ MarkJobCompleted(s) \/ ClaimWon(s) \/ ClaimAnswerLost(s))
      PROVE  FinishedByClaimant
  <2>1. UNCHANGED jobs
    BY <1>5 DEF WorkerStep, HeartbeatStop, Receive, ReceiveAndExit, WorkerExit, ClaimRefused,
                ClaimError, LoadJob, LoadError, RenderOk, ServiceError, SubprocessError,
                MarkFailedError, OwnershipValid, OwnershipLost, UploadOk, UploadError,
                MarkCompletedError
  <2> QED
    BY <1>t, <2>1, OthersDoNotFinish
<1>6. ASSUME NEW j \in Job, LeaseExpires(j) \/ LeaseLapses(j) \/ ApiStep(j)
                            \/ PublishRecovered(j) \/ SkipRecovered(j)
      PROVE  FinishedByClaimant
  <2>1. \/ UNCHANGED jobs
        \/ jobs' = [jobs EXCEPT ![j] = Lapse(@)]
        \/ jobs' = [jobs EXCEPT ![j] = CreateJob(@)]
        \/ jobs' = [jobs EXCEPT ![j] = DeleteJob(@)]
    BY <1>6 DEF LeaseExpires, LeaseLapses, PublishRecovered, SkipRecovered, ApiStep,
                InsertJob, InsertAnswerLost,
                SubmitJob, SubmitRefused, AbortJob, DeleteVideo, DeleteRow, DeleteRowError
  <2> QED
    BY <1>t, <2>1, RowFields, OthersDoNotFinish
<1>7. ASSUME StartupReclaim \/ StartupFetch \/ StartupFetchError \/ StartupDone
             \/ ScheduledSweep \/ SweepAnswerLost \/ ProcessStep \/ UNCHANGED vars
      PROVE  FinishedByClaimant
  <2>1. UNCHANGED jobs \/ jobs' = RecoverStalledJobs(jobs)
    BY <1>7 DEF vars, ProcessStep, StartupReclaim, StartupFetch, StartupFetchError,
                StartupDone,
                ScheduledSweep, SweepAnswerLost, ShutdownServer, CancelContext, CloseQueue,
                Exit, SweepPanics,
                Crash, Restart, Die
  <2> QED
    BY <1>t, <2>1, RowFields, OthersDoNotFinish DEF RecoverStalledJobs
<1> QED
  BY <1>1, <1>2, <1>3, <1>4, <1>5, <1>6, <1>7 DEF Next, SweepStep

(* Only a call holding the claim in force moves a job to COMPLETED or      *)
(* FAILED, whatever stale calls, crashes and sweeps surround it.           *)
THEOREM OnlyClaimantFinishesHolds == Spec => OnlyClaimantFinishes
<1>1. Inv /\ [Next]_vars => [FinishedByClaimant]_vars
  BY FinishStep
<1> QED
  BY <1>1, Invariance, PTL DEF Spec, OnlyClaimantFinishes, FinishedByClaimant

-----------------------------------------------------------------------------
(* The registry of cancel functions *)

LEMMA RegistryStep == TypeInv /\ AbortHitsItsJob /\ [Next]_vars => AbortHitsItsJob'
<1> SUFFICES ASSUME TypeInv, AbortHitsItsJob, [Next]_vars
             PROVE  AbortHitsItsJob'
  OBVIOUS
<1>t. /\ pc \in [Slot -> PC] /\ cur \in [Slot -> Job \cup {None}]
      /\ cancels \in [Job -> Slot \cup {None}]
  BY DEF TypeInv, TypeOK
<1>1. ASSUME NEW s \in Slot, Receive(s) PROVE AbortHitsItsJob'
  <2>1. cur[s] = None /\ Head(queue) \in Job
    BY <1>1, QueueTypes DEF Receive, TypeInv, Busy
  <2>2. \A j \in Job : cancels[j] # s
    BY <1>t, <2>1, NoneAssumption DEF AbortHitsItsJob
  <2>3. /\ cur' = [cur EXCEPT ![s] = Head(queue)]
        /\ cancels' = [cancels EXCEPT ![Head(queue)] = s]
    BY <1>1 DEF Receive
  <2> QED
    BY <1>t, <2>1, <2>2, <2>3 DEF AbortHitsItsJob
<1>2. ASSUME NEW s \in Slot, Return(s) PROVE AbortHitsItsJob'
  BY <1>2, <1>t DEF Return, AbortHitsItsJob
<1>3. ASSUME UNCHANGED <<cur, cancels>> PROVE AbortHitsItsJob'
  BY <1>3 DEF AbortHitsItsJob
<1>4. ASSUME Die PROVE AbortHitsItsJob'
  BY <1>4 DEF Die, AbortHitsItsJob
<1>5. ASSUME NEW s \in Slot, WorkerStep(s) \/ Heartbeat(s) \/ HeartbeatStop(s)
      PROVE  Receive(s) \/ Return(s) \/ UNCHANGED <<cur, cancels>>
  BY <1>5 DEF WorkerStep, Heartbeat, HeartbeatStop, ReceiveAndExit, WorkerExit, ClaimWon,
              ClaimRefused, ClaimError, ClaimAnswerLost, LoadJob, LoadError, RenderOk,
              ServiceError, SubprocessError, MarkJobFailed, MarkFailedError, OwnershipValid,
              OwnershipLost, UploadOk, UploadError, MarkJobCompleted, MarkCompletedError
<1>6. ASSUME NEW j \in Job, LeaseExpires(j) \/ LeaseLapses(j) \/ ApiStep(j)
                            \/ PublishRecovered(j) \/ SkipRecovered(j)
      PROVE  UNCHANGED <<cur, cancels>>
  BY <1>6 DEF LeaseExpires, LeaseLapses, PublishRecovered, SkipRecovered, ApiStep,
              InsertJob, InsertAnswerLost,
              SubmitJob, SubmitRefused, AbortJob, DeleteVideo, DeleteRow, DeleteRowError,
              callVars
<1>7. ASSUME StartupReclaim \/ StartupFetch \/ StartupFetchError \/ StartupDone
             \/ ScheduledSweep \/ SweepAnswerLost \/ ProcessStep \/ UNCHANGED vars
      PROVE  Die \/ UNCHANGED <<cur, cancels>>
  BY <1>7 DEF vars, callVars, ProcessStep, StartupReclaim, StartupFetch, StartupFetchError,
              StartupDone, ScheduledSweep, SweepAnswerLost, ShutdownServer, CancelContext,
              CloseQueue, Exit,
              SweepPanics, Crash, Restart
<1> QED
  BY <1>1, <1>2, <1>3, <1>4, <1>5, <1>6, <1>7 DEF Next, SweepStep

(* Aborting a job never cancels a call that works on another one.          *)
THEOREM AbortHitsItsJobHolds == Spec => []AbortHitsItsJob
<1>1. Init => AbortHitsItsJob
  BY DEF Init, AbortHitsItsJob
<1>2. Inv => TypeInv
  BY DEF Inv
<1> QED
  BY <1>1, <1>2, RegistryStep, Invariance, PTL DEF Spec

-----------------------------------------------------------------------------
(* Videos.  CompletedHasVideo is not inductive: MarkJobCompleted publishes *)
(* on the strength of what its own call did before.  The strengthening     *)
(* says what a call that has uploaded has left in the store.               *)

(* After PutObject the object is there.                                    *)
LeftVideo(s) ==
  pc[s] = "completeS3" => (delete[cur[s]] = "none" => video[cur[s]] # None)

VideoInv == CompletedHasVideo /\ \A s \in Slot : LeftVideo(s)

LEMMA VideoInit == Init => VideoInv
<1> SUFFICES ASSUME Init PROVE VideoInv
  OBVIOUS
<1>1. \A j \in Job : jobs[j].status = "ABSENT"
  BY DEF Init, Absent
<1>2. CompletedHasVideo
  BY <1>1 DEF CompletedHasVideo, Published
<1>3. \A s \in Slot : LeftVideo(s)
  BY DEF Init, LeftVideo
<1> QED
  BY <1>2, <1>3 DEF VideoInv

-----------------------------------------------------------------------------
(* What most steps do, seen from here: they publish nothing new, take no   *)
(* video away unless its deletion is under way, and bring no call to the   *)
(* point where it publishes an object.                                     *)

DeletesStay == \A j \in Job : delete'[j] = "none" => delete[j] = "none"
VideosStay  == \A j \in Job : delete'[j] = "none" /\ video[j] # None => video'[j] # None
NoneNew     == \A j \in Job : jobs'[j].status = "COMPLETED" => jobs'[j] = jobs[j]
NoneLater   == \A s \in Slot : pc'[s] = "completeS3" => pc[s] = "completeS3" /\ cur'[s] = cur[s]

LEMMA PublishedStays ==
  ASSUME VideoInv, DeletesStay, VideosStay, NoneNew
  PROVE  CompletedHasVideo'
BY DEF VideoInv, CompletedHasVideo, Published, DeletesStay, VideosStay, NoneNew

LEMMA CallStays ==
  ASSUME VideoInv, TypeInv, DeletesStay, VideosStay, NEW s \in Slot,
         pc'[s] = "completeS3" => pc[s] = "completeS3" /\ cur'[s] = cur[s]
  PROVE  LeftVideo(s)'
<1>1. CASE pc'[s] # "completeS3"
  BY <1>1 DEF LeftVideo
<1>2. CASE pc'[s] = "completeS3"
  <2>1. pc[s] = "completeS3" /\ cur'[s] = cur[s] /\ pc[s] \in Claimed
    BY <1>2 DEF Claimed, Finishing
  <2>2. cur[s] \in Job
    BY <2>1, CallTypes
  <2> QED
    BY <2>1, <2>2 DEF VideoInv, LeftVideo, DeletesStay, VideosStay
<1> QED
  BY <1>1, <1>2

LEMMA QuietStep ==
  ASSUME VideoInv, TypeInv, DeletesStay, VideosStay, NoneNew, NoneLater
  PROVE  VideoInv'
BY PublishedStays, CallStays DEF VideoInv, NoneLater

(* A write of a worker is not None. *)
LEMMA WorkerNotNone ==
  ASSUME TypeInv, NEW s \in Slot
  PROVE  Me(s) # None
BY NoneAssumption DEF TypeInv, TypeOK, Me

-----------------------------------------------------------------------------
LEMMA WorkerVideoStep ==
  ASSUME TypeInv, VideoInv, NEW s \in Slot, WorkerStep(s) \/ Heartbeat(s) \/ HeartbeatStop(s)
  PROVE  VideoInv'
<1>t. /\ jobs \in [Job -> Rows(Worker)] /\ pc \in [Slot -> PC]
      /\ cur \in [Slot -> Job \cup {None}] /\ video \in [Job -> Worker \cup {None}]
  BY DEF TypeInv, TypeOK
<1>d. DeletesStay
  BY DEF DeletesStay, WorkerStep, Heartbeat, HeartbeatStop, Receive, ReceiveAndExit,
         WorkerExit, ClaimWon, ClaimRefused, ClaimError, ClaimAnswerLost, LoadJob, LoadError,
         RenderOk, ServiceError, SubprocessError, MarkJobFailed, MarkFailedError,
         OwnershipValid, OwnershipLost, UploadOk, UploadError, MarkJobCompleted,
         MarkCompletedError, apiVars
<1>v. VideosStay
  <2>1. \/ UNCHANGED video
        \/ video' = [video EXCEPT ![cur[s]] = Me(s)]
    BY DEF WorkerStep, Heartbeat, HeartbeatStop, Receive, ReceiveAndExit,
         WorkerExit, ClaimWon, ClaimRefused, ClaimError, ClaimAnswerLost, LoadJob, LoadError,
         RenderOk, ServiceError, SubprocessError, MarkJobFailed, MarkFailedError,
         OwnershipValid, OwnershipLost, UploadOk, UploadError, MarkJobCompleted,
         MarkCompletedError
  <2> QED
    BY <1>t, <2>1, WorkerNotNone DEF VideosStay
<1>1. CASE MarkJobCompleted(s)
  <2>1. cur[s] \in Job /\ Row(s) \in Rows(Worker)
    BY <1>1, CallTypes DEF MarkJobCompleted, CompletesJob, Claimed
  <2>2. jobs' = [jobs EXCEPT ![cur[s]] = MarkCompleted(Row(s), UrlOf(s))]
    BY <1>1 DEF MarkJobCompleted, SetRow
  <2>3. MarkCompleted(Row(s), UrlOf(s)).url = UrlOf(s)
    BY <2>1 DEF MarkCompleted, Rows
  <2>4. ASSUME NEW j \in Job, j = cur[s], Published(j)', delete[j] = "none"
        PROVE  video[j] # None
    <3>1. jobs'[j].url = UrlOf(s)
      BY <1>t, <2>2, <2>3, <2>4
    <3>2. pc[s] = "completeS3"
      BY <2>4, <3>1 DEF Published, UrlOf
    <3> QED
      BY <2>1, <2>4, <3>2 DEF VideoInv, LeftVideo
  <2>5. CompletedHasVideo'
    <3> SUFFICES ASSUME NEW j \in Job, Published(j)', delete'[j] = "none"
                 PROVE  video'[j] # None
      BY DEF CompletedHasVideo
    <3>1. UNCHANGED <<video, delete>>
      BY <1>1 DEF MarkJobCompleted, apiVars
    <3>2. CASE j = cur[s]
      BY <2>4, <3>1, <3>2
    <3>3. CASE j # cur[s]
      <4>1. jobs'[j] = jobs[j]
        BY <1>t, <2>1, <2>2, <3>3
      <4> QED
        BY <3>1, <4>1 DEF VideoInv, CompletedHasVideo, Published
    <3> QED
      BY <3>2, <3>3
  <2>6. NoneLater
    BY <1>1, <1>t DEF MarkJobCompleted, Return, Goto, NoneLater
  <2> QED
    BY <1>d, <1>v, <2>5, <2>6, CallStays DEF VideoInv, NoneLater
<1>2. CASE UploadOk(s)
  <2>1. NoneNew
    BY <1>2 DEF UploadOk, NoneNew
  <2>2. LeftVideo(s)'
    <3>1. UNCHANGED <<delete, cur>> /\ video' = [video EXCEPT ![cur[s]] = Me(s)]
      BY <1>2 DEF UploadOk, apiVars
    <3>2. pc'[s] = "completeS3" /\ cur[s] \in Job
      BY <1>2, <1>t, CallTypes DEF UploadOk, Goto, Claimed
    <3> QED
      BY <1>t, <3>1, <3>2, WorkerNotNone DEF LeftVideo
  <2>3. \A t \in Slot \ {s} : LeftVideo(t)'
    BY <1>2, <1>t, <1>d, <1>v, CallStays DEF UploadOk, Goto
  <2> QED
    BY <1>d, <1>v, <2>1, <2>2, <2>3, PublishedStays DEF VideoInv
<1>3. CASE ~(MarkJobCompleted(s) \/ UploadOk(s))
  <2>1. NoneLater
    BY <1>3, <1>t DEF NoneLater, Return, RenderOk, OwnershipValid, UploadError, Goto, WorkerStep, Heartbeat, HeartbeatStop,
         Receive, ReceiveAndExit, WorkerExit, ClaimWon, ClaimRefused, ClaimError,
         ClaimAnswerLost, LoadJob, LoadError, ServiceError, SubprocessError, MarkJobFailed,
         MarkFailedError, OwnershipLost, MarkCompletedError
  <2>2. NoneNew
    <3>1. CASE UNCHANGED jobs
      BY <3>1 DEF NoneNew
    <3>2. CASE ClaimWon(s) \/ ClaimAnswerLost(s)
      <4>1. cur[s] \in Job /\ Row(s) \in Rows(Worker)
        BY <3>2, CallTypes DEF ClaimWon, ClaimAnswerLost
      <4> QED
        BY <3>2, <1>t, <4>1, ClaimFields DEF ClaimWon, ClaimAnswerLost, SetRow, NoneNew
    <3>3. CASE MarkJobFailed(s)
      <4>1. cur[s] \in Job /\ Row(s) \in Rows(Worker)
        BY <3>3, CallTypes DEF MarkJobFailed, Claimed
      <4> QED
        BY <3>3, <1>t, <4>1, RowFields DEF MarkJobFailed, NoneNew
    <3>4. CASE Heartbeat(s)
      <4>1. UNCHANGED jobs \/ (OwnedBy(Row(s), Me(s)) /\ SetRow(s, ExtendLease(Row(s))))
        BY <3>4 DEF Heartbeat
      <4>2. cur[s] \in Job
        BY <3>4, CallTypes DEF Heartbeat, TypeInv, Busy
      <4> QED
        BY <1>t, <4>1, <4>2, RowFields DEF SetRow, Row, OwnedBy, NoneNew
    <3> QED
      BY <1>3, <3>1, <3>2, <3>3, <3>4 DEF WorkerStep, HeartbeatStop, Receive,
         ReceiveAndExit, WorkerExit, ClaimRefused, ClaimError, LoadJob, LoadError,
         RenderOk, ServiceError, SubprocessError, MarkFailedError, OwnershipValid,
         OwnershipLost, UploadError, MarkCompletedError
  <2> QED
    BY <1>d, <1>v, <2>1, <2>2, QuietStep
<1> QED
  BY <1>1, <1>2, <1>3

LEMMA JobVideoStep ==
  ASSUME TypeInv, VideoInv, NEW j \in Job,
         \/ LeaseExpires(j) \/ LeaseLapses(j)
         \/ PublishRecovered(j) \/ SkipRecovered(j) \/ ApiStep(j)
  PROVE  VideoInv'
<1>t. /\ jobs \in [Job -> Rows(Worker)]
      /\ delete \in [Job -> {"none", "aborted", "videoDone", "done", "failed"}]
      /\ video \in [Job -> Worker \cup {None}]
  BY DEF TypeInv, TypeOK
<1>1. DeletesStay
  <2>1. UNCHANGED delete \/ \E d \in {"aborted", "videoDone", "done", "failed"} :
                               delete' = [delete EXCEPT ![j] = d]
    BY DEF LeaseExpires, LeaseLapses, PublishRecovered, SkipRecovered, ApiStep, InsertJob,
           InsertAnswerLost, SubmitJob, SubmitRefused, AbortJob, DeleteVideo, DeleteRow,
           DeleteRowError, apiVars
  <2> QED
    BY <1>t, <2>1 DEF DeletesStay
<1>2. VideosStay
  <2>1. \/ UNCHANGED video
        \/ video' = [video EXCEPT ![j] = None] /\ delete[j] = "aborted"
    BY DEF LeaseExpires, LeaseLapses, PublishRecovered, SkipRecovered, ApiStep, InsertJob,
           InsertAnswerLost, SubmitJob, SubmitRefused, AbortJob, DeleteVideo, DeleteRow,
           DeleteRowError
  <2> QED
    BY <1>t, <1>1, <2>1 DEF VideosStay, DeletesStay
<1>3. NoneNew
  <2>1. \/ UNCHANGED jobs
        \/ jobs' = [jobs EXCEPT ![j] = Lapse(@)] /\ jobs[j].status = "PROCESSING"
        \/ jobs' = [jobs EXCEPT ![j] = CreateJob(@)]
        \/ jobs' = [jobs EXCEPT ![j] = DeleteJob(@)]
    BY DEF LeaseExpires, LeaseLapses, PublishRecovered, SkipRecovered, ApiStep, InsertJob,
           InsertAnswerLost, SubmitJob, SubmitRefused, AbortJob, DeleteVideo, DeleteRow,
           DeleteRowError
  <2> QED
    BY <1>t, <2>1, RowFields DEF NoneNew
<1>4. NoneLater
  BY DEF NoneLater, LeaseExpires, LeaseLapses, PublishRecovered, SkipRecovered, ApiStep,
         InsertJob, InsertAnswerLost, SubmitJob, SubmitRefused, AbortJob, DeleteVideo,
         DeleteRow, DeleteRowError, callVars
<1> QED
  BY <1>1, <1>2, <1>3, <1>4, QuietStep

LEMMA ProcessVideoStep ==
  ASSUME TypeInv, VideoInv,
         \/ StartupReclaim \/ StartupFetch \/ StartupFetchError \/ StartupDone
         \/ ScheduledSweep \/ SweepAnswerLost \/ ProcessStep \/ UNCHANGED vars
  PROVE  VideoInv'
<1>1. UNCHANGED video
  BY DEF vars, ProcessStep, StartupReclaim, StartupFetch, StartupFetchError, StartupDone,
         ScheduledSweep, SweepAnswerLost, ShutdownServer, CancelContext, CloseQueue, Exit,
         SweepPanics, Crash, Restart, Die
<1>2. DeletesStay
  <2>1. UNCHANGED delete \/ Die
    BY DEF vars, ProcessStep, StartupReclaim, StartupFetch, StartupFetchError, StartupDone,
           ScheduledSweep, SweepAnswerLost, ShutdownServer, CancelContext, CloseQueue, Exit,
           SweepPanics, Crash, Restart, apiVars
  <2> QED
    BY <2>1 DEF Die, DeletesStay
<1>3. NoneNew
  <2>1. UNCHANGED jobs \/ jobs' = RecoverStalledJobs(jobs)
    BY DEF vars, ProcessStep, StartupReclaim, StartupFetch, StartupFetchError, StartupDone,
           ScheduledSweep, SweepAnswerLost, ShutdownServer, CancelContext, CloseQueue, Exit,
           SweepPanics, Crash, Restart, Die
  <2> QED
    BY <2>1, RowFields DEF TypeInv, TypeOK, RecoverStalledJobs, NoneNew
<1>4. NoneLater
  BY DEF NoneLater, vars, callVars, ProcessStep, StartupReclaim, StartupFetch,
         StartupFetchError, StartupDone, ScheduledSweep, SweepAnswerLost, ShutdownServer,
         CancelContext, CloseQueue, Exit, SweepPanics, Crash, Restart, Die
<1> QED
  BY <1>1, <1>2, <1>3, <1>4, QuietStep DEF VideosStay

(* A job completed with an S3 URL that nobody asked to delete has its      *)
(* object, through stale calls, crashes, recoveries and failed uploads.    *)
THEOREM CompletedHasVideoHolds == Spec => []CompletedHasVideo
<1>1. TypeInv /\ VideoInv /\ [Next]_vars => VideoInv'
  BY WorkerVideoStep, JobVideoStep, ProcessVideoStep DEF Next, SweepStep
<1>2. Inv => TypeInv
  BY DEF Inv
<1>3. VideoInv => CompletedHasVideo
  BY DEF VideoInv
<1> QED
  BY <1>1, <1>2, <1>3, VideoInit, Invariance, PTL DEF Spec
=============================================================================
