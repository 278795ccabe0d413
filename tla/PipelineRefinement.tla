------------------------- MODULE PipelineRefinement -------------------------
(***************************************************************************)
(* Pipeline implements JobLifecycle: its initial states are initial states *)
(* of the life cycle, and each of its steps is a step of the life cycle or *)
(* leaves phases, rounds and claims alone.                                 *)
(*                                                                         *)
(* Fencing gives the hard step: a call that finishes a job holds the claim *)
(* of the job's current round.  Known gives the other two: an id that was  *)
(* never submitted has no row, and a deletion is about a row there was.    *)
(***************************************************************************)
EXTENDS PipelineProofs

Known ==
  \A j \in Job : /\ create[j] = "none" => jobs[j].status = "ABSENT"
                 /\ delete[j] # "none" => jobs[j].status # "ABSENT"

-----------------------------------------------------------------------------
(* Known is invariant *)

(* No statement but INSERT touches a row that is not there.                *)
Touches(j, r) == jobs' = [jobs EXCEPT ![j] = r]
                 /\ r.status # "ABSENT" /\ jobs[j].status # "ABSENT"

LEMMA KnownIfTouched ==
  ASSUME TypeInv, Known, UNCHANGED <<create, delete>>,
         UNCHANGED jobs \/ \E j \in Job : \E r : Touches(j, r)
  PROVE  Known'
BY DEF TypeInv, TypeOK, Known, Touches

LEMMA WorkerTouches ==
  ASSUME TypeInv, NEW s \in Slot, WorkerStep(s) \/ Heartbeat(s) \/ HeartbeatStop(s)
  PROVE  UNCHANGED jobs \/ \E j \in Job : \E r : Touches(j, r)
<1>1. CASE ClaimWon(s) \/ ClaimAnswerLost(s)
  <2>1. cur[s] \in Job /\ Row(s) \in Rows(Worker)
    BY <1>1, CallTypes DEF ClaimWon, ClaimAnswerLost
  <2>2. Touches(cur[s], ClaimJobCAS(Row(s), Me(s)))
    BY <1>1, <2>1, ClaimFields DEF ClaimWon, ClaimAnswerLost, SetRow, CanClaim, Row, Touches
  <2> QED
    BY <2>1, <2>2
<1>2. CASE MarkJobFailed(s)
  <2>1. cur[s] \in Job /\ Row(s) \in Rows(Worker)
    BY <1>2, CallTypes DEF MarkJobFailed, Claimed
  <2>2. UNCHANGED jobs \/ Touches(cur[s], MarkFailed(Row(s)))
    BY <1>2, <2>1, RowFields DEF MarkJobFailed, OwnedBy, Row, Touches
  <2> QED
    BY <2>1, <2>2
<1>3. CASE MarkJobCompleted(s)
  <2>1. cur[s] \in Job /\ Row(s) \in Rows(Worker)
    BY <1>3, CallTypes DEF MarkJobCompleted, CompletesJob, Claimed
  <2>2. Touches(cur[s], MarkCompleted(Row(s), UrlOf(s)))
    BY <1>3, <2>1, RowFields DEF MarkJobCompleted, CompletesJob, SetRow, OwnedBy, Row, Touches
  <2> QED
    BY <2>1, <2>2
<1>4. CASE Heartbeat(s)
  <2>1. cur[s] \in Job /\ Row(s) \in Rows(Worker)
    BY <1>4, CallTypes DEF Heartbeat, TypeInv, Busy
  <2>2. UNCHANGED jobs \/ Touches(cur[s], ExtendLease(Row(s)))
    BY <1>4, <2>1, RowFields DEF Heartbeat, SetRow, OwnedBy, Row, Touches
  <2> QED
    BY <2>1, <2>2
<1> QED
  BY <1>1, <1>2, <1>3, <1>4 DEF WorkerStep, HeartbeatStop, Receive, ReceiveAndExit,
     WorkerExit, ClaimRefused, ClaimError, LoadJob, LoadError, RenderOk, ServiceError,
     SubprocessError, MarkFailedError, OwnershipValid, OwnershipLost, UploadOk, UploadError,
     MarkCompletedError

LEMMA WorkerKnown ==
  ASSUME TypeInv, Known, NEW s \in Slot, WorkerStep(s) \/ Heartbeat(s) \/ HeartbeatStop(s)
  PROVE  Known'
<1>1. UNCHANGED <<create, delete>>
  BY DEF WorkerStep, Heartbeat, HeartbeatStop, Receive, ReceiveAndExit, WorkerExit, ClaimWon,
         ClaimRefused, ClaimError, ClaimAnswerLost, LoadJob, LoadError, RenderOk,
         ServiceError, SubprocessError, MarkJobFailed, MarkFailedError, OwnershipValid,
         OwnershipLost, UploadOk, UploadError, MarkJobCompleted, MarkCompletedError, apiVars
<1> QED
  BY <1>1, WorkerTouches, KnownIfTouched

LEMMA JobKnown ==
  ASSUME TypeInv, Known, NEW j \in Job,
         \/ LeaseExpires(j) \/ LeaseLapses(j)
         \/ PublishRecovered(j) \/ SkipRecovered(j) \/ ApiStep(j)
  PROVE  Known'
<1>t. /\ jobs \in [Job -> Rows(Worker)]
      /\ create \in [Job -> {"none", "inserted", "accepted", "refused"}]
      /\ delete \in [Job -> {"none", "aborted", "videoDone", "done", "failed"}]
  BY DEF TypeInv, TypeOK
<1>1. CASE LeaseExpires(j) \/ LeaseLapses(j)
  BY <1>1, <1>t, RowFields DEF LeaseExpires, LeaseLapses, apiVars, Known
<1>2. CASE PublishRecovered(j) \/ SkipRecovered(j)
  BY <1>2 DEF PublishRecovered, SkipRecovered, apiVars, Known
<1>3. CASE InsertJob(j) \/ InsertAnswerLost(j)
  BY <1>3, <1>t, RowFields DEF InsertJob, InsertAnswerLost, Known
<1>4. CASE SubmitJob(j) \/ SubmitRefused(j)
  BY <1>4, <1>t DEF SubmitJob, SubmitRefused, Known
<1>5. CASE AbortJob(j)
  BY <1>5, <1>t DEF AbortJob, Known
<1>6. CASE DeleteVideo(j)
  BY <1>6, <1>t DEF DeleteVideo, Known
<1>7. CASE DeleteRow(j) \/ DeleteRowError(j)
  <2>1. UNCHANGED create /\ delete[j] = "videoDone"
    BY <1>7 DEF DeleteRow, DeleteRowError
  <2>2. UNCHANGED jobs \/ jobs' = [jobs EXCEPT ![j] = DeleteJob(@)]
    BY <1>7 DEF DeleteRow, DeleteRowError
  <2>3. \A i \in Job : i # j => delete'[i] = delete[i]
    BY <1>7, <1>t DEF DeleteRow, DeleteRowError
  <2> QED
    BY <1>t, <2>1, <2>2, <2>3, RowFields DEF Known
<1> QED
  BY <1>1, <1>2, <1>3, <1>4, <1>5, <1>6, <1>7 DEF ApiStep

LEMMA ProcessKnown ==
  ASSUME TypeInv, Known,
         \/ StartupReclaim \/ StartupFetch \/ StartupFetchError \/ StartupDone
         \/ ScheduledSweep \/ SweepAnswerLost \/ ProcessStep \/ UNCHANGED vars
  PROVE  Known'
<1>1. UNCHANGED jobs \/ jobs' = RecoverStalledJobs(jobs)
  BY DEF vars, ProcessStep, StartupReclaim, StartupFetch, StartupFetchError, StartupDone,
         ScheduledSweep, SweepAnswerLost, ShutdownServer, CancelContext, CloseQueue, Exit,
         SweepPanics, Crash, Restart, Die
<1>2. UNCHANGED <<create, delete>> \/ Die
  BY DEF vars, ProcessStep, StartupReclaim, StartupFetch, StartupFetchError, StartupDone,
         ScheduledSweep, SweepAnswerLost, ShutdownServer, CancelContext, CloseQueue, Exit,
         SweepPanics, Crash, Restart, apiVars
<1>3. \A j \in Job : jobs'[j].status = "ABSENT" <=> jobs[j].status = "ABSENT"
  BY <1>1, RowFields DEF TypeInv, TypeOK, RecoverStalledJobs, Stalled
<1>4. \A j \in Job : /\ create'[j] = "none" <=> create[j] = "none"
                     /\ delete'[j] = "none" <=> delete[j] = "none"
  BY <1>2 DEF Die
<1> QED
  BY <1>3, <1>4 DEF Known

LEMMA KnownInvariance == Spec => []Known
<1>1. Init => Known
  BY DEF Init, Known, Absent
<1>2. TypeInv /\ Known /\ [Next]_vars => Known'
  BY WorkerKnown, JobKnown, ProcessKnown DEF Next, SweepStep
<1>3. Inv => TypeInv
  BY DEF Inv
<1> QED
  BY <1>1, <1>2, <1>3, Invariance, PTL DEF Spec

-----------------------------------------------------------------------------
(* The steps of the life cycle, on the mapped variables *)

LEMMA MapTypes ==
  /\ Phase = [j \in Job |-> Phase[j]] /\ \A j \in Job : Phase[j] = jobs[j].status
  /\ Round = [j \in Job |-> Round[j]] /\ \A j \in Job : Round[j] = jobs[j].version
  /\ Claim = [s \in Slot |-> Claim[s]]
  /\ \A s \in Slot : Claim[s] = IF pc[s] \in Claimed THEN <<cur[s], stamp[s]>> ELSE None
BY DEF Phase, Round, Claim

(* A row rewritten without a change of status or version is a stutter.     *)
LEMMA SameRows ==
  ASSUME \A j \in Job : jobs'[j].status = jobs[j].status /\ jobs'[j].version = jobs[j].version
  PROVE  UNCHANGED <<Phase, Round>>
BY DEF Phase, Round

LEMMA OneRow ==
  ASSUME TypeInv, NEW j \in Job, NEW r, jobs' = [jobs EXCEPT ![j] = r]
  PROVE  /\ Phase' = [Phase EXCEPT ![j] = r.status]
         /\ Round' = [Round EXCEPT ![j] = r.version]
BY DEF TypeInv, TypeOK, Phase, Round

LEMMA SameClaims ==
  ASSUME \A s \in Slot : /\ pc'[s] \in Claimed <=> pc[s] \in Claimed
                         /\ pc[s] \in Claimed => cur'[s] = cur[s] /\ stamp'[s] = stamp[s]
  PROVE  UNCHANGED Claim
BY DEF Claim

LEMMA OneClaim ==
  ASSUME NEW s \in Slot, pc'[s] \notin Claimed,
         \A t \in Slot : t # s => pc'[t] = pc[t] /\ cur'[t] = cur[t] /\ stamp'[t] = stamp[t]
  PROVE  /\ Claim' = [Claim EXCEPT ![s] = None]
         /\ Claim' = [t \in Slot |-> IF t \in {s} THEN None ELSE Claim[t]]
BY DEF Claim

(* A call that returns with its row as it was has let go.                  *)
LEMMA ReturnLetsGo ==
  ASSUME TypeInv, NEW s \in Slot, Return(s), UNCHANGED jobs
  PROVE  Lifecycle!LetGo
<1>1. /\ pc'[s] \notin Claimed
      /\ \A t \in Slot : t # s => pc'[t] = pc[t] /\ cur'[t] = cur[t] /\ stamp'[t] = stamp[t]
  BY DEF Return, Goto, TypeInv, TypeOK, Claimed, Rendering, Finishing
<1>2. UNCHANGED <<Phase, Round>>
  BY SameRows
<1>3. Claim' = [t \in Slot |-> IF t \in {s} THEN None ELSE Claim[t]]
  BY <1>1, OneClaim
<1>4. {s} \in SUBSET Slot
  OBVIOUS
<1> QED
  BY <1>2, <1>3, <1>4 DEF Lifecycle!LetGo

LEMMA FinishMaps ==
  ASSUME TypeInv, Fenced, NEW s \in Slot, pc[s] \in Claimed, OwnedBy(Row(s), Me(s)),
  Return(s),
         NEW r, jobs' = [jobs EXCEPT ![cur[s]] = r],
         r.status \in Terminal, r.version = Row(s).version + 1
  PROVE  Lifecycle!Finish(s, cur[s])
<1>1. cur[s] \in Job
  BY CallTypes
<1>2. /\ pc'[s] \notin Claimed
      /\ \A t \in Slot : t # s => pc'[t] = pc[t] /\ cur'[t] = cur[t] /\ stamp'[t] = stamp[t]
  BY DEF Return, Goto, TypeInv, TypeOK, Claimed, Rendering, Finishing
<1>3. Claim' = [Claim EXCEPT ![s] = None]
  BY <1>2, OneClaim
<1>4. /\ Phase' = [Phase EXCEPT ![cur[s]] = r.status]
      /\ Round' = [Round EXCEPT ![cur[s]] = Round[cur[s]] + 1]
  <2>1. /\ Phase' = [Phase EXCEPT ![cur[s]] = r.status]
        /\ Round' = [Round EXCEPT ![cur[s]] = r.version]
    BY <1>1, OneRow
  <2>2. r.version = Round[cur[s]] + 1
    BY <1>1, MapTypes DEF Row
  <2> QED
    BY <2>1, <2>2
<1>5. Phase[cur[s]] = "PROCESSING" /\ Claim[s] = <<cur[s], Round[cur[s]]>>
  BY <1>1, MapTypes DEF OwnedBy, Row, Fenced
<1>6. r.status \in Lifecycle!Finished
  BY DEF Terminal, Lifecycle!Finished
<1> QED
  BY <1>3, <1>4, <1>5, <1>6 DEF Lifecycle!Finish, Lifecycle!Advance

LEMMA WorkerMaps ==
  ASSUME TypeInv, Fenced, NEW s \in Slot, WorkerStep(s) \/ Heartbeat(s) \/ HeartbeatStop(s)
  PROVE  Lifecycle!JNext \/ UNCHANGED Lifecycle!jvars
<1>t. pc \in [Slot -> PC] /\ cur \in [Slot -> Job \cup {None}] /\ stamp \in [Slot -> Nat]
      /\ jobs \in [Job -> Rows(Worker)]
  BY DEF TypeInv, TypeOK
<1>1. CASE ClaimWon(s)
  <2>1. cur[s] \in Job /\ Row(s) \in Rows(Worker)
    BY <1>1, CallTypes DEF ClaimWon
  <2>2. /\ Phase' = [Phase EXCEPT ![cur[s]] = "PROCESSING"]
        /\ Round' = [Round EXCEPT ![cur[s]] = Round[cur[s]] + 1]
    <3>1. jobs' = [jobs EXCEPT ![cur[s]] = ClaimJobCAS(Row(s), Me(s))]
      BY <1>1 DEF ClaimWon, SetRow
    <3>2. /\ Phase' = [Phase EXCEPT ![cur[s]] = ClaimJobCAS(Row(s), Me(s)).status]
          /\ Round' = [Round EXCEPT ![cur[s]] = ClaimJobCAS(Row(s), Me(s)).version]
      BY <2>1, <3>1, OneRow
    <3>3. Row(s).version = Round[cur[s]]
      BY <2>1, MapTypes DEF Row
    <3>4. /\ ClaimJobCAS(Row(s), Me(s)).status = "PROCESSING"
          /\ ClaimJobCAS(Row(s), Me(s)).version = Round[cur[s]] + 1
      BY <2>1, <3>3, ClaimFields
    <3> QED
      BY <3>2, <3>4
  <2>3. Claim' = [Claim EXCEPT ![s] = <<cur[s], Round[cur[s]] + 1>>]
    BY <1>1, <1>t, <2>1, MapTypes DEF ClaimWon, Goto, Claim, Claimed, Row
  <2>4. Phase[cur[s]] = "PENDING" /\ Claim[s] = None
    BY <1>1, <2>1, MapTypes DEF ClaimWon, CanClaim, Row, Claimed, Rendering, Finishing
  <2>5. Lifecycle!Take(s, cur[s])
    BY <2>2, <2>3, <2>4 DEF Lifecycle!Take, Lifecycle!Advance
  <2> QED
    BY <2>1, <2>5 DEF Lifecycle!JNext
<1>2. CASE ClaimAnswerLost(s)
  <2>1. cur[s] \in Job /\ Row(s) \in Rows(Worker)
    BY <1>2, CallTypes DEF ClaimAnswerLost
  <2>2. /\ Phase' = [Phase EXCEPT ![cur[s]] = "PROCESSING"]
        /\ Round' = [Round EXCEPT ![cur[s]] = Round[cur[s]] + 1]
    <3>1. jobs' = [jobs EXCEPT ![cur[s]] = ClaimJobCAS(Row(s), Me(s))]
      BY <1>2 DEF ClaimAnswerLost, SetRow
    <3>2. /\ Phase' = [Phase EXCEPT ![cur[s]] = ClaimJobCAS(Row(s), Me(s)).status]
          /\ Round' = [Round EXCEPT ![cur[s]] = ClaimJobCAS(Row(s), Me(s)).version]
      BY <2>1, <3>1, OneRow
    <3>3. Row(s).version = Round[cur[s]]
      BY <2>1, MapTypes DEF Row
    <3>4. /\ ClaimJobCAS(Row(s), Me(s)).status = "PROCESSING"
          /\ ClaimJobCAS(Row(s), Me(s)).version = Round[cur[s]] + 1
      BY <2>1, <3>3, ClaimFields
    <3> QED
      BY <3>2, <3>4
  <2>3. UNCHANGED Claim
    BY <1>2, <1>t, SameClaims DEF ClaimAnswerLost, Return, Goto, Claimed, Rendering, Finishing
  <2>4. Phase[cur[s]] = "PENDING"
    BY <1>2, <2>1, MapTypes DEF ClaimAnswerLost, CanClaim, Row
  <2>5. Lifecycle!TakeUnseen(cur[s])
    BY <2>2, <2>3, <2>4 DEF Lifecycle!TakeUnseen, Lifecycle!Advance
  <2> QED
    BY <2>1, <2>5 DEF Lifecycle!JNext
<1>3. CASE MarkJobFailed(s)
  <2>1. pc[s] \in Claimed
    BY <1>3 DEF MarkJobFailed, Claimed
  <2>2. cur[s] \in Job /\ Row(s) \in Rows(Worker)
    BY <2>1, CallTypes
  <2>3. /\ MarkFailed(Row(s)).status \in Terminal
        /\ MarkFailed(Row(s)).version = Row(s).version + 1
    BY <2>2 DEF MarkFailed, Rows, Terminal
  <2>4. CASE OwnedBy(Row(s), Me(s))
    <3>1. Lifecycle!Finish(s, cur[s])
      BY <1>3, <2>1, <2>3, <2>4, FinishMaps DEF MarkJobFailed
    <3> QED
      BY <2>2, <3>1 DEF Lifecycle!JNext
  <2>5. CASE ~OwnedBy(Row(s), Me(s))
    BY <1>3, <2>5, ReturnLetsGo DEF MarkJobFailed, Lifecycle!JNext
  <2> QED
    BY <2>4, <2>5
<1>4. CASE MarkJobCompleted(s)
  <2>1. pc[s] \in Claimed /\ OwnedBy(Row(s), Me(s))
    BY <1>4 DEF MarkJobCompleted, CompletesJob, Claimed
  <2>2. cur[s] \in Job /\ Row(s) \in Rows(Worker)
    BY <2>1, CallTypes
  <2>3. /\ MarkCompleted(Row(s), UrlOf(s)).status \in Terminal
        /\ MarkCompleted(Row(s), UrlOf(s)).version = Row(s).version + 1
    BY <2>2 DEF MarkCompleted, Rows, Terminal
  <2>4. Lifecycle!Finish(s, cur[s])
    BY <1>4, <2>1, <2>3, FinishMaps DEF MarkJobCompleted, SetRow
  <2> QED
    BY <2>2, <2>4 DEF Lifecycle!JNext
<1>5. CASE Heartbeat(s)
  <2>1. UNCHANGED jobs \/ jobs' = [jobs EXCEPT ![cur[s]] = ExtendLease(@)]
    BY <1>5 DEF Heartbeat, SetRow, Row
  <2>2. \A j \in Job : jobs'[j].status = jobs[j].status /\ jobs'[j].version = jobs[j].version
    BY <1>t, <2>1 DEF ExtendLease, Rows
  <2>3. UNCHANGED Claim
    BY <1>5 DEF Heartbeat, Claim
  <2> QED
    BY <2>2, <2>3, SameRows DEF Lifecycle!jvars
<1>6. CASE \/ ClaimRefused(s) \/ ClaimError(s) \/ MarkFailedError(s) \/ OwnershipLost(s)
           \/ MarkCompletedError(s)
  BY <1>6, ReturnLetsGo DEF ClaimRefused, ClaimError, MarkFailedError, OwnershipLost,
     MarkCompletedError, Lifecycle!JNext
<1>7. CASE \/ Receive(s) \/ ReceiveAndExit(s) \/ WorkerExit(s) \/ LoadJob(s) \/ LoadError(s)
           \/ RenderOk(s) \/ ServiceError(s) \/ SubprocessError(s) \/ OwnershipValid(s)
           \/ UploadOk(s) \/ UploadError(s) \/ HeartbeatStop(s)
  <2>1. UNCHANGED <<jobs, stamp>>
    BY <1>7 DEF Receive, ReceiveAndExit, WorkerExit, LoadJob, LoadError, RenderOk, 
       ServiceError, SubprocessError, OwnershipValid, UploadOk, UploadError, HeartbeatStop
  <2>2. UNCHANGED Claim
    <3>1. \A u \in Slot : pc'[u] \in Claimed <=> pc[u] \in Claimed
      BY <1>7, <1>t DEF Receive, ReceiveAndExit, WorkerExit, LoadJob, LoadError, RenderOk,
          ServiceError, SubprocessError, OwnershipValid, UploadOk, UploadError,
         HeartbeatStop, Goto, Claimed, Rendering, Finishing
    <3>2. \A u \in Slot : pc[u] \in Claimed => cur'[u] = cur[u]
      BY <1>7, <1>t DEF Receive, ReceiveAndExit, WorkerExit, LoadJob, LoadError, RenderOk,
          ServiceError, SubprocessError, OwnershipValid, UploadOk, UploadError,
         HeartbeatStop, Claimed, Rendering, Finishing
    <3> QED
      BY <2>1, <3>1, <3>2, SameClaims
  <2> QED
    BY <2>1, <2>2, SameRows DEF Lifecycle!jvars
<1> QED
  BY <1>1, <1>2, <1>3, <1>4, <1>5, <1>6, <1>7 DEF WorkerStep

LEMMA JobMaps ==
  ASSUME TypeInv, Known, NEW j \in Job,
         \/ LeaseExpires(j) \/ LeaseLapses(j)
         \/ PublishRecovered(j) \/ SkipRecovered(j) \/ ApiStep(j)
  PROVE  Lifecycle!JNext \/ UNCHANGED Lifecycle!jvars
<1>t. jobs \in [Job -> Rows(Worker)] /\ jobs[j] \in Rows(Worker)
  BY DEF TypeInv, TypeOK
<1>c. UNCHANGED Claim
  BY DEF LeaseExpires, LeaseLapses, PublishRecovered, SkipRecovered, ApiStep, InsertJob,
         InsertAnswerLost, SubmitJob, SubmitRefused, AbortJob, DeleteVideo, DeleteRow,
         DeleteRowError, callVars, Claim
<1>1. CASE UNCHANGED jobs \/ jobs' = [jobs EXCEPT ![j] = Lapse(@)]
  <2>1. \A i \in Job : jobs'[i].status = jobs[i].status /\ jobs'[i].version = jobs[i].version
    BY <1>1, <1>t DEF Lapse, Rows
  <2> QED
    BY <1>c, <2>1, SameRows DEF Lifecycle!jvars
<1>2. CASE InsertJob(j) \/ InsertAnswerLost(j)
  <2>1. jobs' = [jobs EXCEPT ![j] = CreateJob(jobs[j])] /\ create[j] = "none"
    BY <1>2 DEF InsertJob, InsertAnswerLost
  <2>2. CreateJob(jobs[j]).status = "PENDING" /\ CreateJob(jobs[j]).version = jobs[j].version
    BY <1>t DEF CreateJob, Rows
  <2>3. Phase' = [Phase EXCEPT ![j] = "PENDING"] /\ Phase[j] = "ABSENT"
    <3>1. Phase' = [Phase EXCEPT ![j] = CreateJob(jobs[j]).status]
      BY <2>1, OneRow
    <3> QED
      BY <2>1, <2>2, <3>1, MapTypes DEF Known
  <2>4. UNCHANGED Round
    BY <2>1, <2>2, <1>t DEF Round
  <2>5. Lifecycle!Submit(j)
    BY <1>c, <2>3, <2>4 DEF Lifecycle!Submit
  <2> QED
    BY <2>5 DEF Lifecycle!JNext
<1>3. CASE jobs' = [jobs EXCEPT ![j] = DeleteJob(@)] /\ delete[j] = "videoDone"
  <2>1. DeleteJob(jobs[j]).status = "DELETED" /\ DeleteJob(jobs[j]).version = jobs[j].version
    BY <1>t DEF DeleteJob, Absent, Rows
  <2>2. Phase' = [Phase EXCEPT ![j] = "DELETED"] /\ Phase[j] # "ABSENT"
    <3>1. Phase' = [Phase EXCEPT ![j] = DeleteJob(jobs[j]).status]
      BY <1>3, OneRow
    <3> QED
      BY <1>3, <2>1, <3>1, MapTypes DEF Known
  <2>3. UNCHANGED Round
    BY <1>3, <1>t, <2>1 DEF Round
  <2>4. Lifecycle!Remove(j)
    BY <1>c, <2>2, <2>3 DEF Lifecycle!Remove
  <2> QED
    BY <2>4 DEF Lifecycle!JNext
<1> QED
  BY <1>1, <1>2, <1>3 DEF LeaseExpires, LeaseLapses, PublishRecovered, SkipRecovered, ApiStep,
     SubmitJob, SubmitRefused, AbortJob, DeleteVideo, DeleteRow, DeleteRowError

LEMMA SweepMaps ==
  ASSUME TypeInv, jobs' = RecoverStalledJobs(jobs), UNCHANGED callVars
  PROVE  Lifecycle!Release
<1> DEFINE R == {j \in Job : Stalled(jobs[j])}
<1>t. jobs \in [Job -> Rows(Worker)]
  BY DEF TypeInv, TypeOK
<1>1. R \in SUBSET {j \in Job : Phase[j] = "PROCESSING"}
  BY MapTypes DEF Stalled
<1>2. \A j \in Job : /\ Recover(jobs[j]).status = "PENDING"
                     /\ Recover(jobs[j]).version = jobs[j].version + 1
  BY <1>t DEF Recover, Rows
<1>3. jobs' = [j \in Job |-> IF j \in R THEN Recover(jobs[j]) ELSE jobs[j]]
  BY <1>t DEF RecoverStalledJobs
<1>4. Phase' = [j \in Job |-> IF j \in R THEN "PENDING" ELSE Phase[j]]
  BY <1>2, <1>3 DEF Phase
<1>5. Round' = [j \in Job |-> IF j \in R THEN Round[j] + 1 ELSE Round[j]]
  BY <1>2, <1>3 DEF Round
<1>6. UNCHANGED Claim
  BY DEF callVars, Claim
<1> QED
  BY <1>1, <1>4, <1>5, <1>6 DEF Lifecycle!Release

LEMMA ProcessMaps ==
  ASSUME TypeInv,
         \/ StartupReclaim \/ StartupFetch \/ StartupFetchError \/ StartupDone
         \/ ScheduledSweep \/ SweepAnswerLost \/ ProcessStep \/ UNCHANGED vars
  PROVE  Lifecycle!JNext \/ UNCHANGED Lifecycle!jvars
<1>1. CASE Exit \/ SweepPanics \/ Crash
  <2>1. Die
    BY <1>1 DEF Exit, SweepPanics, Crash
  <2>2. UNCHANGED <<Phase, Round>>
    BY <2>1 DEF Die, Phase, Round
  <2>3. \A s \in Slot : pc'[s] \notin Claimed
    BY <2>1 DEF Die, Claimed, Rendering, Finishing
  <2>4. Claim' = [s \in Slot |-> IF s \in Slot THEN None ELSE Claim[s]]
    BY <2>3 DEF Claim
  <2>5. Lifecycle!LetGo
    BY <2>2, <2>4 DEF Lifecycle!LetGo
  <2> QED
    BY <2>5 DEF Lifecycle!JNext
<1>2. CASE Restart
  <2>1. \A s \in Slot : pc[s] \notin Claimed /\ pc'[s] \notin Claimed
    BY <1>2 DEF Restart, TypeInv, Busy, Claimed, Rendering, Finishing
  <2>2. UNCHANGED Claim
    BY <2>1, SameClaims
  <2>3. UNCHANGED <<Phase, Round>>
    BY <1>2 DEF Restart, Phase, Round
  <2> QED
    BY <2>2, <2>3 DEF Lifecycle!jvars
<1>3. CASE jobs' = RecoverStalledJobs(jobs) /\ UNCHANGED callVars
  BY <1>3, SweepMaps DEF Lifecycle!JNext
<1>4. CASE UNCHANGED <<jobs, callVars>>
  BY <1>4 DEF callVars, Phase, Round, Claim, Lifecycle!jvars
<1> QED
  BY <1>1, <1>2, <1>3, <1>4 DEF ProcessStep, StartupReclaim, StartupFetch, StartupFetchError,
     StartupDone, ScheduledSweep, SweepAnswerLost, ShutdownServer, CancelContext, CloseQueue,
     vars

LEMMA InitMaps == Init => Lifecycle!JInit
BY DEF Init, Absent, Phase, Round, Claim, Claimed, Rendering, Finishing, Lifecycle!JInit

(* The pipeline, its faults and crashes included, implements the job life  *)
(* cycle.                                                                  *)
THEOREM PipelineImplementsLifecycle == Spec => ImplementsLifecycle
<1>1. Inv /\ Known /\ [Next]_vars => [Lifecycle!JNext]_(Lifecycle!jvars)
  <2> SUFFICES ASSUME TypeInv, Fenced, Known, [Next]_vars
               PROVE  Lifecycle!JNext \/ UNCHANGED Lifecycle!jvars
    BY DEF Inv
  <2> QED
    BY WorkerMaps, JobMaps, ProcessMaps DEF Next, SweepStep
<1> QED
  BY <1>1, InitMaps, Invariance, KnownInvariance, PTL
     DEF Spec, ImplementsLifecycle, Lifecycle!JSpec
=============================================================================
