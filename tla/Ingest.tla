------------------------------- MODULE Ingest -------------------------------
(***************************************************************************)
(* Several orchestrator nodes over one jobs table and one RabbitMQ queue:  *)
(* admission of a user's requests (job_handler.go), publication, delivery, *)
(* claim and recovery, through node crashes, restarts, lost connections,   *)
(* and statements that fail or whose answers are lost.  The inside of a    *)
(* rendering, deletion and the shutdown sequence are in Pipeline; here a   *)
(* claimed job is worked on, then finished (COMPLETED stands for FAILED    *)
(* too: both are final), and the worker pool of a node has one worker.     *)
(***************************************************************************)
EXTENDS RabbitQueue

INSTANCE JobRepo

CONSTANTS Limit,       \* active jobs a user may have (5 in the code)
          Front,       \* bound: the nodes the user's requests reach
          Frail,       \* bound: the nodes that may fail
          MaxFaults,   \* bound: crashes, lost connections, stalls
          MaxErrors    \* bound: database errors

ASSUME LimitAssumption == Limit \in Nat \ {0}
ASSUME BoundAssumption == MaxFaults \in Nat /\ MaxErrors \in Nat
ASSUME FrontAssumption == Front \subseteq Node /\ Frail \subseteq Node
ASSUME JobAssumption   == IsFiniteSet(Job)

VARIABLES
  jobs,      \* the jobs table; all rows belong to one user
  life,      \* per node, where main() is
  epoch,     \* per node, its incarnation: worker ids are fresh in each
  todo,      \* per node, ids a recovery sweep has still to publish
  pc, cur, stamp,  \* per node, its worker: next statement, job, claim version
  request,   \* per job, where the request that creates it is
  at,        \* per job, the node that serves that request
  crowd,     \* most requests that were between count and insert at once (history)
  parked,    \* ids left PENDING and in nobody's hands (history)
  faults, errors   \* faults of nodes and database errors so far

workVars == <<pc, cur, stamp>>
reqVars  == <<request, at, crowd>>
faultVars == <<faults, errors>>
vars == <<queueVars, jobs, life, epoch, todo, workVars, reqVars, parked, faultVars>>

Worker == Node \X Nat
Me(n)  == <<n, epoch[n]>>

Up(n)  == life[n] # "down"

NoFault    == UNCHANGED faultVars
Fault(n)   == /\ n \in Frail /\ faults < MaxFaults
              /\ faults' = faults + 1 /\ UNCHANGED errors
DbError(n) == /\ n \in Frail /\ errors < MaxErrors
              /\ errors' = errors + 1 /\ UNCHANGED faults

Park(J)   == parked' = parked \cup J
Unpark(J) == parked' = parked \ J

(* On the way to a worker: in the broker, in a bridge that has not passed  *)
(* it on, in a channel, or received and not yet claimed.                   *)
InTransit(j) == \/ j \in Range(ready)
                \/ \E n \in Node : \/ held[n] = j /\ ~sent[n]
                                   \/ j \in Range(jobChan[n])
                                   \/ pc[n] = "claim" /\ cur[n] = j

Init ==
  /\ QueueInit
  /\ jobs    = [j \in Job |-> Absent]
  /\ life    = [n \in Node |-> "serving"]
  /\ epoch   = [n \in Node |-> 0]
  /\ todo    = [n \in Node |-> {}]
  /\ pc      = [n \in Node |-> "idle"]
  /\ cur     = [n \in Node |-> None]
  /\ stamp   = [n \in Node |-> 0]
  /\ request = [j \in Job |-> "none"]
  /\ at      = [j \in Job |-> None]
  /\ crowd   = 0
  /\ parked  = {}
  /\ faults  = 0
  /\ errors  = 0

-----------------------------------------------------------------------------
(* The CreateJob handler                                                   *)

ActiveQueued == {j \in Job : jobs[j].status = "PENDING"}  \* mutant: PROCESSING not counted
Active       == {j \in Job : jobs[j].status \in {"PENDING", "PROCESSING"}}
Counted      == {j \in Job : request[j] = "counted"}

CountJobs(j, n) ==
  /\ request[j] = "none" /\ life[n] = "serving"
  /\ Cardinality(Active) < Limit
  /\ request' = [request EXCEPT ![j] = "counted"]
  /\ at'      = [at EXCEPT ![j] = n]
  /\ crowd'   = IF crowd > Cardinality(Counted) THEN crowd ELSE Cardinality(Counted) + 1
  /\ UNCHANGED <<queueVars, jobs, life, epoch, todo, workVars, parked, faultVars>>

(* 429 *)
TooManyJobs(j, n) ==
  /\ request[j] = "none" /\ life[n] = "serving"
  /\ Cardinality(Active) >= Limit
  /\ request' = [request EXCEPT ![j] = "refused"]
  /\ UNCHANGED <<queueVars, jobs, life, epoch, todo, workVars, at, crowd, parked, faultVars>>

InsertJob(j) ==
  /\ request[j] = "counted"
  /\ jobs'    = [jobs EXCEPT ![j] = CreateJob(@)]
  /\ request' = [request EXCEPT ![j] = "inserted"]
  /\ UNCHANGED <<queueVars, life, epoch, todo, workVars, at, crowd, parked, faultVars>>

Answer(j, a) == /\ request' = [request EXCEPT ![j] = a]
                /\ at'      = [at EXCEPT ![j] = None]

(* 500: there is no row, or there is one and nothing submits it. *)
InsertError(j) ==
  /\ request[j] = "counted" /\ DbError(at[j])
  /\ \/ UNCHANGED <<jobs, parked>>
     \/ jobs' = [jobs EXCEPT ![j] = CreateJob(@)] /\ Park({j})
  /\ Answer(j, "refused")
  /\ UNCHANGED <<queueVars, life, epoch, todo, workVars, crowd>>

SubmitJob(j) ==
  /\ request[j] = "inserted"
  /\ \/ /\ Publish(at[j], j) /\ NoFault /\ UNCHANGED parked
        /\ Answer(j, "accepted")
     \/ /\ PublishUnsent(at[j], j) /\ Fault(at[j]) /\ UNCHANGED parked
        /\ Answer(j, "accepted")
     \/ /\ PublishError(at[j]) /\ Park({j}) /\ NoFault
        /\ Answer(j, "refused")          \* 503; the row stays PENDING
  /\ UNCHANGED <<jobs, life, epoch, todo, workVars, crowd>>

-----------------------------------------------------------------------------
(* The worker of a node                                                    *)

Receive(n) ==
  /\ pc[n] = "idle" /\ Take(n)
  /\ pc'  = [pc EXCEPT ![n] = "claim"]
  /\ cur' = [cur EXCEPT ![n] = Head(jobChan[n])]
  /\ UNCHANGED <<jobs, life, epoch, todo, stamp, reqVars, parked, faultVars>>

Idle(n) == /\ pc'    = [pc EXCEPT ![n] = "idle"]
           /\ cur'   = [cur EXCEPT ![n] = None]
           /\ stamp' = [stamp EXCEPT ![n] = 0]

Row(n) == jobs[cur[n]]

Claim(n) ==
  /\ pc[n] = "claim"
  /\ \/ /\ CanClaim(Row(n))
        /\ jobs'  = [jobs EXCEPT ![cur[n]] = ClaimJobCAS(@, Me(n))]
        /\ pc'    = [pc EXCEPT ![n] = "work"]
        /\ stamp' = [stamp EXCEPT ![n] = Row(n).version + 1]
        /\ UNCHANGED cur
     \/ /\ ~CanClaim(Row(n))           \* a duplicate: dropped
        /\ Idle(n)
        /\ UNCHANGED jobs
  /\ UNCHANGED <<queueVars, life, epoch, todo, reqVars, parked, faultVars>>

(* The statement failed, or it claimed the row and its answer was lost.    *)
(* Either way the call returns, and the id was acknowledged long before.   *)
ClaimError(n) ==
  /\ pc[n] = "claim" /\ CanClaim(Row(n)) /\ DbError(n)
  /\ \/ UNCHANGED jobs /\ Park({cur[n]})
     \/ jobs' = [jobs EXCEPT ![cur[n]] = ClaimJobCAS(@, Me(n))] /\ UNCHANGED parked
  /\ Idle(n)
  /\ UNCHANGED <<queueVars, life, epoch, todo, reqVars>>

Finish(n) ==
  /\ pc[n] = "work"
  /\ IF OwnedBy(Row(n), Me(n))
     THEN jobs' = [jobs EXCEPT ![cur[n]] = MarkCompleted(@, "local")]
     ELSE UNCHANGED jobs
  /\ Idle(n)
  /\ UNCHANGED <<queueVars, life, epoch, todo, reqVars, parked, faultVars>>

(* The last statement failed: the row is left to its lease. *)
FinishError(n) ==
  /\ pc[n] = "work" /\ DbError(n)
  /\ Idle(n)
  /\ UNCHANGED <<queueVars, jobs, life, epoch, todo, reqVars, parked>>

(* jobChan is closed and empty: the pool ends, the HTTP server stays.      *)
WorkerExit(n) ==
  /\ pc[n] = "idle" /\ link[n] = "closed" /\ jobChan[n] = << >>
  /\ pc' = [pc EXCEPT ![n] = "exited"]
  /\ UNCHANGED <<queueVars, jobs, life, epoch, todo, cur, stamp, reqVars, parked, faultVars>>

WorkerStep(n) == \/ Receive(n) \/ Claim(n) \/ ClaimError(n)
                 \/ Finish(n) \/ FinishError(n) \/ WorkerExit(n)

BridgeStep(n) ==
  /\ Bridge(n)
  /\ UNCHANGED <<jobs, life, epoch, todo, workVars, reqVars, parked, faultVars>>

-----------------------------------------------------------------------------
(* Leases and recovery                                                     *)

Keeps(n, j)  == pc[n] = "work" /\ cur[n] = j /\ jobs[j].worker = Me(n)
KeptAlive(j) == \E n \in Node : Keeps(n, j)

LeaseExpires(j) ==
  /\ jobs[j].status = "PROCESSING" /\ jobs[j].lease = "live" /\ ~KeptAlive(j)
  /\ jobs' = [jobs EXCEPT ![j] = Lapse(@)]
  /\ UNCHANGED <<queueVars, life, epoch, todo, workVars, reqVars, parked, faultVars>>

(* The worker stalls, or its heartbeats fail, for a whole lease. *)
LeaseLapses(j) ==
  /\ jobs[j].status = "PROCESSING" /\ jobs[j].lease = "live"
  /\ \E n \in Node : Keeps(n, j) /\ Fault(n)
  /\ jobs' = [jobs EXCEPT ![j] = Lapse(@)]
  /\ UNCHANGED <<queueVars, life, epoch, todo, workVars, reqVars, parked>>

(* StartupRecovery looks at the error only to log it. *)
StartupReclaim(n) ==
  /\ life[n] = "reclaim"
  /\ \/ jobs' = RecoverStalledJobs(jobs) /\ NoFault
     \/ UNCHANGED jobs /\ DbError(n)
  /\ life' = [life EXCEPT ![n] = "fetch"]
  /\ UNCHANGED <<queueVars, epoch, todo, workVars, reqVars, parked>>

StartupFetchStalled(n) ==      \* mutant: only what the sweep reclaimed is published
  /\ life[n] = "fetch"
  /\ todo' = [todo EXCEPT ![n] = {j \in Job : IsPending(jobs[j]) /\ jobs[j].version > 0}]
  /\ life' = [life EXCEPT ![n] = "publish"]
  /\ Unpark(todo'[n])
  /\ UNCHANGED <<queueVars, jobs, epoch, workVars, reqVars, faultVars>>

StartupFetch(n) ==
  /\ life[n] = "fetch"
  /\ todo' = [todo EXCEPT ![n] = {j \in Job : IsPending(jobs[j])}]
  /\ life' = [life EXCEPT ![n] = "publish"]
  /\ Unpark({j \in Job : IsPending(jobs[j])})
  /\ UNCHANGED <<queueVars, jobs, epoch, workVars, reqVars, faultVars>>

(* GetPendingJobs failed: the node serves without publishing anything. *)
StartupFetchError(n) ==
  /\ life[n] = "fetch" /\ DbError(n)
  /\ life' = [life EXCEPT ![n] = "serving"]
  /\ Park({j \in Job : IsPending(jobs[j]) /\ ~InTransit(j)})
  /\ UNCHANGED <<queueVars, jobs, epoch, todo, workVars, reqVars>>

StartupDone(n) ==
  /\ life[n] = "publish" /\ todo[n] = {}
  /\ life' = [life EXCEPT ![n] = "serving"]
  /\ UNCHANGED <<queueVars, jobs, epoch, todo, workVars, reqVars, parked, faultVars>>

(* The scheduled sweep of any node reclaims for all of them.               *)
SweepDue(n) == life[n] = "serving" /\ todo[n] = {} /\ \E j \in Job : Stalled(jobs[j])

ScheduledSweep(n) ==
  /\ SweepDue(n)
  /\ jobs' = RecoverStalledJobs(jobs)
  /\ todo' = [todo EXCEPT ![n] = {j \in Job : Stalled(jobs[j])}]
  /\ Unpark({j \in Job : Stalled(jobs[j])})
  /\ UNCHANGED <<queueVars, life, epoch, workVars, reqVars, faultVars>>

(* The rows were reclaimed and the ids were lost on the way back. *)
SweepAnswerLost(n) ==
  /\ SweepDue(n) /\ DbError(n)
  /\ jobs' = RecoverStalledJobs(jobs)
  /\ Park({j \in Job : Stalled(jobs[j])})
  /\ UNCHANGED <<queueVars, life, epoch, todo, workVars, reqVars>>

Republish(n, j) ==
  /\ j \in todo[n]
  /\ \/ Publish(n, j) /\ NoFault /\ UNCHANGED parked
     \/ PublishUnsent(n, j) /\ Fault(n) /\ UNCHANGED parked
     \/ PublishError(n) /\ Park({j}) /\ NoFault
  /\ todo' = [todo EXCEPT ![n] = @ \ {j}]
  /\ UNCHANGED <<jobs, life, epoch, workVars, reqVars>>

SweepStep(n) == \/ StartupReclaim(n) \/ StartupFetch(n) \/ StartupFetchError(n)
                \/ StartupDone(n) \/ ScheduledSweep(n) \/ SweepAnswerLost(n)
                \/ \E j \in Job : Republish(n, j)

-----------------------------------------------------------------------------
(* Faults                                                                  *)

ConnectionLost(n) ==
  /\ Cut(n) /\ Fault(n)
  /\ UNCHANGED <<jobs, life, epoch, todo, workVars, reqVars, parked>>

Crash(n) ==
  /\ Up(n) /\ Fault(n)
  /\ Leave(n)
  /\ life'    = [life EXCEPT ![n] = "down"]
  /\ todo'    = [todo EXCEPT ![n] = {}]
  /\ Idle(n)
  /\ request' = [j \in Job |-> IF at[j] = n THEN "refused" ELSE request[j]]
  /\ at'      = [j \in Job |-> IF at[j] = n THEN None ELSE at[j]]
  /\ UNCHANGED <<jobs, epoch, crowd, parked>>

Restart(n) ==
  /\ life[n] = "down"
  /\ Connect(n)
  /\ life'  = [life EXCEPT ![n] = "reclaim"]
  /\ epoch' = [epoch EXCEPT ![n] = @ + 1]
  /\ UNCHANGED <<jobs, todo, workVars, reqVars, parked, faultVars>>

-----------------------------------------------------------------------------
Next ==
  \/ \E j \in Job : \/ \E n \in Front : CountJobs(j, n) \/ TooManyJobs(j, n)
                    \/ InsertJob(j) \/ InsertError(j) \/ SubmitJob(j)
                    \/ LeaseExpires(j) \/ LeaseLapses(j)
  \/ \E n \in Node : WorkerStep(n) \/ BridgeStep(n) \/ SweepStep(n) \/ Restart(n)
  \/ \E n \in Frail : ConnectionLost(n) \/ Crash(n)

Spec == Init /\ [][Next]_vars
=============================================================================
