--------------------------- MODULE CircuitBreaker ---------------------------
(***************************************************************************)
(* internal/worker/circuit_breaker.go as the renderer clients use it: each *)
(* worker that renders asks Allow, calls the service, and records how the  *)
(* call went.  A step is one critical section of cb.mu; Allow has two when *)
(* it moves the breaker to HALF_OPEN, because it gives its read lock up to *)
(* take the write lock.                                                    *)
(***************************************************************************)
EXTENDS Naturals, FiniteSets

CONSTANTS
  Caller,           \* goroutines that call the renderer
  FailureThreshold, \* failures before tripping to OPEN
  MaxFailures,      \* bound on failureCount
  MaxAborts         \* bound on calls cancelled by their own job

ASSUME ThresholdAssumption == FailureThreshold \in Nat \ {0}
ASSUME BoundAssumption     == MaxFailures \in Nat /\ MaxAborts \in Nat

VARIABLES
  state,         \* CLOSED, OPEN or HALF_OPEN
  failureCount,
  cooled,        \* time.Since(lastFailureTime) > cooldownPeriod
  pc,            \* per caller: idle, upgrading the lock, or calling
  probe,         \* per caller: admitted by HALF_OPEN (history)
  healthy,       \* the renderer service answers (environment)
  aborts

vars == <<state, failureCount, cooled, pc, probe, healthy, aborts>>

State == {"CLOSED", "OPEN", "HALF_OPEN"}

Init ==
  /\ state = "CLOSED" /\ failureCount = 0
  /\ cooled = TRUE                    \* lastFailureTime is the zero time
  /\ pc = [c \in Caller |-> "idle"]
  /\ probe = [c \in Caller |-> FALSE]
  /\ healthy = TRUE /\ aborts = 0

Admit(c, asProbe) == /\ pc'    = [pc EXCEPT ![c] = "calling"]
                     /\ probe' = [probe EXCEPT ![c] = asProbe]

(* Allow, under the read lock *)
Allow(c) ==
  /\ pc[c] = "idle" /\ state \in {"CLOSED", "HALF_OPEN"}
  /\ Admit(c, state = "HALF_OPEN")
  /\ UNCHANGED <<state, failureCount, cooled, healthy, aborts>>

AllowExpired(c) ==
  /\ pc[c] = "idle" /\ state = "OPEN" /\ cooled
  /\ pc' = [pc EXCEPT ![c] = "upgrading"]
  /\ UNCHANGED <<state, failureCount, cooled, probe, healthy, aborts>>

(* ... and under the write lock, whatever the state has become meanwhile. *)
(* ErrCircuitOpen, the remaining case, changes nothing.                   *)
Upgrade(c) ==
  /\ pc[c] = "upgrading"
  /\ state' = "HALF_OPEN"
  /\ Admit(c, TRUE)
  /\ UNCHANGED <<failureCount, cooled, healthy, aborts>>

Leave(c) == /\ pc'    = [pc EXCEPT ![c] = "idle"]
            /\ probe' = [probe EXCEPT ![c] = FALSE]

SuccessForgivesOne(c) ==    \* mutant: one failure is taken back, not all
  /\ pc[c] = "calling" /\ healthy
  /\ failureCount' = failureCount - 1
  /\ state' = "CLOSED"
  /\ Leave(c)
  /\ UNCHANGED <<cooled, healthy, aborts>>

SuccessKeepsState(c) ==     \* mutant: only the count is reset
  /\ pc[c] = "calling" /\ healthy
  /\ failureCount' = 0
  /\ Leave(c)
  /\ UNCHANGED <<state, cooled, healthy, aborts>>

RecordSuccess(c) ==
  /\ pc[c] = "calling" /\ healthy
  /\ failureCount' = 0
  /\ state' = "CLOSED"
  /\ Leave(c)
  /\ UNCHANGED <<cooled, healthy, aborts>>

(* The service failed, or the job's context was cancelled during the call: *)
(* Render does not tell the two apart.                                     *)
CallFailed == ~healthy /\ UNCHANGED aborts
CallCancelled == aborts < MaxAborts /\ aborts' = aborts + 1

FailureTripsLate(c) ==      \* mutant: the threshold is compared with >
  /\ pc[c] = "calling" /\ (CallFailed \/ CallCancelled)
  /\ failureCount < MaxFailures
  /\ failureCount' = failureCount + 1
  /\ cooled' = FALSE
  /\ state' = IF state = "HALF_OPEN" \/ failureCount' > FailureThreshold
              THEN "OPEN" ELSE state
  /\ Leave(c)
  /\ UNCHANGED healthy

RecordFailure(c) ==
  /\ pc[c] = "calling" /\ (CallFailed \/ CallCancelled)
  /\ failureCount < MaxFailures
  /\ failureCount' = failureCount + 1
  /\ cooled' = FALSE
  /\ state' = IF state = "HALF_OPEN" \/ failureCount' >= FailureThreshold
              THEN "OPEN" ELSE state
  /\ Leave(c)
  /\ UNCHANGED healthy

(* The request could not be built: Render returns without recording. *)
NotSent(c) ==
  /\ pc[c] = "calling"
  /\ Leave(c)
  /\ UNCHANGED <<state, failureCount, cooled, healthy, aborts>>

CoolDown ==
  /\ ~cooled /\ cooled' = TRUE
  /\ UNCHANGED <<state, failureCount, pc, probe, healthy, aborts>>

ServiceFails   == healthy  /\ healthy' = FALSE
                  /\ UNCHANGED <<state, failureCount, cooled, pc, probe, aborts>>
ServiceRecovers == ~healthy /\ healthy' = TRUE
                  /\ UNCHANGED <<state, failureCount, cooled, pc, probe, aborts>>

Next ==
  \/ \E c \in Caller : \/ Allow(c) \/ AllowExpired(c) \/ Upgrade(c)
                       \/ RecordSuccess(c) \/ RecordFailure(c) \/ NotSent(c)
  \/ CoolDown
  \/ ServiceFails \/ ServiceRecovers

Spec == Init /\ [][Next]_vars

(* Jobs keep coming, calls return (the HTTP client has a timeout), time    *)
(* passes.  Requests that cannot be built are not forced to happen, and    *)
(* every caller sometimes gets its request out.                            *)
Fairness ==
  /\ \A c \in Caller : /\ WF_vars(Allow(c) \/ AllowExpired(c) \/ Upgrade(c))
                       /\ SF_vars(RecordSuccess(c))
                       /\ WF_vars(RecordFailure(c))
  /\ WF_vars(CoolDown)

FairSpec == Spec /\ Fairness

-----------------------------------------------------------------------------
TypeOK ==
  /\ state \in State
  /\ failureCount \in Nat
  /\ cooled \in BOOLEAN
  /\ pc \in [Caller -> {"idle", "upgrading", "calling"}]
  /\ probe \in [Caller -> BOOLEAN]
  /\ healthy \in BOOLEAN
  /\ aborts \in Nat

(* Whatever stale callers do between their two locks, a closed breaker has *)
(* not reached its threshold, and an open one has a failure to show for it *)
(* (circuit_breaker.go:60-69, 79-98).                                      *)
CountMatchesState ==
  /\ state = "CLOSED" => failureCount < FailureThreshold
  /\ state = "OPEN"   => failureCount > 0

(* Once the service stays healthy the breaker closes for good: no          *)
(* interleaving of stale upgrades and late failures keeps the fallback in  *)
(* use for ever.                                                           *)
RecoveredServiceIsUsed == <>[]healthy => <>[](state = "CLOSED")

(* circuit_breaker.go:18 and 72, "testing with single request", "Allow     *)
(* single test request": at most one test call is out at a time.  The code *)
(* admits every caller; no run checks this statement.                      *)
SingleTestRequest ==
  \A c, d \in Caller : probe[c] /\ probe[d] => c = d
=============================================================================
