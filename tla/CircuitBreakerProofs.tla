------------------------ MODULE CircuitBreakerProofs ------------------------
(***************************************************************************)
(* Theorems about CircuitBreaker, for any number of callers, any threshold *)
(* and any bounds.                                                         *)
(***************************************************************************)
EXTENDS CircuitBreaker, TLAPS

Inv == TypeOK /\ CountMatchesState

LEMMA InvInit == Init => Inv
BY ThresholdAssumption DEF Init, Inv, TypeOK, CountMatchesState, State

(* A caller that only moves between the two locks, or gives up, and the    *)
(* environment, change neither the state nor the count.                    *)
LEMMA BystanderStep ==
  ASSUME Inv, UNCHANGED <<state, failureCount>>, TypeOK'
  PROVE  Inv'
BY DEF Inv, CountMatchesState

LEMMA CallerStep ==
  ASSUME Inv, NEW c \in Caller,
         \/ Allow(c) \/ AllowExpired(c) \/ Upgrade(c)
         \/ RecordSuccess(c) \/ RecordFailure(c) \/ NotSent(c)
  PROVE  Inv'
<1> USE DEF Inv, TypeOK, State
<1>1. CASE Allow(c)
  BY <1>1, BystanderStep DEF Allow, Admit
<1>2. CASE AllowExpired(c)
  BY <1>2, BystanderStep DEF AllowExpired
<1>3. CASE Upgrade(c)
  BY <1>3 DEF Upgrade, Admit, CountMatchesState
<1>4. CASE RecordSuccess(c)
  BY <1>4, ThresholdAssumption DEF RecordSuccess, Leave, CountMatchesState
<1>5. CASE RecordFailure(c)
  <2>1. failureCount' = failureCount + 1 /\ failureCount' \in Nat /\ failureCount' > 0
    BY <1>5 DEF RecordFailure
  <2>2. /\ state' \in State
        /\ state' = "CLOSED" => failureCount' < FailureThreshold
    BY <1>5, <2>1, ThresholdAssumption DEF RecordFailure
  <2>3. aborts' \in Nat
    BY <1>5 DEF RecordFailure, CallFailed, CallCancelled
  <2> QED
    BY <1>5, <2>1, <2>2, <2>3 DEF RecordFailure, Leave, CountMatchesState
<1>6. CASE NotSent(c)
  BY <1>6, BystanderStep DEF NotSent, Leave
<1> QED
  BY <1>1, <1>2, <1>3, <1>4, <1>5, <1>6

LEMMA InvStep == Inv /\ [Next]_vars => Inv'
<1> SUFFICES ASSUME Inv, [Next]_vars
             PROVE  Inv'
  OBVIOUS
<1>1. CASE CoolDown \/ ServiceFails \/ ServiceRecovers
  BY <1>1, BystanderStep DEF CoolDown, ServiceFails, ServiceRecovers, Inv, TypeOK
<1>2. CASE UNCHANGED vars
  BY <1>2 DEF vars, Inv, TypeOK, CountMatchesState
<1> QED
  BY <1>1, <1>2, CallerStep DEF Next

(* Every variable keeps its type.                                          *)
THEOREM TypeCorrect == Spec => []TypeOK
<1>1. Inv => TypeOK
  BY DEF Inv
<1> QED
  BY <1>1, InvInit, InvStep, PTL DEF Spec

(* Although a caller may force HALF_OPEN on a breaker that others have     *)
(* moved on meanwhile, a closed breaker is below its threshold and an open *)
(* one has a failure behind it.                                            *)
THEOREM CountMatchesStateHolds == Spec => []CountMatchesState
<1>1. Inv => CountMatchesState
  BY DEF Inv
<1> QED
  BY <1>1, InvInit, InvStep, PTL DEF Spec
=============================================================================
