------------------------ MODULE PipelineTicketProofs ------------------------
(***************************************************************************)
(* A pending job is in the hands of a serving process exactly once, for    *)
(* any set of jobs and workers and any queue capacity.                     *)
(*                                                                         *)
(* Every step is read as bookkeeping on tickets: it moves the ticket of a  *)
(* job on, spends it on a claim, gives a new one to a job that becomes     *)
(* PENDING, or tears it up and parks the job.  OneTicket is not inductive: *)
(* that an insert, a fetch or a sweep hands out a first ticket, and not a  *)
(* second one, rests on what the requests and the rows have been through.  *)
(***************************************************************************)
EXTENDS PipelineProofs, FiniteSetTheorems, SequenceTheorems

(* Counting *)

Positions(q, j) == {i \in 1..Len(q) : q[i] = j}
Claiming(j)     == {s \in Slot : pc[s] = "claim" /\ cur[s] = j}
One(b)          == IF b THEN 1 ELSE 0

(* There may be any number of slots; the ones about to claim a job are few. *)
FiniteClaims == \A j \in Job : IsFiniteSet(Claiming(j))

LEMMA TicketsSplit ==
  \A j : Tickets(j) = Cardinality(Positions(queue, j)) + Cardinality(Claiming(j))
                        + One(j \in todo) + One(create[j] = "inserted")
BY DEF Tickets, Positions, Claiming, One

LEMMA PositionsFinite ==
  ASSUME NEW q \in Seq(Job), NEW j
  PROVE  IsFiniteSet(Positions(q, j)) /\ Cardinality(Positions(q, j)) \in Nat
<1>1. IsFiniteSet(1..Len(q))
  BY LenProperties, FS_Interval
<1>2. Positions(q, j) \in SUBSET (1..Len(q))
  BY DEF Positions
<1>3. IsFiniteSet(Positions(q, j))
  BY <1>1, <1>2, FS_Subset
<1> QED
  BY <1>3, FS_CardinalityType

(* A publish adds one occurrence of the id it publishes. *)
LEMMA PositionsOfAppend ==
  ASSUME NEW q \in Seq(Job), NEW k \in Job, NEW j
  PROVE  Cardinality(Positions(Append(q, k), j)) = Cardinality(Positions(q, j)) + One(k = j)
<1> DEFINE n == Len(q) + 1
<1>1. /\ Len(q) \in Nat /\ Len(Append(q, k)) = n /\ Append(q, k)[n] = k
      /\ \A i \in 1..Len(q) : Append(q, k)[i] = q[i]
  BY AppendProperties, LenProperties
<1>2. n \notin Positions(q, j) /\ 1..n = (1..Len(q)) \cup {n}
  BY <1>1 DEF Positions
<1>3. CASE k = j
  <2>1. Positions(Append(q, k), j) = Positions(q, j) \cup {n}
    BY <1>1, <1>2, <1>3 DEF Positions
  <2>2. Cardinality(Positions(q, j) \cup {n}) = Cardinality(Positions(q, j)) + 1
    BY <1>2, PositionsFinite, FS_AddElement
  <2> QED
    BY <1>3, <2>1, <2>2 DEF One
<1>4. CASE k # j
  <2>1. Positions(Append(q, k), j) = Positions(q, j)
    BY <1>1, <1>2, <1>4 DEF Positions
  <2> QED
    BY <1>4, <2>1, PositionsFinite DEF One
<1> QED
  BY <1>3, <1>4

(* A receive takes one occurrence of the id at the head. *)
LEMMA PositionsOfTail ==
  ASSUME NEW q \in Seq(Job), q # << >>, NEW j
  PROVE  Cardinality(Positions(q, j)) = Cardinality(Positions(Tail(q), j)) + One(Head(q) = j)
<1> DEFINE P == Positions(q, j)  T == Positions(Tail(q), j)
<1>1. /\ Len(q) \in Nat /\ Len(q) # 0 /\ Head(q) = q[1] /\ Tail(q) \in Seq(Job)
      /\ Len(Tail(q)) = Len(q) - 1 /\ \A i \in 1..Len(Tail(q)) : Tail(q)[i] = q[i + 1]
  BY HeadTailProperties, LenProperties, EmptySeq
<1>2. IsFiniteSet(P) /\ Cardinality(P) \in Nat /\ IsFiniteSet(T) /\ Cardinality(T) \in Nat
  BY <1>1, PositionsFinite
<1>3. Cardinality(P \ {1}) = Cardinality(T)
  <2> DEFINE f == [i \in T |-> i + 1]
  <2>1. \A i \in T : f[i] \in P \ {1}
    BY <1>1 DEF Positions
  <2>2. \A p \in P \ {1} : p - 1 \in T /\ f[p - 1] = p
    BY <1>1 DEF Positions
  <2>3. \A i, k \in T : f[i] = f[k] => i = k
    BY <1>1 DEF Positions
  <2>4. f \in Bijection(T, P \ {1})
    <3>1. f \in [T -> P \ {1}]
      BY <2>1
    <3>2. \A i, k \in T : f[i] = f[k] => i = k
      BY <2>3
    <3>3. \A p \in P \ {1} : \E i \in T : f[i] = p
      BY <2>2
    <3> HIDE DEF f
    <3>4. f \in Injection(T, P \ {1})
      BY <3>1, <3>2 DEF Injection, IsInjective
    <3>5. f \in Surjection(T, P \ {1})
      BY <3>1, <3>3 DEF Surjection
    <3> QED
      BY <3>4, <3>5 DEF Bijection
  <2> QED
    BY <1>2, <2>4, FS_Bijection DEF ExistsBijection
<1>4. 1 \in P <=> Head(q) = j
  BY <1>1 DEF Positions
<1> HIDE DEF P, T
<1>5. CASE 1 \in P
  <2>1. Cardinality(P \ {1}) = Cardinality(P) - 1
    BY <1>2, <1>5, FS_RemoveElement
  <2> QED
    BY <1>2, <1>3, <1>4, <1>5, <2>1 DEF One, P, T
<1>6. CASE 1 \notin P
  <2>1. P \ {1} = P
    BY <1>6
  <2>2. Cardinality(P) = Cardinality(T)
    BY <1>3, <2>1
  <2> QED
    BY <1>2, <1>4, <1>6, <2>2 DEF One, P, T
<1> QED
  BY <1>5, <1>6

LEMMA TicketsCount ==
  ASSUME TypeOK, FiniteClaims, NEW j \in Job
  PROVE  /\ Tickets(j) \in Nat
         /\ Cardinality(Positions(queue, j)) \in Nat
         /\ Cardinality(Claiming(j)) \in Nat
         /\ \A b \in BOOLEAN : One(b) \in {0, 1}
<1>1. Cardinality(Positions(queue, j)) \in Nat
  BY PositionsFinite DEF TypeOK
<1>2. Cardinality(Claiming(j)) \in Nat
  BY FS_CardinalityType DEF FiniteClaims
<1>3. \A b \in BOOLEAN : One(b) \in {0, 1}
  BY DEF One
<1>4. One(j \in todo) \in {0, 1} /\ One(create[j] = "inserted") \in {0, 1}
  BY DEF One
<1> QED
  BY <1>1, <1>2, <1>3, <1>4, TicketsSplit

-----------------------------------------------------------------------------
(* How steps change the count *)

OthersKeepTheirCall(s) == \A t \in Slot : t # s => pc'[t] = pc[t] /\ cur'[t] = cur[t]

LEMMA ClaimsStay ==
  ASSUME FiniteClaims,
         \A s \in Slot : /\ pc'[s] = "claim" <=> pc[s] = "claim"
                         /\ pc[s] = "claim" => cur'[s] = cur[s]
  PROVE  FiniteClaims' /\ \A j \in Job : Claiming(j)' = Claiming(j)
<1>1. \A j \in Job : Claiming(j)' = Claiming(j)
  BY DEF Claiming
<1> QED
  BY <1>1 DEF FiniteClaims

LEMMA ClaimsGrow ==
  ASSUME FiniteClaims, NEW s \in Slot, pc[s] # "claim", pc'[s] = "claim",
         OthersKeepTheirCall(s)
  PROVE  /\ FiniteClaims'
         /\ \A j \in Job : Cardinality(Claiming(j)') = Cardinality(Claiming(j)) + One(cur'[s] = j)
<1> SUFFICES ASSUME NEW j \in Job
             PROVE  /\ IsFiniteSet(Claiming(j)')
                    /\ Cardinality(Claiming(j)') = Cardinality(Claiming(j)) + One(cur'[s] = j)
  BY DEF FiniteClaims
<1>1. IsFiniteSet(Claiming(j)) /\ Cardinality(Claiming(j)) \in Nat /\ s \notin Claiming(j)
  BY FS_CardinalityType DEF FiniteClaims, Claiming
<1>2. CASE cur'[s] = j
  <2>1. Claiming(j)' = Claiming(j) \cup {s}
    BY <1>2 DEF Claiming, OthersKeepTheirCall
  <2> QED
    BY <1>1, <1>2, <2>1, FS_AddElement DEF One
<1>3. CASE cur'[s] # j
  <2>1. Claiming(j)' = Claiming(j)
    BY <1>3 DEF Claiming, OthersKeepTheirCall
  <2> QED
    BY <1>1, <1>3, <2>1 DEF One
<1> QED
  BY <1>2, <1>3

LEMMA ClaimsShrink ==
  ASSUME FiniteClaims, NEW s \in Slot, pc[s] = "claim", pc'[s] # "claim",
         OthersKeepTheirCall(s)
  PROVE  /\ FiniteClaims'
         /\ \A j \in Job : Cardinality(Claiming(j)) = Cardinality(Claiming(j)') + One(cur[s] = j)
<1> SUFFICES ASSUME NEW j \in Job
             PROVE  /\ IsFiniteSet(Claiming(j)')
                    /\ Cardinality(Claiming(j)) = Cardinality(Claiming(j)') + One(cur[s] = j)
  BY DEF FiniteClaims
<1>1. IsFiniteSet(Claiming(j)) /\ Cardinality(Claiming(j)) \in Nat
  BY FS_CardinalityType DEF FiniteClaims
<1>2. CASE cur[s] = j
  <2>1. Claiming(j)' = Claiming(j) \ {s} /\ s \in Claiming(j)
    BY <1>2 DEF Claiming, OthersKeepTheirCall
  <2>2. /\ IsFiniteSet(Claiming(j) \ {s})
        /\ Cardinality(Claiming(j) \ {s}) = Cardinality(Claiming(j)) - 1
    BY <1>1, <2>1, FS_RemoveElement
  <2> QED
    BY <1>1, <1>2, <2>1, <2>2 DEF One
<1>3. CASE cur[s] # j
  <2>1. Claiming(j)' = Claiming(j)
    BY <1>3 DEF Claiming, OthersKeepTheirCall
  <2> QED
    BY <1>1, <1>3, <2>1 DEF One
<1> QED
  BY <1>2, <1>3

(* Most steps leave every count as it is. *)
LEMMA TicketsStay ==
  ASSUME FiniteClaims, UNCHANGED <<queue, todo>>,
         \A j \in Job : create'[j] = "inserted" <=> create[j] = "inserted",
         \A s \in Slot : /\ pc'[s] = "claim" <=> pc[s] = "claim"
                         /\ pc[s] = "claim" => cur'[s] = cur[s]
  PROVE  FiniteClaims' /\ \A j \in Job : Tickets(j)' = Tickets(j)
<1>1. FiniteClaims' /\ \A j \in Job : Claiming(j)' = Claiming(j)
  BY ClaimsStay
<1>2. \A j \in Job : Tickets(j)' = Cardinality(Positions(queue', j)) + Cardinality(Claiming(j)')
                                    + One(j \in todo') + One(create'[j] = "inserted")
  BY DEF Tickets, Positions, Claiming, One
<1>3. \A j \in Job : One(create'[j] = "inserted") = One(create[j] = "inserted")
  BY DEF One
<1> QED
  BY <1>1, <1>2, <1>3, TicketsSplit

(* The same, for the count after a step. *)
LEMMA TicketsAfter ==
  ASSUME TypeOK, TypeOK', FiniteClaims, FiniteClaims', NEW j \in Job
  PROVE  /\ Tickets(j)' \in Nat
         /\ Cardinality(Positions(queue', j)) \in Nat
         /\ Cardinality(Claiming(j)') \in Nat
         /\ Tickets(j)' = Cardinality(Positions(queue', j)) + Cardinality(Claiming(j)')
                            + One(j \in todo') + One(create'[j] = "inserted")
<1>1. Cardinality(Positions(queue', j)) \in Nat
  BY PositionsFinite DEF TypeOK
<1>2. Cardinality(Claiming(j)') \in Nat
  BY FS_CardinalityType DEF FiniteClaims
<1>3. One(j \in todo') \in {0, 1} /\ One(create'[j] = "inserted") \in {0, 1}
  BY DEF One
<1>4. Tickets(j)' = Cardinality(Positions(queue', j)) + Cardinality(Claiming(j)')
                       + One(j \in todo') + One(create'[j] = "inserted")
  BY DEF Tickets, Positions, Claiming, One
<1> QED
  BY <1>1, <1>2, <1>3, <1>4

(* An id the process holds somewhere has a ticket. *)
LEMMA TicketedHasOne ==
  ASSUME TypeOK, FiniteClaims, NEW j \in Job
  PROVE  Ticketed(j) => Tickets(j) # 0
<1> DEFINE P == Positions(queue, j)  C == Claiming(j)
<1>1. /\ IsFiniteSet(P) /\ Cardinality(P) \in Nat
      /\ IsFiniteSet(C) /\ Cardinality(C) \in Nat
  BY PositionsFinite, FS_CardinalityType DEF TypeOK, FiniteClaims
<1>2. One(j \in todo) \in {0, 1} /\ One(create[j] = "inserted") \in {0, 1}
  BY DEF One
<1>3. j \in Range(queue) => P # {}
  <2>1. queue \in Seq(Job)
    BY DEF TypeOK
  <2>2. DOMAIN queue = 1..Len(queue)
    BY <2>1, LenProperties
  <2> QED
    BY <2>2 DEF Range, Positions
<1>4. (\E s \in Slot : pc[s] = "claim" /\ cur[s] = j) => C # {}
  BY DEF Claiming
<1>5. (j \in todo => One(j \in todo) = 1)
      /\ (create[j] = "inserted" => One(create[j] = "inserted") = 1)
  BY DEF One
<1>6. Tickets(j) = Cardinality(P) + Cardinality(C) + One(j \in todo)
                     + One(create[j] = "inserted")
  BY TicketsSplit
<1> HIDE DEF P, C
<1>7. (P # {} => Cardinality(P) # 0) /\ (C # {} => Cardinality(C) # 0)
  BY <1>1, FS_EmptySet
<1> QED
  BY <1>1, <1>2, <1>3, <1>4, <1>5, <1>6, <1>7 DEF Ticketed

-----------------------------------------------------------------------------
(* The ledger *)

Serving == life \notin {"sweep", "fetch", "down"}

(* OneTicket for one job, case by case. *)
Books(j) ==
  /\ jobs[j].status = "DELETED" => Tickets(j) <= 1
  /\ jobs[j].status = "PENDING" /\ Serving => Tickets(j) = IF j \in parked THEN 0 ELSE 1
  /\ jobs[j].status # "DELETED" /\ ~(jobs[j].status = "PENDING" /\ Serving) => Tickets(j) = 0

(* What the books rest on: an id is inserted once, a row is deleted only   *)
(* where there was one, only unclaimed jobs are parked, and the rows of    *)
(* failed jobs, and no others, count a failure: this keeps a job that is   *)
(* to be done within reach of the sweeps.                                  *)
Past(j) ==
  /\ create[j] = "none" => jobs[j].status = "ABSENT"
  /\ delete[j] # "none" => jobs[j].status # "ABSENT"
  /\ j \in parked => jobs[j].status \in {"PENDING", "DELETED"}
  /\ jobs[j].status \in {"ABSENT", "PENDING", "PROCESSING"} => jobs[j].retry = 0
  /\ jobs[j].status = "FAILED" => jobs[j].retry = 1

Ledger == \A j \in Job : Books(j) /\ Past(j)

TicketInv == FiniteClaims /\ Ledger

LEMMA TicketInit == Init => TicketInv
<1> SUFFICES ASSUME Init PROVE TicketInv
  OBVIOUS
<1>1. \A j \in Job : Claiming(j) = {} /\ Positions(queue, j) = {}
  BY DEF Init, Claiming, Positions
<1>2. FiniteClaims
  BY <1>1, FS_EmptySet DEF FiniteClaims
<1>3. \A j \in Job : One(j \in todo) = 0 /\ One(create[j] = "inserted") = 0
  BY DEF Init, One
<1>4. \A j \in Job : Tickets(j) = 0
  BY <1>1, <1>3, FS_EmptySet, TicketsSplit
<1>5. ~Serving /\ \A j \in Job : /\ jobs[j].status = "ABSENT" /\ jobs[j].retry = 0
                                /\ delete[j] = "none" /\ j \notin parked
  BY DEF Init, Absent, Serving
<1>6. \A j \in Job : Books(j) /\ Past(j)
  BY <1>4, <1>5 DEF Books, Past
<1> QED
  BY <1>2, <1>6 DEF TicketInv, Ledger

(* The ledger is OneTicket and more. *)
LEMMA LedgerBalances == Ledger => OneTicket
BY DEF Ledger, Books, OneTicket, Serving

-----------------------------------------------------------------------------
(* Three ways of keeping the ledger *)

RowKept(j) ==
  \/ jobs'[j].status = jobs[j].status /\ jobs'[j].retry = jobs[j].retry
  \/ /\ jobs[j].status = "PROCESSING" /\ jobs'[j].status \in Terminal
     /\ jobs'[j].status = "FAILED" => jobs'[j].retry = jobs[j].retry + 1

RequestKept(j) ==
  /\ create'[j] = "none" => create[j] = "none"
  /\ delete'[j] # "none" => delete[j] # "none" \/ jobs[j].status # "ABSENT"

(* The step leaves the ticket of the job where it is, or moves it on. *)
LEMMA TicketKept ==
  ASSUME NEW j \in Job, Books(j), Past(j), Tickets(j)' = Tickets(j),
         RowKept(j), RequestKept(j), Serving' = Serving, j \in parked' <=> j \in parked
  PROVE  Books(j)' /\ Past(j)'
<1>1. Past(j)'
  BY DEF Past, RowKept, RequestKept, Terminal
<1>2. Books(j)'
  BY DEF Books, RowKept, Terminal
<1> QED
  BY <1>1, <1>2

(* The step takes the ticket of the job away and parks the job. *)
LEMMA TicketParked ==
  ASSUME NEW j \in Job, Books(j), Past(j), Tickets(j)' \in Nat, Tickets(j) = Tickets(j)' + 1,
         RowKept(j), RequestKept(j), Serving' = Serving, j \in parked'
  PROVE  Books(j)' /\ Past(j)'
<1>1. Tickets(j) # 0
  OBVIOUS
<1>2. jobs[j].status = "DELETED" \/ (jobs[j].status = "PENDING" /\ Serving)
  BY <1>1 DEF Books
<1>3. jobs'[j].status = jobs[j].status
  BY <1>2 DEF RowKept
<1>4. Past(j)'
  BY <1>2, <1>3 DEF Past, RowKept, RequestKept, Terminal
<1>5. Tickets(j) <= 1
  BY <1>2 DEF Books
<1>6. Tickets(j)' = 0
  BY <1>5
<1>7. Books(j)'
  BY <1>2, <1>3, <1>6 DEF Books
<1> QED
  BY <1>4, <1>7

LEMMA LedgerKept ==
  ASSUME Ledger, Serving' = Serving, UNCHANGED parked,
         \A j \in Job : Tickets(j)' = Tickets(j) /\ RowKept(j) /\ RequestKept(j)
  PROVE  Ledger'
BY TicketKept DEF Ledger

LEMMA LedgerParks ==
  ASSUME Ledger, TypeOK, TypeOK', FiniteClaims, FiniteClaims', Serving' = Serving,
         NEW k \in Job, Park({k}),
         \A j \in Job : Tickets(j) = Tickets(j)' + One(k = j) /\ RowKept(j) /\ RequestKept(j)
  PROVE  Ledger'
<1> SUFFICES ASSUME NEW j \in Job PROVE Books(j)' /\ Past(j)'
  BY DEF Ledger
<1>1. Tickets(j)' \in Nat
  BY TicketsAfter
<1>2. CASE k = j
  <2>1. Tickets(j) = Tickets(j)' + 1
    BY <1>2 DEF One
  <2> QED
    BY <1>1, <1>2, <2>1, TicketParked DEF Ledger, Park
<1>3. CASE k # j
  <2>1. Tickets(j)' = Tickets(j)
    BY <1>1, <1>3 DEF One
  <2>2. j \in parked' <=> j \in parked
    BY <1>3 DEF Park
  <2> QED
    BY <2>1, <2>2, TicketKept DEF Ledger
<1> QED
  BY <1>2, <1>3

-----------------------------------------------------------------------------
(* Steps of a worker *)

NoClaimMoves ==
  \A s \in Slot : /\ pc'[s] = "claim" <=> pc[s] = "claim"
                  /\ pc[s] = "claim" => cur'[s] = cur[s]

(* A step that moves no ticket and keeps the rows. *)
LEMMA QuietTickets ==
  ASSUME TicketInv, NoClaimMoves, UNCHANGED <<queue, todo, parked>>, Serving' = Serving,
         \A j \in Job : create'[j] = "inserted" <=> create[j] = "inserted",
         \A j \in Job : RowKept(j) /\ RequestKept(j)
  PROVE  TicketInv'
<1>1. FiniteClaims' /\ \A j \in Job : Tickets(j)' = Tickets(j)
  BY TicketsStay DEF TicketInv, NoClaimMoves
<1> QED
  BY <1>1, LedgerKept DEF TicketInv

LEMMA SameRows ==
  ASSUME UNCHANGED jobs
  PROVE  \A j \in Job : RowKept(j)
BY DEF RowKept

LEMMA SameRequests ==
  ASSUME UNCHANGED apiVars
  PROVE  \A j \in Job : RequestKept(j) /\ (create'[j] = "inserted" <=> create[j] = "inserted")
BY DEF RequestKept, apiVars

LEMMA SameLife ==
  ASSUME UNCHANGED life
  PROVE  Serving' = Serving
BY DEF Serving

(* A call that leaves its claim gives the ticket of its job up. *)
LEMMA ClaimSpent ==
  ASSUME TypeOK, TypeOK', FiniteClaims, NEW s \in Slot, pc[s] = "claim", pc'[s] # "claim",
         OthersKeepTheirCall(s), UNCHANGED <<queue, todo, create>>
  PROVE  FiniteClaims' /\ \A j \in Job : Tickets(j) = Tickets(j)' + One(cur[s] = j)
<1>1. /\ FiniteClaims'
      /\ \A j \in Job : Cardinality(Claiming(j)) = Cardinality(Claiming(j)') + One(cur[s] = j)
  BY ClaimsShrink
<1> SUFFICES ASSUME NEW j \in Job
             PROVE  Tickets(j) = Tickets(j)' + One(cur[s] = j)
  BY <1>1
<1>2. /\ Tickets(j)' = Cardinality(Positions(queue, j)) + Cardinality(Claiming(j)')
                         + One(j \in todo) + One(create[j] = "inserted")
      /\ Cardinality(Positions(queue, j)) \in Nat
      /\ Cardinality(Claiming(j)') \in Nat
  BY <1>1, TicketsAfter
<1>3. Tickets(j) = Cardinality(Positions(queue, j)) + Cardinality(Claiming(j))
                     + One(j \in todo) + One(create[j] = "inserted")
  BY TicketsSplit
<1>4. /\ One(j \in todo) \in {0, 1} /\ One(create[j] = "inserted") \in {0, 1}
      /\ One(cur[s] = j) \in {0, 1}
  BY DEF One
<1> QED
  BY <1>1, <1>2, <1>3, <1>4

LEMMA ReceiveTickets ==
  ASSUME TypeInv, TypeInv', TicketInv, NEW s \in Slot, Receive(s) \/ ReceiveAndExit(s)
  PROVE  TicketInv'
<1> DEFINE k == Head(queue)
<1>1. /\ queue \in Seq(Job) /\ queue # << >> /\ queue' = Tail(queue) /\ k \in Job
      /\ todo' = todo /\ create' = create /\ pc[s] = "idle" /\ UNCHANGED <<jobs, apiVars, life>>
  BY QueueTypes DEF TypeInv, TypeOK, Receive, ReceiveAndExit, procVars, apiVars
<1>2. /\ \A j \in Job : RowKept(j) /\ RequestKept(j)
      /\ Serving' = Serving
  BY <1>1, SameRows, SameRequests, SameLife
<1>3. \A j \in Job : /\ Cardinality(Positions(queue, j))
                            = Cardinality(Positions(queue', j)) + One(k = j)
                     /\ Tickets(j) = Cardinality(Positions(queue, j)) + Cardinality(Claiming(j))
                                       + One(j \in todo) + One(create[j] = "inserted")
  BY <1>1, PositionsOfTail, TicketsSplit
<1>4. \A j \in Job : /\ One(j \in todo) \in {0, 1} /\ One(create[j] = "inserted") \in {0, 1}
                     /\ One(k = j) \in {0, 1}
  BY DEF One
<1>5. \A j \in Job : Cardinality(Claiming(j)) \in Nat
  BY FS_CardinalityType DEF TicketInv, FiniteClaims
<1>6. CASE Receive(s)
  <2>1. /\ pc[s] # "claim" /\ pc'[s] = "claim" /\ cur'[s] = k /\ OthersKeepTheirCall(s)
        /\ UNCHANGED parked
    BY <1>6 DEF Receive, Goto, TypeInv, TypeOK, OthersKeepTheirCall
  <2>2. /\ FiniteClaims'
        /\ \A j \in Job : Cardinality(Claiming(j)') = Cardinality(Claiming(j)) + One(k = j)
    BY <2>1, ClaimsGrow DEF TicketInv
  <2>3. \A j \in Job : /\ Tickets(j)' = Cardinality(Positions(queue', j))
                             + Cardinality(Claiming(j)') + One(j \in todo)
                             + One(create[j] = "inserted")
                       /\ Cardinality(Positions(queue', j)) \in Nat
    BY <1>1, <2>2, TicketsAfter DEF TypeInv, TicketInv
  <2>4. \A j \in Job : Tickets(j)' = Tickets(j)
    BY <1>3, <1>4, <1>5, <2>2, <2>3
  <2> QED
    BY <1>2, <2>1, <2>2, <2>4, LedgerKept DEF TicketInv
<1>7. CASE ReceiveAndExit(s)
  <2>1. NoClaimMoves /\ Park({k})
    BY <1>1, <1>7 DEF ReceiveAndExit, Goto, TypeInv, TypeOK, NoClaimMoves
  <2>2. FiniteClaims' /\ \A j \in Job : Claiming(j)' = Claiming(j)
    BY <2>1, ClaimsStay DEF TicketInv, NoClaimMoves
  <2>3. \A j \in Job : /\ Tickets(j)' = Cardinality(Positions(queue', j))
                             + Cardinality(Claiming(j)') + One(j \in todo)
                             + One(create[j] = "inserted")
                       /\ Cardinality(Positions(queue', j)) \in Nat
    BY <1>1, <2>2, TicketsAfter DEF TypeInv, TicketInv
  <2>4. \A j \in Job : Tickets(j) = Tickets(j)' + One(k = j)
    BY <1>3, <1>4, <1>5, <2>2, <2>3
  <2> QED
    BY <1>1, <1>2, <2>1, <2>2, <2>4, LedgerParks DEF TicketInv, TypeInv
<1> QED
  BY <1>6, <1>7

LEMMA ClaimTickets ==
  ASSUME TypeInv, TypeInv', TicketInv, NEW s \in Slot, NEW k \in Job, cur[s] = k,
         ClaimWon(s) \/ ClaimRefused(s) \/ ClaimError(s) \/ ClaimAnswerLost(s)
  PROVE  TicketInv'
<1>1. /\ pc[s] = "claim" /\ pc'[s] # "claim" /\ OthersKeepTheirCall(s)
      /\ UNCHANGED <<queue, todo, create, delete, life>>
  BY DEF ClaimWon, ClaimRefused, ClaimError, ClaimAnswerLost, Return, Goto, TypeInv, TypeOK,
         OthersKeepTheirCall, procVars, apiVars
<1>2. Row(s) = jobs[k] /\ Row(s) \in Rows(Worker)
  BY <1>1, CallTypes DEF Row
<1>3. FiniteClaims' /\ \A j \in Job : Tickets(j) = Tickets(j)' + One(k = j)
  BY <1>1, ClaimSpent DEF TypeInv, TicketInv
<1>4. Serving' = Serving /\ \A j \in Job : RequestKept(j)
  BY <1>1, SameLife, SameRequests DEF apiVars
<1>5. \A j \in Job : Tickets(j) \in Nat /\ Tickets(j)' \in Nat
  BY <1>3, TicketsCount, TicketsAfter DEF TypeInv, TicketInv
<1>6. \A j \in Job : j # k => Tickets(j)' = Tickets(j)
  BY <1>3, <1>5 DEF One
<1>7. Tickets(k) = Tickets(k)' + 1
  BY <1>2, <1>3 DEF One
<1>8. /\ jobs[k].status = "DELETED" \/ (jobs[k].status = "PENDING" /\ Serving)
      /\ Tickets(k)' = 0
      /\ jobs[k].status = "PENDING" => k \notin parked
  <2>1. Books(k)
    BY <1>2 DEF TicketInv, Ledger
  <2>2. Tickets(k) # 0
    BY <1>2, <1>5, <1>7
  <2>3. jobs[k].status = "DELETED" \/ (jobs[k].status = "PENDING" /\ Serving)
    BY <2>1, <2>2 DEF Books
  <2>4. Tickets(k) <= 1
    BY <2>1, <2>3 DEF Books
  <2>5. Tickets(k)' = 0
    BY <1>2, <1>5, <1>7, <2>4
  <2>6. jobs[k].status = "PENDING" => k \notin parked
    BY <2>1, <2>2, <2>3 DEF Books
  <2> QED
    BY <2>3, <2>5, <2>6
<1>9. CASE ClaimError(s)
  <2>1. Park({k}) /\ \A j \in Job : RowKept(j)
    BY <1>9, SameRows DEF ClaimError
  <2> QED
    BY <1>2, <1>3, <1>4, <2>1, LedgerParks DEF TypeInv, TicketInv
<1>10. CASE ClaimRefused(s)
  <2>1. UNCHANGED <<jobs, parked>> /\ jobs[k].status # "PENDING"
    BY <1>2, <1>10 DEF ClaimRefused, CanClaim
  <2>2. Books(k)' /\ Past(k)'
    BY <1>2, <1>4, <1>8, <2>1 DEF Books, Past, TicketInv, Ledger, RequestKept
  <2>3. \A j \in Job : j # k => Books(j)' /\ Past(j)'
    BY <1>4, <1>6, <2>1, SameRows, TicketKept DEF TicketInv, Ledger
  <2> QED
    BY <1>3, <2>2, <2>3 DEF TicketInv, Ledger
<1>11. CASE ClaimWon(s) \/ ClaimAnswerLost(s)
  <2>1. UNCHANGED parked /\ jobs' = [jobs EXCEPT ![k] = ClaimJobCAS(jobs[k], Me(s))]
        /\ jobs[k].status = "PENDING"
    BY <1>2, <1>11 DEF ClaimWon, ClaimAnswerLost, CanClaim, SetRow
  <2>2. jobs \in [Job -> Rows(Worker)]
    BY DEF TypeInv, TypeOK
  <2>3. jobs'[k].status = "PROCESSING" /\ jobs'[k].retry = jobs[k].retry
    BY <1>2, <2>1, <2>2 DEF ClaimJobCAS, Rows
  <2>4. Books(k)' /\ Past(k)'
    BY <1>1, <1>2, <1>4, <1>8, <2>1, <2>3 DEF Books, Past, TicketInv, Ledger, RequestKept
  <2>5. \A j \in Job : j # k => RowKept(j)
    BY <2>1, <2>2 DEF RowKept
  <2>6. \A j \in Job : j # k => Books(j)' /\ Past(j)'
    BY <1>4, <1>6, <2>1, <2>5, TicketKept DEF TicketInv, Ledger
  <2> QED
    BY <1>3, <2>4, <2>6 DEF TicketInv, Ledger
<1> QED
  BY <1>9, <1>10, <1>11

(* A statement on the row of a call past its claim keeps every row, as the *)
(* ledger sees them, or finishes the job.                                  *)
LEMMA WorkerTicketStep ==
  ASSUME TypeInv, TypeInv', TicketInv, NEW s \in Slot,
         WorkerStep(s) \/ Heartbeat(s) \/ HeartbeatStop(s)
  PROVE  TicketInv'
<1>1. CASE Receive(s) \/ ReceiveAndExit(s)
  BY <1>1, ReceiveTickets
<1>2. CASE ClaimWon(s) \/ ClaimRefused(s) \/ ClaimError(s) \/ ClaimAnswerLost(s)
  <2>1. pc[s] \in {"claim"} \cup Claimed
    BY <1>2 DEF ClaimWon, ClaimRefused, ClaimError, ClaimAnswerLost
  <2>2. cur[s] \in Job
    BY <2>1, CallTypes
  <2> QED
    BY <1>2, <2>2, ClaimTickets
<1>3. ASSUME \/ WorkerExit(s) \/ LoadJob(s) \/ LoadError(s)
             \/ RenderOk(s) \/ ServiceError(s) \/ SubprocessError(s)
             \/ MarkJobFailed(s) \/ MarkFailedError(s)
             \/ OwnershipValid(s) \/ OwnershipLost(s)
             \/ UploadOk(s) \/ UploadError(s)
             \/ MarkJobCompleted(s) \/ MarkCompletedError(s)
             \/ Heartbeat(s) \/ HeartbeatStop(s)
      PROVE  TicketInv'
  <2>1. /\ UNCHANGED <<queue, todo, parked, create, delete, life>>
        /\ pc[s] # "claim" \/ UNCHANGED <<pc, cur>>
        /\ UNCHANGED pc \/ \E l \in PC \ {"claim"} : Goto(s, l)
        /\ \A t \in Slot : t # s => cur'[t] = cur[t]
    BY <1>3 DEF WorkerExit, LoadJob, LoadError, RenderOk,  ServiceError,
         SubprocessError, MarkJobFailed, MarkFailedError, OwnershipValid, OwnershipLost,
         UploadOk, UploadError, MarkJobCompleted, CompletesJob, MarkCompletedError, Heartbeat,
         HeartbeatStop, Return, procVars, apiVars, Rendering, Finishing, PC, Claimed,
         TypeInv, TypeOK
  <2>2. NoClaimMoves
    BY <2>1 DEF NoClaimMoves, Goto, TypeInv, TypeOK
  <2>3. \A j \in Job : RowKept(j)
    <3>1. CASE UNCHANGED jobs
      BY <3>1, SameRows
    <3>2. CASE ~UNCHANGED jobs
      <4>1. \/ /\ jobs' = [jobs EXCEPT ![cur[s]] = ExtendLease(Row(s))]
               /\ cur[s] \in Job
            \/ /\ \/ jobs' = [jobs EXCEPT ![cur[s]] = MarkFailed(Row(s))]
                  \/ jobs' = [jobs EXCEPT ![cur[s]] = MarkCompleted(Row(s), UrlOf(s))]
               /\ cur[s] \in Job
               /\ Row(s).status = "PROCESSING"
        <5>1. pc[s] \in {"claim"} \cup Claimed => cur[s] \in Job
          BY CallTypes
        <5>2. beat[s] => pc[s] \in Claimed
          BY DEF TypeInv, Busy
        <5> QED
          BY <1>3, <3>2, <5>1, <5>2 DEF WorkerExit, LoadJob, LoadError, RenderOk, ServiceError,
             SubprocessError, MarkJobFailed, MarkFailedError, OwnershipValid, OwnershipLost,
             UploadOk, UploadError, MarkJobCompleted, CompletesJob, MarkCompletedError,
             Heartbeat, HeartbeatStop, SetRow, OwnedBy, Claimed, Finishing
      <4>2. \A j \in Job : j # cur[s] => jobs'[j] = jobs[j]
        BY <4>1 DEF TypeInv, TypeOK
      <4>3. cur[s] \in Job => RowKept(cur[s])
        <5>1. jobs \in [Job -> Rows(Worker)] /\ Row(s) = jobs[cur[s]]
          BY DEF TypeInv, TypeOK, Row
        <5>2. jobs[cur[s]] \in Rows(Worker)
          BY <4>1, <5>1
        <5>3. CASE jobs' = [jobs EXCEPT ![cur[s]] = ExtendLease(Row(s))]
          BY <4>1, <5>1, <5>2, <5>3 DEF RowKept, ExtendLease, Rows
        <5>4. CASE /\ Row(s).status = "PROCESSING"
                   /\ \/ jobs' = [jobs EXCEPT ![cur[s]] = MarkFailed(Row(s))]
                      \/ jobs' = [jobs EXCEPT ![cur[s]] = MarkCompleted(Row(s), UrlOf(s))]
          <6>1. CASE jobs' = [jobs EXCEPT ![cur[s]] = MarkFailed(Row(s))]
            BY <4>1, <5>1, <5>2, <5>4, <6>1 DEF RowKept, Terminal, MarkFailed, Rows
          <6>2. CASE jobs' = [jobs EXCEPT ![cur[s]] = MarkCompleted(Row(s), UrlOf(s))]
            BY <4>1, <5>1, <5>2, <5>4, <6>2 DEF RowKept, Terminal, MarkCompleted, Rows
          <6> QED
            BY <5>4, <6>1, <6>2
        <5> QED
          BY <4>1, <5>3, <5>4
      <4> QED
        BY <4>2, <4>3 DEF RowKept
    <3> QED
      BY <3>1, <3>2
  <2> QED
    BY <2>1, <2>2, <2>3, QuietTickets, SameRequests, SameLife DEF apiVars
<1> QED
  BY <1>1, <1>2, <1>3 DEF WorkerStep

-----------------------------------------------------------------------------
(* Steps of the sweep and of the handlers, on one job *)

(* While no call moves, the count changes with the queue, the sweep's ids  *)
(* and the open requests.                                                  *)
LEMMA TicketsCompare ==
  ASSUME TypeOK, TypeOK', FiniteClaims, UNCHANGED <<pc, cur>>
  PROVE  /\ FiniteClaims'
         /\ \A j \in Job :
              /\ Tickets(j) \in Nat /\ Tickets(j)' \in Nat
              /\ Cardinality(Positions(queue, j)) \in Nat
              /\ Cardinality(Positions(queue', j)) \in Nat
              /\ Tickets(j)' + Cardinality(Positions(queue, j)) + One(j \in todo)
                             + One(create[j] = "inserted")
                   = Tickets(j) + Cardinality(Positions(queue', j)) + One(j \in todo')
                                + One(create'[j] = "inserted")
<1>1. FiniteClaims' /\ \A j \in Job : Claiming(j)' = Claiming(j)
  BY ClaimsStay
<1> SUFFICES ASSUME NEW j \in Job
             PROVE  /\ Tickets(j) \in Nat /\ Tickets(j)' \in Nat
                    /\ Cardinality(Positions(queue, j)) \in Nat
                    /\ Cardinality(Positions(queue', j)) \in Nat
                    /\ Tickets(j)' + Cardinality(Positions(queue, j)) + One(j \in todo)
                                   + One(create[j] = "inserted")
                         = Tickets(j) + Cardinality(Positions(queue', j)) + One(j \in todo')
                                      + One(create'[j] = "inserted")
  BY <1>1
<1>2. /\ Tickets(j) \in Nat /\ Cardinality(Positions(queue, j)) \in Nat
      /\ Cardinality(Claiming(j)) \in Nat
  BY TicketsCount
<1>3. /\ Tickets(j)' \in Nat /\ Cardinality(Positions(queue', j)) \in Nat
      /\ Tickets(j)' = Cardinality(Positions(queue', j)) + Cardinality(Claiming(j))
                         + One(j \in todo') + One(create'[j] = "inserted")
  BY <1>1, TicketsAfter
<1>4. Tickets(j) = Cardinality(Positions(queue, j)) + Cardinality(Claiming(j))
                     + One(j \in todo) + One(create[j] = "inserted")
  BY TicketsSplit
<1>5. /\ One(j \in todo) \in {0, 1} /\ One(create[j] = "inserted") \in {0, 1}
      /\ One(j \in todo') \in {0, 1} /\ One(create'[j] = "inserted") \in {0, 1}
  BY DEF One
<1> QED
  BY <1>2, <1>3, <1>4, <1>5

(* The clock only writes leases. *)
LEMMA LeaseTickets ==
  ASSUME TypeInv, TicketInv, NEW k \in Job, LeaseExpires(k) \/ LeaseLapses(k)
  PROVE  TicketInv'
<1>1. /\ UNCHANGED <<queue, todo, parked, pc, cur, create, delete, life>>
      /\ jobs' = [jobs EXCEPT ![k] = Lapse(jobs[k])]
  BY DEF LeaseExpires, LeaseLapses, callVars, procVars, apiVars
<1>2. \A j \in Job : RowKept(j)
  BY <1>1 DEF RowKept, Lapse, TypeInv, TypeOK, Rows
<1> QED
  BY <1>1, <1>2, QuietTickets, SameRequests, SameLife DEF NoClaimMoves, apiVars

(* A published id goes from the sweep or the handler to the queue. *)
LEMMA PublishTickets ==
  ASSUME TypeInv, TypeInv', TicketInv, NEW k \in Job, PublishRecovered(k) \/ SubmitJob(k)
  PROVE  TicketInv'
<1>1. /\ UNCHANGED <<jobs, parked, pc, cur, delete, life>>
      /\ queue' = Append(queue, k) /\ queue \in Seq(Job)
  BY DEF PublishRecovered, SubmitJob, Publish, callVars, procVars, apiVars, TypeInv, TypeOK
<1>2. \A j \in Job : Cardinality(Positions(queue', j))
                       = Cardinality(Positions(queue, j)) + One(k = j)
  BY <1>1, PositionsOfAppend
<1>3. \A j \in Job : One(j \in todo) + One(create[j] = "inserted")
                       = One(j \in todo') + One(create'[j] = "inserted") + One(k = j)
  <2>1. CASE PublishRecovered(k)
    <3>1. k \in todo /\ todo' = todo \ {k} /\ create' = create
      BY <2>1 DEF PublishRecovered, apiVars
    <3>2. \A j \in Job : One(j \in todo) = One(j \in todo') + One(k = j)
      BY <3>1 DEF One
    <3>3. \A j \in Job : One(j \in todo') \in {0, 1} /\ One(create[j] = "inserted") \in {0, 1}
                         /\ One(k = j) \in {0, 1}
      BY DEF One
    <3> QED
      BY <3>1, <3>2, <3>3
  <2>2. CASE SubmitJob(k)
    BY <2>2 DEF SubmitJob, One, TypeInv, TypeOK
  <2> QED
    BY <2>1, <2>2
<1>4. \A j \in Job : RequestKept(j)
  BY <1>1 DEF PublishRecovered, SubmitJob, apiVars, RequestKept, TypeInv, TypeOK
<1>5. FiniteClaims' /\ \A j \in Job : Tickets(j)' = Tickets(j)
  <2>1. \A j \in Job : /\ One(j \in todo) \in {0, 1} /\ One(create[j] = "inserted") \in {0, 1}
                       /\ One(j \in todo') \in {0, 1} /\ One(create'[j] = "inserted") \in {0, 1}
                       /\ One(k = j) \in {0, 1}
    BY DEF One
  <2>2. /\ FiniteClaims'
        /\ \A j \in Job :
             /\ Tickets(j) \in Nat /\ Tickets(j)' \in Nat
             /\ Cardinality(Positions(queue, j)) \in Nat
             /\ Tickets(j)' + Cardinality(Positions(queue, j)) + One(j \in todo)
                            + One(create[j] = "inserted")
                  = Tickets(j) + Cardinality(Positions(queue', j)) + One(j \in todo')
                               + One(create'[j] = "inserted")
    BY <1>1, TicketsCompare DEF TypeInv, TicketInv
  <2>3. ASSUME NEW j \in Job PROVE Tickets(j)' = Tickets(j)
    <3>1. Cardinality(Positions(queue', j)) = Cardinality(Positions(queue, j)) + One(k = j)
      BY <1>2
    <3>2. One(j \in todo) + One(create[j] = "inserted")
            = One(j \in todo') + One(create'[j] = "inserted") + One(k = j)
      BY <1>3
    <3> QED
      BY <2>1, <2>2, <3>1, <3>2
  <2> QED
    BY <2>2, <2>3
<1> QED
  BY <1>1, <1>4, <1>5, LedgerKept, SameRows, SameLife DEF TicketInv

(* An id the queue has no room for is parked. *)
LEMMA RefusalTickets ==
  ASSUME TypeInv, TypeInv', TicketInv, NEW k \in Job, SkipRecovered(k) \/ SubmitRefused(k)
  PROVE  TicketInv'
<1>1. UNCHANGED <<jobs, queue, pc, cur, delete, life>> /\ Park({k})
  BY DEF SkipRecovered, SubmitRefused, callVars, procVars, apiVars
<1>2. \A j \in Job : One(j \in todo) + One(create[j] = "inserted")
                       = One(j \in todo') + One(create'[j] = "inserted") + One(k = j)
  <2>1. CASE SkipRecovered(k)
    <3>1. k \in todo /\ todo' = todo \ {k} /\ create' = create
      BY <2>1 DEF SkipRecovered, apiVars
    <3>2. \A j \in Job : One(j \in todo) = One(j \in todo') + One(k = j)
      BY <3>1 DEF One
    <3>3. \A j \in Job : One(j \in todo') \in {0, 1} /\ One(create[j] = "inserted") \in {0, 1}
                         /\ One(k = j) \in {0, 1}
      BY DEF One
    <3> QED
      BY <3>1, <3>2, <3>3
  <2>2. CASE SubmitRefused(k)
    BY <2>2 DEF SubmitRefused, One, TypeInv, TypeOK
  <2> QED
    BY <2>1, <2>2
<1>3. \A j \in Job : RequestKept(j)
  BY <1>1 DEF SkipRecovered, SubmitRefused, apiVars, RequestKept, TypeInv, TypeOK
<1>4. FiniteClaims' /\ \A j \in Job : Tickets(j) = Tickets(j)' + One(k = j)
  <2>1. \A j \in Job : /\ One(j \in todo) \in {0, 1} /\ One(create[j] = "inserted") \in {0, 1}
                       /\ One(j \in todo') \in {0, 1} /\ One(create'[j] = "inserted") \in {0, 1}
                       /\ One(k = j) \in {0, 1}
    BY DEF One
  <2> QED
    BY <1>1, <1>2, <2>1, TicketsCompare DEF TypeInv, TicketInv
<1> QED
  BY <1>1, <1>3, <1>4, LedgerParks, SameRows, SameLife DEF TypeInv, TicketInv

(* A new row comes with a ticket, or is parked when the handler never      *)
(* learns of it.                                                           *)
LEMMA InsertTickets ==
  ASSUME TypeInv, TypeInv', TicketInv, NEW k \in Job, InsertJob(k) \/ InsertAnswerLost(k)
  PROVE  TicketInv'
<1>1. /\ UNCHANGED <<queue, todo, pc, cur, delete, life>> /\ Serving /\ create[k] = "none"
      /\ jobs' = [jobs EXCEPT ![k] = CreateJob(jobs[k])]
  BY DEF InsertJob, InsertAnswerLost, callVars, procVars, apiVars, Serving
<1>2. Serving' = Serving
  BY <1>1, SameLife
<1>3. jobs[k].status = "ABSENT" /\ Tickets(k) = 0 /\ k \notin parked /\ jobs[k].retry = 0
  BY <1>1 DEF TicketInv, Ledger, Books, Past
<1>4. jobs'[k].status = "PENDING" /\ jobs'[k].retry = 0
  BY <1>1, <1>3 DEF CreateJob, TypeInv, TypeOK, Rows
<1>5. /\ FiniteClaims'
      /\ \A j \in Job : Tickets(j)' + One(create[j] = "inserted")
                          = Tickets(j) + One(create'[j] = "inserted")
  <2>1. \A j \in Job : /\ One(j \in todo) \in {0, 1} /\ One(create[j] = "inserted") \in {0, 1}
                       /\ One(create'[j] = "inserted") \in {0, 1}
    BY DEF One
  <2> QED
    BY <1>1, <2>1, TicketsCompare DEF TypeInv, TicketInv
<1>6. \A j \in Job : Tickets(j) \in Nat /\ Tickets(j)' \in Nat
  BY <1>5, TicketsCount, TicketsAfter DEF TypeInv, TicketInv
<1>7. \A j \in Job : j # k => Books(j)' /\ Past(j)'
  <2> SUFFICES ASSUME NEW j \in Job, j # k PROVE Books(j)' /\ Past(j)'
    OBVIOUS
  <2>1. jobs'[j] = jobs[j] /\ create'[j] = create[j] /\ (j \in parked' <=> j \in parked)
    BY <1>1 DEF InsertJob, InsertAnswerLost, Park, TypeInv, TypeOK
  <2>2. One(create[j] = "inserted") \in {0, 1}
    BY DEF One
  <2>3. Tickets(j)' = Tickets(j)
    BY <1>5, <1>6, <2>1, <2>2
  <2> QED
    BY <1>1, <1>2, <2>1, <2>3, TicketKept DEF TicketInv, Ledger, RowKept, RequestKept
<1>8. Tickets(k)' = IF k \in parked' THEN 0 ELSE 1
  <2>1. One(create[k] = "inserted") = 0
    BY <1>1 DEF One
  <2>2. CASE InsertJob(k)
    <3>1. One(create'[k] = "inserted") = 1 /\ k \notin parked'
      BY <1>3, <2>2 DEF InsertJob, One, TypeInv, TypeOK
    <3> QED
      BY <1>3, <1>5, <1>6, <2>1, <3>1
  <2>3. CASE InsertAnswerLost(k)
    <3>1. One(create'[k] = "inserted") = 0 /\ k \in parked'
      BY <2>3 DEF InsertAnswerLost, One, Park, TypeInv, TypeOK
    <3> QED
      BY <1>3, <1>5, <1>6, <2>1, <3>1
  <2> QED
    BY <2>2, <2>3
<1>9. create'[k] # "none"
  BY DEF InsertJob, InsertAnswerLost, TypeInv, TypeOK
<1>10. Books(k)' /\ Past(k)'
  BY <1>1, <1>2, <1>4, <1>8, <1>9 DEF Books, Past
<1> QED
  BY <1>5, <1>7, <1>10 DEF TicketInv, Ledger

(* A deletion leaves the ticket of the job to the worker that receives it. *)
LEMMA DeleteTickets ==
  ASSUME TypeInv, TicketInv, NEW k \in Job,
         AbortJob(k) \/ DeleteVideo(k) \/ DeleteRow(k) \/ DeleteRowError(k)
  PROVE  TicketInv'
<1>1. /\ UNCHANGED <<queue, todo, parked, pc, cur, create, life>>
      /\ jobs[k].status # "ABSENT"
      /\ jobs' = jobs \/ jobs' = [jobs EXCEPT ![k] = DeleteJob(jobs[k])]
      /\ \A j \in Job : j # k => delete'[j] = delete[j]
  BY DEF AbortJob, DeleteVideo, DeleteRow, DeleteRowError, callVars, procVars, apiVars,
         TicketInv, Ledger, Past, TypeInv, TypeOK
<1>2. FiniteClaims' /\ \A j \in Job : Tickets(j)' = Tickets(j)
  BY <1>1, TicketsStay DEF TicketInv
<1>3. Serving' = Serving
  BY <1>1, SameLife
<1>4. \A j \in Job : RequestKept(j)
  BY <1>1 DEF RequestKept
<1>5. CASE jobs' = jobs
  BY <1>1, <1>2, <1>3, <1>4, <1>5, LedgerKept, SameRows DEF TicketInv
<1>6. CASE jobs' = [jobs EXCEPT ![k] = DeleteJob(jobs[k])]
  <2>1. jobs'[k].status = "DELETED"
    BY <1>6, RowFields DEF TypeInv, TypeOK
  <2>2. Tickets(k) <= 1
    BY DEF TicketInv, Ledger, Books
  <2>3. Books(k)' /\ Past(k)'
    BY <1>1, <1>2, <2>1, <2>2 DEF Books, Past, TicketInv, Ledger
  <2>4. \A j \in Job : j # k => jobs'[j] = jobs[j]
    BY <1>6 DEF TypeInv, TypeOK
  <2>5. \A j \in Job : j # k => Books(j)' /\ Past(j)'
    BY <1>1, <1>2, <1>3, <1>4, <2>4, TicketKept DEF TicketInv, Ledger, RowKept
  <2> QED
    BY <1>2, <2>3, <2>5 DEF TicketInv, Ledger
<1> QED
  BY <1>1, <1>5, <1>6

LEMMA JobTicketStep ==
  ASSUME TypeInv, TypeInv', TicketInv, NEW j \in Job,
         \/ LeaseExpires(j) \/ LeaseLapses(j)
         \/ PublishRecovered(j) \/ SkipRecovered(j) \/ ApiStep(j)
  PROVE  TicketInv'
BY LeaseTickets, PublishTickets, RefusalTickets, InsertTickets, DeleteTickets DEF ApiStep

-----------------------------------------------------------------------------
(* Steps of the whole process *)

(* Recovery makes stalled jobs PENDING and keeps every other row.          *)
LEMMA RecoverRows ==
  ASSUME TypeOK, jobs' = RecoverStalledJobs(jobs)
  PROVE  \A j \in Job : IF Stalled(jobs[j])
                        THEN /\ jobs[j].status = "PROCESSING" /\ jobs'[j].status = "PENDING"
                             /\ jobs'[j].retry = jobs[j].retry
                        ELSE jobs'[j] = jobs[j]
<1>1. jobs \in [Job -> Rows(Worker)]
  BY DEF TypeOK
<1>2. \A j \in Job : jobs[j] \in Rows(Worker)
                     /\ jobs'[j] = IF Stalled(jobs[j]) THEN Recover(jobs[j]) ELSE jobs[j]
  BY <1>1 DEF RecoverStalledJobs
<1>3. \A j \in Job : /\ Recover(jobs[j]).status = "PENDING"
                     /\ Recover(jobs[j]).retry = jobs[j].retry
                     /\ Stalled(jobs[j]) => jobs[j].status = "PROCESSING"
  BY <1>2 DEF Recover, Rows, Stalled
<1> QED
  BY <1>2, <1>3

(* Until the pending jobs are fetched nobody but a deleted job has a       *)
(* ticket; fetching them gives each pending job its own.                   *)
LEMMA StartupTickets ==
  ASSUME TypeInv, TypeInv', TicketInv,
         StartupReclaim \/ StartupFetch \/ StartupFetchError \/ StartupDone
  PROVE  TicketInv'
<1>1. UNCHANGED <<queue, pc, cur, create, delete>>
  BY DEF StartupReclaim, StartupFetch, StartupFetchError, StartupDone, callVars, apiVars
<1>2. /\ FiniteClaims'
      /\ \A j \in Job : /\ Tickets(j) \in Nat /\ Tickets(j)' \in Nat
                        /\ Tickets(j)' + One(j \in todo) = Tickets(j) + One(j \in todo')
  <2>1. /\ FiniteClaims'
        /\ \A j \in Job :
             /\ Tickets(j) \in Nat /\ Tickets(j)' \in Nat
             /\ Cardinality(Positions(queue, j)) \in Nat
             /\ Tickets(j)' + Cardinality(Positions(queue, j)) + One(j \in todo)
                            + One(create[j] = "inserted")
                  = Tickets(j) + Cardinality(Positions(queue', j)) + One(j \in todo')
                               + One(create'[j] = "inserted")
    BY <1>1, TicketsCompare DEF TypeInv, TicketInv
  <2>2. \A j \in Job : /\ One(j \in todo) \in {0, 1} /\ One(create[j] = "inserted") \in {0, 1}
                       /\ One(j \in todo') \in {0, 1}
    BY DEF One
  <2> QED
    BY <1>1, <2>1, <2>2
<1>3. \A j \in Job : /\ One(j \in todo) = IF j \in todo THEN 1 ELSE 0
                     /\ One(j \in todo') = IF j \in todo' THEN 1 ELSE 0
  BY DEF One
<1>4. \A j \in Job : Books(j) /\ Past(j)
  BY DEF TicketInv, Ledger
<1>5. CASE StartupReclaim
  <2>1. ~Serving /\ ~Serving' /\ UNCHANGED <<todo, parked>>
    BY <1>5 DEF StartupReclaim, Serving
  <2>2. \A j \in Job : Tickets(j)' = Tickets(j)
    BY <1>2, <1>3, <2>1
  <2>3. \A j \in Job : /\ \/ jobs'[j] = jobs[j]
                          \/ jobs[j].status = "PROCESSING" /\ jobs'[j].status = "PENDING"
                       /\ jobs'[j].retry = jobs[j].retry
    BY <1>5, RecoverRows DEF StartupReclaim, TypeInv
  <2>4. \A j \in Job : Books(j)'
    BY <1>4, <2>1, <2>2, <2>3 DEF Books
  <2>5. \A j \in Job : Past(j)'
    BY <1>1, <1>4, <2>1, <2>3 DEF Past
  <2> QED
    BY <1>2, <2>4, <2>5 DEF TicketInv, Ledger
<1>6. CASE StartupFetch
  <2>1. /\ ~Serving /\ Serving' /\ UNCHANGED jobs
        /\ todo' = {j \in Job : IsPending(jobs[j])} /\ parked' = {}
    BY <1>6 DEF StartupFetch, Serving
  <2>2. \A j \in Job : j \in todo' <=> jobs[j].status = "PENDING"
    BY <1>4, <2>1 DEF Past, IsPending, MaxRetry
  <2>3. ASSUME NEW j \in Job PROVE Books(j)'
    <3>1. CASE jobs[j].status = "DELETED"
      BY <1>2, <1>3, <1>4, <2>1, <2>2, <3>1 DEF Books
    <3>2. CASE jobs[j].status # "DELETED"
      <4>1. Tickets(j) = 0
        BY <1>4, <2>1, <3>2 DEF Books
      <4>2. One(j \in todo) = 0
        BY <1>3, <4>1, TicketedHasOne DEF Ticketed, TypeInv, TicketInv
      <4>3. Tickets(j)' = One(j \in todo')
        BY <1>2, <1>3, <4>1, <4>2
      <4> QED
        BY <1>3, <2>1, <2>2, <3>2, <4>3 DEF Books
    <3> QED
      BY <3>1, <3>2
  <2>4. \A j \in Job : Past(j)'
    BY <1>1, <1>4, <2>1 DEF Past
  <2> QED
    BY <1>2, <2>3, <2>4 DEF TicketInv, Ledger
<1>7. CASE StartupFetchError
  <2>1. /\ ~Serving /\ Serving' /\ UNCHANGED <<jobs, todo>>
        /\ parked' = parked \cup {j \in Job : IsPending(jobs[j])}
    BY <1>7 DEF StartupFetchError, Serving, Park
  <2>2. \A j \in Job : /\ jobs[j].status = "PENDING" => j \in parked'
                       /\ j \in parked' => j \in parked \/ jobs[j].status = "PENDING"
    BY <1>4, <2>1 DEF Past, IsPending, MaxRetry
  <2>3. \A j \in Job : Tickets(j)' = Tickets(j)
    BY <1>2, <1>3, <2>1
  <2>4. \A j \in Job : Books(j)'
    BY <1>4, <2>1, <2>2, <2>3 DEF Books
  <2>5. \A j \in Job : Past(j)'
    BY <1>1, <1>4, <2>1, <2>2 DEF Past
  <2> QED
    BY <1>2, <2>4, <2>5 DEF TicketInv, Ledger
<1>8. CASE StartupDone
  <2>1. Serving /\ Serving' /\ UNCHANGED <<jobs, todo, parked>>
    BY <1>8 DEF StartupDone, Serving
  <2>2. \A j \in Job : Tickets(j)' = Tickets(j)
    BY <1>2, <1>3, <2>1
  <2> QED
    BY <1>1, <1>2, <2>1, <2>2, LedgerKept, SameRows, SameRequests DEF TicketInv, apiVars
<1> QED
  BY <1>5, <1>6, <1>7, <1>8

(* A sweep gives every job it reclaims a ticket, or parks it when the ids  *)
(* are lost.                                                               *)
LEMMA SweepTickets ==
  ASSUME TypeInv, TypeInv', TicketInv, ScheduledSweep \/ SweepAnswerLost
  PROVE  TicketInv'
<1>1. /\ UNCHANGED <<queue, pc, cur, create, delete, life>> /\ Serving /\ todo = {}
      /\ jobs' = RecoverStalledJobs(jobs)
  BY DEF ScheduledSweep, SweepAnswerLost, SweepDue, Serving, callVars, procVars, apiVars
<1>2. Serving'
  BY <1>1, SameLife
<1>3. FiniteClaims' /\ \A j \in Job : Tickets(j)' = Tickets(j) + One(j \in todo')
  <2>1. /\ FiniteClaims'
        /\ \A j \in Job :
             /\ Tickets(j) \in Nat /\ Tickets(j)' \in Nat
             /\ Cardinality(Positions(queue, j)) \in Nat
             /\ Tickets(j)' + Cardinality(Positions(queue, j)) + One(j \in todo)
                            + One(create[j] = "inserted")
                  = Tickets(j) + Cardinality(Positions(queue', j)) + One(j \in todo')
                               + One(create'[j] = "inserted")
    BY <1>1, TicketsCompare DEF TypeInv, TicketInv
  <2>2. \A j \in Job : /\ One(j \in todo) = 0 /\ One(create[j] = "inserted") \in {0, 1}
                       /\ One(j \in todo') \in {0, 1}
    BY <1>1 DEF One
  <2> QED
    BY <1>1, <2>1, <2>2
<1>4. \A j \in Job : Tickets(j) \in Nat /\ Books(j) /\ Past(j)
  BY TicketsCount DEF TypeInv, TicketInv, Ledger
<1>5. \A j \in Job : IF Stalled(jobs[j])
                     THEN /\ jobs[j].status = "PROCESSING" /\ jobs'[j].status = "PENDING"
                          /\ jobs'[j].retry = jobs[j].retry
                     ELSE jobs'[j] = jobs[j]
  BY <1>1, RecoverRows DEF TypeInv
<1>6. \A j \in Job : /\ j \in todo' => Stalled(jobs[j])
                     /\ j \in parked' => j \in parked \/ Stalled(jobs[j])
                     /\ j \in parked => j \in parked'
                     /\ Stalled(jobs[j]) => (j \in todo' <=> j \notin parked') \/ j \in parked
  BY <1>1 DEF ScheduledSweep, SweepAnswerLost, Park
<1>7. ASSUME NEW j \in Job PROVE Books(j)' /\ Past(j)'
  <2>1. CASE Stalled(jobs[j])
    <3>1. jobs[j].status = "PROCESSING" /\ jobs'[j].status = "PENDING" /\ jobs'[j].retry = 0
      BY <1>4, <1>5, <2>1 DEF Past
    <3>2. Tickets(j) = 0 /\ j \notin parked
      BY <1>4, <3>1 DEF Books, Past
    <3>3. Tickets(j)' = IF j \in parked' THEN 0 ELSE 1
      BY <1>3, <1>6, <2>1, <3>2 DEF One
    <3>4. Books(j)'
      BY <1>2, <3>1, <3>3 DEF Books
    <3>5. Past(j)'
      BY <1>1, <1>4, <3>1 DEF Past
    <3> QED
      BY <3>4, <3>5
  <2>2. CASE ~Stalled(jobs[j])
    <3>1. jobs'[j] = jobs[j] /\ j \notin todo' /\ (j \in parked' <=> j \in parked)
      BY <1>5, <1>6, <2>2
    <3>2. Tickets(j)' = Tickets(j)
      BY <1>3, <1>4, <3>1 DEF One
    <3> QED
      BY <1>1, <1>2, <1>4, <3>1, <3>2, TicketKept DEF RowKept, RequestKept
  <2> QED
    BY <2>1, <2>2
<1> QED
  BY <1>3, <1>7 DEF TicketInv, Ledger

(* The end of the process tears every ticket up and parks their jobs.      *)
LEMMA DieTickets ==
  ASSUME TypeInv, TypeInv', TicketInv, Die
  PROVE  TicketInv'
<1>1. \A j \in Job : Claiming(j)' = {} /\ Positions(queue', j) = {}
  BY DEF Die, Claiming, Positions
<1>2. FiniteClaims'
  BY <1>1, FS_EmptySet DEF FiniteClaims
<1>3. \A j \in Job : One(j \in todo') = 0 /\ One(create'[j] = "inserted") = 0
  BY DEF Die, One
<1>4. \A j \in Job : Tickets(j)' = 0
  BY <1>1, <1>2, <1>3, FS_EmptySet, TicketsAfter DEF TypeInv, TicketInv
<1>5. ~Serving' /\ UNCHANGED jobs /\ parked' = parked \cup {j \in Job : Ticketed(j)}
  BY DEF Die, Serving
<1>6. \A j \in Job : Books(j)'
  BY <1>4, <1>5 DEF Books
<1>7. ASSUME NEW j \in Job PROVE Past(j)'
  <2>1. Books(j) /\ Past(j)
    BY DEF TicketInv, Ledger
  <2>2. j \in parked' => j \in parked \/ Tickets(j) # 0
    BY <1>5, TicketedHasOne DEF TypeInv, TicketInv
  <2>3. j \in parked' => jobs[j].status \in {"PENDING", "DELETED"}
    BY <2>1, <2>2 DEF Books, Past
  <2>4. (create'[j] = "none" => create[j] = "none") /\ (delete'[j] # "none" => delete[j] # "none")
    BY DEF Die, TypeInv, TypeOK
  <2> QED
    BY <1>5, <2>1, <2>3, <2>4 DEF Past
<1> QED
  BY <1>2, <1>6, <1>7 DEF TicketInv, Ledger

LEMMA ProcessTicketStep ==
  ASSUME TypeInv, TypeInv', TicketInv,
         \/ StartupReclaim \/ StartupFetch \/ StartupFetchError \/ StartupDone
         \/ ScheduledSweep \/ SweepAnswerLost \/ ProcessStep \/ UNCHANGED vars
  PROVE  TicketInv'
<1>1. CASE StartupReclaim \/ StartupFetch \/ StartupFetchError \/ StartupDone
  BY <1>1, StartupTickets
<1>2. CASE ScheduledSweep \/ SweepAnswerLost
  BY <1>2, SweepTickets
<1>3. CASE Exit \/ SweepPanics \/ Crash
  BY <1>3, DieTickets DEF Exit, SweepPanics, Crash
<1>4. CASE ShutdownServer \/ CancelContext \/ CloseQueue \/ Restart \/ UNCHANGED vars
  <2>1. UNCHANGED <<jobs, queue, todo, parked, cur, create, delete>>
    BY <1>4 DEF ShutdownServer, CancelContext, CloseQueue, Restart, vars, callVars, apiVars
  <2>2. Serving' = Serving
    BY <1>4 DEF ShutdownServer, CancelContext, CloseQueue, Restart, vars, procVars, Serving
  <2>3. NoClaimMoves
    <3>1. CASE Restart
      BY <2>1, <3>1 DEF Restart, NoClaimMoves, TypeInv, Busy
    <3>2. CASE ~Restart
      BY <1>4, <2>1, <3>2 DEF ShutdownServer, CancelContext, CloseQueue, vars, callVars,
                              NoClaimMoves
    <3> QED
      BY <3>1, <3>2
  <2> QED
    BY <2>1, <2>2, <2>3, QuietTickets, SameRows, SameRequests DEF apiVars
<1> QED
  BY <1>1, <1>2, <1>3, <1>4 DEF ProcessStep

LEMMA TicketInvHolds == Spec => []TicketInv
<1>1. Init => TypeInv /\ TicketInv
  BY TypeInit, TicketInit
<1>2. TypeInv /\ TicketInv /\ [Next]_vars => TypeInv' /\ TicketInv'
  <2> SUFFICES ASSUME TypeInv, TicketInv, [Next]_vars
               PROVE  TypeInv' /\ TicketInv'
    OBVIOUS
  <2>1. TypeInv'
    BY TypeStep
  <2> QED
    BY <2>1, WorkerTicketStep, JobTicketStep, ProcessTicketStep DEF Next, SweepStep
<1> QED
  BY <1>1, <1>2, PTL DEF Spec

(* While the process serves, a pending job is in its hands exactly once or *)
(* parked, and no job in another state is: nothing is delivered twice and  *)
(* nothing is dropped in silence, for any number of jobs and workers.      *)
THEOREM OneTicketHolds == Spec => []OneTicket
<1>1. TicketInv => OneTicket
  BY LedgerBalances DEF TicketInv
<1> QED
  BY <1>1, TicketInvHolds, PTL

(* A job fails once at most and retry_count says so; recoveries and stale  *)
(* workers never touch it, so the limit of the sweeps excludes no job that *)
(* is still to be done (job_repo.go:164-173, 210, 237).                    *)
THEOREM RetryCountsFailuresHolds == Spec => []RetryCountsFailures
<1>1. TicketInv => RetryCountsFailures
  BY DEF TicketInv, Ledger, Past, RetryCountsFailures
<1> QED
  BY <1>1, TicketInvHolds, PTL
=============================================================================
