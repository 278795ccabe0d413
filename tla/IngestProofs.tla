---------------------------- MODULE IngestProofs ----------------------------
(***************************************************************************)
(* Theorems about Ingest, for any finite set of jobs, any set of nodes,    *)
(* any buffer size, any limit and any number of faults.                    *)
(***************************************************************************)
EXTENDS IngestProperties, FiniteSetTheorems, SequenceTheorems, TLAPS

(* A worker at work has a job, a request being served has a node, a node   *)
(* that is down has nothing.                                               *)
Stopped(n) == link[n] = "down" /\ held[n] = None /\ jobChan[n] = << >>

Busy ==
  /\ \A n \in Node : /\ pc[n] \in {"claim", "work"} => cur[n] \in Job
                     /\ life[n] = "down" => Stopped(n) /\ pc[n] = "idle"
  /\ \A j \in Job : request[j] \in {"counted", "inserted"} => at[j] \in Node

TypeInv == TypeOK /\ Busy

-----------------------------------------------------------------------------
(* Rows and queues *)

(* The statements Ingest uses map rows to rows. *)
LEMMA RowTypes ==
  ASSUME NEW W, NEW r \in Rows(W)
  PROVE  /\ r.status \in Status /\ r.version \in Nat
         /\ CreateJob(r) \in Rows(W)
         /\ \A w \in W : ClaimJobCAS(r, w) \in Rows(W)
         /\ MarkCompleted(r, "local") \in Rows(W)
         /\ Lapse(r) \in Rows(W)
         /\ Recover(r) \in Rows(W)
<1> USE DEF Rows
<1>1. r.status \in Status /\ r.version \in Nat /\ r.version + 1 \in Nat
  OBVIOUS
<1>2. CreateJob(r) \in Rows(W)
  BY DEF CreateJob, Status, HasRow
<1>3. \A w \in W : ClaimJobCAS(r, w) \in Rows(W)
  BY <1>1 DEF ClaimJobCAS, Status, HasRow, Lease
<1>4. Lapse(r) \in Rows(W)
  BY DEF Lapse, Lease
<1>5. MarkCompleted(r, "local") \in Rows(W)
  BY <1>1 DEF MarkCompleted, Status, HasRow, Terminal, Url
<1>6. Recover(r) \in Rows(W)
  BY <1>1 DEF Recover, Status, HasRow, Lease
<1> QED
  BY <1>1, <1>2, <1>3, <1>4, <1>5, <1>6

(* What the statements do to the columns the invariants are about. *)
LEMMA RowFields ==
  ASSUME NEW W, NEW r \in Rows(W)
  PROVE  /\ \A w \in W : LET c == ClaimJobCAS(r, w) IN
              /\ c.status = "PROCESSING" /\ c.worker = w
              /\ c.version = r.version + 1 /\ c.retry = r.retry
         /\ LET c == MarkCompleted(r, "local") IN
              c.status = "COMPLETED" /\ c.version = r.version + 1 /\ c.retry = r.retry
         /\ LET c == Recover(r) IN
              c.status = "PENDING" /\ c.version = r.version + 1 /\ c.retry = r.retry
BY DEF Rows, ClaimJobCAS, MarkCompleted, Recover

LEMMA RecoverTypes ==
  ASSUME TypeOK
  PROVE  RecoverStalledJobs(jobs) \in [Job -> Rows(Worker)]
BY RowTypes DEF TypeOK, RecoverStalledJobs

(* What Tail and Append do to the elements of a sequence of jobs. *)
LEMMA RangeOfTail ==
  ASSUME NEW q \in Seq(Job), q # << >>
  PROVE  Range(q) \subseteq Range(Tail(q)) \cup {Head(q)}
<1>1. /\ Head(q) = q[1] /\ Tail(q) \in Seq(Job) /\ Len(Tail(q)) = Len(q) - 1
      /\ \A i \in 1 .. Len(Tail(q)) : Tail(q)[i] = q[i + 1]
  BY HeadTailProperties
<1>2. Len(q) \in Nat /\ DOMAIN q = 1 .. Len(q) /\ DOMAIN Tail(q) = 1 .. Len(q) - 1
  BY <1>1, LenProperties
<1>3. ASSUME NEW i \in 1 .. Len(q), i # 1
      PROVE  i - 1 \in DOMAIN Tail(q) /\ q[i] = Tail(q)[i - 1]
  BY <1>1, <1>2, <1>3
<1>4. ASSUME NEW x \in Range(q), x # Head(q)
      PROVE  x \in Range(Tail(q))
  <2>1. PICK i \in 1 .. Len(q) : x = q[i]
    BY <1>2, <1>4 DEF Range
  <2> QED
    BY <1>1, <1>3, <1>4, <2>1 DEF Range
<1> QED
  BY <1>4

LEMMA RangeOfAppend ==
  ASSUME NEW q \in Seq(Job), NEW j \in Job
  PROVE  /\ Append(q, j) \in Seq(Job) /\ Len(Append(q, j)) = Len(q) + 1
         /\ Range(q) \cup {j} \subseteq Range(Append(q, j))
<1>1. /\ Append(q, j) \in Seq(Job) /\ Len(Append(q, j)) = Len(q) + 1
      /\ Append(q, j)[Len(q) + 1] = j
      /\ \A i \in 1 .. Len(q) : Append(q, j)[i] = q[i]
  OBVIOUS
<1>2. Len(q) \in Nat /\ DOMAIN q = 1 .. Len(q) /\ DOMAIN Append(q, j) = 1 .. Len(q) + 1
  BY <1>1, LenProperties
<1>3. ASSUME NEW x \in Range(q) \cup {j}
      PROVE  x \in Range(Append(q, j))
  <2>1. PICK i \in 1 .. Len(q) + 1 : x = Append(q, j)[i]
    BY <1>1, <1>2, <1>3 DEF Range
  <2> QED
    BY <1>2, <2>1 DEF Range
<1> QED
  BY <1>1, <1>3

(* x-max-length keeps a queue that was one message too long, and costs it  *)
(* no message but the one reported lost.                                   *)
LEMMA KeptTypes ==
  ASSUME NEW q \in Seq(Job), Len(q) <= BufferSize + 1
  PROVE  /\ Kept(q) \in Seq(Job) /\ Len(Kept(q)) <= BufferSize
         /\ Dropped(q) \subseteq Job
         /\ Range(q) \subseteq Range(Kept(q)) \cup Dropped(q)
<1>1. CASE Len(q) > BufferSize
  <2>1. q # << >> /\ Len(q) = BufferSize + 1
    BY <1>1, BufferAssumption, EmptySeq, LenProperties
  <2>2. Head(q) \in Job /\ Tail(q) \in Seq(Job) /\ Len(Tail(q)) = Len(q) - 1
    BY <2>1, HeadTailProperties
  <2> QED
    BY <1>1, <2>1, <2>2, RangeOfTail, BufferAssumption DEF Kept, Dropped
<1>2. CASE ~ (Len(q) > BufferSize)
  BY <1>2, LenProperties, BufferAssumption DEF Kept, Dropped
<1> QED
  BY <1>1, <1>2

(* What Publish and a lost connection hand to Kept. *)
LEMMA AppendTypes ==
  ASSUME QueueTypeOK, NEW j \in Job
  PROVE  /\ Append(ready, j) \in Seq(Job) /\ Len(Append(ready, j)) <= BufferSize + 1
         /\ Range(ready) \cup {j} \subseteq Range(Append(ready, j))
<1>1. Len(ready) \in Nat /\ Len(ready) <= BufferSize /\ ready \in Seq(Job)
  BY LenProperties DEF QueueTypeOK
<1> QED
  BY <1>1, RangeOfAppend, BufferAssumption

LEMMA ReturnedTypes ==
  ASSUME QueueTypeOK, NEW n \in Node
  PROVE  /\ Returned(n) \in Seq(Job) /\ Len(Returned(n)) <= BufferSize + 1
         /\ Range(ready) \subseteq Range(Returned(n))
<1>1. CASE link[n] = "up" /\ held[n] # None
  <2>1. held[n] \in Job /\ <<held[n]>> \in Seq(Job) /\ Len(<<held[n]>>) = 1
    BY <1>1 DEF QueueTypeOK
  <2>2. /\ <<held[n]>> \o ready \in Seq(Job)
        /\ Len(<<held[n]>> \o ready) = 1 + Len(ready)
        /\ \A i \in 1 .. 1 + Len(ready) :
             (<<held[n]>> \o ready)[i] = IF i <= 1 THEN <<held[n]>>[i] ELSE ready[i - 1]
    BY <2>1, ConcatProperties DEF QueueTypeOK
  <2>3. Len(ready) \in Nat /\ DOMAIN ready = 1 .. Len(ready)
        /\ DOMAIN (<<held[n]>> \o ready) = 1 .. 1 + Len(ready)
    BY <2>2, LenProperties DEF QueueTypeOK
  <2>4. ASSUME NEW i \in 1 .. Len(ready)
        PROVE  ready[i] = (<<held[n]>> \o ready)[i + 1] /\ i + 1 \in 1 .. 1 + Len(ready)
    BY <2>2, <2>3
  <2>5. Range(ready) \subseteq Range(<<held[n]>> \o ready)
    BY <2>3, <2>4 DEF Range
  <2> QED
    BY <1>1, <2>2, <2>3, <2>5, BufferAssumption DEF QueueTypeOK, Returned
<1>2. CASE ~ (link[n] = "up" /\ held[n] # None)
  BY <1>2, LenProperties, BufferAssumption DEF QueueTypeOK, Returned
<1> QED
  BY <1>1, <1>2

-----------------------------------------------------------------------------
(* Steps of the queue *)

LEMMA QueueTypes ==
  ASSUME QueueTypeOK, NEW n \in Node
  PROVE  /\ \A j \in Job : Publish(n, j) \/ PublishUnsent(n, j) => QueueTypeOK'
         /\ PublishError(n) => QueueTypeOK'
         /\ Bridge(n) => QueueTypeOK'
         /\ Take(n) => QueueTypeOK' /\ Head(jobChan[n]) \in Job
         /\ Cut(n) \/ Leave(n) \/ Connect(n) => QueueTypeOK'
<1> USE BufferAssumption DEF QueueTypeOK, Link
<1>1. ASSUME NEW j \in Job, Publish(n, j)
      PROVE  QueueTypeOK'
  <2>1. ready' \in Seq(Job) /\ Len(ready') <= BufferSize /\ lost' \subseteq Job
    BY <1>1, AppendTypes, KeptTypes DEF Publish
  <2> QED
    BY <1>1, <2>1 DEF Publish
<1>2. ASSUME PublishError(n)
      PROVE  QueueTypeOK'
  BY <1>2 DEF PublishError, queueVars
<1>3. ASSUME NEW j \in Job, PublishUnsent(n, j)
      PROVE  QueueTypeOK'
  <2>1. ready' \in Seq(Job) /\ Len(ready') <= BufferSize /\ lost' \subseteq Job
    BY <1>3, ReturnedTypes, KeptTypes DEF PublishUnsent
  <2> QED
    BY <1>3, <2>1 DEF PublishUnsent
<1>4. ASSUME Deliver(n)
      PROVE  QueueTypeOK'
  <2>1. Head(ready) \in Job /\ Tail(ready) \in Seq(Job) /\ Len(Tail(ready)) = Len(ready) - 1
        /\ Len(ready) \in Nat
    BY <1>4, HeadTailProperties, LenProperties DEF Deliver
  <2>2. ready' \in Seq(Job) /\ Len(ready') <= BufferSize
    BY <1>4, <2>1 DEF Deliver
  <2> QED
    BY <1>4, <2>1, <2>2, NodeAssumption DEF Deliver
<1>5. ASSUME Forward(n)
      PROVE  QueueTypeOK'
  <2>1. held[n] \in Job
    BY <1>5 DEF Forward
  <2>2. /\ Append(jobChan[n], held[n]) \in Seq(Job)
        /\ Len(Append(jobChan[n], held[n])) <= BufferSize
    BY <1>5, <2>1, LenProperties DEF Forward
  <2> QED
    BY <1>5, <2>1, <2>2 DEF Forward
<1>6. ASSUME Ack(n)
      PROVE  QueueTypeOK'
  BY <1>6 DEF Ack
<1>7. ASSUME CloseChan(n)
      PROVE  QueueTypeOK'
  BY <1>7 DEF CloseChan
<1>8. ASSUME Take(n)
     PROVE  QueueTypeOK' /\ Head(jobChan[n]) \in Job
  <2>1. /\ Head(jobChan[n]) \in Job /\ Tail(jobChan[n]) \in Seq(Job)
        /\ Len(Tail(jobChan[n])) = Len(jobChan[n]) - 1 /\ Len(jobChan[n]) \in Nat
    BY <1>8, HeadTailProperties, LenProperties DEF Take
  <2>2. Len(Tail(jobChan[n])) <= BufferSize
    BY <2>1
  <2> QED
    BY <1>8, <2>1, <2>2 DEF Take
<1>9. ASSUME Cut(n)
      PROVE  QueueTypeOK'
  <2>1. ready' \in Seq(Job) /\ Len(ready') <= BufferSize /\ lost' \subseteq Job
    BY <1>9, ReturnedTypes, KeptTypes DEF Cut
  <2> QED
    BY <1>9, <2>1 DEF Cut
<1>10. ASSUME Leave(n)
       PROVE  QueueTypeOK'
  <2>1. ready' \in Seq(Job) /\ Len(ready') <= BufferSize /\ lost' \subseteq Job
    BY <1>10, ReturnedTypes, KeptTypes DEF Leave
  <2>2. << >> \in Seq(Job) /\ Len(<< >>) <= BufferSize
    OBVIOUS
  <2> QED
    BY <1>10, <2>1, <2>2 DEF Leave
<1>11. ASSUME Connect(n)
       PROVE  QueueTypeOK'
  BY <1>11 DEF Connect
<1> QED
  BY <1>1, <1>2, <1>3, <1>4, <1>5, <1>6, <1>7, <1>8, <1>9, <1>10, <1>11 DEF Bridge

LEMMA StoppedKept ==
  ASSUME QueueTypeOK, NEW n \in Node, NEW m \in Node, Stopped(m)
  PROVE  /\ \A j \in Job : Publish(n, j) \/ PublishUnsent(n, j) => Stopped(m)'
         /\ PublishError(n) => Stopped(m)'
         /\ Bridge(n) => Stopped(m)'
         /\ Take(n) => Stopped(m)' /\ m # n
         /\ Cut(n) \/ Leave(n) => Stopped(m)'
         /\ Connect(n) /\ m # n => Stopped(m)'
<1> USE DEF QueueTypeOK, Stopped
<1>1. PublishError(n) \/ (\E j \in Job : Publish(n, j) \/ PublishUnsent(n, j)) => Stopped(m)'
  BY DEF Publish, PublishError, PublishUnsent, queueVars
<1>2. Bridge(n) => Stopped(m)'
  BY NodeAssumption DEF Bridge, Deliver, Forward, Ack, CloseChan
<1>3. Take(n) => Stopped(m)' /\ m # n
  BY DEF Take
<1>4. Cut(n) \/ Leave(n) => Stopped(m)'
  BY DEF Cut, Leave
<1>5. Connect(n) /\ m # n => Stopped(m)'
  BY DEF Connect
<1> QED
  BY <1>1, <1>2, <1>3, <1>4, <1>5

LEMMA LeaveStops ==
  ASSUME QueueTypeOK, NEW n \in Node, Leave(n)
  PROVE  Stopped(n)'
BY DEF QueueTypeOK, Leave, Stopped

(* A message the queue has accepted, up to the worker that receives it. *)
Waiting(j) == \/ j \in Range(ready)
              \/ \E n \in Node : \/ held[n] = j /\ ~sent[n]
                                 \/ j \in Range(jobChan[n])

(* No step of the queue loses a message without counting it lost, but the  *)
(* end of a node, which loses what its bridge and its channel held.        *)
LEMMA WaitingKept ==
  ASSUME QueueTypeOK, NEW n \in Node, NEW k \in Job, Waiting(k)
  PROVE  /\ \A j \in Job : Publish(n, j) \/ PublishUnsent(n, j) => Waiting(k)' \/ k \in lost'
         /\ PublishError(n) => Waiting(k)'
         /\ Bridge(n) => Waiting(k)'
         /\ Take(n) => Waiting(k)' \/ k = Head(jobChan[n])
         /\ Cut(n) => Waiting(k)' \/ k \in lost'
         /\ Connect(n) => Waiting(k)'
<1>1. ASSUME NEW j \in Job, Publish(n, j)
      PROVE  Waiting(k)' \/ k \in lost'
  <2>1. k \in Range(ready) => k \in Range(ready') \/ k \in lost'
    BY <1>1, AppendTypes, KeptTypes DEF Publish
  <2> QED
    BY <1>1, <2>1 DEF Publish, Waiting
<1>2. ASSUME PublishError(n)
      PROVE  Waiting(k)'
  BY <1>2 DEF PublishError, queueVars, Waiting
<1>3. ASSUME NEW j \in Job, PublishUnsent(n, j)
      PROVE  Waiting(k)' \/ k \in lost'
  <2>1. k \in Range(ready) => k \in Range(ready') \/ k \in lost'
    BY <1>3, ReturnedTypes, KeptTypes DEF PublishUnsent
  <2> QED
    BY <1>3, <2>1 DEF PublishUnsent, Waiting
<1>4. ASSUME Deliver(n)
      PROVE  Waiting(k)'
  <2>1. k \in Range(ready) => k \in Range(Tail(ready)) \/ k = Head(ready)
    BY <1>4, RangeOfTail DEF Deliver, QueueTypeOK
  <2>2. k \in Range(ready) => k \in Range(ready') \/ (held'[n] = k /\ ~sent'[n])
    BY <1>4, <2>1 DEF Deliver, QueueTypeOK
  <2>3. \A m \in Node : held[m] = k => held'[m] = k
    BY <1>4, NodeAssumption DEF Deliver, QueueTypeOK
  <2> QED
    BY <1>4, <2>2, <2>3 DEF Deliver, Waiting
<1>5. ASSUME Forward(n)
      PROVE  Waiting(k)'
  <2>1. Range(jobChan[n]) \cup {held[n]} \subseteq Range(jobChan'[n])
    BY <1>5, RangeOfAppend DEF Forward, QueueTypeOK
  <2>2. \A m \in Node : m # n => jobChan'[m] = jobChan[m] /\ sent'[m] = sent[m]
    BY <1>5 DEF Forward, QueueTypeOK
  <2> QED
    BY <1>5, <2>1, <2>2 DEF Forward, Waiting
<1>6. ASSUME Ack(n)
      PROVE  Waiting(k)'
  <2>1. \A m \in Node : held[m] = k /\ ~sent[m] => held'[m] = k /\ ~sent'[m]
    BY <1>6 DEF Ack, QueueTypeOK
  <2> QED
    BY <1>6, <2>1 DEF Ack, Waiting
<1>7. ASSUME CloseChan(n)
      PROVE  Waiting(k)'
  BY <1>7 DEF CloseChan, Waiting
<1>8. ASSUME Take(n)
      PROVE  Waiting(k)' \/ k = Head(jobChan[n])
  <2>1. k \in Range(jobChan[n]) => k \in Range(Tail(jobChan[n])) \/ k = Head(jobChan[n])
    BY <1>8, RangeOfTail DEF Take, QueueTypeOK
  <2>2. \A m \in Node : jobChan'[m] = IF m = n THEN Tail(jobChan[n]) ELSE jobChan[m]
    BY <1>8 DEF Take, QueueTypeOK
  <2> QED
    BY <1>8, <2>1, <2>2 DEF Take, Waiting
<1>9. ASSUME Cut(n)
      PROVE  Waiting(k)' \/ k \in lost'
  <2>1. k \in Range(ready) => k \in Range(ready') \/ k \in lost'
    BY <1>9, ReturnedTypes, KeptTypes DEF Cut
  <2> QED
    BY <1>9, <2>1 DEF Cut, Waiting
<1>10. ASSUME Connect(n)
       PROVE  Waiting(k)'
  BY <1>10 DEF Connect, Waiting
<1> QED
  BY <1>1, <1>2, <1>3, <1>4, <1>5, <1>6, <1>7, <1>8, <1>9, <1>10 DEF Bridge

(* A publish without an error leaves its message waiting, or lost. *)
LEMMA Published ==
  ASSUME QueueTypeOK, NEW n \in Node, NEW j \in Job, Publish(n, j) \/ PublishUnsent(n, j)
  PROVE  Waiting(j)' \/ j \in lost'
<1>1. CASE Publish(n, j)
  <2>1. j \in Range(ready') \/ j \in lost'
    BY <1>1, AppendTypes, KeptTypes DEF Publish
  <2> QED
    BY <2>1 DEF Waiting
<1>2. CASE PublishUnsent(n, j)
  BY <1>2 DEF PublishUnsent
<1> QED
  BY <1>1, <1>2

-----------------------------------------------------------------------------
(* Types *)

LEMMA InitTypes ==
  ASSUME Init
  PROVE  TypeInv
<1>1. QueueTypeOK
  BY BufferAssumption, EmptySeq DEF Init, QueueInit, QueueTypeOK, Link
<1>2. jobs \in [Job -> Rows(Worker)]
  BY DEF Init, Absent, Rows, Status, Lease, Url
<1>3. TypeOK
  BY <1>1, <1>2 DEF Init, TypeOK
<1>4. Busy
  BY DEF Init, Busy
<1> QED
  BY <1>3, <1>4 DEF TypeInv

LEMMA QueueUnchanged ==
  ASSUME QueueTypeOK, UNCHANGED queueVars
  PROVE  QueueTypeOK' /\ \A n \in Node : Stopped(n)' = Stopped(n)
BY DEF queueVars, QueueTypeOK, Stopped

(* A worker that has received a job has a row to look at. *)
LEMMA CallTypes ==
  ASSUME TypeInv, NEW n \in Node, pc[n] \in {"claim", "work"}
  PROVE  cur[n] \in Job /\ Row(n) \in Rows(Worker) /\ Me(n) \in Worker
BY DEF TypeInv, TypeOK, Busy, Row, Me, Worker

LEMMA FaultTypes ==
  ASSUME TypeOK, UNCHANGED faultVars \/ NoFault \/ (\E n \in Node : Fault(n) \/ DbError(n))
  PROVE  faults' \in Nat /\ errors' \in Nat
BY DEF TypeOK, Fault, DbError, NoFault, faultVars

LEMMA CountTypes ==
  ASSUME TypeInv, NEW j \in Job, NEW n \in Front, CountJobs(j, n)
  PROVE  TypeInv'
<1>1. n \in Node /\ IsFiniteSet(Counted)
  BY FrontAssumption, JobAssumption, FS_Subset DEF Counted
<1>2. crowd' \in Nat
  BY <1>1, FS_CardinalityType DEF CountJobs, TypeInv, TypeOK
<1>3. QueueTypeOK' /\ \A m \in Node : Stopped(m)' = Stopped(m)
  BY QueueUnchanged DEF CountJobs, TypeInv, TypeOK
<1>4. TypeOK'
  BY <1>1, <1>2, <1>3 DEF CountJobs, TypeInv, TypeOK, faultVars, workVars
<1>5. Busy'
  BY <1>1, <1>3 DEF CountJobs, TypeInv, TypeOK, Busy, workVars
<1> QED
  BY <1>4, <1>5 DEF TypeInv

LEMMA RefuseTypes ==
  ASSUME TypeInv, NEW j \in Job, NEW n \in Front, TooManyJobs(j, n)
  PROVE  TypeInv'
<1>1. QueueTypeOK' /\ \A m \in Node : Stopped(m)' = Stopped(m)
  BY QueueUnchanged DEF TooManyJobs, TypeInv, TypeOK
<1>2. TypeOK'
  BY <1>1 DEF TooManyJobs, TypeInv, TypeOK, faultVars, workVars
<1>3. Busy'
  BY <1>1 DEF TooManyJobs, TypeInv, TypeOK, Busy, workVars
<1> QED
  BY <1>2, <1>3 DEF TypeInv

LEMMA InsertTypes ==
  ASSUME TypeInv, NEW j \in Job, InsertJob(j)
  PROVE  TypeInv'
<1>1. QueueTypeOK' /\ \A m \in Node : Stopped(m)' = Stopped(m)
  BY QueueUnchanged DEF InsertJob, TypeInv, TypeOK
<1>2. jobs' \in [Job -> Rows(Worker)]
  BY RowTypes DEF InsertJob, TypeInv, TypeOK
<1>3. TypeOK'
  BY <1>1, <1>2 DEF InsertJob, TypeInv, TypeOK, faultVars, workVars
<1>4. Busy'
  BY <1>1 DEF InsertJob, TypeInv, TypeOK, Busy, workVars
<1> QED
  BY <1>3, <1>4 DEF TypeInv

LEMMA InsertErrorTypes ==
  ASSUME TypeInv, NEW j \in Job, InsertError(j)
  PROVE  TypeInv'
<1>1. at[j] \in Node /\ faults' \in Nat /\ errors' \in Nat
  BY FaultTypes DEF InsertError, TypeInv, Busy
<1>2. QueueTypeOK' /\ \A m \in Node : Stopped(m)' = Stopped(m)
  BY QueueUnchanged DEF InsertError, TypeInv, TypeOK
<1>3. jobs' \in [Job -> Rows(Worker)] /\ parked' \subseteq Job
  BY RowTypes DEF InsertError, Park, TypeInv, TypeOK
<1>4. TypeOK'
  BY <1>1, <1>2, <1>3 DEF InsertError, Answer, TypeInv, TypeOK, workVars
<1>5. Busy'
  BY <1>2 DEF InsertError, Answer, TypeInv, TypeOK, Busy, workVars
<1> QED
  BY <1>4, <1>5 DEF TypeInv

LEMMA SubmitTypes ==
  ASSUME TypeInv, NEW j \in Job, SubmitJob(j)
  PROVE  TypeInv'
<1>1. at[j] \in Node
  BY DEF SubmitJob, TypeInv, Busy
<1>2. QueueTypeOK' /\ \A m \in Node : Stopped(m) => Stopped(m)'
  BY <1>1, QueueTypes, StoppedKept DEF SubmitJob, TypeInv, TypeOK
<1>3. faults' \in Nat /\ errors' \in Nat /\ parked' \subseteq Job
  BY <1>1, FaultTypes DEF SubmitJob, Park, TypeInv, TypeOK
<1>4. PICK a \in {"accepted", "refused"} : Answer(j, a)
  BY DEF SubmitJob
<1>5. UNCHANGED <<jobs, life, epoch, todo, pc, cur, stamp, crowd>>
  BY DEF SubmitJob, workVars
<1>6. TypeOK'
  BY <1>2, <1>3, <1>4, <1>5 DEF Answer, TypeInv, TypeOK
<1>7. Busy'
  BY <1>2, <1>4, <1>5 DEF Answer, TypeInv, TypeOK, Busy
<1> QED
  BY <1>6, <1>7 DEF TypeInv

LEMMA WorkerTypes ==
  ASSUME TypeInv, NEW n \in Node, WorkerStep(n) \/ BridgeStep(n)
  PROVE  TypeInv'
<1>0. QueueTypeOK
  BY DEF TypeInv, TypeOK
<1>1. CASE Receive(n)
  <2>1. QueueTypeOK' /\ Head(jobChan[n]) \in Job
    BY <1>0, <1>1, QueueTypes DEF Receive
  <2>2. \A m \in Node : Stopped(m) => Stopped(m)' /\ m # n
    BY <1>0, <1>1, StoppedKept, <2>1 DEF Receive
  <2>3. TypeOK'
    BY <1>1, <2>1 DEF Receive, TypeInv, TypeOK, faultVars, reqVars
  <2>4. Busy'
    BY <1>1, <2>1, <2>2 DEF Receive, TypeInv, TypeOK, Busy, reqVars
  <2> QED
    BY <2>3, <2>4 DEF TypeInv
<1>2. CASE Claim(n)
  <2>1. cur[n] \in Job /\ Row(n) \in Rows(Worker) /\ Me(n) \in Worker
    BY <1>2, CallTypes DEF Claim
  <2>2. Row(n).version \in Nat /\ ClaimJobCAS(Row(n), Me(n)) \in Rows(Worker)
    BY <2>1, RowTypes
  <2>3. jobs' \in [Job -> Rows(Worker)]
    BY <1>2, <2>1, <2>2 DEF Claim, Row, TypeInv, TypeOK
  <2>4. QueueTypeOK' /\ \A m \in Node : Stopped(m)' = Stopped(m)
    BY <1>0, <1>2, QueueUnchanged DEF Claim
  <2>5. TypeOK'
    BY <1>2, <2>1, <2>2, <2>3, <2>4 DEF Claim, Idle, TypeInv, TypeOK, faultVars, reqVars
  <2>6. Busy'
    BY <1>2, <2>1, <2>4 DEF Claim, Idle, TypeInv, TypeOK, Busy, reqVars
  <2> QED
    BY <2>5, <2>6 DEF TypeInv
<1>3. CASE Finish(n)
  <2>1. cur[n] \in Job /\ MarkCompleted(Row(n), "local") \in Rows(Worker)
    BY <1>3, CallTypes, RowTypes DEF Finish
  <2>2. jobs' \in [Job -> Rows(Worker)]
    BY <1>3, <2>1 DEF Finish, Row, TypeInv, TypeOK
  <2>3. QueueTypeOK' /\ \A m \in Node : Stopped(m)' = Stopped(m)
    BY <1>0, <1>3, QueueUnchanged DEF Finish
  <2>4. TypeOK'
    BY <1>3, <2>2, <2>3 DEF Finish, Idle, TypeInv, TypeOK, faultVars, reqVars
  <2>5. Busy'
    BY <1>3, <2>3 DEF Finish, Idle, TypeInv, TypeOK, Busy, reqVars
  <2> QED
    BY <2>4, <2>5 DEF TypeInv
<1>4. CASE WorkerExit(n)
  <2>1. QueueTypeOK' /\ \A m \in Node : Stopped(m)' = Stopped(m)
    BY <1>0, <1>4, QueueUnchanged DEF WorkerExit
  <2>2. ~Stopped(n)
    BY <1>4 DEF WorkerExit, Stopped
  <2>3. TypeOK'
    BY <1>4, <2>1 DEF WorkerExit, TypeInv, TypeOK, faultVars, reqVars
  <2>4. Busy'
    BY <1>4, <2>1, <2>2 DEF WorkerExit, TypeInv, TypeOK, Busy, reqVars
  <2> QED
    BY <2>3, <2>4 DEF TypeInv
<1>5. CASE ClaimError(n) \/ FinishError(n)
  <2>1. cur[n] \in Job /\ Row(n) \in Rows(Worker) /\ Me(n) \in Worker
    BY <1>5, CallTypes DEF ClaimError, FinishError
  <2>2. jobs' \in [Job -> Rows(Worker)]
    <3>1. ClaimJobCAS(Row(n), Me(n)) \in Rows(Worker)
      BY <2>1, RowTypes
    <3>2. UNCHANGED jobs \/ jobs' = [jobs EXCEPT ![cur[n]] = ClaimJobCAS(Row(n), Me(n))]
      BY <1>5 DEF ClaimError, FinishError, Row
    <3> QED
      BY <2>1, <3>1, <3>2 DEF TypeInv, TypeOK
  <2>3. parked' \subseteq Job
    BY <1>5, <2>1 DEF ClaimError, FinishError, Park, TypeInv, TypeOK
  <2>4. QueueTypeOK' /\ \A m \in Node : Stopped(m)' = Stopped(m)
    BY <1>0, <1>5, QueueUnchanged DEF ClaimError, FinishError
  <2>5. faults' \in Nat /\ errors' \in Nat
    BY <1>5, FaultTypes DEF ClaimError, FinishError, TypeInv
  <2>6. TypeOK'
    BY <1>5, <2>2, <2>3, <2>4, <2>5 DEF ClaimError, FinishError, Idle, TypeInv, TypeOK, reqVars
  <2>7. Busy'
    BY <1>5, <2>4 DEF ClaimError, FinishError, Idle, TypeInv, TypeOK, Busy, reqVars
  <2> QED
    BY <2>6, <2>7 DEF TypeInv
<1>6. CASE BridgeStep(n)
  <2>1. QueueTypeOK' /\ \A m \in Node : Stopped(m) => Stopped(m)'
    BY <1>0, <1>6, QueueTypes, StoppedKept DEF BridgeStep
  <2>2. TypeOK'
    BY <1>6, <2>1 DEF BridgeStep, TypeInv, TypeOK, faultVars, workVars, reqVars
  <2>3. Busy'
    BY <1>6, <2>1 DEF BridgeStep, TypeInv, TypeOK, Busy, workVars, reqVars
  <2> QED
    BY <2>2, <2>3 DEF TypeInv
<1> QED
  BY <1>1, <1>2, <1>3, <1>4, <1>5, <1>6 DEF WorkerStep

LEMMA LeaseTypes ==
  ASSUME TypeInv, NEW j \in Job, LeaseExpires(j) \/ LeaseLapses(j)
  PROVE  TypeInv'
<1>1. QueueTypeOK' /\ \A m \in Node : Stopped(m)' = Stopped(m)
  BY QueueUnchanged DEF LeaseExpires, LeaseLapses, TypeInv, TypeOK
<1>2. jobs' \in [Job -> Rows(Worker)]
  BY RowTypes DEF LeaseExpires, LeaseLapses, TypeInv, TypeOK
<1>3. faults' \in Nat /\ errors' \in Nat
  BY FaultTypes DEF LeaseExpires, LeaseLapses, TypeInv
<1>4. TypeOK'
  BY <1>1, <1>2, <1>3 DEF LeaseExpires, LeaseLapses, TypeInv, TypeOK, faultVars, workVars, reqVars
<1>5. Busy'
  BY <1>1 DEF LeaseExpires, LeaseLapses, TypeInv, TypeOK, Busy, workVars, reqVars
<1> QED
  BY <1>4, <1>5 DEF TypeInv

LEMMA SweepTypes ==
  ASSUME TypeInv, NEW n \in Node, SweepStep(n)
  PROVE  TypeInv'
<1>0. QueueTypeOK
  BY DEF TypeInv, TypeOK
<1>1. jobs' \in [Job -> Rows(Worker)]
  BY RecoverTypes DEF SweepStep, StartupReclaim, StartupFetch, StartupFetchError, StartupDone,
                      ScheduledSweep, SweepAnswerLost, Republish, TypeInv, TypeOK
<1>2. parked' \subseteq Job
  BY DEF SweepStep, StartupReclaim, StartupFetch, StartupFetchError, StartupDone,
         ScheduledSweep, SweepAnswerLost, Republish, Park, Unpark, TypeInv, TypeOK
<1>3. faults' \in Nat /\ errors' \in Nat
  BY FaultTypes DEF SweepStep, StartupReclaim, StartupFetch, StartupFetchError, StartupDone,
                    ScheduledSweep, SweepAnswerLost, Republish, TypeInv
<1>4. CASE \/ StartupReclaim(n) \/ StartupFetch(n) \/ StartupFetchError(n) \/ StartupDone(n)
           \/ ScheduledSweep(n) \/ SweepAnswerLost(n)
  <2>1. QueueTypeOK' /\ \A m \in Node : Stopped(m)' = Stopped(m)
    BY <1>0, <1>4, QueueUnchanged DEF StartupReclaim, StartupFetch, StartupFetchError,
                                      StartupDone, ScheduledSweep, SweepAnswerLost
  <2>2. TypeOK'
    BY <1>1, <1>2, <1>3, <1>4, <2>1
       DEF StartupReclaim, StartupFetch, StartupFetchError, StartupDone, ScheduledSweep,
           SweepAnswerLost, TypeInv, TypeOK, workVars, reqVars
  <2>3. Busy'
    BY <1>4, <2>1 DEF StartupReclaim, StartupFetch, StartupFetchError, StartupDone,
                      ScheduledSweep, SweepAnswerLost, SweepDue, TypeInv, TypeOK, Busy,
                      workVars, reqVars
  <2> QED
    BY <2>2, <2>3 DEF TypeInv
<1>5. ASSUME NEW j \in Job, Republish(n, j)
      PROVE  TypeInv'
  <2>1. QueueTypeOK' /\ \A m \in Node : Stopped(m) => Stopped(m)'
    BY <1>0, <1>5, QueueTypes, StoppedKept DEF Republish
  <2>2. TypeOK'
    BY <1>1, <1>2, <1>3, <1>5, <2>1 DEF Republish, TypeInv, TypeOK, workVars, reqVars
  <2>3. Busy'
    BY <1>5, <2>1 DEF Republish, TypeInv, TypeOK, Busy, workVars, reqVars
  <2> QED
    BY <2>2, <2>3 DEF TypeInv
<1> QED
  BY <1>4, <1>5 DEF SweepStep

LEMMA FailureTypes ==
  ASSUME TypeInv, NEW n \in Node, ConnectionLost(n) \/ Crash(n) \/ Restart(n)
  PROVE  TypeInv'
<1>0. QueueTypeOK /\ QueueTypeOK'
  BY QueueTypes DEF ConnectionLost, Crash, Restart, TypeInv, TypeOK
<1>1. faults' \in Nat /\ errors' \in Nat
  BY FaultTypes DEF ConnectionLost, Crash, Restart, TypeInv
<1>2. CASE ConnectionLost(n)
  <2>1. \A m \in Node : Stopped(m) => Stopped(m)'
    BY <1>0, <1>2, StoppedKept DEF ConnectionLost
  <2>2. TypeOK'
    BY <1>0, <1>1, <1>2 DEF ConnectionLost, TypeInv, TypeOK, faultVars, workVars, reqVars
  <2>3. Busy'
    BY <1>2, <2>1 DEF ConnectionLost, TypeInv, TypeOK, Busy, workVars, reqVars
  <2> QED
    BY <2>2, <2>3 DEF TypeInv
<1>3. CASE Crash(n)
  <2>1. Stopped(n)' /\ \A m \in Node : Stopped(m) => Stopped(m)'
    BY <1>0, <1>3, StoppedKept, LeaveStops DEF Crash
  <2>2. TypeOK'
    BY <1>0, <1>1, <1>3 DEF Crash, Idle, TypeInv, TypeOK
  <2>3. Busy'
    BY <1>3, <2>1 DEF Crash, Idle, TypeInv, TypeOK, Busy
  <2> QED
    BY <2>2, <2>3 DEF TypeInv
<1>4. CASE Restart(n)
  <2>1. \A m \in Node : m # n => (Stopped(m) => Stopped(m)')
    BY <1>0, <1>4, StoppedKept DEF Restart
  <2>2. TypeOK'
    BY <1>0, <1>4 DEF Restart, TypeInv, TypeOK, faultVars, workVars, reqVars
  <2>3. Busy'
    BY <1>4, <2>1 DEF Restart, TypeInv, TypeOK, Busy, workVars, reqVars
  <2> QED
    BY <2>2, <2>3 DEF TypeInv
<1> QED
  BY <1>2, <1>3, <1>4

LEMMA TypeStep ==
  ASSUME TypeInv, [Next]_vars
  PROVE  TypeInv'
<1>1. CASE UNCHANGED vars
  <2>1. QueueTypeOK' /\ \A m \in Node : Stopped(m)' = Stopped(m)
    BY <1>1, QueueUnchanged DEF vars, TypeInv, TypeOK
  <2>2. TypeOK'
    BY <1>1, <2>1 DEF vars, workVars, reqVars, faultVars, TypeInv, TypeOK
  <2>3. Busy'
    BY <1>1, <2>1 DEF vars, workVars, reqVars, TypeInv, Busy
  <2> QED
    BY <2>2, <2>3 DEF TypeInv
<1>2. CASE Next
  BY <1>2, FrontAssumption, CountTypes, RefuseTypes, InsertTypes, InsertErrorTypes, SubmitTypes,
     LeaseTypes, WorkerTypes, SweepTypes, FailureTypes DEF Next
<1> QED
  BY <1>1, <1>2

(* Every variable keeps its type and neither queue outgrows its bound,     *)
(* whatever the nodes, the buffer size and the faults (rabbitmq.go:57-73). *)
THEOREM TypesHold == Spec => []TypeOK
<1>1. Init => TypeInv
  BY InitTypes
<1>2. TypeInv /\ [Next]_vars => TypeInv'
  BY TypeStep
<1>3. TypeInv => TypeOK
  BY DEF TypeInv
<1> QED
  BY <1>1, <1>2, <1>3, PTL DEF Spec

-----------------------------------------------------------------------------
(* Admission *)

(* Each request between count and insert may still become an active job.   *)
Pledged ==
  /\ Cardinality(Active) + Cardinality(Counted) <= Limit - 1 + crowd
  /\ Cardinality(Counted) <= crowd

LEMMA FiniteSets ==
  /\ IsFiniteSet(Active) /\ Cardinality(Active) \in Nat
  /\ IsFiniteSet(Counted) /\ Cardinality(Counted) \in Nat
  /\ IsFiniteSet(Active') /\ Cardinality(Active') \in Nat
  /\ IsFiniteSet(Counted') /\ Cardinality(Counted') \in Nat
<1>1. Active \subseteq Job /\ Counted \subseteq Job /\ Active' \subseteq Job /\ Counted' \subseteq Job
  BY DEF Active, Counted
<1> QED
  BY <1>1, JobAssumption, FS_Subset, FS_CardinalityType

LEMMA PledgedIfFewer ==
  ASSUME TypeOK, Pledged, UNCHANGED crowd, Active' \subseteq Active, Counted' \subseteq Counted
  PROVE  Pledged'
<1>1. Cardinality(Active') <= Cardinality(Active)
  BY FiniteSets, FS_Subset
<1>2. Cardinality(Counted') <= Cardinality(Counted)
  BY FiniteSets, FS_Subset
<1>3. Cardinality(Active)' = Cardinality(Active') /\ Cardinality(Counted)' = Cardinality(Counted')
  OBVIOUS
<1> QED
  BY <1>1, <1>2, <1>3, FiniteSets, LimitAssumption DEF Pledged, TypeOK

(* A statement that makes no row active leaves fewer active jobs, or the   *)
(* same ones.                                                              *)
LEMMA RecoverFewer ==
  ASSUME TypeOK, jobs' = RecoverStalledJobs(jobs)
  PROVE  Active' = Active
<1>1. ASSUME NEW k \in Job
      PROVE  /\ jobs'[k] = IF Stalled(jobs[k]) THEN Recover(jobs[k]) ELSE jobs[k]
             /\ jobs[k] \in Rows(Worker)
  BY DEF TypeOK, RecoverStalledJobs
<1>2. ASSUME NEW k \in Job
      PROVE  Stalled(jobs[k]) => jobs[k].status = "PROCESSING" /\ jobs'[k].status = "PENDING"
  BY <1>1 DEF Stalled, Recover, Rows
<1> QED
  BY <1>1, <1>2 DEF Active

LEMMA RowFewer ==
  ASSUME TypeInv, NEW j \in Job, NEW r, jobs' = [jobs EXCEPT ![j] = r],
         r.status \in {"PENDING", "PROCESSING"} => jobs[j].status \in {"PENDING", "PROCESSING"}
  PROVE  Active' \subseteq Active
BY DEF TypeInv, TypeOK, Active

LEMMA PledgedStep ==
  ASSUME TypeInv, Pledged, [Next]_vars
  PROVE  Pledged'
<1>0. TypeOK
  BY DEF TypeInv
<1>1. ASSUME NEW j \in Job, NEW n \in Front, CountJobs(j, n)
      PROVE  Pledged'
  <2>1. Active' = Active /\ Counted' = Counted \cup {j}
    BY <1>0, <1>1 DEF CountJobs, Active, Counted, TypeOK
  <2>2. Cardinality(Counted') <= Cardinality(Counted) + 1
    BY <2>1, FiniteSets, FS_AddElement
  <2>3. crowd' >= crowd /\ crowd' >= Cardinality(Counted) + 1 /\ crowd' \in Nat
    BY <1>0, <1>1, FiniteSets DEF CountJobs, TypeOK
  <2>4. Cardinality(Active) < Limit
    BY <1>1 DEF CountJobs
  <2>5. Cardinality(Active)' = Cardinality(Active) /\ Cardinality(Counted)' = Cardinality(Counted')
    BY <2>1
  <2> QED
    BY <2>2, <2>3, <2>4, <2>5, FiniteSets, LimitAssumption DEF Pledged
<1>2. ASSUME NEW j \in Job, InsertJob(j) \/ InsertError(j)
      PROVE  Pledged'
  <2>1. Active' \subseteq Active \cup {j} /\ Counted' = Counted \ {j} /\ j \in Counted
        /\ crowd' = crowd
    BY <1>0, <1>2 DEF InsertJob, InsertError, Answer, Active, Counted, TypeOK
  <2>2. Cardinality(Active') <= Cardinality(Active) + 1
    <3>1. /\ IsFiniteSet(Active \cup {j})
          /\ Cardinality(Active \cup {j}) \in {Cardinality(Active), Cardinality(Active) + 1}
      BY FiniteSets, FS_AddElement
    <3>2. Cardinality(Active') <= Cardinality(Active \cup {j})
      BY <2>1, <3>1, FS_Subset
    <3> QED
      BY <3>1, <3>2, FiniteSets
  <2>3. Cardinality(Counted') = Cardinality(Counted) - 1
    BY <2>1, FiniteSets, FS_RemoveElement
  <2>4. Cardinality(Active)' = Cardinality(Active') /\ Cardinality(Counted)' = Cardinality(Counted')
    OBVIOUS
  <2> QED
    BY <1>0, <2>1, <2>2, <2>3, <2>4, FiniteSets, LimitAssumption DEF Pledged, TypeOK
<1>3. ASSUME NEW j \in Job, (\E n \in Front : TooManyJobs(j, n)) \/ SubmitJob(j)
      PROVE  Pledged'
  <2>1. UNCHANGED <<jobs, crowd>> /\ Counted' \subseteq Counted
    BY <1>0, <1>3 DEF TooManyJobs, SubmitJob, Answer, Counted, TypeOK
  <2>2. Active' = Active
    BY <2>1 DEF Active
  <2> QED
    BY <1>0, <2>1, <2>2, PledgedIfFewer
<1>4. ASSUME NEW j \in Job, LeaseExpires(j) \/ LeaseLapses(j)
      PROVE  Pledged'
  <2>1. Active' \subseteq Active
    BY <1>0, <1>4 DEF LeaseExpires, LeaseLapses, Lapse, Active, TypeOK, Rows
  <2>2. Counted' = Counted /\ crowd' = crowd
    BY <1>4 DEF LeaseExpires, LeaseLapses, Counted, reqVars
  <2> QED
    BY <1>0, <2>1, <2>2, PledgedIfFewer
<1>5. ASSUME NEW n \in Node, WorkerStep(n) \/ BridgeStep(n)
      PROVE  Pledged'
  <2>1. Counted' = Counted /\ crowd' = crowd
    BY <1>5 DEF WorkerStep, Receive, Claim, ClaimError, Finish, FinishError, WorkerExit,
                BridgeStep, Counted, reqVars
  <2>2. Active' \subseteq Active
    <3>1. CASE Claim(n) \/ ClaimError(n)
      <4>1. cur[n] \in Job
        BY <3>1, CallTypes DEF Claim, ClaimError
      <4> QED
        BY <3>1, <4>1, RowFewer DEF Claim, ClaimError, CanClaim, Row, Active
    <3>2. CASE Finish(n)
      <4>1. cur[n] \in Job
        BY <3>2, CallTypes DEF Finish
      <4> QED
        BY <3>2, <4>1, RowFewer DEF Finish, OwnedBy, Row, Active
    <3>3. CASE Receive(n) \/ FinishError(n) \/ WorkerExit(n) \/ BridgeStep(n)
      BY <3>3 DEF Receive, FinishError, WorkerExit, BridgeStep, Active
    <3> QED
      BY <1>5, <3>1, <3>2, <3>3 DEF WorkerStep
  <2> QED
    BY <1>0, <2>1, <2>2, PledgedIfFewer
<1>6. ASSUME NEW n \in Node, SweepStep(n)
      PROVE  Pledged'
  <2>1. Counted' = Counted /\ crowd' = crowd
    BY <1>6 DEF SweepStep, StartupReclaim, StartupFetch, StartupFetchError, StartupDone,
                ScheduledSweep, SweepAnswerLost, Republish, Counted, reqVars
  <2>2. UNCHANGED jobs \/ jobs' = RecoverStalledJobs(jobs)
    BY <1>6 DEF SweepStep, StartupReclaim, StartupFetch, StartupFetchError, StartupDone,
                ScheduledSweep, SweepAnswerLost, Republish
  <2>3. Active' \subseteq Active
    BY <1>0, <2>2, RecoverFewer DEF Active
  <2> QED
    BY <1>0, <2>1, <2>3, PledgedIfFewer
<1>7. ASSUME NEW n \in Node, ConnectionLost(n) \/ Crash(n) \/ Restart(n)
      PROVE  Pledged'
  <2>1. UNCHANGED <<jobs, crowd>> /\ Counted' \subseteq Counted
    BY <1>0, <1>7 DEF ConnectionLost, Crash, Restart, Counted, reqVars, TypeOK
  <2>2. Active' = Active
    BY <2>1 DEF Active
  <2> QED
    BY <1>0, <2>1, <2>2, PledgedIfFewer
<1>8. CASE UNCHANGED vars
  <2>1. Counted' = Counted /\ crowd' = crowd /\ Active' = Active
    BY <1>8 DEF vars, reqVars, Counted, Active
  <2> QED
    BY <1>0, <2>1, PledgedIfFewer
<1> QED
  BY <1>1, <1>2, <1>3, <1>4, <1>5, <1>6, <1>7, <1>8, FrontAssumption DEF Next

(* However many nodes a user's requests reach and whatever fails, the user *)
(* has at most as many jobs too many as requests were once between count   *)
(* and insert (job_handler.go:85-96, 151).                                 *)
THEOREM AdmissionIsBounded == Spec => []AdmissionBounded
<1>1. Init => TypeInv /\ Pledged
  <2> SUFFICES ASSUME Init
               PROVE  TypeInv /\ Pledged
    OBVIOUS
  <2>1. Active = {} /\ Counted = {}
    BY DEF Init, Active, Counted, Absent
  <2>2. Cardinality(Active) = 0 /\ Cardinality(Counted) = 0
    BY <2>1, FS_EmptySet
  <2> QED
    BY <2>2, InitTypes, LimitAssumption DEF Init, Pledged
<1>2. TypeInv /\ Pledged /\ [Next]_vars => TypeInv' /\ Pledged'
  BY TypeStep, PledgedStep
<1>3. TypeInv /\ Pledged => AdmissionBounded
  BY FiniteSets, LimitAssumption DEF TypeInv, TypeOK, Pledged, AdmissionBounded
<1> QED
  BY <1>1, <1>2, <1>3, PTL DEF Spec

-----------------------------------------------------------------------------
(* No job is forgotten                                                     *)

(* A delivery that is in jobChan already needs no bridge: what the bridge  *)
(* holds counts only until it is sent.                                     *)
Taken(j)     == \E n \in Node : pc[n] = "claim" /\ cur[n] = j
Supported(j) == Waiting(j) \/ Taken(j) \/ ToBePublished(j) \/ j \in lost \cup parked

(* Nothing here counts a retry, so a sweep takes every PENDING row.        *)
OnItsWay ==
  \A j \in Job : /\ jobs[j].retry = 0
                 /\ request[j] = "accepted" /\ jobs[j].status = "PENDING" => Supported(j)

LEMMA SupportedKept ==
  ASSUME NEW k \in Job, Supported(k),
         Waiting(k) => Waiting(k)' \/ k \in lost',
         UNCHANGED <<life, pc, cur, todo>>, lost \subseteq lost', parked \subseteq parked'
  PROVE  Supported(k)'
<1>1. Taken(k) => Taken(k)'
  BY DEF Taken
<1>2. ToBePublished(k) => ToBePublished(k)'
  BY DEF ToBePublished
<1> QED
  BY <1>1, <1>2 DEF Supported

LEMMA WaitingUnchanged ==
  ASSUME UNCHANGED queueVars, NEW k
  PROVE  Waiting(k)' = Waiting(k) /\ lost' = lost
BY DEF queueVars, Waiting

LEMMA LostGrows ==
  ASSUME NEW n \in Node
  PROVE  /\ \A j \in Job : Publish(n, j) \/ PublishUnsent(n, j) => lost \subseteq lost'
         /\ Bridge(n) \/ Take(n) \/ Cut(n) \/ Leave(n) \/ Connect(n) \/ PublishError(n)
            => lost \subseteq lost'
BY DEF Publish, PublishUnsent, Bridge, Deliver, Forward, Ack, CloseChan, Take, Cut, Leave,
       Connect, PublishError, queueVars

LEMMA RequestsOnTheirWay ==
  ASSUME TypeInv, OnItsWay, NEW j \in Job,
         (\E n \in Front : CountJobs(j, n) \/ TooManyJobs(j, n)) \/ InsertJob(j) \/ InsertError(j)
  PROVE  OnItsWay'
<1>1. ASSUME NEW k \in Job, Supported(k)
      PROVE  Supported(k)'
  BY <1>1, WaitingUnchanged, SupportedKept
     DEF CountJobs, TooManyJobs, InsertJob, InsertError, Park, workVars
<1>2. ASSUME NEW k \in Job
      PROVE  /\ jobs'[k].retry = jobs[k].retry
             /\ request'[k] = "accepted" => request[k] = "accepted" /\ jobs'[k] = jobs[k]
  <2>1. UNCHANGED jobs \/ jobs' = [jobs EXCEPT ![j] = CreateJob(@)]
    BY DEF CountJobs, TooManyJobs, InsertJob, InsertError
  <2>2. jobs'[k].retry = jobs[k].retry /\ (k # j => jobs'[k] = jobs[k])
    BY <2>1 DEF CreateJob, TypeInv, TypeOK, Rows
  <2>3. \/ UNCHANGED jobs
        \/ request[j] # "accepted" /\ request'[j] # "accepted"
    BY DEF CountJobs, TooManyJobs, InsertJob, InsertError, Answer, TypeInv, TypeOK
  <2>4. request'[k] = "accepted" => request[k] = "accepted"
    BY DEF CountJobs, TooManyJobs, InsertJob, InsertError, Answer, TypeInv, TypeOK
  <2> QED
    BY <2>2, <2>3, <2>4
<1> QED
  BY <1>1, <1>2 DEF OnItsWay

LEMMA SubmittedOnItsWay ==
  ASSUME TypeInv, OnItsWay, NEW j \in Job, SubmitJob(j)
  PROVE  OnItsWay'
<1>1. at[j] \in Node /\ QueueTypeOK
  BY DEF SubmitJob, TypeInv, TypeOK, Busy
<1>2. ASSUME NEW k \in Job, Supported(k)
      PROVE  Supported(k)'
  <2>1. Waiting(k) => Waiting(k)' \/ k \in lost'
    BY <1>1, WaitingKept DEF SubmitJob
  <2>2. lost \subseteq lost'
    BY <1>1, LostGrows DEF SubmitJob
  <2> QED
    BY <1>2, <2>1, <2>2, SupportedKept DEF SubmitJob, Park, workVars
<1>3. \/ request' = [request EXCEPT ![j] = "refused"]
      \/ request' = [request EXCEPT ![j] = "accepted"] /\ Supported(j)'
  <2>1. Publish(at[j], j) \/ PublishUnsent(at[j], j) => Supported(j)'
    BY <1>1, Published DEF Supported
  <2> QED
    BY <2>1 DEF SubmitJob, Answer
<1>4. ASSUME NEW k \in Job, request'[k] = "accepted"
      PROVE  Supported(k)' \/ request[k] = "accepted"
  BY <1>3, <1>4 DEF TypeInv, TypeOK
<1> QED
  BY <1>2, <1>4 DEF OnItsWay, SubmitJob

LEMMA LeasedOnTheirWay ==
  ASSUME TypeInv, OnItsWay, NEW j \in Job, LeaseExpires(j) \/ LeaseLapses(j)
  PROVE  OnItsWay'
<1>1. ASSUME NEW k \in Job, Supported(k)
      PROVE  Supported(k)'
  BY <1>1, WaitingUnchanged, SupportedKept DEF LeaseExpires, LeaseLapses, workVars
<1>2. ASSUME NEW k \in Job
      PROVE  jobs'[k].retry = jobs[k].retry /\ jobs'[k].status = jobs[k].status
  BY DEF LeaseExpires, LeaseLapses, Lapse, TypeInv, TypeOK, Rows
<1>3. UNCHANGED request
  BY DEF LeaseExpires, LeaseLapses, reqVars
<1> QED
  BY <1>1, <1>2, <1>3 DEF OnItsWay

LEMMA WorkedOnTheirWay ==
  ASSUME TypeInv, OnItsWay, NEW n \in Node, WorkerStep(n) \/ BridgeStep(n)
  PROVE  OnItsWay'
<1>0. QueueTypeOK /\ UNCHANGED <<request, life, todo>>
  BY DEF WorkerStep, Receive, Claim, ClaimError, Finish, FinishError, WorkerExit, BridgeStep,
         reqVars, TypeInv, TypeOK
<1>1. /\ lost \subseteq lost' /\ parked \subseteq parked'
      /\ \A k \in Job : ToBePublished(k) => ToBePublished(k)'
  BY <1>0, LostGrows, WaitingUnchanged
     DEF WorkerStep, Receive, Claim, ClaimError, Finish, FinishError, WorkerExit, BridgeStep,
         Park, ToBePublished
<1>2. CASE Receive(n)
  <2>1. ASSUME NEW k \in Job, Waiting(k)
        PROVE  Waiting(k)' \/ Taken(k)'
    <3>1. Waiting(k)' \/ k = Head(jobChan[n])
      BY <1>0, <1>2, <2>1, WaitingKept DEF Receive
    <3>2. pc'[n] = "claim" /\ cur'[n] = Head(jobChan[n])
      BY <1>2 DEF Receive, TypeInv, TypeOK
    <3> QED
      BY <3>1, <3>2 DEF Taken
  <2>2. ASSUME NEW k \in Job, Taken(k)
        PROVE  Taken(k)'
    BY <1>2, <2>2 DEF Receive, Taken, TypeInv, TypeOK
  <2> QED
    BY <1>0, <1>1, <1>2, <2>1, <2>2 DEF OnItsWay, Supported, Receive
<1>3. CASE Claim(n)
  <2>1. cur[n] \in Job /\ Row(n) \in Rows(Worker)
    BY <1>3, CallTypes DEF Claim
  <2>2. ASSUME NEW k \in Job, k # cur[n], Taken(k)
        PROVE  Taken(k)'
    BY <1>3, <2>2 DEF Claim, Idle, Taken, TypeInv, TypeOK
  <2>3. jobs'[cur[n]].status # "PENDING" /\ jobs'[cur[n]].retry = jobs[cur[n]].retry
    <3>1. \/ jobs'[cur[n]] = ClaimJobCAS(Row(n), Me(n))
          \/ jobs'[cur[n]] = Row(n) /\ Row(n).status # "PENDING"
      BY <1>3, <2>1 DEF Claim, CanClaim, Row, TypeInv, TypeOK
    <3> QED
      BY <1>3, <2>1, <3>1, CallTypes, RowFields DEF Claim, Row
  <2>4. \A k \in Job : k # cur[n] => jobs'[k] = jobs[k]
    BY <1>3 DEF Claim, TypeInv, TypeOK
  <2>5. \A k \in Job : Waiting(k)' = Waiting(k)
    BY <1>3, WaitingUnchanged DEF Claim
  <2> QED
    BY <1>0, <1>1, <2>2, <2>3, <2>4, <2>5 DEF OnItsWay, Supported
<1>4. CASE Finish(n)
  <2>1. cur[n] \in Job /\ Row(n) \in Rows(Worker)
    BY <1>4, CallTypes DEF Finish
  <2>2. ASSUME NEW k \in Job, Taken(k)
        PROVE  Taken(k)'
    BY <1>4, <2>2 DEF Finish, Idle, Taken, TypeInv, TypeOK
  <2>3. \A k \in Job : /\ jobs'[k].retry = jobs[k].retry
                       /\ jobs'[k].status = "PENDING" => jobs[k].status = "PENDING"
    <3>1. \A k \in Job : \/ jobs'[k] = jobs[k]
                         \/ k = cur[n] /\ jobs'[k] = MarkCompleted(Row(n), "local")
      BY <1>4, <2>1 DEF Finish, Row, TypeInv, TypeOK
    <3> QED
      BY <2>1, <3>1, RowFields DEF Row
  <2>4. \A k \in Job : Waiting(k)' = Waiting(k)
    BY <1>4, WaitingUnchanged DEF Finish
  <2> QED
    BY <1>0, <1>1, <2>2, <2>3, <2>4 DEF OnItsWay, Supported
<1>5. CASE WorkerExit(n)
  <2>1. ASSUME NEW k \in Job, Taken(k)
        PROVE  Taken(k)'
    BY <1>5, <2>1 DEF WorkerExit, Taken, TypeInv, TypeOK
  <2>2. \A k \in Job : Waiting(k)' = Waiting(k)
    BY <1>5, WaitingUnchanged DEF WorkerExit
  <2> QED
    BY <1>0, <1>1, <1>5, <2>1, <2>2 DEF OnItsWay, Supported, WorkerExit
<1>6. CASE BridgeStep(n)
  <2>1. \A k \in Job : Waiting(k) => Waiting(k)'
    BY <1>0, <1>6, WaitingKept DEF BridgeStep
  <2>2. UNCHANGED <<jobs, pc, cur>>
    BY <1>6 DEF BridgeStep, workVars
  <2>3. \A k \in Job : Taken(k) => Taken(k)'
    BY <2>2 DEF Taken
  <2> QED
    BY <1>0, <1>1, <2>1, <2>2, <2>3 DEF OnItsWay, Supported
<1>7. CASE ClaimError(n)
  <2>1. cur[n] \in Job /\ Row(n) \in Rows(Worker) /\ Me(n) \in Worker
    BY <1>7, CallTypes DEF ClaimError
  <2>2. ASSUME NEW k \in Job, k # cur[n], Taken(k)
        PROVE  Taken(k)'
    BY <1>7, <2>2 DEF ClaimError, Idle, Taken, TypeInv, TypeOK
  <2>3. /\ jobs'[cur[n]].retry = jobs[cur[n]].retry
        /\ jobs'[cur[n]].status # "PENDING" \/ cur[n] \in parked'
    <3>1. \/ UNCHANGED jobs /\ cur[n] \in parked'
          \/ jobs'[cur[n]] = ClaimJobCAS(Row(n), Me(n))
      BY <1>7, <2>1 DEF ClaimError, Park, Row, TypeInv, TypeOK
    <3> QED
      BY <2>1, <3>1, RowFields DEF Row
  <2>4. \A k \in Job : k # cur[n] => jobs'[k] = jobs[k]
    BY <1>7 DEF ClaimError, TypeInv, TypeOK
  <2>5. \A k \in Job : Waiting(k)' = Waiting(k)
    BY <1>7, WaitingUnchanged DEF ClaimError
  <2> QED
    BY <1>0, <1>1, <2>2, <2>3, <2>4, <2>5 DEF OnItsWay, Supported
<1>8. CASE FinishError(n)
  <2>1. ASSUME NEW k \in Job, Taken(k)
        PROVE  Taken(k)'
    BY <1>8, <2>1 DEF FinishError, Idle, Taken, TypeInv, TypeOK
  <2>2. \A k \in Job : Waiting(k)' = Waiting(k)
    BY <1>8, WaitingUnchanged DEF FinishError
  <2> QED
    BY <1>0, <1>1, <1>8, <2>1, <2>2 DEF OnItsWay, Supported, FinishError
<1> QED
  BY <1>2, <1>3, <1>4, <1>5, <1>6, <1>7, <1>8 DEF WorkerStep

LEMMA SweptOnTheirWay ==
  ASSUME TypeInv, OnItsWay, NEW n \in Node, SweepStep(n)
  PROVE  OnItsWay'
<1>0. QueueTypeOK /\ UNCHANGED <<request, pc, cur>>
  BY DEF SweepStep, StartupReclaim, StartupFetch, StartupFetchError, StartupDone, ScheduledSweep,
         SweepAnswerLost, Republish, workVars, reqVars, TypeInv, TypeOK
<1>1. \A k \in Job : Taken(k)' = Taken(k)
  BY <1>0 DEF Taken
<1>2. ASSUME jobs' = RecoverStalledJobs(jobs), NEW k \in Job
      PROVE  jobs'[k].retry = jobs[k].retry /\ (Stalled(jobs[k]) \/ jobs'[k] = jobs[k])
  <2>1. /\ jobs'[k] = IF Stalled(jobs[k]) THEN Recover(jobs[k]) ELSE jobs[k]
        /\ jobs[k] \in Rows(Worker)
    BY <1>2 DEF RecoverStalledJobs, TypeInv, TypeOK
  <2> QED
    BY <2>1, RowFields
<1>3. CASE StartupReclaim(n)
  <2>1. \A k \in Job : ToBePublished(k)'
    BY <1>3 DEF StartupReclaim, ToBePublished, TypeInv, TypeOK
  <2> QED
    BY <1>2, <1>3, <2>1 DEF StartupReclaim, OnItsWay, Supported
<1>4. CASE StartupFetch(n)
  <2>1. ASSUME NEW k \in Job, jobs[k].status = "PENDING"
        PROVE  ToBePublished(k)'
    BY <1>4, <2>1 DEF StartupFetch, OnItsWay, IsPending, MaxRetry, ToBePublished, TypeInv, TypeOK
  <2> QED
    BY <1>0, <1>4, <2>1 DEF StartupFetch, OnItsWay, Supported
<1>5. CASE StartupDone(n)
  <2>1. ASSUME NEW k \in Job, ToBePublished(k)
        PROVE  ToBePublished(k)'
    BY <1>5, <2>1 DEF StartupDone, ToBePublished, TypeInv, TypeOK
  <2>2. \A k \in Job : Waiting(k)' = Waiting(k) /\ lost' = lost
    BY <1>5, WaitingUnchanged DEF StartupDone
  <2> QED
    BY <1>0, <1>1, <1>5, <2>1, <2>2 DEF StartupDone, OnItsWay, Supported
<1>6. CASE ScheduledSweep(n)
  <2>1. ASSUME NEW k \in Job, ToBePublished(k) \/ Stalled(jobs[k])
        PROVE  ToBePublished(k)'
    BY <1>6, <2>1 DEF ScheduledSweep, SweepDue, ToBePublished, TypeInv, TypeOK
  <2>2. \A k \in Job : Waiting(k)' = Waiting(k) /\ lost' = lost
    BY <1>6, WaitingUnchanged DEF ScheduledSweep
  <2>3. \A k \in Job : k \in parked /\ ~Stalled(jobs[k]) => k \in parked'
    BY <1>6 DEF ScheduledSweep, Unpark
  <2> QED
    BY <1>0, <1>1, <1>2, <1>6, <2>1, <2>2, <2>3 DEF ScheduledSweep, OnItsWay, Supported
<1>7. ASSUME NEW j \in Job, Republish(n, j)
      PROVE  OnItsWay'
  <2>1. ASSUME NEW k \in Job, ToBePublished(k)
        PROVE  ToBePublished(k)' \/ k = j
    BY <1>7, <2>1 DEF Republish, ToBePublished, TypeInv, TypeOK
  <2>2. ASSUME NEW k \in Job, Waiting(k)
        PROVE  Waiting(k)' \/ k \in lost'
    BY <1>0, <1>7, <2>2, WaitingKept DEF Republish
  <2>3. Waiting(j)' \/ j \in lost' \/ j \in parked'
    BY <1>0, <1>7, Published DEF Republish, Park
  <2>4. lost \subseteq lost' /\ parked \subseteq parked' /\ UNCHANGED jobs
    BY <1>7, LostGrows DEF Republish, Park
  <2> QED
    BY <1>0, <1>1, <2>1, <2>2, <2>3, <2>4 DEF OnItsWay, Supported
<1>8. CASE StartupFetchError(n)
  <2>1. ASSUME NEW k \in Job, jobs[k].status = "PENDING"
        PROVE  Supported(k)'
    <3>1. k \in parked' \/ InTransit(k)
      BY <1>8, <2>1 DEF StartupFetchError, Park, OnItsWay, IsPending, MaxRetry
    <3>2. InTransit(k) => (Waiting(k) \/ Taken(k))'
      BY <1>1, <1>8, WaitingUnchanged DEF StartupFetchError, InTransit, Waiting, Taken
    <3> QED
      BY <3>1, <3>2 DEF Supported
  <2> QED
    BY <1>0, <1>8, <2>1 DEF StartupFetchError, OnItsWay
<1>9. CASE SweepAnswerLost(n)
  <2>1. ASSUME NEW k \in Job, Supported(k)
        PROVE  Supported(k)'
    BY <1>9, <2>1, WaitingUnchanged, SupportedKept DEF SweepAnswerLost, Park, workVars
  <2>2. ASSUME NEW k \in Job, Stalled(jobs[k])
        PROVE  Supported(k)'
    BY <1>9, <2>2 DEF SweepAnswerLost, Park, Supported
  <2> QED
    BY <1>0, <1>2, <1>9, <2>1, <2>2 DEF SweepAnswerLost, OnItsWay
<1> QED
  BY <1>3, <1>4, <1>5, <1>6, <1>7, <1>8, <1>9 DEF SweepStep

LEMMA FailedOnTheirWay ==
  ASSUME TypeInv, OnItsWay, NEW n \in Node, ConnectionLost(n) \/ Crash(n) \/ Restart(n)
  PROVE  OnItsWay'
<1>0. QueueTypeOK
  BY DEF TypeInv, TypeOK
<1>1. CASE ConnectionLost(n)
  <2>1. ASSUME NEW k \in Job, Supported(k)
        PROVE  Supported(k)'
    BY <1>0, <1>1, <2>1, WaitingKept, LostGrows, SupportedKept DEF ConnectionLost, workVars
  <2> QED
    BY <1>1, <2>1 DEF ConnectionLost, OnItsWay, reqVars
<1>2. CASE Crash(n)
  <2>1. \A k \in Job : ToBePublished(k)'
    BY <1>2 DEF Crash, ToBePublished, TypeInv, TypeOK
  <2> QED
    BY <1>2, <2>1 DEF Crash, OnItsWay, Supported
<1>3. CASE Restart(n)
  <2>1. \A k \in Job : ToBePublished(k)'
    BY <1>3 DEF Restart, ToBePublished, TypeInv, TypeOK
  <2> QED
    BY <1>3, <2>1 DEF Restart, OnItsWay, Supported
<1> QED
  BY <1>1, <1>2, <1>3

LEMMA OnItsWayStep ==
  ASSUME TypeInv, OnItsWay, [Next]_vars
  PROVE  OnItsWay'
<1>1. CASE UNCHANGED vars
  <2>1. ASSUME NEW k \in Job, Supported(k)
        PROVE  Supported(k)'
    BY <1>1, <2>1, WaitingUnchanged, SupportedKept DEF vars, workVars
  <2> QED
    BY <1>1, <2>1 DEF vars, reqVars, OnItsWay
<1>2. CASE Next
  BY <1>2, RequestsOnTheirWay, SubmittedOnItsWay, LeasedOnTheirWay, WorkedOnTheirWay,
     SweptOnTheirWay, FailedOnTheirWay, FrontAssumption DEF Next
<1> QED
  BY <1>1, <1>2

(* A job answered 202 and still PENDING is queued, received, or about to   *)
(* be published again, unless its message was dropped by the broker or     *)
(* lost with a connection, its claim failed after the acknowledgement, the *)
(* startup fetch failed, or whoever reclaimed it could not publish it or   *)
(* did not learn that it had (rabbitmq.go:141-171, pipeline.go:138-142,    *)
(* 467-519).                                                               *)
THEOREM NoneIsForgotten == Spec => []NothingForgotten
<1>1. Init => TypeInv /\ OnItsWay
  <2> SUFFICES ASSUME Init
               PROVE  TypeInv /\ OnItsWay
    OBVIOUS
  <2>1. \A j \in Job : jobs[j].retry = 0 /\ request[j] = "none"
    BY DEF Init, Absent
  <2> QED
    BY <2>1, InitTypes DEF OnItsWay
<1>2. TypeInv /\ OnItsWay /\ [Next]_vars => TypeInv' /\ OnItsWay'
  BY TypeStep, OnItsWayStep
<1>3. TypeInv /\ OnItsWay => NothingForgotten
  BY DEF OnItsWay, Supported, Waiting, Taken, NothingForgotten, InTransit
<1> QED
  BY <1>1, <1>2, <1>3, PTL DEF Spec

-----------------------------------------------------------------------------
(* Ingest implements JobLifecycle                                          *)

(* The version a working node saw itself write is the row's while the row  *)
(* is still its own: nobody else claims under its id, not even the node    *)
(* after a restart.  And a request that has inserted nothing has no row.   *)
Fenced == \A n \in Node : pc[n] = "work" /\ OwnedBy(Row(n), Me(n)) => stamp[n] = Row(n).version
Known  == \A j \in Job : request[j] \in {"none", "counted"} => jobs[j].status = "ABSENT"

Inv == TypeInv /\ Fenced /\ Known

(* What a step does to Fenced is what it does to one row, or to no worker. *)
LEMMA FencedIfRowsKept ==
  ASSUME Fenced, UNCHANGED <<cur, stamp, epoch>>,
         \A n \in Node : pc'[n] = "work" => pc[n] = "work",
         \A n \in Node : pc[n] = "work" /\ OwnedBy(Row(n), Me(n))' =>
            OwnedBy(Row(n), Me(n)) /\ Row(n)'.version = Row(n).version
  PROVE  Fenced'
BY DEF Fenced

LEMMA KnownStep ==
  ASSUME TypeInv, Known, [Next]_vars
  PROVE  Known'
<1>1. ASSUME NEW j \in Job, (\E n \in Front : CountJobs(j, n) \/ TooManyJobs(j, n))
                            \/ InsertJob(j) \/ InsertError(j) \/ SubmitJob(j)
      PROVE  Known'
  BY <1>1 DEF CountJobs, TooManyJobs, InsertJob, InsertError, SubmitJob, Answer, Known,
              TypeInv, TypeOK
<1>2. ASSUME UNCHANGED request, NEW j \in Job, NEW r, jobs' = [jobs EXCEPT ![j] = r],
             jobs[j].status # "ABSENT"
      PROVE  Known'
  BY <1>2 DEF Known, TypeInv, TypeOK
<1>3. ASSUME NEW j \in Job, LeaseExpires(j) \/ LeaseLapses(j)
      PROVE  Known'
  BY <1>2, <1>3 DEF LeaseExpires, LeaseLapses, reqVars
<1>4. ASSUME NEW n \in Node, WorkerStep(n) \/ BridgeStep(n)
      PROVE  Known'
  <2>1. UNCHANGED request
    BY <1>4 DEF WorkerStep, Receive, Claim, ClaimError, Finish, FinishError, WorkerExit,
                BridgeStep, reqVars
  <2>2. CASE UNCHANGED jobs
    BY <2>1, <2>2 DEF Known
  <2>3. CASE \/ (Claim(n) \/ (ClaimError(n) /\ ~UNCHANGED jobs)) /\ CanClaim(Row(n))
             \/ Finish(n) /\ OwnedBy(Row(n), Me(n))
    <3>1. cur[n] \in Job /\ jobs[cur[n]].status # "ABSENT"
      BY <2>3, CallTypes DEF Claim, ClaimError, Finish, CanClaim, OwnedBy, Row
    <3>2. \E r : jobs' = [jobs EXCEPT ![cur[n]] = r]
      BY <2>3 DEF Claim, ClaimError, Finish
    <3> QED
      BY <1>2, <2>1, <3>1, <3>2
  <2>4. CASE Claim(n) \/ ClaimError(n)
    BY <2>2, <2>3, <2>4 DEF Claim, ClaimError
  <2>5. CASE Finish(n)
    BY <2>2, <2>3, <2>5 DEF Finish
  <2>6. CASE Receive(n) \/ FinishError(n) \/ WorkerExit(n) \/ BridgeStep(n)
    BY <2>2, <2>6 DEF Receive, FinishError, WorkerExit, BridgeStep
  <2> QED
    BY <1>4, <2>4, <2>5, <2>6 DEF WorkerStep
<1>5. ASSUME NEW n \in Node, SweepStep(n)
      PROVE  Known'
  <2>1. UNCHANGED request /\ (UNCHANGED jobs \/ jobs' = RecoverStalledJobs(jobs))
    BY <1>5 DEF SweepStep, StartupReclaim, StartupFetch, StartupFetchError, StartupDone,
                ScheduledSweep, SweepAnswerLost, Republish, reqVars
  <2>2. CASE jobs' = RecoverStalledJobs(jobs)
    BY <2>1, <2>2 DEF RecoverStalledJobs, Stalled, Known, TypeInv, TypeOK
  <2> QED
    BY <2>1, <2>2 DEF Known
<1>6. ASSUME NEW n \in Node, ConnectionLost(n) \/ Crash(n) \/ Restart(n)
      PROVE  Known'
  BY <1>6 DEF ConnectionLost, Crash, Restart, reqVars, Known
<1>7. CASE UNCHANGED vars
  BY <1>7 DEF vars, reqVars, Known
<1> QED
  BY <1>1, <1>3, <1>4, <1>5, <1>6, <1>7, FrontAssumption DEF Next

LEMMA FencedStep ==
  ASSUME TypeInv, Fenced, [Next]_vars
  PROVE  Fenced'
<1>t. jobs \in [Job -> Rows(Worker)]
  BY DEF TypeInv, TypeOK
<1>0. ASSUME UNCHANGED <<jobs, cur, stamp, epoch>>,
             \A n \in Node : pc'[n] = "work" => pc[n] = "work"
      PROVE  Fenced'
  BY <1>0 DEF Fenced, Row, Me
<1>1. ASSUME NEW j \in Job, (\E n \in Front : CountJobs(j, n) \/ TooManyJobs(j, n)) \/ SubmitJob(j)
      PROVE  Fenced'
  BY <1>0, <1>1 DEF CountJobs, TooManyJobs, SubmitJob, workVars
<1>2. ASSUME UNCHANGED <<pc, cur, stamp, epoch>>, NEW j \in Job, NEW r,
             jobs' = [jobs EXCEPT ![j] = r], r.version = jobs[j].version, r.worker = jobs[j].worker,
             r.status \in {"PENDING", jobs[j].status}
      PROVE  Fenced'
  <2>1. ASSUME NEW n \in Node, pc[n] = "work"
        PROVE  /\ cur[n] \in Job
               /\ OwnedBy(Row(n), Me(n))' => OwnedBy(Row(n), Me(n))
               /\ Row(n)'.version = Row(n).version
    <3>1. cur[n] \in Job
      BY <2>1, CallTypes
    <3>2. Row(n)' = IF cur[n] = j THEN r ELSE Row(n)
      BY <1>2, <1>t, <3>1 DEF Row
    <3>3. Me(n)' = Me(n)
      BY <1>2 DEF Me
    <3> QED
      BY <1>2, <3>1, <3>2, <3>3 DEF OwnedBy, Row
  <2> QED
    BY <1>2, <2>1, FencedIfRowsKept
<1>3. ASSUME NEW j \in Job, InsertJob(j) \/ InsertError(j) \/ LeaseExpires(j) \/ LeaseLapses(j)
      PROVE  Fenced'
  <2>0. UNCHANGED workVars
    BY <1>3 DEF InsertJob, InsertError, LeaseExpires, LeaseLapses
  <2>1. PICK r : /\ jobs' = [jobs EXCEPT ![j] = r]
                 /\ r \in {CreateJob(jobs[j]), Lapse(jobs[j]), jobs[j]}
    BY <1>3, <1>t DEF InsertJob, InsertError, LeaseExpires, LeaseLapses
  <2>2. /\ r.version = jobs[j].version /\ r.worker = jobs[j].worker
        /\ r.status \in {"PENDING", jobs[j].status}
    BY <1>t, <2>1 DEF CreateJob, Lapse, Rows
  <2> QED
    BY <1>2, <1>3, <2>0, <2>1, <2>2
       DEF InsertJob, InsertError, LeaseExpires, LeaseLapses, workVars
<1>4. ASSUME NEW n \in Node, Claim(n) \/ ClaimError(n) \/ Finish(n)
      PROVE  Fenced'
  <2>1. cur[n] \in Job /\ Row(n) \in Rows(Worker) /\ Me(n) \in Worker /\ Me(n)' = Me(n)
    BY <1>4, CallTypes DEF Claim, ClaimError, Finish, Me
  <2>2. \A k \in Job : k # cur[n] => jobs'[k] = jobs[k]
    BY <1>4, <1>t DEF Claim, ClaimError, Finish
  <2>3. \/ UNCHANGED jobs
        \/ jobs'[cur[n]].status = "COMPLETED"
        \/ jobs'[cur[n]].worker = Me(n)
    BY <1>4, <1>t, <2>1, RowFields DEF Claim, ClaimError, Finish, Row
  <2>4. ASSUME NEW m \in Node, m # n, pc'[m] = "work", OwnedBy(Row(m), Me(m))'
        PROVE  stamp'[m] = Row(m)'.version
    <3>1. pc[m] = "work" /\ cur'[m] = cur[m] /\ stamp'[m] = stamp[m] /\ Me(m)' = Me(m)
      BY <1>4, <2>4 DEF Claim, ClaimError, Finish, Idle, Me, TypeInv, TypeOK
    <3>2. Me(m) # Me(n)
      BY <2>4 DEF Me
    <3>3. jobs'[cur[m]] = jobs[cur[m]]
      <4>1. cur[m] \in Job
        BY <3>1, CallTypes
      <4>2. jobs'[cur[m]].status = "PROCESSING" /\ jobs'[cur[m]].worker = Me(m)
        BY <2>4, <3>1 DEF OwnedBy, Row
      <4> QED
        BY <2>2, <2>3, <3>2, <4>1, <4>2
    <3>4. Row(m)' = Row(m) /\ OwnedBy(Row(m), Me(m))
      BY <2>4, <3>1, <3>3 DEF OwnedBy, Row
    <3> QED
      BY <3>1, <3>4 DEF Fenced
  <2>5. ASSUME pc'[n] = "work"
        PROVE  stamp'[n] = Row(n)'.version
    BY <1>4, <1>t, <2>1, <2>5, RowFields DEF Claim, ClaimError, Finish, Idle, Row, TypeInv, TypeOK
  <2> QED
    BY <2>4, <2>5 DEF Fenced
<1>5. ASSUME NEW n \in Node, Receive(n) \/ FinishError(n) \/ WorkerExit(n) \/ BridgeStep(n)
      PROVE  Fenced'
  <2>1. ASSUME NEW m \in Node, pc'[m] = "work"
        PROVE  pc[m] = "work" /\ cur'[m] = cur[m] /\ stamp'[m] = stamp[m]
    BY <1>5, <2>1 DEF Receive, FinishError, Idle, WorkerExit, BridgeStep, workVars, TypeInv, TypeOK
  <2>2. UNCHANGED <<jobs, epoch>>
    BY <1>5 DEF Receive, FinishError, WorkerExit, BridgeStep
  <2> QED
    BY <2>1, <2>2 DEF Fenced, Row, Me
<1>6. ASSUME jobs' = RecoverStalledJobs(jobs), UNCHANGED <<pc, cur, stamp, epoch>>
      PROVE  Fenced'
  <2>1. ASSUME NEW n \in Node, pc[n] = "work"
        PROVE  Row(n)' = IF Stalled(Row(n)) THEN Recover(Row(n)) ELSE Row(n)
    BY <1>6, <1>t, <2>1, CallTypes DEF RecoverStalledJobs, Row
  <2>2. ASSUME NEW n \in Node, pc[n] = "work", OwnedBy(Row(n), Me(n))'
        PROVE  Row(n)' = Row(n)
    BY <2>1, <2>2, CallTypes, RowFields DEF OwnedBy
  <2> QED
    BY <1>6, <2>2 DEF Fenced, OwnedBy, Me
<1>7. ASSUME NEW n \in Node, SweepStep(n)
      PROVE  Fenced'
  BY <1>0, <1>6, <1>7 DEF SweepStep, StartupReclaim, StartupFetch, StartupFetchError, StartupDone,
                          ScheduledSweep, SweepAnswerLost, Republish, workVars
<1>8. ASSUME NEW n \in Node, ConnectionLost(n)
      PROVE  Fenced'
  BY <1>0, <1>8 DEF ConnectionLost, workVars
<1>9. ASSUME NEW n \in Node, Crash(n) \/ Restart(n)
      PROVE  Fenced'
  <2>1. ASSUME NEW m \in Node, pc'[m] = "work"
        PROVE  m # n /\ pc[m] = "work"
    BY <1>9, <2>1 DEF Crash, Restart, Idle, workVars, TypeInv, TypeOK, Busy
  <2>2. \A m \in Node : m # n => cur'[m] = cur[m] /\ stamp'[m] = stamp[m] /\ epoch'[m] = epoch[m]
    BY <1>9 DEF Crash, Restart, Idle, workVars, TypeInv, TypeOK
  <2>3. UNCHANGED jobs
    BY <1>9 DEF Crash, Restart
  <2> QED
    BY <2>1, <2>2, <2>3 DEF Fenced, Row, Me
<1>10. CASE UNCHANGED vars
  BY <1>0, <1>10 DEF vars, workVars
<1> QED
  BY <1>1, <1>3, <1>4, <1>5, <1>7, <1>8, <1>9, <1>10, FrontAssumption DEF Next, WorkerStep

LEMMA Invariance == Spec => []Inv
<1>1. Init => Inv
  BY InitTypes DEF Init, Absent, Inv, Fenced, Known
<1>2. Inv /\ [Next]_vars => Inv'
  BY TypeStep, FencedStep, KnownStep DEF Inv
<1> QED
  BY <1>1, <1>2, PTL DEF Spec

LEMMA MapTypes ==
  /\ DOMAIN Phase = Job /\ \A j \in Job : Phase[j] = jobs[j].status
  /\ DOMAIN Round = Job /\ \A j \in Job : Round[j] = jobs[j].version
  /\ DOMAIN Held = Node
BY DEF Phase, Round, Held

LEMMA SameRows ==
  ASSUME \A j \in Job : jobs'[j].status = jobs[j].status /\ jobs'[j].version = jobs[j].version
  PROVE  UNCHANGED <<Phase, Round>>
BY DEF Phase, Round

LEMMA OneRow ==
  ASSUME jobs \in [Job -> Rows(Worker)], NEW j \in Job, NEW r, jobs' = [jobs EXCEPT ![j] = r]
  PROVE  /\ Phase' = [Phase EXCEPT ![j] = r.status]
         /\ Round' = [Round EXCEPT ![j] = r.version]
BY DEF Phase, Round

LEMMA SameHeld ==
  ASSUME \A n \in Node : pc'[n] = "work" <=> pc[n] = "work",
         \A n \in Node : pc[n] = "work" => cur'[n] = cur[n] /\ stamp'[n] = stamp[n]
  PROVE  UNCHANGED Held
BY DEF Held

(* A node lets go of its claim when it crashes or when it is not the owner *)
(* any more.                                                               *)
LEMMA NodeLetsGo ==
  ASSUME TypeInv, NEW n \in Node, Idle(n), UNCHANGED jobs
  PROVE  Lifecycle!LetGo
<1>1. Held' = [m \in Node |-> IF m \in {n} THEN None ELSE Held[m]]
  BY DEF Idle, Held, TypeInv, TypeOK
<1>2. UNCHANGED <<Phase, Round>>
  BY DEF Phase, Round
<1> QED
  BY <1>1, <1>2 DEF Lifecycle!LetGo

LEMMA WorkerMaps ==
  ASSUME TypeInv, Fenced, NEW n \in Node, WorkerStep(n)
  PROVE  Lifecycle!JNext \/ UNCHANGED Lifecycle!jvars
<1>t. jobs \in [Job -> Rows(Worker)]
  BY DEF TypeInv, TypeOK
<1>1. CASE Claim(n) /\ CanClaim(Row(n))
  <2>1. cur[n] \in Job /\ Row(n) \in Rows(Worker) /\ Me(n) \in Worker
    BY <1>1, CallTypes DEF Claim
  <2>2. jobs' = [jobs EXCEPT ![cur[n]] = ClaimJobCAS(Row(n), Me(n))]
    BY <1>1 DEF Claim, Row
  <2>3. /\ Phase' = [Phase EXCEPT ![cur[n]] = "PROCESSING"]
        /\ Round' = [Round EXCEPT ![cur[n]] = Row(n).version + 1]
    <3>1. /\ Phase' = [Phase EXCEPT ![cur[n]] = ClaimJobCAS(Row(n), Me(n)).status]
          /\ Round' = [Round EXCEPT ![cur[n]] = ClaimJobCAS(Row(n), Me(n)).version]
      BY <1>t, <2>1, <2>2, OneRow
    <3>2. /\ ClaimJobCAS(Row(n), Me(n)).status = "PROCESSING"
          /\ ClaimJobCAS(Row(n), Me(n)).version = Row(n).version + 1
      BY <2>1, RowFields
    <3> QED
      BY <3>1, <3>2
  <2>4. Phase[cur[n]] = "PENDING" /\ Round[cur[n]] = Row(n).version
    BY <1>1, <2>1, MapTypes DEF CanClaim, Row
  <2>5. Lifecycle!Advance(cur[n], "PROCESSING")
    BY <2>1, <2>3, <2>4, MapTypes DEF Lifecycle!Advance
  <2>6. Held[n] = None /\ Held' = [Held EXCEPT ![n] = <<cur[n], Round[cur[n]] + 1>>]
    <3>1. /\ pc[n] = "claim" /\ UNCHANGED cur /\ pc' = [pc EXCEPT ![n] = "work"]
          /\ stamp' = [stamp EXCEPT ![n] = Row(n).version + 1]
      BY <1>1 DEF Claim
    <3> QED
      BY <2>4, <3>1 DEF Held, TypeInv, TypeOK
  <2> QED
    BY <2>1, <2>4, <2>5, <2>6 DEF Lifecycle!Take, Lifecycle!JNext
<1>2. CASE Finish(n) /\ OwnedBy(Row(n), Me(n))
  <2>1. cur[n] \in Job /\ Row(n) \in Rows(Worker)
    BY <1>2, CallTypes DEF Finish
  <2>2. jobs' = [jobs EXCEPT ![cur[n]] = MarkCompleted(Row(n), "local")]
    BY <1>2 DEF Finish, Row
  <2>3. /\ Phase' = [Phase EXCEPT ![cur[n]] = "COMPLETED"]
        /\ Round' = [Round EXCEPT ![cur[n]] = Row(n).version + 1]
    <3>1. /\ Phase' = [Phase EXCEPT ![cur[n]] = MarkCompleted(Row(n), "local").status]
          /\ Round' = [Round EXCEPT ![cur[n]] = MarkCompleted(Row(n), "local").version]
      BY <1>t, <2>1, <2>2, OneRow
    <3> QED
      BY <2>1, <3>1, RowFields
  <2>4. Phase[cur[n]] = "PROCESSING" /\ Round[cur[n]] = Row(n).version
    BY <1>2, <2>1, MapTypes DEF OwnedBy, Row
  <2>5. Lifecycle!Advance(cur[n], "COMPLETED")
    BY <2>1, <2>3, <2>4, MapTypes DEF Lifecycle!Advance
  <2>6. Held[n] = <<cur[n], Round[cur[n]]>> /\ Held' = [Held EXCEPT ![n] = None]
    BY <1>2, <2>4 DEF Finish, Idle, Fenced, Held, TypeInv, TypeOK
  <2> QED
    BY <2>1, <2>4, <2>5, <2>6 DEF Lifecycle!Finish, Lifecycle!Finished, Lifecycle!JNext
<1>3. CASE (Claim(n) /\ ~CanClaim(Row(n))) \/ (Finish(n) /\ ~OwnedBy(Row(n), Me(n)))
  <2>1. Idle(n) /\ UNCHANGED jobs
    BY <1>3 DEF Claim, Finish
  <2> QED
    BY <2>1, NodeLetsGo DEF Lifecycle!JNext
<1>4. CASE Receive(n) \/ WorkerExit(n)
  <2>1. UNCHANGED Held
    <3>1. /\ \A m \in Node : pc'[m] = "work" <=> pc[m] = "work"
          /\ \A m \in Node : pc[m] = "work" => cur'[m] = cur[m] /\ stamp'[m] = stamp[m]
      BY <1>4 DEF Receive, WorkerExit, TypeInv, TypeOK
    <3> QED
      BY <3>1, SameHeld
  <2>2. UNCHANGED jobs
    BY <1>4 DEF Receive, WorkerExit
  <2> QED
    BY <2>1, <2>2, SameRows DEF Lifecycle!jvars
<1>5. CASE ClaimError(n) /\ jobs' = [jobs EXCEPT ![cur[n]] = ClaimJobCAS(@, Me(n))]
  <2>1. cur[n] \in Job /\ Row(n) \in Rows(Worker) /\ Me(n) \in Worker /\ CanClaim(Row(n))
    BY <1>5, CallTypes DEF ClaimError
  <2>2. jobs' = [jobs EXCEPT ![cur[n]] = ClaimJobCAS(Row(n), Me(n))]
    BY <1>5 DEF Row
  <2>3. /\ Phase' = [Phase EXCEPT ![cur[n]] = ClaimJobCAS(Row(n), Me(n)).status]
        /\ Round' = [Round EXCEPT ![cur[n]] = ClaimJobCAS(Row(n), Me(n)).version]
    BY <1>t, <2>1, <2>2, OneRow
  <2>4. /\ ClaimJobCAS(Row(n), Me(n)).status = "PROCESSING"
        /\ ClaimJobCAS(Row(n), Me(n)).version = Row(n).version + 1
    BY <2>1, RowFields
  <2>5. Phase[cur[n]] = "PENDING" /\ Round[cur[n]] = Row(n).version
    BY <2>1, MapTypes DEF CanClaim, Row
  <2>6. Lifecycle!Advance(cur[n], "PROCESSING")
    BY <2>1, <2>3, <2>4, <2>5, MapTypes DEF Lifecycle!Advance
  <2>7. UNCHANGED Held
    BY <1>5 DEF ClaimError, Idle, Held, TypeInv, TypeOK
  <2> QED
    BY <2>1, <2>5, <2>6, <2>7 DEF Lifecycle!TakeUnseen, Lifecycle!JNext
<1>6. CASE (ClaimError(n) /\ UNCHANGED jobs) \/ FinishError(n)
  BY <1>6, NodeLetsGo DEF ClaimError, FinishError, Lifecycle!JNext
<1>7. CASE ClaimError(n)
  BY <1>5, <1>6, <1>7 DEF ClaimError
<1> QED
  BY <1>1, <1>2, <1>3, <1>4, <1>6, <1>7 DEF WorkerStep

LEMMA JobMaps ==
  ASSUME TypeInv, Known, NEW j \in Job,
         InsertJob(j) \/ InsertError(j) \/ LeaseExpires(j) \/ LeaseLapses(j)
  PROVE  Lifecycle!JNext \/ UNCHANGED Lifecycle!jvars
<1>t. jobs \in [Job -> Rows(Worker)] /\ jobs[j] \in Rows(Worker)
  BY DEF TypeInv, TypeOK
<1>h. UNCHANGED Held
  BY DEF InsertJob, InsertError, LeaseExpires, LeaseLapses, workVars, Held
<1>1. CASE LeaseExpires(j) \/ LeaseLapses(j)
  <2>1. \A i \in Job : jobs'[i].status = jobs[i].status /\ jobs'[i].version = jobs[i].version
    BY <1>1, <1>t DEF LeaseExpires, LeaseLapses, Lapse, Rows
  <2> QED
    BY <1>h, <2>1, SameRows DEF Lifecycle!jvars
<1>2. CASE InsertJob(j) \/ (InsertError(j) /\ ~UNCHANGED jobs)
  <2>1. jobs' = [jobs EXCEPT ![j] = CreateJob(jobs[j])] /\ Phase[j] = "ABSENT"
    BY <1>2, MapTypes DEF InsertJob, InsertError, Known
  <2>2. CreateJob(jobs[j]).status = "PENDING" /\ CreateJob(jobs[j]).version = jobs[j].version
    BY <1>t DEF CreateJob, Rows
  <2>3. Phase' = [Phase EXCEPT ![j] = "PENDING"]
    <3>1. Phase' = [Phase EXCEPT ![j] = CreateJob(jobs[j]).status]
      BY <1>t, <2>1, OneRow
    <3> QED
      BY <2>2, <3>1
  <2>4. UNCHANGED Round
    BY <1>t, <2>1, <2>2 DEF Round
  <2>5. Lifecycle!Submit(j)
    BY <1>h, <2>1, <2>3, <2>4 DEF Lifecycle!Submit
  <2> QED
    BY <2>5 DEF Lifecycle!JNext
<1>3. CASE UNCHANGED jobs
  BY <1>h, <1>3, SameRows DEF Lifecycle!jvars
<1> QED
  BY <1>1, <1>2, <1>3

LEMMA RecoveryMaps ==
  ASSUME TypeInv, jobs' = RecoverStalledJobs(jobs), UNCHANGED workVars
  PROVE  Lifecycle!Release
<1> DEFINE R == {j \in Job : Stalled(jobs[j])}
<1>t. jobs \in [Job -> Rows(Worker)]
  BY DEF TypeInv, TypeOK
<1>1. R \in SUBSET {j \in Job : Phase[j] = "PROCESSING"}
  BY MapTypes DEF Stalled
<1>2. \A j \in Job : /\ Recover(jobs[j]).status = "PENDING"
                     /\ Recover(jobs[j]).version = jobs[j].version + 1
  BY <1>t, RowFields
<1>3. jobs' = [j \in Job |-> IF j \in R THEN Recover(jobs[j]) ELSE jobs[j]]
  BY <1>t DEF RecoverStalledJobs
<1>4. Phase' = [j \in Job |-> IF j \in R THEN "PENDING" ELSE Phase[j]]
  BY <1>2, <1>3 DEF Phase
<1>5. Round' = [j \in Job |-> IF j \in R THEN Round[j] + 1 ELSE Round[j]]
  BY <1>2, <1>3 DEF Round
<1>6. UNCHANGED Held
  BY DEF workVars, Held
<1> QED
  BY <1>1, <1>4, <1>5, <1>6 DEF Lifecycle!Release

LEMMA StepMaps ==
  ASSUME Inv, [Next]_vars
  PROVE  Lifecycle!JNext \/ UNCHANGED Lifecycle!jvars
<1>0. TypeInv /\ Fenced /\ Known
  BY DEF Inv
<1>1. ASSUME UNCHANGED <<jobs, workVars>>
      PROVE  UNCHANGED Lifecycle!jvars
  BY <1>1 DEF workVars, Phase, Round, Held, Lifecycle!jvars
<1>2. ASSUME NEW j \in Job, (\E n \in Front : CountJobs(j, n) \/ TooManyJobs(j, n)) \/ SubmitJob(j)
      PROVE  UNCHANGED Lifecycle!jvars
  BY <1>1, <1>2 DEF CountJobs, TooManyJobs, SubmitJob
<1>3. ASSUME NEW n \in Node, BridgeStep(n) \/ ConnectionLost(n) \/ Restart(n)
      PROVE  UNCHANGED Lifecycle!jvars
  BY <1>1, <1>3 DEF BridgeStep, ConnectionLost, Restart
<1>4. ASSUME NEW n \in Node, Crash(n)
      PROVE  Lifecycle!JNext
  BY <1>0, <1>4, NodeLetsGo DEF Crash, Lifecycle!JNext
<1>5. ASSUME NEW n \in Node, SweepStep(n)
      PROVE  Lifecycle!JNext \/ UNCHANGED Lifecycle!jvars
  <2>1. UNCHANGED workVars /\ (UNCHANGED jobs \/ jobs' = RecoverStalledJobs(jobs))
    BY <1>5 DEF SweepStep, StartupReclaim, StartupFetch, StartupFetchError, StartupDone,
                ScheduledSweep, SweepAnswerLost, Republish
  <2> QED
    BY <1>0, <1>1, <2>1, RecoveryMaps DEF Lifecycle!JNext
<1>6. CASE UNCHANGED vars
  BY <1>1, <1>6 DEF vars
<1> QED
  BY <1>0, <1>2, <1>3, <1>4, <1>5, <1>6, WorkerMaps, JobMaps, FrontAssumption DEF Next

(* Any number of nodes over one broker, with its redeliveries and their    *)
(* crashes, implements the job life cycle (job_repo.go:52-70,              *)
(* rabbitmq.go:123-173).                                                   *)
THEOREM NodesImplementLifecycle == Spec => ImplementsLifecycle
<1>1. Init => Lifecycle!JInit
  BY DEF Init, Absent, Phase, Round, Held, Lifecycle!JInit
<1>2. Inv /\ [Next]_vars => [Lifecycle!JNext]_(Lifecycle!jvars)
  BY StepMaps
<1> QED
  BY <1>1, <1>2, Invariance, PTL DEF Spec, ImplementsLifecycle, Lifecycle!JSpec
=============================================================================
