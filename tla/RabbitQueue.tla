----------------------------- MODULE RabbitQueue -----------------------------
(***************************************************************************)
(* The RabbitMQ job queue (internal/queue/rabbitmq.go) of several nodes:   *)
(* one durable broker queue, and in each node the goroutine that bridges   *)
(* deliveries into the Go channel its workers read.                        *)
(*                                                                         *)
(* The broker is modelled from what the code asks of it: a queue bounded   *)
(* by x-max-length with no overflow policy, persistent messages, manual    *)
(* acknowledgement, a prefetch of one, publishes without confirms.         *)
(***************************************************************************)
EXTENDS Naturals, Sequences, FiniteSets, Functions

CONSTANTS Job, Node, None,
          BufferSize          \* x-max-length, and the capacity of jobChan

ASSUME BufferAssumption == BufferSize \in Nat \ {0}
ASSUME NodeAssumption   == None \notin Job /\ None \notin Node

VARIABLES
  ready,     \* messages in the broker that no consumer has
  link,      \* per node, its AMQP connection and its bridge goroutine
  held,      \* per node, the delivery its bridge has in hand
  sent,      \* per node, that delivery is already in jobChan
  jobChan,   \* per node, the channel its workers read
  lost       \* jobs of which the queue lost a message it had accepted (history)

queueVars == <<ready, link, held, sent, jobChan, lost>>

\* up: consuming; cut: connection lost; closed: jobChan closed; down: no process
Link == {"up", "cut", "closed", "down"}

(* Neither queue exceeds its bound, and only a delivery in hand is sent.   *)
QueueTypeOK ==
  /\ ready   \in Seq(Job) /\ Len(ready) <= BufferSize
  /\ link    \in [Node -> Link]
  /\ held    \in [Node -> Job \cup {None}]
  /\ sent    \in [Node -> BOOLEAN]
  /\ jobChan \in [Node -> Seq(Job)] /\ \A n \in Node : Len(jobChan[n]) <= BufferSize
  /\ lost    \subseteq Job
  /\ \A n \in Node : sent[n] => held[n] # None

QueueInit ==
  /\ ready   = << >>
  /\ link    = [n \in Node |-> "up"]
  /\ held    = [n \in Node |-> None]
  /\ sent    = [n \in Node |-> FALSE]
  /\ jobChan = [n \in Node |-> << >>]
  /\ lost    = {}

(* A message beyond x-max-length costs the oldest one (drop-head).         *)
KeptAll(q) == q                \* mutant: no x-max-length
Kept(q)    == IF Len(q) > BufferSize THEN Tail(q) ELSE q
Dropped(q) == IF Len(q) > BufferSize THEN {Head(q)} ELSE {}

(* What a consumer has not acknowledged goes back to where it was. *)
Returned(n) == IF link[n] = "up" /\ held[n] # None THEN <<held[n]>> \o ready ELSE ready

(* The broker serves the consumers that wait before it takes a message. *)
Quiet == ready = << >> \/ \A n \in Node : link[n] # "up" \/ held[n] # None

Publish(n, j) ==
  /\ link[n] = "up" /\ Quiet
  /\ ready' = Kept(Append(ready, j))
  /\ lost'  = lost \cup Dropped(Append(ready, j))
  /\ UNCHANGED <<link, held, sent, jobChan>>

(* Publishing on a connection that is gone is an error. *)
PublishError(n) == link[n] \in {"cut", "closed"} /\ UNCHANGED queueVars

(* The connection breaks under a publish that was written to it: no error, *)
(* no confirm, no message.                                                 *)
PublishUnsent(n, j) ==
  /\ link[n] = "up"
  /\ link'  = [link EXCEPT ![n] = "cut"]
  /\ ready' = Kept(Returned(n))
  /\ lost'  = lost \cup Dropped(Returned(n)) \cup {j}
  /\ UNCHANGED <<held, sent, jobChan>>

(* The bridge goroutine of Consume *)

Deliver(n) ==
  /\ link[n] = "up" /\ held[n] = None /\ ready # << >>
  /\ held'  = [held EXCEPT ![n] = Head(ready)]
  /\ ready' = Tail(ready)
  /\ UNCHANGED <<link, sent, jobChan, lost>>

(* q.jobChan <- jobID blocks while the channel is full. *)
Forward(n) ==
  /\ held[n] # None /\ ~sent[n] /\ Len(jobChan[n]) < BufferSize
  /\ jobChan' = [jobChan EXCEPT ![n] = Append(@, held[n])]
  /\ sent'    = [sent EXCEPT ![n] = TRUE]
  /\ UNCHANGED <<ready, link, held, lost>>

AckForgotten(n) ==             \* mutant: no d.Ack after forwarding
  /\ sent[n] /\ link[n] # "up"
  /\ held'  = [held EXCEPT ![n] = None]
  /\ sent'  = [sent EXCEPT ![n] = FALSE]
  /\ UNCHANGED <<ready, link, jobChan, lost>>

(* On a lost connection the acknowledgement fails, which nobody looks at.  *)
Ack(n) ==
  /\ sent[n]
  /\ held'  = [held EXCEPT ![n] = None]
  /\ sent'  = [sent EXCEPT ![n] = FALSE]
  /\ UNCHANGED <<ready, link, jobChan, lost>>

(* The deliveries have ended: the bridge closes jobChan and returns. *)
CloseChan(n) ==
  /\ link[n] = "cut" /\ held[n] = None
  /\ link' = [link EXCEPT ![n] = "closed"]
  /\ UNCHANGED <<ready, held, sent, jobChan, lost>>

Bridge(n) == Deliver(n) \/ Forward(n) \/ Ack(n) \/ CloseChan(n)

(* A worker takes the next id. *)
Take(n) ==
  /\ jobChan[n] # << >>
  /\ jobChan' = [jobChan EXCEPT ![n] = Tail(@)]
  /\ UNCHANGED <<ready, link, held, sent, lost>>

(* The connection of a running node is lost; nothing in the code reopens it. *)
Cut(n) ==
  /\ link[n] = "up"
  /\ link' = [link EXCEPT ![n] = "cut"]
  /\ ready' = Kept(Returned(n))
  /\ lost'  = lost \cup Dropped(Returned(n))
  /\ UNCHANGED <<held, sent, jobChan>>

(* The process ends, and with it its channel and its connection. *)
Leave(n) ==
  /\ link' = [link EXCEPT ![n] = "down"]
  /\ ready'   = Kept(Returned(n))
  /\ lost'    = lost \cup Dropped(Returned(n))
  /\ held'    = [held EXCEPT ![n] = None]
  /\ sent'    = [sent EXCEPT ![n] = FALSE]
  /\ jobChan' = [jobChan EXCEPT ![n] = << >>]

Connect(n) ==
  /\ link' = [link EXCEPT ![n] = "up"]
  /\ UNCHANGED <<ready, held, sent, jobChan, lost>>
=============================================================================
