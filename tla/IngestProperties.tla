-------------------------- MODULE IngestProperties --------------------------
(***************************************************************************)
(* What the nodes guarantee together over RabbitMQ, the fairness their     *)
(* scheduling justifies, and the refinement of JobLifecycle.               *)
(***************************************************************************)
EXTENDS Ingest

(* Every variable keeps its type; neither queue exceeds its bound. *)
TypeOK ==
  /\ QueueTypeOK
  /\ jobs    \in [Job -> Rows(Worker)]
  /\ life    \in [Node -> {"reclaim", "fetch", "publish", "serving", "down"}]
  /\ epoch   \in [Node -> Nat]
  /\ todo    \in [Node -> SUBSET Job]
  /\ pc      \in [Node -> {"idle", "claim", "work", "exited"}]
  /\ cur     \in [Node -> Job \cup {None}]
  /\ stamp   \in [Node -> Nat]
  /\ request \in [Job -> {"none", "counted", "inserted", "accepted", "refused"}]
  /\ at      \in [Job -> Node \cup {None}]
  /\ crowd   \in Nat
  /\ parked \subseteq Job
  /\ faults  \in Nat
  /\ errors  \in Nat

-----------------------------------------------------------------------------
(* Safety *)

ToBePublished(j) == \E n \in Node : j \in todo[n] \/ life[n] \in {"down", "reclaim", "fetch"}

(* A job answered 202 and still PENDING is on its way to some worker, or a *)
(* node that crashed will find it when it starts again -- unless its       *)
(* message was pushed out of a full broker queue or lost with a            *)
(* connection (lost), or its claim failed after the message was            *)
(* acknowledged, the startup fetch that should have published it failed,   *)
(* or the node that reclaimed it could not publish it or never learnt that *)
(* it had (parked).  Nothing else costs a job its place, not even a crash  *)
(* between acknowledgement and claim (rabbitmq.go:164-166,                 *)
(* pipeline.go:138-142, 467-519).                                          *)
NothingForgotten ==
  \A j \in Job : request[j] = "accepted" /\ jobs[j].status = "PENDING" =>
    InTransit(j) \/ ToBePublished(j) \/ j \in lost \cup parked

(* Counting before inserting lets a user exceed the limit, but by no more  *)
(* than the requests that were between the two at the same time            *)
(* (job_handler.go:85-96, 151).                                            *)
AdmissionBounded == Cardinality(Active) <= Limit - 1 + crowd

-----------------------------------------------------------------------------
(* Refinement: the row version is the round, a working node holds          *)
(* <<job, version it wrote>>.                                              *)

Phase == [j \in Job |-> jobs[j].status]
Round == [j \in Job |-> jobs[j].version]
Held  == [n \in Node |-> IF pc[n] = "work" THEN <<cur[n], stamp[n]>> ELSE None]

Lifecycle == INSTANCE JobLifecycle WITH Slot <- Node, phase <- Phase, round <- Round,
                                        claim <- Held

(* However often the broker delivers a job, and to however many nodes, the *)
(* nodes together only do what the job life cycle allows: duplicates are   *)
(* never worked on (job_repo.go:49-65).                                    *)
ImplementsLifecycle == Lifecycle!JSpec

-----------------------------------------------------------------------------
(* Fairness.  Goroutines run, the broker delivers, statements return,      *)
(* leases end and somebody restarts a crashed node.  Nothing is assumed    *)
(* about clients or faults.                                                *)

Fairness ==
  /\ \A n \in Node : WF_vars(WorkerStep(n)) /\ WF_vars(BridgeStep(n)) /\ WF_vars(SweepStep(n))
  /\ WF_vars(\E n \in Node : Restart(n))
  /\ WF_vars(\E j \in Job : InsertJob(j) \/ SubmitJob(j))
  /\ WF_vars(\E j \in Job : LeaseExpires(j))

FairSpec == Spec /\ Fairness

(* A job answered 202 is finished, through crashes, redeliveries and lost  *)
(* connections, unless one of the ways to lose it named above happens to   *)
(* it or no node has a connection left (rabbitmq.go:164-166,               *)
(* pipeline.go:467-519).                                                   *)
AcceptedFinishes ==
  \A j \in Job :
    request[j] = "accepted" ~>
      \/ jobs[j].status \in Terminal
      \/ j \in lost \cup parked
      \/ \A n \in Node : link[n] \in {"cut", "closed"}

-----------------------------------------------------------------------------
(* What the repository says and the code does not do.                      *)

(* queue.go:19, "Returns error if queue is full (backpressure)", and       *)
(* rabbitmq.go:65, "bounded queue (backpressure)": a job that was accepted *)
(* is delivered.                                                           *)
AcceptedIsDelivered ==
  \A j \in Job : request[j] = "accepted" ~> jobs[j].status # "PENDING"
=============================================================================
