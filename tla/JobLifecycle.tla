---------------------------- MODULE JobLifecycle ----------------------------
(***************************************************************************)
(* What the job table and the worker pool promise together, whatever the   *)
(* number of processes, threads and queues behind them: a job is worked on *)
(* under a claim, a newer claim or a recovery makes an older claim void,   *)
(* only the claim in force can finish the job, and a finished job changes  *)
(* no more (until it is deleted).                                          *)
(*                                                                         *)
(* The round of a job counts the changes of its phase.  A claim is the     *)
(* pair of a job and the round it opened; a slot holds at most one.        *)
(***************************************************************************)
EXTENDS Naturals

CONSTANTS Job, Slot, None

VARIABLES phase, round, claim

jvars == <<phase, round, claim>>

Finished == {"COMPLETED", "FAILED"}

JInit == /\ phase = [j \in Job |-> "ABSENT"]
         /\ round = [j \in Job |-> 0]
         /\ claim = [s \in Slot |-> None]

Advance(j, p) == /\ phase' = [phase EXCEPT ![j] = p]
                 /\ round' = [round EXCEPT ![j] = @ + 1]

Submit(j) == /\ phase[j] = "ABSENT"
             /\ phase' = [phase EXCEPT ![j] = "PENDING"]
             /\ UNCHANGED <<round, claim>>

(* A claim is taken by one idle slot. *)
Take(s, j) == /\ phase[j] = "PENDING" /\ claim[s] = None
              /\ Advance(j, "PROCESSING")
              /\ claim' = [claim EXCEPT ![s] = <<j, round[j] + 1>>]

(* The claim is recorded, and the claimant never learns of it. *)
TakeUnseen(j) == /\ phase[j] = "PENDING"
                 /\ Advance(j, "PROCESSING")
                 /\ UNCHANGED claim

Finish(s, j) == /\ phase[j] = "PROCESSING" /\ claim[s] = <<j, round[j]>>
                /\ \E p \in Finished : Advance(j, p)
                /\ claim' = [claim EXCEPT ![s] = None]

(* Stalled jobs go back to PENDING together. *)
Release == \E R \in SUBSET {j \in Job : phase[j] = "PROCESSING"} :
             /\ phase' = [j \in Job |-> IF j \in R THEN "PENDING" ELSE phase[j]]
             /\ round' = [j \in Job |-> IF j \in R THEN round[j] + 1 ELSE round[j]]
             /\ UNCHANGED claim

(* A slot gives its claim up, or a crash takes it from every slot. *)
LetGo == \E S \in SUBSET Slot :
           /\ claim' = [s \in Slot |-> IF s \in S THEN None ELSE claim[s]]
           /\ UNCHANGED <<phase, round>>

Remove(j) == /\ phase[j] # "ABSENT"
             /\ phase' = [phase EXCEPT ![j] = "DELETED"]
             /\ UNCHANGED <<round, claim>>

JNext == \/ \E j \in Job : Submit(j) \/ TakeUnseen(j) \/ Remove(j)
         \/ \E s \in Slot, j \in Job : Take(s, j) \/ Finish(s, j)
         \/ Release
         \/ LetGo

JSpec == JInit /\ [][JNext]_jvars
=============================================================================
