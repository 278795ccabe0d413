------------------------------ MODULE JobRepo ------------------------------
(***************************************************************************)
(* The jobs table as internal/model/job_repo.go reads and writes it.  Each *)
(* SQL statement is a guard (its WHERE clause) and an effect (its SET      *)
(* list) on one row; PostgreSQL runs a statement atomically, so the module *)
(* that uses these operators makes each of them one step.                  *)
(*                                                                         *)
(* A row keeps the columns that decide what happens to a job.  Timestamps, *)
(* request parameters and the progress counters are left out: no guard of  *)
(* any statement reads them.  lease_expiry is abstracted to whether it is  *)
(* unset, in the future, or in the past.                                   *)
(***************************************************************************)
EXTENDS Naturals

CONSTANT None       \* SQL NULL, and the absence of a job or worker

MaxRetry == 5       \* the maxRetry argument of both recovery queries

(***************************************************************************)
(* "ABSENT" and "DELETED" are the two ways of having no row: the id was    *)
(* never inserted, or its row was deleted.  An id is a fresh UUID, so a    *)
(* deleted id never comes back.                                            *)
(***************************************************************************)
Terminal == {"COMPLETED", "FAILED"}
HasRow   == {"PENDING", "PROCESSING"} \cup Terminal
Status   == HasRow \cup {"ABSENT", "DELETED"}

Lease == {"none", "live", "expired"}
Url   == {"none", "local", "s3"}

Rows(Worker) == [status  : Status,
                 worker  : Worker \cup {None},
                 lease   : Lease,
                 version : Nat,
                 retry   : Nat,
                 url     : Url]

Absent == [status |-> "ABSENT", worker |-> None, lease |-> "none",
           version |-> 0, retry |-> 0, url |-> "none"]

(* INSERT ... version = 0, status = PENDING *)
CreateJob(r) == [r EXCEPT !.status = "PENDING"]

(* UPDATE ... WHERE status = 'PENDING' *)
CanClaimStalled(r)   ==        \* mutant: a PROCESSING row can be claimed as well
  r.status \in {"PENDING", "PROCESSING"}
CanClaim(r)          == r.status = "PENDING"
ClaimWithoutLease(r, w) ==     \* mutant: lease_expiry missing from the SET list
  [r EXCEPT !.status = "PROCESSING", !.worker = w, !.version = @ + 1]
ClaimJobCAS(r, w)    == [r EXCEPT !.status = "PROCESSING", !.worker = w,
                                  !.lease = "live", !.version = @ + 1]

(* The WHERE clause ExtendLease, MarkCompleted and MarkFailed share: the   *)
(* lease and the version are not in it.                                    *)
OwnedByAnyWorker(r, w) ==      \* mutant: worker_id missing from the WHERE clause
  r.status = "PROCESSING"
OwnedBy(r, w)        == r.status = "PROCESSING" /\ r.worker = w
VerifyOwnership(r, w) == OwnedBy(r, w) /\ r.lease # "expired"

ExtendLease(r)       == [r EXCEPT !.lease = "live"]
MarkCompleted(r, u)  == [r EXCEPT !.status = "COMPLETED", !.url = u,
                                  !.version = @ + 1]
MarkFailedRetries(r) ==        \* mutant: a failure puts the job back
  [r EXCEPT !.status = "PENDING", !.retry = @ + 1]
MarkFailed(r)        == [r EXCEPT !.status = "FAILED", !.retry = @ + 1,
                                  !.version = @ + 1]

(* The clock passes lease_expiry. *)
Lapse(r)             == [r EXCEPT !.lease = "expired"]

(* RecoverStalledJobs: the retry counter is read and left as it is *)
StalledInAnyState(r) ==        \* mutant: status missing from the WHERE clause
  r.lease = "expired" /\ r.retry < MaxRetry
Stalled(r)           == /\ r.status = "PROCESSING"
                        /\ r.lease = "expired"
                        /\ r.retry < MaxRetry
RecoverKeepsVersion(r) ==      \* mutant: the version is not advanced
  [r EXCEPT !.status = "PENDING", !.worker = None, !.lease = "none"]
Recover(r)           == [r EXCEPT !.status = "PENDING", !.worker = None,
                                  !.lease = "none", !.version = @ + 1]
RecoverStalledJobs(jobs) ==
  [j \in DOMAIN jobs |-> IF Stalled(jobs[j]) THEN Recover(jobs[j]) ELSE jobs[j]]

(* GetPendingJobs *)
IsPending(r)         == r.status = "PENDING" /\ r.retry < MaxRetry

(* DELETE ... WHERE id; the version the row had is kept as history *)
DeleteJob(r)         == [Absent EXCEPT !.status = "DELETED", !.version = r.version]
=============================================================================
