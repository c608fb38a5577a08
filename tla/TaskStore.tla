----------------------------- MODULE TaskStore -----------------------------
(***************************************************************************)
(* One row of the MySQL table review_task and the transactions of          *)
(* internal/store that change it.  Every transaction takes the row with    *)
(* SELECT ... FOR UPDATE, so each is one atomic function from a row to a   *)
(* row.  A transaction whose guard fails returns ErrTaskTransitionFailed   *)
(* (or "not claimed") and leaves the row as it was.                        *)
(*                                                                         *)
(* Columns that no guard reads (repo, error, max_attempts, the audit log)  *)
(* are left out.  The SQL NULL of next_retry_at is 0: the code only asks   *)
(* whether the column is NULL or not after the present.                    *)
(***************************************************************************)
EXTENDS Naturals

CONSTANT MaxAttempts     \* REVIEW_MAX_ATTEMPTS, at least 1

ASSUME MaxAttemptsAssumption == MaxAttempts \in Nat \ {0}

Status == {"received", "queued", "running", "retrying",
           "done", "failed", "dead_letter", "superseded"}

\* "absent": no webhook has inserted the row yet.
Row == [status : Status \cup {"absent"}, attempts : Nat, retryAt : Nat]

NoRow == [status |-> "absent", attempts |-> 0, retryAt |-> 0]

-----------------------------------------------------------------------------
(* INSERT ... ON DUPLICATE KEY: the first delivery creates the row.        *)
CreateTask == [status |-> "received", attempts |-> 0, retryAt |-> 0]

(* Superseded is sticky and is entered from running only; every other      *)
(* target overwrites whatever status the row has.                          *)
CanUpdateStatus(r, status) ==
  /\ r.status = "superseded" => status = "superseded"
  /\ status = "superseded" => r.status \in {"running", "superseded"}

UpdateTaskStatus(r, status) ==
  IF CanUpdateStatus(r, status)
    THEN [r EXCEPT !.status = status,
                   !.retryAt = IF status = "superseded" THEN 0 ELSE @]
    ELSE r

\* Mutant: the claim looks at next_retry_at and no longer at the status.
CanClaimDue(r, attempt, now) == r.retryAt <= now

(* The atomic claim: a queued or due row, or a running row that an earlier *)
(* attempt left behind.                                                    *)
CanClaim(r, attempt, now) ==
  \/ r.status \in {"queued", "retrying"} /\ r.retryAt <= now
  \/ r.status = "running" /\ attempt > r.attempts

ClaimTask(r, attempt) ==
  [r EXCEPT !.status = "running",
            !.attempts = IF attempt > @ THEN attempt ELSE @]

\* Mutants: the mark's guard is forgotten, or expects the wrong status.
CanMarkAny(r)    == TRUE
CanMarkQueued(r) == r.status = "queued"

CanMark(r) == r.status = "running"

MarkTaskRetry(r, attempt, at) ==
  IF CanMark(r)
    THEN [r EXCEPT !.status = "retrying", !.attempts = attempt, !.retryAt = at]
    ELSE r

MarkTaskDeadLetter(r, attempt) ==
  IF CanMark(r)
    THEN [r EXCEPT !.status = "dead_letter", !.attempts = attempt, !.retryAt = 0]
    ELSE r

CanRequeue(r) == r.status = "dead_letter"

\* Mutant: attempt_count is not reset.
RequeueKeepingAttempts(r) == [r EXCEPT !.status = "queued", !.retryAt = 0]

RequeueTask(r) == [r EXCEPT !.status = "queued", !.attempts = 0, !.retryAt = 0]

(* Recording the GitHub review id completes the task in the same           *)
(* transaction.                                                            *)
CanMarkDelivered(r) == r.status \in {"running", "done"}

\* Mutant: a status no other part of the program knows.
MarkReviewPosted(r) == [r EXCEPT !.status = "posted", !.retryAt = 0]

MarkReviewDelivered(r) == [r EXCEPT !.status = "done", !.retryAt = 0]
=============================================================================
