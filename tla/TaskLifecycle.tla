--------------------------- MODULE TaskLifecycle ---------------------------
(***************************************************************************)
(* What the task table promises to its readers (the admin pages, the audit *)
(* log, the recovery loop), whatever the queue, the workers and the        *)
(* crashes do: which status may follow which, how the attempt count moves  *)
(* with it, and when a task counts as delivered.  ReviewPipeline           *)
(* implements this specification.                                          *)
(***************************************************************************)
EXTENDS Naturals

CONSTANTS Tasks, MaxAttempts

ASSUME LifecycleAssumption == MaxAttempts \in Nat \ {0}

Statuses == {"absent", "received", "queued", "running", "retrying",
             "done", "failed", "dead_letter", "superseded"}

VARIABLES status, attempts, delivered

lifecycle == <<status, attempts, delivered>>

Move(t, from, to) ==
  /\ status[t] \in from
  /\ status' = [status EXCEPT ![t] = to]

Count(t, n) == attempts' = [attempts EXCEPT ![t] = n]

-----------------------------------------------------------------------------
Create(t)  == Move(t, {"absent"}, "received") /\ UNCHANGED <<attempts, delivered>>

\* The webhook's own update may find that a worker has already given up on the
\* row: a task whose repo does not parse is never claimed, only failed.
Enqueue(t) ==
  /\ Move(t, {"received", "failed"}, "queued")
  /\ attempts[t] = 0 /\ t \notin delivered
  /\ UNCHANGED <<attempts, delivered>>

\* An execution starts, or a later attempt takes over a running row.
Start(t) ==
  /\ Move(t, {"queued", "retrying", "running"}, "running")
  /\ \E n \in attempts[t] .. MaxAttempts - 1 :
       Count(t, n) /\ (status[t] = "running" => n > attempts[t])
  /\ UNCHANGED delivered

Backoff(t) ==
  /\ Move(t, {"running"}, "retrying")
  /\ \E n \in 1 .. MaxAttempts - 1 : Count(t, n)
  /\ UNCHANGED delivered

\* Mutant: the message of one attempt too many is counted too.
DeadLetteredLate(t) ==
  /\ Move(t, {"running"}, "dead_letter")
  /\ \E n \in 1 .. MaxAttempts + 1 : Count(t, n)
  /\ UNCHANGED delivered

DeadLettered(t) ==
  /\ Move(t, {"running"}, "dead_letter")
  /\ \E n \in 1 .. MaxAttempts : Count(t, n)
  /\ UNCHANGED delivered

\* GitHub has the review: recorded once, while the task runs.
Delivered(t) ==
  /\ Move(t, {"running"}, "done")
  /\ delivered' = delivered \cup {t}
  /\ UNCHANGED attempts

\* A delivered task may lose its status to a late "failed" and regain it.
Confirm(t) ==
  /\ t \in delivered
  /\ Move(t, {"failed"}, "done")
  /\ UNCHANGED <<attempts, delivered>>

Supersede(t) == Move(t, {"running"}, "superseded") /\ UNCHANGED <<attempts, delivered>>

Fail(t) ==
  /\ Move(t, Statuses \ {"absent", "superseded"}, "failed")
  /\ UNCHANGED <<attempts, delivered>>

Requeued(t) ==
  /\ Move(t, {"dead_letter"}, "queued")
  /\ Count(t, 0)
  /\ UNCHANGED delivered

-----------------------------------------------------------------------------
LifecycleInit ==
  /\ status = [t \in Tasks |-> "absent"]
  /\ attempts = [t \in Tasks |-> 0]
  /\ delivered = {}

LifecycleNext ==
  \E t \in Tasks :
    \/ Create(t) \/ Enqueue(t) \/ Start(t) \/ Backoff(t) \/ DeadLettered(t)
    \/ Delivered(t) \/ Confirm(t) \/ Supersede(t) \/ Fail(t) \/ Requeued(t)

LifecycleSpec == LifecycleInit /\ [][LifecycleNext]_lifecycle
-----------------------------------------------------------------------------
LifecycleTypeOK ==
  /\ status \in [Tasks -> Statuses]
  /\ attempts \in [Tasks -> 0 .. MaxAttempts]
  /\ delivered \subseteq Tasks

\* A row whose count has used up max_attempts is not queued, run or retried.
CountInBounds ==
  \A t \in Tasks :
    attempts[t] = MaxAttempts =>
      status[t] \in {"done", "failed", "dead_letter", "superseded"}

\* A task whose review GitHub confirmed is never queued, run, retried,
\* dead-lettered or superseded, and only such a task is done.
DeliveredSettled ==
  \A t \in Tasks :
    /\ t \in delivered => status[t] \in {"done", "failed"}
    /\ status[t] = "done" => t \in delivered

LifecycleInv == LifecycleTypeOK /\ CountInBounds /\ DeliveredSettled
=============================================================================
