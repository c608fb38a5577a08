--------------------------- MODULE ReviewPipeline ---------------------------
(***************************************************************************)
(* The task pipeline: webhook handler, RabbitMQ queues, worker pool, Redis *)
(* PR lock, recovery scanner and the requeue endpoint, around the rows of  *)
(* TaskStore.  One action is one external call of a handler (a MySQL       *)
(* transaction, a publish, a Redis command) together with the local        *)
(* branching up to the next call, so that every interleaving of workers,   *)
(* scanner and HTTP handlers is a behaviour.                               *)
(*                                                                         *)
(* Faults are crashes, lost connections and calls whose outcome the caller *)
(* does not learn; there are at most MaxFaults of them.                    *)
(***************************************************************************)
EXTENDS TaskStore

CONSTANTS
  Tasks,         \* review_task ids
  PRs,           \* pull requests
  PR,            \* the pull request of each task
  BadRepo,       \* tasks whose repo the webhook accepts and splitRepo refuses
  Workers,       \* worker slots, over all server processes
  Scanners,      \* recovery loops, one per server process
  NoTask, Free, Orphan,
  Punctual,      \* TRUE: no step overruns the time-out the code gives it
  MaxFaults,     \* bound: faults in a behaviour
  MaxRequeues,   \* bound: uses of the requeue endpoint
  MaxCopies      \* bound: copies of a message the scanner adds to the queue

ASSUME PipelineAssumption ==
  /\ PR \in [Tasks -> PRs]
  /\ BadRepo \subseteq Tasks
  /\ NoTask \notin Tasks
  /\ Free \notin Workers /\ Orphan \notin Workers /\ Free # Orphan
  /\ Punctual \in BOOLEAN
  /\ MaxFaults \in Nat /\ MaxRequeues \in Nat /\ MaxCopies \in Nat

VARIABLES
  row,         \* review_task
  confirmed,   \* tasks whose review_delivery has a GitHub review id
  mainQ,       \* pr.review.queue: copies of each message
  retryQ,      \* pr.review.retry.queue
  deadQ,       \* pr.review.dead_letter.queue (nothing consumes it)
  lock,        \* lock:review:pr:*
  job,         \* what each worker slot is doing
  scan,        \* what each recovery loop is doing
  hook,        \* the webhook request that creates each task
  api,         \* the requeue request of each task
  clock,       \* time, in retry delays
  faults, requeues,
  runs         \* history: reviews started since creation or requeue

store   == <<row, confirmed>>
queues  == <<mainQ, retryQ, deadQ>>
http    == <<hook, api, requeues>>
vars    == <<row, confirmed, mainQ, retryQ, deadQ, lock, job, scan, hook, api,
             clock, faults, requeues, runs>>

Attempts == 0 .. MaxAttempts

-----------------------------------------------------------------------------
(* Queues and calls that may fail.                                         *)

NoMessages == [t \in Tasks |-> [a \in Attempts |-> 0]]
Put(q, t, a)  == [q EXCEPT ![t][a] = @ + 1]
Take(q, t, a) == [q EXCEPT ![t][a] = @ - 1]

Fault  == faults < MaxFaults /\ faults' = faults + 1

\* What the caller of a publish or of a transaction is told.
Told(ok) == IF ok THEN UNCHANGED faults ELSE Fault

\* A confirmed publish enqueues the message; a failed one may have.
PublishMain(t, a, ok) ==
  /\ Told(ok)
  /\ mainQ' \in {Put(mainQ, t, a)} \cup (IF ok THEN {} ELSE {mainQ})

PublishRetry(t, a, ok) ==
  /\ Told(ok)
  /\ retryQ' \in {Put(retryQ, t, a)} \cup (IF ok THEN {} ELSE {retryQ})

PublishDeadLetter(t, a, ok) ==
  /\ Told(ok)
  /\ deadQ' \in {deadQ \cup {[task |-> t, attempt |-> a]}}
                  \cup (IF ok THEN {} ELSE {deadQ})

\* A transaction that reports an error may still have committed.
Transact(t, r, ok) ==
  /\ Told(ok)
  /\ row' \in {[row EXCEPT ![t] = r]} \cup (IF ok THEN {} ELSE {row})

-----------------------------------------------------------------------------
(* Worker slots.                                                           *)

\* task, attempt: the message; tag: its delivery can still be acknowledged;
\* seen, now: task.AttemptCount and the time, as read by GetTask;
\* next, at: the attempt and next_retry_at to be written; holds: the deferred
\* lock release is still to run.
IdleJob == [pc |-> "idle", task |-> NoTask, attempt |-> 0, tag |-> FALSE,
            seen |-> 0, now |-> 0, next |-> 0, at |-> 0, holds |-> FALSE]

Claimed   == {"review", "finish", "supersede", "retry", "dead",
              "markretry", "markdead", "markfailed"}

Goto(w, pc) == job' = [job EXCEPT ![w].pc = pc]
Ack(w)      == job' = [job EXCEPT ![w] = IdleJob]

\* Mutant: nack without requeue.
NackDiscard(w) == Ack(w) /\ UNCHANGED mainQ

NackRequeue(w) ==
  /\ job' = [job EXCEPT ![w] = IdleJob]
  /\ mainQ' = IF job[w].tag THEN Put(mainQ, job[w].task, job[w].attempt)
                            ELSE mainQ

\* Mutant: DEL without the compare.
ReleasedBlindly(w) == [lock EXCEPT ![PR[job[w].task]] = Free]

\* The deferred release compares the token: only the owner's key is deleted.
Released(w) ==
  [lock EXCEPT ![PR[job[w].task]] = IF @ = w THEN Free ELSE @]

NextAttempt(count, attempt) == (IF attempt > count THEN attempt ELSE count) + 1

\* Mutant: off by one.
FailStepLate(next) == IF next <= MaxAttempts THEN "retry" ELSE "dead"

FailStep(next) == IF next < MaxAttempts THEN "retry" ELSE "dead"

\* fail: the next attempt is computed from the row read before the claim.
Failing(w) ==
  LET next == NextAttempt(job[w].seen, job[w].attempt)
  IN  [job[w] EXCEPT !.pc = FailStep(next), !.next = next]

\* process returns: with the lock held, the deferred release comes first.
Returning(w) ==
  IF job[w].holds
    THEN [job[w] EXCEPT !.pc = "release", !.seen = 0, !.now = 0, !.next = 0, !.at = 0]
    ELSE IdleJob

Deliver(w, t, a) ==
  /\ job[w].pc = "idle"
  /\ mainQ[t][a] > 0
  /\ mainQ' = Take(mainQ, t, a)
  /\ job' = [job EXCEPT ![w] = [IdleJob EXCEPT !.pc = "get", !.task = t,
                                               !.attempt = a, !.tag = TRUE]]
  /\ UNCHANGED <<store, retryQ, deadQ, lock, scan, http, clock, faults, runs>>

\* The switch of process on the row that GetTask returned.
Dismissed(r, attempt) ==
  \/ r.status \in {"done", "dead_letter", "failed", "superseded"}
  \/ r.status = "running" /\ attempt <= r.attempts
Early(r) == r.status = "retrying" /\ r.retryAt > clock

GetTask(w) ==
  LET j == job[w]
      r == row[j.task]
      next == NextAttempt(r.attempts, j.attempt)
      read == [j EXCEPT !.seen = r.attempts, !.now = clock]
  IN
  /\ j.pc = "get"
  /\ \/ Dismissed(r, j.attempt) /\ Ack(w)
     \/ Early(r) /\ Goto(w, "defer")
     \/ /\ ~Dismissed(r, j.attempt) /\ ~Early(r) /\ j.task \in BadRepo
        /\ job' = [job EXCEPT ![w] = [read EXCEPT !.pc = "dead", !.next = next]]
     \/ /\ ~Dismissed(r, j.attempt) /\ ~Early(r) /\ j.task \notin BadRepo
        /\ job' = [job EXCEPT ![w] = [read EXCEPT !.pc = "lock"]]
  /\ UNCHANGED <<store, queues, lock, scan, http, clock, faults, runs>>

GetTaskError(w) ==
  /\ job[w].pc = "get"
  /\ Fault
  /\ NackRequeue(w)
  /\ UNCHANGED <<store, retryQ, deadQ, lock, scan, http, clock, runs>>

AcquireLock(w) ==
  LET pr == PR[job[w].task] IN
  /\ job[w].pc = "lock"
  /\ \/ /\ lock[pr] = Free
        /\ lock' = [lock EXCEPT ![pr] = w]
        /\ job' = [job EXCEPT ![w].pc = "claim", ![w].holds = TRUE]
     \/ /\ lock[pr] # Free
        /\ Goto(w, "defer")
        /\ UNCHANGED lock
  /\ UNCHANGED <<store, queues, scan, http, clock, faults, runs>>

\* SET NX whose reply is lost may have set the key, with a token nobody knows.
AcquireError(w) ==
  LET pr == PR[job[w].task] IN
  /\ job[w].pc = "lock"
  /\ Fault
  /\ lock' \in {lock, [lock EXCEPT ![pr] = IF @ = Free THEN Orphan ELSE @]}
  /\ NackRequeue(w)
  /\ UNCHANGED <<store, retryQ, deadQ, scan, http, clock, runs>>

\* deferTaskForActivePR and deferTaskUntilRetry: the same attempt goes back to
\* the retry queue, and to the main queue when that fails.
Defer(w) ==
  LET j == job[w] IN
  /\ j.pc = "defer"
  /\ \E ok \in BOOLEAN :
       /\ PublishRetry(j.task, j.attempt, ok)
       /\ IF ok THEN Ack(w) /\ UNCHANGED mainQ ELSE NackRequeue(w)
  /\ UNCHANGED <<store, deadQ, lock, scan, http, clock, runs>>

Claim(w) ==
  LET j == job[w]
      r == row[j.task]
  IN
  /\ j.pc = "claim"
  /\ \/ /\ CanClaim(r, j.attempt, j.now)
        /\ row' = [row EXCEPT ![j.task] = ClaimTask(r, j.attempt)]
        /\ runs' = [runs EXCEPT ![j.task] = @ + 1]
        /\ Goto(w, "review")
     \/ /\ ~CanClaim(r, j.attempt, j.now)
        /\ Goto(w, "release")
        /\ UNCHANGED <<row, runs>>
  /\ UNCHANGED <<confirmed, queues, lock, scan, http, clock, faults>>

\* The claim fails, or commits and its reply is lost: release, then requeue.
ClaimError(w) ==
  LET j == job[w]
      r == row[j.task]
  IN
  /\ j.pc = "claim"
  /\ Fault
  /\ row' \in {row, [row EXCEPT ![j.task] =
                       IF CanClaim(r, j.attempt, j.now)
                         THEN ClaimTask(r, j.attempt) ELSE r]}
  /\ lock' = Released(w)
  /\ NackRequeue(w)
  /\ UNCHANGED <<confirmed, retryQ, deadQ, scan, http, clock, runs>>

\* ReviewPR returns nil: the review was confirmed by an earlier execution, or
\* this one posted it and MarkReviewDelivered recorded it.
ReviewSucceeds(w) ==
  LET t == job[w].task IN
  /\ job[w].pc = "review"
  /\ \/ t \in confirmed /\ UNCHANGED store
     \/ /\ t \notin confirmed /\ CanMarkDelivered(row[t])
        /\ row' = [row EXCEPT ![t] = MarkReviewDelivered(row[t])]
        /\ confirmed' = confirmed \cup {t}
  /\ Goto(w, "finish")
  /\ UNCHANGED <<queues, lock, scan, http, clock, faults, runs>>

ReviewFails(w) ==
  /\ job[w].pc = "review"
  /\ job' = [job EXCEPT ![w] = Failing(w)]
  /\ UNCHANGED <<store, queues, lock, scan, http, clock, faults, runs>>

\* MarkReviewDelivered commits and reports an error.
ReviewCommitLost(w) ==
  LET t == job[w].task IN
  /\ job[w].pc = "review"
  /\ t \notin confirmed /\ CanMarkDelivered(row[t])
  /\ Fault
  /\ row' = [row EXCEPT ![t] = MarkReviewDelivered(row[t])]
  /\ confirmed' = confirmed \cup {t}
  /\ job' = [job EXCEPT ![w] = Failing(w)]
  /\ UNCHANGED <<queues, lock, scan, http, clock, runs>>

\* A panic runs the deferred release before the recover handler calls fail.
ReviewPanics(w) ==
  /\ job[w].pc = "review"
  /\ Fault
  /\ lock' = Released(w)
  /\ job' = [job EXCEPT ![w] = [Failing(w) EXCEPT !.holds = FALSE]]
  /\ UNCHANGED <<store, queues, scan, http, clock, runs>>

\* The head has moved.  A confirmed task is resumed and not compared with the
\* head, unless two executions of it overlap.
ReviewSuperseded(w) ==
  /\ job[w].pc = "review"
  /\ Punctual => job[w].task \notin confirmed
  /\ Goto(w, "supersede")
  /\ UNCHANGED <<store, queues, lock, scan, http, clock, faults, runs>>

MarkSuperseded(w) ==
  LET t == job[w].task IN
  /\ job[w].pc = "supersede"
  /\ \E ok \in BOOLEAN :
       /\ Transact(t, UpdateTaskStatus(row[t], "superseded"), ok)
       /\ job' = [job EXCEPT ![w] =
                    IF ok /\ CanUpdateStatus(row[t], "superseded")
                      THEN Returning(w) ELSE Failing(w)]
  /\ UNCHANGED <<confirmed, queues, lock, scan, http, clock, runs>>

MarkDone(w) ==
  LET t == job[w].task IN
  /\ job[w].pc = "finish"
  /\ \E ok \in BOOLEAN : Transact(t, UpdateTaskStatus(row[t], "done"), ok)
  /\ job' = [job EXCEPT ![w] = Returning(w)]
  /\ UNCHANGED <<confirmed, queues, lock, scan, http, clock, runs>>

Retry(w) ==
  LET j == job[w] IN
  /\ j.pc = "retry"
  /\ \E ok \in BOOLEAN :
       /\ PublishRetry(j.task, j.next, ok)
       /\ job' = [job EXCEPT ![w] =
                    [j EXCEPT !.pc = IF ok THEN "markretry" ELSE "markfailed",
                              !.at = clock + 1]]
  /\ UNCHANGED <<store, mainQ, deadQ, lock, scan, http, clock, runs>>

MarkRetry(w) ==
  LET j == job[w] IN
  /\ j.pc = "markretry"
  /\ \E ok \in BOOLEAN :
       Transact(j.task, MarkTaskRetry(row[j.task], j.next, j.at), ok)
  /\ job' = [job EXCEPT ![w] = Returning(w)]
  /\ UNCHANGED <<confirmed, queues, lock, scan, http, clock, runs>>

DeadLetter(w) ==
  LET j == job[w] IN
  /\ j.pc = "dead"
  /\ \E ok \in BOOLEAN :
       /\ PublishDeadLetter(j.task, j.next, ok)
       /\ Goto(w, IF ok THEN "markdead" ELSE "markfailed")
  /\ UNCHANGED <<store, mainQ, retryQ, lock, scan, http, clock, runs>>

MarkDead(w) ==
  LET j == job[w] IN
  /\ j.pc = "markdead"
  /\ \E ok \in BOOLEAN :
       Transact(j.task, MarkTaskDeadLetter(row[j.task], j.next), ok)
  /\ job' = [job EXCEPT ![w] = Returning(w)]
  /\ UNCHANGED <<confirmed, queues, lock, scan, http, clock, runs>>

\* A retry or dead letter that could not be published.
MarkFailed(w) ==
  LET t == job[w].task IN
  /\ job[w].pc = "markfailed"
  /\ \E ok \in BOOLEAN : Transact(t, UpdateTaskStatus(row[t], "failed"), ok)
  /\ job' = [job EXCEPT ![w] = Returning(w)]
  /\ UNCHANGED <<confirmed, queues, lock, scan, http, clock, runs>>

\* The deferred release, then the acknowledgement.
Release(w) ==
  /\ job[w].pc = "release"
  /\ lock' = Released(w)
  /\ Ack(w)
  /\ UNCHANGED <<store, queues, scan, http, clock, faults, runs>>

\* Redis does not answer: the key stays until its TTL.
ReleaseError(w) ==
  LET pr == PR[job[w].task] IN
  /\ job[w].pc = "release"
  /\ Fault
  /\ lock' = [lock EXCEPT ![pr] = IF @ = w THEN Orphan ELSE @]
  /\ Ack(w)
  /\ UNCHANGED <<store, queues, scan, http, clock, runs>>

\* The process dies: the broker redelivers what was not acknowledged, and the
\* lock stays until its TTL.
Crash(w) ==
  LET pr == PR[job[w].task] IN
  /\ job[w].pc # "idle"
  /\ Fault
  /\ NackRequeue(w)
  /\ lock' = [lock EXCEPT ![pr] = IF @ = w THEN Orphan ELSE @]
  /\ UNCHANGED <<store, retryQ, deadQ, scan, http, clock, runs>>

\* The channel closes while the handler runs: the message is redelivered and
\* the handler's own acknowledgement will fail.
Redeliver(w) ==
  LET j == job[w] IN
  /\ j.tag
  /\ Fault
  /\ mainQ' = Put(mainQ, j.task, j.attempt)
  /\ job' = [job EXCEPT ![w].tag = FALSE]
  /\ UNCHANGED <<store, retryQ, deadQ, lock, scan, http, clock, runs>>

-----------------------------------------------------------------------------
(* The recovery loop: stale running rows, then stale received/queued rows. *)
(* It works on the rows as they were when it listed them.                  *)

IdleScan == [pc |-> "idle", todo |-> {}, task |-> NoTask, next |-> 0, at |-> 0]

\* updated_at is older than runningTaskStaleAfter.  A punctual worker leaves
\* the row within the review time-out and its clean-up, which is less.
StaleRunning ==
  {t \in Tasks :
     /\ row[t].status = "running"
     /\ Punctual => \A w \in Workers : ~(job[w].task = t /\ job[w].pc \in Claimed)}

\* Mutant: queued rows are taken to have a message.
StaleReceived == {t \in Tasks : row[t].status = "received"}

StaleQueued == {t \in Tasks : row[t].status \in {"received", "queued"}}

Listed(S) == {[task |-> t, attempts |-> row[t].attempts] : t \in S}

ListRunning(s, S) ==
  /\ scan[s].pc = "idle"
  /\ scan' = [scan EXCEPT ![s].pc = "running", ![s].todo = Listed(S)]
  /\ UNCHANGED <<store, queues, lock, job, http, clock, faults, runs>>

\* recoverRetry or deadLetter, by the attempt in the listed row.
Recover(s) ==
  /\ scan[s].pc = "running"
  /\ \E item \in scan[s].todo, ok \in BOOLEAN :
       LET next == NextAttempt(item.attempts, item.attempts)
           cur  == [scan[s] EXCEPT !.todo = @ \ {item}, !.task = item.task,
                                   !.next = next, !.at = clock + 1]
       IN
       \/ /\ next < MaxAttempts
          /\ PublishRetry(item.task, next, ok)
          /\ scan' = [scan EXCEPT ![s] =
                        IF ok THEN [cur EXCEPT !.pc = "markretry"]
                              ELSE [scan[s] EXCEPT !.todo = @ \ {item}]]
          /\ UNCHANGED deadQ
       \/ /\ next >= MaxAttempts
          /\ PublishDeadLetter(item.task, next, ok)
          /\ scan' = [scan EXCEPT ![s] =
                        [cur EXCEPT !.pc = IF ok THEN "markdead" ELSE "markfailed"]]
          /\ UNCHANGED retryQ
  /\ UNCHANGED <<store, mainQ, lock, job, http, clock, runs>>

NextItem(s) == [IdleScan EXCEPT !.pc = "running", !.todo = scan[s].todo]

\* MarkTaskRetry, MarkTaskDeadLetter or UpdateTaskStatus(failed) on the row as
\* it is now; an error is only logged.
RecoverMark(s) ==
  LET c == scan[s]
      r == row[c.task]
  IN
  /\ \E ok \in BOOLEAN :
       \/ c.pc = "markretry"  /\ Transact(c.task, MarkTaskRetry(r, c.next, c.at), ok)
       \/ c.pc = "markdead"   /\ Transact(c.task, MarkTaskDeadLetter(r, c.next), ok)
       \/ c.pc = "markfailed" /\ Transact(c.task, UpdateTaskStatus(r, "failed"), ok)
  /\ scan' = [scan EXCEPT ![s] = NextItem(s)]
  /\ UNCHANGED <<confirmed, queues, lock, job, http, clock, runs>>

ListQueued(s, S) ==
  /\ scan[s].pc = "running" /\ scan[s].todo = {}
  /\ scan' = [scan EXCEPT ![s] = IF S = {} THEN IdleScan
                                 ELSE [@ EXCEPT !.pc = "queued", !.todo = Listed(S)]]
  /\ UNCHANGED <<store, queues, lock, job, http, clock, faults, runs>>

\* Publish with attempt 0.  TouchQueuedTask only moves updated_at.
Republish(s) ==
  /\ scan[s].pc = "queued"
  /\ \E item \in scan[s].todo, ok \in BOOLEAN :
       /\ IF mainQ[item.task][0] + retryQ[item.task][0] < MaxCopies
            THEN PublishMain(item.task, 0, ok)
            ELSE ok /\ UNCHANGED <<mainQ, faults>>
       /\ LET rest == scan[s].todo \ {item} IN
          scan' = [scan EXCEPT ![s] = IF rest = {} THEN IdleScan
                                      ELSE [@ EXCEPT !.todo = rest]]
  /\ UNCHANGED <<store, retryQ, deadQ, lock, job, http, clock, runs>>

ScannerCrash(s) ==
  /\ scan[s].pc # "idle"
  /\ Fault
  /\ scan' = [scan EXCEPT ![s] = IdleScan]
  /\ UNCHANGED <<store, queues, lock, job, http, clock, runs>>

-----------------------------------------------------------------------------
(* The HTTP handlers.                                                      *)

HookStep(t, to) == hook' = [hook EXCEPT ![t] = to]

\* The handler stops between two calls: crash, or an error it answers with 500.
HookStops(t) ==
  /\ hook[t] \in {"created", "queued", "unpublished"}
  /\ Fault
  /\ HookStep(t, "end")
  /\ UNCHANGED <<store, queues, lock, job, scan, api, requeues, clock, runs>>

HookCreate(t) ==
  /\ hook[t] = "idle"
  /\ row' = [row EXCEPT ![t] = CreateTask]
  /\ HookStep(t, "created")
  /\ UNCHANGED <<confirmed, queues, lock, job, scan, api, requeues, clock,
                 faults, runs>>

HookQueued(t) ==
  /\ hook[t] = "created"
  /\ \E ok \in BOOLEAN :
       /\ Transact(t, UpdateTaskStatus(row[t], "queued"), ok)
       /\ HookStep(t, IF ok /\ CanUpdateStatus(row[t], "queued")
                        THEN "queued" ELSE "end")
  /\ UNCHANGED <<confirmed, queues, lock, job, scan, api, requeues, clock, runs>>

HookPublish(t) ==
  /\ hook[t] = "queued"
  /\ \E ok \in BOOLEAN :
       /\ PublishMain(t, 0, ok)
       /\ HookStep(t, IF ok THEN "end" ELSE "unpublished")
  /\ UNCHANGED <<store, retryQ, deadQ, lock, job, scan, api, requeues, clock, runs>>

HookFailed(t) ==
  /\ hook[t] = "unpublished"
  /\ \E ok \in BOOLEAN : Transact(t, UpdateTaskStatus(row[t], "failed"), ok)
  /\ HookStep(t, "end")
  /\ UNCHANGED <<confirmed, queues, lock, job, scan, api, requeues, clock, runs>>

\* POST /dead-letters/:id/requeue.
Requeue(t) ==
  /\ api[t] = "idle" /\ requeues < MaxRequeues
  /\ CanRequeue(row[t])
  /\ row' = [row EXCEPT ![t] = RequeueTask(row[t])]
  /\ api' = [api EXCEPT ![t] = "requeued"]
  /\ requeues' = requeues + 1
  /\ runs' = [runs EXCEPT ![t] = 0]
  /\ UNCHANGED <<confirmed, queues, lock, job, scan, hook, clock, faults>>

\* A failed publish leaves the row queued for the scanner.
RequeuePublish(t) ==
  /\ api[t] = "requeued"
  /\ \E ok \in BOOLEAN : PublishMain(t, 0, ok)
  /\ api' = [api EXCEPT ![t] = "idle"]
  /\ UNCHANGED <<store, retryQ, deadQ, lock, job, scan, hook, requeues, clock, runs>>

-----------------------------------------------------------------------------
(* The environment: time, RabbitMQ's message TTL, Redis key expiry.        *)

MarkPending(t, a) ==
  \/ \E w \in Workers : /\ job[w].pc = "markretry"
                        /\ job[w].task = t /\ job[w].next = a
  \/ \E s \in Scanners : /\ scan[s].pc = "markretry"
                         /\ scan[s].task = t /\ scan[s].next = a

\* A retry delay passes.  Time matters only to who waits for it.  Publish and
\* mark are given 15s together, a retry delay is 30s or more.
Tick ==
  /\ \/ \E t \in Tasks : row[t].retryAt > clock
     \/ \E w \in Workers : job[w].at > clock
     \/ \E s \in Scanners : scan[s].at > clock
  /\ Punctual => \A t \in Tasks, a \in Attempts : ~MarkPending(t, a)
  /\ clock' = clock + 1
  /\ UNCHANGED <<store, queues, lock, job, scan, http, faults, runs>>

\* The message expires and returns to the main queue.  Nothing ties its TTL to
\* next_retry_at but the clocks of two machines, so it may come early.
Expire(t, a) ==
  /\ retryQ[t][a] > 0
  /\ Punctual => ~MarkPending(t, a)
  /\ retryQ' = Take(retryQ, t, a)
  /\ mainQ' = Put(mainQ, t, a)
  /\ UNCHANGED <<store, deadQ, lock, job, scan, http, clock, faults, runs>>

\* Mutant: the TTL may be shorter than a review.
LockExpiresEarly(pr) ==
  /\ lock[pr] # Free
  /\ lock' = [lock EXCEPT ![pr] = Free]
  /\ UNCHANGED <<store, queues, job, scan, http, clock, faults, runs>>

\* The TTL is clamped above the review time-out: it outlives a punctual holder.
LockExpires(pr) ==
  /\ lock[pr] = Orphan \/ (~Punctual /\ lock[pr] \in Workers)
  /\ lock' = [lock EXCEPT ![pr] = Free]
  /\ UNCHANGED <<store, queues, job, scan, http, clock, faults, runs>>

-----------------------------------------------------------------------------
Init ==
  /\ row = [t \in Tasks |-> NoRow]
  /\ confirmed = {}
  /\ mainQ = NoMessages /\ retryQ = NoMessages /\ deadQ = {}
  /\ lock = [pr \in PRs |-> Free]
  /\ job = [w \in Workers |-> IdleJob]
  /\ scan = [s \in Scanners |-> IdleScan]
  /\ hook = [t \in Tasks |-> "idle"]
  /\ api = [t \in Tasks |-> "idle"]
  /\ clock = 0 /\ faults = 0 /\ requeues = 0
  /\ runs = [t \in Tasks |-> 0]

WorkerStep(w) ==
  \/ GetTask(w) \/ AcquireLock(w) \/ Defer(w) \/ Claim(w)
  \/ ReviewSucceeds(w) \/ ReviewFails(w) \/ ReviewSuperseded(w)
  \/ MarkSuperseded(w) \/ MarkDone(w) \/ Retry(w) \/ MarkRetry(w)
  \/ DeadLetter(w) \/ MarkDead(w) \/ MarkFailed(w) \/ Release(w)

WorkerFault(w) ==
  \/ GetTaskError(w) \/ AcquireError(w) \/ ClaimError(w) \/ ReviewCommitLost(w)
  \/ ReviewPanics(w) \/ ReleaseError(w) \/ Crash(w) \/ Redeliver(w)

ScannerStep(s) ==
  \/ \E S \in SUBSET StaleRunning : ListRunning(s, S)
  \/ Recover(s) \/ RecoverMark(s)
  \/ \E S \in SUBSET StaleQueued : ListQueued(s, S)
  \/ Republish(s)

HttpStep(t) ==
  \/ HookCreate(t) \/ HookQueued(t) \/ HookPublish(t) \/ HookFailed(t)
  \/ Requeue(t) \/ RequeuePublish(t)

Environment ==
  \/ Tick
  \/ \E t \in Tasks, a \in Attempts : Expire(t, a)
  \/ \E pr \in PRs : LockExpires(pr)

Next ==
  \/ \E w \in Workers, t \in Tasks, a \in Attempts : Deliver(w, t, a)
  \/ \E w \in Workers : WorkerStep(w) \/ WorkerFault(w)
  \/ \E s \in Scanners : ScannerStep(s) \/ ScannerCrash(s)
  \/ \E t \in Tasks : HttpStep(t) \/ HookStops(t)
  \/ Environment

Spec == Init /\ [][Next]_vars

-----------------------------------------------------------------------------
(* Fairness: a running handler takes its next step, a queue is first-in    *)
(* first-out, so no message waits forever for a worker that is free again  *)
(* and again, and TTLs elapse.  The recovery loop runs                     *)
(* every 30s and lists a row once its updated_at is old enough; a row      *)
(* stays in its status until then or leaves it, hence strong fairness.     *)
(* Nothing makes webhooks arrive, faults happen or operators requeue.      *)

Fairness ==
  /\ \A w \in Workers : WF_vars(WorkerStep(w))
  /\ \A t \in Tasks, a \in Attempts : SF_vars(\E w \in Workers : Deliver(w, t, a))
  /\ \A s \in Scanners :
       /\ SF_vars(ListRunning(s, StaleRunning))
       /\ SF_vars(ListQueued(s, StaleQueued))
       /\ WF_vars(Recover(s) \/ RecoverMark(s) \/ Republish(s))
  /\ \A t \in Tasks :
       WF_vars(HookQueued(t) \/ HookPublish(t) \/ HookFailed(t) \/ RequeuePublish(t))
  /\ WF_vars(Tick)
  /\ \A t \in Tasks, a \in Attempts : WF_vars(Expire(t, a))
  /\ \A pr \in PRs : WF_vars(LockExpires(pr))

FairSpec == Spec /\ Fairness

-----------------------------------------------------------------------------
Jobs == [pc : {"idle", "get", "defer", "lock", "claim", "release"} \cup Claimed,
         task : Tasks \cup {NoTask}, attempt : Attempts, tag : BOOLEAN,
         seen : Nat, now : Nat, next : Nat, at : Nat, holds : BOOLEAN]

Scans == [pc : {"idle", "running", "queued", "markretry", "markdead", "markfailed"},
          todo : SUBSET [task : Tasks, attempts : Nat],
          task : Tasks \cup {NoTask}, next : Nat, at : Nat]

TypeOK ==
  /\ row \in [Tasks -> Row]
  /\ confirmed \subseteq Tasks
  /\ mainQ \in [Tasks -> [Attempts -> Nat]]
  /\ retryQ \in [Tasks -> [Attempts -> Nat]]
  /\ deadQ \subseteq [task : Tasks, attempt : Nat]
  /\ lock \in [PRs -> Workers \cup {Free, Orphan}]
  /\ job \in [Workers -> Jobs]
  /\ scan \in [Scanners -> Scans]
  /\ hook \in [Tasks -> {"idle", "created", "queued", "unpublished", "end"}]
  /\ api \in [Tasks -> {"idle", "requeued"}]
  /\ clock \in Nat /\ faults \in Nat /\ requeues \in Nat
  /\ runs \in [Tasks -> Nat]

\* The promise of worker.go's lock and clamped TTL: while every step keeps its
\* time-out, two workers never review the same pull request at once, through
\* crashes, redeliveries, lost Redis replies and panics.
OneReviewPerPR ==
  \A v, w \in Workers :
    /\ job[v].pc = "review" /\ job[w].pc = "review"
    /\ PR[job[v].task] = PR[job[w].task]
    => v = w

\* Nothing but the retry message brings a retrying task back (the scanner looks
\* at running, received and queued rows only): whatever happens to workers and
\* publishes, such a row always has an unacknowledged message.
InFlight(t) ==
  \/ \E a \in Attempts : mainQ[t][a] + retryQ[t][a] > 0
  \/ \E w \in Workers : job[w].task = t /\ job[w].tag
RetryingHasCarrier ==
  \A t \in Tasks : row[t].status = "retrying" => InFlight(t)

\* A task whose review GitHub confirmed is never queued, retried, dead-lettered,
\* superseded or run again by late messages, scanners or operators; and a row
\* says done only when the review was confirmed.
DeliveredIsSettled ==
  \A t \in Tasks :
    /\ t \in confirmed => row[t].status \in {"done", "failed"}
    /\ row[t].status = "done" => t \in confirmed

\* A row whose next execution would be one too many never runs or waits for a
\* retry: dead-lettering is not late, whichever of worker, scanner and stale
\* message counted.
AttemptsBelowMax ==
  \A t \in Tasks :
    /\ row[t].attempts <= MaxAttempts
    /\ row[t].status \in {"running", "retrying"} => row[t].attempts < MaxAttempts

\* The release deletes only the key that holds its own token: even a worker
\* that overran its lock never frees the lock of its successor.
ReleaseKeepsOthers ==
  [][\A v, w \in Workers, pr \in PRs :
       v # w /\ job'[v] # job[v] /\ lock[pr] = w => lock'[pr] = w]_vars

\* Status and attempt count change only as TaskLifecycle allows.
Lifecycle == INSTANCE TaskLifecycle WITH
  status <- [t \in Tasks |-> row[t].status],
  attempts <- [t \in Tasks |-> row[t].attempts],
  delivered <- confirmed
ImplementsLifecycle == Lifecycle!LifecycleSpec

\* A queued task reaches a final status, through crashes, lost publishes and
\* orphaned locks.
Settled == {"done", "failed", "dead_letter", "superseded"}
QueuedSettles ==
  \A t \in Tasks \ BadRepo : row[t].status = "queued" ~> row[t].status \in Settled

-----------------------------------------------------------------------------
(* Statements of the documentation that the code does not keep.            *)

\* README.md:341: max_attempts is the greatest number of executions.
ReviewsBounded == \A t \in Tasks : runs[t] <= MaxAttempts

\* README.md:327-335: done has no successor.
DoneFinal ==
  [][\A t \in Tasks : row[t].status = "done" => row'[t].status = "done"]_vars

\* docs/design.md:119: tasks stuck in received are recovered like queued ones.
ReceivedRecovers ==
  \A t \in Tasks : row[t].status = "received" ~> row[t].status # "received"
=============================================================================
