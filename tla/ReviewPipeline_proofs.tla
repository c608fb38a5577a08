------------------------ MODULE ReviewPipeline_proofs ------------------------
(***************************************************************************)
(* The safety of the pipeline, for any number of tasks, pull requests,     *)
(* workers, recovery loops, attempts and faults.                           *)
(***************************************************************************)
EXTENDS ReviewPipeline, TLAPS

Queue == [Tasks -> [Attempts -> Nat]]

LEMMA QueueTypes ==
  ASSUME NEW q \in Queue, NEW t \in Tasks, NEW a
  PROVE  /\ Put(q, t, a) \in Queue
         /\ a \in Attempts /\ q[t][a] > 0 => Take(q, t, a) \in Queue
<1>1. q[t] \in [Attempts -> Nat]
  BY DEF Queue
<1>2. [q[t] EXCEPT ![a] = @ + 1] \in [Attempts -> Nat]
  <2>1. CASE a \in Attempts
    BY <1>1, <2>1
  <2>2. CASE a \notin Attempts
    BY <1>1, <2>2
  <2> QED
    BY <2>1, <2>2
<1>3. a \in Attempts /\ q[t][a] > 0 => [q[t] EXCEPT ![a] = @ - 1] \in [Attempts -> Nat]
  BY <1>1
<1> QED
  BY <1>2, <1>3 DEF Queue, Put, Take

LEMMA RowTypes ==
  ASSUME NEW r \in Row, NEW n \in Nat, NEW at \in Nat
  PROVE  /\ CreateTask \in Row /\ RequeueTask(r) \in Row /\ MarkReviewDelivered(r) \in Row
         /\ \A s \in Status : UpdateTaskStatus(r, s) \in Row
         /\ ClaimTask(r, n) \in Row
         /\ MarkTaskRetry(r, n, at) \in Row /\ MarkTaskDeadLetter(r, n) \in Row
BY DEF Row, Status, CreateTask, RequeueTask, MarkReviewDelivered, UpdateTaskStatus,
   ClaimTask, MarkTaskRetry, MarkTaskDeadLetter

Pcs == {"idle", "get", "defer", "lock", "claim", "release"} \cup Claimed

LEMMA JobTypes ==
  ASSUME NEW w, job[w] \in Jobs, PipelineAssumption, MaxAttemptsAssumption
  PROVE  /\ IdleJob \in Jobs /\ Failing(w) \in Jobs /\ Returning(w) \in Jobs
         /\ Failing(w).task = job[w].task
         /\ [Failing(w) EXCEPT !.holds = FALSE].task = job[w].task
         /\ Returning(w) = IdleJob \/ Returning(w).task = job[w].task
         /\ \A p \in Pcs, h \in BOOLEAN :
              /\ [job[w] EXCEPT !.pc = p] \in Jobs
              /\ [job[w] EXCEPT !.pc = p, !.holds = h] \in Jobs
         /\ [job[w] EXCEPT !.tag = FALSE] \in Jobs
         /\ [Failing(w) EXCEPT !.holds = FALSE] \in Jobs
         /\ \A p \in Pcs, n \in Nat, m \in Nat, k \in Nat :
              /\ [job[w] EXCEPT !.seen = n, !.now = m, !.pc = p] \in Jobs
              /\ [job[w] EXCEPT !.seen = n, !.now = m, !.pc = p, !.next = k] \in Jobs
              /\ [job[w] EXCEPT !.pc = p, !.at = n] \in Jobs
<1>1. IdleJob \in Jobs
  BY MaxAttemptsAssumption DEF IdleJob, Jobs, Claimed, Attempts
<1>2. NextAttempt(job[w].seen, job[w].attempt) \in Nat
  BY DEF Jobs, Attempts, NextAttempt
<1>3. FailStep(NextAttempt(job[w].seen, job[w].attempt)) \in Pcs
  BY DEF FailStep, Pcs, Claimed
<1>4. Failing(w) \in Jobs
  BY <1>2, <1>3 DEF Failing, Jobs, Pcs
<1>5. Returning(w) \in Jobs
  BY <1>1 DEF Returning, Jobs
<1>6. [Failing(w) EXCEPT !.holds = FALSE] \in Jobs
  BY <1>4 DEF Jobs
<1>10. Failing(w).task = job[w].task
  BY DEF Failing, Jobs
<1>11. [Failing(w) EXCEPT !.holds = FALSE].task = job[w].task
  BY <1>4, <1>10 DEF Jobs
<1>12. Returning(w) = IdleJob \/ Returning(w).task = job[w].task
  BY DEF Returning, Jobs
<1>7. ASSUME NEW p \in Pcs, NEW h \in BOOLEAN
      PROVE  /\ [job[w] EXCEPT !.pc = p] \in Jobs
             /\ [job[w] EXCEPT !.pc = p, !.holds = h] \in Jobs
             /\ [job[w] EXCEPT !.tag = FALSE] \in Jobs
  BY DEF Jobs, Pcs
<1>8. ASSUME NEW p \in Pcs, NEW n \in Nat, NEW m \in Nat, NEW k \in Nat
      PROVE  /\ [job[w] EXCEPT !.seen = n, !.now = m, !.pc = p] \in Jobs
             /\ [job[w] EXCEPT !.seen = n, !.now = m, !.pc = p, !.next = k] \in Jobs
             /\ [job[w] EXCEPT !.pc = p, !.at = n] \in Jobs
  BY DEF Jobs, Pcs
<1>9. "idle" \in Pcs /\ TRUE \in BOOLEAN
  BY DEF Pcs
<1> QED
  BY <1>1, <1>4, <1>5, <1>6, <1>7, <1>8, <1>9, <1>10, <1>11, <1>12

\* Who acts, acts on a task.
Occupied ==
  /\ \A w \in Workers : job[w].pc # "idle" \/ job[w].tag \/ job[w].holds => job[w].task \in Tasks
  /\ \A s \in Scanners :
       scan[s].pc \in {"markretry", "markdead", "markfailed"} => scan[s].task \in Tasks

Typed == TypeOK /\ Occupied

LEMMA CallTypes ==
  ASSUME TypeOK, NEW t \in Tasks, NEW ok \in BOOLEAN
  PROVE  /\ Told(ok) => faults' \in Nat
         /\ \A a : PublishMain(t, a, ok) => mainQ' \in Queue /\ faults' \in Nat
         /\ \A a : PublishRetry(t, a, ok) => retryQ' \in Queue /\ faults' \in Nat
         /\ \A a \in Nat : PublishDeadLetter(t, a, ok) =>
              deadQ' \subseteq [task : Tasks, attempt : Nat] /\ faults' \in Nat
         /\ \A r \in Row : Transact(t, r, ok) => row' \in [Tasks -> Row] /\ faults' \in Nat
<1>1. Told(ok) => faults' \in Nat
  BY DEF Told, Fault, TypeOK
<1>2. mainQ \in Queue /\ retryQ \in Queue
  BY DEF TypeOK, Queue
<1>3. \A a : Put(mainQ, t, a) \in Queue /\ Put(retryQ, t, a) \in Queue
  BY <1>2, QueueTypes
<1>4. \A r \in Row : [row EXCEPT ![t] = r] \in [Tasks -> Row]
  BY DEF TypeOK
<1> QED
  BY <1>1, <1>2, <1>3, <1>4 DEF PublishMain, PublishRetry, PublishDeadLetter, Transact, TypeOK

\* A step that changes nothing but some of the queues and what w does.
LEMMA JobStep ==
  ASSUME Typed, PipelineAssumption, MaxAttemptsAssumption, NEW w \in Workers, NEW j \in Jobs,
         job' = [job EXCEPT ![w] = j], j = IdleJob \/ j.task \in Tasks, UNCHANGED scan
  PROVE  /\ job' \in [Workers -> Jobs]
         /\ Occupied'
BY DEF Typed, TypeOK, Occupied, IdleJob

\* TypeOK but for job and scan.
Around ==
  /\ row \in [Tasks -> Row] /\ confirmed \subseteq Tasks
  /\ mainQ \in Queue /\ retryQ \in Queue /\ deadQ \subseteq [task : Tasks, attempt : Nat]
  /\ lock \in [PRs -> Workers \cup {Free, Orphan}]
  /\ hook \in [Tasks -> {"idle", "created", "queued", "unpublished", "end"}]
  /\ api \in [Tasks -> {"idle", "requeued"}]
  /\ clock \in Nat /\ faults \in Nat /\ requeues \in Nat
  /\ runs \in [Tasks -> Nat]

LEMMA AroundTypes == TypeOK <=> Around /\ job \in [Workers -> Jobs] /\ scan \in [Scanners -> Scans]
BY DEF TypeOK, Around, Queue

LEMMA WorkerTypes ==
  ASSUME Typed, PipelineAssumption, MaxAttemptsAssumption, NEW w \in Workers,
         WorkerStep(w) \/ WorkerFault(w)
  PROVE  Typed'
<1> DEFINE j == job[w]
           t == j.task
<1>1. j \in Jobs /\ TypeOK /\ Around
  BY AroundTypes DEF Typed, TypeOK
<1>2. /\ IdleJob \in Jobs
      /\ Failing(w) \in Jobs /\ Failing(w).task = t
      /\ [Failing(w) EXCEPT !.holds = FALSE] \in Jobs
      /\ [Failing(w) EXCEPT !.holds = FALSE].task = t
      /\ Returning(w) \in Jobs /\ (Returning(w) = IdleJob \/ Returning(w).task = t)
  BY <1>1, JobTypes DEF IdleJob
<1> USE DEF store, queues, http
<1>3. ASSUME Around', UNCHANGED scan,
             \E x \in Jobs : job' = [job EXCEPT ![w] = x] /\ (x = IdleJob \/ x.task \in Tasks)
      PROVE  Typed'
  <2>1. job' \in [Workers -> Jobs] /\ Occupied'
    BY <1>3, JobStep
  <2>2. TypeOK'
    BY <1>1, <1>3, <2>1 DEF TypeOK, Around, Queue
  <2> QED
    BY <2>1, <2>2 DEF Typed
<1>4. t \in Tasks
  <2>1. WorkerStep(w) => j.pc # "idle"
    BY DEF WorkerStep, GetTask, AcquireLock, Defer, Claim, ReviewSucceeds, ReviewFails,
       ReviewSuperseded, MarkSuperseded, MarkDone, Retry, MarkRetry, DeadLetter, MarkDead,
       MarkFailed, Release
  <2>2. WorkerFault(w) => j.pc # "idle" \/ Redeliver(w)
    BY DEF WorkerFault, GetTaskError, AcquireError, ClaimError, ReviewCommitLost,
       ReviewPanics, ReleaseError, Crash
  <2>3. Redeliver(w) => j.tag
    BY DEF Redeliver
  <2> QED
    BY <2>1, <2>2, <2>3 DEF Typed, Occupied
<1>5. /\ row[t] \in Row /\ row[t].attempts \in Nat /\ clock \in Nat
      /\ j.attempt \in Nat /\ j.next \in Nat /\ j.at \in Nat /\ j.pc \in Pcs
  BY <1>1, <1>4 DEF Around, Row, Jobs, Attempts, Pcs
<1>6. NextAttempt(row[t].attempts, j.attempt) \in Nat
  BY <1>5 DEF NextAttempt
<1>7. ASSUME NEW p \in Pcs, Goto(w, p)
      PROVE  \E x \in Jobs : job' = [job EXCEPT ![w] = x] /\ (x = IdleJob \/ x.task \in Tasks)
  <2>1. [j EXCEPT !.pc = p] \in Jobs /\ [j EXCEPT !.pc = p].task = t
    BY <1>1, <1>7, JobTypes DEF Jobs
  <2> QED
    BY <1>4, <1>7, <2>1 DEF Goto
<1>8. {"defer", "dead", "lock", "claim", "release", "review", "finish", "supersede",
       "markdead", "markfailed"} \subseteq Pcs
  BY DEF Pcs, Claimed
<1>9. Ack(w) => \E x \in Jobs : job' = [job EXCEPT ![w] = x] /\ (x = IdleJob \/ x.task \in Tasks)
  BY <1>2 DEF Ack
<1>10. NackRequeue(w) => mainQ' \in Queue /\ Ack(w)
  BY <1>1, <1>4, QueueTypes DEF NackRequeue, Ack, Around
<1>11. Released(w) \in [PRs -> Workers \cup {Free, Orphan}]
  BY <1>1 DEF Released, Around
<1>12. \A s \in Status : UpdateTaskStatus(row[t], s) \in Row
  BY <1>5, RowTypes
<1>13. CASE GetTask(w)
  <2>1. /\ [j EXCEPT !.seen = row[t].attempts, !.now = clock, !.pc = "lock"] \in Jobs
        /\ [j EXCEPT !.seen = row[t].attempts, !.now = clock, !.pc = "dead",
                     !.next = NextAttempt(row[t].attempts, j.attempt)] \in Jobs
    BY <1>1, <1>5, <1>6, <1>8, JobTypes
  <2> QED
    BY <1>1, <1>3, <1>4, <1>7, <1>8, <1>9, <1>13, <2>1 DEF GetTask, Jobs, Around
<1>14. CASE AcquireLock(w)
  <2>1. [j EXCEPT !.pc = "claim", !.holds = TRUE] \in Jobs
    BY <1>1, <1>8, JobTypes
  <2> QED
    BY <1>1, <1>3, <1>4, <1>7, <1>8, <1>14, <2>1 DEF AcquireLock, Jobs, Around
<1>15. CASE Defer(w)
  BY <1>1, <1>3, <1>4, <1>9, <1>10, <1>15, CallTypes DEF Defer, Around
<1>16. CASE Claim(w)
  <2>1. ClaimTask(row[t], j.attempt) \in Row
    BY <1>5, RowTypes
  <2> QED
    BY <1>1, <1>3, <1>4, <1>7, <1>8, <1>16, <2>1 DEF Claim, Around
<1>17. CASE ReviewSucceeds(w) \/ ReviewFails(w) \/ ReviewSuperseded(w)
  BY <1>1, <1>2, <1>3, <1>4, <1>5, <1>7, <1>8, <1>17, RowTypes
     DEF ReviewSucceeds, ReviewFails, ReviewSuperseded, Around
<1>18. CASE MarkSuperseded(w) \/ MarkDone(w) \/ MarkFailed(w)
  <2>1. \A s \in Status, ok \in BOOLEAN : Transact(t, UpdateTaskStatus(row[t], s), ok) =>
          row' \in [Tasks -> Row] /\ faults' \in Nat
    BY <1>1, <1>4, <1>12, CallTypes
  <2> QED
    BY <1>1, <1>2, <1>3, <1>4, <1>18, <2>1
       DEF MarkSuperseded, MarkDone, MarkFailed, Around, Status
<1>19. CASE Retry(w)
  <2>1. clock + 1 \in Nat
    BY <1>5
  <2>3. \A p \in Pcs : [j EXCEPT !.pc = p, !.at = clock + 1] \in Jobs
    BY <1>1, <2>1, JobTypes
  <2>2. "markretry" \in Pcs /\ "markfailed" \in Pcs
    BY DEF Pcs, Claimed
  <2>4. \E x \in Jobs : job' = [job EXCEPT ![w] = x] /\ x.task \in Tasks
    BY <1>1, <1>4, <1>19, <2>2, <2>3 DEF Retry, Jobs
  <2>5. retryQ' \in Queue /\ faults' \in Nat
    BY <1>1, <1>4, <1>19, CallTypes DEF Retry
  <2> QED
    BY <1>1, <1>3, <1>19, <2>4, <2>5 DEF Retry, Around
<1>20. CASE MarkRetry(w) \/ MarkDead(w)
  <2>1. MarkTaskRetry(row[t], j.next, j.at) \in Row /\ MarkTaskDeadLetter(row[t], j.next) \in Row
    BY <1>5, RowTypes
  <2> QED
    BY <1>1, <1>2, <1>3, <1>4, <1>20, <2>1, CallTypes DEF MarkRetry, MarkDead, Around
<1>21. CASE DeadLetter(w)
  BY <1>1, <1>3, <1>4, <1>5, <1>7, <1>8, <1>21, CallTypes DEF DeadLetter, Around
<1>22. CASE Release(w) \/ GetTaskError(w)
  BY <1>1, <1>3, <1>9, <1>10, <1>11, <1>22 DEF Release, GetTaskError, Fault, Around
<1>23. CASE AcquireError(w) \/ ReleaseError(w) \/ Crash(w)
  BY <1>1, <1>3, <1>9, <1>10, <1>23 DEF AcquireError, ReleaseError, Crash, Fault, Around
<1>24. CASE ClaimError(w)
  <2>1. ClaimTask(row[t], j.attempt) \in Row
    BY <1>5, RowTypes
  <2>2. row' \in [Tasks -> Row]
    BY <1>1, <1>4, <1>5, <1>24, <2>1 DEF ClaimError, Around
  <2>3. faults' \in Nat /\ lock' \in [PRs -> Workers \cup {Free, Orphan}]
        /\ mainQ' \in Queue /\ Ack(w)
    BY <1>1, <1>10, <1>11, <1>24 DEF ClaimError, Fault, Around
  <2> QED
    BY <1>1, <1>3, <1>9, <1>24, <2>2, <2>3 DEF ClaimError, Around
<1>25. CASE ReviewCommitLost(w) \/ ReviewPanics(w)
  <2>1. MarkReviewDelivered(row[t]) \in Row
    BY <1>5, RowTypes
  <2>2. Around'
    BY <1>1, <1>4, <1>11, <1>25, <2>1 DEF ReviewCommitLost, ReviewPanics, Fault, Around
  <2>3. \E x \in Jobs : job' = [job EXCEPT ![w] = x] /\ x.task \in Tasks
    BY <1>2, <1>4, <1>25 DEF ReviewCommitLost, ReviewPanics
  <2> QED
    BY <1>3, <1>25, <2>2, <2>3 DEF ReviewCommitLost, ReviewPanics
<1>26. CASE Redeliver(w)
  <2>1. [j EXCEPT !.tag = FALSE] \in Jobs
    BY <1>1, JobTypes
  <2>2. job' = [job EXCEPT ![w] = [j EXCEPT !.tag = FALSE]] /\ [j EXCEPT !.tag = FALSE].task = t
    BY <1>1, <1>26 DEF Redeliver, Jobs
  <2>3. Around'
    BY <1>1, <1>4, <1>26, QueueTypes DEF Redeliver, Fault, Around
  <2> QED
    BY <1>3, <1>4, <1>26, <2>1, <2>2, <2>3 DEF Redeliver
<1> QED
  BY <1>13, <1>14, <1>15, <1>16, <1>17, <1>18, <1>19, <1>20, <1>21, <1>22, <1>23,
     <1>24, <1>25, <1>26 DEF WorkerStep, WorkerFault

LEMMA DeliverTypes ==
  ASSUME Typed, PipelineAssumption, MaxAttemptsAssumption,
         NEW w \in Workers, NEW t \in Tasks, NEW a \in Attempts, Deliver(w, t, a)
  PROVE  Typed'
<1>1. [IdleJob EXCEPT !.pc = "get", !.task = t, !.attempt = a, !.tag = TRUE] \in Jobs
  BY DEF IdleJob, Jobs, Attempts
<1>2. [IdleJob EXCEPT !.pc = "get", !.task = t, !.attempt = a, !.tag = TRUE].task = t
  BY DEF IdleJob
<1>3. job' \in [Workers -> Jobs] /\ Occupied'
  BY <1>1, <1>2, JobStep DEF Deliver
<1>4. mainQ' \in Queue
  BY QueueTypes DEF Deliver, Typed, TypeOK, Queue
<1>5. TypeOK'
  BY <1>3, <1>4 DEF Deliver, Typed, TypeOK, Queue, store, http
<1> QED
  BY <1>3, <1>5 DEF Typed

LEMMA ScannerTypes ==
  ASSUME Typed, PipelineAssumption, MaxAttemptsAssumption, NEW s \in Scanners,
         ScannerStep(s) \/ ScannerCrash(s)
  PROVE  Typed'
<1> DEFINE c == scan[s]
<1>1. c \in Scans /\ TypeOK /\ Around
  BY AroundTypes DEF Typed, TypeOK
<1> USE DEF store, queues, http
<1>2. ASSUME Around', UNCHANGED job, NEW x \in Scans, scan' = [scan EXCEPT ![s] = x],
             x.pc \in {"markretry", "markdead", "markfailed"} => x.task \in Tasks
      PROVE  Typed'
  BY <1>1, <1>2 DEF Typed, TypeOK, Around, Queue, Occupied
<1>3. IdleScan \in Scans /\ IdleScan.pc = "idle" /\ NextItem(s) \in Scans /\ NextItem(s).pc = "running"
  BY <1>1 DEF IdleScan, NextItem, Scans
<1>4. ASSUME NEW S \in SUBSET Tasks
      PROVE  Listed(S) \subseteq [task : Tasks, attempts : Nat]
  BY <1>1 DEF Listed, Around, Row
<1>5. ASSUME NEW p \in {"running", "queued"}, NEW d \in SUBSET [task : Tasks, attempts : Nat],
             NEW x, x = [c EXCEPT !.pc = p, !.todo = d]
      PROVE  x \in Scans /\ x.pc = p
  BY <1>1, <1>5 DEF Scans
<1>6. CASE \E S \in SUBSET StaleRunning : ListRunning(s, S)
  <2>1. PICK S \in SUBSET StaleRunning : ListRunning(s, S)
    BY <1>6
  <2>2. S \in SUBSET Tasks
    BY DEF StaleRunning
  <2>3. scan' = [scan EXCEPT ![s] = [c EXCEPT !.pc = "running", !.todo = Listed(S)]]
    BY <1>1, <2>1 DEF ListRunning, Scans, TypeOK
  <2>4. Around' /\ UNCHANGED job
    BY <1>1, <2>1 DEF ListRunning, Around
  <2> QED
    BY <1>2, <1>4, <1>5, <2>2, <2>3, <2>4
<1>7. CASE \E S \in SUBSET StaleQueued : ListQueued(s, S)
  <2>1. PICK S \in SUBSET StaleQueued : ListQueued(s, S)
    BY <1>7
  <2>2. S \in SUBSET Tasks
    BY DEF StaleQueued
  <2> QED
    <3>1. Listed(S) \in SUBSET [task : Tasks, attempts : Nat]
      BY <1>4, <2>2
    <3>2. Around' /\ UNCHANGED job
      BY <1>1, <2>1 DEF ListQueued, Around
    <3>3. \E x \in {IdleScan, [c EXCEPT !.pc = "queued", !.todo = Listed(S)]} :
            scan' = [scan EXCEPT ![s] = x]
      BY <2>1, Zenon DEF ListQueued
    <3> QED
      BY <1>2, <1>3, <1>5, <3>1, <3>2, <3>3
<1>8. CASE Recover(s)
  <2>1. PICK item \in c.todo, ok \in BOOLEAN :
          LET next == NextAttempt(item.attempts, item.attempts)
              cur  == [c EXCEPT !.todo = @ \ {item}, !.task = item.task,
                                !.next = next, !.at = clock + 1]
          IN
          \/ /\ PublishRetry(item.task, next, ok)
             /\ scan' = [scan EXCEPT ![s] =
                           IF ok THEN [cur EXCEPT !.pc = "markretry"]
                                 ELSE [c EXCEPT !.todo = @ \ {item}]]
             /\ UNCHANGED deadQ
          \/ /\ PublishDeadLetter(item.task, next, ok)
             /\ scan' = [scan EXCEPT ![s] =
                           [cur EXCEPT !.pc = IF ok THEN "markdead" ELSE "markfailed"]]
             /\ UNCHANGED retryQ
    BY <1>8 DEF Recover
  <2> DEFINE next == NextAttempt(item.attempts, item.attempts)
             y(p) == [[c EXCEPT !.todo = @ \ {item}, !.task = item.task,
                                !.next = next, !.at = clock + 1] EXCEPT !.pc = p]
             z == [c EXCEPT !.todo = @ \ {item}]
  <2>2. item.task \in Tasks /\ item.attempts \in Nat /\ clock + 1 \in Nat
    BY <1>1, <2>1 DEF Scans, Around
  <2>3. next \in Nat
    BY <2>2 DEF NextAttempt
  <2>4. ASSUME NEW p \in {"markretry", "markdead", "markfailed"}
        PROVE  y(p) \in Scans /\ y(p).task \in Tasks
    <3> HIDE DEF next
    <3> QED
      BY <1>1, <2>2, <2>3 DEF Scans
  <2>5. z \in Scans /\ z.pc = "running"
    BY <1>1, <1>8 DEF Scans, Recover
  <2>6. retryQ' \in Queue /\ deadQ' \subseteq [task : Tasks, attempt : Nat] /\ faults' \in Nat
    <3>1. \A ok2 \in BOOLEAN :
            /\ PublishRetry(item.task, next, ok2) => retryQ' \in Queue /\ faults' \in Nat
            /\ PublishDeadLetter(item.task, next, ok2) =>
                 deadQ' \subseteq [task : Tasks, attempt : Nat] /\ faults' \in Nat
      BY <1>1, <2>2, <2>3, CallTypes
    <3> QED
      BY <1>1, <2>1, <3>1 DEF Around
  <2>7. Around' /\ UNCHANGED job
    BY <1>1, <1>8, <2>6 DEF Recover, Around
  <2>8. scan' = [scan EXCEPT ![s] = z]
        \/ \E p \in {"markretry", "markdead", "markfailed"} : scan' = [scan EXCEPT ![s] = y(p)]
    BY <2>1
  <2> HIDE DEF y, z
  <2> QED
    BY <1>2, <2>4, <2>5, <2>7, <2>8
<1>9. CASE RecoverMark(s)
  <2>1. c.task \in Tasks /\ row[c.task] \in Row /\ c.next \in Nat /\ c.at \in Nat
    BY <1>1, <1>9 DEF RecoverMark, Typed, Occupied, Around, Scans
  <2>2. /\ MarkTaskRetry(row[c.task], c.next, c.at) \in Row
        /\ MarkTaskDeadLetter(row[c.task], c.next) \in Row
        /\ UpdateTaskStatus(row[c.task], "failed") \in Row
    BY <2>1, RowTypes DEF Status
  <2>3. row' \in [Tasks -> Row] /\ faults' \in Nat
    BY <1>1, <1>9, <2>1, <2>2, CallTypes DEF RecoverMark
  <2> QED
    BY <1>1, <1>2, <1>3, <1>9, <2>3 DEF RecoverMark, Around
<1>10. CASE Republish(s)
  <2>1. PICK item \in c.todo, ok \in BOOLEAN :
          /\ PublishMain(item.task, 0, ok) \/ UNCHANGED <<mainQ, faults>>
          /\ LET rest == c.todo \ {item} IN
             scan' = [scan EXCEPT ![s] = IF rest = {} THEN IdleScan
                                         ELSE [c EXCEPT !.todo = rest]]
    BY <1>10 DEF Republish
  <2>2. item.task \in Tasks
    BY <1>1, <2>1 DEF Scans
  <2>3. mainQ' \in Queue /\ faults' \in Nat
    BY <1>1, <2>1, <2>2, CallTypes DEF Around
  <2>4. ASSUME NEW x, x = [c EXCEPT !.todo = c.todo \ {item}]
        PROVE  x \in Scans /\ x.pc = "queued"
    BY <1>1, <1>10, <2>4 DEF Scans, Republish
  <2> QED
    BY <1>1, <1>2, <1>3, <1>10, <2>1, <2>3, <2>4 DEF Republish, Around
<1>11. CASE ScannerCrash(s)
  <2>1. Around'
    BY <1>1, <1>11 DEF ScannerCrash, Fault, Around
  <2> QED
    BY <1>2, <1>3, <1>11, <2>1 DEF ScannerCrash
<1> QED
  BY <1>6, <1>7, <1>8, <1>9, <1>10, <1>11 DEF ScannerStep

LEMMA HttpTypes ==
  ASSUME Typed, PipelineAssumption, MaxAttemptsAssumption, NEW t \in Tasks,
         HttpStep(t) \/ HookStops(t)
  PROVE  Typed'
<1>1. TypeOK /\ Around /\ row[t] \in Row
  BY AroundTypes DEF Typed, TypeOK
<1> USE DEF store, queues
<1>2. ASSUME Around', UNCHANGED <<job, scan>> PROVE Typed'
  BY <1>1, <1>2 DEF Typed, TypeOK, Around, Queue, Occupied
<1>3. \A s \in Status, ok \in BOOLEAN : Transact(t, UpdateTaskStatus(row[t], s), ok) =>
        row' \in [Tasks -> Row] /\ faults' \in Nat
  BY <1>1, RowTypes, CallTypes
<1>4. CASE HookCreate(t) \/ Requeue(t)
  BY <1>1, <1>2, <1>4, RowTypes DEF HookCreate, Requeue, HookStep, Around
<1>5. CASE HookQueued(t)
  BY <1>1, <1>2, <1>3, <1>5 DEF HookQueued, HookStep, Around, Status
<1>6. CASE HookFailed(t)
  BY <1>1, <1>2, <1>3, <1>6 DEF HookFailed, HookStep, Around, Status
<1>7. CASE HookPublish(t) \/ RequeuePublish(t)
  BY <1>1, <1>2, <1>7, CallTypes DEF HookPublish, RequeuePublish, HookStep, Around
<1>8. CASE HookStops(t)
  BY <1>1, <1>2, <1>8 DEF HookStops, HookStep, Fault, Around
<1> QED
  BY <1>4, <1>5, <1>6, <1>7, <1>8 DEF HttpStep

LEMMA EnvironmentTypes ==
  ASSUME Typed, Environment
  PROVE  Typed'
<1>1. TypeOK /\ Around
  BY AroundTypes DEF Typed
<1> USE DEF store, queues, http
<1>2. ASSUME Around', UNCHANGED <<job, scan>> PROVE Typed'
  BY <1>1, <1>2 DEF Typed, TypeOK, Around, Queue, Occupied
<1>3. CASE Tick
  BY <1>1, <1>2, <1>3 DEF Tick, Around
<1>4. ASSUME NEW t \in Tasks, NEW a \in Attempts, Expire(t, a) PROVE Typed'
  BY <1>1, <1>2, <1>4, QueueTypes DEF Expire, Around
<1>5. ASSUME NEW pr \in PRs, LockExpires(pr) PROVE Typed'
  BY <1>1, <1>2, <1>5 DEF LockExpires, Around
<1> QED
  BY <1>3, <1>4, <1>5 DEF Environment

LEMMA TypedInitial == Init => Typed
BY PipelineAssumption, MaxAttemptsAssumption
   DEF Init, Typed, TypeOK, Occupied, NoMessages, NoRow, Row, IdleJob, Jobs, Attempts,
       IdleScan, Scans

LEMMA TypedInductive == Typed /\ [Next]_vars => Typed'
<1> SUFFICES ASSUME Typed, [Next]_vars PROVE Typed'
  OBVIOUS
<1>1. CASE UNCHANGED vars
  BY <1>1 DEF vars, Typed, TypeOK, Occupied
<1>2. CASE Next
  BY <1>2, PipelineAssumption, MaxAttemptsAssumption, DeliverTypes, WorkerTypes,
     ScannerTypes, HttpTypes, EnvironmentTypes DEF Next
<1> QED
  BY <1>1, <1>2

\* Every variable keeps its type.
THEOREM TypeCorrect == Spec => []TypeOK
<1>1. Typed => TypeOK
  BY DEF Typed
<1> QED
  BY <1>1, TypedInitial, TypedInductive, PTL DEF Spec

-----------------------------------------------------------------------------
(* The lock of a punctual worker is its own.                               *)

Locked ==
  \A w \in Workers :
    /\ job[w].pc \in {"claim", "review"} => job[w].holds
    /\ Punctual /\ job[w].holds => lock[PR[job[w].task]] = w

LockedBy(w) ==
  /\ job[w].pc \in {"claim", "review"} => job[w].holds
  /\ Punctual /\ job[w].holds => lock[PR[job[w].task]] = w

\* The locks of the others.
KeepsOthers(w) ==
  /\ \A v \in Workers \ {w} : job'[v] = job[v]
  /\ \A pr \in PRs, v \in Workers \ {w} : lock[pr] = v => lock'[pr] = v

LEMMA WorkerKeepsOthers ==
  ASSUME Typed, PipelineAssumption, NEW w \in Workers, WorkerStep(w) \/ WorkerFault(w)
  PROVE  KeepsOthers(w)
<1>1. job \in [Workers -> Jobs] /\ lock \in [PRs -> Workers \cup {Free, Orphan}]
  BY DEF Typed, TypeOK
<1> USE DEF store, queues, http, KeepsOthers
<1>2. \A v \in Workers \ {w} : job'[v] = job[v]
  BY <1>1 DEF WorkerStep, GetTask, AcquireLock, Defer, Claim, ReviewSucceeds, ReviewFails,
     ReviewSuperseded, MarkSuperseded, MarkDone, Retry, MarkRetry, DeadLetter, MarkDead,
     MarkFailed, Release, WorkerFault, GetTaskError, AcquireError, ClaimError,
     ReviewCommitLost, ReviewPanics, ReleaseError, Crash, Redeliver, Goto, Ack, NackRequeue
<1>3. \A pr \in PRs, v \in Workers \ {w} : lock[pr] = v => lock'[pr] = v
  <2>1. \A pr \in PRs, v \in Workers \ {w} : lock[pr] = v => Released(w)[pr] = v
    BY <1>1 DEF Released
  <2>2. CASE WorkerStep(w)
    BY <1>1, <2>1, <2>2, PipelineAssumption DEF WorkerStep, GetTask, AcquireLock, Defer, Claim,
       ReviewSucceeds, ReviewFails, ReviewSuperseded, MarkSuperseded, MarkDone, Retry,
       MarkRetry, DeadLetter, MarkDead, MarkFailed, Release
  <2>3. CASE WorkerFault(w)
    BY <1>1, <2>1, <2>3, PipelineAssumption DEF WorkerFault, GetTaskError, AcquireError,
       ClaimError, ReviewCommitLost, ReviewPanics, ReleaseError, Crash, Redeliver
  <2> QED
    BY <2>2, <2>3
<1> QED
  BY <1>2, <1>3

LEMMA WorkerLocked ==
  ASSUME Typed, Locked, PipelineAssumption, NEW w \in Workers, WorkerStep(w) \/ WorkerFault(w)
  PROVE  LockedBy(w)'
<1> DEFINE j == job[w]
           pr == PR[j.task]
<1>1. /\ job \in [Workers -> Jobs] /\ lock \in [PRs -> Workers \cup {Free, Orphan}]
      /\ j \in Jobs /\ LockedBy(w)
      /\ j.pc # "idle" => pr \in PRs
  BY PipelineAssumption DEF Typed, TypeOK, Occupied, Locked, LockedBy
<1>2. ASSUME NEW x, job' = [job EXCEPT ![w] = x], x.holds = FALSE,
             x.pc \notin {"claim", "review"}
      PROVE  LockedBy(w)'
  BY <1>1, <1>2 DEF LockedBy
<1>3. IdleJob.holds = FALSE /\ IdleJob.pc = "idle"
  BY DEF IdleJob
<1>4. ASSUME NEW x, job' = [job EXCEPT ![w] = x], x.holds = j.holds, x.task = j.task,
             x.pc \notin {"claim", "review"} \/ j.holds, UNCHANGED lock
      PROVE  LockedBy(w)'
  BY <1>1, <1>4 DEF LockedBy
<1>5. \A p : [j EXCEPT !.pc = p].holds = j.holds /\ [j EXCEPT !.pc = p].task = j.task
             /\ [j EXCEPT !.pc = p].pc = p
  BY <1>1 DEF Jobs
<1> USE DEF store, queues, http
<1>6. CASE GetTask(w)
  <2>1. job' \in {[job EXCEPT ![w] = x] : x \in {IdleJob, [j EXCEPT !.pc = "defer"],
          [[j EXCEPT !.seen = row[j.task].attempts, !.now = clock] EXCEPT !.pc = "lock"],
          [[j EXCEPT !.seen = row[j.task].attempts, !.now = clock] EXCEPT !.pc = "dead",
             !.next = NextAttempt(row[j.task].attempts, j.attempt)]}}
    BY <1>6 DEF GetTask, Ack, Goto
  <2> QED
    BY <1>1, <1>2, <1>3, <1>4, <1>6, <2>1 DEF Jobs, GetTask
<1>7. CASE AcquireLock(w)
  <2>1. CASE lock[pr] = Free /\ lock' = [lock EXCEPT ![pr] = w]
             /\ job' = [job EXCEPT ![w].pc = "claim", ![w].holds = TRUE]
    <3>1. j.pc = "lock"
      BY <1>7 DEF AcquireLock
    <3>2. job'[w].holds = TRUE /\ job'[w].task = j.task
      BY <1>1, <2>1 DEF Jobs
    <3>3. lock'[pr] = w
      BY <1>1, <2>1, <3>1
    <3> QED
      BY <3>2, <3>3 DEF LockedBy
  <2>2. CASE Goto(w, "defer") /\ UNCHANGED lock
    BY <1>1, <1>4, <1>5, <2>2 DEF Goto
  <2> QED
    BY <1>7, <2>1, <2>2 DEF AcquireLock
<1>8. CASE Ack(w)
  BY <1>2, <1>3, <1>8 DEF Ack
<1>9. NackRequeue(w) => Ack(w)
  BY DEF NackRequeue, Ack
<1>10. ASSUME NEW p, Goto(w, p), UNCHANGED lock, p \notin {"claim", "review"} \/ j.holds
       PROVE  LockedBy(w)'
  BY <1>1, <1>4, <1>5, <1>10 DEF Goto
<1>11. /\ Failing(w).holds = j.holds /\ Failing(w).task = j.task
       /\ Failing(w).pc \notin {"claim", "review"}
       /\ [Failing(w) EXCEPT !.holds = FALSE].holds = FALSE
       /\ [Failing(w) EXCEPT !.holds = FALSE].pc \notin {"claim", "review"}
  BY <1>1 DEF Failing, FailStep, Jobs
<1>12. /\ Returning(w).holds = j.holds
       /\ Returning(w).task = j.task \/ Returning(w) = IdleJob
       /\ Returning(w).pc \notin {"claim", "review"}
  BY <1>1 DEF Returning, IdleJob, Jobs
<1>13. ASSUME UNCHANGED lock,
              \/ job' = [job EXCEPT ![w] = Failing(w)]
              \/ job' = [job EXCEPT ![w] = Returning(w)]
       PROVE  LockedBy(w)'
  BY <1>2, <1>3, <1>4, <1>11, <1>12, <1>13
<1>14. CASE Defer(w) \/ Release(w) \/ GetTaskError(w) \/ AcquireError(w) \/ ClaimError(w)
            \/ ReleaseError(w) \/ Crash(w)
  BY <1>8, <1>9, <1>14 DEF Defer, Release, GetTaskError, AcquireError, ClaimError,
     ReleaseError, Crash
<1>15. CASE Claim(w)
  BY <1>1, <1>10, <1>15 DEF Claim, LockedBy
<1>16. CASE ReviewSucceeds(w) \/ ReviewSuperseded(w) \/ DeadLetter(w)
  BY <1>10, <1>16 DEF ReviewSucceeds, ReviewSuperseded, DeadLetter
<1>17. CASE ReviewFails(w) \/ ReviewCommitLost(w) \/ MarkSuperseded(w) \/ MarkDone(w)
            \/ MarkRetry(w) \/ MarkDead(w) \/ MarkFailed(w)
  BY <1>13, <1>17 DEF ReviewFails, ReviewCommitLost, MarkSuperseded, MarkDone,
     MarkRetry, MarkDead, MarkFailed
<1>18. CASE ReviewPanics(w)
  BY <1>2, <1>11, <1>18 DEF ReviewPanics
<1>19. CASE Retry(w)
  <2>1. PICK p \in {"markretry", "markfailed"} :
          job' = [job EXCEPT ![w] = [j EXCEPT !.pc = p, !.at = clock + 1]]
    BY <1>1, <1>19 DEF Retry
  <2> QED
    BY <1>1, <1>4, <1>19, <2>1 DEF Jobs, Retry
<1>20. CASE Redeliver(w)
  <2>1. job'[w].pc = j.pc /\ job'[w].holds = j.holds /\ job'[w].task = j.task
    BY <1>1, <1>20 DEF Redeliver, Jobs
  <2> QED
    BY <1>1, <1>20, <2>1 DEF Redeliver, LockedBy
<1> QED
  BY <1>6, <1>7, <1>14, <1>15, <1>16, <1>17, <1>18, <1>19, <1>20 DEF WorkerStep, WorkerFault

LEMMA LockedInductive == Typed /\ Locked /\ [Next]_vars => Locked'
<1> SUFFICES ASSUME Typed, Locked, [Next]_vars PROVE Locked'
  OBVIOUS
<1> USE PipelineAssumption
<1>1. ASSUME UNCHANGED <<lock, job>> PROVE Locked'
  BY <1>1 DEF Locked
<1>2. ASSUME NEW w \in Workers, KeepsOthers(w), LockedBy(w)' PROVE Locked'
  <2> SUFFICES ASSUME NEW v \in Workers, v # w PROVE LockedBy(v)'
    BY <1>2 DEF Locked, LockedBy
  <2>1. job'[v] = job[v] /\ LockedBy(v)
    BY <1>2 DEF KeepsOthers, Locked, LockedBy
  <2>2. job[v].holds /\ Punctual => PR[job[v].task] \in PRs
    BY <2>1, PipelineAssumption DEF Typed, TypeOK, Occupied
  <2> QED
    BY <1>2, <2>1, <2>2 DEF KeepsOthers, LockedBy
<1>3. CASE UNCHANGED vars
  BY <1>1, <1>3 DEF vars
<1>4. ASSUME NEW w \in Workers, NEW t \in Tasks, NEW a \in Attempts, Deliver(w, t, a)
      PROVE  Locked'
  <2>1. job'[w].pc = "get" /\ job'[w].holds = FALSE /\ \A v \in Workers \ {w} : job'[v] = job[v]
    BY <1>4 DEF Deliver, IdleJob, Typed, TypeOK
  <2> QED
    BY <1>4, <2>1 DEF Deliver, Locked
<1>5. ASSUME NEW w \in Workers, WorkerStep(w) \/ WorkerFault(w) PROVE Locked'
  BY <1>2, <1>5, WorkerKeepsOthers, WorkerLocked
<1>6. ASSUME NEW s \in Scanners, ScannerStep(s) \/ ScannerCrash(s) PROVE Locked'
  BY <1>1, <1>6 DEF ScannerStep, ListRunning, Recover, RecoverMark, ListQueued, Republish,
     ScannerCrash
<1>7. ASSUME NEW t \in Tasks, HttpStep(t) \/ HookStops(t) PROVE Locked'
  BY <1>1, <1>7 DEF HttpStep, HookCreate, HookQueued, HookPublish, HookFailed, Requeue,
     RequeuePublish, HookStops
<1>8. ASSUME Environment PROVE Locked'
  <2>1. ASSUME NEW pr \in PRs, LockExpires(pr) PROVE Locked'
    <3>1. Punctual => \A w \in Workers, q \in PRs : lock[q] = w => lock'[q] = w
      BY <2>1 DEF LockExpires, Typed, TypeOK
    <3>2. \A w \in Workers : Punctual /\ job[w].holds => lock[PR[job[w].task]] \in Workers
      BY DEF Locked
    <3>3. \A q : lock'[q] = lock[q] \/ q = pr
      BY <2>1 DEF LockExpires, Typed, TypeOK
    <3>4. Punctual => lock[pr] \notin Workers
      BY <2>1 DEF LockExpires
    <3> QED
      BY <2>1, <3>2, <3>3, <3>4 DEF Locked, LockExpires
  <2> QED
    BY <1>1, <1>8, <2>1 DEF Environment, Tick, Expire
<1> QED
  BY <1>3, <1>4, <1>5, <1>6, <1>7, <1>8 DEF Next

\* While every step keeps its time-out, no pull request is reviewed by two
\* workers at once.
THEOREM LockExcludes == Spec => [](Punctual => OneReviewPerPR)
<1>1. Init => Locked
  BY DEF Init, Locked, IdleJob
<1>2. Locked => (Punctual => OneReviewPerPR)
  BY DEF Locked, OneReviewPerPR
<1> QED
  BY <1>1, <1>2, TypedInitial, TypedInductive, LockedInductive, PTL DEF Spec

-----------------------------------------------------------------------------
(* The pipeline moves rows only as the life cycle allows.                  *)

\* The life cycle with its proofs, so that its theorems can be cited here.
LC == INSTANCE TaskLifecycle_proofs WITH
  status <- [t \in Tasks |-> row[t].status],
  attempts <- [t \in Tasks |-> row[t].attempts],
  delivered <- confirmed

\* A task is known once its row exists.
Known(t) == hook[t] # "idle"

\* The webhook has not marked the task queued: nobody could claim it.
Unclaimed ==
  \A t \in Tasks :
    /\ Known(t) <=> row[t].status # "absent"
    /\ hook[t] \in {"idle", "created"} =>
         /\ row[t].status \in {"absent", "received", "failed"}
         /\ row[t].attempts = 0 /\ t \notin confirmed
    /\ api[t] = "requeued" => Known(t)

\* Every message is of a known task and of an attempt that is allowed.
MessagesSound ==
  \A t \in Tasks, a \in Attempts :
    mainQ[t][a] > 0 \/ retryQ[t][a] > 0 => Known(t) /\ a < MaxAttempts

JobSound(j) ==
  /\ j.pc # "idle" \/ j.tag => Known(j.task) /\ j.attempt < MaxAttempts
  /\ j.seen < MaxAttempts
  /\ j.pc = "finish" => j.task \in confirmed
  /\ j.pc \in {"retry", "markretry"} => j.next \in 1 .. MaxAttempts - 1
  /\ j.pc \in {"dead", "markdead"} => j.next \in 1 .. MaxAttempts

ScanSound(c) ==
  /\ \A item \in c.todo : Known(item.task) /\ item.attempts < MaxAttempts
  /\ c.pc \in {"markretry", "markdead", "markfailed"} => Known(c.task)
  /\ c.pc = "markretry" => c.next \in 1 .. MaxAttempts - 1
  /\ c.pc = "markdead" => c.next \in 1 .. MaxAttempts

Sound ==
  /\ Unclaimed /\ MessagesSound
  /\ \A w \in Workers : JobSound(job[w])
  /\ \A s \in Scanners : ScanSound(scan[s])

RowStates == [t \in Tasks |-> row[t].status]
RowCounts == [t \in Tasks |-> row[t].attempts]

\* What a change of one row is to the life cycle.
LEMMA OneRow ==
  ASSUME Typed, NEW t \in Tasks, NEW r \in Row, row' = [row EXCEPT ![t] = r]
  PROVE  /\ RowStates' = [RowStates EXCEPT ![t] = r.status]
         /\ RowCounts' = [RowCounts EXCEPT ![t] = r.attempts]
         /\ r.attempts = row[t].attempts => RowCounts' = RowCounts
         /\ RowStates[t] = row[t].status /\ RowCounts[t] = row[t].attempts
         /\ r = row[t] => RowStates' = RowStates /\ RowCounts' = RowCounts
<1>1. row \in [Tasks -> Row]
  BY DEF Typed, TypeOK
<1>2. \A u \in Tasks : row'[u] = IF u = t THEN r ELSE row[u]
  BY <1>1
<1>3. RowStates' = [RowStates EXCEPT ![t] = r.status]
  <2>1. \A u \in Tasks : row'[u].status = IF u = t THEN r.status ELSE row[u].status
    BY <1>2
  <2>2. RowStates' = [u \in Tasks |-> IF u = t THEN r.status ELSE row[u].status]
    BY <2>1 DEF RowStates
  <2>3. [RowStates EXCEPT ![t] = r.status]
        = [u \in Tasks |-> IF u = t THEN r.status ELSE row[u].status]
    BY DEF RowStates
  <2> QED
    BY <2>2, <2>3
<1>4. RowCounts' = [RowCounts EXCEPT ![t] = r.attempts]
  <2>1. \A u \in Tasks : row'[u].attempts = IF u = t THEN r.attempts ELSE row[u].attempts
    BY <1>2
  <2>2. RowCounts' = [u \in Tasks |-> IF u = t THEN r.attempts ELSE row[u].attempts]
    BY <2>1 DEF RowCounts
  <2>3. [RowCounts EXCEPT ![t] = r.attempts]
        = [u \in Tasks |-> IF u = t THEN r.attempts ELSE row[u].attempts]
    BY DEF RowCounts
  <2> QED
    BY <2>2, <2>3
<1>5. r.attempts = row[t].attempts => RowCounts' = RowCounts
  BY <1>2 DEF RowCounts
<1>6. r = row[t] => row' = row
  BY <1>1
<1> QED
  BY <1>3, <1>4, <1>5, <1>6 DEF RowStates, RowCounts

\* The rows a status update leaves.
LEMMA Updates ==
  ASSUME NEW r \in Row, NEW s \in Status
  PROVE  LET u == UpdateTaskStatus(r, s) IN
         /\ u \in Row /\ u.attempts = r.attempts
         /\ IF CanUpdateStatus(r, s) THEN u.status = s ELSE u = r
BY DEF UpdateTaskStatus, Row, Status

\* What the life cycle's invariant says of the rows.
Bounded == \A t \in Tasks : LET r == row[t] IN
  /\ r.attempts \in 0 .. MaxAttempts
  /\ r.attempts = MaxAttempts => r.status \in Settled
  /\ t \in confirmed => r.status \in {"done", "failed"}
  /\ r.status = "done" => t \in confirmed

\* The life cycle's invariant bounds the rows.
LEMMA LifecycleBounds ==
  ASSUME Typed, Lifecycle!LifecycleInv
  PROVE  Bounded
<1>1. \A t \in Tasks : RowStates[t] = row[t].status /\ RowCounts[t] = row[t].attempts
  BY DEF RowStates, RowCounts
<1>2. /\ RowCounts \in [Tasks -> 0 .. MaxAttempts]
      /\ \A t \in Tasks :
           /\ RowCounts[t] = MaxAttempts => RowStates[t] \in Settled
           /\ t \in confirmed => RowStates[t] \in {"done", "failed"}
           /\ RowStates[t] = "done" => t \in confirmed
  BY DEF Lifecycle!LifecycleInv, Lifecycle!LifecycleTypeOK, Lifecycle!CountInBounds,
     Lifecycle!DeliveredSettled, RowStates, RowCounts, Settled
<1> QED
  BY <1>1, <1>2 DEF Bounded

\* Each transaction is a move of the life cycle, when its caller is right.
LEMMA Moves ==
  ASSUME Typed, Bounded, PipelineAssumption, MaxAttemptsAssumption,
         NEW t \in Tasks, NEW r \in Row, row' = [row EXCEPT ![t] = r]
  PROVE  LET q == row[t]
             n == r.attempts
             same == n = q.attempts
             kept == UNCHANGED confirmed
         IN
         /\ q.status = "absent" /\ r.status = "received" /\ same /\ kept => Lifecycle!Create(t)
         /\ /\ q.status \in {"received", "failed"} /\ q.attempts = 0 /\ t \notin confirmed
            /\ r.status = "queued" /\ same /\ kept
            => Lifecycle!Enqueue(t)
         /\ /\ q.status \in {"queued", "retrying", "running"} /\ r.status = "running" /\ kept
            /\ n \in q.attempts .. MaxAttempts - 1 /\ (q.status = "running" => n > q.attempts)
            => Lifecycle!Start(t)
         /\ q.status = "running" /\ r.status = "retrying" /\ n \in 1 .. MaxAttempts - 1 /\ kept
            => Lifecycle!Backoff(t)
         /\ q.status = "running" /\ r.status = "dead_letter" /\ n \in 1 .. MaxAttempts /\ kept
            => Lifecycle!DeadLettered(t)
         /\ q.status = "running" /\ r.status = "done" /\ same /\ confirmed' = confirmed \cup {t}
            => Lifecycle!Delivered(t)
         /\ q.status = "failed" /\ r.status = "done" /\ t \in confirmed /\ same /\ kept
            => Lifecycle!Confirm(t)
         /\ q.status = "running" /\ r.status = "superseded" /\ same /\ kept
            => Lifecycle!Supersede(t)
         /\ q.status \notin {"absent", "superseded"} /\ r.status = "failed" /\ same /\ kept
            => Lifecycle!Fail(t)
         /\ q.status = "dead_letter" /\ r.status = "queued" /\ n = 0 /\ kept
            => Lifecycle!Requeued(t)
<1> DEFINE q == row[t]
           n == r.attempts
<1>1. /\ RowStates' = [RowStates EXCEPT ![t] = r.status]
      /\ RowCounts' = [RowCounts EXCEPT ![t] = n]
      /\ n = q.attempts => RowCounts' = RowCounts
      /\ RowStates[t] = q.status /\ RowCounts[t] = q.attempts
  BY OneRow
<1>2. q.status \in Status \cup {"absent"}
  BY DEF Typed, TypeOK, Row
<1> HIDE DEF q, n
<1> QED
  BY <1>1, <1>2 DEF Lifecycle!Create, Lifecycle!Enqueue, Lifecycle!Start, Lifecycle!Backoff,
     Lifecycle!DeadLettered, Lifecycle!Delivered, Lifecycle!Confirm, Lifecycle!Supersede,
     Lifecycle!Fail, Lifecycle!Requeued, Lifecycle!Move, Lifecycle!Count, Lifecycle!Statuses,
     Status, RowStates, RowCounts, q, n

\* A move of a row that exists, or none.
Onward ==
  \/ \E t \in Tasks :
       \/ Lifecycle!Start(t) \/ Lifecycle!Backoff(t) \/ Lifecycle!DeadLettered(t)
       \/ Lifecycle!Delivered(t) \/ Lifecycle!Confirm(t) \/ Lifecycle!Supersede(t)
       \/ Lifecycle!Fail(t) \/ Lifecycle!Requeued(t)
  \/ UNCHANGED <<row, confirmed>>
  \/ UNCHANGED <<RowStates, RowCounts, confirmed>>

Moved == Onward \/ Lifecycle!LifecycleNext

\* A status update to failed moves the row of a known task, or nothing.
LEMMA FailMoves ==
  ASSUME Typed, Sound, Bounded, PipelineAssumption, MaxAttemptsAssumption,
         NEW t \in Tasks, Known(t), NEW ok \in BOOLEAN,
         Transact(t, UpdateTaskStatus(row[t], "failed"), ok), UNCHANGED confirmed
  PROVE  Onward
<1> DEFINE u == UpdateTaskStatus(row[t], "failed")
<1>1. row \in [Tasks -> Row] /\ row[t] \in Row /\ row[t].status # "absent"
  BY DEF Typed, TypeOK, Sound, Unclaimed
<1>2. /\ u \in Row /\ u.attempts = row[t].attempts
      /\ u = row[t] \/ (u.status = "failed" /\ row[t].status # "superseded")
  BY <1>1, Updates DEF Status, CanUpdateStatus
<1>3. row' = [row EXCEPT ![t] = u] \/ row' = row
  BY DEF Transact
<1> HIDE DEF u
<1>4. CASE row' = [row EXCEPT ![t] = u] /\ u # row[t]
  <2>1. Lifecycle!Fail(t)
    BY <1>1, <1>2, <1>4, Moves
  <2> QED
    BY <2>1 DEF Onward
<1>5. [row EXCEPT ![t] = row[t]] = row
  BY <1>1
<1> QED
  BY <1>3, <1>4, <1>5 DEF Onward

\* The marks of worker and scanner.
LEMMA MarkMoves ==
  ASSUME Typed, Sound, Bounded, PipelineAssumption, MaxAttemptsAssumption,
         NEW t \in Tasks, NEW ok \in BOOLEAN, NEW n \in Nat, NEW at \in Nat, UNCHANGED confirmed,
         \/ n \in 1 .. MaxAttempts - 1 /\ Transact(t, MarkTaskRetry(row[t], n, at), ok)
         \/ n \in 1 .. MaxAttempts /\ Transact(t, MarkTaskDeadLetter(row[t], n), ok)
  PROVE  Onward
<1>1. row \in [Tasks -> Row] /\ row[t] \in Row
  BY DEF Typed, TypeOK
<1>2. CASE row' = row
  BY <1>2 DEF Onward
<1>3. [row EXCEPT ![t] = row[t]] = row
  BY <1>1
<1>4. CASE n \in 1 .. MaxAttempts - 1 /\ row' = [row EXCEPT ![t] = MarkTaskRetry(row[t], n, at)]
           /\ CanMark(row[t])
  <2>1. ASSUME NEW r, r = MarkTaskRetry(row[t], n, at)
        PROVE  r \in Row /\ r.status = "retrying" /\ r.attempts = n
    BY <1>1, <1>4, <2>1 DEF MarkTaskRetry, Row, Status
  <2>2. Lifecycle!Backoff(t)
    BY <1>4, <2>1, Moves DEF CanMark
  <2> QED
    BY <2>2 DEF Onward
<1>5. CASE n \in 1 .. MaxAttempts /\ row' = [row EXCEPT ![t] = MarkTaskDeadLetter(row[t], n)]
           /\ CanMark(row[t])
  <2>1. ASSUME NEW r, r = MarkTaskDeadLetter(row[t], n)
        PROVE  r \in Row /\ r.status = "dead_letter" /\ r.attempts = n
    BY <1>1, <1>5, <2>1 DEF MarkTaskDeadLetter, Row, Status
  <2>2. Lifecycle!DeadLettered(t)
    BY <1>5, <2>1, Moves DEF CanMark
  <2> QED
    BY <2>2 DEF Onward
<1>6. ~CanMark(row[t]) => MarkTaskRetry(row[t], n, at) = row[t]
                          /\ MarkTaskDeadLetter(row[t], n) = row[t]
  BY DEF MarkTaskRetry, MarkTaskDeadLetter
<1> QED
  BY <1>2, <1>3, <1>4, <1>5, <1>6 DEF Transact

\* A worker that claims a task moves its row, or loses the claim.
LEMMA ClaimMoves ==
  ASSUME Typed, Sound, Bounded, PipelineAssumption, MaxAttemptsAssumption,
         NEW w \in Workers, NEW t \in Tasks, NEW a \in Attempts,
         t = job[w].task, a = job[w].attempt, job[w].pc = "claim",
         CanClaim(row[t], a, job[w].now),
         row' = [row EXCEPT ![t] = ClaimTask(row[t], a)], UNCHANGED confirmed
  PROVE  Onward
<1>1. row[t] \in Row /\ a < MaxAttempts
  BY DEF Typed, TypeOK, Sound, JobSound
<1>2. /\ row[t].attempts \in 0 .. MaxAttempts
      /\ row[t].status \in {"queued", "retrying", "running"}
      /\ row[t].attempts # MaxAttempts
      /\ row[t].status = "running" => a > row[t].attempts
  BY DEF Bounded, CanClaim, Settled
<1>3. PICK r \in Row : /\ r = ClaimTask(row[t], a) /\ r.status = "running"
                        /\ r.attempts = IF a > row[t].attempts THEN a ELSE row[t].attempts
  <2>1. ASSUME NEW r, r = ClaimTask(row[t], a)
        PROVE  /\ r \in Row /\ r.status = "running"
               /\ r.attempts = IF a > row[t].attempts THEN a ELSE row[t].attempts
    <3>0. a \in Nat /\ 0 \in Nat
      BY DEF Attempts
    <3>1. r \in Row
      BY <1>1, <2>1, <3>0, RowTypes
    <3>2. r.status = "running"
      BY <1>1, <2>1 DEF ClaimTask, Row
    <3>3. r.attempts = IF a > row[t].attempts THEN a ELSE row[t].attempts
      BY <1>1, <2>1 DEF ClaimTask, Row
    <3> QED
      BY <3>1, <3>2, <3>3
  <2> QED
    BY <2>1
<1>4. row' = [row EXCEPT ![t] = r]
  BY <1>3
<1>5. /\ r.attempts \in row[t].attempts .. MaxAttempts - 1
      /\ row[t].status = "running" => r.attempts > row[t].attempts
  <2>1. /\ row[t].attempts \in Nat /\ row[t].attempts < MaxAttempts
        /\ a \in Nat /\ MaxAttempts \in Nat
    BY <1>2, MaxAttemptsAssumption DEF Attempts
  <2> QED
    BY <1>1, <1>2, <1>3, <2>1
<1>6. Lifecycle!Start(t)
  BY <1>1, <1>2, <1>3, <1>4, <1>5, Moves
<1> QED
  BY <1>1, <1>6 DEF Onward

\* MarkReviewDelivered confirms the delivery of a running task, or does nothing.
LEMMA DeliveredMoves ==
  ASSUME Typed, Sound, Bounded, PipelineAssumption, MaxAttemptsAssumption,
         NEW t \in Tasks, t \notin confirmed, CanMarkDelivered(row[t]),
         row' = [row EXCEPT ![t] = MarkReviewDelivered(row[t])],
         confirmed' = confirmed \cup {t}
  PROVE  Onward
<1>1. row[t] \in Row /\ row[t].status = "running"
  BY DEF Typed, TypeOK, Bounded, CanMarkDelivered
<1>2. ASSUME NEW r, r = MarkReviewDelivered(row[t])
      PROVE  r \in Row /\ r.status = "done" /\ r.attempts = row[t].attempts
  BY <1>1, <1>2 DEF MarkReviewDelivered, Row, Status
<1>3. Lifecycle!Delivered(t)
  BY <1>1, <1>2, Moves
<1> QED
  BY <1>3 DEF Onward

\* Every step of a worker is a move of one row, or leaves the rows alone.
LEMMA WorkerMoves ==
  ASSUME Typed, Sound, Bounded, PipelineAssumption, MaxAttemptsAssumption, NEW w \in Workers,
         WorkerStep(w) \/ WorkerFault(w)
  PROVE  Onward
<1>1. job[w] \in Jobs /\ row \in [Tasks -> Row] /\ JobSound(job[w])
  BY DEF Typed, TypeOK, Sound
<1> USE DEF store, queues, http
<1>2. CASE UNCHANGED store
  BY <1>2 DEF Onward
<1>3. SUFFICES ASSUME ~UNCHANGED store PROVE Onward
  BY <1>2
<1>4. \/ Claim(w) \/ ClaimError(w) \/ ReviewSucceeds(w) \/ ReviewCommitLost(w)
      \/ MarkSuperseded(w) \/ MarkDone(w) \/ MarkRetry(w) \/ MarkDead(w) \/ MarkFailed(w)
  BY <1>3 DEF WorkerStep, WorkerFault, GetTask, AcquireLock, Defer, ReviewFails,
     ReviewSuperseded, Retry, DeadLetter, Release, GetTaskError, AcquireError, ReviewPanics,
     ReleaseError, Crash, Redeliver
<1>5. job[w].pc # "idle"
  BY <1>4 DEF Claim, ClaimError, ReviewSucceeds, ReviewCommitLost, MarkSuperseded, MarkDone,
     MarkRetry, MarkDead, MarkFailed
<1>6. job[w].task \in Tasks /\ Known(job[w].task)
  BY <1>1, <1>5 DEF Typed, Occupied, JobSound
<1>7. PICK t \in Tasks, a \in Attempts, n \in Nat, at \in Nat :
        t = job[w].task /\ a = job[w].attempt /\ n = job[w].next /\ at = job[w].at
  BY <1>1, <1>6 DEF Jobs
<1>8. Known(t) /\ row[t] \in Row
  BY <1>1, <1>6, <1>7
<1>9. [row EXCEPT ![t] = row[t]] = row
  BY <1>1
<1>10. CASE Claim(w) \/ ClaimError(w)
  <2>1. \/ row' = row
        \/ CanClaim(row[t], a, job[w].now) /\ row' = [row EXCEPT ![t] = ClaimTask(row[t], a)]
    BY <1>7, <1>9, <1>10 DEF Claim, ClaimError
  <2>2. job[w].pc = "claim" /\ UNCHANGED confirmed
    BY <1>10 DEF Claim, ClaimError
  <2> QED
    BY <1>7, <2>1, <2>2, ClaimMoves DEF Onward
<1>11. CASE ReviewSucceeds(w) \/ ReviewCommitLost(w)
  <2>1. /\ t \notin confirmed /\ CanMarkDelivered(row[t])
        /\ row' = [row EXCEPT ![t] = MarkReviewDelivered(row[t])]
        /\ confirmed' = confirmed \cup {t}
    BY <1>3, <1>7, <1>11 DEF ReviewSucceeds, ReviewCommitLost
  <2> QED
    BY <2>1, DeliveredMoves
<1>12. CASE MarkSuperseded(w)
  <2> DEFINE u == UpdateTaskStatus(row[t], "superseded")
  <2>1. row' = [row EXCEPT ![t] = u] \/ row' = row
    BY <1>7, <1>12 DEF MarkSuperseded, Transact
  <2>2. /\ u \in Row /\ u.attempts = row[t].attempts
        /\ \/ u = row[t]
           \/ u.status = "superseded" /\ row[t].status = "running"
           \/ u.status = "superseded" /\ row[t].status = "superseded"
    BY <1>8, Updates DEF Status, CanUpdateStatus
  <2>3. UNCHANGED confirmed
    BY <1>12 DEF MarkSuperseded
  <2> HIDE DEF u
  <2>4. CASE row' = [row EXCEPT ![t] = u] /\ u.status = "superseded" /\ row[t].status = "running"
    <3>1. Lifecycle!Supersede(t)
      BY <2>2, <2>3, <2>4, Moves
    <3> QED
      BY <3>1 DEF Onward
  <2>5. CASE row' = [row EXCEPT ![t] = u] /\ u.status = "superseded"
             /\ row[t].status = "superseded"
    <3>1. RowStates' = RowStates /\ RowCounts' = RowCounts
      <4>1. \A v \in Tasks : row'[v].status = row[v].status /\ row'[v].attempts = row[v].attempts
        BY <1>1, <2>2, <2>5
      <4> QED
        BY <4>1 DEF RowStates, RowCounts
    <3> QED
      BY <2>3, <3>1 DEF Onward
  <2> QED
    BY <1>9, <2>1, <2>2, <2>3, <2>4, <2>5 DEF Onward
<1>13. CASE MarkDone(w)
  <2> DEFINE u == UpdateTaskStatus(row[t], "done")
  <2>1. row' = [row EXCEPT ![t] = u] \/ row' = row
    BY <1>7, <1>13 DEF MarkDone, Transact
  <2>2. t \in confirmed
    BY <1>1, <1>7, <1>13 DEF MarkDone, JobSound
  <2>3. row[t].status \in {"done", "failed"}
    BY <2>2 DEF Bounded
  <2>4. u \in Row /\ u.attempts = row[t].attempts /\ u.status = "done"
    BY <1>8, <2>3, Updates DEF Status, CanUpdateStatus
  <2>5. UNCHANGED confirmed
    BY <1>13 DEF MarkDone
  <2>6. row[t].status = "done" => u = row[t]
    BY <1>8 DEF UpdateTaskStatus, Row
  <2> HIDE DEF u
  <2>7. CASE row' = [row EXCEPT ![t] = u] /\ row[t].status = "failed"
    <3>1. Lifecycle!Confirm(t)
      BY <2>2, <2>4, <2>5, <2>7, Moves
    <3> QED
      BY <3>1 DEF Onward
  <2> QED
    BY <1>9, <2>1, <2>3, <2>5, <2>6, <2>7 DEF Onward
<1>14. CASE MarkRetry(w) \/ MarkDead(w)
  <2>1. PICK ok \in BOOLEAN :
          \/ job[w].pc = "markretry" /\ Transact(t, MarkTaskRetry(row[t], n, at), ok)
          \/ job[w].pc = "markdead" /\ Transact(t, MarkTaskDeadLetter(row[t], n), ok)
    BY <1>7, <1>14 DEF MarkRetry, MarkDead
  <2>2. /\ job[w].pc = "markretry" => n \in 1 .. MaxAttempts - 1
        /\ job[w].pc = "markdead" => n \in 1 .. MaxAttempts
    BY <1>1, <1>7 DEF JobSound
  <2>3. UNCHANGED confirmed
    BY <1>14 DEF MarkRetry, MarkDead
  <2> QED
    BY <2>1, <2>2, <2>3, MarkMoves
<1>15. CASE MarkFailed(w)
  <2>1. PICK ok \in BOOLEAN : Transact(t, UpdateTaskStatus(row[t], "failed"), ok)
    BY <1>7, <1>15 DEF MarkFailed
  <2>2. UNCHANGED confirmed
    BY <1>15 DEF MarkFailed
  <2> QED
    BY <1>8, <2>1, <2>2, FailMoves
<1> QED
  BY <1>4, <1>10, <1>11, <1>12, <1>13, <1>14, <1>15

\* So is every step of a recovery loop.
LEMMA ScannerMoves ==
  ASSUME Typed, Sound, Bounded, PipelineAssumption, MaxAttemptsAssumption, NEW s \in Scanners,
         ScannerStep(s) \/ ScannerCrash(s)
  PROVE  Onward
<1>1. CASE RecoverMark(s)
  <2>1. /\ scan[s] \in Scans /\ ScanSound(scan[s]) /\ scan[s].task \in Tasks
        /\ scan[s].pc \in {"markretry", "markdead", "markfailed"}
    BY <1>1 DEF RecoverMark, Typed, TypeOK, Occupied, Sound
  <2>2. PICK t \in Tasks, n \in Nat, at \in Nat :
          t = scan[s].task /\ n = scan[s].next /\ at = scan[s].at
    BY <2>1 DEF Scans
  <2>3. /\ Known(t)
        /\ scan[s].pc = "markretry" => n \in 1 .. MaxAttempts - 1
        /\ scan[s].pc = "markdead" => n \in 1 .. MaxAttempts
    BY <2>1, <2>2 DEF ScanSound
  <2>4. PICK ok \in BOOLEAN :
          \/ scan[s].pc = "markretry" /\ Transact(t, MarkTaskRetry(row[t], n, at), ok)
          \/ scan[s].pc = "markdead" /\ Transact(t, MarkTaskDeadLetter(row[t], n), ok)
          \/ Transact(t, UpdateTaskStatus(row[t], "failed"), ok)
    BY <1>1, <2>2 DEF RecoverMark
  <2>5. UNCHANGED confirmed
    BY <1>1 DEF RecoverMark
  <2> QED
    BY <2>3, <2>4, <2>5, FailMoves, MarkMoves
<1>2. CASE ~RecoverMark(s)
  <2>1. UNCHANGED store
    BY <1>2 DEF ScannerStep, ListRunning, Recover, ListQueued, Republish, ScannerCrash
  <2> QED
    BY <2>1 DEF Onward, store
<1> QED
  BY <1>1, <1>2

\* A manual requeue starts the life of a failed row again.
LEMMA RequeueMoves ==
  ASSUME Typed, Sound, Bounded, PipelineAssumption, MaxAttemptsAssumption, NEW t \in Tasks,
         Requeue(t)
  PROVE  Onward
<1>1. row[t] \in Row
  BY DEF Typed, TypeOK
<1>2. PICK u \in Row : u = RequeueTask(row[t]) /\ u.status = "queued" /\ u.attempts = 0
  <2>1. ASSUME NEW u, u = RequeueTask(row[t])
        PROVE  u \in Row /\ u.status = "queued" /\ u.attempts = 0
    BY <1>1, <2>1 DEF RequeueTask, Row, Status
  <2> QED
    BY <2>1
<1>3. Lifecycle!Requeued(t)
  BY <1>2, Moves DEF Requeue, CanRequeue
<1> QED
  BY <1>3 DEF Onward

\* The HTTP handlers create, queue, fail and requeue rows.
LEMMA HttpMoves ==
  ASSUME Typed, Sound, Bounded, PipelineAssumption, MaxAttemptsAssumption, NEW t \in Tasks,
         HttpStep(t) \/ HookStops(t)
  PROVE  Moved
<1>1. row \in [Tasks -> Row] /\ row[t] \in Row
  BY DEF Typed, TypeOK
<1>2. CASE HookCreate(t)
  <2>1. /\ row[t].status = "absent" /\ row[t].attempts = 0 /\ CreateTask \in Row
        /\ CreateTask.status = "received" /\ CreateTask.attempts = 0
    BY <1>2 DEF HookCreate, Sound, Unclaimed, Known, CreateTask, Row, Status
  <2>2. Lifecycle!Create(t)
    BY <1>2, <2>1, Moves DEF HookCreate
  <2> QED
    BY <2>2 DEF Moved, Lifecycle!LifecycleNext
<1>3. CASE HookQueued(t)
  <2>1. /\ row[t].status \in {"received", "failed"} /\ row[t].attempts = 0
        /\ t \notin confirmed
    BY <1>3 DEF HookQueued, Sound, Unclaimed, Known
  <2>2. PICK u \in Row : /\ u = UpdateTaskStatus(row[t], "queued") /\ u.status = "queued"
                         /\ u.attempts = row[t].attempts
    BY <1>1, <2>1, Updates DEF Status, CanUpdateStatus
  <2>3. row' = [row EXCEPT ![t] = u] \/ row' = row
    BY <1>3, <2>2 DEF HookQueued, Transact
  <2>4. UNCHANGED confirmed
    BY <1>3 DEF HookQueued
  <2>5. row' = [row EXCEPT ![t] = u] => Lifecycle!Enqueue(t)
    BY <2>1, <2>2, <2>4, Moves
  <2> QED
    BY <2>3, <2>4, <2>5 DEF Moved, Onward, Lifecycle!LifecycleNext
<1>4. CASE HookFailed(t)
  <2>1. Known(t) /\ UNCHANGED confirmed
    BY <1>4 DEF HookFailed, Known
  <2> QED
    BY <1>4, <2>1, FailMoves DEF HookFailed, Moved
<1>5. CASE Requeue(t)
  BY <1>5, RequeueMoves DEF Moved
<1>6. CASE HookPublish(t) \/ RequeuePublish(t) \/ HookStops(t)
  BY <1>6 DEF HookPublish, RequeuePublish, HookStops, store, Moved, Onward
<1> QED
  BY <1>2, <1>3, <1>4, <1>5, <1>6 DEF HttpStep

\* Every step of the pipeline is a move of the life cycle, or none.
LEMMA NextMoves == Typed /\ Sound /\ Bounded /\ [Next]_vars => Moved
<1> SUFFICES ASSUME Typed, Sound, Bounded, [Next]_vars PROVE Moved
  OBVIOUS
<1>1. CASE UNCHANGED vars
  BY <1>1 DEF vars, Moved, Onward
<1>2. ASSUME NEW w \in Workers, NEW t \in Tasks, NEW a \in Attempts, Deliver(w, t, a)
      PROVE  Moved
  BY <1>2 DEF Deliver, Moved, Onward, store
<1>3. CASE Environment
  BY <1>3 DEF Environment, Tick, Expire, LockExpires, Moved, Onward, store
<1> QED
  BY <1>1, <1>2, <1>3, PipelineAssumption, MaxAttemptsAssumption, WorkerMoves, ScannerMoves,
     HttpMoves DEF Next, Moved

\* A move is a step of the life cycle.
LEMMA MovedSteps == Moved => [Lifecycle!LifecycleNext]_(Lifecycle!lifecycle)
BY DEF Moved, Onward, Lifecycle!LifecycleNext, Lifecycle!lifecycle, RowStates, RowCounts

\* Both instances of the life cycle have one invariant.
LEMMA SameInv == LC!LifecycleInv <=> Lifecycle!LifecycleInv
BY DEF LC!LifecycleInv, LC!LifecycleTypeOK, LC!CountInBounds, LC!DeliveredSettled, LC!Statuses,
  Lifecycle!LifecycleInv, Lifecycle!LifecycleTypeOK, Lifecycle!CountInBounds,
  Lifecycle!DeliveredSettled, Lifecycle!Statuses

\* Both instances of the life cycle have one next-state relation.
LEMMA SameNext == LC!LifecycleNext <=> Lifecycle!LifecycleNext
BY DEF LC!LifecycleNext, LC!Create, LC!Enqueue, LC!Start, LC!Backoff,
     LC!DeadLettered, LC!Delivered, LC!Confirm, LC!Supersede,
     LC!Fail, LC!Requeued, LC!Move, LC!Count, LC!Statuses,
 Lifecycle!LifecycleNext, Lifecycle!Create, Lifecycle!Enqueue, Lifecycle!Start, Lifecycle!Backoff,
     Lifecycle!DeadLettered, Lifecycle!Delivered, Lifecycle!Confirm, Lifecycle!Supersede,
     Lifecycle!Fail, Lifecycle!Requeued, Lifecycle!Move, Lifecycle!Count, Lifecycle!Statuses

\* A move keeps the life cycle's invariant.
LEMMA BoundsKept == Lifecycle!LifecycleInv /\ Moved => Lifecycle!LifecycleInv'
<1>1. LC!LifecycleInv /\ [LC!LifecycleNext]_(LC!lifecycle) => LC!LifecycleInv'
  BY LC!LifecycleInductive, MaxAttemptsAssumption
<1>2. LC!LifecycleInv <=> Lifecycle!LifecycleInv
  BY SameInv
<1>3. LC!LifecycleInv' <=> Lifecycle!LifecycleInv'
  BY SameInv, PTL
<1>4. [LC!LifecycleNext]_(LC!lifecycle) <=> [Lifecycle!LifecycleNext]_(Lifecycle!lifecycle)
  BY SameNext DEF LC!lifecycle, Lifecycle!lifecycle
<1> QED
  BY <1>1, <1>2, <1>3, <1>4, MovedSteps

-----------------------------------------------------------------------------
(* Whoever acts on a task counts right.                                    *)

\* Nothing that is known is forgotten.
Later ==
  /\ \A t \in Tasks : Known(t) => Known(t)'
  /\ confirmed \subseteq confirmed'

\* Nothing known is forgotten, and no delivery withdrawn.
LEMMA OnwardKeeps ==
  ASSUME Typed, Sound, Onward, \A t \in Tasks : Known(t)' <=> Known(t),
         \A t \in Tasks : hook'[t] = "created" => hook[t] = "created",
         \A t \in Tasks : api'[t] = "requeued" => api[t] = "requeued" \/ Known(t)
  PROVE  Unclaimed' /\ Later
<1>1. \A t \in Tasks : RowStates[t] = row[t].status /\ RowCounts[t] = row[t].attempts
  BY DEF RowStates, RowCounts
<1>2. \A t \in Tasks : RowStates'[t] = row'[t].status /\ RowCounts'[t] = row'[t].attempts
  BY DEF RowStates, RowCounts
<1>3. /\ \A t \in Tasks : RowStates[t] = "absent" <=> RowStates'[t] = "absent"
      /\ \A t \in Tasks :
           RowStates[t] \in {"absent", "received", "failed"} /\ t \notin confirmed
           => /\ RowStates'[t] \in {"absent", "received", "failed"} /\ t \notin confirmed'
              /\ RowCounts'[t] = RowCounts[t]
      /\ confirmed \subseteq confirmed'
  <2>1. CASE UNCHANGED <<row, confirmed>> \/ UNCHANGED <<RowStates, RowCounts, confirmed>>
    BY <2>1 DEF RowStates, RowCounts
  <2>2. ASSUME NEW t \in Tasks,
               \/ Lifecycle!Start(t) \/ Lifecycle!Backoff(t) \/ Lifecycle!DeadLettered(t)
               \/ Lifecycle!Delivered(t) \/ Lifecycle!Confirm(t) \/ Lifecycle!Supersede(t)
               \/ Lifecycle!Fail(t) \/ Lifecycle!Requeued(t)
        PROVE  <1>3
    <3>1. /\ RowStates \in [Tasks -> Status \cup {"absent"}]
          /\ RowCounts \in [Tasks -> Nat]
      BY DEF Typed, TypeOK, Row, RowStates, RowCounts
    <3>2. PICK st : RowStates' = [RowStates EXCEPT ![t] = st] /\ st # "absent"
                    /\ RowStates[t] # "absent"
                     /\ (RowStates[t] \in {"received", "failed"} /\ t \notin confirmed
                           => st = "failed")
      BY <2>2 DEF Lifecycle!Start, Lifecycle!Backoff, Lifecycle!DeadLettered,
         Lifecycle!Delivered, Lifecycle!Confirm, Lifecycle!Supersede, Lifecycle!Fail,
         Lifecycle!Requeued, Lifecycle!Move, Lifecycle!Statuses, RowStates
    <3>3. \/ confirmed' = confirmed
          \/ RowStates[t] = "running" /\ confirmed' = confirmed \cup {t}
      BY <2>2 DEF Lifecycle!Start, Lifecycle!Backoff, Lifecycle!DeadLettered,
         Lifecycle!Delivered, Lifecycle!Confirm, Lifecycle!Supersede, Lifecycle!Fail,
         Lifecycle!Requeued, Lifecycle!Move, RowStates
    <3>4. \/ RowCounts' = RowCounts
          \/ /\ RowStates[t] \notin {"received", "failed", "absent"}
             /\ \E n : RowCounts' = [RowCounts EXCEPT ![t] = n]
      BY <2>2 DEF Lifecycle!Start, Lifecycle!Backoff, Lifecycle!DeadLettered,
         Lifecycle!Delivered, Lifecycle!Confirm, Lifecycle!Supersede, Lifecycle!Fail,
         Lifecycle!Requeued, Lifecycle!Move, Lifecycle!Count, RowStates, RowCounts
    <3>5. /\ \A u \in Tasks : RowStates[u] = "absent" <=> RowStates'[u] = "absent"
          /\ \A u \in Tasks : u # t => RowStates'[u] = RowStates[u]
      BY <3>1, <3>2
    <3>6. \A u \in Tasks : u # t \/ RowStates[t] \in {"received", "failed", "absent"} =>
            RowCounts'[u] = RowCounts[u]
      BY <3>1, <3>4
    <3>7. RowStates'[t] = st
      BY <3>1, <3>2
    <3> QED
      BY <3>2, <3>3, <3>5, <3>6, <3>7
  <2> QED
    BY <2>1, <2>2 DEF Onward
<1>4. Later
  BY <1>3 DEF Later
<1>5. ASSUME NEW t \in Tasks
      PROVE  /\ Known(t)' <=> row'[t].status # "absent"
             /\ hook'[t] \in {"idle", "created"} =>
                  /\ row'[t].status \in {"absent", "received", "failed"}
                  /\ row'[t].attempts = 0 /\ t \notin confirmed'
             /\ api'[t] = "requeued" => Known(t)'
  <2>1. /\ Known(t) <=> RowStates[t] # "absent"
        /\ hook[t] \in {"idle", "created"} =>
             /\ RowStates[t] \in {"absent", "received", "failed"}
             /\ RowCounts[t] = 0 /\ t \notin confirmed
        /\ api[t] = "requeued" => Known(t)
    BY <1>1 DEF Sound, Unclaimed
  <2>2. hook'[t] \in {"idle", "created"} => hook[t] \in {"idle", "created"}
    BY DEF Known
  <2> QED
    BY <1>2, <1>3, <2>1, <2>2
<1> QED
  BY <1>4, <1>5 DEF Unclaimed

\* The messages of p are those of q, and perhaps one more of (t, a).
AtMostPut(q, p, t, a) ==
  \A u \in Tasks, b \in Attempts : p[u][b] > 0 => q[u][b] > 0 \/ (u = t /\ b = a)

\* What Put and Take do to a message's count.
LEMMA PutTake ==
  ASSUME NEW q \in Queue, NEW t \in Tasks, NEW a \in Nat
  PROVE  /\ AtMostPut(q, q, t, a) /\ AtMostPut(q, Put(q, t, a), t, a)
         /\ \A n \in Attempts : AtMostPut(q, Take(q, t, n), t, a)
<1>1. \A u \in Tasks : q[u] \in [Attempts -> Nat]
  BY DEF Queue
<1>2. ASSUME NEW u \in Tasks, NEW b \in Attempts
      PROVE  /\ Put(q, t, a)[u][b] = IF u = t /\ b = a THEN q[u][b] + 1 ELSE q[u][b]
             /\ \A n \in Attempts :
                  Take(q, t, n)[u][b] = IF u = t /\ b = n THEN q[u][b] - 1 ELSE q[u][b]
  <2>1. q[u] \in [Attempts -> Nat] /\ q[t] \in [Attempts -> Nat]
    BY <1>1
  <2>2. CASE u # t
    BY <2>2 DEF Queue, Put, Take
  <2>3. CASE u = t
    <3>1. Put(q, t, a)[t] = [q[t] EXCEPT ![a] = @ + 1]
      BY DEF Queue, Put
    <3>2. \A n \in Attempts : Take(q, t, n)[t] = [q[t] EXCEPT ![n] = @ - 1]
      BY DEF Queue, Take
    <3>3. Put(q, t, a)[t][b] = IF b = a THEN q[t][b] + 1 ELSE q[t][b]
      BY <2>1, <3>1
    <3>4. \A n \in Attempts : Take(q, t, n)[t][b] = IF b = n THEN q[t][b] - 1 ELSE q[t][b]
      BY <2>1, <3>2
    <3> QED
      BY <2>3, <3>3, <3>4
  <2> QED
    BY <2>2, <2>3
<1>3. \A u \in Tasks, b \in Attempts : q[u][b] \in Nat
  BY <1>1
<1> QED
  BY <1>2, <1>3 DEF AtMostPut

\* Messages stay sound while none is added.
LEMMA MessagesKept ==
  ASSUME Sound, Later, NEW t \in Tasks, NEW a, NEW b, Known(t), 
         a \in Nat /\ a < MaxAttempts, b \in Nat /\ b < MaxAttempts,
         AtMostPut(mainQ, mainQ', t, a), AtMostPut(retryQ, retryQ', t, b)
  PROVE  MessagesSound'
BY DEF Sound, MessagesSound, Later, AtMostPut

\* Jobs and scans that do not move stay sound.
LEMMA JobsKept ==
  ASSUME Typed, Sound, Later
  PROVE  /\ \A w \in Workers : job'[w] = job[w] => JobSound(job[w])'
         /\ \A s \in Scanners : scan'[s] = scan[s] => ScanSound(scan[s])'
<1>1. ASSUME NEW w \in Workers, job'[w] = job[w] PROVE JobSound(job[w])'
  <2>1. /\ job[w] \in Jobs /\ JobSound(job[w])
        /\ job[w].pc # "idle" \/ job[w].tag => job[w].task \in Tasks
    BY DEF Typed, TypeOK, Occupied, Sound
  <2>2. \A t \in Tasks : Known(t) => Known(t)'
    BY DEF Later
  <2>3. \A t \in Tasks : Known(t) => hook'[t] # "idle"
    BY <2>2 DEF Known
  <2> QED
    BY <1>1, <2>1, <2>3 DEF JobSound, Later, Known
<1>2. ASSUME NEW s \in Scanners, scan'[s] = scan[s] PROVE ScanSound(scan[s])'
  <2>1. /\ scan[s] \in Scans /\ ScanSound(scan[s])
        /\ scan[s].pc \in {"markretry", "markdead", "markfailed"} => scan[s].task \in Tasks
    BY DEF Typed, TypeOK, Occupied, Sound
  <2>2. \A t \in Tasks : Known(t) => hook'[t] # "idle"
    BY DEF Later, Known
  <2>3. \A item \in scan[s].todo : item.task \in Tasks
    BY <2>1 DEF Scans
  <2> QED
    BY <1>2, <2>1, <2>2, <2>3 DEF ScanSound, Known
<1> QED
  BY <1>1, <1>2

\* A worker acts on known tasks, with an attempt below MaxAttempts.
LEMMA WorkerSound ==
  ASSUME Typed, Sound, Bounded, PipelineAssumption, MaxAttemptsAssumption, NEW w \in Workers,
         WorkerStep(w) \/ WorkerFault(w)
  PROVE  Sound'
<1> DEFINE j == job[w]
<1> USE DEF store, queues, http
<1>1. UNCHANGED <<hook, api, scan>>
  BY DEF WorkerStep, GetTask, AcquireLock, Defer, Claim, ReviewSucceeds, ReviewFails,
     ReviewSuperseded, MarkSuperseded, MarkDone, Retry, MarkRetry, DeadLetter, MarkDead,
     MarkFailed, Release, WorkerFault, GetTaskError, AcquireError, ClaimError,
     ReviewCommitLost, ReviewPanics, ReleaseError, Crash, Redeliver
<1>2. Unclaimed' /\ Later
  <2>1. Onward
    BY WorkerMoves
  <2>2. \A t \in Tasks : Known(t)' <=> Known(t)
    BY <1>1 DEF Known
  <2> QED
    BY <1>1, <2>1, <2>2, OnwardKeeps
<1>3. j.pc # "idle" \/ j.tag
  BY DEF WorkerStep, GetTask, AcquireLock, Defer, Claim, ReviewSucceeds, ReviewFails,
     ReviewSuperseded, MarkSuperseded, MarkDone, Retry, MarkRetry, DeadLetter, MarkDead,
     MarkFailed, Release, WorkerFault, GetTaskError, AcquireError, ClaimError,
     ReviewCommitLost, ReviewPanics, ReleaseError, Crash, Redeliver
<1>4. /\ j \in Jobs /\ JobSound(j) /\ j.task \in Tasks /\ Known(j.task)
      /\ mainQ \in Queue /\ retryQ \in Queue /\ row[j.task] \in Row /\ clock \in Nat
      /\ job \in [Workers -> Jobs]
  BY <1>3 DEF Typed, TypeOK, Occupied, Sound, JobSound, Queue
<1>5. PICK t \in Tasks, a \in Attempts, n \in Nat : t = j.task /\ a = j.attempt /\ n = j.next
  BY <1>4 DEF Jobs
<1>6. /\ Known(t) /\ a \in Nat /\ a < MaxAttempts
      /\ j.pc \in {"retry", "markretry"} => n \in 1 .. MaxAttempts - 1
      /\ MaxAttempts \in Nat /\ MaxAttempts >= 1
  <2>1. Known(t) /\ a < MaxAttempts
    BY <1>3, <1>4, <1>5 DEF JobSound
  <2>2. j.pc \in {"retry", "markretry"} => n \in 1 .. MaxAttempts - 1
    BY <1>4, <1>5 DEF JobSound
  <2>3. a \in Nat /\ MaxAttempts \in Nat /\ MaxAttempts >= 1
    BY MaxAttemptsAssumption DEF Attempts
  <2> QED
    BY <2>1, <2>2, <2>3
<1>7. MessagesSound'
  <2>1. AtMostPut(mainQ, mainQ', t, a)
    <3>1. AtMostPut(mainQ, mainQ, t, a) /\ AtMostPut(mainQ, Put(mainQ, t, a), t, a)
      BY <1>4, <1>6, PutTake
    <3>2. mainQ' = mainQ \/ mainQ' = Put(mainQ, t, a)
      BY <1>5 DEF WorkerStep, GetTask, AcquireLock, Defer, Claim, ReviewSucceeds, ReviewFails,
         ReviewSuperseded, MarkSuperseded, MarkDone, Retry, MarkRetry, DeadLetter, MarkDead,
         MarkFailed, Release, WorkerFault, GetTaskError, AcquireError, ClaimError,
         ReviewCommitLost, ReviewPanics, ReleaseError, Crash, Redeliver, NackRequeue
    <3> QED
      BY <3>1, <3>2
  <2>2. PICK b \in Nat : b < MaxAttempts /\ AtMostPut(retryQ, retryQ', t, b)
    <3>1. /\ AtMostPut(retryQ, retryQ, t, a) /\ AtMostPut(retryQ, Put(retryQ, t, a), t, a)
          /\ AtMostPut(retryQ, Put(retryQ, t, n), t, n)
      BY <1>4, <1>6, PutTake
    <3>2. \/ retryQ' = retryQ \/ retryQ' = Put(retryQ, t, a)
          \/ j.pc = "retry" /\ retryQ' = Put(retryQ, t, n)
      BY <1>5 DEF WorkerStep, GetTask, AcquireLock, Defer, Claim, ReviewSucceeds, ReviewFails,
         ReviewSuperseded, MarkSuperseded, MarkDone, Retry, MarkRetry, DeadLetter, MarkDead,
         MarkFailed, Release, WorkerFault, GetTaskError, AcquireError, ClaimError,
         ReviewCommitLost, ReviewPanics, ReleaseError, Crash, Redeliver, PublishRetry
    <3>3. j.pc = "retry" => n < MaxAttempts
      BY <1>6
    <3> QED
      BY <1>6, <3>1, <3>2, <3>3
  <2> QED
    BY <1>2, <1>6, <2>1, <2>2, MessagesKept
<1>8. SUFFICES ASSUME TRUE PROVE JobSound(job[w])'
  <2>1. \A v \in Workers : v # w => job'[v] = job[v]
    BY WorkerKeepsOthers DEF KeepsOthers
  <2>2. \A s \in Scanners : scan'[s] = scan[s]
    BY <1>1
  <2> QED
    BY <1>2, <1>7, <2>1, <2>2, JobsKept DEF Sound
<1>9. ASSUME NEW x \in Jobs, job' = [job EXCEPT ![w] = x],
             \/ x = IdleJob
             \/ /\ x.task = t /\ x.attempt = a /\ x.seen \in 0 .. MaxAttempts - 1
                /\ x.pc = "finish" => t \in confirmed'
                /\ x.pc \in {"retry", "markretry"} => x.next \in 1 .. MaxAttempts - 1
                /\ x.pc \in {"dead", "markdead"} => x.next \in 1 .. MaxAttempts
      PROVE  JobSound(job[w])'
  <2>1. job'[w] = x /\ hook'[t] # "idle"
    BY <1>1, <1>4, <1>6, <1>9 DEF Known
  <2>2. CASE x = IdleJob
    BY <1>6, <2>1, <2>2 DEF JobSound, IdleJob
  <2>3. CASE x # IdleJob
    BY <1>6, <1>9, <2>1, <2>3 DEF JobSound, Known
  <2> QED
    BY <2>2, <2>3
<1>10. j.seen \in 0 .. MaxAttempts - 1
  BY <1>4, <1>6 DEF JobSound, Jobs
<1>11. ASSUME NEW m \in 0 .. MaxAttempts - 1
       PROVE  /\ NextAttempt(m, a) \in 1 .. MaxAttempts
              /\ FailStep(NextAttempt(m, a)) = "retry"
                   => NextAttempt(m, a) \in 1 .. MaxAttempts - 1
              /\ FailStep(NextAttempt(m, a)) \in {"retry", "dead"}
  BY <1>6 DEF NextAttempt, FailStep
<1>12. /\ IdleJob \in Jobs /\ Failing(w) \in Jobs /\ Returning(w) \in Jobs
       /\ [Failing(w) EXCEPT !.holds = FALSE] \in Jobs
  BY <1>4, JobTypes
<1>13. ASSUME \/ job' = [job EXCEPT ![w] = Failing(w)]
              \/ job' = [job EXCEPT ![w] = [Failing(w) EXCEPT !.holds = FALSE]]
       PROVE  JobSound(job[w])'
  <2>1. /\ Failing(w).task = t /\ Failing(w).attempt = a /\ Failing(w).seen = j.seen
        /\ Failing(w).next = NextAttempt(j.seen, a)
        /\ Failing(w).pc = FailStep(NextAttempt(j.seen, a))
    BY <1>4, <1>5 DEF Failing, Jobs
  <2>2. ASSUME NEW x, x = [Failing(w) EXCEPT !.holds = FALSE]
        PROVE  /\ x.task = t /\ x.attempt = a /\ x.seen = j.seen
               /\ x.next = NextAttempt(j.seen, a) /\ x.pc = FailStep(NextAttempt(j.seen, a))
    BY <1>12, <2>1, <2>2 DEF Jobs
  <2>3. PICK x \in Jobs : /\ job' = [job EXCEPT ![w] = x]
                          /\ x.task = t /\ x.attempt = a /\ x.seen = j.seen
                          /\ x.next = NextAttempt(j.seen, a)
                          /\ x.pc = FailStep(NextAttempt(j.seen, a))
    BY <1>12, <1>13, <2>1, <2>2
  <2> QED
    BY <1>9, <1>10, <1>11, <2>3
<1>14. ASSUME job' = [job EXCEPT ![w] = Returning(w)] PROVE JobSound(job[w])'
  <2>1. \/ Returning(w) = IdleJob
        \/ /\ Returning(w).task = t /\ Returning(w).attempt = a /\ Returning(w).seen = 0
           /\ Returning(w).pc = "release"
    BY <1>4, <1>5 DEF Returning, Jobs
  <2>2. 0 \in 0 .. MaxAttempts - 1
    BY <1>6
  <2> QED
    BY <1>9, <1>12, <1>14, <2>1, <2>2
<1>15. Ack(w) => JobSound(job[w])'
  BY <1>9, <1>12 DEF Ack
<1>16. NackRequeue(w) => Ack(w)
  BY DEF NackRequeue, Ack
<1>17. ASSUME NEW p \in Pcs, Goto(w, p), p = "finish" => t \in confirmed',
              p \in {"retry", "markretry"} => n \in 1 .. MaxAttempts - 1,
              p \in {"dead", "markdead"} => n \in 1 .. MaxAttempts
       PROVE  JobSound(job[w])'
  <2>1. PICK x \in Jobs : /\ job' = [job EXCEPT ![w] = x]
                          /\ x.task = t /\ x.attempt = a /\ x.seen = j.seen
                          /\ x.next = n /\ x.pc = p
    <3>1. ASSUME NEW x, x = [j EXCEPT !.pc = p]
          PROVE  /\ x \in Jobs /\ x.task = t /\ x.attempt = a /\ x.seen = j.seen
                 /\ x.next = n /\ x.pc = p
      BY <1>4, <1>5, <3>1 DEF Jobs, Pcs
    <3> QED
      BY <1>17, <3>1 DEF Goto
  <2> QED
    BY <1>9, <1>10, <1>17, <2>1
<1>18. {"defer", "release", "review", "finish", "supersede", "markdead", "markfailed"} \subseteq Pcs
  BY DEF Pcs, Claimed
<1>20. CASE GetTask(w)
  <2> DEFINE r == row[t]
             k == NextAttempt(r.attempts, a)
             read == [j EXCEPT !.seen = r.attempts, !.now = clock]
  <2>1. \/ Ack(w) \/ Goto(w, "defer")
        \/ ~Dismissed(r, a) /\ job' = [job EXCEPT ![w] = [read EXCEPT !.pc = "dead", !.next = k]]
        \/ ~Dismissed(r, a) /\ job' = [job EXCEPT ![w] = [read EXCEPT !.pc = "lock"]]
    BY <1>5, <1>20 DEF GetTask
  <2>2. ~Dismissed(r, a) => r.attempts \in 0 .. MaxAttempts - 1
    <3>1. r.attempts \in 0 .. MaxAttempts /\ (r.attempts = MaxAttempts => r.status \in Settled)
      BY DEF Bounded
    <3>2. ~Dismissed(r, a) => r.attempts # MaxAttempts
      BY <3>1 DEF Dismissed, Settled
    <3> QED
      BY <1>6, <3>1, <3>2
  <2>3. ASSUME r.attempts \in 0 .. MaxAttempts - 1, NEW x,
               \/ x = [read EXCEPT !.pc = "dead", !.next = k]
               \/ x = [read EXCEPT !.pc = "lock"]
        PROVE  /\ x \in Jobs /\ x.task = t /\ x.attempt = a /\ x.seen = r.attempts
               /\ x.pc = "lock" \/ (x.pc = "dead" /\ x.next = k)
    <3>1. k \in Nat /\ r.attempts \in Nat
      BY <1>6, <1>11, <2>3
    <3>2. PICK y \in Jobs : /\ y = read /\ y.task = t /\ y.attempt = a
                            /\ y.seen = r.attempts
      <4>1. ASSUME NEW y, y = read
            PROVE  y \in Jobs /\ y.task = t /\ y.attempt = a /\ y.seen = r.attempts
        <5> HIDE DEF r
        <5> QED
          BY <1>4, <1>5, <3>1, <4>1 DEF Jobs
      <4> QED
        BY <4>1
    <3>3. x = [y EXCEPT !.pc = "dead", !.next = k] \/ x = [y EXCEPT !.pc = "lock"]
      BY <2>3, <3>2
    <3> HIDE DEF r, k, read
    <3> QED
      BY <3>1, <3>2, <3>3 DEF Jobs, Claimed
  <2>4. r.attempts \in 0 .. MaxAttempts - 1 => k \in 1 .. MaxAttempts
    BY <1>11
  <2> HIDE DEF r, k, read
  <2>5. CASE Ack(w) \/ Goto(w, "defer")
    BY <1>15, <1>17, <1>18, <2>5
  <2>6. CASE ~(Ack(w) \/ Goto(w, "defer"))
    <3>1. PICK x : /\ job' = [job EXCEPT ![w] = x]
                   /\ \/ x = [read EXCEPT !.pc = "dead", !.next = k]
                      \/ x = [read EXCEPT !.pc = "lock"]
      BY <2>1, <2>6
    <3>2. r.attempts \in 0 .. MaxAttempts - 1
      BY <2>1, <2>2, <2>6
    <3> QED
      BY <1>9, <2>3, <2>4, <3>1, <3>2
  <2> QED
    BY <2>5, <2>6
<1>21. CASE AcquireLock(w)
  <2>1. CASE Goto(w, "defer")
    BY <1>17, <1>18, <2>1
  <2>2. CASE job' = [job EXCEPT ![w].pc = "claim", ![w].holds = TRUE]
    <3>1. ASSUME NEW x, x = [j EXCEPT !.pc = "claim", !.holds = TRUE]
          PROVE  x \in Jobs /\ x.task = t /\ x.attempt = a /\ x.seen = j.seen /\ x.pc = "claim"
      BY <1>4, <1>5, <3>1 DEF Jobs
    <3>2. job' = [job EXCEPT ![w] = [j EXCEPT !.pc = "claim", !.holds = TRUE]]
      BY <1>4, <2>2 DEF Jobs
    <3> QED
      BY <1>9, <1>10, <3>1, <3>2
  <2> QED
    BY <1>21, <2>1, <2>2 DEF AcquireLock
<1>22. CASE Defer(w) \/ Release(w) \/ GetTaskError(w) \/ AcquireError(w) \/ ClaimError(w)
            \/ ReleaseError(w) \/ Crash(w)
  BY <1>15, <1>16, <1>22 DEF Defer, Release, GetTaskError, AcquireError, ClaimError,
     ReleaseError, Crash
<1>23. CASE Claim(w) \/ ReviewSuperseded(w)
  BY <1>17, <1>18, <1>23 DEF Claim, ReviewSuperseded
<1>24. CASE ReviewSucceeds(w)
  <2>1. t \in confirmed' /\ Goto(w, "finish")
    BY <1>5, <1>24 DEF ReviewSucceeds
  <2> QED
    BY <1>17, <1>18, <2>1
<1>25. CASE ReviewFails(w) \/ ReviewCommitLost(w) \/ ReviewPanics(w) \/ MarkSuperseded(w)
            \/ MarkDone(w) \/ MarkRetry(w) \/ MarkDead(w) \/ MarkFailed(w)
  BY <1>13, <1>14, <1>25 DEF ReviewFails, ReviewCommitLost, ReviewPanics, MarkSuperseded,
     MarkDone, MarkRetry, MarkDead, MarkFailed
<1>26. CASE Retry(w)
  <2>1. PICK p \in {"markretry", "markfailed"} :
          job' = [job EXCEPT ![w] = [j EXCEPT !.pc = p, !.at = clock + 1]]
    BY <1>26 DEF Retry
  <2>2. ASSUME NEW x, x = [j EXCEPT !.pc = p, !.at = clock + 1]
        PROVE  /\ x \in Jobs /\ x.task = t /\ x.attempt = a /\ x.seen = j.seen
               /\ x.next = n /\ x.pc = p
    <3>1. clock + 1 \in Nat /\ p \in Pcs
      BY <1>4 DEF Pcs, Claimed
    <3>2. x \in Jobs
      BY <1>4, <2>2, <3>1, JobTypes
    <3> QED
      BY <1>4, <1>5, <2>2, <3>2 DEF Jobs
  <2>3. n \in 1 .. MaxAttempts - 1
    BY <1>6, <1>26 DEF Retry
  <2> QED
    BY <1>9, <1>10, <2>1, <2>2, <2>3
<1>27. CASE DeadLetter(w)
  <2>1. n \in 1 .. MaxAttempts /\ (Goto(w, "markdead") \/ Goto(w, "markfailed"))
    BY <1>4, <1>5, <1>27 DEF DeadLetter, JobSound
  <2> QED
    BY <1>17, <1>18, <2>1
<1>28. CASE Redeliver(w)
  <2>1. ASSUME NEW x, x = [j EXCEPT !.tag = FALSE]
        PROVE  /\ x \in Jobs /\ x.task = t /\ x.attempt = a /\ x.seen = j.seen
               /\ x.next = n /\ x.pc = j.pc
    BY <1>4, <1>5, <2>1 DEF Jobs
  <2>2. job' = [job EXCEPT ![w] = [j EXCEPT !.tag = FALSE]]
    BY <1>4, <1>28 DEF Redeliver
  <2>3. /\ j.pc = "finish" => t \in confirmed'
        /\ j.pc \in {"dead", "markdead"} => n \in 1 .. MaxAttempts
    BY <1>2, <1>4, <1>5 DEF JobSound, Later
  <2> QED
    BY <1>6, <1>9, <1>10, <2>1, <2>2, <2>3
<1> QED
  BY <1>20, <1>21, <1>22, <1>23, <1>24, <1>25, <1>26, <1>27, <1>28 DEF WorkerStep, WorkerFault

\* A step that leaves the rows and the requests alone, and puts messages in
\* order, is sound if its own job or scan is.
LEMMA QuietStep ==
  ASSUME Typed, Sound, UNCHANGED <<row, confirmed, hook, api>>
  PROVE  /\ Unclaimed' /\ Later
         /\ \A w \in Workers : job'[w] = job[w] => JobSound(job[w])'
         /\ \A s \in Scanners : scan'[s] = scan[s] => ScanSound(scan[s])'
         /\ UNCHANGED <<mainQ, retryQ>> => MessagesSound'
<1>1. Unclaimed' /\ Later
  BY DEF Sound, Unclaimed, Known, Later
<1>2. UNCHANGED <<mainQ, retryQ>> => MessagesSound'
  BY DEF Sound, MessagesSound, Known
<1> QED
  BY <1>1, <1>2, JobsKept

\* A message that is sound makes a sound job.
LEMMA DeliverSound ==
  ASSUME Typed, Sound, PipelineAssumption, MaxAttemptsAssumption,
         NEW w \in Workers, NEW t \in Tasks, NEW a \in Attempts, Deliver(w, t, a)
  PROVE  Sound'
<1> USE DEF store, queues, http
<1>1. UNCHANGED <<row, confirmed, hook, api, scan, retryQ>> /\ mainQ' = Take(mainQ, t, a)
  BY DEF Deliver
<1>2. Known(t) /\ a < MaxAttempts /\ a \in Nat /\ mainQ \in Queue /\ retryQ \in Queue
  BY DEF Deliver, Sound, MessagesSound, Typed, TypeOK, Queue, Attempts
<1>3. AtMostPut(mainQ, mainQ', t, a) /\ AtMostPut(retryQ, retryQ', t, a)
  BY <1>1, <1>2, PutTake
<1>4. Unclaimed' /\ Later /\ MessagesSound'
  BY <1>1, <1>2, <1>3, QuietStep, MessagesKept
<1>5. \A v \in Workers : v # w => job'[v] = job[v]
  BY DEF Deliver, Typed, TypeOK
<1>6. JobSound(job[w])'
  <2>1. /\ job'[w].pc = "get" /\ job'[w].task = t /\ job'[w].attempt = a
        /\ job'[w].seen = 0
    BY DEF Deliver, IdleJob, Typed, TypeOK
  <2>2. Known(t)' /\ 0 < MaxAttempts
    BY <1>2, <1>4, MaxAttemptsAssumption DEF Later
  <2>3. hook'[t] # "idle"
    BY <2>2 DEF Known
  <2> QED
    BY <1>2, <2>1, <2>2, <2>3 DEF JobSound, Known
<1> QED
  BY <1>1, <1>4, <1>5, <1>6, QuietStep DEF Sound

\* A recovery loop acts on rows that it listed.
LEMMA ScannerSound ==
  ASSUME Typed, Sound, Bounded, PipelineAssumption, MaxAttemptsAssumption, NEW s \in Scanners,
         ScannerStep(s) \/ ScannerCrash(s)
  PROVE  Sound'
<1> DEFINE c == scan[s]
<1> USE DEF store, queues, http
<1>1. UNCHANGED <<hook, api, job>> /\ \A r \in Scanners : r # s => scan'[r] = scan[r]
  BY DEF ScannerStep, ListRunning, Recover, RecoverMark, ListQueued, Republish, ScannerCrash,
     Typed, TypeOK
<1>2. Unclaimed' /\ Later
  <2>1. Onward
    BY ScannerMoves
  <2>2. \A t \in Tasks : Known(t)' <=> Known(t)
    BY <1>1 DEF Known
  <2> QED
    BY <1>1, <2>1, <2>2, OnwardKeeps
<1>3. ASSUME MessagesSound', ScanSound(scan[s])' PROVE Sound'
  BY <1>1, <1>2, <1>3, JobsKept DEF Sound
<1>4. /\ c \in Scans /\ ScanSound(c) /\ scan \in [Scanners -> Scans]
      /\ mainQ \in Queue /\ retryQ \in Queue /\ clock \in Nat
      /\ \A item \in c.todo : item.task \in Tasks /\ item.attempts \in Nat /\ Known(item.task)
  BY DEF Typed, TypeOK, Sound, ScanSound, Scans, Queue
<1>5. ASSUME UNCHANGED <<mainQ, retryQ>> PROVE MessagesSound'
  BY <1>2, <1>5 DEF Sound, MessagesSound, Later
<1>6. \A t \in Tasks : Known(t) => hook'[t] # "idle"
  BY <1>1 DEF Known
<1>7. ASSUME NEW x, scan' = [scan EXCEPT ![s] = x], x.pc \in {"idle", "running", "queued"},
             \A item \in x.todo : item.task \in Tasks /\ Known(item.task)
                                  /\ item.attempts < MaxAttempts
      PROVE  ScanSound(scan[s])'
  <2>1. scan'[s] = x
    BY <1>4, <1>7
  <2> QED
    BY <1>6, <1>7, <2>1 DEF ScanSound, Known
<1>8. \A item \in c.todo : item.task \in Tasks /\ Known(item.task) /\ item.attempts < MaxAttempts
  BY <1>4 DEF ScanSound
<1>9. ASSUME NEW S \in SUBSET Tasks,
             \A t \in S : row[t].status \in {"received", "queued", "running"}
      PROVE  \A item \in Listed(S) : item.task \in Tasks /\ Known(item.task)
                                     /\ item.attempts < MaxAttempts
  <2>1. ASSUME NEW t \in S PROVE t \in Tasks /\ Known(t) /\ row[t].attempts < MaxAttempts
    <3>1. Known(t) /\ row[t].attempts \in 0 .. MaxAttempts /\ row[t].attempts # MaxAttempts
      BY <1>9, <2>1 DEF Bounded, Sound, Unclaimed, Settled
    <3> QED
      BY <3>1, MaxAttemptsAssumption
  <2> QED
    BY <2>1 DEF Listed
<1>10. CASE \E S \in SUBSET StaleRunning : ListRunning(s, S)
  <2>1. PICK S \in SUBSET StaleRunning : ListRunning(s, S)
    BY <1>10
  <2>2. S \in SUBSET Tasks /\ \A t \in S : row[t].status \in {"received", "queued", "running"}
    BY DEF StaleRunning
  <2>3. PICK x : x = [c EXCEPT !.pc = "running", !.todo = Listed(S)]
    OBVIOUS
  <2>4. scan' = [scan EXCEPT ![s] = x] /\ x.pc = "running" /\ x.todo = Listed(S)
    BY <1>4, <2>1, <2>3 DEF ListRunning, Scans
  <2>5. UNCHANGED <<mainQ, retryQ>>
    BY <2>1 DEF ListRunning
  <2>6. \A item \in Listed(S) : item.task \in Tasks /\ Known(item.task)
                                /\ item.attempts < MaxAttempts
    BY <1>9, <2>2
  <2>7. ScanSound(scan[s])'
    BY <1>7, <2>4, <2>6
  <2> QED
    BY <1>3, <1>5, <2>5, <2>7
<1>11. CASE \E S \in SUBSET StaleQueued : ListQueued(s, S)
  <2>1. PICK S \in SUBSET StaleQueued : ListQueued(s, S)
    BY <1>11
  <2>2. S \in SUBSET Tasks /\ \A t \in S : row[t].status \in {"received", "queued", "running"}
    BY DEF StaleQueued
  <2>3. PICK x : /\ scan' = [scan EXCEPT ![s] = x]
                 /\ x = IdleScan \/ x = [c EXCEPT !.pc = "queued", !.todo = Listed(S)]
    BY <2>1, Zenon DEF ListQueued
  <2>4. \/ x.pc = "idle" /\ x.todo = {}
        \/ x.pc = "queued" /\ x.todo = Listed(S)
    <3>1. CASE x = IdleScan
      BY <3>1 DEF IdleScan
    <3>2. CASE x = [c EXCEPT !.pc = "queued", !.todo = Listed(S)]
      BY <1>4, <3>2 DEF Scans
    <3> QED
      BY <2>3, <3>1, <3>2
  <2>5. UNCHANGED <<mainQ, retryQ>>
    BY <2>1 DEF ListQueued
  <2>6. \A item \in Listed(S) : item.task \in Tasks /\ Known(item.task)
                                /\ item.attempts < MaxAttempts
    BY <1>9, <2>2
  <2>7. ScanSound(scan[s])'
    <3>1. /\ x.pc \in {"idle", "running", "queued"}
          /\ \A item \in x.todo : item.task \in Tasks /\ Known(item.task)
                                  /\ item.attempts < MaxAttempts
      BY <2>4, <2>6
    <3> QED
      BY <1>7, <2>3, <3>1
  <2> QED
    BY <1>3, <1>5, <2>5, <2>7
<1>12. CASE Recover(s)
  <2>1. PICK item \in c.todo, ok \in BOOLEAN :
          LET next == NextAttempt(item.attempts, item.attempts)
              cur  == [c EXCEPT !.todo = @ \ {item}, !.task = item.task,
                                !.next = next, !.at = clock + 1]
          IN
          \/ /\ next < MaxAttempts
             /\ PublishRetry(item.task, next, ok)
             /\ scan' = [scan EXCEPT ![s] =
                           IF ok THEN [cur EXCEPT !.pc = "markretry"]
                                 ELSE [c EXCEPT !.todo = @ \ {item}]]
          \/ /\ next >= MaxAttempts
             /\ UNCHANGED retryQ
             /\ scan' = [scan EXCEPT ![s] =
                           [cur EXCEPT !.pc = IF ok THEN "markdead" ELSE "markfailed"]]
    BY <1>12 DEF Recover
  <2>2. PICK t \in Tasks, n \in Nat :
          t = item.task /\ n = NextAttempt(item.attempts, item.attempts) /\ n \in 1 .. MaxAttempts
    <3>1. item.attempts \in Nat /\ item.attempts < MaxAttempts /\ MaxAttempts \in Nat
      BY <1>4, <1>8, MaxAttemptsAssumption
    <3>2. NextAttempt(item.attempts, item.attempts) = item.attempts + 1
      BY <3>1 DEF NextAttempt
    <3>3. NextAttempt(item.attempts, item.attempts) \in 1 .. MaxAttempts
      BY <3>1, <3>2
    <3> QED
      BY <1>4, <3>3
  <2>3. Known(t) /\ UNCHANGED mainQ /\ c.pc = "running"
    BY <1>4, <1>12, <2>2 DEF Recover
  <2> DEFINE y(p) == [[c EXCEPT !.todo = @ \ {item}, !.task = t,
                                !.next = n, !.at = clock + 1] EXCEPT !.pc = p]
             z == [c EXCEPT !.todo = @ \ {item}]
  <2>4. \/ /\ n < MaxAttempts /\ PublishRetry(t, n, ok)
           /\ scan' = [scan EXCEPT ![s] = y("markretry")] \/ scan' = [scan EXCEPT ![s] = z]
        \/ /\ UNCHANGED retryQ
           /\ \/ scan' = [scan EXCEPT ![s] = y("markdead")]
              \/ scan' = [scan EXCEPT ![s] = y("markfailed")]
    BY <2>1, <2>2
  <2>5. MessagesSound'
    <3>1. AtMostPut(mainQ, mainQ', t, 0)
      BY <1>4, <2>3, PutTake
    <3>2. PICK b \in Nat : b < MaxAttempts /\ AtMostPut(retryQ, retryQ', t, b)
      <4>1. CASE n < MaxAttempts /\ PublishRetry(t, n, ok)
        <5>1. AtMostPut(retryQ, retryQ, t, n) /\ AtMostPut(retryQ, Put(retryQ, t, n), t, n)
          BY <1>4, PutTake
        <5>2. retryQ' = retryQ \/ retryQ' = Put(retryQ, t, n)
          BY <4>1 DEF PublishRetry
        <5> QED
          BY <4>1, <5>1, <5>2
      <4>2. CASE UNCHANGED retryQ
        <5>1. AtMostPut(retryQ, retryQ, t, 0) /\ 0 < MaxAttempts
          BY <1>4, PutTake, MaxAttemptsAssumption
        <5> QED
          BY <4>2, <5>1
      <4> QED
        BY <2>4, <4>1, <4>2
    <3>3. 0 \in Nat /\ 0 < MaxAttempts
      BY MaxAttemptsAssumption
    <3> QED
      BY <1>2, <2>3, <3>1, <3>2, <3>3, MessagesKept
  <2>6. ASSUME NEW p \in {"markretry", "markdead", "markfailed"}, NEW x, x = y(p)
        PROVE  x.pc = p /\ x.task = t /\ x.next = n /\ x.todo = c.todo \ {item}
    BY <1>4, <2>6 DEF Scans
  <2>7. ASSUME NEW x, x = z
        PROVE  x.pc = "running" /\ x.todo = c.todo \ {item}
    BY <1>4, <2>3, <2>7 DEF Scans
  <2>8. ASSUME NEW p \in {"markretry", "markdead", "markfailed"},
               scan' = [scan EXCEPT ![s] = y(p)], p = "markretry" => n < MaxAttempts
        PROVE  ScanSound(scan[s])'
    <3>1. PICK x : x = y(p)
      OBVIOUS
    <3>2. scan'[s] = x
      BY <1>4, <2>8, <3>1
    <3>3. n \in 1 .. MaxAttempts /\ (p = "markretry" => n \in 1 .. MaxAttempts - 1)
      BY <2>2, <2>8, MaxAttemptsAssumption
    <3> HIDE DEF y
    <3>4. x.pc = p /\ x.task = t /\ x.next = n /\ x.todo = c.todo \ {item}
      BY <2>6, <3>1
    <3> QED
      BY <1>6, <1>8, <2>3, <3>2, <3>3, <3>4 DEF ScanSound, Known
  <2>9. scan' = [scan EXCEPT ![s] = z] => ScanSound(scan[s])'
    BY <1>7, <1>8, <2>7
  <2> HIDE DEF y, z
  <2> QED
    BY <1>3, <2>4, <2>5, <2>8, <2>9
<1>13. CASE RecoverMark(s)
  <2>1. PICK x : x = NextItem(s)
    OBVIOUS
  <2>2. x.pc = "running" /\ x.todo = c.todo
    BY <2>1 DEF NextItem, IdleScan
  <2>3. scan' = [scan EXCEPT ![s] = x] /\ UNCHANGED <<mainQ, retryQ>>
    BY <1>13, <2>1 DEF RecoverMark
  <2> QED
    BY <1>3, <1>5, <1>7, <1>8, <2>2, <2>3
<1>14. CASE Republish(s)
  <2>1. PICK item \in c.todo, ok \in BOOLEAN :
          /\ PublishMain(item.task, 0, ok) \/ UNCHANGED <<mainQ, faults>>
          /\ LET rest == c.todo \ {item} IN
             scan' = [scan EXCEPT ![s] = IF rest = {} THEN IdleScan
                                         ELSE [c EXCEPT !.todo = rest]]
    BY <1>14 DEF Republish
  <2>2. PICK t \in Tasks : t = item.task /\ Known(t)
    BY <1>4
  <2>3. c.pc = "queued" /\ UNCHANGED retryQ /\ 0 < MaxAttempts
    BY <1>14, MaxAttemptsAssumption DEF Republish
  <2>4. MessagesSound'
    <3>1. /\ AtMostPut(mainQ, mainQ, t, 0) /\ AtMostPut(mainQ, Put(mainQ, t, 0), t, 0)
          /\ AtMostPut(retryQ, retryQ, t, 0)
      BY <1>4, PutTake
    <3>2. mainQ' = mainQ \/ mainQ' = Put(mainQ, t, 0)
      BY <2>1, <2>2 DEF PublishMain
    <3> QED
      BY <1>2, <2>2, <2>3, <3>1, <3>2, MessagesKept
  <2>5. PICK x : /\ scan' = [scan EXCEPT ![s] = x]
                 /\ x = IdleScan \/ x = [c EXCEPT !.todo = c.todo \ {item}]
    BY <2>1, Zenon
  <2>6. \/ x.pc = "idle" /\ x.todo = {}
        \/ x.pc = "queued" /\ x.todo = c.todo \ {item}
    BY <1>4, <2>3, <2>5 DEF IdleScan, Scans
  <2> QED
    BY <1>3, <1>7, <1>8, <2>4, <2>5, <2>6
<1>15. CASE ScannerCrash(s)
  <2>1. PICK x : x = IdleScan
    OBVIOUS
  <2>2. x.pc = "idle" /\ x.todo = {}
    BY <2>1 DEF IdleScan
  <2>3. scan' = [scan EXCEPT ![s] = x] /\ UNCHANGED <<mainQ, retryQ>>
    BY <1>15, <2>1 DEF ScannerCrash
  <2> QED
    BY <1>3, <1>5, <1>7, <2>2, <2>3
<1> QED
  BY <1>10, <1>11, <1>12, <1>13, <1>14, <1>15 DEF ScannerStep

\* The handlers publish only tasks whose rows exist.
LEMMA HttpSound ==
  ASSUME Typed, Sound, Bounded, PipelineAssumption, MaxAttemptsAssumption, NEW t \in Tasks,
         HttpStep(t) \/ HookStops(t)
  PROVE  Sound'
<1> USE DEF store, queues, HookStep
<1>1. UNCHANGED <<job, scan, retryQ>> /\ mainQ \in Queue /\ retryQ \in Queue
  BY DEF HttpStep, HookCreate, HookQueued, HookPublish, HookFailed, Requeue, RequeuePublish,
     HookStops, Typed, TypeOK, Queue
<1>2. /\ row \in [Tasks -> Row]
      /\ hook \in [Tasks -> {"idle", "created", "queued", "unpublished", "end"}]
      /\ api \in [Tasks -> {"idle", "requeued"}]
      /\ 0 < MaxAttempts /\ 0 \in Nat
  BY MaxAttemptsAssumption DEF Typed, TypeOK
<1>3. ASSUME Unclaimed', Later, MessagesSound' PROVE Sound'
  BY <1>1, <1>3, JobsKept DEF Sound
<1>4. ASSUME UNCHANGED mainQ, Later PROVE MessagesSound'
  BY <1>1, <1>4 DEF Sound, MessagesSound, Later
<1>5. ASSUME Known(t), Later, UNCHANGED mainQ \/ mainQ' = Put(mainQ, t, 0)
      PROVE  MessagesSound'
  <2>1. /\ AtMostPut(mainQ, mainQ, t, 0) /\ AtMostPut(mainQ, Put(mainQ, t, 0), t, 0)
        /\ AtMostPut(retryQ, retryQ, t, 0)
    BY <1>1, <1>2, PutTake
  <2>2. AtMostPut(mainQ, mainQ', t, 0) /\ AtMostPut(retryQ, retryQ', t, 0)
    BY <1>1, <1>5, <2>1
  <2> QED
    BY <1>2, <1>5, <2>2, MessagesKept
<1>6. CASE HookCreate(t)
  <2>1. /\ row' = [row EXCEPT ![t] = CreateTask] /\ hook' = [hook EXCEPT ![t] = "created"]
        /\ hook[t] = "idle" /\ UNCHANGED <<confirmed, api, mainQ>>
    BY <1>6 DEF HookCreate
  <2>2. Later
    BY <1>2, <2>1 DEF Later, Known
  <2>3. row'[t].status = "received" /\ row'[t].attempts = 0
    BY <1>2, <2>1 DEF CreateTask
  <2>4. \A u \in Tasks : u # t => row'[u] = row[u] /\ hook'[u] = hook[u] /\ api'[u] = api[u]
    BY <1>2, <2>1
  <2>5. t \notin confirmed' /\ hook'[t] = "created"
    BY <1>2, <2>1 DEF Sound, Unclaimed
  <2>6. Unclaimed'
    BY <2>3, <2>4, <2>5, <2>1 DEF Sound, Unclaimed, Known
  <2> QED
    BY <1>3, <1>4, <2>1, <2>2, <2>6
<1>7. CASE HookQueued(t)
  <2>1. /\ hook[t] = "created" /\ UNCHANGED <<confirmed, api, mainQ>>
        /\ hook'[t] \in {"queued", "end"}
        /\ \A u \in Tasks : u # t => row'[u] = row[u] /\ hook'[u] = hook[u] /\ api'[u] = api[u]
    BY <1>2, <1>7 DEF HookQueued, Transact
  <2>2. Later
    BY <2>1 DEF Later, Known
  <2>3. row'[t].status # "absent"
    <3>1. row[t].status # "absent" /\ row[t] \in Row
      BY <1>2, <2>1 DEF Sound, Unclaimed, Known
    <3>2. UpdateTaskStatus(row[t], "queued").status # "absent"
      BY <3>1, Updates DEF Status
    <3>3. row'[t] = row[t] \/ row'[t] = UpdateTaskStatus(row[t], "queued")
      BY <1>2, <1>7 DEF HookQueued, Transact
    <3> QED
      BY <3>1, <3>2, <3>3
  <2>4. Unclaimed'
    BY <2>1, <2>3 DEF Sound, Unclaimed, Known
  <2> QED
    BY <1>3, <1>4, <2>1, <2>2, <2>4
<1>8. CASE HookFailed(t) \/ Requeue(t)
  <2>1. /\ UNCHANGED <<confirmed, mainQ>>
        /\ \A u \in Tasks : Known(u)' <=> Known(u)
        /\ \A u \in Tasks : hook'[u] = "created" => hook[u] = "created"
    BY <1>2, <1>8 DEF HookFailed, Requeue, Known
  <2>2. Onward /\ \A u \in Tasks : api'[u] = "requeued" => api[u] = "requeued" \/ Known(u)
    <3>1. CASE HookFailed(t)
      <4>1. Known(t)
        BY <3>1 DEF HookFailed, Known
      <4>2. UNCHANGED api
        BY <3>1 DEF HookFailed
      <4> QED
        BY <2>1, <3>1, <4>1, <4>2, FailMoves DEF HookFailed
    <3>2. CASE Requeue(t)
      <4>1. Known(t) /\ row[t] \in Row
        BY <1>2, <3>2 DEF Requeue, CanRequeue, Sound, Unclaimed
      <4>2. Onward
        BY <2>1, <3>2, <4>1, RequeueMoves
      <4>3. \A u \in Tasks : u # t => api'[u] = api[u]
        BY <1>2, <3>2 DEF Requeue
      <4> QED
        BY <4>1, <4>2, <4>3
    <3> QED
      BY <1>8, <3>1, <3>2
  <2>3. Unclaimed' /\ Later
    BY <2>1, <2>2, OnwardKeeps
  <2> QED
    BY <1>3, <1>4, <2>1, <2>3
<1>9. CASE HookPublish(t) \/ RequeuePublish(t) \/ HookStops(t)
  <2>1. /\ UNCHANGED <<row, confirmed>>
        /\ hook[t] # "idle" \/ api[t] = "requeued"
        /\ \A u \in Tasks : u # t => hook'[u] = hook[u] /\ api'[u] = api[u]
        /\ hook'[t] = hook[t] \/ (hook[t] # "idle" /\ hook'[t] \notin {"idle", "created"})
        /\ api'[t] = api[t] \/ api'[t] = "idle"
    BY <1>2, <1>9 DEF HookPublish, RequeuePublish, HookStops
  <2>2. Known(t)
    BY <2>1 DEF Sound, Unclaimed, Known
  <2>3. UNCHANGED mainQ \/ mainQ' = Put(mainQ, t, 0)
    BY <1>9 DEF HookPublish, RequeuePublish, HookStops, PublishMain
  <2>4. Unclaimed' /\ Later
    <3>1. \A u \in Tasks : /\ Known(u)' <=> Known(u)
                           /\ hook'[u] = "created" => hook[u] = "created"
                           /\ api'[u] = "requeued" => api[u] = "requeued"
      BY <2>1 DEF Known
    <3>2. Onward
      BY <2>1 DEF Onward
    <3> QED
      BY <3>1, <3>2, OnwardKeeps
  <2> QED
    BY <1>3, <1>5, <2>2, <2>3, <2>4
<1> QED
  BY <1>6, <1>7, <1>8, <1>9 DEF HttpStep

\* Expiry moves sound messages between queues.
LEMMA EnvironmentSound ==
  ASSUME Typed, Sound, PipelineAssumption, MaxAttemptsAssumption, Environment
  PROVE  Sound'
<1> USE DEF store, queues, http
<1>1. UNCHANGED <<row, confirmed, hook, api, job, scan>>
  BY DEF Environment, Tick, Expire, LockExpires
<1>2. ASSUME MessagesSound' PROVE Sound'
  BY <1>1, <1>2, QuietStep DEF Sound
<1>3. CASE UNCHANGED <<mainQ, retryQ>>
  BY <1>1, <1>2, <1>3, QuietStep
<1>4. ASSUME NEW t \in Tasks, NEW a \in Attempts, Expire(t, a) PROVE Sound'
  <2>1. /\ mainQ \in Queue /\ retryQ \in Queue /\ Known(t) /\ a \in Nat /\ a < MaxAttempts
    BY <1>4 DEF Expire, Typed, TypeOK, Queue, Sound, MessagesSound, Attempts
  <2>2. mainQ' = Put(mainQ, t, a) /\ retryQ' = Take(retryQ, t, a)
    BY <1>4 DEF Expire
  <2>3. AtMostPut(mainQ, mainQ', t, a) /\ AtMostPut(retryQ, retryQ', t, a)
    BY <2>1, <2>2, PutTake
  <2>4. Later
    BY <1>1, QuietStep
  <2> QED
    BY <1>2, <2>1, <2>3, <2>4, MessagesKept
<1> QED
  BY <1>3, <1>4 DEF Environment, Tick, LockExpires

\* Every step keeps Sound.
LEMMA SoundInductive == Typed /\ Sound /\ Bounded /\ [Next]_vars => Sound'
<1> SUFFICES ASSUME Typed, Sound, Bounded, [Next]_vars PROVE Sound'
  OBVIOUS
<1>1. CASE UNCHANGED vars
  BY <1>1, QuietStep DEF vars, Sound
<1> QED
  BY <1>1, PipelineAssumption, MaxAttemptsAssumption, DeliverSound, WorkerSound, ScannerSound,
     HttpSound, EnvironmentSound DEF Next

\* An empty system is sound.
LEMMA SoundInitial == Init => Sound /\ Lifecycle!LifecycleInit
BY MaxAttemptsAssumption
   DEF Init, Sound, Unclaimed, Known, NoRow, MessagesSound, NoMessages, JobSound, IdleJob,
       ScanSound, IdleScan, Lifecycle!LifecycleInit

Consistent == Typed /\ Sound /\ Lifecycle!LifecycleInv

\* The invariant holds initially.
LEMMA ConsistentInitial == Init => Consistent
<1>1. Lifecycle!LifecycleInit => Lifecycle!LifecycleInv
  BY MaxAttemptsAssumption
     DEF Lifecycle!LifecycleInit, Lifecycle!LifecycleInv, Lifecycle!LifecycleTypeOK,
         Lifecycle!CountInBounds, Lifecycle!DeliveredSettled, Lifecycle!Statuses
<1> QED
  BY <1>1, TypedInitial, SoundInitial DEF Consistent

\* The invariant is inductive, and every step is a move.
LEMMA ConsistentInductive == Consistent /\ [Next]_vars => Consistent' /\ Moved
<1> SUFFICES ASSUME Consistent, [Next]_vars PROVE Consistent' /\ Moved
  OBVIOUS
<1>1. Bounded
  BY LifecycleBounds DEF Consistent
<1>2. Moved
  BY <1>1, NextMoves DEF Consistent
<1> QED
  BY <1>1, <1>2, TypedInductive, SoundInductive, BoundsKept DEF Consistent

\* The pipeline implements the life cycle: whatever crashes, comes late, is lost
\* or doubled, rows move only as TaskLifecycle allows.
THEOREM PipelineIsLifecycle == Spec => ImplementsLifecycle
<1>1. Init => Lifecycle!LifecycleInit
  BY SoundInitial
<1>2. Moved => [Lifecycle!LifecycleNext]_(Lifecycle!lifecycle)
  BY MovedSteps
<1> QED
  BY <1>1, <1>2, ConsistentInitial, ConsistentInductive, PTL
     DEF Spec, ImplementsLifecycle, Lifecycle!LifecycleSpec

\* No row runs or waits for a retry with its attempts used up.
THEOREM AttemptsBounded == Spec => []AttemptsBelowMax
<1>1. Consistent => AttemptsBelowMax
  <2> SUFFICES ASSUME Consistent, NEW t \in Tasks
               PROVE  /\ row[t].attempts <= MaxAttempts
                      /\ \/ row[t].status \notin {"running", "retrying"}
                         \/ row[t].attempts < MaxAttempts
    BY DEF AttemptsBelowMax
  <2>1. /\ row[t].attempts \in 0 .. MaxAttempts
        /\ row[t].status \in {"running", "retrying"} => row[t].attempts # MaxAttempts
    BY LifecycleBounds DEF Consistent, Bounded, Settled
  <2> QED
    BY <2>1, MaxAttemptsAssumption
<1> QED
  BY <1>1, ConsistentInitial, ConsistentInductive, PTL DEF Spec

\* A task whose review GitHub confirmed is never taken up again.
THEOREM DeliveriesStay == Spec => []DeliveredIsSettled
<1>1. Consistent => DeliveredIsSettled
  BY LifecycleBounds DEF Consistent, Bounded, DeliveredIsSettled
<1> QED
  BY <1>1, ConsistentInitial, ConsistentInductive, PTL DEF Spec

\* A worker's step frees no lock that another worker owns.
THEOREM ReleaseHarmless == Spec => ReleaseKeepsOthers
<1> DEFINE Harmless ==
      \A v, w \in Workers, pr \in PRs :
        v # w /\ job'[v] # job[v] /\ lock[pr] = w => lock'[pr] = w
<1>1. Typed /\ [Next]_vars => [Harmless]_vars
  <2> SUFFICES ASSUME Typed, Next PROVE Harmless
    OBVIOUS
  <2>1. ASSUME NEW u \in Workers, KeepsOthers(u) PROVE Harmless
    BY <2>1 DEF KeepsOthers
  <2>2. ASSUME UNCHANGED job \/ UNCHANGED lock PROVE Harmless
    BY <2>2
  <2>3. ASSUME NEW u \in Workers, WorkerStep(u) \/ WorkerFault(u) PROVE Harmless
    BY <2>1, <2>3, WorkerKeepsOthers, PipelineAssumption
  <2>4. CASE \E w \in Workers, t \in Tasks, a \in Attempts : Deliver(w, t, a)
    BY <2>2, <2>4 DEF Deliver
  <2>5. CASE \E s \in Scanners : ScannerStep(s) \/ ScannerCrash(s)
    BY <2>2, <2>5 DEF ScannerStep, ListRunning, Recover, RecoverMark, ListQueued, Republish,
       ScannerCrash
  <2>6. CASE \E t \in Tasks : HttpStep(t) \/ HookStops(t)
    BY <2>2, <2>6 DEF HttpStep, HookCreate, HookQueued, HookPublish, HookFailed, Requeue,
       RequeuePublish, HookStops
  <2>7. CASE Environment
    BY <2>2, <2>7 DEF Environment, Tick, Expire, LockExpires
  <2> HIDE DEF Harmless
  <2> QED
    BY <2>3, <2>4, <2>5, <2>6, <2>7 DEF Next
<1> QED
  BY <1>1, TypedInitial, TypedInductive, PTL DEF Spec, ReleaseKeepsOthers

-----------------------------------------------------------------------------
(* While steps keep their time-outs, a row that waits has its message.     *)

\* A message that will not be dropped while its row waits for a retry: in a
\* queue, or with a worker that can still claim the row or will defer it.
Carries(j) ==
  /\ j.tag
  /\ \/ j.pc \in {"get", "defer"}
     \/ j.pc \in {"lock", "claim"} /\ row[j.task].retryAt <= j.now

Queued(t) == \E a \in Attempts : mainQ[t][a] > 0 \/ retryQ[t][a] > 0

Carried(t) == Queued(t) \/ \E w \in Workers : job[w].task = t /\ Carries(job[w])

\* Whoever is about to mark a row for a retry has published its message.
Marked(c) == c.pc = "markretry" => retryQ[c.task][c.next] > 0

Carrying ==
  /\ \A t \in Tasks : row[t].status = "retrying" => Carried(t)
  /\ \A t \in BadRepo : row[t].status \notin {"running", "retrying"}
  /\ \A w \in Workers : job[w].pc \in {"lock", "claim"} => job[w].task \notin BadRepo
  /\ \A w \in Workers : Marked(job[w])
  /\ \A s \in Scanners : Marked(scan[s])

\* No message leaves the queues.
Grows == \A u \in Tasks, b \in Attempts :
  /\ mainQ[u][b] > 0 => mainQ'[u][b] > 0
  /\ retryQ[u][b] > 0 => retryQ'[u][b] > 0

\* A message that is put is there, and none is lost.
LEMMA PutGrows ==
  ASSUME NEW q \in Queue, NEW t \in Tasks, NEW a \in Attempts
  PROVE  /\ Put(q, t, a)[t][a] > 0
         /\ \A u \in Tasks, b \in Attempts : q[u][b] > 0 => Put(q, t, a)[u][b] > 0
<1>1. \A u \in Tasks : q[u] \in [Attempts -> Nat]
  BY DEF Queue
<1>2. Put(q, t, a)[t] = [q[t] EXCEPT ![a] = @ + 1]
  BY DEF Queue, Put
<1>3. \A u \in Tasks : u # t => Put(q, t, a)[u] = q[u]
  BY DEF Queue, Put
<1>4. \A b \in Attempts : Put(q, t, a)[t][b] = IF b = a THEN q[t][b] + 1 ELSE q[t][b]
  BY <1>1, <1>2
<1>5. \A u \in Tasks, b \in Attempts : q[u][b] \in Nat
  BY <1>1
<1> QED
  BY <1>3, <1>4, <1>5

\* What a step may do to a row that waits, and to one that is never claimed.
Waits ==
  \A u \in Tasks :
    /\ row'[u].status = "retrying" =>
         row'[u] = row[u] \/ (Queued(u) /\ row[u].status = "running" /\ UNCHANGED retryQ)
    /\ row'[u].status = "running" => row[u].status = "running" \/ u \notin BadRepo

\* A row marked retrying has the message its mark waited for.
LEMMA MarkWaits ==
  ASSUME Typed, NEW t \in Tasks, NEW n \in Nat, NEW at \in Nat, NEW ok \in BOOLEAN,
         \/ /\ Transact(t, MarkTaskRetry(row[t], n, at), ok)
            /\ Queued(t) /\ UNCHANGED retryQ
         \/ Transact(t, MarkTaskDeadLetter(row[t], n), ok)
         \/ \E s \in {"done", "failed", "superseded", "queued"} :
              Transact(t, UpdateTaskStatus(row[t], s), ok)
  PROVE  Waits
<1>1. row \in [Tasks -> Row] /\ row[t] \in Row
  BY DEF Typed, TypeOK
<1>2. PICK u : /\ row' = row \/ row' = [row EXCEPT ![t] = u]
               /\ \/ u = MarkTaskRetry(row[t], n, at) /\ Queued(t) /\ UNCHANGED retryQ
                  \/ u = MarkTaskDeadLetter(row[t], n)
                  \/ \E s \in {"done", "failed", "superseded", "queued"} :
                       u = UpdateTaskStatus(row[t], s)
  BY DEF Transact
<1>3. \/ u = row[t]
      \/ u.status \notin {"running", "retrying"}
      \/ u.status = "retrying" /\ row[t].status = "running" /\ Queued(t) /\ UNCHANGED retryQ
  <2>1. CASE u = MarkTaskRetry(row[t], n, at) /\ Queued(t) /\ UNCHANGED retryQ
    BY <1>1, <2>1 DEF MarkTaskRetry, CanMark, Row
  <2>2. CASE u = MarkTaskDeadLetter(row[t], n)
    BY <1>1, <2>2 DEF MarkTaskDeadLetter, Row
  <2>3. ASSUME NEW s \in {"done", "failed", "superseded", "queued"},
               u = UpdateTaskStatus(row[t], s)
        PROVE  u = row[t] \/ u.status \notin {"running", "retrying"}
    BY <1>1, <2>3, Updates DEF Status
  <2> QED
    BY <1>2, <2>1, <2>2, <2>3
<1>4. \A v \in Tasks : row'[v] = row[v] \/ (v = t /\ row'[v] = u)
  BY <1>1, <1>2
<1> QED
  BY <1>3, <1>4 DEF Waits

\* A worker that settles or drops a message leaves no row without one.
LEMMA WorkerCarries ==
  ASSUME Typed, Sound, Carrying, PipelineAssumption, MaxAttemptsAssumption, NEW w \in Workers,
         WorkerStep(w) \/ WorkerFault(w)
  PROVE  Carrying'
<1> DEFINE j == job[w]
<1> USE DEF store, queues, http
<1>1. j.pc # "idle" \/ j.tag
  BY DEF WorkerStep, GetTask, AcquireLock, Defer, Claim, ReviewSucceeds, ReviewFails,
     ReviewSuperseded, MarkSuperseded, MarkDone, Retry, MarkRetry, DeadLetter, MarkDead,
     MarkFailed, Release, WorkerFault, GetTaskError, AcquireError, ClaimError,
     ReviewCommitLost, ReviewPanics, ReleaseError, Crash, Redeliver
<1>2. /\ j \in Jobs /\ JobSound(j) /\ j.task \in Tasks
      /\ mainQ \in Queue /\ retryQ \in Queue /\ row \in [Tasks -> Row] /\ clock \in Nat
      /\ job \in [Workers -> Jobs]
  BY <1>1 DEF Typed, TypeOK, Occupied, Sound, Queue
<1>3. PICK t \in Tasks, a \in Attempts, n \in Nat, at \in Nat :
        t = j.task /\ a = j.attempt /\ n = j.next /\ at = j.at
  BY <1>2 DEF Jobs
<1>4. row[t] \in Row /\ (j.pc \in {"retry", "markretry"} => n \in Attempts)
  <2>1. j.pc \in {"retry", "markretry"} => n \in 1 .. MaxAttempts - 1
    BY <1>2, <1>3 DEF JobSound
  <2>2. \A m \in 1 .. MaxAttempts - 1 : m \in Attempts
    BY MaxAttemptsAssumption DEF Attempts
  <2> QED
    BY <1>2, <2>1, <2>2
<1>5. UNCHANGED scan /\ \A v \in Workers : v # w => job'[v] = job[v]
  <2>1. UNCHANGED scan
    BY DEF WorkerStep, GetTask, AcquireLock, Defer, Claim, ReviewSucceeds, ReviewFails,
     ReviewSuperseded, MarkSuperseded, MarkDone, Retry, MarkRetry, DeadLetter, MarkDead,
     MarkFailed, Release, WorkerFault, GetTaskError, AcquireError, ClaimError,
     ReviewCommitLost, ReviewPanics, ReleaseError, Crash, Redeliver
  <2> QED
    BY <2>1, WorkerKeepsOthers DEF KeepsOthers
<1>6. /\ mainQ' = mainQ \/ mainQ' = Put(mainQ, t, a)
      /\ \/ retryQ' = retryQ \/ retryQ' = Put(retryQ, t, a)
         \/ j.pc = "retry" /\ retryQ' = Put(retryQ, t, n)
  BY <1>3 DEF WorkerStep, GetTask, AcquireLock, Defer, Claim, ReviewSucceeds, ReviewFails,
     ReviewSuperseded, MarkSuperseded, MarkDone, Retry, MarkRetry, DeadLetter, MarkDead,
     MarkFailed, Release, WorkerFault, GetTaskError, AcquireError, ClaimError,
     ReviewCommitLost, ReviewPanics, ReleaseError, Crash, Redeliver, NackRequeue, PublishRetry
<1>7. Grows
  BY <1>2, <1>4, <1>6, PutGrows DEF Grows
<1>8. Waits
  <2>1. CASE UNCHANGED row
    BY <2>1 DEF Waits
  <2>2. SUFFICES ASSUME ~UNCHANGED row PROVE Waits
    BY <2>1
  <2>3. \/ Claim(w) \/ ClaimError(w) \/ ReviewSucceeds(w) \/ ReviewCommitLost(w)
        \/ MarkSuperseded(w) \/ MarkDone(w) \/ MarkRetry(w) \/ MarkDead(w) \/ MarkFailed(w)
    BY <2>2 DEF WorkerStep, WorkerFault, GetTask, AcquireLock, Defer, ReviewFails,
       ReviewSuperseded, Retry, DeadLetter, Release, GetTaskError, AcquireError, ReviewPanics,
       ReleaseError, Crash, Redeliver
  <2>4. CASE Claim(w) \/ ClaimError(w)
    <3>1. row' = [row EXCEPT ![t] = ClaimTask(row[t], a)] \/ row'[t] = row[t]
      BY <1>2, <1>3, <2>4 DEF Claim, ClaimError
    <3>2. \A u \in Tasks : u # t => row'[u] = row[u]
      BY <1>2, <1>3, <2>4 DEF Claim, ClaimError
    <3>3. ClaimTask(row[t], a).status = "running"
      BY <1>4 DEF ClaimTask, Row
    <3>4. t \notin BadRepo
      BY <1>3, <2>4 DEF Claim, ClaimError, Carrying
    <3>5. row'[t] = row[t] \/ row'[t].status = "running"
      BY <1>2, <3>1, <3>3
    <3> QED
      BY <3>2, <3>4, <3>5 DEF Waits
  <2>5. CASE ReviewSucceeds(w) \/ ReviewCommitLost(w)
    <3>1. row' = [row EXCEPT ![t] = MarkReviewDelivered(row[t])]
      BY <1>3, <2>2, <2>5 DEF ReviewSucceeds, ReviewCommitLost
    <3>2. MarkReviewDelivered(row[t]).status = "done"
      BY <1>4 DEF MarkReviewDelivered, Row
    <3>3. \A u \in Tasks : row'[u] = row[u] \/ row'[u].status = "done"
      BY <1>2, <3>1, <3>2
    <3> QED
      BY <3>3 DEF Waits
  <2>6. CASE MarkSuperseded(w) \/ MarkDone(w) \/ MarkDead(w) \/ MarkFailed(w)
    <3>1. PICK ok \in BOOLEAN :
            \/ Transact(t, MarkTaskDeadLetter(row[t], n), ok)
            \/ \E s \in {"done", "failed", "superseded", "queued"} :
                 Transact(t, UpdateTaskStatus(row[t], s), ok)
      BY <1>3, <2>6 DEF MarkSuperseded, MarkDone, MarkDead, MarkFailed
    <3> QED
      BY <1>3, <3>1, MarkWaits
  <2>7. CASE MarkRetry(w)
    <3>1. PICK ok \in BOOLEAN : Transact(t, MarkTaskRetry(row[t], n, at), ok)
      BY <1>3, <2>7 DEF MarkRetry
    <3>2. Queued(t) /\ UNCHANGED retryQ
      BY <1>3, <1>4, <2>7 DEF MarkRetry, Carrying, Marked, Queued
    <3> QED
      BY <3>1, <3>2, MarkWaits
  <2> QED
    BY <2>3, <2>4, <2>5, <2>6, <2>7
<1> DEFINE NewJob ==
      /\ Marked(job[w])'
      /\ job'[w].pc \in {"lock", "claim"} => job'[w].task \notin BadRepo
      /\ row'[t] = row[t] /\ row[t].status = "retrying" /\ Carries(j)
         => Queued(t)' \/ (job'[w].task = t /\ Carries(job[w])')
<1>9. ASSUME NewJob PROVE Carrying'
  <2>1. \A v \in Workers : Marked(job[v])'
    <3> SUFFICES ASSUME NEW v \in Workers, v # w PROVE Marked(job[v])'
      BY <1>9
    <3>1. job'[v] = job[v] /\ job[v] \in Jobs /\ Marked(job[v]) /\ JobSound(job[v])
      BY <1>2, <1>5 DEF Carrying, Sound
    <3>2. job[v].pc = "markretry" => job[v].task \in Tasks /\ job[v].next \in Attempts
      BY <3>1, MaxAttemptsAssumption DEF Typed, Occupied, JobSound, Attempts
    <3> QED
      BY <1>7, <3>1, <3>2 DEF Marked, Grows
  <2>2. \A s \in Scanners : Marked(scan[s])'
    <3> SUFFICES ASSUME NEW s \in Scanners PROVE Marked(scan[s])'
      OBVIOUS
    <3>1. scan'[s] = scan[s] /\ Marked(scan[s]) /\ ScanSound(scan[s])
      BY <1>5 DEF Carrying, Sound
    <3>2. scan[s].pc = "markretry" => scan[s].task \in Tasks /\ scan[s].next \in Attempts
      BY <3>1, MaxAttemptsAssumption DEF Typed, Occupied, ScanSound, Attempts
    <3> QED
      BY <1>7, <3>1, <3>2 DEF Marked, Grows
  <2>3. \A v \in Workers : job'[v].pc \in {"lock", "claim"} => job'[v].task \notin BadRepo
    BY <1>5, <1>9 DEF Carrying
  <2>4. \A u \in BadRepo : row'[u].status \notin {"running", "retrying"}
    BY <1>8, PipelineAssumption DEF Waits, Carrying
  <2>5. ASSUME NEW u \in Tasks, row'[u].status = "retrying" PROVE Carried(u)'
    <3>1. Queued(u) => Queued(u)'
      BY <1>7 DEF Grows, Queued
    <3>2. CASE row'[u] = row[u]
      <4>1. CASE Queued(u)
        BY <3>1, <4>1 DEF Carried
      <4>2. CASE ~Queued(u)
        <5>1. PICK v \in Workers : job[v].task = u /\ Carries(job[v])
          BY <2>5, <3>2, <4>2 DEF Carrying, Carried
        <5>2. CASE v = w
          BY <1>3, <1>9, <2>5, <3>2, <5>1, <5>2 DEF Carried
        <5>3. CASE v # w
          BY <1>5, <3>2, <5>1, <5>3 DEF Carried, Carries
        <5> QED
          BY <5>2, <5>3
      <4> QED
        BY <4>1, <4>2
    <3> QED
      BY <1>8, <2>5, <3>1, <3>2 DEF Waits, Carried
  <2> QED
    BY <2>1, <2>2, <2>3, <2>4, <2>5 DEF Carrying
<1>10. ASSUME job'[w].pc \notin {"markretry", "lock", "claim"},
              ~Carries(j) \/ row'[t] # row[t] \/ Queued(t)'
       PROVE  NewJob
  BY <1>10 DEF Marked
<1>11. /\ Put(mainQ, t, a)[t][a] > 0 /\ Put(retryQ, t, a)[t][a] > 0
       /\ n \in Attempts => Put(retryQ, t, n)[t][n] > 0
  BY <1>2, PutGrows
<1>12. Ack(w) => job'[w].pc = "idle"
  BY <1>2 DEF Ack, IdleJob
<1>13. NackRequeue(w) => Ack(w) /\ (j.tag => Queued(t)')
  <2>1. mainQ' = Put(mainQ, t, a) => Queued(t)'
    BY <1>11 DEF Queued
  <2> QED
    BY <1>3, <2>1 DEF NackRequeue, Ack
<1>14. \A p : Goto(w, p) => /\ job'[w].pc = p /\ job'[w].task = t
                             /\ job'[w].tag = j.tag /\ job'[w].now = j.now
  BY <1>2, <1>3 DEF Goto, Jobs
<1>15. SUFFICES ASSUME TRUE PROVE NewJob
  BY <1>9
<1>16. CASE GetTask(w)
  <2> DEFINE r == row[t]
             read == [j EXCEPT !.seen = r.attempts, !.now = clock]
             k == NextAttempt(r.attempts, a)
  <2>1. \/ Dismissed(r, a) /\ Ack(w)
        \/ Goto(w, "defer")
        \/ /\ ~Early(r) /\ t \in BadRepo
           /\ job' = [job EXCEPT ![w] = [read EXCEPT !.pc = "dead", !.next = k]]
        \/ ~Early(r) /\ t \notin BadRepo /\ job' = [job EXCEPT ![w] = [read EXCEPT !.pc = "lock"]]
    BY <1>3, <1>16 DEF GetTask
  <2>2. r.status = "retrying" => ~Dismissed(r, a) /\ t \notin BadRepo
    BY DEF Dismissed, Carrying
  <2>3. CASE Dismissed(r, a) /\ Ack(w)
    BY <1>12, <2>2, <2>3 DEF Marked
  <2>4. CASE Goto(w, "defer")
    <3>1. j.tag /\ job'[w].task = t => Carries(job[w])'
      BY <1>14, <2>4 DEF Carries
    <3> QED
      BY <1>14, <2>4, <3>1 DEF Marked, Carries
  <2>5. CASE t \in BadRepo /\ job' = [job EXCEPT ![w] = [read EXCEPT !.pc = "dead", !.next = k]]
    <3>1. job'[w].pc = "dead"
      BY <1>2, <2>5 DEF Jobs
    <3> QED
      BY <2>2, <2>5, <3>1 DEF Marked
  <2>6. CASE ~Early(r) /\ t \notin BadRepo /\ job' = [job EXCEPT ![w] = [read EXCEPT !.pc = "lock"]]
    <3>1. PICK x : x = [read EXCEPT !.pc = "lock"]
      OBVIOUS
    <3>2. x.pc = "lock" /\ x.task = t /\ x.now = clock /\ x.tag = j.tag
      BY <1>2, <1>3, <3>1 DEF Jobs
    <3>3. job'[w] = x
      BY <1>2, <2>6, <3>1
    <3>4. r.status = "retrying" => r.retryAt <= clock
      BY <1>2, <1>4, <2>6 DEF Early, Row
    <3>5. j.tag /\ row'[t] = row[t] /\ r.status = "retrying" => Carries(job[w])'
      BY <3>2, <3>3, <3>4 DEF Carries
    <3> QED
      BY <2>6, <3>2, <3>3, <3>5 DEF Marked, Carries
  <2> QED
    BY <2>1, <2>3, <2>4, <2>5, <2>6
<1>17. CASE AcquireLock(w)
  <2>1. j.pc = "lock" /\ t \notin BadRepo
    BY <1>3, <1>17 DEF AcquireLock, Carrying
  <2>2. CASE Goto(w, "defer")
    <3>1. Carries(j) => Carries(job[w])'
      BY <1>14, <2>2 DEF Carries
    <3> QED
      BY <1>14, <2>2, <3>1 DEF Marked
  <2>3. CASE job' = [job EXCEPT ![w].pc = "claim", ![w].holds = TRUE]
    <3>1. job'[w].pc = "claim" /\ job'[w].task = t /\ job'[w].now = j.now /\ job'[w].tag = j.tag
      BY <1>2, <1>3, <2>3 DEF Jobs
    <3>2. row'[t] = row[t] /\ Carries(j) => Carries(job[w])'
      BY <1>3, <2>1, <3>1 DEF Carries
    <3> QED
      BY <2>1, <3>1, <3>2 DEF Marked
  <2> QED
    BY <1>17, <2>2, <2>3 DEF AcquireLock
<1>18. CASE GetTaskError(w) \/ AcquireError(w) \/ ClaimError(w) \/ Crash(w)
  BY <1>10, <1>12, <1>13, <1>18 DEF GetTaskError, AcquireError, ClaimError, Crash, Carries
<1>19. CASE Defer(w)
  <2>1. PICK ok \in BOOLEAN : /\ PublishRetry(t, a, ok)
                              /\ IF ok THEN Ack(w) /\ UNCHANGED mainQ ELSE NackRequeue(w)
    BY <1>3, <1>19 DEF Defer
  <2>2. ok => Queued(t)'
    BY <1>11, <2>1 DEF PublishRetry, Queued
  <2> QED
    BY <1>10, <1>12, <1>13, <2>1, <2>2 DEF Carries
<1>20. CASE Claim(w)
  <2>1. job'[w].pc \in {"review", "release"}
    BY <1>14, <1>20 DEF Claim
  <2>2. row[t].status = "retrying" /\ Carries(j) => row'[t].status = "running"
    <3>1. row[t].status = "retrying" /\ Carries(j) => CanClaim(row[t], a, j.now)
      BY <1>3, <1>20 DEF Carries, Claim, CanClaim
    <3>2. CanClaim(row[t], a, j.now) => row' = [row EXCEPT ![t] = ClaimTask(row[t], a)]
      BY <1>3, <1>20 DEF Claim
    <3>3. ClaimTask(row[t], a).status = "running"
      BY <1>4 DEF ClaimTask, Row
    <3> QED
      BY <1>2, <3>1, <3>2, <3>3
  <2> QED
    BY <2>1, <2>2 DEF Marked
<1>21. CASE Redeliver(w)
  <2>1. /\ job'[w].pc = j.pc /\ job'[w].task = t /\ job'[w].next = n
        /\ UNCHANGED retryQ /\ mainQ' = Put(mainQ, t, a)
    BY <1>2, <1>3, <1>21 DEF Redeliver, Jobs
  <2>2. Queued(t)'
    BY <1>11, <2>1 DEF Queued
  <2> QED
    BY <1>3, <2>1, <2>2 DEF Carrying, Marked
<1>22. CASE Retry(w)
  <2>1. PICK p \in {"markretry", "markfailed"} :
          /\ job' = [job EXCEPT ![w] = [j EXCEPT !.pc = p, !.at = clock + 1]]
          /\ p = "markretry" => retryQ' = Put(retryQ, t, n)
    BY <1>3, <1>22 DEF Retry, PublishRetry
  <2>2. job'[w].pc = p /\ job'[w].task = t /\ job'[w].next = n
    BY <1>2, <1>3, <2>1 DEF Jobs
  <2>3. j.pc = "retry" /\ n \in Attempts /\ ~Carries(j)
    BY <1>4, <1>22 DEF Retry, Carries
  <2> QED
    BY <1>11, <2>1, <2>2, <2>3 DEF Marked
<1>23. ASSUME NEW p, Goto(w, p), p \notin {"markretry", "lock", "claim"},
              j.pc \notin {"get", "defer", "lock", "claim"}
       PROVE  NewJob
  BY <1>10, <1>14, <1>23 DEF Carries
<1>24. CASE Release(w) \/ ReleaseError(w)
  BY <1>10, <1>12, <1>24 DEF Release, ReleaseError, Carries
<1>25. CASE ReviewSucceeds(w) \/ ReviewSuperseded(w) \/ DeadLetter(w)
  BY <1>23, <1>25 DEF ReviewSucceeds, ReviewSuperseded, DeadLetter
<1>26. CASE \/ ReviewFails(w) \/ ReviewCommitLost(w) \/ ReviewPanics(w) \/ MarkSuperseded(w)
            \/ MarkDone(w) \/ MarkRetry(w) \/ MarkDead(w) \/ MarkFailed(w)
  <2>1. j.pc \notin {"get", "defer", "lock", "claim"}
    BY <1>26 DEF ReviewFails, ReviewCommitLost, ReviewPanics, MarkSuperseded, MarkDone,
       MarkRetry, MarkDead, MarkFailed
  <2>2. PICK x : /\ job' = [job EXCEPT ![w] = x]
                 /\ x = Failing(w) \/ x = [Failing(w) EXCEPT !.holds = FALSE] \/ x = Returning(w)
    BY <1>26 DEF ReviewFails, ReviewCommitLost, ReviewPanics, MarkSuperseded, MarkDone,
       MarkRetry, MarkDead, MarkFailed
  <2>3. Failing(w).pc \in {"retry", "dead"} /\ Returning(w).pc \in {"idle", "release"}
    BY <1>2 DEF Failing, FailStep, Returning, IdleJob, Jobs
  <2>4. [Failing(w) EXCEPT !.holds = FALSE].pc = Failing(w).pc
    <3>1. Failing(w) \in Jobs
      BY <1>2, JobTypes
    <3> QED
      BY <3>1 DEF Jobs
  <2>5. job'[w].pc \in {"retry", "dead", "idle", "release"}
    BY <1>2, <2>2, <2>3, <2>4
  <2> QED
    BY <1>10, <2>1, <2>5 DEF Carries
<1> QED
  BY <1>16, <1>17, <1>18, <1>19, <1>20, <1>21, <1>22, <1>24, <1>25, <1>26
     DEF WorkerStep, WorkerFault

\* A step of no worker.
LEMMA OthersCarry ==
  ASSUME Typed, Sound, Carrying, PipelineAssumption, MaxAttemptsAssumption,
         UNCHANGED job, Grows, Waits,
         \A s \in Scanners : scan'[s] = scan[s] \/ Marked(scan[s])'
  PROVE  Carrying'
<1>1. ASSUME NEW c, Marked(c), c.pc = "markretry" => c.task \in Tasks /\ c.next \in Attempts
      PROVE  c.pc = "markretry" => retryQ'[c.task][c.next] > 0
  BY <1>1 DEF Marked, Grows
<1>2. \A w \in Workers : Marked(job[w])'
  <2> SUFFICES ASSUME NEW w \in Workers PROVE Marked(job[w])'
    OBVIOUS
  <2>1. job[w].pc = "markretry" => job[w].task \in Tasks /\ job[w].next \in Attempts
    BY MaxAttemptsAssumption DEF Typed, Occupied, Sound, JobSound, Attempts
  <2> QED
    BY <1>1, <2>1 DEF Carrying, Marked
<1>3. \A s \in Scanners : Marked(scan[s])'
  <2> SUFFICES ASSUME NEW s \in Scanners, scan'[s] = scan[s] PROVE Marked(scan[s])'
    OBVIOUS
  <2>1. scan[s].pc = "markretry" => scan[s].task \in Tasks /\ scan[s].next \in Attempts
    BY MaxAttemptsAssumption DEF Typed, Occupied, Sound, ScanSound, Attempts
  <2> QED
    BY <1>1, <2>1 DEF Carrying, Marked
<1>4. \A t \in BadRepo : row'[t].status \notin {"running", "retrying"}
  BY PipelineAssumption DEF Waits, Carrying
<1>5. ASSUME NEW t \in Tasks, row'[t].status = "retrying" PROVE Carried(t)'
  <2>1. Queued(t) => Queued(t)'
    BY DEF Grows, Queued
  <2>2. CASE row'[t] = row[t]
    BY <1>5, <2>1, <2>2 DEF Carrying, Carried, Carries
  <2> QED
    BY <1>5, <2>1, <2>2 DEF Waits, Carried
<1> QED
  BY <1>2, <1>3, <1>4, <1>5 DEF Carrying

\* A recovery loop marks a row only after its message is published.
LEMMA ScannerCarries ==
  ASSUME Typed, Sound, Carrying, PipelineAssumption, MaxAttemptsAssumption, NEW s \in Scanners,
         ScannerStep(s) \/ ScannerCrash(s)
  PROVE  Carrying'
<1> DEFINE c == scan[s]
<1> USE DEF store, queues, http
<1>1. /\ c \in Scans /\ ScanSound(c) /\ scan \in [Scanners -> Scans]
      /\ mainQ \in Queue /\ retryQ \in Queue /\ row \in [Tasks -> Row]
      /\ \A item \in c.todo : item.task \in Tasks /\ item.attempts \in Nat
  BY DEF Typed, TypeOK, Sound, Scans, Queue
<1>2. UNCHANGED job /\ \A r \in Scanners : r # s => scan'[r] = scan[r]
  BY DEF ScannerStep, ListRunning, Recover, RecoverMark, ListQueued, Republish, ScannerCrash,
     Typed, TypeOK
<1>3. ASSUME Grows, Waits, Marked(scan[s])' PROVE Carrying'
  BY <1>2, <1>3, OthersCarry
<1>4. UNCHANGED row => Waits
  BY DEF Waits
<1>5. UNCHANGED <<mainQ, retryQ>> => Grows
  BY DEF Grows
<1>6. 0 \in Attempts
  BY MaxAttemptsAssumption DEF Attempts
<1>7. CASE RecoverMark(s)
  <2>1. c.task \in Tasks /\ c.pc \in {"markretry", "markdead", "markfailed"}
    BY <1>7 DEF RecoverMark, Typed, Occupied
  <2>2. PICK t \in Tasks, n \in Nat, at \in Nat : t = c.task /\ n = c.next /\ at = c.at
    BY <1>1, <2>1 DEF Scans
  <2>3. PICK ok \in BOOLEAN :
          \/ c.pc = "markretry" /\ Transact(t, MarkTaskRetry(row[t], n, at), ok)
          \/ Transact(t, MarkTaskDeadLetter(row[t], n), ok)
          \/ Transact(t, UpdateTaskStatus(row[t], "failed"), ok)
    BY <1>7, <2>2 DEF RecoverMark
  <2>4. c.pc = "markretry" => n \in Attempts
    BY <1>1, <2>2, MaxAttemptsAssumption DEF ScanSound, Attempts
  <2>5. UNCHANGED <<mainQ, retryQ>>
    BY <1>7 DEF RecoverMark
  <2>6. c.pc = "markretry" => Queued(t)
    BY <2>2, <2>4 DEF Carrying, Marked, Queued
  <2>7. Waits
    BY <2>3, <2>5, <2>6, MarkWaits
  <2>8. scan'[s].pc = "running"
    BY <1>1, <1>7 DEF RecoverMark, NextItem, IdleScan
  <2> QED
    BY <1>3, <1>5, <2>5, <2>7, <2>8 DEF Marked
<1>8. CASE Recover(s)
  <2>1. PICK item \in c.todo, ok \in BOOLEAN :
          LET next == NextAttempt(item.attempts, item.attempts)
              cur  == [c EXCEPT !.todo = @ \ {item}, !.task = item.task,
                                !.next = next, !.at = clock + 1]
          IN
          \/ /\ next < MaxAttempts
             /\ PublishRetry(item.task, next, ok)
             /\ scan' = [scan EXCEPT ![s] =
                           IF ok THEN [cur EXCEPT !.pc = "markretry"]
                                 ELSE [c EXCEPT !.todo = @ \ {item}]]
          \/ /\ UNCHANGED retryQ
             /\ scan' = [scan EXCEPT ![s] =
                           [cur EXCEPT !.pc = IF ok THEN "markdead" ELSE "markfailed"]]
    BY <1>8 DEF Recover
  <2>2. PICK t \in Tasks, n \in Nat :
          t = item.task /\ n = NextAttempt(item.attempts, item.attempts)
    BY <1>1 DEF NextAttempt
  <2>3. c.pc = "running" /\ UNCHANGED <<row, mainQ>>
    BY <1>8 DEF Recover
  <2> DEFINE y(p) == [[c EXCEPT !.todo = @ \ {item}, !.task = t,
                                !.next = n, !.at = clock + 1] EXCEPT !.pc = p]
             z == [c EXCEPT !.todo = @ \ {item}]
  <2>4. \/ /\ n < MaxAttempts /\ PublishRetry(t, n, ok)
           /\ \/ ok /\ scan' = [scan EXCEPT ![s] = y("markretry")]
              \/ scan' = [scan EXCEPT ![s] = z]
        \/ /\ UNCHANGED retryQ
           /\ \/ scan' = [scan EXCEPT ![s] = y("markdead")]
              \/ scan' = [scan EXCEPT ![s] = y("markfailed")]
    BY <2>1, <2>2
  <2>5. n < MaxAttempts => n \in Attempts
    BY <2>2, MaxAttemptsAssumption DEF Attempts
  <2>6. ASSUME NEW p \in {"markretry", "markdead", "markfailed"}, NEW x, x = y(p)
        PROVE  x.pc = p /\ x.task = t /\ x.next = n
    BY <1>1, <2>6 DEF Scans
  <2>7. ASSUME NEW x, x = z PROVE x.pc = "running"
    BY <1>1, <2>3, <2>7 DEF Scans
  <2> HIDE DEF y, z
  <2>8. Grows
    <3>1. CASE n < MaxAttempts /\ PublishRetry(t, n, ok)
      <4>1. retryQ' = retryQ \/ retryQ' = Put(retryQ, t, n)
        BY <3>1 DEF PublishRetry
      <4> QED
        BY <1>1, <2>3, <2>5, <3>1, <4>1, PutGrows DEF Grows
    <3>2. CASE UNCHANGED retryQ
      BY <1>5, <2>3, <3>2
    <3> QED
      BY <2>4, <3>1, <3>2
  <2>9. Marked(scan[s])'
    <3>1. CASE scan' = [scan EXCEPT ![s] = z]
      <4>1. scan'[s].pc = "running"
        BY <1>1, <2>7, <3>1
      <4> QED
        BY <4>1 DEF Marked
    <3>2. CASE \/ scan' = [scan EXCEPT ![s] = y("markdead")]
               \/ scan' = [scan EXCEPT ![s] = y("markfailed")]
      <4>1. scan'[s].pc \in {"markdead", "markfailed"}
        BY <1>1, <2>6, <3>2
      <4> QED
        BY <4>1 DEF Marked
    <3>3. CASE /\ scan' = [scan EXCEPT ![s] = y("markretry")] 
               /\ ok /\ n < MaxAttempts /\ PublishRetry(t, n, ok)
      <4>1. scan'[s].task = t /\ scan'[s].next = n
        BY <1>1, <2>6, <3>3
      <4>2. retryQ' = Put(retryQ, t, n)
        BY <3>3 DEF PublishRetry
      <4>3. retryQ'[t][n] > 0
        BY <1>1, <2>5, <3>3, <4>2, PutGrows
      <4> QED
        BY <4>1, <4>3 DEF Marked
    <3> QED
      BY <2>4, <3>1, <3>2, <3>3
  <2> QED
    BY <1>3, <1>4, <2>3, <2>8, <2>9
<1>9. CASE Republish(s)
  <2>1. PICK item \in c.todo, ok \in BOOLEAN :
          /\ PublishMain(item.task, 0, ok) \/ UNCHANGED <<mainQ, faults>>
          /\ LET rest == c.todo \ {item} IN
             scan' = [scan EXCEPT ![s] = IF rest = {} THEN IdleScan
                                         ELSE [c EXCEPT !.todo = rest]]
    BY <1>9 DEF Republish
  <2>2. PICK t \in Tasks : t = item.task
    BY <1>1
  <2>3. c.pc = "queued" /\ UNCHANGED <<row, retryQ>>
    BY <1>9 DEF Republish
  <2>4. mainQ' = mainQ \/ mainQ' = Put(mainQ, t, 0)
    BY <2>1, <2>2 DEF PublishMain
  <2>5. Grows
    BY <1>1, <1>6, <2>3, <2>4, PutGrows DEF Grows
  <2>6. PICK x : /\ scan' = [scan EXCEPT ![s] = x]
                 /\ x = IdleScan \/ x = [c EXCEPT !.todo = c.todo \ {item}]
    BY <2>1, Zenon
  <2>7. scan'[s].pc \in {"idle", "queued"}
    BY <1>1, <2>3, <2>6 DEF IdleScan, Scans
  <2> QED
    BY <1>3, <1>4, <2>3, <2>5, <2>7 DEF Marked
<1>10. CASE \/ \E S \in SUBSET StaleRunning : ListRunning(s, S)
            \/ \E S \in SUBSET StaleQueued : ListQueued(s, S)
            \/ ScannerCrash(s)
  <2>1. UNCHANGED <<row, mainQ, retryQ>>
    BY <1>10 DEF ListRunning, ListQueued, ScannerCrash
  <2>2. scan'[s].pc \in {"idle", "running", "queued"}
    <3>1. CASE \E S \in SUBSET StaleRunning : ListRunning(s, S)
      BY <1>1, <3>1 DEF ListRunning, Scans
    <3>2. CASE \E S \in SUBSET StaleQueued : ListQueued(s, S)
      <4>1. PICK S \in SUBSET StaleQueued : ListQueued(s, S)
        BY <3>2
      <4>2. PICK x : /\ scan' = [scan EXCEPT ![s] = x]
                     /\ x = IdleScan \/ x = [c EXCEPT !.pc = "queued", !.todo = Listed(S)]
        BY <4>1, Zenon DEF ListQueued
      <4>3. x.pc \in {"idle", "queued"}
        <5>1. CASE x = IdleScan
          BY <5>1 DEF IdleScan
        <5>2. CASE x = [c EXCEPT !.pc = "queued", !.todo = Listed(S)]
          BY <1>1, <5>2 DEF Scans
        <5> QED
          BY <4>2, <5>1, <5>2
      <4>4. scan'[s] = x
        <5>1. scan' = [scan EXCEPT ![s] = x]
          BY <4>2
        <5>2. scan \in [Scanners -> Scans]
          BY <1>1
        <5> QED
          BY <5>1, <5>2
      <4> QED
        BY <4>3, <4>4
    <3>3. CASE ScannerCrash(s)
      BY <1>1, <3>3 DEF ScannerCrash, IdleScan
    <3> QED
      BY <1>10, <3>1, <3>2, <3>3
  <2> QED
    BY <1>3, <1>4, <1>5, <2>1, <2>2 DEF Marked
<1> QED
  BY <1>7, <1>8, <1>9, <1>10 DEF ScannerStep

\* A delivered message is carried by its worker.
LEMMA DeliverCarries ==
  ASSUME Typed, Sound, Carrying, NEW w \in Workers, NEW t \in Tasks, NEW a \in Attempts,
         Deliver(w, t, a)
  PROVE  Carrying'
<1> USE DEF store, queues, http
<1>1. /\ UNCHANGED <<row, retryQ, scan>> /\ mainQ' = Take(mainQ, t, a) /\ mainQ \in Queue
      /\ job \in [Workers -> Jobs] /\ job[w].pc = "idle"
      /\ job'[w].pc = "get" /\ job'[w].task = t /\ job'[w].tag
      /\ \A v \in Workers : v # w => job'[v] = job[v]
  BY DEF Deliver, Typed, TypeOK, Queue, IdleJob
<1>2. \A u \in Tasks, b \in Attempts : mainQ[u][b] > 0 => mainQ'[u][b] > 0 \/ u = t
  BY <1>1 DEF Take, Queue
<1>3. \A v \in Workers : Marked(job[v])'
  BY <1>1 DEF Carrying, Marked
<1>4. ASSUME NEW u \in Tasks, row'[u].status = "retrying" PROVE Carried(u)'
  <2>1. CASE u = t
    BY <1>1, <2>1 DEF Carried, Carries
  <2>2. CASE u # t
    <3>1. Carried(u)
      BY <1>1, <1>4 DEF Carrying
    <3>2. Queued(u) => Queued(u)'
      BY <1>1, <1>2, <2>2 DEF Queued
    <3>3. ASSUME NEW v \in Workers, job[v].task = u, Carries(job[v]) PROVE Carried(u)'
      <4>1. v # w
        BY <1>1, <3>3 DEF Carries
      <4>2. job'[v] = job[v] /\ row' = row
        BY <1>1, <4>1
      <4> QED
        BY <3>3, <4>2 DEF Carried, Carries
    <3> QED
      BY <3>1, <3>2, <3>3 DEF Carried
  <2> QED
    BY <2>1, <2>2
<1> QED
  BY <1>1, <1>3, <1>4 DEF Carrying, Marked

\* The handlers mark no row retrying and remove no message.
LEMMA HttpCarries ==
  ASSUME Typed, Sound, Carrying, PipelineAssumption, MaxAttemptsAssumption, NEW t \in Tasks,
         HttpStep(t) \/ HookStops(t)
  PROVE  Carrying'
<1> USE DEF store, queues
<1>1. /\ UNCHANGED <<job, scan, retryQ>> /\ mainQ \in Queue
      /\ row \in [Tasks -> Row] /\ row[t] \in Row
  BY DEF HttpStep, HookCreate, HookQueued, HookPublish, HookFailed, Requeue, RequeuePublish,
     HookStops, Typed, TypeOK, Queue
<1>2. mainQ' = mainQ \/ mainQ' = Put(mainQ, t, 0)
  BY DEF HttpStep, HookCreate, HookQueued, HookPublish, HookFailed, Requeue, RequeuePublish,
     HookStops, PublishMain
<1>3. Grows
  <2>1. 0 \in Attempts
    BY MaxAttemptsAssumption DEF Attempts
  <2> QED
    BY <1>1, <1>2, <2>1, PutGrows DEF Grows
<1>4. Waits
  <2>1. CASE HookQueued(t) \/ HookFailed(t)
    <3>1. PICK ok \in BOOLEAN : \E s \in {"done", "failed", "superseded", "queued"} :
            Transact(t, UpdateTaskStatus(row[t], s), ok)
      BY <2>1 DEF HookQueued, HookFailed
    <3>2. 0 \in Nat
      OBVIOUS
    <3> QED
      BY <3>1, <3>2, MarkWaits
  <2>2. CASE HookCreate(t) \/ Requeue(t)
    <3>1. PICK r : row' = [row EXCEPT ![t] = r] /\ r.status \in {"received", "queued"}
      <4>1. CreateTask.status = "received" /\ RequeueTask(row[t]).status = "queued"
        BY <1>1 DEF CreateTask, RequeueTask, Row
      <4> QED
        BY <2>2, <4>1 DEF HookCreate, Requeue
    <3>2. \A u \in Tasks : row'[u] = row[u] \/ row'[u].status \in {"received", "queued"}
      BY <1>1, <3>1
    <3> QED
      BY <3>2 DEF Waits
  <2>3. CASE UNCHANGED row
    BY <2>3 DEF Waits
  <2> QED
    BY <2>1, <2>2, <2>3 DEF HttpStep, HookPublish, RequeuePublish, HookStops
<1> QED
  BY <1>1, <1>3, <1>4, OthersCarry

\* An expired message is in the main queue.
LEMMA EnvironmentCarries ==
  ASSUME Typed, Sound, Carrying, Punctual, PipelineAssumption, MaxAttemptsAssumption, Environment
  PROVE  Carrying'
<1> USE DEF store, queues, http
<1>1. UNCHANGED <<row, job, scan>>
  BY DEF Environment, Tick, Expire, LockExpires
<1>2. CASE UNCHANGED <<mainQ, retryQ>>
  <2>1. Grows /\ Waits
    BY <1>1, <1>2 DEF Grows, Waits
  <2> QED
    BY <1>1, <2>1, OthersCarry
<1>3. ASSUME NEW t \in Tasks, NEW a \in Attempts, Expire(t, a) PROVE Carrying'
  <2>1. /\ mainQ \in Queue /\ retryQ \in Queue
        /\ mainQ' = Put(mainQ, t, a) /\ retryQ' = Take(retryQ, t, a) /\ ~MarkPending(t, a)
    BY <1>3 DEF Expire, Typed, TypeOK, Queue
  <2>2. mainQ'[t][a] > 0 /\ \A u \in Tasks, b \in Attempts : mainQ[u][b] > 0 => mainQ'[u][b] > 0
    BY <2>1, PutGrows
  <2>3. \A u \in Tasks, b \in Attempts : retryQ[u][b] > 0 => retryQ'[u][b] > 0 \/ (u = t /\ b = a)
    BY <2>1 DEF Take, Queue
  <2>4. \A u \in Tasks : Queued(u) => Queued(u)'
    BY <2>2, <2>3 DEF Queued
  <2>5. \A u \in Tasks : Carried(u) => Carried(u)'
    BY <1>1, <2>4 DEF Carried, Carries
  <2>6. ASSUME NEW w \in Workers PROVE Marked(job[w])'
    <3>1. job[w].pc = "markretry" => job[w].task \in Tasks /\ job[w].next \in Attempts
      BY MaxAttemptsAssumption DEF Typed, Occupied, Sound, JobSound, Attempts
    <3>2. job[w].pc = "markretry" => job[w].task # t \/ job[w].next # a
      BY <2>1 DEF MarkPending
    <3> QED
      BY <1>1, <2>3, <3>1, <3>2 DEF Carrying, Marked
  <2>7. ASSUME NEW s \in Scanners PROVE Marked(scan[s])'
    <3>1. scan[s].pc = "markretry" => scan[s].task \in Tasks /\ scan[s].next \in Attempts
      BY MaxAttemptsAssumption DEF Typed, Occupied, Sound, ScanSound, Attempts
    <3>2. scan[s].pc = "markretry" => scan[s].task # t \/ scan[s].next # a
      BY <2>1 DEF MarkPending
    <3> QED
      BY <1>1, <2>3, <3>1, <3>2 DEF Carrying, Marked
  <2> QED
    BY <1>1, <2>5, <2>6, <2>7 DEF Carrying
<1> QED
  BY <1>2, <1>3 DEF Environment, Tick, LockExpires

PunctualCarrying == Punctual => Carrying

\* Every punctual step keeps Carrying.
LEMMA CarryingInductive ==
  Consistent /\ PunctualCarrying /\ [Next]_vars => PunctualCarrying'
<1> SUFFICES ASSUME Consistent, Punctual, Carrying, [Next]_vars PROVE Carrying'
  BY DEF PunctualCarrying
<1>1. CASE UNCHANGED vars
  BY <1>1 DEF vars, Carrying, Carried, Carries, Queued, Marked
<1> QED
  BY <1>1, PipelineAssumption, MaxAttemptsAssumption, DeliverCarries, WorkerCarries,
     ScannerCarries, HttpCarries, EnvironmentCarries DEF Next, Consistent

\* While every step keeps its time-out, a row that waits for a retry has an
\* unacknowledged message that will bring it back.
THEOREM RetryIsCarried == Spec => [](Punctual => RetryingHasCarrier)
<1>1. Init => PunctualCarrying
  BY PipelineAssumption
     DEF Init, PunctualCarrying, Carrying, NoRow, IdleJob, IdleScan, Marked
<1>2. Consistent /\ PunctualCarrying => (Punctual => RetryingHasCarrier)
  <2> SUFFICES ASSUME Consistent, Carrying, NEW t \in Tasks, row[t].status = "retrying"
               PROVE  InFlight(t)
    BY DEF RetryingHasCarrier, PunctualCarrying
  <2>1. \A a \in Attempts : mainQ[t][a] \in Nat /\ retryQ[t][a] \in Nat
    BY DEF Consistent, Typed, TypeOK
  <2>2. Carried(t)
    BY DEF Carrying
  <2>3. CASE Queued(t)
    BY <2>1, <2>3 DEF Queued, InFlight
  <2>4. CASE ~Queued(t)
    BY <2>2, <2>4 DEF Carried, Carries, InFlight
  <2> QED
    BY <2>3, <2>4
<1> QED
  BY <1>1, <1>2, ConsistentInitial, ConsistentInductive, CarryingInductive, PTL DEF Spec
=============================================================================
