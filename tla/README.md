# A TLA+ development of the GitHub PR review agent

The service receives pull request webhooks, queues a task per delivery, has an
LLM agent review the pull request and posts one review on GitHub. MySQL,
RabbitMQ, Redis, GitHub and the LLM may fail at any call, processes may die
between any two calls, and tasks are retried. This directory holds the models of
that machinery, their TLC configurations and the proofs about them.

Source paths below are relative to the repository root.

## 1. Inventory

| Component | State | Operations | Hard because | Correct when |
|---|---|---|---|---|
| Task rows, `internal/store/mysql.go` | `review_task`: status, attempt_count, next_retry_at | CreateTask, UpdateTaskStatus, ClaimTask, MarkTaskRetry, MarkTaskDeadLetter, RequeueTask, MarkReviewDelivered | every writer may be late; UpdateTaskStatus guards only `superseded` | rows move as the life cycle allows, counts stay in bounds, a delivered task stays settled |
| Worker pool, `internal/worker/worker.go` | the handlers' local variables, Redis lock held | process, defer, retry, dead-letter, panic recovery | a handler is ten calls long; messages are redelivered; time-outs | one review per pull request at a time; every task settles |
| Recovery scanner, same file | list of rows as read | stale running rows, stale received/queued rows | acts on a stale list; races with live workers | never loses a task, never adds an execution |
| Webhook, `internal/webhook/handler.go` | progress of the request | create, queued, publish, failed | publish outcome unknown; crash between calls | a stored task is eventually reviewed |
| Task API, `internal/taskapi/handler.go` | - | requeue a dead letter; read-only pages | old messages survive a requeue | only dead letters are requeued |
| PR lock, `internal/lock/lock.go` | key, token, TTL | SET NX PX, compare-and-delete | lost replies, expiry under the holder | exclusion while time-outs are kept; a release harms nobody else |
| Queues, `internal/queue/rabbitmq.go` | main, retry and dead-letter queue; connection, two channels, four locks | publish with confirm, consume, ack, reconnect, close | confirm unknown; handlers reconnect the connection they are fed from, and share its locks with webhook, API and scanner; the consumer waits for them | no message is lost, handlers stay bounded, consumption resumes, every publish returns |
| Review delivery, `internal/review/delivery.go`, `internal/store/review_delivery.go` | review_result, review_delivery | resume, finish, publish saved review | head moves; POST outcome unknown; crash between save, POST and record | one review, of one commit, of the saved content |
| GitHub client, `internal/github`, with the limiter, `internal/limiter` | token cache; Redis counter | limiter, token, request; pages and a probe | many callers at once; a wait between the check of a token and its use; a failed probe | sent tokens are valid, one refresh per renewal, every call ends, an incomplete list says so |
| Agent loop, `internal/agent`, `internal/review/agent_service.go` | budgets, call cache, messages, tool outputs | rounds, tools, forced answer, repair | the limits interact | bounded; evidence is what the model was shown; no genuine finding is lost |
| Evidence, `internal/review/service.go`, `diff_evidence.go` | - | line numbers of diffs, validate, normalise | hunks cut off or broken; three readers | a quote is accepted at its own line only |
| Agent tools, `internal/githubtools`, `internal/codecontext` | pull request, file, content and archive caches | read, search, retrieve, static checks | limits, failures halfway, temporary files | no file is forgotten without an attempt to remove it; nothing is left out unsaid |
| Review inputs, `internal/review/service.go`, `internal/githubtools/tools.go` | batches of goroutines | skip decision, the diff of each mode, file contents | answers in any order, failures, cancellation | the first readable files, in order |
| Migrations, `internal/store/migration.go` | tables, schema_migrations | legacy upgrade, scripts, versions | DDL commits at once; processes migrate together | who serves finds the whole schema; nobody is stuck |
| Server, `cmd/server/main.go` | run context | start, shutdown | reviews outlive the wait | the consumer returns without handlers |
| Evaluation, `eval` | - | pair and match findings | greedy pairing, augmenting paths | the matching is a maximum |
| Audit log, statistics, configuration, admin UI, LLM client | | | | see section 8 |

Webhook and API write rows and publish; workers consume, take the PR lock, claim
the row, run the delivery protocol and move the row; the scanner moves rows and
publishes; RabbitMQ's message TTL brings retries back. The rows are the only
state all of them share, and the queue messages are hints that may be late,
doubled or lost. A review itself (the agent, its tools, the windows and diffs they
show, the validation of the answer) runs within one worker slot and shares with
the others only the GitHub client's limiter and token.

## 2. Plan

Done, in this order:

1. `TaskStore` (rows), `TaskLifecycle` (what rows promise), `ReviewPipeline`
   (webhook, queues, workers, lock, scanner and API over `TaskStore`, implements
   `TaskLifecycle`), `ReviewDelivery` (one execution's review, composed with
   `TaskLifecycle`), and proofs.
2. `RabbitBroker` (run by `MCBroker`); `GitHubClient` and `SchemaMigration`, run together
   by `MCServices`.
3. `AgentLoop`, `DiffLines`, `CodeContext`, `ReviewInputs`, `Toolkit`, `ArchiveScan`,
   `EvalScoring`, run together by `MCReviewing`.
4. Proofs about the agent loop, the broker, the GitHub client, migrations and the
   toolkit's files.
5. The proof that `ReviewPipeline` implements `TaskLifecycle`, and of the pipeline's
   remaining invariants.
6. Proofs about what a review reads and shows (`DiffLines`, `CodeContext`,
   `ReviewInputs`, `ArchiveScan`) and about the evaluation (`EvalScoring`).

With that every invariant and action property that a run checks is a theorem, too. Left,
in this order: the retry delays and the page limit of the scans (two hazards without a
property); the audit chain; the HTTP side of the shutdown.

## 3. Modules

### TaskStore
One row and each transaction as a function from row to row. Every transaction
locks the row (`SELECT ... FOR UPDATE`), which is why each is atomic. A
transaction whose WHERE clause matches nothing returns the row unchanged. Columns
no guard reads are left out; SQL NULL of `next_retry_at` is 0.

### TaskLifecycle
The abstract specification: status, attempt count and the set of delivered
tasks, with one action per legal move. It allows what the code allows, including a
late `failed` over any status but `superseded` and a `failed` row that turns `queued`
before it ever ran, and it rules out the rest: no start from a settled status, no
count past max_attempts, no requeue of anything but a dead letter, `done` only with
a recorded review.

### ReviewPipeline
State: rows, the tasks with a recorded GitHub review id (`confirmed`), the main and
retry queue as bags of (task, attempt), the dead-letter queue, the lock of each
pull request, and the local state of each worker slot, scanner, webhook request and
requeue request. `job[w].pc` names the call a worker is about to make:

| pc | call in `worker.go` | actions |
|---|---|---|
| get | GetTask and the switch on the row, 255-281 | GetTask, GetTaskError |
| lock | Acquire, 283-295 | AcquireLock, AcquireError |
| defer | PublishRetry of the same attempt, 338-374 | Defer |
| claim | ClaimTask, 307-316 | Claim, ClaimError |
| review | ReviewPR, 318-330 | ReviewSucceeds, ReviewFails, ReviewCommitLost, ReviewPanics, ReviewSuperseded |
| finish, supersede | UpdateTaskStatus, 320-335 | MarkDone, MarkSuperseded |
| retry, markretry | retry, 384-406 | Retry, MarkRetry |
| dead, markdead | deadLetter, 408-429 | DeadLetter, MarkDead |
| markfailed | UpdateTaskStatus(failed) after a failed publish | MarkFailed |
| release | deferred Release, then ack, 296-305 | Release, ReleaseError |

`seen` and `now` are the attempt count and the time that GetTask read: `fail`
computes the next attempt from them, not from the claimed row, and so does the
model. The scanner keeps its list of (task, attempt count) for the same reason.
`Crash` may strike at any pc and `Redeliver` while any handler runs.

Calls that fail: a publish reported as failed may or may not have enqueued, a
transaction reported as failed may or may not have committed, a Redis SET whose
reply is lost leaves an `Orphan` key until its TTL. Each such outcome, each crash,
panic and redelivery costs one of `MaxFaults`.

Time: `clock` counts retry delays; delays are equal, since which of two waits ends
first is left to chance anyway. A queue message may expire before its row is due (two
machines' clocks); the worker then defers it again. `Punctual` states that no step
overruns its time-out: the lock outlives its holder (`New` clamps the TTL above
the review time-out), a row with a live worker is not stale, and a mark follows its
publish within a retry delay. With `Punctual = FALSE` none of that holds.

### ReviewDelivery
One execution of ReviewPR per worker, for the tasks of one pull request, as one
action per call of `resumeReview`, `finishReview` and `publishSavedReview`. The rows are
those of `TaskLifecycle`, whose moves stand for everything the rest of the
pipeline does meanwhile. `PrepareReviewDelivery` and `CompareSnapshot` are the insert and
the read-back of the snapshot, between which a force push or another worker may come. A
result is the set of head commits its analysis read; a marker is its task. `Abandon` is an error, a time-out, a panic or a crash at any
call. GitHub's list of reviews is consistent: a review that exists is listed. The
documentation names that (README.md:563), and hand-edited markers, as limits of the
protocol. `Exclusive` says the PR lock holds, `Prompt` that a POST reported as failed has
no later effect, `Rewinds` that a force push may bring back an earlier head.

### RabbitBroker
The consumer loop (`loop`), the handler of each delivery and each outsider (`at`), the channels
opened last (`gen`) and which of them are still open (`live`), the fields as
`publish` and `Consume` read them (`unset`, `closed`), and the server's side: `ready` and
`unacked`. A delivery is a message on a generation of channels, so that a message
delivered again after a loss is told from its first delivery. The outsiders are those who
publish over the same connection and are no handlers: the webhook (handler.go:117), the
task API (taskapi/handler.go:255) and the scanner (worker.go:190, 222). Which messages
are `malformed` is chosen at the start; a handler refuses such a message without a slot.

The locks: `publishMu` is held from `sending` to the end of a publish, hence
`LockPublish` needs `Publishing = {}`; `mu` is held for reading while a message is
sent (`Readers`) and for writing by `Reconnect` and `CloseBroker`, which wait for
`Readers = {}`. Handlers and outsiders go through the same steps (`Publish`), and differ in
where they return to. `ackMu` spans one call and never another lock, so that `Settle` is one
action. A publish that finds a closed channel reconnects once and sends again; after
an error of unknown outcome it only repairs. The worker's slots (`Working`) are
`Worker.Start`'s. Cancellation of the consumer by the server (basic.cancel without a
closed channel) is left out.

### GitHubClient
One call of each caller, in the order of `Client.do`: limiter, token, request. A
window ends whenever its key has an expiry; the sleep is not timed. A token is
`fresh`, `ending` (two minutes left) or `expired`. The HTTP client gives a
request 30 seconds, so a token that was fresh when taken does not expire under
the request: that, and not the cache, is what two minutes are for, and `Grow` assumes
just that. `MaxTokens` bounds the tokens; one is kept back so that a refresh that is
due can happen.

### SchemaMigration
Each process is between two statements; a statement is one action because MySQL
commits DDL at once. `missing` is what the process saw missing when it looked, so
that another process may have added it before the ALTER. `crashes` bounds failed
statements, lost replies and kills alike; each ends the process, which is started
again. A database is empty or of a time before `schema_migrations`, with any part
of the retry columns, the index and the timestamp precision.

### AgentLoop
`Run` with its closure `execute`, one action per tool call and per answer of the
model. A call is a model value: the same call is the same name with the same normalised
arguments. A finding quotes the output of one call: at the lines it claims
(`placed`), elsewhere in that output (`misplaced`), or not at all (`invented`). The agent's
`shown` and the service's `toolOutputs` (`corpus`) are two variables that the code fills
in two places.

### DiffLines
The three loops that number the new file's lines of a patch, one step per line:
`patchEvidence`, `diffReferenceEvidence` (for corpora that are not JSON) and
`changedLinesForPath`. A line is told by its kind, its text by its position. `Number` and
`Fits` say what the format means without reference to any of the loops.

### CodeContext
`Extract`: enclosing definitions of the target lines, removal of those that contain
another, windows under the shrinking limit, or the plain range. The syntax tree is
external: definitions are any lines of any names, also ones that overlap or that
begin and end together. `Apart` says that no two of the symbols shown share a line. A blank target
line encloses nothing, which the choice of targets and definitions covers.

### ReviewInputs
The pages of changed files and the probe beyond the last page, the decision to
skip, and the diff in the two modes of `AGENT_MODE`. In the legacy mode `ReviewPR` puts
`buildDiff` into the prompt (AppendPatch: whole patches, the limit is looked at before
each), then `fetchFileContents` reads files in batches, whose goroutines end in any order,
fail, or see the cancellation. In the tool-calling mode the model asks for `fullDiff`
(AddPatch: the patch that reaches the limit is cut), and nothing is fetched for it.
`MaxDiffLines` is at least 1: a smaller MAX_DIFF_LINES means no limit to `buildDiff` and
the default of 2000 to the tools.

### Toolkit
What one review caches and holds on disk. Tools run one after another within a
review, so a call is a list of things it asks for (`todo`), of which each may fail.
A file of the temporary directory is its number and the head it was downloaded for.
Removals may fail, too: the code ignores the errors of `os.Remove` (tarball.go:42-54, 72)
and `os.RemoveAll` (static_checks.go:107) and forgets the path. What stays on disk so is
`leftover` and `strayDir`.

### ArchiveScan
The loops over the repository's archive of `search_references`, `retrieve_code_context`
and the extraction for static checks, one step per entry. An entry has a size,
chunks with scores, and whether the reader wants its path. The limits of the three
readers differ in the code; a model has one of each kind, small enough to be met. A
path's place in the archive stands for its name in the ranking. Files that are not
UTF-8 are files without a matching chunk; a path that occurs twice, on which the
extraction fails, is an entry that cannot be read.

### EvalScoring
The greedy pairing of `Evaluate` and the matching of `countLocationMatches`, whose
recursive `assign` is a search in steps: `chain` is the stack of its calls (AskOwner is a
call, GiveUp a return of false), `visited` its `seen`, and when a free location is found
all calls return true and shift their locations at once (Assign). A prediction
is paired in the step that ends its search; in the code the pairs are made in a loop of
their own, which reads nothing of the matching. `Maximum` is Hall's theorem and not
the algorithm.

### MCBroker, MCServices, MCReviewing
`MCBroker` gives RabbitBroker its messages and its outsider. Modules that share no state
are checked in one run: a behaviour of `Services` or `Reviewing` is a behaviour of one of
them while the others stand in a state where they take no step. Nothing is composed by
that; it is two, and seven, model checks in one.

## 4. Runs

| Run | Checks | Bounds |
|---|---|---|
| PipeCrash | TypeOK, OneReviewPerPR, RetryingHasCarrier, AttemptsBelowMax | 1 task, 2 workers, 1 scanner, 2 attempts, 2 faults |
| PipeOverrun | ReleaseKeepsOthers, ImplementsLifecycle | the same without time-outs, 1 fault |
| PipeRequeue | ImplementsLifecycle, DeliveredIsSettled, QueuedSettles under fairness | 2 tasks of one pull request, one of a repository whose name does not split, 1 worker, 1 attempt, 1 requeue, no fault |
| PipeSettles | QueuedSettles under fairness | 1 task, 1 worker, 2 attempts, 1 fault |
| DeliveryLocked | types, AtMostOneReview, CommitsNotMixed, RecordedIsPosted, SupersededUnpublished | 2 tasks, 2 workers, 2 commits, 3 review ids |
| DeliveryUnlocked | saved content without the lock | 1 task, 2 workers, late POSTs, rewinds |
| Broker | HandlersBounded, ReturnsWhenIdle; ConsumptionResumes, RequestsEnd under fairness | 2 messages, none or one malformed, 1 outsider, prefetch 2, 2 slots, 2 losses |
| Services: GitHub client | SentTokenIsValid, OneTokenPerRenewal, CallsEnd | 3 callers, a limit of 1, 3 tokens |
| Services: migrations | ServingHasSchema, EveryoneServes | 2 processes, 1 crash |
| Reviewing: agent | BudgetKept, CitedIsShown, AnswerIsChecked | 2 calls, 2 per round, 3 steps, 10 bytes in outputs of 0, 3 and 5 |
| Reviewing: lines | EvidenceIsExact, ReadersAgree, ContextShowsTargets | patches of 5 lines with 3 hunk headers; files of 6 lines, 2 symbols, limits 1 to 5 |
| Reviewing: inputs | DiffIsComplete, ContextsInOrder | up to 5 changed files, 2 pages of 2, diffs of 4 lines, 3 contexts, 2 at a time |
| Reviewing: tools | FilesAccounted, UntruncatedIsComplete | 5 files of 0 to 4 bytes, 3 archives, 2 pushes; archives of 4 entries |
| Reviewing: evaluation | MatchingIsMaximum | up to 3 expected and 3 predicted findings |
| DocAttempts, DocDone, DocReceived | statements of the documentation that do not hold, see section 7 | 1 task |

`Services` and `Reviewing` are one run each. They reach 80,641 and 1,095,730 distinct
states, Broker 52,455, DeliveryLocked 101,391 and DeliveryUnlocked 120,230.

Why the bounds suffice. *Pipeline:* two workers and one scanner are the least for
which a message, its copy and a recovery meet on one row, and no action looks at more
than two of them. Two attempts have a first, a retried and a last execution (the third
message is the dead letter); PipeRequeue needs only that attempts are used up, hence
one. Two faults allow a failure during the handling of another. One copy added by the
scanner (`MaxCopies`) joins those that redelivery and ambiguous publishes make; in
PipeOverrun every other source of messages is already unbounded by time, so it is 0
there. *Delivery:* two commits tell a moved head from the pinned one, and with rewinds
also a head that came back; the third review id leaves a free one after each task has
posted. Worker symmetry is sound since no property names a worker. *Broker:* two
losses let a channel be lost while handlers of the one before still run. When no message is
malformed, two handlers and the outsider contend for publishMu, so that whoever waits
may wait behind a handler and behind an outsider; a malformed one takes the path without
a worker. Two slots and a prefetch of two, since main.go:127 sets both to
REVIEW_WORKERS. *Services:* three
callers with a window of one let a caller lose two windows, and three tokens let a token
be renewed, end and be renewed. Two processes interleave at any two statements of the
migration, and the crash may hit either. *Reviewing:* three steps have a first round, a
round after a duplicate, and the last one; ten bytes take two outputs of five exactly,
and are exceeded by 5 + 3 + 3. A patch of five lines holds two hunks with a line of each
kind between; the two symbols are any two, and limits of 1 to 5 cut within the first,
between, and within the second. Five files fill two pages and leave one for
the probe; batches of two leave the last one short. Four entries exceed each limit of a
scan and continue after it. Three findings a side are the least on which the greedy
pairing can be beaten twice.

TLC looks for deadlock in Broker, where nobody may be stuck. Elsewhere it does not:
every behaviour of the pipeline and of the delivery ends, with no webhook to come, all
tasks settled and the bounds used up, in a state without a successor, and the parts in
`Services` and `Reviewing` finish.

Bounds in guards: `MaxFaults` (Fault), `MaxRequeues` (Requeue), `MaxCopies`
(Republish), in ReviewDelivery the set `ReviewIds` (a POST needs a free id), `MaxLosses`
(Lose, and a dial that fails), `MaxTokens` (Refresh, Grow), `MaxCrashes` (Crash), `MaxPatch`, `MaxRound`,
`MaxEntries`, `MaxFindings` (sizes of inputs), `MaxPushes` and `MaxArchives` (heads and
downloads of one review).

### Fairness
`Fairness` in ReviewPipeline asks for: a running handler takes its next step (weak);
a message is delivered if a worker is free for it again and again (strong: the queue
is first in, first out, but slots are occupied in between); the scanner lists the
stale rows again and again (strong: the ticker fires every 30 s, and a row that
stays in its status becomes stale); TTLs of messages and locks elapse, time
passes (weak). It asks nothing of webhooks, operators or faults. A review that always
fails is allowed: it ends as a dead letter.

`BrokerFairness`: the consumer loop, each handler, and each outsider once it publishes run
on (strong, since what they wait for, a mutex or a slot, is taken in between; Go's mutexes
and channels let no waiter starve, and the wait for a confirm ends with the publish's
context at the latest), and a delivered message is received (weak). No outsider has to begin. `GitHubFairness`: windows end
and a call goes on (weak: callers that lose a window sleep and try again, and each
has one call, so that it is not starved by newcomers; a stream of new callers could starve
one in the code, until its context ends). `SchemaFairness`: a process runs on, and one
that exited is started again by its supervisor (weak). Losses, crashes and pushes are
never required. `Reviewing` has no fairness and no liveness.

## 5. What the runs show

- Two reviews of a pull request never overlap while steps keep their time-outs,
  through crashes, redelivery, lost Redis replies and panics (which release the lock
  before the failure is handled, and harmlessly so).
- No scan looks at `retrying` rows, and none is needed: the row always has a queued
  or unacknowledged message. This depends on the time-outs: in an overrun a
  message can come back and be dropped on a `running` row before the mark is
  written. The next scan does not see that row.
- attempt_count may go down (a scanner's mark with an old count), but no row runs or
  waits with its attempts used up.
- Whatever happens, a task whose review is recorded is never taken up again. Its row
  may read `failed`.
- A task that is dead-lettered again and again does not starve the others.
- A review on GitHub is the saved result at its pinned commit, always; there is one
  per task under the lock, and it was read from that commit only, unless a head
  was pushed away and back during the analysis.
- A task superseded by a newer head has posted nothing and left nothing to post.
- A handler may reopen the connection that it was fed from, while the consumer waits for
  it: this never blocks, a message that comes again waits for the end of its first
  handler, and consumption goes on after every loss until the shutdown. Handlers,
  webhook, API and scanner reconnect and send under the same locks, and none of
  them waits for ever, also when the connection cannot be opened again.
- However long a caller waits for the limiter, the token it then takes is valid when
  sent, and one caller renews it for all.
- Several processes may migrate one database at once and die anywhere: who serves finds the
  whole schema, and a restart finishes what was begun.
- The agent's bytes and calls are bounded through the last step's forced answer and
  repair, a reply for a repeated call refers to an output that was shown, and an accepted
  answer loses no finding with a genuine quote.
- Line numbers taken from a patch are those of its format, also when a hunk is cut off,
  and both readers of a diff accept the same quotes. Every target line within the limit
  is in a window. A diff, a file list or a search without a truncation mark is complete. The
  model's diff tool keeps to the line limit; the diff in a prompt has whole patches, and
  goes past the limit by no more than its last one.
- On disk there is the archive that the toolkit remembers, one that is being filled, and
  what could not be removed. Nothing is forgotten without an attempt to remove it, after
  `Close` only what could not be removed is left, and a call reads none of the archives
  that were given up.
- The matching that location scores rest on is a maximum, and no order of the findings
  changes its size.

## 6. Proofs

| Theorem | Statement |
|---|---|
| `TaskLifecycle_proofs!LifecycleSafe` | LifecycleSpec => []LifecycleInv: counts in bounds, delivered tasks settled |
| `ReviewPipeline_proofs!TypeCorrect` | Spec => []TypeOK |
| `ReviewPipeline_proofs!LockExcludes` | Spec => [](Punctual => OneReviewPerPR) |
| `ReviewPipeline_proofs!PipelineIsLifecycle` | Spec => ImplementsLifecycle: the refinement |
| `ReviewPipeline_proofs!AttemptsBounded` | []AttemptsBelowMax |
| `ReviewPipeline_proofs!DeliveriesStay` | []DeliveredIsSettled |
| `ReviewPipeline_proofs!ReleaseHarmless` | Spec => ReleaseKeepsOthers |
| `ReviewPipeline_proofs!RetryIsCarried` | [](Punctual => RetryingHasCarrier) |
| `ReviewDelivery_proofs!PublishedIsSaved` | []PostedIsSaved |
| `ReviewDelivery_proofs!RecordedIsPublished` | []RecordedIsPosted |
| `ReviewDelivery_proofs!DeliveryTypes` | []DeliveryTypeOK |
| `ReviewDelivery_proofs!PostedOnce` | []AtMostOneReview (which assumes Exclusive and Prompt) |
| `ReviewDelivery_proofs!SupersededIsUnpublished` | []SupersededUnpublished |
| `ReviewDelivery_proofs!PostedUnmixed` | []CommitsNotMixed (its first part assumes no rewinds) |
| `Services_proofs!BrokerTypes`, `BrokerBoundsHandlers`, `BrokerReturnsIdle` | types, []HandlersBounded, []ReturnsWhenIdle |
| `Services_proofs!GitHubTypes`, `GitHubSendsValidTokens`, `GitHubRenewsOnce` | types, []SentTokenIsValid, []OneTokenPerRenewal |
| `Services_proofs!SchemaTypes`, `SchemaServes` | types, []ServingHasSchema |
| `Agent_proofs!AgentTypes`, `AgentBudget`, `AgentCitesShown`, `AgentChecksAnswer` | types, []BudgetKept, []CitedIsShown, []AnswerIsChecked |
| `Agent_proofs!ToolkitTypes`, `ToolkitLeavesNothing` | types, []FilesAccounted |
| `Agent_proofs!ScanInvariant`, `ArchiveCompleteness` | the invariant of the three readers, []UntruncatedIsComplete |
| `Inputs_proofs!InputsInvariant`, `DiffCompleteness`, `ContentsOrdered` | the invariant, []DiffIsComplete, []ContextsInOrder |
| `Inputs_proofs!DiffInvariant`, `EvidenceExact`, `ReadersAgreement` | the invariant, []EvidenceIsExact, []ReadersAgree |
| `Inputs_proofs!ContextInvariant`, `ContentShowsTargets` | the invariant, []ContextShowsTargets |
| `EvalScoring_proofs!ScoringInvariant`, `MatchingMaximality` | the invariant, []MatchingIsMaximum |

They hold for all sets of tasks, workers, scanners, commits, ids, callers and processes,
all pull requests, patches, files, archives and findings, and all bounds, under the modules' named assumptions (which TLC evaluates in every run).

*Pipeline, types and lock.* TypeOK is not inductive: a `Put` on a queue needs the task of
a job to be a task, so `Typed` adds `Occupied` (who acts, acts on a task). Exclusion needs
`Locked`: a worker between its claim and its release owns the key of its pull request.
Each action either keeps the key, gives it up together with the pc, or (expiry) takes
only keys of nobody when `Punctual`. At most one worker can own a key. ReleaseKeepsOthers
needs only the types: the delete compares the key's holder.

*Pipeline, refinement.* The invariant is `Consistent`: the types, the life cycle's own
invariant on the mapped rows, and `Sound`. `Sound` says of everything that carries a task
(a message, a worker's job, an item a scanner has listed) that the row exists and that
the attempt is one the row could get, and of rows that nobody queued yet that nobody
could have claimed them. Two lemmas do the work: `Moves` (each transaction of `TaskStore`,
called so, is a move of the life cycle or changes nothing it sees) and `SoundInductive`.
The life cycle's invariant is then kept because a move keeps it, a lemma of
`TaskLifecycle_proofs` that is cited through an INSTANCE. AttemptsBelowMax and
DeliveredIsSettled follow. This covers runs without time-outs, too.

*Pipeline, retries.* RetryingHasCarrier alone is not inductive, since a message in a
worker's hands may be about to be dropped. `Carrying` asks more: a waiting row has a
message in a queue, or with a worker that will claim the row or defer it, and who is
about to mark a row has its message still in the retry queue. The second part is where
`Punctual` is used: a message that expired before the mark would meet a row that is
still `running`, and be dropped.

*Delivery.* `DeliveryInv` says what each pc of an execution knows: the snapshot it
holds agrees with the row, the content it will post is the saved result, the id it
will record belongs to a review of its task. Rows of review_result and the commit of
review_delivery are written once, which is what makes that stable under the steps
of others. `Once` (no review exists when one is about to be posted), `Unpublishing`
(a superseded or analysing execution has no result) and `Unmixed` (what an execution
has read is its pinned commit, as long as the head has not moved from it) are
inductive relative to it.

*Broker.* `OneSubscription`: deliveries in the client are all of the loop's last
subscription, there are none before it subscribes again, and while its channel is open
the server counts every one of them. `Counted` then bounds them by the prefetch;
`OnePublishes` is the mutex. `Opened` bounds the generations by the losses, for the types.

*GitHub client.* `TokensInOrder`: only the last token can be fresh, and it is the
cached one; who asks for a new token is alone and has seen that the last one is not fresh.
Hence every renewal is of an ended token, and a token taken is valid when sent.

*Migrations.* `Progress` says what a process can rely on after each of its statements,
whatever the others do (no statement ever removes a table, a column or a version), and
that a version is recorded only when its tables exist.

*Agent loop.* `CacheIsShown` (what may be cited has been shown, and the agent's and the
service's copies agree), `CallsCounted` (model calls against rounds, by phase) and
`DoneIsValid`.

*Toolkit.* `WellFormed` calls (the pull request first, the archive once, and a download in
its order) and `Reading` (who has opened the archive asks for nothing of the network) keep
FilesAccounted through every failure, of removals too. `Numbered` says that archives are
numbered as they are created, so that one that was given up is never the remembered one
again.

*Sorting and cutting.* Some components sort what they have, or keep the first or the best
few of what they have seen. `FiniteOrders` states once what that means: in a finite set under a strict order an
element's place is the number of elements below it, so that one sequence lists the set, and
one its first K elements. `FirstOfAll` says that the best K of what was kept and what is
new are the best K of everything, which is why forgetting the others is harmless.

*Archive.* `ScanInv` says what each reader should have of the entries it has passed: the
first matches in the archive's order, the best chunks, or every wanted file; and that the
mark is set as soon as one is left out. The last step makes that UntruncatedIsComplete.

*Inputs.* `ReviewInputs` fetches in batches whose answers come in any order. The
invariant relates the counter of the diff, in each mode, to the lines of the files
passed: what is left of the limit is the limit less the lines shown, in the legacy mode
less one for each empty patch, too. It relates the contents kept to those of the batches
done: the readable ones, listed by their place in the list of files. The cut by
MaxFileContexts then takes the first, whoever answered first.

*Lines of patches.* The number a loop has for the next line is that of the last hunk header
plus the counted lines since; the invariant of DiffLines states this for each of the
three, and that the counters of the evidence check are what is left of the hunk. A line past
its hunk's counts is never quoted.

*Windows.* A window has its symbol's first target line in it, also after it was moved back
from the symbol's end. The invariant says so of each window made, and that the lines shown
are at most the room used, or as many if no two symbols share a line. No choice of
overlapping definitions breaks it.

*Evaluation.* `Certifies` is König's certificate: a set of predictions that reach matched
locations only, together with their owners, while all other predictions are matched
(`CertifiedIsMaximum`: then no set of predictions, hence no matching, allows more). Two facts
about the search keep one: a chain of calls that ends at a free location never
enters the certificate's locations, so that shifting the chain leaves it valid
(`ShiftedMatches`); and a search that fails adds the owners of all it has seen
(`UnassignedCertifies`), which is why `seen` may be shared by the calls.

Left to TLC: all liveness (QueuedSettles, ConsumptionResumes, RequestsEnd, CallsEnd, EveryoneServes),
which is out of the prover's reach. The type invariants of RabbitBroker, GitHubClient, SchemaMigration, AgentLoop and
Toolkit are proved and not checked again by TLC.

## 7. Where documentation and code differ

- **DocAttempts** (README.md:341, `max_attempts` is the greatest number of executions).
  The scanner lists a stale running row; before it marks the row, the row is taken over
  and runs with a higher attempt. The mark checks only `status = 'running'`, sets the
  count back and makes the row `retrying`; one execution more follows.
- **DocDone** (README.md:327-335, nothing follows `done`, `failed` comes from `running`).
  The webhook's publish is enqueued but reported as failed. The task runs and is
  done, then the webhook writes `failed`.
- **DocReceived** (docs/design.md:119, tasks left `received` are recovered). ClaimTask does
  not accept `received`; the scanner republishes such a task for ever.

Met while modelling, without a run of their own:

- A repository name that does not split is dead-lettered before the claim. The mark
  requires `running`, so the row stays queued, and each minute the scanner publishes it
  again and another dead letter follows. The documentation says of the dead-letter queue
  only what becomes of tasks past their maximum attempts. PipeRequeue has such a task.
- The errors of `os.Remove` and `os.RemoveAll` are ignored: an archive or a work directory
  that cannot be removed stays in the temporary directory, and nothing tries again.
- `buildDiff` checks the limit before a patch and not within it, so that the prompt of the
  legacy mode may exceed MAX_DIFF_LINES by one patch of any length.
- Without the PR lock two workers may both post a review of one task. CommitsNotMixed and
  PostedIsSaved hold of each of the two; that there is only one is promised under the
  lock (AtMostOneReview) and with no late POSTs.
- docs/design.md:117 says early duplicates are acknowledged directly, docs/design.md:120
  that they are deferred; the code defers.
- docs/design.md:96 stops the HTTP server first and the worker after it. The worker's
  context derives from the signal's (main.go:173), so that both stop at once; the
  wait of 30 s for running reviews begins when the HTTP server is down.
- An added line whose text begins with `++` reads `+++` in a patch, and two of the three
  readers take it for a file header and do not count it
  (`diffReferenceEvidence`, `changedLinesForPath`): later lines of its hunk are one off.
  EvidenceIsExact covers patches with such lines, ReadersAgree is stated for those without.
- docs/design.md:172 prefers the inner of nested symbols. Two declarations that start and
  end on the same lines each remove the other. Targets outside every symbol are left
  out when another target is inside one, and symbols past the eighth are left out
  without a truncation mark.
- GitHub omits the patch of a large file, which `fullDiff` counts as no lines: its
  diff is complete by its own mark.
- The evaluation's greedy pairing depends on the order of the findings;
  only `countLocationMatches` is a maximum.
- The pull request and the list of its files are cached at different moments and may be
  of different heads; the check of the head before a review is saved covers what
  is posted.

## 8. Not modelled

- Signature check, event filter, duplicate webhook deliveries (no state changes), read-only
  API pages, statistics and admin UI: no state of their own.
- The LLM client: one HTTP request per call, whose outcomes are choices of AgentLoop.
- The audit log: rows written in the transactions of the changes they describe, and read
  by pages only. A tool call that cannot be logged is `RecordFails` of AgentLoop.
- `buildFileContext` and `limitLines`, which join the contents read and cut each of them by
  itself; `fileDiff`, the single-file form of `fullDiff`; the replacement of a tool output
  longer than maxToolOutputChars by a note. A MAX_DIFF_LINES below 1.
- Parsing of the configuration; keys and encodings of tokens; formatting of prompts,
  tool outputs and reviews; evidence of plain text, snippets and static checks, which is
  a comparison of strings.
- The HTTP server's shutdown, and the processes that static checks start.
- The LIMIT 100 of the scans, and head-of-line blocking of message TTLs in RabbitMQ: a
  message may expire at any time in the model, which includes late.
- TouchQueuedTask: it changes only `updated_at`, and staleness is a free choice among the rows
  whose status is stale.
- The length of a delay: doubling and jitter of retry delays.
- Replaying traces and the ratios and reports of the evaluation.
