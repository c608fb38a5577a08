--------------------------- MODULE ReviewDelivery ---------------------------
(***************************************************************************)
(* One execution of ReviewPR, from the saved result to the review on       *)
(* GitHub, for the tasks of one pull request (internal/review/delivery.go  *)
(* and internal/store/review_delivery.go).  One action is one call to      *)
(* MySQL or GitHub; between any two of them the execution may fail or the  *)
(* process may die, the head of the pull request may move, and the queue,  *)
(* the recovery loop and the operator may move the task's row in any way   *)
(* that TaskLifecycle allows.                                              *)
(*                                                                         *)
(* The marker of a delivery row is random and never changes: it stands for *)
(* its task.  What a result says is abstracted to the commits it was read  *)
(* from.  GitHub's review list is external.                                *)
(***************************************************************************)
EXTENDS TaskLifecycle

CONSTANTS
  Workers,      \* worker slots
  Commits,      \* head commits of the pull request
  TaskCommit,   \* head in the webhook payload of each task, or NoCommit
  ReviewIds,    \* ids GitHub may give to a review
  NoCommit, NoTask, NoId,
  Exclusive,    \* TRUE: the PR lock outlives its holder
  Prompt,       \* TRUE: a POST that reports an error has taken effect or never will
  Rewinds       \* TRUE: a force push may bring an earlier head back

ASSUME DeliveryAssumption ==
  /\ TaskCommit \in [Tasks -> Commits \cup {NoCommit}]
  /\ NoCommit \notin Commits
  /\ NoTask \notin Tasks
  /\ NoId \notin ReviewIds
  /\ {Exclusive, Prompt, Rewinds} \subseteq BOOLEAN

VARIABLES
  head, heads,   \* the pull request's head, and every head it has had
  result,        \* review_result
  delivery,      \* review_delivery
  reviews,       \* external: the reviews of the pull request on GitHub
  late,          \* external: requests GitHub has yet to carry out
  exec           \* the execution of each worker

saved  == <<result, delivery>>
github == <<head, heads, reviews, late>>
dvars  == <<status, attempts, delivered, head, heads, result, delivery,
            reviews, late, exec>>

\* An analysis reads at least one commit.  A row has a commit.
NoResult   == {}
NoDelivery == [commit |-> NoCommit, id |-> NoId]

Delivery == [commit : Commits \cup {NoCommit}, id : ReviewIds \cup {NoId}]
Review   == [id : ReviewIds, task : Tasks, commit : Commits, content : SUBSET Commits]

\* seen: the commits read so far; snap: the delivery row as it was read;
\* content: the result to be published; id: the review to be recorded.
Idle == [pc |-> "idle", task |-> NoTask, seen |-> {}, snap |-> NoDelivery,
         content |-> NoResult, id |-> NoId]

Step(w, e) == exec' = [exec EXCEPT ![w] = e]
At(w, pc)  == exec[w].pc = pc

-----------------------------------------------------------------------------
(* The task's row, as moved by ReviewPipeline.                             *)

RowMoves(t) ==
  /\ \/ Create(t) \/ Enqueue(t) \/ Backoff(t) \/ DeadLettered(t)
     \/ Fail(t) \/ Requeued(t)
  /\ UNCHANGED <<saved, github, exec>>

\* The worker holds the PR lock and has claimed the task.
Begin(w, t) ==
  /\ At(w, "idle")
  /\ Exclusive => \A v \in Workers : At(v, "idle")
  /\ Start(t)
  /\ Step(w, [Idle EXCEPT !.pc = "resume", !.task = t])
  /\ UNCHANGED <<saved, github>>

\* An error at any call, the time-out or a panic; the worker's retry and the
\* row's next status are RowMoves.
Abandon(w) ==
  /\ ~At(w, "idle")
  /\ Step(w, Idle)
  /\ UNCHANGED <<lifecycle, saved, github>>

-----------------------------------------------------------------------------
(* resumeReview.                                                           *)

\* Mutant: every execution analyses anew.
GetReviewResultNever(w) ==
  /\ At(w, "resume")
  /\ Step(w, [exec[w] EXCEPT !.pc = "head"])
  /\ UNCHANGED <<lifecycle, saved, github>>

\* A saved result is published as it is; a result without a delivery row is an
\* error (manual reconciliation).
GetReviewResult(w) ==
  LET e == exec[w] IN
  /\ At(w, "resume")
  /\ Step(w, IF result[e.task] = NoResult THEN [e EXCEPT !.pc = "head"]
             ELSE [e EXCEPT !.pc = "saved", !.content = result[e.task]])
  /\ UNCHANGED <<lifecycle, saved, github>>

Publishing(e, snap) ==
  [e EXCEPT !.snap = snap, !.pc = IF snap.id # NoId THEN "finished" ELSE "list"]

GetReviewDelivery(w) ==
  LET e == exec[w]
      d == delivery[e.task]
  IN
  /\ At(w, "saved")
  /\ Step(w, IF d = NoDelivery THEN Idle ELSE Publishing(e, d))
  /\ UNCHANGED <<lifecycle, saved, github>>

GetPullRequest(w) ==
  /\ At(w, "head")
  /\ Step(w, [exec[w] EXCEPT !.pc = "prepare", !.seen = {head}])
  /\ UNCHANGED <<lifecycle, saved, github>>

\* The webhook's commit wins over the head just read, an existing row over both.
Pinned(t, read) == IF TaskCommit[t] # NoCommit THEN TaskCommit[t] ELSE read

PrepareReviewDelivery(w) ==
  LET e == exec[w]
      t == e.task
  IN
  /\ At(w, "prepare")
  /\ \E read \in e.seen :
       LET d == IF delivery[t] # NoDelivery THEN delivery[t]
                ELSE [commit |-> Pinned(t, read), id |-> NoId]
       IN
       delivery' = [delivery EXCEPT ![t] = d]
  /\ Step(w, [e EXCEPT !.pc = "reread"])
  /\ UNCHANGED <<lifecycle, result, github>>

\* The row that the insert made or met is read back and compared with the head.
CompareSnapshot(w) ==
  LET e == exec[w] IN
  /\ At(w, "reread")
  /\ \E read \in e.seen :
       Step(w, [e EXCEPT !.pc = IF delivery[e.task].commit = read THEN "analyse" ELSE "supersede"])
  /\ UNCHANGED <<lifecycle, saved, github>>

-----------------------------------------------------------------------------
(* The analysis reads files and diffs at whatever the head is, and ends    *)
(* in finishReview.                                                        *)

Read(w) ==
  /\ At(w, "analyse")
  /\ head \notin exec[w].seen
  /\ Step(w, [exec[w] EXCEPT !.seen = @ \cup {head}])
  /\ UNCHANGED <<lifecycle, saved, github>>

Finish(w) ==
  /\ At(w, "analyse")
  /\ Step(w, [exec[w] EXCEPT !.pc = "fresh", !.snap = delivery[exec[w].task]])
  /\ UNCHANGED <<lifecycle, saved, github>>

\* Mutant: the head read before the analysis is compared instead.
CheckHeadOnce(w) ==
  LET e == exec[w] IN
  /\ At(w, "fresh")
  /\ Step(w, [e EXCEPT !.pc = IF e.snap.commit \in e.seen THEN "save" ELSE "supersede"])
  /\ UNCHANGED <<lifecycle, saved, github>>

\* A fresh read of the head, to detect a push during the analysis.
CheckHead(w) ==
  LET e == exec[w] IN
  /\ At(w, "fresh")
  /\ Step(w, [e EXCEPT !.pc = IF e.snap.commit = head THEN "save" ELSE "supersede"])
  /\ UNCHANGED <<lifecycle, saved, github>>

\* Mutant: the row is replaced when it is there already.
ReplaceReviewResult(w) ==
  LET e == exec[w] IN
  /\ At(w, "save")
  /\ result' = [result EXCEPT ![e.task] = e.seen]
  /\ Step(w, Publishing([e EXCEPT !.content = e.seen], e.snap))
  /\ UNCHANGED <<lifecycle, delivery, github>>

\* review_result has a unique task_id.  Abandon covers the commit that is lost;
\* a commit whose reply is lost is the second disjunct.
CreateReviewResult(w) ==
  LET e == exec[w]
      t == e.task
  IN
  /\ At(w, "save")
  /\ result[t] = NoResult
  /\ result' = [result EXCEPT ![t] = e.seen]
  /\ \/ Step(w, Publishing([e EXCEPT !.content = e.seen], e.snap))
     \/ Step(w, Idle)
  /\ UNCHANGED <<lifecycle, delivery, github>>

-----------------------------------------------------------------------------
(* publishSavedReview.                                                     *)

\* Mutant: only reviews of the present head are searched for the marker.
MatchingAtHead(t, commit) == {r \in reviews : r.task = t /\ r.commit = head}

Matching(t, commit) == {r \in reviews : r.task = t /\ r.commit = commit}

ListPullRequestReviews(w) ==
  LET e == exec[w]
      found == Matching(e.task, e.snap.commit)
  IN
  /\ At(w, "list")
  /\ \/ found = {} /\ Step(w, [e EXCEPT !.pc = "post"])
     \/ \E r \in found : Step(w, [e EXCEPT !.pc = "mark", !.id = r.id])
  /\ UNCHANGED <<lifecycle, saved, github>>

UsedIds == {r.id : r \in reviews \cup late}

ReviewOf(e, id) ==
  [id |-> id, task |-> e.task, commit |-> e.snap.commit, content |-> e.content]

\* The review is created and its id returned; or it is created and the answer
\* lost; or the request goes on after the client has given up.
CreatePullRequestReviewAtCommit(w) ==
  LET e == exec[w] IN
  /\ At(w, "post")
  /\ \E id \in ReviewIds \ UsedIds :
       LET r == ReviewOf(e, id) IN
       \/ /\ reviews' = reviews \cup {r}
          /\ Step(w, [e EXCEPT !.pc = "mark", !.id = id]) \/ Step(w, Idle)
          /\ UNCHANGED late
       \/ /\ ~Prompt
          /\ late' = late \cup {r}
          /\ Step(w, Idle)
          /\ UNCHANGED reviews
  /\ UNCHANGED <<lifecycle, saved, head, heads>>

\* One transaction: the review id and the row's done.  A row that is not
\* running or done, and another id than the recorded one, are errors.
\* Mutant: the row's status is not looked at.
CanRecordAnyway(t, id) == delivery[t].id \in {NoId, id}

CanRecord(t, id) ==
  /\ status[t] \in {"running", "done"}
  /\ delivery[t].id \in {NoId, id}

MarkReviewDelivered(w) ==
  LET e == exec[w]
      t == e.task
  IN
  /\ At(w, "mark")
  /\ CanRecord(t, e.id)
  /\ delivery' = [delivery EXCEPT ![t].id = e.id]
  /\ IF status[t] = "running" THEN Delivered(t) ELSE UNCHANGED lifecycle
  /\ Step(w, [e EXCEPT !.pc = "finished"]) \/ Step(w, Idle)
  /\ UNCHANGED <<result, github>>

-----------------------------------------------------------------------------
(* What process does with the outcome.                                     *)

MarkSuperseded(w) ==
  LET t == exec[w].task IN
  /\ At(w, "supersede")
  /\ IF status[t] = "running" THEN Supersede(t) ELSE UNCHANGED lifecycle
  /\ Step(w, Idle)
  /\ UNCHANGED <<saved, github>>

MarkDone(w) ==
  LET t == exec[w].task IN
  /\ At(w, "finished")
  /\ IF status[t] = "failed" THEN Confirm(t) ELSE UNCHANGED lifecycle
  /\ Step(w, Idle)
  /\ UNCHANGED <<saved, github>>

-----------------------------------------------------------------------------
(* External: pushes, and requests that outlive their client.               *)

Push(c) ==
  /\ c # head
  /\ Rewinds \/ c \notin heads
  /\ head' = c
  /\ heads' = heads \cup {c}
  /\ UNCHANGED <<lifecycle, saved, reviews, late, exec>>

Arrive(r) ==
  /\ late' = late \ {r}
  /\ reviews' = reviews \cup {r}
  /\ UNCHANGED <<lifecycle, saved, head, heads, exec>>

-----------------------------------------------------------------------------
DeliveryInit ==
  /\ LifecycleInit
  /\ head \in Commits /\ heads = {head}
  /\ result = [t \in Tasks |-> NoResult]
  /\ delivery = [t \in Tasks |-> NoDelivery]
  /\ reviews = {} /\ late = {}
  /\ exec = [w \in Workers |-> Idle]

ExecStep(w) ==
  \/ GetReviewResult(w) \/ GetReviewDelivery(w) \/ GetPullRequest(w)
  \/ PrepareReviewDelivery(w) \/ CompareSnapshot(w) \/ Read(w) \/ Finish(w) \/ CheckHead(w)
  \/ CreateReviewResult(w) \/ ListPullRequestReviews(w)
  \/ CreatePullRequestReviewAtCommit(w) \/ MarkReviewDelivered(w)
  \/ MarkSuperseded(w) \/ MarkDone(w) \/ Abandon(w)

DeliveryNext ==
  \/ \E t \in Tasks : RowMoves(t)
  \/ \E w \in Workers, t \in Tasks : Begin(w, t)
  \/ \E w \in Workers : ExecStep(w)
  \/ \E c \in Commits : Push(c)
  \/ \E r \in late : Arrive(r)

DeliverySpec == DeliveryInit /\ [][DeliveryNext]_dvars

-----------------------------------------------------------------------------
Executions ==
  [pc : {"idle", "resume", "saved", "head", "prepare", "reread", "analyse", "fresh",
         "save", "list", "post", "mark", "supersede", "finished"},
   task : Tasks \cup {NoTask}, seen : SUBSET Commits, snap : Delivery,
   content : SUBSET Commits, id : ReviewIds \cup {NoId}]

DeliveryTypeOK ==
  /\ status \in [Tasks -> Statuses]
  /\ attempts \in [Tasks -> 0 .. MaxAttempts]
  /\ delivered \subseteq Tasks
  /\ head \in Commits /\ heads \subseteq Commits
  /\ result \in [Tasks -> SUBSET Commits]
  /\ delivery \in [Tasks -> Delivery]
  /\ reviews \subseteq Review /\ late \subseteq Review
  /\ exec \in [Workers -> Executions]

\* README.md:559-563: under the PR lock, and as long as GitHub does not act on a
\* request after reporting it failed, retries never post a second review.
AtMostOneReview ==
  Prompt /\ Exclusive => \A r, s \in reviews : r.task = s.task => r = s

\* "refusing to mix commits": what is posted at a commit was read from that
\* commit only, and the commit is the one the webhook announced.  Without
\* force pushes that bring an old head back.
CommitsNotMixed ==
  \A r \in reviews \cup late :
    /\ ~Rewinds => r.content \subseteq {r.commit}
    /\ TaskCommit[r.task] \in {r.commit, NoCommit}

\* GitHub shows what /tasks/:id/result shows, at the commit that it names.
PostedIsSaved ==
  \A r \in reviews \cup late :
    /\ r.content = result[r.task]
    /\ r.commit = delivery[r.task].commit

\* A recorded review id is the id of a review of that task on GitHub, and the
\* task is then delivered.
RecordedIsPosted ==
  \A t \in Tasks :
    /\ delivery[t].id # NoId =>
         \E r \in reviews : r.task = t /\ r.id = delivery[t].id
    /\ t \in delivered <=> delivery[t].id # NoId

\* A superseded task has published nothing and left nothing to publish.
SupersededUnpublished ==
  Exclusive => \A t \in Tasks : status[t] = "superseded" =>
    result[t] = NoResult /\ \A r \in reviews \cup late : r.task # t
=============================================================================
