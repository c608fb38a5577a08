------------------------ MODULE ReviewDelivery_proofs ------------------------
(***************************************************************************)
(* The safety of publishing, for any number of tasks, workers, commits and *)
(* review ids.                                                             *)
(***************************************************************************)
EXTENDS ReviewDelivery, TaskLifecycle_proofs

\* Every step moves the rows as TaskLifecycle allows.
LEMMA StepIsLifecycle ==
  ASSUME DeliveryTypeOK, \A w \in Workers : ~At(w, "idle") => exec[w].task \in Tasks,
         [DeliveryNext]_dvars
  PROVE  [LifecycleNext]_lifecycle
<1> USE DEF At, lifecycle
<1>1. CASE UNCHANGED dvars
  BY <1>1 DEF dvars
<1>2. ASSUME NEW t \in Tasks, RowMoves(t) PROVE LifecycleNext
  BY <1>2 DEF RowMoves, LifecycleNext
<1>3. ASSUME NEW w \in Workers, NEW t \in Tasks, Begin(w, t) PROVE LifecycleNext
  BY <1>3 DEF Begin, LifecycleNext
<1>4. ASSUME NEW w \in Workers, MarkReviewDelivered(w) PROVE [LifecycleNext]_lifecycle
  BY <1>4 DEF MarkReviewDelivered, LifecycleNext
<1>5. ASSUME NEW w \in Workers, MarkSuperseded(w) PROVE [LifecycleNext]_lifecycle
  BY <1>5 DEF MarkSuperseded, LifecycleNext
<1>6. ASSUME NEW w \in Workers, MarkDone(w) PROVE [LifecycleNext]_lifecycle
  BY <1>6 DEF MarkDone, LifecycleNext
<1>7. ASSUME NEW w \in Workers,
             \/ GetReviewResult(w) \/ GetReviewDelivery(w) \/ GetPullRequest(w)
             \/ PrepareReviewDelivery(w) \/ CompareSnapshot(w) \/ Read(w) \/ Finish(w) \/ CheckHead(w)
             \/ CreateReviewResult(w) \/ ListPullRequestReviews(w)
             \/ CreatePullRequestReviewAtCommit(w) \/ Abandon(w)
      PROVE UNCHANGED lifecycle
  BY <1>7 DEF GetReviewResult, GetReviewDelivery, GetPullRequest,
     PrepareReviewDelivery, CompareSnapshot, Read, Finish, CheckHead, CreateReviewResult,
     ListPullRequestReviews, CreatePullRequestReviewAtCommit, Abandon
<1>8. ASSUME NEW c \in Commits, Push(c) PROVE UNCHANGED lifecycle
  BY <1>8 DEF Push
<1>9. ASSUME NEW r \in late, Arrive(r) PROVE UNCHANGED lifecycle
  BY <1>9 DEF Arrive
<1> QED
  BY <1>1, <1>2, <1>3, <1>4, <1>5, <1>6, <1>7, <1>8, <1>9 DEF DeliveryNext, ExecStep

-----------------------------------------------------------------------------
(* What an execution has read is still so.                                 *)

ExecOK(e) ==
  /\ e.pc # "idle" => e.task \in Tasks
  /\ e.pc \in {"prepare", "reread", "analyse", "fresh", "save"} => e.seen # {}
  /\ e.pc \in {"reread", "analyse", "fresh", "save", "list", "post", "mark"} =>
       delivery[e.task].commit \in Commits
  /\ e.pc \in {"fresh", "save", "list", "post", "mark"} =>
       e.snap.commit = delivery[e.task].commit
  /\ e.pc \in {"saved", "list", "post", "mark"} =>
       e.content = result[e.task] /\ e.content # NoResult
  /\ e.pc # "idle" /\ e.snap.id # NoId => e.task \in delivered
  /\ e.pc = "mark" => \E r \in reviews : r.task = e.task /\ r.id = e.id
  /\ e.pc = "finished" => e.task \in delivered

Published == reviews \cup late

Saved ==
  /\ \A r \in Published : result[r.task] # NoResult
  /\ \A t \in Tasks :
       /\ delivery[t].id # NoId => delivery[t].commit \in Commits
       /\ delivery[t].commit \in {TaskCommit[t], NoCommit} \/ TaskCommit[t] = NoCommit

DeliveryInv ==
  /\ DeliveryTypeOK
  /\ LifecycleInv
  /\ \A w \in Workers : ExecOK(exec[w])
  /\ Saved /\ PostedIsSaved /\ RecordedIsPosted

USE DEF NoResult, NoDelivery

LEMMA DeliveryInitial == DeliveryInit => DeliveryInv
<1> SUFFICES ASSUME DeliveryInit PROVE DeliveryInv
  OBVIOUS
<1>1. LifecycleInv
  BY LifecycleInitial DEF DeliveryInit
<1>2. DeliveryTypeOK
  BY <1>1, DeliveryAssumption
     DEF DeliveryInit, DeliveryTypeOK, LifecycleInv, LifecycleTypeOK, Idle, Delivery, Executions
<1>3. \A w \in Workers : ExecOK(exec[w])
  BY DeliveryAssumption DEF DeliveryInit, ExecOK, Idle
<1>4. Saved /\ PostedIsSaved /\ RecordedIsPosted
  BY DeliveryAssumption DEF DeliveryInit, LifecycleInit, Saved, Published, PostedIsSaved, RecordedIsPosted
<1> QED
  BY <1>1, <1>2, <1>3, <1>4 DEF DeliveryInv

LEMMA ExecTypes ==
  ASSUME DeliveryTypeOK, DeliveryAssumption, NEW w \in Workers, ExecOK(exec[w]),
         ExecStep(w) \/ \E t \in Tasks : Begin(w, t)
  PROVE  exec' \in [Workers -> Executions]
<1>1. SUFFICES \E e \in Executions : Step(w, e)
  BY <1>1 DEF DeliveryTypeOK, Step
<1>2. exec[w] \in Executions
  BY DEF DeliveryTypeOK
<1>3. Idle \in Executions
  BY DeliveryAssumption DEF Idle, Executions, Delivery
<1>4. ASSUME NEW t \in Tasks, Begin(w, t) PROVE \E e \in Executions : Step(w, e)
  <2>1. [Idle EXCEPT !.pc = "resume", !.task = t] \in Executions
    BY DeliveryAssumption DEF Idle, Executions, Delivery
  <2> QED
    BY <2>1, <1>4 DEF Begin
<1>5. ASSUME NEW p \in {"head", "save", "supersede", "post", "finished"}
      PROVE [exec[w] EXCEPT !.pc = p] \in Executions
  BY <1>2 DEF Executions
<1>6. CASE GetReviewResult(w)
  <2>1. ~At(w, "idle") /\ exec[w].task \in Tasks
    BY <1>6 DEF GetReviewResult, At, ExecOK
  <2>2. [exec[w] EXCEPT !.pc = "saved", !.content = result[exec[w].task]] \in Executions
    BY <1>2, <2>1 DEF Executions, DeliveryTypeOK
  <2> QED
    BY <1>5, <1>6, <2>2 DEF GetReviewResult
<1>7. CASE GetReviewDelivery(w)
  <2>1. exec[w].task \in Tasks
    BY <1>7 DEF GetReviewDelivery, At, ExecOK
  <2>2. Publishing(exec[w], delivery[exec[w].task]) \in Executions
    BY <1>2, <2>1 DEF Executions, DeliveryTypeOK, Publishing
  <2> QED
    BY <1>3, <1>7, <2>2 DEF GetReviewDelivery
<1>8. CASE GetPullRequest(w)
  <2>1. [exec[w] EXCEPT !.pc = "prepare", !.seen = {head}] \in Executions
    BY <1>2 DEF Executions, DeliveryTypeOK
  <2> QED
    BY <1>8, <2>1 DEF GetPullRequest
<1>9. CASE PrepareReviewDelivery(w) \/ CompareSnapshot(w)
  <2>1. /\ [exec[w] EXCEPT !.pc = "reread"] \in Executions
        /\ \A c : [exec[w] EXCEPT !.pc = IF c THEN "analyse" ELSE "supersede"] \in Executions
    BY <1>2 DEF Executions
  <2> QED
    BY <1>9, <2>1 DEF PrepareReviewDelivery, CompareSnapshot
<1>10. CASE Read(w)
  <2>1. [exec[w] EXCEPT !.seen = @ \cup {head}] \in Executions
    BY <1>2 DEF Executions, DeliveryTypeOK
  <2> QED
    BY <1>10, <2>1 DEF Read
<1>11. CASE Finish(w)
  <2>1. exec[w].task \in Tasks
    BY <1>11 DEF Finish, At, ExecOK
  <2>2. [exec[w] EXCEPT !.pc = "fresh", !.snap = delivery[exec[w].task]] \in Executions
    BY <1>2, <2>1 DEF Executions, DeliveryTypeOK
  <2> QED
    BY <1>11, <2>2 DEF Finish
<1>12. CASE CheckHead(w)
  <2>1. [exec[w] EXCEPT !.pc = IF exec[w].snap.commit = head THEN "save" ELSE "supersede"]
          \in Executions
    BY <1>2 DEF Executions
  <2> QED
    BY <1>12, <2>1 DEF CheckHead
<1>13. CASE CreateReviewResult(w)
  <2>1. Publishing([exec[w] EXCEPT !.content = exec[w].seen], exec[w].snap) \in Executions
    BY <1>2 DEF Executions, Publishing
  <2> QED
    BY <1>3, <1>13, <2>1 DEF CreateReviewResult
<1>14. ASSUME NEW i \in ReviewIds
       PROVE [exec[w] EXCEPT !.pc = "mark", !.id = i] \in Executions
  BY <1>2 DEF Executions
<1>15. CASE ListPullRequestReviews(w)
  <2>1. \A r \in reviews : r.id \in ReviewIds
    BY DEF DeliveryTypeOK, Review
  <2> QED
    BY <1>5, <1>14, <1>15, <2>1 DEF ListPullRequestReviews, Matching
<1>16. CASE CreatePullRequestReviewAtCommit(w)
  BY <1>3, <1>14, <1>16 DEF CreatePullRequestReviewAtCommit
<1>17. CASE MarkReviewDelivered(w) \/ MarkSuperseded(w) \/ MarkDone(w) \/ Abandon(w)
  BY <1>3, <1>5, <1>17 DEF MarkReviewDelivered, MarkSuperseded, MarkDone, Abandon
<1> QED
  BY <1>4, <1>6, <1>7, <1>8, <1>9, <1>10, <1>11, <1>12, <1>13, <1>15, <1>16, <1>17
     DEF ExecStep

\* What was saved, published or delivered stays so.
Grows ==
  /\ \A t \in Tasks :
       /\ result[t] # NoResult => result'[t] = result[t]
       /\ delivery[t].commit \in Commits => delivery'[t].commit = delivery[t].commit
  /\ reviews \subseteq reviews'
  /\ delivered \subseteq delivered'

LEMMA OthersStayOK ==
  ASSUME NEW CONSTANT e, ExecOK(e), Grows
  PROVE  ExecOK(e)'
BY DEF ExecOK, Grows

LEMMA IdleOK == ExecOK(Idle)'
BY DeliveryAssumption DEF ExecOK, Idle

Unpublished == UNCHANGED <<delivered, saved, reviews, late>>

LEMMA QuietStep ==
  ASSUME DeliveryInv, Unpublished
  PROVE  Saved' /\ PostedIsSaved' /\ RecordedIsPosted' /\ Grows
BY DEF DeliveryInv, Unpublished, saved, Saved, Published, PostedIsSaved, RecordedIsPosted, Grows

\* The worker that moves: its new execution is OK in the new state.
Moves(w) == exec' = [exec EXCEPT ![w] = exec'[w]] /\ ExecOK(exec[w])'

LEMMA MovesOK ==
  ASSUME DeliveryInv, DeliveryAssumption, NEW w \in Workers, ExecStep(w)
  PROVE  Moves(w) /\ Saved' /\ PostedIsSaved' /\ RecordedIsPosted' /\ Grows
<1> DEFINE e == exec[w]
<1>1. exec \in [Workers -> Executions] /\ e \in Executions /\ ExecOK(e)
  BY DEF DeliveryInv, DeliveryTypeOK
<1>2. ASSUME NEW x, Step(w, x), ExecOK(x)' PROVE Moves(w)
  <2>1. exec' = [exec EXCEPT ![w] = exec'[w]] /\ exec'[w] = x
    BY <1>1, <1>2 DEF Step
  <2> QED
    BY <1>2, <2>1 DEF Moves, ExecOK
<1>3. ASSUME NEW x, Step(w, x), ExecOK(x), Unpublished
      PROVE  Moves(w) /\ Saved' /\ PostedIsSaved' /\ RecordedIsPosted' /\ Grows
  BY <1>2, <1>3, QuietStep, OthersStayOK
<1> DEFINE Quiet == Unpublished /\ \E x : Step(w, x) /\ ExecOK(x)
<1>4. CASE Quiet
  BY <1>3, <1>4
<1> USE DEF Unpublished, lifecycle, github, At
<1>5. ExecOK(Idle)
  BY DeliveryAssumption DEF ExecOK, Idle
<1>6. CASE GetReviewResult(w)
  <2>1. /\ ExecOK([e EXCEPT !.pc = "head"])
        /\ result[e.task] # NoResult =>
             ExecOK([e EXCEPT !.pc = "saved", !.content = result[e.task]])
    BY <1>1, <1>6 DEF GetReviewResult, ExecOK, Executions
  <2> QED
    BY <1>4, <1>6, <2>1 DEF GetReviewResult
<1>7. CASE GetReviewDelivery(w)
  <2>1. delivery[e.task] # NoDelivery => ExecOK(Publishing(e, delivery[e.task]))
    BY <1>1, <1>7 DEF GetReviewDelivery, ExecOK, Executions, Publishing, DeliveryInv,
       RecordedIsPosted, Saved, DeliveryTypeOK, Delivery
  <2> QED
    BY <1>4, <1>5, <1>7, <2>1 DEF GetReviewDelivery
<1>8. CASE GetPullRequest(w)
  <2>1. ExecOK([e EXCEPT !.pc = "prepare", !.seen = {head}])
    BY <1>1, <1>8 DEF GetPullRequest, ExecOK, Executions
  <2> QED
    BY <1>4, <1>8, <2>1 DEF GetPullRequest
<1>9. CASE Read(w)
  <2>1. ExecOK([e EXCEPT !.seen = @ \cup {head}])
    BY <1>1, <1>9 DEF Read, ExecOK, Executions
  <2> QED
    BY <1>4, <1>9, <2>1 DEF Read
<1>10. CASE Finish(w)
  <2>1. ExecOK([e EXCEPT !.pc = "fresh", !.snap = delivery[e.task]])
    BY <1>1, <1>10 DEF Finish, ExecOK, Executions, DeliveryInv, RecordedIsPosted
  <2> QED
    BY <1>4, <1>10, <2>1 DEF Finish
<1>11. CASE CheckHead(w)
  <2>1. ExecOK([e EXCEPT !.pc = IF e.snap.commit = head THEN "save" ELSE "supersede"])
    BY <1>1, <1>11 DEF CheckHead, ExecOK, Executions
  <2> QED
    BY <1>4, <1>11, <2>1 DEF CheckHead
<1>12. CASE ListPullRequestReviews(w)
  <2>1. ExecOK([e EXCEPT !.pc = "post"])
    BY <1>1, <1>12 DEF ListPullRequestReviews, ExecOK, Executions
  <2>2. ASSUME NEW r \in Matching(e.task, e.snap.commit)
        PROVE ExecOK([e EXCEPT !.pc = "mark", !.id = r.id])
    BY <1>1, <1>12, <2>2 DEF ListPullRequestReviews, ExecOK, Executions, Matching
  <2> QED
    BY <1>4, <1>12, <2>1, <2>2 DEF ListPullRequestReviews
<1>13. CASE MarkSuperseded(w)
  BY <1>4, <1>5, <1>13 DEF MarkSuperseded, Supersede
<1>14. CASE MarkDone(w)
  BY <1>4, <1>5, <1>14 DEF MarkDone, Confirm
<1>15. CASE Abandon(w)
  BY <1>4, <1>5, <1>15 DEF Abandon
<1>16. CASE PrepareReviewDelivery(w)
  <2> DEFINE t == e.task
  <2>1. PICK read \in e.seen :
          LET d == IF delivery[t] # NoDelivery THEN delivery[t]
                   ELSE [commit |-> Pinned(t, read), id |-> NoId]
          IN delivery' = [delivery EXCEPT ![t] = d]
    BY <1>16 DEF PrepareReviewDelivery
  <2>2. t \in Tasks /\ read \in Commits /\ e.seen # {}
    BY <1>1, <1>16, <2>1 DEF PrepareReviewDelivery, ExecOK, Executions
  <2>3. UNCHANGED <<delivered, result, reviews, late>> /\ Step(w, [e EXCEPT !.pc = "reread"])
    BY <1>16 DEF PrepareReviewDelivery
  <2>4. CASE delivery[t] # NoDelivery
    <3>1. delivery' = delivery
      BY <2>1, <2>2, <2>4 DEF DeliveryInv, DeliveryTypeOK
    <3>2. delivery[t].commit \in Commits
      BY <2>2, <2>4 DEF DeliveryInv, DeliveryTypeOK, Delivery, Saved, RecordedIsPosted
    <3>3. ExecOK([e EXCEPT !.pc = "reread"])
      BY <1>1, <1>16, <2>2, <3>2 DEF PrepareReviewDelivery, ExecOK, Executions
    <3> QED
      BY <1>3, <2>3, <3>1, <3>3 DEF saved
  <2>5. CASE delivery[t] = NoDelivery
    <3> DEFINE d == [commit |-> Pinned(t, read), id |-> NoId]
    <3>1. delivery' = [delivery EXCEPT ![t] = d]
      BY <2>1, <2>5
    <3>2. delivery'[t] = d /\ \A s \in Tasks \ {t} : delivery'[s] = delivery[s]
      BY <2>2, <3>1 DEF DeliveryInv, DeliveryTypeOK
    <3>3. d.commit \in Commits /\ d.id = NoId
          /\ (d.commit = TaskCommit[t] \/ TaskCommit[t] = NoCommit)
      BY <2>2, DeliveryAssumption DEF Pinned
    <3>4. delivery[t].commit \notin Commits /\ delivery[t].id = NoId
      BY <2>5, DeliveryAssumption
    <3>5. Grows
      BY <2>3, <3>2, <3>4 DEF Grows
    <3>6. Saved'
      BY <2>3, <3>2, <3>3 DEF DeliveryInv, Saved, Published
    <3>7. \A r \in Published : r.task \in Tasks /\ r.commit \in Commits
      BY DEF DeliveryInv, DeliveryTypeOK, Published, Review
    <3>8. PostedIsSaved'
      BY <2>3, <3>2, <3>4, <3>7 DEF DeliveryInv, PostedIsSaved, Published
    <3>9. RecordedIsPosted'
      BY <2>3, <3>2, <3>3, <3>4 DEF DeliveryInv, RecordedIsPosted
    <3>10. ASSUME NEW x, x = [e EXCEPT !.pc = "reread"]
           PROVE  ExecOK(x)'
      <4>1. /\ x.pc = "reread" /\ x.task = t /\ x.seen # {}
            /\ x.snap = e.snap
        BY <1>1, <2>2, <3>10 DEF Executions
      <4>2. e.pc # "idle"
        BY <1>16 DEF PrepareReviewDelivery
      <4> QED
        BY <1>1, <2>2, <2>3, <3>2, <3>3, <4>1, <4>2 DEF ExecOK
    <3>11. Moves(w)
      BY <1>2, <2>3, <3>10
    <3> QED
      BY <3>5, <3>6, <3>8, <3>9, <3>11
  <2> QED
    BY <2>4, <2>5
<1>17. CASE CreateReviewResult(w)
  <2> DEFINE t == e.task
  <2>1. t \in Tasks /\ result[t] = NoResult /\ e.seen # {} /\ e.pc = "save"
    BY <1>1, <1>17 DEF CreateReviewResult, ExecOK
  <2>2. UNCHANGED <<delivered, delivery, reviews, late>>
    BY <1>17 DEF CreateReviewResult
  <2>3. result'[t] = e.seen /\ \A s \in Tasks \ {t} : result'[s] = result[s]
    BY <1>17, <2>1 DEF CreateReviewResult, DeliveryInv, DeliveryTypeOK
  <2>4. Grows
    BY <2>1, <2>2, <2>3 DEF Grows
  <2>5. \A r \in Published : r.task \in Tasks /\ r.task # t
    BY <2>1 DEF DeliveryInv, DeliveryTypeOK, Saved, Published, Review
  <2>6. Saved' /\ PostedIsSaved'
    BY <2>1, <2>2, <2>3, <2>5 DEF DeliveryInv, Saved, Published, PostedIsSaved
  <2>7. RecordedIsPosted'
    BY <2>2 DEF DeliveryInv, RecordedIsPosted
  <2>8. ASSUME NEW x, x = Publishing([e EXCEPT !.content = e.seen], e.snap)
        PROVE  ExecOK(x)'
    <3>1. /\ x.pc \in {"list", "finished"} /\ x.task = t /\ x.content = e.seen
          /\ x.snap = e.snap /\ (x.pc = "finished" => e.snap.id # NoId)
      BY <1>1, <2>8 DEF Executions, Publishing
    <3> QED
      BY <1>1, <2>1, <2>2, <2>3, <3>1 DEF ExecOK
  <2>9. Moves(w)
    BY <1>2, <1>17, <2>8, IdleOK DEF CreateReviewResult
  <2> QED
    BY <2>4, <2>6, <2>7, <2>9
<1>18. CASE CreatePullRequestReviewAtCommit(w)
  <2> DEFINE t == e.task
  <2>1. PICK id \in ReviewIds \ UsedIds :
          LET r == ReviewOf(e, id)
          IN \/ /\ reviews' = reviews \cup {r}
                /\ Step(w, [e EXCEPT !.pc = "mark", !.id = id]) \/ Step(w, Idle)
                /\ UNCHANGED late
             \/ /\ ~Prompt
                /\ late' = late \cup {r}
                /\ Step(w, Idle)
                /\ UNCHANGED reviews
    BY <1>18 DEF CreatePullRequestReviewAtCommit
  <2> DEFINE r == ReviewOf(e, id)
  <2>2. /\ t \in Tasks /\ e.pc = "post" /\ delivery[t].commit \in Commits
        /\ e.snap.commit = delivery[t].commit
        /\ e.content = result[t] /\ e.content # NoResult
    BY <1>1, <1>18 DEF CreatePullRequestReviewAtCommit, ExecOK
  <2>3. UNCHANGED <<delivered, result, delivery>>
    BY <1>18 DEF CreatePullRequestReviewAtCommit, saved
  <2>4. Published' = Published \cup {r} /\ reviews \subseteq reviews'
    BY <2>1 DEF Published
  <2>5. Grows
    BY <2>3, <2>4 DEF Grows
  <2>6. Saved'
    BY <2>2, <2>3, <2>4 DEF DeliveryInv, Saved, ReviewOf
  <2>7. PostedIsSaved'
    BY <2>2, <2>3, <2>4 DEF DeliveryInv, PostedIsSaved, Published, ReviewOf
  <2>8. RecordedIsPosted'
    BY <2>3, <2>4 DEF DeliveryInv, RecordedIsPosted
  <2>9. ASSUME NEW x, x = [e EXCEPT !.pc = "mark", !.id = id], r \in reviews'
        PROVE  ExecOK(x)'
    <3>1. x.pc = "mark" /\ x.task = t /\ x.id = id /\ x.snap = e.snap /\ x.content = e.content
      BY <1>1, <2>9 DEF Executions
    <3> QED
      BY <1>1, <2>2, <2>3, <2>9, <3>1 DEF ExecOK, ReviewOf
  <2>10. Moves(w)
    BY <1>2, <2>1, <2>9, IdleOK
  <2> QED
    BY <2>5, <2>6, <2>7, <2>8, <2>10
<1>19. CASE MarkReviewDelivered(w)
  <2> DEFINE t == e.task
  <2>1. t \in Tasks /\ e.pc = "mark" /\ CanRecord(t, e.id)
    BY <1>1, <1>19 DEF MarkReviewDelivered, ExecOK
  <2>2. PICK r \in reviews : r.task = t /\ r.id = e.id
    BY <1>1, <2>1 DEF ExecOK
  <2>3. e.id # NoId
    BY <2>2, DeliveryAssumption DEF DeliveryInv, DeliveryTypeOK, Review
  <2>4. UNCHANGED <<result, reviews, late>>
    BY <1>19 DEF MarkReviewDelivered
  <2>5. delivered' = delivered \cup {t}
    <3>1. CASE status[t] = "running"
      BY <1>19, <3>1 DEF MarkReviewDelivered, Delivered
    <3>2. CASE status[t] # "running"
      <4>1. t \in delivered
        BY <2>1, <3>2 DEF CanRecord, DeliveryInv, LifecycleInv, DeliveredSettled
      <4> QED
        BY <1>19, <3>2, <4>1 DEF MarkReviewDelivered
    <3> QED
      BY <3>1, <3>2
  <2>6. /\ delivery'[t].commit = delivery[t].commit /\ delivery'[t].id = e.id
        /\ \A s \in Tasks \ {t} : delivery'[s] = delivery[s]
    BY <1>19, <2>1 DEF MarkReviewDelivered, DeliveryInv, DeliveryTypeOK, Delivery
  <2>7. \A s \in Tasks : delivery'[s].commit = delivery[s].commit
    BY <2>6
  <2>8. Grows
    BY <2>4, <2>5, <2>7 DEF Grows
  <2>9. delivery[t].commit \in Commits
    BY <1>1, <2>1 DEF ExecOK
  <2>10. Saved'
    BY <2>4, <2>6, <2>7, <2>9 DEF DeliveryInv, Saved, Published
  <2>11. PostedIsSaved'
    BY <2>4, <2>7 DEF DeliveryInv, DeliveryTypeOK, PostedIsSaved, Published, Review
  <2>12. RecordedIsPosted'
    BY <2>2, <2>3, <2>4, <2>5, <2>6 DEF DeliveryInv, RecordedIsPosted
  <2>13. ASSUME NEW x, x = [e EXCEPT !.pc = "finished"]
         PROVE  ExecOK(x)'
    <3>1. x.pc = "finished" /\ x.task = t /\ x.snap = e.snap
      BY <1>1, <2>13 DEF Executions
    <3> QED
      BY <1>1, <2>1, <2>5, <3>1 DEF ExecOK
  <2>14. Moves(w)
    BY <1>2, <1>19, <2>13, IdleOK DEF MarkReviewDelivered
  <2> QED
    BY <2>8, <2>10, <2>11, <2>12, <2>14
<1>20. CASE CompareSnapshot(w)
  <2>1. \A c : ExecOK([e EXCEPT !.pc = IF c THEN "analyse" ELSE "supersede"])
    BY <1>1, <1>20 DEF CompareSnapshot, ExecOK, Executions
  <2> QED
    BY <1>4, <1>20, <2>1 DEF CompareSnapshot
<1> QED
  BY <1>6, <1>7, <1>8, <1>9, <1>10, <1>11, <1>12, <1>13, <1>14, <1>15, <1>16,
     <1>17, <1>18, <1>19, <1>20 DEF ExecStep

LEMMA StateTypes ==
  ASSUME DeliveryInv, DeliveryAssumption, NEW w \in Workers, ExecStep(w)
  PROVE  /\ head' \in Commits /\ heads' \subseteq Commits
         /\ result' \in [Tasks -> SUBSET Commits]
         /\ delivery' \in [Tasks -> Delivery]
         /\ reviews' \subseteq Review /\ late' \subseteq Review
<1> USE DEF DeliveryTypeOK, At, github, saved
<1> DEFINE e == exec[w]
           t == e.task
<1>1. DeliveryTypeOK /\ e \in Executions /\ ExecOK(e)
  BY DEF DeliveryInv
<1>2. CASE PrepareReviewDelivery(w)
  <2>1. t \in Tasks /\ e.seen \subseteq Commits
    BY <1>1, <1>2 DEF PrepareReviewDelivery, ExecOK, Executions
  <2>2. \A read \in e.seen :
          (IF delivery[t] # NoDelivery THEN delivery[t]
             ELSE [commit |-> Pinned(t, read), id |-> NoId]) \in Delivery
    BY <1>1, <2>1, DeliveryAssumption DEF Pinned, Delivery
  <2>3. \A d \in Delivery : [delivery EXCEPT ![t] = d] \in [Tasks -> Delivery]
    BY <1>1, <2>1
  <2>4. delivery' \in [Tasks -> Delivery]
    BY <1>2, <2>2, <2>3 DEF PrepareReviewDelivery
  <2>5. UNCHANGED <<head, heads, result, reviews, late>>
    BY <1>2 DEF PrepareReviewDelivery
  <2> QED
    BY <1>1, <2>4, <2>5
<1>3. CASE CreateReviewResult(w)
  BY <1>1, <1>3 DEF CreateReviewResult, Executions, ExecOK
<1>4. CASE CreatePullRequestReviewAtCommit(w)
  <2>1. t \in Tasks /\ e.snap.commit \in Commits /\ e.content \in SUBSET Commits
    BY <1>1, <1>4 DEF CreatePullRequestReviewAtCommit, ExecOK, Executions
  <2>2. \A id \in ReviewIds :
          ReviewOf(e, id) \in Review
    BY <2>1 DEF Review, ReviewOf
  <2> QED
    BY <1>1, <1>4, <2>2 DEF CreatePullRequestReviewAtCommit
<1>5. CASE MarkReviewDelivered(w)
  <2>1. t \in Tasks
    BY <1>1, <1>5 DEF MarkReviewDelivered, ExecOK
  <2>2. [delivery[t] EXCEPT !.id = e.id] \in Delivery
    BY <1>1, <2>1 DEF Delivery, Executions
  <2> QED
    BY <1>1, <1>5, <2>1, <2>2 DEF MarkReviewDelivered
<1>6. CASE \/ GetReviewResult(w) \/ GetReviewDelivery(w) \/ GetPullRequest(w)
           \/ CompareSnapshot(w) \/ Read(w) \/ Finish(w) \/ CheckHead(w) \/ ListPullRequestReviews(w)
           \/ MarkSuperseded(w) \/ MarkDone(w) \/ Abandon(w)
  BY <1>1, <1>6 DEF GetReviewResult, GetReviewDelivery, GetPullRequest, CompareSnapshot, Read, Finish,
     CheckHead, ListPullRequestReviews, MarkSuperseded, MarkDone, Abandon
<1> QED
  BY <1>2, <1>3, <1>4, <1>5, <1>6 DEF ExecStep

LEMMA DeliveryInductive == DeliveryInv /\ [DeliveryNext]_dvars => DeliveryInv'
<1> SUFFICES ASSUME DeliveryInv, [DeliveryNext]_dvars PROVE DeliveryInv'
  OBVIOUS
<1> USE DeliveryAssumption DEF At
<1>1. LifecycleInv'
  <2>1. \A w \in Workers : ~At(w, "idle") => exec[w].task \in Tasks
    BY DEF DeliveryInv, ExecOK
  <2> QED
    BY <2>1, StepIsLifecycle, LifecycleInductive DEF DeliveryInv
<1>2. status' \in [Tasks -> Statuses] /\ attempts' \in [Tasks -> 0 .. MaxAttempts]
      /\ delivered' \subseteq Tasks
  BY <1>1 DEF LifecycleInv, LifecycleTypeOK
<1>3. ASSUME Unpublished, UNCHANGED exec, head' \in Commits, heads' \subseteq Commits
      PROVE  DeliveryInv'
  <2>1. \A w \in Workers : ExecOK(exec[w])'
    BY <1>3, QuietStep DEF DeliveryInv, ExecOK, Unpublished, saved
  <2>2. DeliveryTypeOK'
    BY <1>2, <1>3 DEF DeliveryInv, DeliveryTypeOK, Unpublished, saved
  <2> QED
    BY <1>1, <1>3, <2>1, <2>2, QuietStep DEF DeliveryInv
<1>4. head \in Commits /\ heads \subseteq Commits
  BY DEF DeliveryInv, DeliveryTypeOK
<1>5. CASE UNCHANGED dvars
  BY <1>3, <1>4, <1>5 DEF dvars, Unpublished, saved
<1>6. ASSUME NEW t \in Tasks, RowMoves(t) PROVE DeliveryInv'
  BY <1>3, <1>4, <1>6 DEF RowMoves, Create, Enqueue, Backoff, DeadLettered, Fail,
     Requeued, Unpublished, github
<1>7. ASSUME NEW c \in Commits, Push(c) PROVE DeliveryInv'
  BY <1>3, <1>4, <1>7 DEF Push, lifecycle, Unpublished
<1>8. ASSUME NEW w \in Workers, exec' = [exec EXCEPT ![w] = exec'[w]],
             ExecOK(exec[w])', Grows
      PROVE  \A v \in Workers : ExecOK(exec[v])'
  <2> SUFFICES ASSUME NEW v \in Workers, v # w PROVE ExecOK(exec[v])'
    BY <1>8
  <2>1. exec'[v] = exec[v] /\ ExecOK(exec[v])
    BY <1>8 DEF DeliveryInv, DeliveryTypeOK
  <2>2. \A e : ExecOK(e) => ExecOK(e)'
    BY <1>8, OthersStayOK
  <2> QED
    BY <2>1, <2>2 DEF ExecOK
<1>9. ASSUME NEW w \in Workers, NEW t \in Tasks, Begin(w, t) PROVE DeliveryInv'
  <2>1. Unpublished /\ UNCHANGED <<head, heads>>
    BY <1>9 DEF Begin, Start, Unpublished, github
  <2>2. exec' \in [Workers -> Executions]
    BY <1>9, ExecTypes DEF DeliveryInv
  <2>3. exec' = [exec EXCEPT ![w] = exec'[w]]
        /\ exec'[w] = [Idle EXCEPT !.pc = "resume", !.task = t]
    BY <1>9 DEF Begin, Step, DeliveryInv, DeliveryTypeOK
  <2>4. ExecOK(exec[w])'
    BY <2>3 DEF ExecOK, Idle
  <2>5. DeliveryTypeOK'
    BY <1>2, <1>4, <2>1, <2>2 DEF DeliveryInv, DeliveryTypeOK, Unpublished, saved
  <2> QED
    BY <1>1, <1>8, <2>1, <2>3, <2>4, <2>5, QuietStep DEF DeliveryInv
<1>10. ASSUME NEW w \in Workers, ExecStep(w) PROVE DeliveryInv'
  <2>1. DeliveryTypeOK'
    BY <1>2, <1>10, ExecTypes, StateTypes DEF DeliveryInv, DeliveryTypeOK
  <2> QED
    BY <1>1, <1>8, <1>10, <2>1, MovesOK DEF DeliveryInv, Moves
<1>11. ASSUME NEW r \in late, Arrive(r) PROVE DeliveryInv'
  <2>1. UNCHANGED <<status, attempts, delivered, result, delivery, head, heads, exec>>
        /\ Published' = Published /\ reviews \subseteq reviews'
    BY <1>11 DEF Arrive, lifecycle, saved, Published
  <2>2. Grows
    BY <2>1 DEF Grows
  <2>3. \A w \in Workers : ExecOK(exec[w])'
    BY <2>1, <2>2, OthersStayOK DEF DeliveryInv, ExecOK
  <2>4. DeliveryTypeOK'
    BY <1>2, <1>11, <2>1 DEF DeliveryInv, DeliveryTypeOK, Arrive
  <2>5. Saved' /\ PostedIsSaved' /\ RecordedIsPosted'
    BY <2>1 DEF DeliveryInv, Saved, PostedIsSaved, RecordedIsPosted, Published
  <2> QED
    BY <1>1, <2>3, <2>4, <2>5 DEF DeliveryInv
<1> QED
  BY <1>5, <1>6, <1>7, <1>9, <1>10, <1>11 DEF DeliveryNext

\* Whatever fails or overlaps: GitHub shows the saved result at its pinned
\* commit.
THEOREM PublishedIsSaved == DeliverySpec => []PostedIsSaved
<1>1. DeliveryInv => PostedIsSaved
  BY DEF DeliveryInv
<1> QED
  BY <1>1, DeliveryInitial, DeliveryInductive, DeliveryAssumption, PTL DEF DeliverySpec

\* A recorded review id is the id of a review of that task.
THEOREM RecordedIsPublished == DeliverySpec => []RecordedIsPosted
<1>1. DeliveryInv => RecordedIsPosted
  BY DEF DeliveryInv
<1> QED
  BY <1>1, DeliveryInitial, DeliveryInductive, DeliveryAssumption, PTL DEF DeliverySpec

\* Every variable keeps its type.
THEOREM DeliveryTypes == DeliverySpec => []DeliveryTypeOK
<1>1. DeliveryInv => DeliveryTypeOK
  BY DEF DeliveryInv
<1> QED
  BY <1>1, DeliveryInitial, DeliveryInductive, DeliveryAssumption, PTL DEF DeliverySpec

-----------------------------------------------------------------------------
(* Under the lock, one execution at a time.                                *)

Once ==
  /\ Prompt => late = {}
  /\ Exclusive => \A v, w \in Workers : ~At(v, "idle") /\ ~At(w, "idle") => v = w
  /\ Prompt /\ Exclusive =>
       \A w \in Workers : At(w, "post") => \A r \in reviews : r.task # exec[w].task
  /\ AtMostOneReview

Early == {"head", "prepare", "reread", "analyse", "fresh", "save", "supersede"}

Unpublishing ==
  Exclusive =>
    /\ \A t \in Tasks : status[t] = "superseded" => result[t] = NoResult
    /\ \A w \in Workers :
         /\ exec[w].pc \in Early => result[exec[w].task] = NoResult
         /\ ~At(w, "idle") => status[exec[w].task] # "superseded"

\* Where a step of w leads, and what it may change on the way.
LEMMA Transition ==
  ASSUME DeliveryInv, DeliveryAssumption, NEW w \in Workers, ExecStep(w)
  PROVE  /\ ~At(w, "idle") /\ exec[w].task \in Tasks
         /\ exec'[w] = Idle \/ exec'[w].task = exec[w].task
         /\ \A v \in Workers \ {w} : exec'[v] = exec[v]
         /\ At(w, "post")' => Matching(exec[w].task, exec[w].snap.commit) = {}
                              /\ exec[w].pc = "list" /\ reviews' = reviews
         /\ exec'[w].pc \in Early => result' = result
                              /\ (exec[w].pc \in Early \/ result[exec[w].task] = NoResult)
         /\ \A t \in Tasks : t # exec[w].task => result'[t] = result[t]
         /\ \A t \in Tasks : status'[t] = "superseded" =>
              status[t] = "superseded" \/ (exec[w].pc = "supersede" /\ t = exec[w].task
                                            /\ exec'[w] = Idle /\ result' = result)
         /\ Prompt => late' = late
<1> USE DEF At, saved, github, Early
<1> DEFINE e == exec[w]
<1>1. exec \in [Workers -> Executions] /\ e \in Executions /\ ExecOK(e)
  BY DEF DeliveryInv, DeliveryTypeOK
<1>2. ~At(w, "idle") /\ e.task \in Tasks
  <2>1. ~At(w, "idle")
    BY DEF ExecStep, GetReviewResult, GetReviewDelivery, GetPullRequest,
       PrepareReviewDelivery, CompareSnapshot, Read, Finish, CheckHead, CreateReviewResult,
       ListPullRequestReviews, CreatePullRequestReviewAtCommit, MarkReviewDelivered,
       MarkSuperseded, MarkDone, Abandon
  <2> QED
    BY <1>1, <2>1 DEF ExecOK
<1>3. \A v \in Workers \ {w} : exec'[v] = exec[v]
  BY <1>1, MovesOK DEF Moves
<1>4. ASSUME NEW x, Step(w, x) PROVE exec'[w] = x
  BY <1>1, <1>4 DEF Step
<1> DEFINE Goal ==
      /\ exec'[w] = Idle \/ exec'[w].task = e.task
      /\ At(w, "post")' => Matching(e.task, e.snap.commit) = {}
                           /\ e.pc = "list" /\ reviews' = reviews
      /\ exec'[w].pc \in Early => result' = result
                           /\ (e.pc \in Early \/ result[e.task] = NoResult)
      /\ \A t \in Tasks : t # e.task => result'[t] = result[t]
      /\ \A t \in Tasks : status'[t] = "superseded" =>
           status[t] = "superseded" \/ (e.pc = "supersede" /\ t = e.task
                                         /\ exec'[w] = Idle /\ result' = result)
      /\ Prompt => late' = late
<1>5. Idle.pc = "idle"
  BY DEF Idle
<1> USE DEF lifecycle
<1>6. ASSUME UNCHANGED <<status, result, late>>, exec'[w].task = e.task,
             exec'[w].pc # "post",
             exec'[w].pc \in Early => e.pc \in Early \/ result[e.task] = NoResult
      PROVE  Goal
  BY <1>6
<1>7. ASSUME UNCHANGED <<status, result>>, exec'[w] = Idle, Prompt => late' = late
      PROVE  Goal
  BY <1>5, <1>7
<1>8. SUFFICES Goal
  BY <1>2, <1>3
<1>9. CASE GetReviewResult(w)
  <2>1. exec'[w] = IF result[e.task] = NoResult THEN [e EXCEPT !.pc = "head"]
                   ELSE [e EXCEPT !.pc = "saved", !.content = result[e.task]]
    BY <1>1, <1>4, <1>9 DEF GetReviewResult
  <2>2. exec'[w].task = e.task
        /\ exec'[w].pc = IF result[e.task] = NoResult THEN "head" ELSE "saved"
    BY <1>1, <2>1 DEF Executions
  <2> QED
    BY <1>6, <1>9, <2>2 DEF GetReviewResult
<1>10. CASE GetReviewDelivery(w)
  <2>1. exec'[w] = Idle \/ exec'[w] = Publishing(e, delivery[e.task])
    BY <1>1, <1>4, <1>10 DEF GetReviewDelivery
  <2>2. Publishing(e, delivery[e.task]).task = e.task
        /\ Publishing(e, delivery[e.task]).pc \in {"list", "finished"}
    BY <1>1 DEF Executions, Publishing
  <2> QED
    BY <1>6, <1>7, <1>10, <2>1, <2>2 DEF GetReviewDelivery
<1>11. CASE GetPullRequest(w)
  <2>1. exec'[w] = [e EXCEPT !.pc = "prepare", !.seen = {head}]
    BY <1>1, <1>4, <1>11 DEF GetPullRequest
  <2>2. exec'[w].task = e.task /\ exec'[w].pc = "prepare"
    BY <1>1, <2>1 DEF Executions
  <2> QED
    BY <1>6, <1>11, <2>2 DEF GetPullRequest
<1>12. CASE PrepareReviewDelivery(w) \/ CompareSnapshot(w)
  <2>1. PICK p \in {"reread", "analyse", "supersede"} : Step(w, [e EXCEPT !.pc = p])
    BY <1>1, <1>12 DEF PrepareReviewDelivery, CompareSnapshot
  <2>2. exec'[w].task = e.task /\ exec'[w].pc = p
    BY <1>1, <1>4, <2>1 DEF Executions
  <2> QED
    BY <1>6, <1>12, <2>2 DEF PrepareReviewDelivery, CompareSnapshot
<1>13. CASE Read(w)
  <2>1. exec'[w] = [e EXCEPT !.seen = @ \cup {head}]
    BY <1>1, <1>4, <1>13 DEF Read
  <2>2. exec'[w].task = e.task /\ exec'[w].pc = e.pc
    BY <1>1, <2>1 DEF Executions
  <2> QED
    BY <1>6, <1>13, <2>2 DEF Read
<1>14. CASE Finish(w)
  <2>1. exec'[w] = [e EXCEPT !.pc = "fresh", !.snap = delivery[e.task]]
    BY <1>1, <1>4, <1>14 DEF Finish
  <2>2. exec'[w].task = e.task /\ exec'[w].pc = "fresh"
    BY <1>1, <2>1 DEF Executions
  <2> QED
    BY <1>6, <1>14, <2>2 DEF Finish
<1>15. CASE CheckHead(w)
  <2>1. PICK p \in {"save", "supersede"} : Step(w, [e EXCEPT !.pc = p])
    BY <1>1, <1>15 DEF CheckHead
  <2>2. exec'[w].task = e.task /\ exec'[w].pc = p
    BY <1>1, <1>4, <2>1 DEF Executions
  <2> QED
    BY <1>6, <1>15, <2>2 DEF CheckHead
<1>16. CASE CreateReviewResult(w)
  <2> DEFINE x == Publishing([e EXCEPT !.content = e.seen], e.snap)
  <2>1. x.task = e.task /\ x.pc \in {"list", "finished"}
    BY <1>1 DEF Executions, Publishing
  <2>2. exec'[w] = x \/ exec'[w] = Idle
    BY <1>1, <1>4, <1>16 DEF CreateReviewResult
  <2>3. exec'[w] = Idle \/ (exec'[w].task = e.task /\ exec'[w].pc \in {"list", "finished"})
    BY <2>1, <2>2
  <2>4. \A t \in Tasks : t # e.task => result'[t] = result[t]
    BY <1>16 DEF CreateReviewResult, DeliveryInv, DeliveryTypeOK
  <2>5. UNCHANGED <<status, late>>
    BY <1>16 DEF CreateReviewResult
  <2> QED
    BY <1>5, <2>3, <2>4, <2>5
<1>17. CASE ListPullRequestReviews(w)
  <2>1. UNCHANGED <<status, result, late, reviews>> /\ e.pc = "list"
    BY <1>17 DEF ListPullRequestReviews
  <2>2. ASSUME NEW r \in Matching(e.task, e.snap.commit),
               Step(w, [e EXCEPT !.pc = "mark", !.id = r.id])
        PROVE  Goal
    <3>1. exec'[w].task = e.task /\ exec'[w].pc = "mark"
      BY <1>1, <1>4, <2>2 DEF Executions
    <3> QED
      BY <1>6, <2>1, <3>1
  <2>3. ASSUME Matching(e.task, e.snap.commit) = {}, Step(w, [e EXCEPT !.pc = "post"])
        PROVE  Goal
    <3>1. exec'[w].task = e.task /\ exec'[w].pc = "post"
      BY <1>1, <1>4, <2>3 DEF Executions
    <3> QED
      BY <2>1, <2>3, <3>1
  <2> QED
    BY <1>17, <2>2, <2>3 DEF ListPullRequestReviews
<1>18. CASE CreatePullRequestReviewAtCommit(w)
  <2>1. UNCHANGED <<status, result>> /\ (Prompt => late' = late)
    BY <1>18 DEF CreatePullRequestReviewAtCommit
  <2>2. PICK id \in ReviewIds : Step(w, [e EXCEPT !.pc = "mark", !.id = id]) \/ Step(w, Idle)
    BY <1>18 DEF CreatePullRequestReviewAtCommit
  <2>3. exec'[w] = Idle \/ (exec'[w].task = e.task /\ exec'[w].pc = "mark")
    BY <1>1, <1>4, <2>2 DEF Executions
  <2> QED
    BY <1>5, <2>1, <2>3
<1>19. CASE MarkReviewDelivered(w)
  <2>1. UNCHANGED <<result, late>>
    BY <1>19 DEF MarkReviewDelivered
  <2>2. \A t \in Tasks : status'[t] = "superseded" => status[t] = "superseded"
    BY <1>2, <1>19 DEF MarkReviewDelivered, Delivered, Move, DeliveryInv, DeliveryTypeOK
  <2>3. exec'[w] = Idle \/ (exec'[w].task = e.task /\ exec'[w].pc = "finished")
    BY <1>1, <1>4, <1>19 DEF MarkReviewDelivered, Executions
  <2> QED
    BY <1>5, <2>1, <2>2, <2>3
<1>20. CASE MarkSuperseded(w)
  <2>1. UNCHANGED <<result, late>> /\ e.pc = "supersede" /\ exec'[w] = Idle
    BY <1>4, <1>20 DEF MarkSuperseded
  <2>2. \A t \in Tasks : t # e.task => status'[t] = status[t]
    BY <1>20 DEF MarkSuperseded, Supersede, Move, DeliveryInv, DeliveryTypeOK
  <2> QED
    BY <1>5, <2>1, <2>2
<1>21. CASE MarkDone(w)
  <2>1. UNCHANGED <<result, late>> /\ exec'[w] = Idle
    BY <1>4, <1>21 DEF MarkDone
  <2>2. \A t \in Tasks : status'[t] = "superseded" => status[t] = "superseded"
    BY <1>2, <1>21 DEF MarkDone, Confirm, Move, DeliveryInv, DeliveryTypeOK
  <2> QED
    BY <1>5, <2>1, <2>2
<1>22. CASE Abandon(w)
  BY <1>4, <1>7, <1>22 DEF Abandon
<1> QED
  BY <1>9, <1>10, <1>11, <1>12, <1>13, <1>14, <1>15, <1>16, <1>17, <1>18, <1>19,
     <1>20, <1>21, <1>22 DEF ExecStep

LEMMA OnceInitial == DeliveryInit => Once /\ Unpublishing
BY DEF DeliveryInit, LifecycleInit, Idle, Once, AtMostOneReview, Unpublishing, At, Early

\* Reviews are posted only from "post", one at a time.
LEMMA Posting ==
  ASSUME DeliveryInv, DeliveryAssumption, NEW w \in Workers, ExecStep(w)
  PROVE  \/ UNCHANGED reviews
         \/ /\ At(w, "post") /\ exec'[w].pc # "post"
            /\ \E r : r.task = exec[w].task /\ reviews' = reviews \cup {r}
<1>1. CASE CreatePullRequestReviewAtCommit(w)
  <2>1. exec[w] \in Executions
    BY DEF DeliveryInv, DeliveryTypeOK
  <2>2. PICK i \in ReviewIds : Step(w, [exec[w] EXCEPT !.pc = "mark", !.id = i]) \/ Step(w, Idle)
    BY <1>1 DEF CreatePullRequestReviewAtCommit
  <2>3. \A x : Step(w, x) => exec'[w] = x
    BY DEF Step, DeliveryInv, DeliveryTypeOK
  <2>4. exec'[w] = [exec[w] EXCEPT !.pc = "mark", !.id = i] \/ exec'[w] = Idle
    BY <2>2, <2>3
  <2>5. exec'[w].pc # "post"
    <3>1. Idle.pc = "idle"
      BY DEF Idle
    <3> QED
      BY <2>1, <2>4, <3>1 DEF Executions
  <2>6. UNCHANGED reviews \/ \E r : r.task = exec[w].task /\ reviews' = reviews \cup {r}
    <3>1. UNCHANGED reviews \/ \E j \in ReviewIds : reviews' = reviews \cup {ReviewOf(exec[w], j)}
      BY <1>1 DEF CreatePullRequestReviewAtCommit
    <3>2. \A j : ReviewOf(exec[w], j).task = exec[w].task
      BY DEF ReviewOf
    <3> QED
      BY <3>1, <3>2
  <2>7. At(w, "post")
    BY <1>1 DEF CreatePullRequestReviewAtCommit
  <2> QED
    BY <2>5, <2>6, <2>7
<1>2. CASE ~CreatePullRequestReviewAtCommit(w)
  BY <1>2 DEF ExecStep, GetReviewResult, GetReviewDelivery, GetPullRequest,
     PrepareReviewDelivery, CompareSnapshot, Read, Finish, CheckHead, CreateReviewResult,
     ListPullRequestReviews, MarkReviewDelivered, MarkSuperseded, MarkDone, Abandon, github
<1> QED
  BY <1>1, <1>2

LEMMA OnceInductive == DeliveryInv /\ Once /\ [DeliveryNext]_dvars => Once'
<1> SUFFICES ASSUME DeliveryInv, Once, [DeliveryNext]_dvars PROVE Once'
  OBVIOUS
<1> USE DeliveryAssumption DEF At
<1>1. exec \in [Workers -> Executions]
  BY DEF DeliveryInv, DeliveryTypeOK
<1>2. ASSUME UNCHANGED <<reviews, late, exec>> PROVE Once'
  BY <1>2 DEF Once, AtMostOneReview
<1>3. ASSUME UNCHANGED dvars \/ (\E t \in Tasks : RowMoves(t)) \/ (\E c \in Commits : Push(c))
      PROVE  Once'
  BY <1>2, <1>3 DEF dvars, RowMoves, Push, github
<1>4. ASSUME NEW r \in late, Arrive(r) PROVE Once'
  BY <1>4 DEF Arrive, Once, AtMostOneReview
<1>5. ASSUME NEW w \in Workers, NEW t \in Tasks, Begin(w, t) PROVE Once'
  <2>1. UNCHANGED <<reviews, late>> /\ exec'[w].pc = "resume"
        /\ \A v \in Workers \ {w} : exec'[v] = exec[v]
    BY <1>1, <1>5 DEF Begin, Step, Idle, github
  <2>2. Exclusive => \A v \in Workers : At(v, "idle")
    BY <1>5 DEF Begin
  <2> QED
    BY <2>1, <2>2 DEF Once, AtMostOneReview
<1>6. ASSUME NEW w \in Workers, ExecStep(w) PROVE Once'
  <2> DEFINE e == exec[w]
  <2>1. /\ ~At(w, "idle")
        /\ exec'[w] = Idle \/ exec'[w].task = e.task
        /\ \A v \in Workers \ {w} : exec'[v] = exec[v]
        /\ At(w, "post")' => Matching(e.task, e.snap.commit) = {} /\ e.pc = "list"
                             /\ reviews' = reviews
        /\ Prompt => late' = late
    BY <1>6, Transition
  <2>2. Exclusive => \A v, u \in Workers : ~At(v, "idle")' /\ ~At(u, "idle")' => v = u
    BY <2>1 DEF Once
  <2>3. At(w, "post")' => \A r \in reviews : r.task # e.task
    <3> SUFFICES ASSUME At(w, "post")', NEW r \in reviews, r.task = e.task PROVE FALSE
      OBVIOUS
    <3>1. ExecOK(e) /\ e.pc = "list"
      BY <2>1 DEF DeliveryInv
    <3>2. r.commit = e.snap.commit
      BY <3>1 DEF ExecOK, DeliveryInv, PostedIsSaved
    <3> QED
      BY <2>1, <3>2 DEF Matching
  <2>4. At(w, "post")' => exec'[w].task = e.task
    BY <2>1 DEF Idle
  <2>5. CASE UNCHANGED reviews
    <3>1. ASSUME Prompt, Exclusive, NEW v \in Workers, At(v, "post")'
          PROVE  \A r \in reviews : r.task # exec'[v].task
      <4>1. v = w
        BY <2>1, <3>1 DEF Once
      <4> QED
        BY <2>3, <2>4, <3>1, <4>1
    <3> QED
      BY <2>1, <2>2, <2>5, <3>1 DEF Once, AtMostOneReview
  <2>6. CASE ~UNCHANGED reviews
    <3>1. PICK r : r.task = e.task /\ reviews' = reviews \cup {r}
      BY <1>6, <2>6, Posting
    <3>2. At(w, "post") /\ exec'[w].pc # "post"
      BY <1>6, <2>6, Posting
    <3>3. Prompt /\ Exclusive => \A s \in reviews : s.task # e.task
      BY <3>2 DEF Once
    <3>4. AtMostOneReview'
      BY <3>1, <3>3 DEF AtMostOneReview, Once
    <3>5. ASSUME Prompt, Exclusive, NEW v \in Workers, At(v, "post")' PROVE FALSE
      BY <2>1, <3>2, <3>5 DEF Once
    <3> QED
      BY <2>1, <2>2, <3>4, <3>5 DEF Once
  <2> QED
    BY <2>5, <2>6
<1> QED
  BY <1>3, <1>4, <1>5, <1>6 DEF DeliveryNext

\* With the PR lock and a GitHub that does what it reports, a task is reviewed
\* on GitHub at most once, whatever is retried, redelivered or lost.
THEOREM PostedOnce == DeliverySpec => []AtMostOneReview
<1>1. Once => AtMostOneReview
  BY DEF Once
<1> QED
  BY <1>1, DeliveryInitial, DeliveryInductive, OnceInitial, OnceInductive,
     DeliveryAssumption, PTL DEF DeliverySpec

LEMMA UnpublishingInductive ==
  DeliveryInv /\ Once /\ Unpublishing /\ [DeliveryNext]_dvars => Unpublishing'
<1> SUFFICES ASSUME DeliveryInv, Once, Unpublishing, [DeliveryNext]_dvars, Exclusive
             PROVE  Unpublishing'
  BY DEF Unpublishing
<1> USE DeliveryAssumption DEF At
<1>1. /\ exec \in [Workers -> Executions] /\ status \in [Tasks -> Statuses]
      /\ \A w \in Workers : exec[w].pc # "idle" => exec[w].task \in Tasks
  BY DEF DeliveryInv, DeliveryTypeOK, ExecOK
<1>2. ASSUME UNCHANGED <<result, exec>>,
             \A t \in Tasks : status'[t] = "superseded" => status[t] = "superseded"
      PROVE  Unpublishing'
  BY <1>1, <1>2 DEF Unpublishing, Early
<1>3. ASSUME NEW t \in Tasks, RowMoves(t) PROVE Unpublishing'
  <2>1. \A s \in Tasks : status'[s] = "superseded" => status[s] = "superseded"
    BY <1>1, <1>3 DEF RowMoves, Create, Enqueue, Backoff, DeadLettered, Fail, Requeued, Move
  <2> QED
    BY <1>2, <1>3, <2>1 DEF RowMoves, saved
<1>4. ASSUME UNCHANGED dvars \/ (\E c \in Commits : Push(c)) \/ (\E r \in late : Arrive(r))
      PROVE  Unpublishing'
  BY <1>2, <1>4 DEF dvars, Push, Arrive, saved, lifecycle
<1>5. ASSUME NEW w \in Workers, NEW t \in Tasks, Begin(w, t) PROVE Unpublishing'
  <2>1. \A s \in Tasks : status'[s] = "superseded" => status[s] = "superseded" /\ s # t
    BY <1>1, <1>5 DEF Begin, Start, Move
  <2>2. \A v \in Workers : At(v, "idle")
    BY <1>5 DEF Begin
  <2>3. result' = result
    BY <1>5 DEF Begin, saved
  <2>4. exec'[w].pc = "resume" /\ exec'[w].task = t
        /\ \A v \in Workers \ {w} : exec'[v] = exec[v]
    BY <1>1, <1>5 DEF Begin, Step, Idle
  <2> QED
    BY <2>1, <2>2, <2>3, <2>4 DEF Unpublishing, Early
<1>6. ASSUME NEW w \in Workers, ExecStep(w) PROVE Unpublishing'
  <2> DEFINE e == exec[w]
  <2>1. /\ ~At(w, "idle") /\ e.task \in Tasks
        /\ exec'[w] = Idle \/ exec'[w].task = e.task
        /\ \A v \in Workers \ {w} : exec'[v] = exec[v]
        /\ exec'[w].pc \in Early => result' = result
                           /\ (e.pc \in Early \/ result[e.task] = NoResult)
        /\ \A t \in Tasks : t # e.task => result'[t] = result[t]
        /\ \A t \in Tasks : status'[t] = "superseded" =>
             status[t] = "superseded" \/ (e.pc = "supersede" /\ t = e.task
                                           /\ exec'[w] = Idle /\ result' = result)
    BY <1>6, Transition, DeliveryAssumption
  <2>2. \A v \in Workers \ {w} : exec'[v].pc = "idle"
    BY <2>1 DEF Once
  <2>3. Idle.pc = "idle"
    BY DEF Idle
  <2>4. status[e.task] # "superseded"
    BY <2>1 DEF Unpublishing
  <2>5. \A t \in Tasks : status'[t] = "superseded" => result'[t] = NoResult
    BY <2>1, <2>4 DEF Unpublishing, Early
  <2>6. exec'[w].pc \in Early => result'[exec'[w].task] = NoResult
    BY <2>1, <2>3 DEF Unpublishing, Early
  <2>7. ~At(w, "idle")' => status'[exec'[w].task] # "superseded"
    BY <2>1, <2>3, <2>4
  <2> QED
    BY <2>2, <2>5, <2>6, <2>7 DEF Unpublishing, Early
<1> QED
  BY <1>3, <1>4, <1>5, <1>6 DEF DeliveryNext

\* With the PR lock, a superseded task has put nothing on GitHub and left no
\* result that a later execution would put there.
THEOREM SupersededIsUnpublished == DeliverySpec => []SupersededUnpublished
<1>1. DeliveryInv /\ Unpublishing => SupersededUnpublished
  <2>1. SUFFICES ASSUME DeliveryInv, Unpublishing, Exclusive,
                        NEW t \in Tasks, status[t] = "superseded",
                        NEW r \in reviews \cup late, r.task = t
                 PROVE  FALSE
    BY DEF SupersededUnpublished, Unpublishing
  <2> QED
    BY <2>1 DEF Unpublishing, DeliveryInv, Saved, Published
<1> QED
  BY <1>1, DeliveryInitial, DeliveryInductive, OnceInitial, OnceInductive,
     UnpublishingInductive, DeliveryAssumption, PTL DEF DeliverySpec

-----------------------------------------------------------------------------
(* What was read while the head stayed where it was.                       *)

Single(e) ==
  LET c == delivery[e.task].commit IN
  /\ e.pc \in {"prepare", "reread"} => \E h \in heads : e.seen = {h}
  /\ e.pc \in {"analyse", "fresh"} =>
       c \in e.seen /\ c \in heads /\ (head = c => e.seen = {c})
  /\ e.pc = "save" => e.seen = {c}

Unmixed ==
  /\ head \in heads
  /\ ~Rewinds => /\ \A w \in Workers : Single(exec[w])
                 /\ \A t \in Tasks : result[t] \subseteq {delivery[t].commit}

Reading == {"prepare", "reread", "analyse", "fresh", "save"}

LEMMA OthersStaySingle ==
  ASSUME NEW CONSTANT e, ExecOK(e), Single(e), Grows, UNCHANGED <<head, heads>>
  PROVE  Single(e)'
<1>1. e.pc \in {"analyse", "fresh", "save"} => delivery'[e.task].commit = delivery[e.task].commit
  BY DEF ExecOK, Grows
<1> QED
  BY <1>1 DEF Single

LEMMA ReadsOneCommit ==
  ASSUME DeliveryInv, DeliveryAssumption, Unmixed, ~Rewinds, NEW w \in Workers, ExecStep(w)
  PROVE  Single(exec[w])'
<1> DEFINE e == exec[w]
<1>1. exec \in [Workers -> Executions] /\ e \in Executions /\ ExecOK(e) /\ Single(e)
  BY DEF DeliveryInv, DeliveryTypeOK, Unmixed
<1>2. ASSUME NEW x, Step(w, x) PROVE exec'[w] = x
  BY <1>1, <1>2 DEF Step
<1>3. CASE exec'[w].pc \notin Reading
  BY <1>3 DEF Single, Reading
<1> USE DEF At, github, saved, Reading
<1>4. CASE GetPullRequest(w)
  <2>1. exec'[w].pc = "prepare" /\ exec'[w].seen = {head}
    BY <1>1, <1>2, <1>4 DEF GetPullRequest, Executions
  <2> QED
    BY <1>4, <2>1 DEF GetPullRequest, Single, Unmixed
<1>5. CASE PrepareReviewDelivery(w)
  <2>1. exec'[w].pc = "reread" /\ exec'[w].seen = e.seen
    BY <1>1, <1>2, <1>5 DEF PrepareReviewDelivery, Executions
  <2> QED
    BY <1>1, <1>5, <2>1 DEF PrepareReviewDelivery, Single
<1>17. CASE CompareSnapshot(w)
  <2>1. PICK read \in e.seen :
          Step(w, [e EXCEPT !.pc = IF delivery[e.task].commit = read THEN "analyse" ELSE "supersede"])
    BY <1>17 DEF CompareSnapshot
  <2>2. exec'[w].task = e.task /\ exec'[w].seen = e.seen
        /\ exec'[w].pc = IF delivery[e.task].commit = read THEN "analyse" ELSE "supersede"
    BY <1>1, <1>2, <2>1 DEF Executions
  <2>3. e.seen = {read} /\ read \in heads
    BY <1>1, <1>17, <2>1 DEF CompareSnapshot, Single
  <2>4. UNCHANGED <<head, heads, delivery>>
    BY <1>17 DEF CompareSnapshot
  <2> QED
    BY <2>2, <2>3, <2>4 DEF Single
<1>6. CASE Read(w)
  <2>1. exec'[w].pc = "analyse" /\ exec'[w].seen = e.seen \cup {head} /\ exec'[w].task = e.task
    BY <1>1, <1>2, <1>6 DEF Read, Executions
  <2>2. e.pc = "analyse" /\ head \notin e.seen /\ UNCHANGED <<head, heads, delivery>>
    BY <1>6 DEF Read
  <2> QED
    BY <1>1, <2>1, <2>2 DEF Single
<1>7. CASE Finish(w)
  <2>1. exec'[w].pc = "fresh" /\ exec'[w].seen = e.seen /\ exec'[w].task = e.task
    BY <1>1, <1>2, <1>7 DEF Finish, Executions
  <2> QED
    BY <1>1, <1>7, <2>1 DEF Finish, Single
<1>8. CASE CheckHead(w)
  <2>1. exec'[w].seen = e.seen /\ exec'[w].task = e.task
        /\ exec'[w].pc = IF e.snap.commit = head THEN "save" ELSE "supersede"
    BY <1>1, <1>2, <1>8 DEF CheckHead, Executions
  <2>2. e.pc = "fresh" /\ UNCHANGED delivery /\ e.snap.commit = delivery[e.task].commit
    BY <1>1, <1>8 DEF CheckHead, ExecOK
  <2> QED
    BY <1>1, <2>1, <2>2 DEF Single
<1>9. CASE GetReviewResult(w)
  <2>1. exec'[w].pc \in {"head", "saved"}
    BY <1>1, <1>2, <1>9 DEF GetReviewResult, Executions
  <2> QED
    BY <1>3, <2>1
<1>10. Idle.pc = "idle" /\ \A x \in Executions : \A s : Publishing(x, s).pc \in {"finished", "list"}
  BY DEF Idle, Publishing, Executions
<1>11. CASE GetReviewDelivery(w)
  <2>1. exec'[w] = Idle \/ exec'[w] = Publishing(e, delivery[e.task])
    BY <1>2, <1>11 DEF GetReviewDelivery
  <2> QED
    BY <1>1, <1>3, <1>10, <2>1
<1>12. CASE CreateReviewResult(w)
  <2>1. exec'[w] = Idle \/ exec'[w] = Publishing([e EXCEPT !.content = e.seen], e.snap)
    BY <1>2, <1>12 DEF CreateReviewResult
  <2>2. [e EXCEPT !.content = e.seen] \in Executions
    BY <1>1 DEF Executions
  <2> QED
    BY <1>3, <1>10, <2>1, <2>2
<1>13. ASSUME NEW p, NEW i, exec'[w] = [e EXCEPT !.pc = p, !.id = i], p \notin Reading
       PROVE  Single(exec[w])'
  BY <1>1, <1>3, <1>13 DEF Executions
<1>14. ASSUME NEW p, exec'[w] = [e EXCEPT !.pc = p], p \notin Reading
       PROVE  Single(exec[w])'
  BY <1>1, <1>3, <1>14 DEF Executions
<1>15. CASE ListPullRequestReviews(w) \/ CreatePullRequestReviewAtCommit(w)
            \/ MarkReviewDelivered(w)
  <2>1. \/ exec'[w] = Idle
        \/ \E i : exec'[w] = [e EXCEPT !.pc = "mark", !.id = i]
        \/ exec'[w] = [e EXCEPT !.pc = "post"]
        \/ exec'[w] = [e EXCEPT !.pc = "finished"]
    BY <1>2, <1>15 DEF ListPullRequestReviews, CreatePullRequestReviewAtCommit,
       MarkReviewDelivered
  <2> QED
    BY <1>3, <1>10, <1>13, <1>14, <2>1
<1>16. CASE MarkSuperseded(w) \/ MarkDone(w) \/ Abandon(w)
  BY <1>2, <1>3, <1>10, <1>16 DEF MarkSuperseded, MarkDone, Abandon
<1> QED
  BY <1>4, <1>5, <1>6, <1>7, <1>8, <1>9, <1>11, <1>12, <1>15, <1>16, <1>17 DEF ExecStep

LEMMA SavesOneCommit ==
  ASSUME DeliveryInv, DeliveryAssumption, Unmixed, ~Rewinds, NEW w \in Workers, ExecStep(w)
  PROVE  \A t \in Tasks : result'[t] \subseteq {delivery'[t].commit}
<1> USE DEF At, saved
<1>1. \A t \in Tasks : result[t] \in SUBSET Commits /\ result[t] \subseteq {delivery[t].commit}
  BY DEF DeliveryInv, DeliveryTypeOK, Unmixed
<1>2. Grows
  BY MovesOK
<1>3. CASE CreateReviewResult(w)
  <2>1. exec[w].pc = "save" /\ exec[w].seen = {delivery[exec[w].task].commit}
    BY <1>3 DEF CreateReviewResult, Unmixed, Single
  <2>2. delivery' = delivery
        /\ \A t \in Tasks : result'[t] = result[t] \/ (t = exec[w].task /\ result'[t] = exec[w].seen)
    BY <1>3 DEF CreateReviewResult, DeliveryInv, DeliveryTypeOK
  <2> QED
    BY <1>1, <2>1, <2>2
<1>4. CASE ~CreateReviewResult(w)
  <2>1. result' = result
    BY <1>4 DEF ExecStep, GetReviewResult, GetReviewDelivery, GetPullRequest,
       PrepareReviewDelivery, CompareSnapshot, Read, Finish, CheckHead, ListPullRequestReviews,
       CreatePullRequestReviewAtCommit, MarkReviewDelivered, MarkSuperseded, MarkDone, Abandon
  <2>2. \A t \in Tasks : delivery[t].commit \in Commits \/ result[t] = {}
    BY <1>1
  <2> QED
    BY <1>1, <1>2, <2>1, <2>2 DEF Grows
<1> QED
  BY <1>3, <1>4

LEMMA UnmixedInitial == DeliveryInit => Unmixed
BY DEF DeliveryInit, Unmixed, Single, Idle

LEMMA UnmixedInductive == DeliveryInv /\ Unmixed /\ [DeliveryNext]_dvars => Unmixed'
<1> SUFFICES ASSUME DeliveryInv, Unmixed, [DeliveryNext]_dvars PROVE Unmixed'
  OBVIOUS
<1> USE DeliveryAssumption
<1>1. ASSUME UNCHANGED <<head, heads, delivery, result, exec>> PROVE Unmixed'
  BY <1>1 DEF Unmixed, Single
<1>2. ASSUME UNCHANGED dvars \/ (\E t \in Tasks : RowMoves(t)) \/ (\E r \in late : Arrive(r))
      PROVE  Unmixed'
  BY <1>1, <1>2 DEF dvars, RowMoves, Arrive, github, saved
<1>3. ASSUME NEW c \in Commits, Push(c) PROVE Unmixed'
  <2>1. ASSUME ~Rewinds, NEW w \in Workers PROVE Single(exec[w])'
    BY <1>3, <2>1 DEF Push, saved, Unmixed, Single
  <2> QED
    BY <1>3, <2>1 DEF Push, saved, Unmixed
<1>4. ASSUME NEW w \in Workers, NEW t \in Tasks, Begin(w, t) PROVE Unmixed'
  <2>1. UNCHANGED <<head, heads, delivery, result>> /\ exec'[w].pc = "resume"
        /\ \A v \in Workers \ {w} : exec'[v] = exec[v]
    BY <1>4 DEF Begin, Step, Idle, github, saved, DeliveryInv, DeliveryTypeOK
  <2> QED
    BY <2>1 DEF Unmixed, Single
<1>5. ASSUME NEW w \in Workers, ExecStep(w) PROVE Unmixed'
  <2>1. UNCHANGED <<head, heads>>
    BY <1>5 DEF ExecStep, GetReviewResult, GetReviewDelivery, GetPullRequest,
       PrepareReviewDelivery, CompareSnapshot, Read, Finish, CheckHead, CreateReviewResult,
       ListPullRequestReviews, CreatePullRequestReviewAtCommit, MarkReviewDelivered,
       MarkSuperseded, MarkDone, Abandon, github
  <2>2. ASSUME ~Rewinds, NEW v \in Workers PROVE Single(exec[v])'
    <3>1. CASE v = w
      BY <1>5, <2>2, <3>1, ReadsOneCommit
    <3>2. CASE v # w
      <4>1. exec'[v] = exec[v]
        BY <1>5, <3>2, Transition
      <4>2. ExecOK(exec[v]) /\ Single(exec[v])
        BY <2>2 DEF DeliveryInv, Unmixed
      <4>3. \A e : ExecOK(e) /\ Single(e) => Single(e)'
        BY <1>5, <2>1, MovesOK, OthersStaySingle
      <4> QED
        BY <4>1, <4>2, <4>3 DEF Single
    <3> QED
      BY <3>1, <3>2
  <2>3. ~Rewinds => \A t \in Tasks : result'[t] \subseteq {delivery'[t].commit}
    BY <1>5, SavesOneCommit
  <2> QED
    BY <2>1, <2>2, <2>3 DEF Unmixed
<1> QED
  BY <1>2, <1>3, <1>4, <1>5 DEF DeliveryNext

\* Without rewinds of the head, what is posted at a commit was read from that
\* commit alone; and it is always the commit the webhook announced.
THEOREM PostedUnmixed == DeliverySpec => []CommitsNotMixed
<1>1. DeliveryInv /\ Unmixed => CommitsNotMixed
  <2> SUFFICES ASSUME DeliveryInv, Unmixed, NEW r \in Published
               PROVE  /\ ~Rewinds => r.content \subseteq {r.commit}
                      /\ TaskCommit[r.task] \in {r.commit, NoCommit}
    BY DEF CommitsNotMixed, Published
  <2>1. r.task \in Tasks /\ r.commit \in Commits
    BY DEF DeliveryInv, DeliveryTypeOK, Published, Review
  <2>2. r.content = result[r.task] /\ r.commit = delivery[r.task].commit
    BY DEF DeliveryInv, PostedIsSaved, Published
  <2> QED
    BY <2>1, <2>2, DeliveryAssumption DEF DeliveryInv, Saved, Unmixed
<1> QED
  BY <1>1, DeliveryInitial, DeliveryInductive, UnmixedInitial, UnmixedInductive,
     DeliveryAssumption, PTL DEF DeliverySpec
=============================================================================
