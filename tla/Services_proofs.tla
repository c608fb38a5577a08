-------------------------- MODULE Services_proofs ---------------------------
(***************************************************************************)
(* The properties of RabbitBroker, for all messages, publishers, prefetch  *)
(* counts, worker slots and losses; of GitHubClient, for all callers, limits and   *)
(* tokens; of SchemaMigration, for any number of processes and crashes.    *)
(***************************************************************************)
EXTENDS RabbitBroker, GitHubClient, SchemaMigration, FiniteSetTheorems, TLAPS

\* Deliveries that the client has and has not settled.
Active == {d \in Deliveries : at[d] # "none"}
Looping == {"receive", "closed", "drain"}

\* Every pair of channels but the first follows a loss or a failed dial.
Opened == /\ gen <= losses + 1
          /\ ~closed /\ ~Healthy => gen <= losses

\* Only one subscription has deliveries in the client: the loop subscribes again when
\* all handlers of the last one have returned.  As long as its channel is open the
\* server counts them; once it has closed, what was not yet handed over is dropped.
OneSubscription ==
  /\ loop \notin Looping \cup {"returned"} => Active = {}
  /\ loop \in Looping => \A d \in Active : d[2] = sub
  /\ loop = "receive" /\ sub = gen /\ "consumer" \in live => Active \subseteq unacked
  /\ loop = "returned" => Running = {}
  /\ loop = "closed" => Active = Running
  /\ Active \in SUBSET Deliveries

Counted == IsFiniteSet(unacked) /\ IsFiniteSet(Active) /\ Cardinality(Active) <= Prefetch
           /\ Cardinality(unacked) <= Prefetch
OnePublishes == \A p, q \in Publishing : p = q

BrokerInv == BrokerTypeOK /\ Opened /\ OneSubscription /\ Counted /\ OnePublishes

\* What the server takes back leaves the set of unsettled deliveries empty.
LEMMA TakenBack ==
  ASSUME BrokerTypeOK, TakeBack
  PROVE  ready' \in SUBSET Messages /\ unacked' = {}
BY DEF TakeBack, BrokerTypeOK, Deliveries

\* A reconnect that changes anything opens new channels or leaves none.
LEMMA ReconnectFacts ==
  ASSUME BrokerTypeOK, Opened, NEW ok \in BOOLEAN, Reconnect(ok)
  PROVE  /\ gen' \in Generations /\ live' \in SUBSET Channels /\ unset' \in BOOLEAN /\ closed' = closed
         /\ malformed' = malformed
         /\ ready' \in SUBSET Messages /\ unacked' \in {unacked, {}} /\ losses' \in 0..MaxLosses
         /\ gen' >= gen /\ Opened'
         /\ \/ gen' = gen /\ live' = live /\ unacked' = unacked
            \/ gen' = gen /\ live' = {}
            \/ gen' = gen + 1
<1> USE BrokerAssumption
<1>1. CASE UNCHANGED <<gen, live, unset, ready, unacked, losses>>
  <2>1. closed' = closed /\ malformed' = malformed
    BY DEF Reconnect
  <2> QED BY <1>1, <2>1 DEF BrokerTypeOK, Opened, Healthy, Generations
<1>2. CASE ~closed /\ ~Healthy /\ Connect(ok)
  <2>1. closed' = closed /\ malformed' = malformed /\ gen <= losses /\ ready' \in SUBSET Messages /\ unacked' = {}
    BY <1>2, TakenBack DEF Reconnect, Connect, Opened
  <2>2. CASE ok
    <3>1. gen' = gen + 1 /\ live' = Channels /\ unset' = FALSE /\ losses' = losses
      BY <1>2, <2>2 DEF Connect
    <3>2. gen' \in Generations /\ gen' >= gen /\ losses' \in 0..MaxLosses /\ gen' <= losses' + 1
      BY <2>1, <3>1 DEF BrokerTypeOK, Generations
    <3>3. Healthy'
      BY <3>1 DEF Healthy
    <3> QED BY <2>1, <3>1, <3>2, <3>3 DEF Opened
  <2>3. CASE ~ok
    <3>1. gen' = gen /\ live' = {} /\ unset' = TRUE /\ losses' = losses + 1 /\ losses < MaxLosses
      BY <1>2, <2>3 DEF Connect
    <3>2. gen' \in Generations /\ gen' >= gen /\ losses' \in 0..MaxLosses /\ gen' <= losses'
      BY <2>1, <3>1 DEF BrokerTypeOK, Generations
    <3>3. Opened'
      BY <3>1, <3>2 DEF Opened, BrokerTypeOK, Generations
    <3> QED BY <2>1, <3>1, <3>2, <3>3
  <2> QED BY <2>2, <2>3
<1> QED BY <1>1, <1>2 DEF Reconnect

\* Nothing is delivered at the start.
LEMMA BrokerStart == BrokerInit => BrokerInv
<1> SUFFICES ASSUME BrokerInit PROVE BrokerInv
  OBVIOUS
<1> USE BrokerAssumption DEF BrokerInit
<1>1. gen \in Generations /\ gen <= losses + 1 /\ losses \in 0..MaxLosses /\ seen \in 0..gen /\ sub \in 0..gen
  BY DEF Generations
<1>2. BrokerTypeOK
  BY <1>1 DEF BrokerTypeOK, Channels, LoopSteps, HandlerSteps
<1>3. Active = {} /\ Running = {} /\ Publishing = {}
  BY DEF Active, Running, Publishing, PublishSteps, Publishers
<1>4. Healthy
  BY DEF Healthy
<1>5. Counted
  <2>1. IsFiniteSet({}) /\ Cardinality({}) = 0
    BY FS_EmptySet
  <2> QED BY <1>3, <2>1 DEF Counted
<1> QED BY <1>1, <1>2, <1>3, <1>4, <1>5 DEF BrokerInv, Opened, OneSubscription, OnePublishes, Looping

\* Fewer deliveries stay countable.
LEMMA FewerCounted ==
  ASSUME Counted, Active' \subseteq Active, unacked' \subseteq unacked
  PROVE  Counted'
<1>1. IsFiniteSet(Active') /\ Cardinality(Active') <= Cardinality(Active)
  BY FS_Subset DEF Counted
<1>2. IsFiniteSet(unacked') /\ Cardinality(unacked') <= Cardinality(unacked)
  BY FS_Subset DEF Counted
<1>3. /\ Cardinality(Active') \in Nat /\ Cardinality(unacked') \in Nat
      /\ Cardinality(Active) \in Nat /\ Cardinality(unacked) \in Nat
  BY <1>1, <1>2, FS_CardinalityType DEF Counted
<1> QED BY <1>1, <1>2, <1>3, BrokerAssumption DEF Counted

\* The loop's own steps, in which no handler moves: it enters a subscription without
\* deliveries and leaves it for the wait for its handlers.
LEMMA LoopKeeps ==
  ASSUME BrokerInv, NEW from \in LoopSteps, NEW to \in LoopSteps, Loop(from, to),
         UNCHANGED <<channels, ready, unacked, at, stopping, losses>>,
         seen' \in 0..gen, sub' \in 0..gen, sub' = sub \/ from = "consume",
         \/ from \notin Looping \cup {"returned"} /\ to \in LoopSteps \ {"closed", "drain"}
         \/ from = "receive" /\ to \in {"drain"}
         \/ from \in Looping /\ Running = {} /\ to = "returned"
         \/ from = "closed" /\ Running = {} /\ to = "reopen"
  PROVE  BrokerInv'
<1>1. UNCHANGED <<Active, Running, Publishing, Healthy>>
  BY DEF Active, Running, Publishing, Healthy, channels
<1>2. loop = from /\ loop' = to
  BY DEF Loop
<1>3. BrokerTypeOK'
  BY <1>2 DEF BrokerInv, BrokerTypeOK, channels
<1>4. Opened'
  BY <1>1 DEF BrokerInv, Opened, channels
<1>5. Active = {} => Running = {}
  BY DEF Active, Running
<1>6. OneSubscription'
  BY <1>1, <1>2, <1>5 DEF BrokerInv, OneSubscription, Looping, LoopSteps, channels
<1>7. Counted' /\ OnePublishes'
  BY <1>1, FewerCounted DEF BrokerInv, OnePublishes
<1> QED BY <1>3, <1>4, <1>6, <1>7 DEF BrokerInv

\* A handler or an outsider takes its next step.  Only a handler's first and last
\* step change Active; an outsider has no delivery.
LEMMA HandlerKeeps ==
  ASSUME BrokerInv, NEW p \in Publishers, NEW to \in HandlerSteps \ {"buffered"},
         \/ at[p] \in HandlerSteps \ {"none", "buffered"}
         \/ at[p] = "buffered" /\ loop = "receive"
         \/ p \in Outsiders,
         at' = [at EXCEPT ![p] = to],
         unacked' \subseteq unacked, unacked \ {p} \subseteq unacked' \/ live' = {} \/ gen' > gen,
         UNCHANGED <<loop, seen, sub, stopping>>, closed' = closed, malformed' = malformed,
         gen' \in Generations, live' \in SUBSET Channels, unset' \in BOOLEAN,
         ready' \in SUBSET Messages, losses' \in 0..MaxLosses, gen' >= gen, Opened',
         gen' = gen => live' \subseteq live,
         to \in PublishSteps => at[p] \in PublishSteps \/ Publishing = {},
         to = "none" \/ unacked' = unacked \/ live' = {} \/ gen' > gen
  PROVE  BrokerInv'
<1>1. at \in [Publishers -> HandlerSteps] /\ at' \in [Publishers -> HandlerSteps]
  BY DEF BrokerInv, BrokerTypeOK
<1>2. \A e \in Publishers : at'[e] = IF e = p THEN to ELSE at[e]
  BY <1>1
<1>a. Deliveries \subseteq Publishers
  BY DEF Publishers
<1>b. p \in Outsiders => p \notin Deliveries
  BY BrokerAssumption DEF Deliveries, Generations
<1>3. gen \in Generations /\ gen' \in Int /\ gen \in Int /\ sub \in 0..gen /\ seen \in 0..gen
  BY BrokerAssumption DEF BrokerInv, BrokerTypeOK, Generations
<1>4. seen' \in 0..gen' /\ sub' \in 0..gen'
  BY <1>3
<1>5. BrokerTypeOK'
  BY <1>1, <1>4 DEF BrokerInv, BrokerTypeOK
<1>6. /\ Active' \subseteq Active /\ (to = "none" => Active' = Active \ {p})
      /\ Active' \in SUBSET Deliveries
  BY <1>2, <1>a, <1>b DEF Active, HandlerSteps
<1>7. /\ Running' \subseteq Running \cup ({p} \cap Deliveries)
      /\ loop # "receive" => Running' \subseteq Running
  BY <1>2, <1>a, <1>b DEF Running
<1>8. loop' = "receive" /\ sub' = gen' /\ "consumer" \in live' => Active' \subseteq unacked'
  <2> SUFFICES ASSUME loop' = "receive", sub' = gen', "consumer" \in live' PROVE Active' \subseteq unacked'
    OBVIOUS
  <2>1. gen' = gen /\ "consumer" \in live /\ sub = gen /\ loop = "receive"
    BY <1>3
  <2>2. Active \subseteq unacked
    BY <2>1 DEF BrokerInv, OneSubscription
  <2>3. to = "none" \/ unacked' = unacked
    BY <1>3, <2>1
  <2>4. unacked \ {p} \subseteq unacked'
    BY <1>3, <2>1
  <2> QED BY <1>6, <2>2, <2>3, <2>4
<1>9. loop' = "closed" => Active' = Running'
  BY <1>2, <1>a, <1>b DEF Active, Running, BrokerInv, OneSubscription
<1>10. OneSubscription'
  BY <1>6, <1>7, <1>8, <1>9 DEF BrokerInv, OneSubscription, Looping
<1>11. OnePublishes'
  <2>1. Publishing' \subseteq Publishing \/ (Publishing = {} /\ Publishing' \subseteq {p})
    BY <1>2 DEF Publishing
  <2> QED BY <2>1 DEF BrokerInv, OnePublishes
<1> QED BY <1>5, <1>6, <1>10, <1>11, FewerCounted DEF BrokerInv

\* A step of a handler or an outsider that leaves channels, server and loop alone.
LEMMA HandlerMoves ==
  ASSUME BrokerInv, NEW p \in Publishers, NEW from \in HandlerSteps \ {"buffered"},
         NEW to \in HandlerSteps \ {"buffered"}, Step(p, from, to),
         p \in Outsiders \/ from # "none",
         UNCHANGED <<channels, loop, seen, sub, ready, unacked, stopping, losses>>,
         to \in PublishSteps => from \in PublishSteps \/ Publishing = {}
  PROVE  BrokerInv'
<1>1. UNCHANGED Opened
  BY DEF Opened, Healthy, channels
<1>2. gen' \in Generations /\ gen' >= gen
  BY BrokerAssumption DEF BrokerInv, BrokerTypeOK, channels, Generations
<1>3. at[p] = from /\ at' = [at EXCEPT ![p] = to]
  BY DEF Step
<1> QED BY <1>1, <1>2, <1>3, HandlerKeeps DEF BrokerInv, BrokerTypeOK, channels

\* The steps of publish, by whomever it is called.
LEMMA PublishKeeps == ASSUME BrokerInv, NEW p \in Publishers, Publish(p) PROVE BrokerInv'
<1>0. Caller(p) \in {"none", "settle"}
  BY DEF Caller
<1>1. CASE LockPublish(p)
  <2>1. PICK to \in {Caller(p), "reopen", "sending"} : Step(p, "publish", to)
    BY <1>1 DEF LockPublish
  <2>2. Publishing = {} /\ to \in HandlerSteps \ {"buffered"}
    BY <1>0, <1>1, <2>1 DEF LockPublish, HandlerSteps, PublishSteps
  <2> QED BY <1>1, <2>1, <2>2, HandlerMoves DEF LockPublish, HandlerSteps
<1>2. CASE Send(p)
  BY <1>2, HandlerMoves DEF Send, HandlerSteps, PublishSteps
<1>3. CASE ReadPublisher(p)
  <2>1. PICK to \in {Caller(p), "sending"} : Step(p, "again", to)
    BY <1>3 DEF ReadPublisher
  <2>2. to \in HandlerSteps \ {"buffered"}
    BY <1>0, <2>1 DEF HandlerSteps, PublishSteps
  <2> QED BY <1>3, <2>1, <2>2, HandlerMoves DEF ReadPublisher, HandlerSteps, PublishSteps
<1>4. CASE Confirm(p)
  <2>1. Caller(p) \in HandlerSteps \ {"buffered"} /\ Caller(p) \notin PublishSteps
    BY <1>0 DEF HandlerSteps, PublishSteps
  <2> QED BY <1>4, <2>1, HandlerMoves DEF Confirm, HandlerSteps, PublishSteps
<1>5. CASE ReconnectPublisher(p)
  <2>1. PICK ok \in BOOLEAN : /\ Reconnect(ok)
                              /\ Step(p, "reopen", IF ok THEN "again" ELSE Caller(p)) \/ Step(p, "repair", Caller(p))
    BY <1>5 DEF ReconnectPublisher
  <2>2. PICK from \in {"reopen", "repair"}, to \in {"again", Caller(p)} : Step(p, from, to)
    BY <2>1
  <2>3. at[p] = from /\ at' = [at EXCEPT ![p] = to] /\ UNCHANGED <<loop, seen, sub, stopping>>
    BY <1>5, <2>2 DEF ReconnectPublisher, Step
  <2>4. Reconnect(ok) /\ BrokerTypeOK /\ Opened
    BY <2>1 DEF BrokerInv
  <2>5. /\ gen' \in Generations /\ live' \in SUBSET Channels /\ unset' \in BOOLEAN /\ closed' = closed
        /\ malformed' = malformed
        /\ ready' \in SUBSET Messages /\ unacked' \in {unacked, {}} /\ losses' \in 0..MaxLosses
        /\ gen' >= gen /\ Opened'
        /\ \/ gen' = gen /\ live' = live /\ unacked' = unacked
           \/ gen' = gen /\ live' = {}
           \/ gen' = gen + 1
    BY <2>4, ReconnectFacts
  <2>6. /\ gen' = gen => live' \subseteq live
        /\ unacked' = unacked \/ live' = {} \/ gen' > gen
    BY <2>5, BrokerAssumption DEF BrokerInv, BrokerTypeOK, Generations
  <2>7. to \in HandlerSteps \ {"buffered"} /\ from \in PublishSteps /\ from \in HandlerSteps \ {"none", "buffered"}
    BY <1>0, <2>2 DEF HandlerSteps, PublishSteps
  <2> QED BY <2>3, <2>5, <2>6, <2>7, HandlerKeeps
<1> QED BY <1>1, <1>2, <1>3, <1>4, <1>5 DEF Publish

\* The steps of a handler.
LEMMA HandleKeeps == ASSUME BrokerInv, NEW d \in Deliveries, Handle(d) PROVE BrokerInv'
<1>0. d \in Publishers
  BY DEF Publishers
<1>1. CASE TakeSlot(d)
  BY <1>0, <1>1, HandlerMoves DEF TakeSlot, HandlerSteps, PublishSteps
<1>2. CASE Process(d)
  BY <1>0, <1>2, HandlerMoves DEF Process, HandlerSteps, PublishSteps
<1>3. CASE Publish(d)
  BY <1>0, <1>3, PublishKeeps
<1>4. CASE Settle(d)
  <2>1. /\ at[d] = "settle" /\ at' = [at EXCEPT ![d] = "none"] /\ unacked' = unacked \ {d}
        /\ UNCHANGED <<loop, seen, sub, stopping>> /\ UNCHANGED <<malformed, gen, live, unset, closed>>
        /\ UNCHANGED losses /\ ready' \subseteq ready \cup {d[1]}
    BY <1>4 DEF Settle, Step, channels
  <2>2. d[1] \in Messages
    BY DEF Deliveries
  <2>3. UNCHANGED Opened
    BY <2>1 DEF Opened, Healthy
  <2>4. gen' \in Generations /\ gen' >= gen
    BY <2>1, BrokerAssumption DEF BrokerInv, BrokerTypeOK, Generations
  <2>5. ready' \in SUBSET Messages /\ losses' \in 0..MaxLosses /\ live' \in SUBSET Channels /\ unset' \in BOOLEAN
    BY <2>1, <2>2 DEF BrokerInv, BrokerTypeOK
  <2> QED BY <1>0, <2>1, <2>3, <2>4, <2>5, HandlerKeeps DEF BrokerInv, HandlerSteps, PublishSteps
<1> QED BY <1>1, <1>2, <1>3, <1>4 DEF Handle

\* The steps of the consumer loop.
LEMMA ConsumeKeeps == ASSUME BrokerInv, Consume PROVE BrokerInv'
<1>0. gen \in 0..gen /\ seen \in 0..gen /\ sub \in 0..gen
  BY BrokerAssumption DEF BrokerInv, BrokerTypeOK, Generations
<1>1. CASE ReadConsumer
  <2>1. PICK to \in {"returned", "reopen", "consume"} : Loop("top", to) /\ seen' \in {seen, gen}
    BY <1>1 DEF ReadConsumer
  <2> QED BY <1>0, <1>1, <2>1, LoopKeeps DEF ReadConsumer, LoopSteps, Looping
<1>2. CASE Subscribe
  <2>1. PICK to \in {"receive", "failed"} : Loop("consume", to) /\ sub' \in {sub, gen}
    BY <1>2 DEF Subscribe
  <2> QED BY <1>0, <1>2, <2>1, LoopKeeps DEF Subscribe, LoopSteps, Looping
<1>3. CASE WaitRetry
  BY <1>0, <1>3, LoopKeeps DEF WaitRetry, LoopSteps, Looping
<1>4. CASE SeeStop
  BY <1>0, <1>4, LoopKeeps DEF SeeStop, LoopSteps, Looping
<1>5. CASE WaitInflight
  <2>1. UNCHANGED <<channels, seen, sub, ready, unacked, at, stopping, losses>> /\ Running = {}
    BY <1>5 DEF WaitInflight
  <2>2. CASE Loop("closed", "reopen")
    BY <1>0, <2>1, <2>2, LoopKeeps DEF LoopSteps, Looping
  <2>3. CASE Loop("drain", "returned")
    BY <1>0, <2>1, <2>3, LoopKeeps DEF LoopSteps, Looping
  <2> QED BY <1>5, <2>2, <2>3 DEF WaitInflight
<1>6. CASE SeeClosed
  <2>1. /\ loop = "receive" /\ loop' = "closed"
        /\ at' = [p \in Publishers |-> IF at[p] = "buffered" THEN "none" ELSE at[p]]
        /\ UNCHANGED <<malformed, gen, live, unset, closed>> /\ UNCHANGED <<seen, sub, ready, unacked, stopping, losses>>
    BY <1>6 DEF SeeClosed, Loop, channels
  <2>2. BrokerTypeOK'
    BY <2>1 DEF BrokerInv, BrokerTypeOK, LoopSteps, HandlerSteps
  <2>3. UNCHANGED Opened
    BY <2>1 DEF Opened, Healthy
  <2>4. Active' = Running' /\ Active' \subseteq Active /\ Publishing' = Publishing
    BY <2>1 DEF Active, Running, Publishing, PublishSteps, Publishers
  <2>5. OneSubscription'
    BY <2>1, <2>4 DEF BrokerInv, OneSubscription, Looping, Active
  <2> QED BY <2>1, <2>2, <2>3, <2>4, <2>5, FewerCounted DEF BrokerInv, OnePublishes
<1>7. CASE ReconnectConsumer
  <2>1. PICK ok \in BOOLEAN : Reconnect(ok) /\ (Loop("reopen", IF ok THEN "top" ELSE "wait") \/ Loop("failed", "wait"))
    BY <1>7 DEF ReconnectConsumer
  <2>2. /\ loop \in {"reopen", "failed"} /\ loop' \in {"top", "wait"}
        /\ UNCHANGED <<seen, sub, at, stopping>>
    BY <1>7, <2>1 DEF ReconnectConsumer, Loop
  <2>3. /\ gen' \in Generations /\ live' \in SUBSET Channels /\ unset' \in BOOLEAN /\ closed' = closed
        /\ malformed' = malformed
        /\ ready' \in SUBSET Messages /\ unacked' \in {unacked, {}} /\ losses' \in 0..MaxLosses
        /\ gen' >= gen /\ Opened'
    BY <2>1, ReconnectFacts DEF BrokerInv
  <2>4. seen' \in 0..gen' /\ sub' \in 0..gen'
    BY <1>0, <2>2, <2>3, BrokerAssumption DEF BrokerInv, BrokerTypeOK, Generations
  <2>5. BrokerTypeOK'
    BY <2>2, <2>3, <2>4 DEF BrokerInv, BrokerTypeOK, LoopSteps
  <2>6. UNCHANGED <<Active, Running, Publishing>> /\ Active = {}
    BY <2>2 DEF Active, Running, Publishing, BrokerInv, OneSubscription, Looping
  <2>7. OneSubscription'
    BY <2>2, <2>6 DEF OneSubscription, Looping
  <2> QED BY <2>3, <2>5, <2>6, <2>7, FewerCounted DEF BrokerInv, OnePublishes
<1> QED BY <1>1, <1>2, <1>3, <1>4, <1>5, <1>6, <1>7 DEF Consume

\* One more delivery counts for one at most.
LEMMA OneMore ==
  ASSUME NEW S, NEW x, IsFiniteSet(S)
  PROVE  /\ IsFiniteSet(S \cup {x}) /\ Cardinality(S) \in Nat
         /\ Cardinality(S \cup {x}) \in Nat /\ Cardinality(S \cup {x}) <= Cardinality(S) + 1
<1>1. IsFiniteSet(S \cup {x}) /\ Cardinality(S \cup {x}) = IF x \in S THEN Cardinality(S) ELSE Cardinality(S) + 1
  BY FS_AddElement
<1>2. Cardinality(S) \in Nat /\ Cardinality(S \cup {x}) \in Nat
  BY <1>1, FS_CardinalityType
<1>3. CASE x \in S
  <2>1. Cardinality(S \cup {x}) = Cardinality(S)
    BY <1>1, <1>3
  <2> QED BY <1>1, <1>2, <2>1
<1>4. CASE x \notin S
  <2>1. Cardinality(S \cup {x}) = Cardinality(S) + 1
    BY <1>1, <1>4
  <2> QED BY <1>1, <1>2, <2>1
<1> QED BY <1>3, <1>4

\* The server delivers to the one subscription, and counts.
LEMMA DeliverKeeps == ASSUME BrokerInv, NEW m \in Messages, Deliver(m) PROVE BrokerInv'
<1> DEFINE e == <<m, gen>>
<1>1. /\ loop = "receive" /\ sub = gen /\ "consumer" \in live /\ Cardinality(unacked) < Prefetch
      /\ ready' = ready \ {m} /\ unacked' = unacked \cup {e} /\ at' = [at EXCEPT ![e] = "buffered"]
      /\ UNCHANGED <<malformed, gen, live, unset, closed>> /\ UNCHANGED <<loop, seen, sub, stopping, losses>>
  BY DEF Deliver, channels
<1>2. e \in Deliveries /\ e[2] = gen
  BY DEF Deliveries, BrokerInv, BrokerTypeOK
<1> HIDE DEF e
<1>3. BrokerTypeOK'
  BY <1>1, <1>2 DEF BrokerInv, BrokerTypeOK, HandlerSteps, Publishers
<1>4. UNCHANGED Opened
  BY <1>1 DEF Opened, Healthy
<1>5. at \in [Publishers -> HandlerSteps] /\ \A d \in Publishers : at'[d] = IF d = e THEN "buffered" ELSE at[d]
  BY <1>1, <1>2 DEF BrokerInv, BrokerTypeOK, Publishers
<1>6. Active' = Active \cup {e}
  BY <1>2, <1>5 DEF Active, Publishers
<1>7. Running' \subseteq Running /\ Publishing' \subseteq Publishing
  BY <1>5 DEF Running, Publishing, PublishSteps, Publishers
<1>8. Active \subseteq unacked /\ \A d \in Active : d[2] = sub
  BY <1>1 DEF BrokerInv, OneSubscription, Looping
<1>9. OneSubscription'
  BY <1>1, <1>2, <1>6, <1>8 DEF OneSubscription, Looping, BrokerInv
<1>10. Counted'
  <2>1. IsFiniteSet(unacked) /\ IsFiniteSet(Active) /\ Cardinality(Active) <= Cardinality(unacked)
    BY <1>8, FS_Subset DEF BrokerInv, Counted
  <2>2. Cardinality(unacked) \in Nat /\ Cardinality(Active) \in Nat
    BY <2>1, FS_CardinalityType
  <2>3. IsFiniteSet(unacked') /\ Cardinality(unacked') <= Cardinality(unacked) + 1
    BY <1>1, <2>1, OneMore
  <2>4. IsFiniteSet(Active') /\ Cardinality(Active') <= Cardinality(Active) + 1
    BY <1>6, <2>1, OneMore
  <2>5. Cardinality(unacked') \in Nat /\ Cardinality(Active') \in Nat
    BY <2>3, <2>4, FS_CardinalityType
  <2>6. Cardinality(unacked') <= Prefetch /\ Cardinality(Active') <= Prefetch
    BY <1>1, <2>1, <2>2, <2>3, <2>4, <2>5, BrokerAssumption
  <2> QED BY <2>3, <2>4, <2>6 DEF Counted
<1>11. OnePublishes'
  BY <1>7 DEF BrokerInv, OnePublishes
<1> QED BY <1>3, <1>4, <1>9, <1>10, <1>11 DEF BrokerInv

\* A loss, the signal and the end of the broker move no handler.
LEMMA ServerKeeps == ASSUME BrokerInv, Lose \/ Stop \/ CloseBroker PROVE BrokerInv'
<1>1. /\ UNCHANGED <<malformed, gen, loop, seen, sub, at>> /\ live' \subseteq live /\ losses' \in 0..MaxLosses /\ losses' >= losses
      /\ unacked' = unacked \/ (unacked' = {} /\ "consumer" \notin live')
      /\ ready' \in SUBSET Messages /\ unacked' \subseteq unacked
  <2>1. CASE Lose
    <3>1. PICK lost \in SUBSET live \ {{}} :
            live' = live \ lost /\ IF "consumer" \in lost THEN TakeBack ELSE UNCHANGED <<ready, unacked>>
      BY <2>1 DEF Lose
    <3>2. losses < MaxLosses /\ losses' = losses + 1 /\ UNCHANGED <<malformed, gen, loop, seen, sub, at>>
      BY <2>1 DEF Lose
    <3>3. losses' \in 0..MaxLosses /\ losses' >= losses
      BY <3>2, BrokerAssumption DEF BrokerInv, BrokerTypeOK
    <3>4. CASE "consumer" \in lost
      BY <3>1, <3>2, <3>3, <3>4, TakenBack DEF BrokerInv
    <3>5. CASE "consumer" \notin lost
      BY <3>1, <3>2, <3>3, <3>5 DEF BrokerInv, BrokerTypeOK
    <3> QED BY <3>4, <3>5
  <2>2. CASE Stop
    <3>1. losses' \in 0..MaxLosses /\ losses' >= losses
      BY <2>2, BrokerAssumption DEF Stop, BrokerInv, BrokerTypeOK
    <3> QED BY <2>2, <3>1 DEF Stop, channels, BrokerInv, BrokerTypeOK
  <2>3. CASE CloseBroker
    <3>1. losses' \in 0..MaxLosses /\ losses' >= losses
      BY <2>3, BrokerAssumption DEF CloseBroker, BrokerInv, BrokerTypeOK
    <3>2. ready' \in SUBSET Messages /\ unacked' = {}
      BY <2>3, TakenBack DEF CloseBroker, CloseChannels, BrokerInv
    <3> QED BY <2>3, <3>1, <3>2 DEF CloseBroker, CloseChannels
  <2> QED BY <2>1, <2>2, <2>3
<1>2. unset' \in BOOLEAN /\ closed' \in BOOLEAN /\ stopping' \in BOOLEAN
  BY DEF Lose, Stop, CloseBroker, CloseChannels, channels, BrokerInv, BrokerTypeOK
<1>3. BrokerTypeOK'
  BY <1>1, <1>2 DEF BrokerInv, BrokerTypeOK
<1>4. Opened'
  <2>1. CASE Lose
    <3>1. gen <= losses + 1 /\ losses' = losses + 1 /\ gen' = gen
      BY <2>1 DEF Lose, BrokerInv, Opened
    <3>2. gen' <= losses' /\ gen' <= losses' + 1
      BY <3>1, BrokerAssumption DEF BrokerInv, BrokerTypeOK, Generations
    <3> QED BY <3>2 DEF Opened
  <2>2. CASE Stop
    BY <2>2 DEF Stop, channels, Opened, Healthy, BrokerInv
  <2>3. CASE CloseBroker
    BY <2>3 DEF CloseBroker, Opened, BrokerInv
  <2> QED BY <2>1, <2>2, <2>3
<1>5. UNCHANGED <<Active, Running, Publishing>>
  BY <1>1 DEF Active, Running, Publishing
<1>6. OneSubscription'
  BY <1>1, <1>5 DEF BrokerInv, OneSubscription, Looping
<1> QED BY <1>1, <1>3, <1>4, <1>5, <1>6, FewerCounted DEF BrokerInv, OnePublishes

\* Every step keeps the invariant.
LEMMA BrokerStep == BrokerInv /\ [BrokerNext]_brokerVars => BrokerInv'
<1> SUFFICES ASSUME BrokerInv, [BrokerNext]_brokerVars PROVE BrokerInv'
  OBVIOUS
<1>1. CASE Consume
  BY <1>1, ConsumeKeeps
<1>2. ASSUME NEW d \in Deliveries, Receive(d) PROVE BrokerInv'
  <2>1. PICK to \in {"settle", "slot"} : at' = [at EXCEPT ![d] = to]
    BY <1>2 DEF Receive
  <2>0. d \in Publishers
    BY DEF Publishers
  <2>2. /\ loop = "receive" /\ at[d] = "buffered" /\ UNCHANGED <<malformed, gen, live, unset, closed>>
        /\ UNCHANGED <<loop, seen, sub, ready, unacked, stopping, losses>>
    BY <1>2 DEF Receive, channels
  <2>3. UNCHANGED Opened
    BY <2>2 DEF Opened, Healthy
  <2>4. gen' \in Generations /\ gen' >= gen
    BY <2>2, BrokerAssumption DEF BrokerInv, BrokerTypeOK, Generations
  <2>5. ready' \in SUBSET Messages /\ losses' \in 0..MaxLosses /\ live' \in SUBSET Channels /\ unset' \in BOOLEAN
    BY <2>2 DEF BrokerInv, BrokerTypeOK
  <2> QED BY <2>0, <2>1, <2>2, <2>3, <2>4, <2>5, HandlerKeeps DEF BrokerInv, HandlerSteps, PublishSteps
<1>3. ASSUME NEW d \in Deliveries, Handle(d) PROVE BrokerInv'
  BY <1>3, HandleKeeps
<1>4. ASSUME NEW m \in Messages, Deliver(m) PROVE BrokerInv'
  BY <1>4, DeliverKeeps
<1>5. CASE Lose \/ Stop \/ CloseBroker
  BY <1>5, ServerKeeps
<1>6. CASE UNCHANGED brokerVars
  <2>1. UNCHANGED <<Active, Running, Publishing, Opened>>
    BY <1>6 DEF brokerVars, Active, Running, Publishing, Opened, Healthy
  <2> QED BY <1>6, <2>1 DEF brokerVars, BrokerInv, BrokerTypeOK, OneSubscription, Looping, Counted, OnePublishes
<1>7. ASSUME NEW o \in Outsiders, Request(o) \/ Publish(o) PROVE BrokerInv'
  <2>1. o \in Publishers
    BY DEF Publishers
  <2>2. CASE Request(o)
    BY <2>1, <2>2, HandlerMoves DEF Request, HandlerSteps, PublishSteps
  <2> QED BY <1>7, <2>1, <2>2, PublishKeeps
<1> QED BY <1>1, <1>2, <1>3, <1>4, <1>5, <1>6, <1>7 DEF BrokerNext

\* The values of the variables stay in their sets; there are no more channels than losses and one.
THEOREM BrokerTypes == BrokerSpec => []BrokerTypeOK
<1>1. BrokerInv => BrokerTypeOK
  BY DEF BrokerInv
<1> QED BY <1>1, BrokerStart, BrokerStep, PTL DEF BrokerSpec

\* A message has one handler, Prefetch bounds the handlers and one party publishes,
\* through every loss, redelivery and reconnect.
THEOREM BrokerBoundsHandlers == BrokerSpec => []HandlersBounded
<1>1. BrokerInv => HandlersBounded
  <2> SUFFICES ASSUME BrokerInv PROVE HandlersBounded
    OBVIOUS
  <2>1. Running \subseteq Active
    BY DEF Running, Active
  <2>2. \A d, e \in Running : d[2] = e[2]
    BY <2>1 DEF BrokerInv, OneSubscription, Looping
  <2>3. \A d, e \in Running : d[1] = e[1] => d = e
    BY <2>2 DEF Running, Deliveries
  <2>4. Cardinality(Running) <= Prefetch
    <3>1. IsFiniteSet(Running) /\ Cardinality(Running) <= Cardinality(Active)
      BY <2>1, FS_Subset DEF BrokerInv, Counted
    <3>2. Cardinality(Running) \in Nat /\ Cardinality(Active) \in Nat /\ Cardinality(Active) <= Prefetch
      BY <3>1, FS_CardinalityType DEF BrokerInv, Counted
    <3> QED BY <3>1, <3>2, BrokerAssumption
  <2>5. Cardinality(Publishing) <= 1
    <3>1. CASE Publishing = {}
      BY <3>1, FS_EmptySet
    <3>2. CASE Publishing # {}
      <4>1. PICK d \in Publishing : Publishing = {d}
        BY <3>2 DEF BrokerInv, OnePublishes
      <4> QED BY <4>1, FS_Singleton
    <3> QED BY <3>1, <3>2
  <2> QED BY <2>3, <2>4, <2>5 DEF HandlersBounded
<1> QED BY <1>1, BrokerStart, BrokerStep, PTL DEF BrokerSpec

\* Consume returns when no handler runs any more.
THEOREM BrokerReturnsIdle == BrokerSpec => []ReturnsWhenIdle
<1>1. BrokerInv => ReturnsWhenIdle
  BY DEF BrokerInv, OneSubscription, ReturnsWhenIdle
<1> QED BY <1>1, BrokerStart, BrokerStep, PTL DEF BrokerSpec
-----------------------------------------------------------------------------
\* Every token but the last one has come near its end, and the last one is cached.
\* Who asks for a new token is alone and has found the last one not fresh.
TokensInOrder ==
  /\ cached = Len(age)
  /\ \A k \in DOMAIN age : k # Len(age) => age[k] # "fresh"
  /\ IF age # <<>> /\ age[Len(age)] = "fresh" THEN Len(age) = renewals + 1 /\ Refreshing = {}
     ELSE Len(age) = renewals
  /\ \A c, d \in Refreshing : c = d

GitHubInv == GitHubTypeOK /\ TokensInOrder /\ SentTokenIsValid

\* The limiter comes first, then the token, then the request.
LEMMA CallOrder == After("limit") = "token" /\ After("token") = "send"
<1>1. \A i \in 1..2 : (Order[i] = "limit" <=> i = 1) /\ (Order[i] = "token" <=> i = 2)
  BY DEF Order
<1>2. (CHOOSE i \in 1..2 : Order[i] = "limit") = 1
  BY <1>1
<1>3. (CHOOSE i \in 1..2 : Order[i] = "token") = 2
  BY <1>1
<1>4. After("limit") = Order[1 + 1] /\ After("token") = Order[1 + 2]
  BY <1>2, <1>3, Zenon DEF After
<1> QED BY <1>4 DEF Order

\* Nobody has a token at the start.
LEMMA GitHubStart == GitHubInit => GitHubInv
<1> SUFFICES ASSUME GitHubInit PROVE GitHubInv
  OBVIOUS
<1>1. age = <<>> /\ age \in Seq(Ages) /\ Len(age) = 0
  BY DEF GitHubInit
<1>2. \A c \in Callers : call[c] = "limit"
  BY DEF GitHubInit, Order
<1>3. GitHubTypeOK
  <2>1. call \in [Callers -> CallSteps] /\ Order[1] = "limit"
    BY DEF GitHubInit, CallSteps, Order
  <2>2. token \in [Callers -> 0..Len(age)]
    BY <1>1 DEF GitHubInit
  <2>3. count \in 0..Limit /\ renewals \in 0..MaxTokens
    BY GitHubAssumption DEF GitHubInit
  <2>4. expires \in BOOLEAN
    BY DEF GitHubInit
  <2>5. cached \in 0..Len(age) /\ Len(age) <= MaxTokens
    BY <1>1, GitHubAssumption DEF GitHubInit
  <2> QED BY <1>1, <2>1, <2>2, <2>3, <2>4, <2>5 DEF GitHubTypeOK
<1>4. Refreshing = {} /\ Sending = {}
  BY <1>2 DEF Refreshing, Sending
<1> QED BY <1>1, <1>3, <1>4 DEF GitHubInv, TokensInOrder, SentTokenIsValid, GitHubInit

\* Every step keeps the invariant.
LEMMA GitHubStep == GitHubInv /\ [GitHubNext]_githubVars => GitHubInv'
<1> SUFFICES ASSUME GitHubInv, [GitHubNext]_githubVars PROVE GitHubInv'
  OBVIOUS
<1> USE GitHubAssumption DEF GitHubInv
\* A caller that moves on without a token, and not into a refresh, changes nothing else.
<1>1. ASSUME NEW c \in Callers, NEW from \in CallSteps, NEW to \in CallSteps \ {"refresh", "send"},
             Goes(c, from, to), UNCHANGED <<token, cached, age, renewals>>,
             count' \in 0..Limit, expires' \in BOOLEAN
      PROVE  GitHubInv'
  <2>1. /\ call' = [call EXCEPT ![c] = to] /\ call \in [Callers -> CallSteps]
        /\ call' \in [Callers -> CallSteps]
    BY <1>1 DEF Goes, GitHubTypeOK
  <2>2. Refreshing' \subseteq Refreshing /\ Sending' \subseteq Sending
    BY <1>1, <2>1 DEF Refreshing, Sending, GitHubTypeOK
  <2>3. GitHubTypeOK'
    BY <1>1, <2>1 DEF GitHubTypeOK
  <2>4. TokensInOrder'
    BY <1>1, <2>2 DEF TokensInOrder
  <2>5. SentTokenIsValid'
    BY <1>1, <2>2 DEF SentTokenIsValid
  <2> QED BY <2>3, <2>4, <2>5
<1>2. ASSUME NEW c \in Callers, TakeSlotOfWindow(c) PROVE GitHubInv'
  <2>1. count' \in 0..Limit /\ expires' \in BOOLEAN
    BY <1>2 DEF TakeSlotOfWindow, CountCall, GitHubTypeOK
  <2>2. Goes(c, "limit", "token") \/ Goes(c, "limit", "asleep")
    BY <1>2, CallOrder DEF TakeSlotOfWindow
  <2> QED BY <1>1, <1>2, <2>1, <2>2 DEF TakeSlotOfWindow, CallSteps
<1>3. ASSUME NEW c \in Callers, Wake(c) PROVE GitHubInv'
  BY <1>1, <1>3 DEF Wake, CallSteps, GitHubTypeOK
<1>4. ASSUME NEW c \in Callers, Respond(c) PROVE GitHubInv'
  BY <1>1, <1>4 DEF Respond, CallSteps, GitHubTypeOK
<1>5. ASSUME NEW c \in Callers, GiveUp(c) PROVE GitHubInv'
  BY <1>1, <1>5 DEF GiveUp, CallSteps, GitHubTypeOK
<1>6. ASSUME NEW c \in Callers, LookUp(c) PROVE GitHubInv'
  <2> USE DEF GitHubTypeOK
  <2>1. CASE Usable
    <3>1. /\ call[c] = "token" /\ call' = [call EXCEPT ![c] = "send"]
          /\ token' = [token EXCEPT ![c] = cached]
          /\ UNCHANGED <<count, expires, cached, age, renewals>>
          /\ cached # 0 /\ age[cached] = "fresh"
      BY <1>6, <2>1, CallOrder DEF LookUp, Goes, Usable
    <3>2. GitHubTypeOK'
      BY <3>1 DEF CallSteps
    <3>3. Refreshing' = Refreshing /\ Sending' \subseteq Sending \cup {c}
      BY <3>1 DEF Refreshing, Sending
    <3>4. TokensInOrder'
      BY <3>1, <3>3 DEF TokensInOrder
    <3>5. SentTokenIsValid'
      <4> SUFFICES ASSUME NEW d \in Sending' PROVE token'[d] # 0 /\ age'[token'[d]] # "expired"
        BY DEF SentTokenIsValid
      <4>1. CASE d = c
        BY <3>1, <4>1
      <4>2. CASE d # c
        <5>1. d \in Sending /\ d \in Callers
          BY <3>3, <4>2 DEF Sending
        <5>2. token'[d] = token[d]
          BY <3>1, <4>2, <5>1
        <5> QED BY <3>1, <5>1, <5>2 DEF SentTokenIsValid
      <4> QED BY <4>1, <4>2
    <3> QED BY <3>2, <3>4, <3>5
  <2>2. CASE ~Usable
    <3>1. /\ call[c] = "token" /\ call' = [call EXCEPT ![c] = "refresh"]
          /\ UNCHANGED <<count, expires, token, cached, age, renewals>>
          /\ Refreshing = {} /\ (cached = 0 \/ age[cached] # "fresh")
      BY <1>6, <2>2 DEF LookUp, Goes, Usable, MutexFree
    <3>2. GitHubTypeOK'
      BY <3>1 DEF CallSteps
    <3>3. Refreshing' \subseteq {c} /\ Sending' \subseteq Sending
      BY <3>1 DEF Refreshing, Sending
    <3>4. ~(age # <<>> /\ age[Len(age)] = "fresh")
      BY <3>1 DEF TokensInOrder
    <3>5. TokensInOrder'
      BY <3>1, <3>3, <3>4 DEF TokensInOrder
    <3>6. SentTokenIsValid'
      BY <3>1, <3>3 DEF SentTokenIsValid
    <3> QED BY <3>2, <3>5, <3>6
  <2> QED BY <2>1, <2>2
<1>7. ASSUME NEW c \in Callers, Refresh(c) PROVE GitHubInv'
  <2> USE DEF GitHubTypeOK
  <2>1. /\ Len(age) < MaxTokens /\ call[c] = "refresh" /\ call' = [call EXCEPT ![c] = "send"]
        /\ age' = Append(age, "fresh") /\ cached' = Len(age) + 1
        /\ token' = [token EXCEPT ![c] = Len(age) + 1]
        /\ UNCHANGED <<count, expires, renewals>>
    BY <1>7, CallOrder DEF Refresh, Goes
  <2>2. /\ age' \in Seq(Ages) /\ Len(age') = Len(age) + 1 /\ age'[Len(age) + 1] = "fresh"
        /\ \A k \in 1..Len(age) : age'[k] = age[k]
    BY <2>1 DEF Ages
  <2>3. \A d \in Callers : token'[d] \in 0..Len(age')
    BY <2>1, <2>2
  <2>4. GitHubTypeOK'
    <3>1. token' \in [Callers -> 0..Len(age')]
      BY <2>1, <2>3
    <3> QED BY <2>1, <2>2, <3>1 DEF CallSteps
  <2>5. c \in Refreshing
    BY <2>1 DEF Refreshing
  <2>6. Refreshing' = {} /\ Sending' \subseteq Sending \cup {c}
    BY <2>1, <2>5 DEF Refreshing, Sending, TokensInOrder
  <2>7. Len(age) = renewals /\ \A k \in DOMAIN age : age[k] # "fresh"
    BY <2>5 DEF TokensInOrder
  <2>8. TokensInOrder'
    <3>1. DOMAIN age' = 1..(Len(age) + 1) /\ DOMAIN age = 1..Len(age)
      BY <2>2
    <3>2. \A k \in DOMAIN age' : k # Len(age') => age'[k] # "fresh"
      BY <2>2, <2>7, <3>1
    <3>3. age' # <<>> /\ age'[Len(age')] = "fresh" /\ Len(age') = renewals' + 1 /\ cached' = Len(age')
      BY <2>1, <2>2, <2>7
    <3> QED BY <2>6, <3>2, <3>3 DEF TokensInOrder
  <2>9. SentTokenIsValid'
    <3> SUFFICES ASSUME NEW d \in Sending' PROVE token'[d] # 0 /\ age'[token'[d]] # "expired"
      BY DEF SentTokenIsValid
    <3>1. CASE d = c
      BY <2>1, <2>2, <3>1
    <3>2. CASE d # c
      <4>1. d \in Sending /\ d \in Callers
        BY <2>6, <3>2 DEF Sending
      <4>2. token'[d] = token[d] /\ token[d] \in 1..Len(age) /\ age[token[d]] # "expired"
        BY <2>1, <3>2, <4>1 DEF SentTokenIsValid
      <4> QED BY <2>2, <4>2
    <3> QED BY <3>1, <3>2
  <2> QED BY <2>4, <2>8, <2>9
<1>8. CASE WindowEnds
  <2>1. count' = 0 /\ expires' = FALSE /\ UNCHANGED <<call, token, cached, age, renewals>>
    BY <1>8 DEF WindowEnds
  <2>2. GitHubTypeOK'
    <3>1. count' \in 0..Limit
      BY <2>1
    <3>2. expires' \in BOOLEAN
      BY <2>1
    <3> QED BY <2>1, <3>1, <3>2 DEF GitHubTypeOK
  <2>3. Refreshing' = Refreshing /\ Sending' = Sending
    BY <2>1 DEF Refreshing, Sending
  <2>4. TokensInOrder' /\ SentTokenIsValid'
    BY <2>1, <2>3 DEF TokensInOrder, SentTokenIsValid
  <2> QED BY <2>2, <2>4
<1>9. ASSUME NEW k \in DOMAIN age, Grow(k) PROVE GitHubInv'
  <2> USE DEF GitHubTypeOK
  <2>1. k \in 1..Len(age) /\ UNCHANGED <<count, expires, call, token, cached>>
    BY <1>9 DEF Grow
  <2>2. Refreshing' = Refreshing /\ Sending' = Sending
    BY <2>1 DEF Refreshing, Sending
  <2>3. CASE age[k] = "fresh"
    <3>1. age' = [age EXCEPT ![k] = "ending"] /\ renewals' = renewals + 1 /\ Len(age) < MaxTokens
      BY <1>9, <2>3 DEF Grow
    <3>2. age' \in Seq(Ages) /\ Len(age') = Len(age) /\ DOMAIN age' = DOMAIN age
      BY <2>1, <3>1 DEF Ages
    <3>3. k = Len(age) /\ Len(age) = renewals + 1
      BY <2>3, <1>9 DEF TokensInOrder
    <3>4. \A i \in DOMAIN age : age'[i] = IF i = k THEN "ending" ELSE age[i]
      BY <3>1
    <3>5. GitHubTypeOK'
      BY <2>1, <3>1, <3>2, <3>3
    <3>6. TokensInOrder'
      BY <2>1, <2>2, <3>1, <3>2, <3>3, <3>4 DEF TokensInOrder
    <3>7. SentTokenIsValid'
      BY <2>1, <2>2, <3>4 DEF SentTokenIsValid, Sending
    <3> QED BY <3>5, <3>6, <3>7
  <2>4. CASE age[k] = "ending"
    <3>1. /\ age' = [age EXCEPT ![k] = "expired"] /\ UNCHANGED renewals
          /\ \A c \in Sending : token[c] # k
      BY <1>9, <2>4 DEF Grow
    <3>2. age' \in Seq(Ages) /\ Len(age') = Len(age) /\ DOMAIN age' = DOMAIN age
      BY <2>1, <3>1 DEF Ages
    <3>3. \A i \in DOMAIN age : age'[i] = IF i = k THEN "expired" ELSE age[i]
      BY <3>1
    <3>4. GitHubTypeOK'
      BY <2>1, <3>1, <3>2
    <3>5. TokensInOrder'
      <4>1. (age' # <<>> /\ age'[Len(age')] = "fresh") <=> (age # <<>> /\ age[Len(age)] = "fresh")
        BY <2>1, <2>4, <3>2, <3>3
      <4> QED BY <2>1, <2>2, <3>1, <3>2, <3>3, <4>1 DEF TokensInOrder
    <3>6. SentTokenIsValid'
      BY <2>1, <2>2, <3>1, <3>3 DEF SentTokenIsValid, Sending
    <3> QED BY <3>4, <3>5, <3>6
  <2> QED BY <1>9, <2>3, <2>4 DEF Grow
<1>10. CASE UNCHANGED githubVars
  BY <1>10 DEF githubVars, GitHubTypeOK, TokensInOrder, SentTokenIsValid, Refreshing, Sending
<1> QED BY <1>2, <1>3, <1>4, <1>5, <1>6, <1>7, <1>8, <1>9, <1>10 DEF GitHubNext, Call

\* The values of the variables stay in their sets.
THEOREM GitHubTypes == GitHubSpec => []GitHubTypeOK
<1>1. GitHubInv => GitHubTypeOK
  BY DEF GitHubInv
<1> QED BY <1>1, GitHubStart, GitHubStep, PTL DEF GitHubSpec

\* No request goes out with an expired token, although its caller may have waited for
\* the limiter for any time before it took the token.
THEOREM GitHubSendsValidTokens == GitHubSpec => []SentTokenIsValid
<1>1. GitHubInv => SentTokenIsValid
  BY DEF GitHubInv
<1> QED BY <1>1, GitHubStart, GitHubStep, PTL DEF GitHubSpec

\* However many callers find the token near its end, GitHub is asked for one new token.
THEOREM GitHubRenewsOnce == GitHubSpec => []OneTokenPerRenewal
<1>1. GitHubInv => OneTokenPerRenewal
  BY DEF GitHubInv, TokensInOrder, OneTokenPerRenewal, GitHubTypeOK
<1> QED BY <1>1, GitHubStart, GitHubStep, PTL DEF GitHubSpec
-----------------------------------------------------------------------------
\* The script that creates review_task finds it with all additions, or not at all.
Upgraded == "review_task" \in schema => Additions \subseteq schema

\* What a process past its last statement can rely on, whatever the others do.
Progress(p) ==
  /\ applied[p] \subseteq recorded
  /\ step[p] \in {"check", "alter"} =>
       /\ part[p] \in 1..3
       /\ part[p] > 1 => RetryColumns \subseteq schema
       /\ part[p] > 2 => "idx_review_task_retry" \in schema
  /\ step[p] = "alter" => Upgrades[part[p]] \subseteq schema \cup missing[p]
  /\ step[p] \in {"script", "second", "record"} =>
       /\ Upgraded
       /\ \A v \in Versions : v < part[p] => v \in recorded
  /\ step[p] = "second" => part[p] = 1 /\ Statement("review_task") \subseteq schema
  /\ step[p] = "record" => Creates(part[p]) \subseteq schema
  /\ step[p] = "serving" => recorded = Versions

SchemaInv ==
  /\ SchemaTypeOK
  /\ \A v \in recorded : Creates(v) \subseteq schema
  /\ recorded # {} => 1 \in recorded
  /\ \A p \in Processes : Progress(p)

\* What the four scripts create.
LEMMA ScriptFacts ==
  /\ Versions = 1..4
  /\ Script[1] = <<"review_task", "review_result">> /\ Script[2] = <<"audit_log">>
  /\ Script[3] = <<"tool_call_log">> /\ Script[4] = <<"review_delivery">>
  /\ Creates(1) = Statement("review_task") \cup {"review_result"}
  /\ Creates(2) = {"audit_log"} /\ Creates(3) = {"tool_call_log"} /\ Creates(4) = {"review_delivery"}
<1>1. Script = <<InitScript, AuditLogScript, ToolCallLogScript, ReviewDeliveryScript>>
  BY DEF Script
<1>2. Versions = 1..4
  BY <1>1 DEF Versions
<1>3. /\ Script[1] = <<"review_task", "review_result">> /\ Script[2] = <<"audit_log">>
      /\ Script[3] = <<"tool_call_log">> /\ Script[4] = <<"review_delivery">>
  BY <1>1 DEF InitScript, AuditLogScript, ToolCallLogScript, ReviewDeliveryScript
<1>4. DOMAIN Script[1] = 1..2 /\ DOMAIN Script[2] = 1..1 /\ DOMAIN Script[3] = 1..1 /\ DOMAIN Script[4] = 1..1
  BY <1>3
<1>5. /\ Script[1][1] = "review_task" /\ Script[1][2] = "review_result" /\ Script[2][1] = "audit_log"
      /\ Script[3][1] = "tool_call_log" /\ Script[4][1] = "review_delivery"
  BY <1>3
<1>6. /\ Statement("review_result") = {"review_result"} /\ Statement("audit_log") = {"audit_log"}
      /\ Statement("tool_call_log") = {"tool_call_log"} /\ Statement("review_delivery") = {"review_delivery"}
  BY DEF Statement
<1>7. Creates(1) = Statement("review_task") \cup {"review_result"}
  <2>1. {Statement(Script[1][i]) : i \in 1..2} = {Statement("review_task"), {"review_result"}}
    BY <1>5, <1>6
  <2> QED BY <1>4, <2>1 DEF Creates
<1>8. Creates(2) = {"audit_log"}
  BY <1>4, <1>5, <1>6 DEF Creates
<1>9. Creates(3) = {"tool_call_log"}
  BY <1>4, <1>5, <1>6 DEF Creates
<1>10. Creates(4) = {"review_delivery"}
  BY <1>4, <1>5, <1>6 DEF Creates
<1> QED BY <1>2, <1>3, <1>7, <1>8, <1>9, <1>10

\* The parts of the upgrade.
LEMMA UpgradeFacts ==
  /\ Len(Upgrades) = 3
  /\ Upgrades[1] = RetryColumns /\ Upgrades[2] = {"idx_review_task_retry"} /\ Upgrades[3] = {"timestamp_precision"}
  /\ Additions = RetryColumns \cup {"idx_review_task_retry", "timestamp_precision"}
  /\ Statement("review_task") = {"review_task"} \cup Additions
BY DEF Upgrades, Additions, Statement

\* With every version recorded, the schema is complete.
LEMMA AllRecorded == SchemaInv /\ recorded = Versions => schema = Tables \cup Additions
<1> SUFFICES ASSUME SchemaInv, recorded = Versions PROVE schema = Tables \cup Additions
  OBVIOUS
<1>1. /\ 1 \in recorded /\ 2 \in recorded /\ 3 \in recorded /\ 4 \in recorded
  BY ScriptFacts
<1>2. {"review_task", "review_result"} \cup Additions \subseteq schema
  BY <1>1, ScriptFacts, UpgradeFacts DEF SchemaInv
<1>3. {"audit_log", "tool_call_log", "review_delivery"} \subseteq schema
  BY <1>1, ScriptFacts DEF SchemaInv
<1>4. schema \subseteq Tables \cup Additions
  BY DEF SchemaInv, SchemaTypeOK
<1> QED BY <1>2, <1>3, <1>4 DEF Tables

\* Before the first statement, an empty or an old database.
LEMMA SchemaStart == SchemaInit => SchemaInv
<1> SUFFICES ASSUME SchemaInit PROVE SchemaInv
  OBVIOUS
<1>1. SchemaTypeOK
  BY ScriptFacts, MigrationAssumption DEF SchemaInit, SchemaTypeOK, Legacy, Tables, Steps
<1>2. \A p \in Processes : step[p] = "down" /\ applied[p] = {}
  BY DEF SchemaInit
<1> QED BY <1>1, <1>2 DEF SchemaInv, Progress, SchemaInit

\* The schema and the versions only grow, and review_task comes with its additions:
\* what a process relies on stays true while others run.
LEMMA OthersKeep ==
  ASSUME NEW p \in Processes, Progress(p), recorded \subseteq recorded', schema \subseteq schema',
         recorded' \subseteq Versions, Upgraded => Upgraded',
         UNCHANGED <<step[p], applied[p], part[p], missing[p]>>
  PROVE  Progress(p)'
BY DEF Progress, Versions
\* Every step of process p keeps the invariant.
LEMMA SchemaKeeps ==
  ASSUME NEW p \in Processes, SchemaInv, SchemaTypeOK',
         recorded \subseteq recorded', schema \subseteq schema', Upgraded => Upgraded',
         UNCHANGED missing \/ missing' = [missing EXCEPT ![p] = missing'[p]],
         UNCHANGED step \/ step' = [step EXCEPT ![p] = step'[p]],
         UNCHANGED applied \/ applied' = [applied EXCEPT ![p] = applied'[p]],
         UNCHANGED part \/ part' = [part EXCEPT ![p] = part'[p]],
         \A v \in recorded' \ recorded : Creates(v) \subseteq schema',
         recorded' # {} => 1 \in recorded',
         Progress(p)'
  PROVE  SchemaInv'
<1>1. ASSUME NEW q \in Processes, q # p PROVE Progress(q)'
  <2>1. UNCHANGED <<step[q], applied[q], part[q], missing[q]>>
    BY <1>1 DEF SchemaInv, SchemaTypeOK
  <2>2. Progress(q) /\ recorded' \subseteq Versions
    BY DEF SchemaInv, SchemaTypeOK
  <2> QED BY <2>1, <2>2, OthersKeep
<1>2. \A v \in recorded' : Creates(v) \subseteq schema'
  BY DEF SchemaInv
<1> QED BY <1>1, <1>2 DEF SchemaInv

\* On to the next version that was not applied when the process looked: every version
\* before it is recorded, and all of them when there is none left.
LEMMA NextVersionFacts ==
  ASSUME NEW p \in Processes, SchemaInv, NEW v \in 0..4, NEW known \in SUBSET Versions,
         NextVersion(p, v, known), known \subseteq recorded', recorded' \subseteq Versions,
         \A u \in Versions : u <= v => u \in recorded'
  PROVE  \/ /\ step' = [step EXCEPT ![p] = "serving"] /\ UNCHANGED part /\ recorded' = Versions
         \/ /\ step' = [step EXCEPT ![p] = "script"] /\ part' = [part EXCEPT ![p] = part'[p]]
            /\ part'[p] \in Versions
            /\ part' \in [Processes -> Versions]
            /\ \A u \in Versions : u < part'[p] => u \in recorded'
<1> DEFINE todo == {w \in Versions \ known : w > v}
<1>1. CASE todo = {}
  <2>1. step' = [step EXCEPT ![p] = "serving"] /\ UNCHANGED part
    BY <1>1 DEF NextVersion, Becomes
  <2>2. \A w \in Versions : w \in known \/ w <= v
    BY <1>1, ScriptFacts
  <2> QED BY <2>1, <2>2
<1>2. CASE todo # {}
  <2>1. \E w \in todo : \A u \in todo : w <= u
    <3>1. todo \subseteq 1..4
      BY ScriptFacts
    <3>2. (1 \in todo \/ 2 \in todo \/ 3 \in todo \/ 4 \in todo) /\ \A u \in todo : u = 1 \/ u = 2 \/ u = 3 \/ u = 4
      BY <1>2, <3>1
    <3> HIDE DEF todo
    <3> QED BY <3>2
  <2> DEFINE w == CHOOSE w \in todo : \A u \in todo : w <= u
  <2>2. w \in todo /\ \A u \in todo : w <= u
    BY <2>1
  <2>3. step' = [step EXCEPT ![p] = "script"] /\ part' = [part EXCEPT ![p] = w]
    BY <1>2, Zenon DEF NextVersion, Becomes
  <2> HIDE DEF w
  <2>4. w \in Versions /\ w \in 1..4
    BY <2>2, ScriptFacts
  <2>5. part'[p] = w /\ part' = [part EXCEPT ![p] = part'[p]] /\ part' \in [Processes -> Versions]
    BY <2>3, <2>4 DEF SchemaInv, SchemaTypeOK
  <2>6. \A u \in Versions : u < w => u \in recorded'
    BY <2>2, <2>4, ScriptFacts
  <2> QED BY <2>3, <2>4, <2>5, <2>6
<1> QED BY <1>1, <1>2

\* A process goes on to the next version when its last one is recorded.
LEMMA ReadKeeps ==
  ASSUME SchemaInv, NEW p \in Processes, ReadApplied(p)
  PROVE  SchemaInv'
<1>1. /\ applied' = [applied EXCEPT ![p] = recorded] /\ UNCHANGED <<schema, recorded, missing, crashes>>
      /\ applied'[p] = recorded /\ applied' \in [Processes -> SUBSET Versions]
  BY DEF ReadApplied, SchemaInv, SchemaTypeOK
<1>2. CASE recorded = {}
  <2>1. step' = [step EXCEPT ![p] = "table"] /\ UNCHANGED part
    BY <1>2 DEF ReadApplied, Becomes
  <2>2. SchemaTypeOK'
    BY <1>1, <2>1 DEF SchemaInv, SchemaTypeOK, Steps
  <2>3. step'[p] = "table" /\ step' = [step EXCEPT ![p] = step'[p]] /\ applied' = [applied EXCEPT ![p] = applied'[p]]
    BY <1>1, <2>1 DEF SchemaInv, SchemaTypeOK
  <2>4. Progress(p)'
    BY <1>1, <2>3 DEF Progress
  <2> QED BY <1>1, <2>1, <2>2, <2>3, <2>4, SchemaKeeps DEF Upgraded, SchemaInv
<1>3. CASE recorded # {}
  <2>1. NextVersion(p, 0, recorded)
    BY <1>3 DEF ReadApplied
  <2>2. recorded \subseteq Versions /\ 0 \in 0..4 /\ \A u \in Versions : u <= 0 => u \in recorded'
    BY ScriptFacts DEF SchemaInv, SchemaTypeOK
  <2>3. Upgraded
    BY <1>3, ScriptFacts, UpgradeFacts DEF Upgraded, SchemaInv
  <2>4. \/ /\ step' = [step EXCEPT ![p] = "serving"] /\ UNCHANGED part /\ recorded' = Versions
        \/ /\ step' = [step EXCEPT ![p] = "script"] /\ part' = [part EXCEPT ![p] = part'[p]]
           /\ part'[p] \in Versions
           /\ part' \in [Processes -> Versions]
           /\ \A u \in Versions : u < part'[p] => u \in recorded'
    BY <1>1, <2>1, <2>2, NextVersionFacts
  <2>5. /\ step'[p] \in {"serving", "script"} /\ step' = [step EXCEPT ![p] = step'[p]]
        /\ step' \in [Processes -> Steps] /\ part' \in [Processes -> Versions]
    BY <2>4 DEF SchemaInv, SchemaTypeOK, Steps
  <2>6. SchemaTypeOK'
    BY <1>1, <2>5 DEF SchemaInv, SchemaTypeOK
  <2>7. Progress(p)'
    <3>1. step'[p] = "serving" => recorded' = Versions
      BY <2>4 DEF SchemaInv, SchemaTypeOK
    <3>2. step'[p] = "script" => \A u \in Versions : u < part'[p] => u \in recorded'
      BY <2>4 DEF SchemaInv, SchemaTypeOK
    <3> QED BY <1>1, <2>3, <2>5, <3>1, <3>2 DEF Progress, Upgraded, Versions
  <2>8. applied' = [applied EXCEPT ![p] = applied'[p]] /\ (UNCHANGED part \/ part' = [part EXCEPT ![p] = part'[p]])
    BY <1>1, <2>4
  <2> QED BY <1>1, <2>5, <2>6, <2>7, <2>8, SchemaKeeps DEF Upgraded, SchemaInv
<1> QED BY <1>2, <1>3

\* A version is recorded with its tables in place and after all versions before it.
LEMMA RecordKeeps ==
  ASSUME SchemaInv, NEW p \in Processes, RecordVersion(p)
  PROVE  SchemaInv'
<1>1. /\ step[p] = "record" /\ recorded' = recorded \cup {part[p]} /\ UNCHANGED <<schema, applied, missing, crashes>>
      /\ part[p] \in Versions /\ recorded \subseteq Versions /\ recorded' \subseteq Versions
  BY DEF RecordVersion, SchemaInv, SchemaTypeOK
<1>2. /\ Upgraded /\ applied[p] \subseteq recorded /\ Creates(part[p]) \subseteq schema
      /\ \A v \in Versions : v < part[p] => v \in recorded
  BY <1>1 DEF SchemaInv, Progress
<1>3. 1 \in recorded'
  BY <1>1, <1>2, ScriptFacts
<1>4. \A v \in recorded' \ recorded : Creates(v) \subseteq schema'
  BY <1>1, <1>2
<1>5. CASE part[p] \in recorded
  <2>1. step' = [step EXCEPT ![p] = "down"] /\ UNCHANGED part
    BY <1>5 DEF RecordVersion, Becomes
  <2>2. step'[p] = "down" /\ step' = [step EXCEPT ![p] = step'[p]] /\ SchemaTypeOK'
    BY <1>1, <2>1 DEF SchemaInv, SchemaTypeOK, Steps
  <2>3. Progress(p)'
    BY <1>1, <1>2, <2>2 DEF Progress
  <2> QED BY <1>1, <1>3, <1>4, <2>1, <2>2, <2>3, SchemaKeeps DEF Upgraded
<1>6. CASE part[p] \notin recorded
  <2>1. NextVersion(p, part[p], applied[p])
    BY <1>6 DEF RecordVersion
  <2>2. part[p] \in 0..4 /\ applied[p] \in SUBSET Versions /\ applied[p] \subseteq recorded'
    BY <1>1, <1>2, ScriptFacts
  <2>3. \A u \in Versions : u <= part[p] => u \in recorded'
    BY <1>1, <1>2, ScriptFacts
  <2>4. \/ /\ step' = [step EXCEPT ![p] = "serving"] /\ UNCHANGED part /\ recorded' = Versions
        \/ /\ step' = [step EXCEPT ![p] = "script"] /\ part' = [part EXCEPT ![p] = part'[p]]
           /\ part'[p] \in Versions
           /\ part' \in [Processes -> Versions]
           /\ \A u \in Versions : u < part'[p] => u \in recorded'
    BY <1>1, <2>1, <2>2, <2>3, NextVersionFacts
  <2>5. /\ step'[p] \in {"serving", "script"} /\ step' = [step EXCEPT ![p] = step'[p]]
        /\ step' \in [Processes -> Steps] /\ part' \in [Processes -> Versions]
    BY <2>4 DEF SchemaInv, SchemaTypeOK, Steps
  <2>6. SchemaTypeOK'
    BY <1>1, <2>5 DEF SchemaInv, SchemaTypeOK
  <2>7. Progress(p)'
    <3>1. step'[p] = "serving" => recorded' = Versions
      BY <2>4 DEF SchemaInv, SchemaTypeOK
    <3>2. step'[p] = "script" => \A u \in Versions : u < part'[p] => u \in recorded'
      BY <2>4 DEF SchemaInv, SchemaTypeOK
    <3> QED BY <1>1, <1>2, <2>2, <2>5, <3>1, <3>2 DEF Progress, Upgraded, Versions
  <2>8. UNCHANGED part \/ part' = [part EXCEPT ![p] = part'[p]]
    BY <2>4
  <2> QED BY <1>1, <1>3, <1>4, <2>5, <2>6, <2>7, <2>8, SchemaKeeps DEF Upgraded
<1> QED BY <1>5, <1>6

\* A process that starts, fails or looks for review_task knows nothing that others can spoil.
LEMMA StartKeeps ==
  ASSUME SchemaInv, NEW p \in Processes, Start(p) \/ Crash(p) \/ LookForLegacyTable(p)
  PROVE  SchemaInv'
<1>1. UNCHANGED <<schema, recorded, applied, missing>>
  BY DEF Start, Crash, LookForLegacyTable
<1>2. PICK to \in {"read", "down", "check", "script"} : step' = [step EXCEPT ![p] = to]
  BY DEF Start, Crash, LookForLegacyTable, Becomes
<1>3. step'[p] = to /\ step' = [step EXCEPT ![p] = step'[p]] /\ step' \in [Processes -> Steps]
  BY <1>2 DEF SchemaInv, SchemaTypeOK, Steps
<1>4. UNCHANGED part \/ part' = [part EXCEPT ![p] = 1]
  BY DEF Start, Crash, LookForLegacyTable
<1>5. part' \in [Processes -> Versions] /\ (UNCHANGED part \/ part' = [part EXCEPT ![p] = part'[p]])
  BY <1>4, ScriptFacts DEF SchemaInv, SchemaTypeOK
<1>6. crashes' \in 0..MaxCrashes
  BY MigrationAssumption DEF SchemaInv, SchemaTypeOK, Start, Crash, LookForLegacyTable
<1>7. SchemaTypeOK'
  BY <1>1, <1>3, <1>5, <1>6 DEF SchemaInv, SchemaTypeOK
<1>8. CASE LookForLegacyTable(p)
  <2>1. part'[p] = 1 /\ (to = "check" \/ to = "script") /\ (to = "script" => Upgraded)
    <3>1. part'[p] = 1
      BY <1>8, ScriptFacts DEF LookForLegacyTable, SchemaInv, SchemaTypeOK
    <3>2. step'[p] = IF "review_task" \in schema THEN "check" ELSE "script"
      BY <1>8 DEF LookForLegacyTable, Becomes, SchemaInv, SchemaTypeOK
    <3> QED BY <1>3, <3>1, <3>2 DEF Upgraded
  <2>2. applied[p] \subseteq recorded
    BY DEF SchemaInv, Progress
  <2>3. \A v \in Versions : ~(v < 1)
    BY ScriptFacts
  <2>4. Progress(p)'
    BY <1>1, <1>3, <2>1, <2>2, <2>3 DEF Progress, Upgraded, Versions
  <2> QED BY <1>1, <1>3, <1>5, <1>7, <2>4, SchemaKeeps DEF Upgraded, SchemaInv
<1>9. CASE Start(p) \/ Crash(p)
  <2>1. to = "read" \/ to = "down"
    BY <1>3, <1>9 DEF Start, Crash, Becomes, SchemaInv, SchemaTypeOK
  <2>2. Progress(p)'
    <3>1. applied[p] \subseteq recorded
      BY DEF SchemaInv, Progress
    <3> QED BY <1>1, <1>3, <2>1, <3>1 DEF Progress
  <2> QED BY <1>1, <1>3, <1>5, <1>7, <2>2, SchemaKeeps DEF Upgraded, SchemaInv
<1> QED BY <1>8, <1>9

\* A part of the upgrade is there when the process goes on to the next one.
LEMMA UpgradeKeeps ==
  ASSUME SchemaInv, NEW p \in Processes, CheckPart(p) \/ AlterPart(p)
  PROVE  SchemaInv'
<1>1. /\ step[p] \in {"check", "alter"} /\ part[p] \in 1..3 /\ applied[p] \subseteq recorded
      /\ part[p] > 1 => RetryColumns \subseteq schema
      /\ part[p] > 2 => "idx_review_task_retry" \in schema
  BY DEF CheckPart, AlterPart, SchemaInv, Progress
<1>2. UNCHANGED <<recorded, applied, crashes>> /\ schema \subseteq schema'
  BY DEF CheckPart, AlterPart
<1>3. Upgrades[part[p]] \subseteq Additions /\ missing[p] \subseteq Additions
  BY <1>1, UpgradeFacts DEF SchemaInv, SchemaTypeOK
<1>4. /\ missing' \in [Processes -> SUBSET Additions]
      /\ UNCHANGED missing \/ missing' = [missing EXCEPT ![p] = missing'[p]]
      /\ CheckPart(p) => missing'[p] = Upgrades[part[p]] \ schema
  BY <1>3 DEF CheckPart, AlterPart, SchemaInv, SchemaTypeOK
<1>5. schema' \subseteq Tables \cup Additions /\ (Upgraded => Upgraded')
  <2>1. schema' = schema \/ schema' = schema \cup missing[p]
    BY DEF CheckPart, AlterPart
  <2>2. "review_task" \notin Additions
    BY UpgradeFacts DEF RetryColumns
  <2> QED BY <1>3, <2>1, <2>2 DEF SchemaInv, SchemaTypeOK, Upgraded
<1>6. CASE PartDone(p) /\ Upgrades[part[p]] \subseteq schema'
  <2>1. CASE part[p] < 3
    <3>1. step' = [step EXCEPT ![p] = "check"] /\ part' = [part EXCEPT ![p] = part[p] + 1]
      BY <1>6, <2>1, UpgradeFacts DEF PartDone, Becomes
    <3>2. part[p] + 1 \in 1..3 /\ part[p] + 1 \in Versions
      BY <1>1, <2>1, ScriptFacts
    <3>3. /\ step'[p] = "check" /\ step' = [step EXCEPT ![p] = step'[p]] /\ step' \in [Processes -> Steps]
          /\ part'[p] = part[p] + 1 /\ part' = [part EXCEPT ![p] = part'[p]] /\ part' \in [Processes -> Versions]
      BY <3>1, <3>2 DEF SchemaInv, SchemaTypeOK, Steps
    <3>4. /\ part'[p] > 1 => RetryColumns \subseteq schema'
          /\ part'[p] > 2 => "idx_review_task_retry" \in schema'
      <4>1. part[p] = 1 \/ part[p] = 2
        BY <1>1, <2>1
      <4> QED BY <1>1, <1>2, <1>6, <3>3, <4>1, UpgradeFacts
    <3>5. Progress(p)'
      BY <1>1, <1>2, <3>2, <3>3, <3>4 DEF Progress
    <3>6. SchemaTypeOK'
      BY <1>2, <1>4, <1>5, <3>3 DEF SchemaInv, SchemaTypeOK
    <3> QED BY <1>2, <1>4, <1>5, <3>3, <3>5, <3>6, SchemaKeeps DEF SchemaInv
  <2>2. CASE part[p] = 3
    <3>1. step' = [step EXCEPT ![p] = "script"] /\ part' = [part EXCEPT ![p] = 1]
      BY <1>6, <2>2, UpgradeFacts DEF PartDone, Becomes
    <3>2. /\ step'[p] = "script" /\ step' = [step EXCEPT ![p] = step'[p]] /\ step' \in [Processes -> Steps]
          /\ part'[p] = 1 /\ part' = [part EXCEPT ![p] = part'[p]] /\ part' \in [Processes -> Versions]
      BY <3>1, ScriptFacts DEF SchemaInv, SchemaTypeOK, Steps
    <3>3. Upgraded'
      BY <1>1, <1>2, <1>6, <2>2, UpgradeFacts DEF Upgraded
    <3>4. \A v \in Versions : ~(v < 1)
      BY ScriptFacts
    <3>5. Progress(p)'
      BY <1>1, <1>2, <3>2, <3>3, <3>4 DEF Progress, Versions
    <3>6. SchemaTypeOK'
      BY <1>2, <1>4, <1>5, <3>2 DEF SchemaInv, SchemaTypeOK
    <3> QED BY <1>2, <1>4, <1>5, <3>2, <3>5, <3>6, SchemaKeeps DEF SchemaInv
  <2> QED BY <1>1, <2>1, <2>2
<1>7. CASE /\ part' = part /\ schema' = schema
           /\ \/ step' = [step EXCEPT ![p] = "down"]
              \/ CheckPart(p) /\ step' = [step EXCEPT ![p] = "alter"]
  <2>1. PICK to \in {"down", "alter"} : step' = [step EXCEPT ![p] = to] /\ (to = "alter" => CheckPart(p))
    BY <1>7
  <2>2. step'[p] = to /\ step' = [step EXCEPT ![p] = step'[p]] /\ step' \in [Processes -> Steps]
    BY <2>1 DEF SchemaInv, SchemaTypeOK, Steps
  <2>3. to = "alter" => Upgrades[part'[p]] \subseteq schema' \cup missing'[p]
    BY <1>4, <1>7, <2>1
  <2>4. Progress(p)'
    BY <1>1, <1>2, <1>7, <2>2, <2>3 DEF Progress
  <2>5. SchemaTypeOK'
    BY <1>2, <1>4, <1>5, <1>7, <2>2 DEF SchemaInv, SchemaTypeOK
  <2> QED BY <1>2, <1>4, <1>5, <1>7, <2>2, <2>4, <2>5, SchemaKeeps DEF SchemaInv
<1>8. CASE CheckPart(p)
  BY <1>6, <1>7, <1>8 DEF CheckPart, Becomes
<1>9. CASE AlterPart(p)
  <2>1. Upgrades[part[p]] \subseteq schema \cup missing[p]
    BY <1>9 DEF AlterPart, SchemaInv, Progress
  <2> QED BY <1>6, <1>7, <1>9, <2>1 DEF AlterPart, Becomes
<1> QED BY <1>8, <1>9

\* A script leaves its tables behind, whoever created them.
LEMMA ScriptKeeps ==
  ASSUME SchemaInv, NEW p \in Processes, RunScript(p)
  PROVE  SchemaInv'
<1>1. UNCHANGED <<recorded, applied, part, missing, crashes>>
  BY DEF RunScript
<1>2. /\ step[p] \in {"script", "second"} /\ Upgraded /\ applied[p] \subseteq recorded
      /\ \A v \in Versions : v < part[p] => v \in recorded
      /\ step[p] = "second" => part[p] = 1 /\ Statement("review_task") \subseteq schema
      /\ part[p] \in 1..4
  BY ScriptFacts DEF RunScript, SchemaInv, SchemaTypeOK, Progress
<1>3. ASSUME NEW t \in Tables, NEW to \in {"second", "record"}, CreateTable(p, t, to),
             to = "second" => part[p] = 1 /\ t = "review_task",
             to = "record" => Creates(part[p]) \subseteq schema \cup Statement(t)
      PROVE  SchemaInv'
  <2>1. step' = [step EXCEPT ![p] = to] /\ schema' = IF t \in schema THEN schema ELSE schema \cup Statement(t)
    BY <1>3 DEF CreateTable, Becomes
  <2>2. step'[p] = to /\ step' = [step EXCEPT ![p] = step'[p]] /\ step' \in [Processes -> Steps]
    BY <2>1 DEF SchemaInv, SchemaTypeOK, Steps
  <2>3. schema' = schema \cup Statement(t) /\ Upgraded'
    <3>1. CASE t = "review_task"
      BY <1>2, <2>1, <3>1, UpgradeFacts DEF Upgraded
    <3>2. CASE t # "review_task"
      BY <1>2, <2>1, <3>2 DEF Upgraded, Statement
    <3> QED BY <3>1, <3>2
  <2>4. Statement(t) \subseteq Tables \cup Additions
    BY DEF Statement, Tables
  <2>5. Progress(p)'
    BY <1>1, <1>2, <1>3, <2>2, <2>3 DEF Progress, Versions, Creates
  <2>6. SchemaTypeOK'
    BY <1>1, <2>2, <2>3, <2>4 DEF SchemaInv, SchemaTypeOK
  <2> QED BY <1>1, <2>2, <2>3, <2>5, <2>6, SchemaKeeps DEF SchemaInv
<1>4. CASE step[p] = "second"
  <2>1. CreateTable(p, "review_result", "record")
    BY <1>2, <1>4, ScriptFacts DEF RunScript
  <2>2. "review_result" \in Tables /\ Creates(1) \subseteq schema \cup Statement("review_result")
    BY <1>2, <1>4, ScriptFacts DEF Tables, Statement
  <2> QED BY <1>2, <1>3, <1>4, <2>1, <2>2
<1>5. CASE step[p] = "script" /\ part[p] = 1
  <2>1. CreateTable(p, "review_task", "second")
    BY <1>5, ScriptFacts DEF RunScript
  <2> QED BY <1>3, <1>5, <2>1 DEF Tables
<1>6. CASE step[p] = "script" /\ part[p] # 1
  <2>1. part[p] = 2 \/ part[p] = 3 \/ part[p] = 4
    BY <1>2, <1>6
  <2>2. CreateTable(p, Script[part[p]][1], IF Len(Script[part[p]]) > 1 THEN "second" ELSE "record")
    BY <1>6 DEF RunScript
  <2>3. PICK t \in Tables \ {"review_task"} : Script[part[p]] = <<t>> /\ Creates(part[p]) = {t}
    BY <2>1, ScriptFacts DEF Tables
  <2>4. Script[part[p]][1] = t /\ Len(Script[part[p]]) = 1
    BY <2>3
  <2>5. CreateTable(p, t, "record")
    BY <2>2, <2>4
  <2> QED BY <1>3, <2>3, <2>5 DEF Statement
<1> QED BY <1>2, <1>4, <1>5, <1>6

\* Every step keeps the invariant.
LEMMA SchemaStep == SchemaInv /\ [SchemaNext]_schemaVars => SchemaInv'
<1> SUFFICES ASSUME SchemaInv, [SchemaNext]_schemaVars PROVE SchemaInv'
  OBVIOUS
<1>1. ASSUME NEW p \in Processes, Migrate(p) \/ Crash(p) PROVE SchemaInv'
  BY <1>1, StartKeeps, ReadKeeps, UpgradeKeeps, ScriptKeeps, RecordKeeps DEF Migrate
<1>2. CASE UNCHANGED schemaVars
  BY <1>2 DEF schemaVars, SchemaInv, SchemaTypeOK, Progress, Upgraded
<1> QED BY <1>1, <1>2 DEF SchemaNext

\* The values of the variables stay in their sets.
THEOREM SchemaTypes == SchemaSpec => []SchemaTypeOK
<1>1. SchemaInv => SchemaTypeOK
  BY DEF SchemaInv
<1> QED BY <1>1, SchemaStart, SchemaStep, PTL DEF SchemaSpec

\* Whichever processes migrate at once and wherever they die, who serves finds the
\* whole schema and a recorded version has its tables.
THEOREM SchemaServes == SchemaSpec => []ServingHasSchema
<1>1. SchemaInv => ServingHasSchema
  BY AllRecorded DEF SchemaInv, Progress, ServingHasSchema
<1> QED BY <1>1, SchemaStart, SchemaStep, PTL DEF SchemaSpec
=============================================================================
