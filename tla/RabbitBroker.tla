---------------------------- MODULE RabbitBroker ----------------------------
(***************************************************************************)
(* The connection management of the RabbitMQ client: one consumer loop,    *)
(* its handlers and the other parties (webhook, task API, scanner), which  *)
(* publish over the same connection, the locks all of them share,          *)
(* reconnection after a loss, and shutdown.  What the messages say is the  *)
(* subject of ReviewPipeline; here a message is a model value.             *)
(***************************************************************************)
EXTENDS Naturals, FiniteSets

CONSTANTS Messages,    \* messages of the main queue
          Outsiders,   \* parties that publish and are not handlers
          Prefetch,    \* unsettled deliveries the server allows per channel
          Workers,     \* slots of the worker pool
          MaxLosses    \* bound on lost channels and failed dials

ASSUME BrokerAssumption ==
  /\ Outsiders \cap (Messages \X Nat) = {}
  /\ Prefetch \in Nat \ {0} /\ Workers \in Nat \ {0} /\ MaxLosses \in Nat

VARIABLES
  malformed, \* messages whose body is not a task message; no step changes it
  gen,       \* number of the channels opened last
  live,      \* which of them are open
  unset,     \* the fields publisher and consumer are nil
  closed,    \* Close was called
  loop,      \* where the consumer loop stands
  seen,      \* the consumer channel it read
  sub,       \* the consumer channel it subscribed to
  ready,     \* messages in the queue
  unacked,   \* deliveries the server waits for
  at,        \* where the handler of each delivery, and each outsider, stands
  stopping,  \* the run context is cancelled
  losses     \* losses and failed dials so far

brokerVars == <<malformed, gen, live, unset, closed, loop, seen, sub, ready, unacked, at, stopping, losses>>
channels == <<malformed, gen, live, unset, closed>>

Generations == 1..(MaxLosses + 1)
Deliveries == Messages \X Generations
Publishers == Deliveries \cup Outsiders
Channels == {"publisher", "consumer"}
LoopSteps == {"top", "consume", "failed", "reopen", "wait", "receive", "closed", "drain", "returned"}
\* Steps that hold publishMu; in them, in "work" and in "publish" a handler holds a slot.
PublishSteps == {"sending", "reopen", "again", "repair", "confirm"}
HandlerSteps == {"none", "buffered", "slot", "work", "publish", "settle"} \cup PublishSteps

Running == {d \in Deliveries : at[d] \notin {"none", "buffered"}}
Working == {d \in Deliveries : at[d] \in {"work", "publish"} \cup PublishSteps}
Publishing == {p \in Publishers : at[p] \in PublishSteps}
\* publish holds mu for reading while it sends, and not while it waits or reconnects.
Readers == {p \in Publishers : at[p] = "sending"}

\* Mutant: who reconnects looks at the publisher's channel only.
PublisherHealthy == ~unset /\ "publisher" \in live
\* healthyLocked: both channels are open.
Healthy == ~unset /\ live = Channels
-----------------------------------------------------------------------------
\* The server takes back what was delivered on a consumer channel that closes.
TakeBack == /\ ready' = ready \cup {d[1] : d \in unacked}
            /\ unacked' = {}

CloseChannels == /\ live' = {}
                 /\ unset' = TRUE
                 /\ TakeBack

\* connectLocked closes what is left, then opens both channels or, on any error, none.
Connect(ok) ==
  /\ TakeBack
  /\ IF ok THEN /\ gen' = gen + 1 /\ live' = Channels /\ unset' = FALSE
                /\ UNCHANGED losses
           ELSE /\ losses < MaxLosses /\ losses' = losses + 1
                /\ live' = {} /\ unset' = TRUE
                /\ UNCHANGED gen

\* reconnect takes mu for writing: it waits for the readers, and nothing else.
Reconnect(ok) ==
  /\ Readers = {}
  /\ UNCHANGED <<malformed, closed>>
  /\ \/ /\ closed /\ ~ok
        /\ UNCHANGED <<gen, live, unset, ready, unacked, losses>>
     \/ /\ ~closed /\ Healthy /\ ok
        /\ UNCHANGED <<gen, live, unset, ready, unacked, losses>>
     \/ ~closed /\ ~Healthy /\ Connect(ok)
-----------------------------------------------------------------------------
Loop(from, to) == loop = from /\ loop' = to

ReadConsumer ==
  /\ \/ closed /\ Loop("top", "returned") /\ UNCHANGED seen
     \/ ~closed /\ unset /\ Loop("top", "reopen") /\ UNCHANGED seen
     \/ ~closed /\ ~unset /\ Loop("top", "consume") /\ seen' = gen
  /\ UNCHANGED <<channels, sub, ready, unacked, at, stopping, losses>>

Subscribe ==
  /\ \/ seen = gen /\ "consumer" \in live /\ Loop("consume", "receive") /\ sub' = gen
     \/ (seen # gen \/ "consumer" \notin live) /\ Loop("consume", "failed") /\ UNCHANGED sub
  /\ UNCHANGED <<channels, seen, ready, unacked, at, stopping, losses>>

ReconnectConsumer ==
  /\ \E ok \in BOOLEAN :
       /\ Reconnect(ok)
       /\ \/ Loop("reopen", IF ok THEN "top" ELSE "wait")
          \/ Loop("failed", "wait")
  /\ UNCHANGED <<seen, sub, at, stopping>>

WaitRetry ==
  /\ \/ stopping /\ Loop("wait", "returned")
     \/ Loop("wait", "top")
  /\ UNCHANGED <<channels, seen, sub, ready, unacked, at, stopping, losses>>

\* A delivery starts a handler, which refuses a body it cannot decode.
Receive(d) ==
  /\ loop = "receive" /\ at[d] = "buffered" /\ d[2] = sub
  /\ at' = [at EXCEPT ![d] = IF d[1] \in malformed THEN "settle" ELSE "slot"]
  /\ UNCHANGED <<channels, loop, seen, sub, ready, unacked, stopping, losses>>

\* The client drops what it buffered for a channel that closed.
SeeClosed ==
  /\ Loop("receive", "closed")
  /\ sub # gen \/ "consumer" \notin live
  /\ at' = [p \in Publishers |-> IF at[p] = "buffered" THEN "none" ELSE at[p]]
  /\ UNCHANGED <<channels, seen, sub, ready, unacked, stopping, losses>>

\* Mutant: Consume returns at the signal without inflight.Wait.
SeeStopAndReturn ==
  /\ stopping /\ Loop("receive", "returned")
  /\ UNCHANGED <<channels, seen, sub, ready, unacked, at, stopping, losses>>

SeeStop ==
  /\ stopping /\ Loop("receive", "drain")
  /\ UNCHANGED <<channels, seen, sub, ready, unacked, at, stopping, losses>>

\* Mutant: the loop reconnects without waiting for its handlers.
ReopenAtOnce ==
  /\ \/ Loop("closed", "reopen")
     \/ Running = {} /\ Loop("drain", "returned")
  /\ UNCHANGED <<channels, seen, sub, ready, unacked, at, stopping, losses>>

\* inflight.Wait, before the loop reconnects and before it returns.
WaitInflight ==
  /\ Running = {}
  /\ Loop("closed", "reopen") \/ Loop("drain", "returned")
  /\ UNCHANGED <<channels, seen, sub, ready, unacked, at, stopping, losses>>
-----------------------------------------------------------------------------
Step(p, from, to) == at[p] = from /\ at' = [at EXCEPT ![p] = to]

TakeSlot(d) ==
  /\ \/ Cardinality(Working) < Workers /\ Step(d, "slot", "work")
     \/ stopping /\ Step(d, "slot", "settle")
  /\ UNCHANGED <<channels, loop, seen, sub, ready, unacked, stopping, losses>>

\* process ends, or publishes a retry or a dead letter before it ends.
Process(d) ==
  /\ Step(d, "work", "settle") \/ Step(d, "work", "publish")
  /\ UNCHANGED <<channels, loop, seen, sub, ready, unacked, stopping, losses>>

\* The webhook, the task API or the scanner publishes a task.
Request(o) ==
  /\ Step(o, "none", "publish")
  /\ UNCHANGED <<channels, loop, seen, sub, ready, unacked, stopping, losses>>

\* Where publish returns to: a handler settles its delivery.
Caller(p) == IF p \in Outsiders THEN "none" ELSE "settle"

LockPublish(p) ==
  /\ Publishing = {}
  /\ \/ closed /\ Step(p, "publish", Caller(p))
     \/ ~closed /\ unset /\ Step(p, "publish", "reopen")
     \/ ~closed /\ ~unset /\ Step(p, "publish", "sending")
  /\ UNCHANGED <<channels, loop, seen, sub, ready, unacked, stopping, losses>>

Send(p) ==
  /\ \/ "publisher" \in live /\ Step(p, "sending", "confirm")
     \/ "publisher" \notin live /\ Step(p, "sending", "repair")
  /\ UNCHANGED <<channels, loop, seen, sub, ready, unacked, stopping, losses>>

\* Mutant: publish reconnects until it succeeds, holding publishMu.
ReconnectUntilDone(p) ==
  /\ \E ok \in BOOLEAN :
       /\ Reconnect(ok)
       /\ \/ Step(p, "reopen", IF ok THEN "again" ELSE "reopen")
          \/ Step(p, "repair", Caller(p))
  /\ UNCHANGED <<loop, seen, sub, stopping>>

\* Nothing was sent: try once more with the new publisher.  After an error: only repair.
ReconnectPublisher(p) ==
  /\ \E ok \in BOOLEAN :
       /\ Reconnect(ok)
       /\ \/ Step(p, "reopen", IF ok THEN "again" ELSE Caller(p))
          \/ Step(p, "repair", Caller(p))
  /\ UNCHANGED <<loop, seen, sub, stopping>>

ReadPublisher(p) ==
  /\ Step(p, "again", IF unset THEN Caller(p) ELSE "sending")
  /\ UNCHANGED <<channels, loop, seen, sub, ready, unacked, stopping, losses>>

\* Confirmed, refused, lost with the channel, or out of time: the wait ends.
Confirm(p) ==
  /\ Step(p, "confirm", Caller(p))
  /\ UNCHANGED <<channels, loop, seen, sub, ready, unacked, stopping, losses>>

\* Ack, discard or requeue; without effect on a channel that has closed.
Settle(d) ==
  /\ Step(d, "settle", "none")
  /\ unacked' = unacked \ {d}
  /\ \/ UNCHANGED ready
     \/ d \in unacked /\ d[1] \notin malformed /\ ready' = ready \cup {d[1]}
  /\ UNCHANGED <<channels, loop, seen, sub, stopping, losses>>
-----------------------------------------------------------------------------
\* The server delivers up to Prefetch messages on a subscribed channel.
Deliver(m) ==
  /\ m \in ready /\ loop = "receive" /\ sub = gen /\ "consumer" \in live
  /\ Cardinality(unacked) < Prefetch
  /\ ready' = ready \ {m}
  /\ unacked' = unacked \cup {<<m, gen>>}
  /\ at' = [at EXCEPT ![<<m, gen>>] = "buffered"]
  /\ UNCHANGED <<channels, loop, seen, sub, stopping, losses>>

\* The publisher, the consumer or the whole connection is lost.
Lose ==
  /\ losses < MaxLosses /\ losses' = losses + 1
  /\ \E lost \in SUBSET live \ {{}} :
       /\ live' = live \ lost
       /\ IF "consumer" \in lost THEN TakeBack ELSE UNCHANGED <<ready, unacked>>
  /\ UNCHANGED <<malformed, gen, unset, closed, loop, seen, sub, at, stopping>>

\* The signal: main cancels the run context and shuts the HTTP server down.
Stop ==
  /\ ~stopping /\ stopping' = TRUE
  /\ UNCHANGED <<channels, loop, seen, sub, ready, unacked, at, losses>>

\* main closes the broker when the worker has returned or 30 seconds have passed.
CloseBroker ==
  /\ stopping /\ ~closed /\ Readers = {}
  /\ closed' = TRUE
  /\ CloseChannels
  /\ UNCHANGED <<malformed, gen, loop, seen, sub, at, stopping, losses>>
-----------------------------------------------------------------------------
BrokerInit ==
  /\ malformed \in SUBSET Messages
  /\ gen = 1 /\ live = Channels /\ unset = FALSE /\ closed = FALSE
  /\ loop = "top" /\ seen = 0 /\ sub = 0
  /\ ready = Messages /\ unacked = {}
  /\ at = [p \in Publishers |-> "none"]
  /\ stopping = FALSE /\ losses = 0

Consume == ReadConsumer \/ Subscribe \/ ReconnectConsumer \/ WaitRetry \/ SeeClosed \/ SeeStop \/ WaitInflight

Publish(p) == LockPublish(p) \/ Send(p) \/ ReconnectPublisher(p) \/ ReadPublisher(p) \/ Confirm(p)

Handle(d) == TakeSlot(d) \/ Process(d) \/ Publish(d) \/ Settle(d)

BrokerNext == \/ Consume
              \/ \E d \in Deliveries : Receive(d) \/ Handle(d)
              \/ \E o \in Outsiders : Request(o) \/ Publish(o)
              \/ \E m \in Messages : Deliver(m)
              \/ Lose \/ Stop \/ CloseBroker

\* Every goroutine runs on; Go's mutexes and channels let no waiter starve.
BrokerFairness ==
  /\ SF_brokerVars(Consume)
  /\ \A d \in Deliveries : SF_brokerVars(Handle(d)) /\ WF_brokerVars(Receive(d))
  /\ \A o \in Outsiders : SF_brokerVars(Publish(o))

BrokerSpec == BrokerInit /\ [][BrokerNext]_brokerVars /\ BrokerFairness
-----------------------------------------------------------------------------
BrokerTypeOK ==
  /\ malformed \in SUBSET Messages
  /\ gen \in Generations /\ live \in SUBSET Channels /\ unset \in BOOLEAN /\ closed \in BOOLEAN
  /\ loop \in LoopSteps /\ seen \in 0..gen /\ sub \in 0..gen
  /\ ready \in SUBSET Messages /\ unacked \in SUBSET Deliveries
  /\ at \in [Publishers -> HandlerSteps]
  /\ stopping \in BOOLEAN /\ losses \in 0..MaxLosses

\* A message has one handler at a time and no more than Prefetch handlers run,
\* although a lost channel makes the server deliver again what they work on and
\* some publish, a handler's or an outsider's, may already have opened the next
\* channel.  One party at a time is between taking publishMu and releasing it.
HandlersBounded ==
  /\ \A d, e \in Running : d[1] = e[1] => d = e
  /\ Cardinality(Running) <= Prefetch
  /\ Cardinality(Publishing) <= 1

\* Consume returns, on whichever path, only when no handler runs any more.
ReturnsWhenIdle == loop = "returned" => Running = {}

\* After any loss the loop gets back to a subscription on an open channel, until the
\* shutdown: handlers that wait for a slot, for publishMu held by a handler or by an
\* outsider, or for mu never block its inflight.Wait for good.
ConsumptionResumes == []<>(stopping \/ (loop = "receive" /\ sub = gen /\ "consumer" \in live))

\* Whoever publishes gets an answer, through losses and after the shutdown too: neither
\* the webhook nor the task API nor the scanner waits for ever behind a handler that
\* reconnects, or behind the consumer loop that waits for its handlers.
RequestsEnd == \A o \in Outsiders : []<>(at[o] = "none")
=============================================================================
