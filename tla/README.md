# eventbus: a TLA+ model

This directory holds a TLA+ model of `github.com/kcersing/eventbus`, an in-memory
event bus for Go with a consumer pool, a two-way RabbitMQ bridge and a manager that
starts and stops them. The modules are translated from the Go source; TLC checks
them on small instances, and TLAPS proves their safety for every instance.

    tlc -config bus_live.cfg MCEventBus.tla
    tlapm EventBusProofs.tla

## 1. Inventory

| component | state | operations | hard behaviour |
|---|---|---|---|
| **Event bus** (`bus.go`, `delivery.go`) | tables `subscribers` and `wildcardSubs` under `mu`; `activeSubs` under `subsMu`; per subscription a channel, a ctx, workers, a watcher and a `once` | `Subscribe`, `SubscribeAsync`, `RemoveChannel`, `Unsubscribe`, `Publish`, `PublishReport`, `Close`, `Use` | dispatch sends without the lock to channels that are being removed and closed; Unsubscribe is called by the owner, the watcher, Close and handlers at once |
| **Consumer pool** (`ext/pool`) | forwarder, queue, workers, a stop ctx below the parent ctx, two `once`s | `SubscribeWithPool`, `consume`, `process`, `stop`, `teardown`, `Unsubscribe` | three ways to stop meet in one teardown while workers are in handlers and backoffs |
| **AMQP publisher** (`ext/amqp/publisher.go`) | `mqQueue`, semaphore, `WaitGroup`, `closed` under an RWMutex, `closeOnce` | `Local`, `Distributed`, `MQOnly`, `Close` | enqueue against the close of the queue; a slow broker |
| **AMQP listener** (`ext/amqp/publisher.go`) | ctx, `done` | `Start`, `handle`, `Stop` | acknowledges after the receipts are recorded; redelivery |
| **AMQP reliable consumer** (`ext/amqp/consumer.go`) | `started`, ctx, `done`, the delivery in hand | `Start`, `handle`, `Stop` | one settlement per delivery on every path; crashes, broken connections, competing consumers |
| **AMQP client** (`ext/amqp/amqpclt`) | an AMQP channel in confirm mode; forwarding goroutines; dead-letter declarations | `Publish`, `PublishBatch`, `PublishAsync`, `SubscribeManual`, `Subscribe`, `DeclareDLX`, `ConsumeDLX` | confirms that never come, retries that could duplicate, result channels nobody drains, cleanup on error paths |
| **Middleware chain** (`bus.go`, `middleware.go`) | `middlewares` under `mu`, the built chain in an `atomic.Value` | `Use` | `Use` racing `Publish` |
| **Wildcard matching** (`wildcard.go`) | none | `isWildcardPattern`, `matchSegments` | malformed patterns |
| **Manager, registry** (`manager`) | configurations and subscriptions under a mutex | `Register`, `StartAll`, `Start`, `Shutdown` | order of shutdown; a failing start; a mutex held while waiting |
| errors, retry decisions, event ids, `WrapTyped`, logging | none | pure functions, I/O | none |

How they interact. A publisher calls `dispatch`, which copies its targets under the
read lock of the bus and sends to their channels without it. A pool is a raw
subscription of the bus plus goroutines, and leaves the tables through
`RemoveChannel`. The AMQP publisher gives the event to its queue or to a fallback
goroutine, which call the client's `Publish`, and then calls `bus.Publish`. The
listener publishes what it receives from a manual subscription on the bus; the
consumer gives it to one handler. The manager starts the listener and the pools, and
stops listener, pools, publisher and bus in that order.

What makes each correct: the bus tells the truth in its receipts, never sends to a
channel that has left the tables except from an older snapshot, and releases
everything on Close; the pool never loses, duplicates or over-retries an event it
took, and stops completely; the publisher never panics, never blocks, never sends
twice and drains on Close; the consumer and the listener settle each delivery once
and for the right reason; the client reports as published only what is stored, and
stores nothing twice; a shutdown closes nothing under those who still use it.

## 2. Modules

| module | stands for |
|---|---|
| `EventBus`, `Wildcard`, `MCEventBus` | the bus; the matching of its topics; constants for TLC |
| `PubSub` | abstract: what the bus promises publishers and subscribers |
| `Pool`, `MCPool` | one `SubscribeWithPool` |
| `MQPublisher`, `MCMQPublisher` | a `Publisher` with a broker |
| `AmqpPublish`, `MCAmqpPublish` | the client's `Publish`, `PublishBatch`, `PublishAsync` and the broker's confirms |
| `WorkQueue` | abstract: what the receiving side promises |
| `ManualSubscription` | the broker's queue, the AMQP channels, `SubscribeManual`, `Ack` and `Nack` |
| `ReceiveLoop` | what `Consumer` and `Listener` share; extends `ManualSubscription` |
| `MQConsumer`, `MCMQConsumer` | `Consumer`s on a `ReceiveLoop` |
| `MQListener`, `MCMQListener` | `Listener`s and readers of `Subscribe` on a `ReceiveLoop` |
| `DeadLetters`, `MCDeadLetters` | `DeclareDLX` and `ConsumeDLX` beside an `MQConsumer` |
| `Manager`, `MCManager` | the registry and the manager over the promises of the other modules |
| `EventBusProofs`, `PoolProofs`, `MQPublisherProofs`, `AmqpPublishProofs`, `ReceiveLoopProofs`, `MQConsumerProofs`, `MQListenerProofs`, `ManagerProofs` | theorems and their proofs |

A step is what the Go code does atomically with respect to the rest of the model: a
critical section, one channel operation, one `select`, the return of a call. Where
a `select` has several ready cases every one of them is a behaviour, and `default`
is taken only when none is ready. Handlers, backoffs and broker calls are states a
goroutine stays in for any time. Definitions named `Bug...` are faulty variants of
the action that follows them; they document what each property is sensitive to and
no specification uses them. The map from definitions to source lines is in
`PROJECT.json`.

### EventBus

| variable | code |
|---|---|
| `registry`, `wildcardOrder` | `eb.subscribers` and the `subs` of each `wildcardEntry`; the order of `eb.wildcardSubs` |
| `activeSubs` | `eb.activeSubs` |
| `chan`, `closed` | the buffer of each `EventChan` and whether it is closed |
| `stage`, `subTopic` | how far the `Subscribe`/`SubscribeAsync` call is, and its topic |
| `ctxDone` | the parent ctx; the child `subCtx` is `SubDone` |
| `watch`, `worker`, `unsub` | the watcher goroutine, the consumer goroutines, the body of `once.Do` in `Unsubscribe` |
| `pub`, `published` | each publisher's dispatch: its targets left, receipts written |
| `closer` | each `Close`: the snapshot of `activeSubs` still to unsubscribe |
| `taken`, `owed` | history: what left each channel; what was complete when a Close began |

- A subscription is used once; `RawSubs` and `AsyncSubs` are the calls of
  `Subscribe` and `SubscribeAsync` that may happen.
- `Targets` is dispatch's copy, exact subscriptions first; a map entry that is
  absent and one that is empty are both `<<>>` (`removeChannel` leaves the latter).
- Cancelling a parent ctx closes its own `Done` channel before its child's, so a
  watcher *parked* in its select is woken by `ctx.Done`. A watcher that reaches the
  select afterwards finds both ready.
- The second caller of `Unsubscribe` blocks in `once.Do` until the first has
  finished: the watcher (`WatchReturn`), Close (`CloseNext`) and a handler
  (`HandlerReturn` from `"unsubscribing"`) wait for `"done"`.
- `sendSafe`'s recovered panic and its default branch both are `~CanSend`.
- `Matches` is the relation `matchSegments` computes. `Wildcard` translates it for
  parsed patterns (`path.Match` is external); `MCEventBus` builds `Matches` from it
  and asserts what it says of stars, segment counts and malformed patterns.

`PubSub` is the abstract specification: subscriptions with a mailbox and events that
are due to some of them. `Join`, `Leave`, `Shut` and `ShutDown` are what the tables
and channels go through, `Announce` fixes in one step who an event is due to, and
each `Offer` fills a mailbox or is refused. `ImplementsPubSub` maps `subTopic`,
`Registered`, `closed`, `chan`, and for `due` what the snapshots of the Publish calls
under way have left. A subscription that is dispatched to without being in the
tables, is missed, is offered an event twice, or whose channel is closed while it can
still be matched, is a step no abstract action allows.

### Pool

Starts when the workers run and `SubscribeWithPool` is about to register its
channel. `fwd` is that call and then the forwarder with the teardown it defers,
`Target`/`Send`/`BusClose` are the two halves of dispatch and Close as the pool sees
them, `worker` runs `worker()` and `process()`. The classifier's answer is
nondeterministic; a timeout is a failure. `Unsubscribe` waits for the forwarder,
whose teardown is then complete, so its own is a no-op. FailHandler,
DeadLetterFunc and classifier return; a handler may panic. The properties need no
more of the bus than that it copies, sends without the lock and closes what it has.
The pool's `ImplementsPubSub` shows that this is what the bus promises: with the pool
as the one subscription, `Target`, `Send` and `BusClose` are steps of `PubSub`, and so
is the pool's own side, above all a teardown that closes the channel after it has
left the tables.

### MQPublisher

`ReadLock`..`TryFallback` is `enqueue`, `Close`..`CloseWait` the body of
`closeOnce.Do`, `CloseOnce` a caller that waited for it. The RWMutex is the sets
`Readers` and `WriterPresent` (a waiting writer keeps new readers out, as Go's
does). The start of a send is one step with what causes it, its end another. A nil
payload ends the process in `StartSend`, because `amqpclt.Publish` takes its
reflect type. What `amqpclt.Publish` does is `AmqpPublish`.

### AmqpPublish

Callers share one AMQP channel. A call goes through messages `1..Size`; `Publish` is
a batch of one. `call` is `publishWithRetry` and the loop around it: `publishing`,
`waiting` for the confirm, `backoff`; an asynchronous call then is `confirmed`,
`failed` or `cancelled` until it has written its result. `wire` is the last
publishing of each message and `copies` what the broker has stored, also after the
caller gave up waiting. `confirmTimeout` says whether `WithPublishTimeout` was given:
it is FALSE or TRUE at first and stays so. Two facts of the broker and the AMQP library are assumed, and
`StoredOnce` rests on both: a nack of the broker means that the message was not
stored, and a closed channel, which answers all open confirms with nacks whether
they were stored or not, is never opened again, so that the retry it provokes
fails.

### ManualSubscription, ReceiveLoop, MQConsumer, MQListener

The broker is external: it pushes up to the prefetch, makes what a closed channel
held ready again, and closes a channel that settles what it does not hold. The
order of ready messages is not modelled. The forwarding goroutine decodes, and
rejects what does not decode. `ReceiveLoop` is `Start`, the goroutine that receives,
its deferred cleanup, and `Stop`; each receiver is a process with one subscription,
which may crash at any step. A crashed or stopped receiver does not come back: the
others of the queue are its restart.

`MQConsumer` adds `handle` with its retries, the classifier's answers, the
AfterCommit hooks and the settlement of each outcome. `MQListener` adds the
listener's `handle`, with and without a recorder, and the reader that `Subscribe`
starts; `kind` says which a receiver is. A hook, classifier or recorder that panics
ends the process: it is a `Crash`.

A Consumer may be started twice (the second call returns an error and changes
nothing). A Listener is started once and stopped after it was started: its code has
no protection against anything else, and the manager calls it so.

`WorkQueue` is the abstract specification. A message has one place: waiting, with
a worker, acknowledged or dead. Only who has it may settle it, it may be
acknowledged only when its work was finished, and given up only when it was refused.
`ImplementsWorkQueue` maps the broker's sets to `place` (`Place` in
`ManualSubscription`), so that a message acknowledged before its handler succeeded
or before its receipts were recorded, settled by a receiver whose channel had closed,
or lost when a channel closes, is a step no abstract action allows.

### DeadLetters

`SubscribeRaw` declares the dead-letter exchange; the queue behind it exists from
`DeclareDLX` or `ConsumeDLX` on. The name given to `WithDeadLetterExchange` is taken
to be the one `DLXNames` derives (exchange + ".dlx"), the only one `DeclareDLX` ever
declares a queue for. Each declaration may fail and leaves behind the
durable ones before it. What the consumer rejects goes where the exchange leads at
that moment.

### Manager

Composes the components by what their own modules show: `Listener.Stop` waits
(`StopReturns`), a pool's `Unsubscribe` waits for its handlers (`StopReleases`,
`QuietAfterUnsubscribe`), the publisher's `Close` waits for its sends and holds up
every other Close (`CloseDrains`), a second Close of the bus does not wait. `mu` is
the registry's mutex, `start` and `down` are the calls of `Start`/`StartAll` and
`Shutdown`, of which there may be several at once; a Start may fail half-way, a
handler may call `Register`. The program starts before it shuts down: no Shutdown
begins while a Start runs and no Start follows a Shutdown. All four components are
present. The handlers of the model are those of the registry's pools. The manager
does not know what the program subscribes itself: a handler of `bus.SubscribeAsync`
runs on while the publisher is closed, until the bus is.

## 3. Runs

| run | instance (distinct states) | shows |
|---|---|---|
| `bus_dispatch` | 3 raw subscriptions on a topic and a pattern, 2 publishers, 2 events, 1 Close (2 487 520, up to symmetry) | a dispatch writes one receipt per subscriber and event (`ReceiptOnce`), "delivered" exactly when the channel got it (`ReceiptHonest`), and nobody gets an event twice (`DeliveredAtMostOnce`), while channels are added, removed and closed; refinement of `PubSub` (`ImplementsPubSub`) |
| `bus_live` | 1 async subscription, 1 publisher, 3 events, 2 Closes (167 666) | `TypeOK`; no closed channel in the tables (`RegistryOpen`); no worker after `wg.Wait` (`NoWorkerAfterWait`); Close releases what it began with (`CloseReleases`); Unsubscribe, watcher, Close and Publish come to an end, and queued events are handled |
| `bus_doc_cancel`, `bus_doc_tracked` | 1 async subscription; stop at the first counterexample | violated: `CancelCleansUp`, `NoDeadSubscriptionTracked` (see below) |
| `pool` | 2 workers, 1 publisher, 3 events, 1 retry (228 777) | an event the pool took is in one place (`OnePlace`) and never vanishes from all of them (`NeverLost`); `AttemptsBounded`; after `Unsubscribe` nothing happens (`QuietAfterUnsubscribe`); the pool is a subscription of `PubSub` (`ImplementsPubSub`); every way to stop releases everything; what is queued is settled |
| `publisher` | 2 callers, 2 Closes, 4 events (227 461) | no send on a closed queue (`NoPanic`); `SentOnce`; after Close every queued event was sent (`CloseDrains`); calls return although the broker does not, Close when it does |
| `publisher_doc_nil` | 1 caller, a nil payload; stops at the first counterexample | violated: `AnyPayload` |
| `consumer` | 2 consumers, 2 messages, one undecodable, prefetch 2, 1 retry (184 449) | `SettledOnce`; a stopped consumer gives its messages back (`StopGivesBack`); what was handled on an open channel is acknowledged (`CommittedIsAcked`); refinement of `WorkQueue`; `Stop` returns; every message ends while a consumer runs |
| `listener` | 2 receivers out of recording and plain listener and reader, in pairs, 2 messages, one undecodable, prefetch 1 (91 485) | the same for `Listener` and `Subscribe`: refinement of `WorkQueue`, `StopReturns`, `EveryMessageDelivered` |
| `client` | an asynchronous and a batch call of 2 messages each, 1 retry, with a publish timeout and without, result channel of 1 (649 256) | a published message is stored (`SuccessIsStored`), none twice (`StoredOnce`), a message nothing was said of was not sent (`SilentIsUnsent`), calls end |
| `manager` | 2 configurations, a `Start` and a `StartAll`, 2 Shutdowns (12 243) | each part is closed after those that use it (`ShutdownOrder`); `StartedOnce`; `ShutdownReturns` |
| `dead_letters_doc` | 1 consumer, 1 message; stops at the first counterexample | violated: `RejectedIsParked` |

Bounds. Channel, queue, result-channel and semaphore capacities are 1, so full and
empty are next to each other; a larger one adds states in between but no new guard.
Two publishers are needed for a channel that fills between a snapshot and its send,
two Closes for the second that finds nothing, two receivers for a message that moves
from one to the other, two configurations for a pool that is stopped while another
runs. Three events let one be in a handler, one in the channel and one refused. One
retry reaches the first attempt, a retry and exhaustion. Prefetch 2 in `consumer`
lets a receiver hold what it has not looked at yet; `listener` uses 1, because its
receivers differ in kind instead. `MaxEvents` bounds the calls of publish; nothing
else is cut off. The pattern matters for the order of the targets and for
`wildcardSubs`, which `bus_dispatch` exercises; the other bus runs use one exact
topic. `bus_live` has one subscription and a Close with its competitors; that
subscriptions do not disturb each other is part of what is proved. Deadlock is not
checked: every one of these systems may legitimately come to rest. Symmetry is used
in `bus_dispatch` only, which checks invariants and a refinement whose abstract
specification has no liveness and treats the permuted subscriptions alike.

### Fairness

Weak fairness for every goroutine the code has started, for the steps it takes by
itself: Go's scheduler runs every runnable goroutine. API calls, cancellations,
crashes and broken connections are never owed.

- `EventBus`, `Pool`, `MQConsumer`, `MQListener`: handlers and backoffs end.
- `MQPublisher`: the broker owes nothing to `PublishReturns`; that it answers
  (`BrokerAnswers`) is a hypothesis of `CloseReturns`.
- `AmqpPublish`: the broker owes no answer; `CallEnds` is about calls with a timeout
  or, with or without one, a cancelled ctx, whose results are read.
- `ReceiveLoop`: strong fairness for the loop's exit. With its ctx done the select
  may find a delivery ready as well, and Go picks among ready cases at random, so it
  does not pass `ctx.Done` over for ever. `EveryMessageEnds` and
  `EveryMessageDelivered` suppose that some receiver runs on from some time, and the
  latter that bus and recorder accept a message offered to them again and again.
- `Manager`: handlers return unless they wait for the registry's mutex.

A handler that calls `Unsubscribe` on its own subscription waits for itself. The
liveness properties of the bus name this as the only exception
(`SelfUnsubscribe`); the pool documents the restriction, the bus does not. In the
same way `ShutdownReturns` excepts a handler that calls `Register`, which waits for
the mutex the Shutdown holds while it waits for the handler.

### What the code does not do

- `bus_doc_cancel`: `bus.go:122` promises that cancelling the parent ctx cleans up.
  If ctx is cancelled before the watcher is parked, its select may take
  `subCtx.Done`: the workers exit, but the channel stays in the tables and the
  subscription in `activeSubs` until Close.
- `bus_doc_tracked`: if the watcher's Unsubscribe finishes before `trackSub`, the
  finished subscription is tracked afterwards and stays in `activeSubs`.
- `publisher_doc_nil`: `event.go:14` allows any payload; a nil one panics in
  `amqpclt/publish.go:72`, on a goroutine without `recover`.
- `dead_letters_doc`: `subscribe.go:59` says that `WithDeadLetterExchange` enables
  the dead-letter queue. It only declares the exchange: what is rejected before
  somebody calls `DeclareDLX` or `ConsumeDLX` is dropped by the broker.

`amqpclt/README.md:20` says that `PublishAsync` returns the result of each message
through the channel. When its ctx is done the code writes one result, closes the
channel and leaves the messages after it without one (`publish.go:203`). No run is
spent on it, because `SilentIsUnsent` allows for it and says what a reader may still
conclude: what got no result was not sent.

A second Close of the bus that overlaps the first returns before the subscriptions
are cancelled. `CloseReleases` is therefore about the moment when no Close is
running.

## 4. Proofs

The theorems hold for any sets and bounds that satisfy the assumptions on the
constants (`ConstantsOK`, `PoolConstantsOK`, `PublisherConstantsOK`,
`PublishConstantsOK`, `SubscriptionConstantsOK`, `RetriesOK`, `FleetsOK`,
`ManagerConstantsOK`); those say
little more than that capacities and counts are numbers, that names do not clash,
and that the workers of a pool, which its code counts, are finitely many.
`PublishNeverPanics` supposes in addition that no payload is nil.

| module | theorem | property |
|---|---|---|
| `EventBusProofs` | `TypeCorrect` | `TypeOK` |
| | `RegistryStaysOpen` | `RegistryOpen` |
| | `WorkersGoneAfterWait` | `NoWorkerAfterWait` |
| | `CloseReleasesAll` | `CloseReleases` |
| | `EventsDeliveredOnce` | `DeliveredAtMostOnce` |
| | `ReceiptsAreHonest` | `ReceiptHonest` |
| | `ReceiptsAreComplete` | `ReceiptOnce` |
| | `BusImplementsPubSub` | `ImplementsPubSub` |
| `PoolProofs` | `EventsAreInOnePlace` | `OnePlace` |
| | `RetriesAreBounded` | `AttemptsBounded` |
| | `EventsAreNeverLost` | `NeverLost` |
| | `UnsubscribedIsQuiet` | `QuietAfterUnsubscribe` |
| | `PoolImplementsPubSub` | `ImplementsPubSub` |
| `MQPublisherProofs` | `PublishNeverPanics` | `NoPanic` |
| | `EventsAreSentOnce` | `SentOnce` |
| | `CloseDrainsTheQueue` | `CloseDrains` |
| `AmqpPublishProofs` | `PublishedIsStored` | `SuccessIsStored` |
| | `RetriesStoreOnce` | `StoredOnce` |
| | `SilenceIsUnsent` | `SilentIsUnsent` |
| `MQConsumerProofs` | `ConsumersSettleOnce` | `SettledOnce` |
| | `ConsumersSettleForCause` | `SettledForCause` |
| | `HandlersHoldTheirMessage` | `InHandIsHeld` |
| | `StoppedConsumersGiveBack` | `StopGivesBack` |
| | `HandledIsAcknowledged` | `CommittedIsAcked` |
| | `ConsumersImplementWorkQueue` | `ImplementsWorkQueue` |
| `MQListenerProofs` | `ListenersSettleOnce` | `SettledOnce` |
| | `ListenersSettleForCause` | `SettledForCause` |
| | `ListenersImplementWorkQueue` | `ImplementsWorkQueue` |
| `ManagerProofs` | `ShutdownKeepsOrder` | `ShutdownOrder` |
| | `PoolsStartOnce` | `StartedOnce` |

`InHandIsHeld` is about receivers whose connection holds. Once it has broken the old
handler runs on, and another consumer may handle the same message beside it: the
code gives no protection against that, so handlers have to be idempotent.

Few of these properties are inductive. The strengthenings, all of which TLC has
checked on the instances above:

- **Bus, `IInv`.** Each table entry and `wildcardOrder` are free of repetition and a
  subscription is filed under its own topic (`Tables`), without which removing the
  first occurrence would not remove the channel; what each stage of a subscribe call
  excludes (`Stages`), so that a channel is not closed before it is registered; what
  the body of `Unsubscribe` has achieved (`Progress`); that every complete
  subscription is in `activeSubs`, in the snapshot of a running Close, or finished
  (`Tracked`), which is what makes an overlapping Close safe; and that what a Close
  began with does not come back to `activeSubs` (`OwedOut`). One lemma per conjunct,
  with one case per action that can disturb it.
- **Bus, `DInv`**, on top of it, about dispatch: events of running Publish calls
  differ and nobody was given a later one (`Numbered`); what is left of a snapshot
  names nobody twice, nobody who was given the event and nobody who has a receipt
  (`Outstanding`). That a snapshot starts so is `TargetsOnce`, from `Tables`.
- **Bus, `RInv`**, on top of both, about completeness: a pattern with subscriptions
  has an entry that dispatch reads (`Indexed`), so that a snapshot misses nobody
  (`TargetsAreMatched`); the receipts written and the targets left of a reporting
  call are what matched, each once (`Tally`).
- **Bus, refinement.** With `Indexed` a snapshot is exactly the registered
  subscriptions that cover the topic, which is `Announce`; with `Outstanding` the
  events of running calls differ and a target is offered once, which is `Offer`. The
  remaining steps of subscribing, removing and closing change one of `Registered`,
  `closed` and `chan` as `Join`, `Leave`, `Shut`, `ShutDown` or `Take` does, or none.
- **Pool, `IInv`.** Who has an event is in the state to have one (`Hands`); an event
  about to be sent is nowhere yet and one publisher's only (`Unsent`), without which
  `Send` could put it into a second place; what a worker has was handled once more
  than it was retried, and nothing else was handled unless it is settled
  (`Attempts`); the forwarder waits for the workers and `Unsubscribe` for the
  forwarder (`Ends`). `Places` counts an event in two sequences, at the forwarder,
  among the workers and among the outcomes. One lemma for each of these says how the
  count changes with one step of it; `PlacesStep` adds them up for every action. The
  refinement adds where in the forwarder's life the channel is in the tables
  (`Listed`).
- **Publisher.** Read lock and Close exclude each other, so that what a call saw of
  `closed` stays true in `enqueue` (`Locks`); the event of a pending call is its own
  and undecided (`Calls`); an event is in the queue exactly while it is queued and
  unsent (`Fated`); the worker leaves only a closed, empty queue (`Ends`).
- **Client.** The last publishing of a message tells whether it is stored (`Stored`),
  and the progress of a call tells what was published: later messages were not, the
  current one may be sent again only if it is not and will not be stored (`Told`).
- **Receivers, `Custody`.** A message is in one place at the broker (`Apart`); the
  goroutines are where their channel allows (`Linked`); on an open channel what is
  buffered, offered and in hand is held, each in one of these places
  (`OnItsWay`). From it every settlement is of a held message. Together with "what
  is past its handler is finished" every step is shown to be a step of `WorkQueue`
  or to leave it unchanged. `ReceiveLoopProofs` does this once for the steps of the
  loop and for any step that settles the delivery in hand; `MQConsumerProofs` and
  `MQListenerProofs` show that the steps of `handle` are such steps.
  `SettledForCause`, that a message is acknowledged only if it was finished and dead
  only if it was refused, is proved of `WorkQueue` (`QueueHasCause`) and holds of
  both through the refinement, as `SettledOnce` of the listeners does through
  `ReceiveLoopProofs`; no run checks these two separately.
- **Manager, `IInv`.** Phases of the program, who holds the mutex, which pools a
  registry knows, and what each program counter of a Shutdown has achieved.

`RemoveFirst` is defined with a least index, which no available prover can compute
with; `EventBusProofs` therefore states what it does for sequences without
repetition, which the invariant guarantees.

Every invariant and every action property of a passing run is a theorem.
Model-checked only are the liveness properties (fairness and `ENABLED` are outside
the provers used here) and what `MCEventBus` asserts of `Wildcard`, whose matching is
recursive; the proofs about the bus hold for any relation `Matches`.

## 5. What is not modelled

- The **middleware chain**: `Use` appends and rebuilds under the lock and a Publish
  loads the result once. What can go wrong there (a middleware that returns a
  handler of another concrete type, `bus.go:270`, or that calls `next` twice or from
  another goroutine, `delivery.go:58`) is in the program's own middlewares. The bus
  is modelled with an empty chain.
- The registry of **payload types** (`subscribe.go:167`): written before the program
  subscribes.
- A **DeadLetterFunc that panics** (`pool.go:108`): the recover calls it again and
  the process ends.
- The **outcome of a fallback send** whose caller cancels its ctx
  (`publisher.go:291`): nobody is told the outcome, and the code promises none.
- The AMQP channel that **leaks** when `SubscribeManual` fails (`publisher.go:77`)
  is a state of its own (`"leaked"`) without consequences for the messages.
- A `Publisher` without a broker, and `Local`, only call the bus.
- Pure data and I/O: error and retry classification (their answers are
  nondeterministic choices), event ids, JSON conversion in `WrapTyped` and the
  client, connection handling of the AMQP library, logging.

Worth doing next: `CloseReleases` of a single `Close` among overlapping ones as an
abstract specification of the life of a subscription, and an abstract specification
of the publisher that its broker side (`AmqpPublish`) could be composed with.
