------------------------------ MODULE EventBus ------------------------------
(***************************************************************************)
(* The in-memory event bus of bus.go: the subscription tables, dispatch    *)
(* with delivery receipts, SubscribeAsync with its worker and watcher      *)
(* goroutines, Unsubscribe, and Close.                                     *)
(*                                                                         *)
(* A step is what the Go code does atomically: a critical section of eb.mu *)
(* or eb.subsMu, one channel operation, one select, one return.  A handler *)
(* is a period of a worker ("handling"): its result, error or panic makes  *)
(* no difference to the bus, safeHandle swallows all three.                *)
(***************************************************************************)
EXTENDS Naturals, Sequences, FiniteSets, SequencesExt

CONSTANTS
    RawSubs,           \* one element per call of Subscribe
    AsyncSubs,         \* one element per call of SubscribeAsync
    Workers,           \* the goroutines of one SubscribeAsync (its concurrency)
    Publishers,        \* goroutines that call Publish or PublishReport
    Closers,           \* goroutines that call Close, once each
    ExactTopics,       \* topics events are published under
    WildcardPatterns,  \* topics for which isWildcardPattern is true
    Matches,           \* <<pattern, topic>> pairs for which matchSegments is true
    NoTopic,           \* the topic of a subscription that does not exist yet
    ChanCap,           \* capacity of a subscriber channel (64 in the code)
    MaxEvents          \* bound on the number of Publish calls

Subs == RawSubs \cup AsyncSubs
Topics == ExactTopics \cup WildcardPatterns
Events == 1..MaxEvents

ASSUME ConstantsOK ==
    /\ RawSubs \cap AsyncSubs = {}
    /\ ExactTopics \cap WildcardPatterns = {}
    /\ Matches \subseteq WildcardPatterns \X ExactTopics
    /\ NoTopic \notin Topics
    /\ ChanCap \in Nat \ {0}
    /\ MaxEvents \in Nat

VARIABLES
    registry,       \* eb.subscribers and the subs of each wildcardEntry, by topic
    wildcardOrder,  \* the patterns of eb.wildcardSubs, in slice order
    activeSubs,     \* eb.activeSubs
    chan,           \* the buffer of each subscriber channel
    closed,         \* has the channel been closed?
    subTopic,       \* the topic each subscription was made with
    stage,          \* how far the Subscribe/SubscribeAsync call has got
    ctxDone,        \* has the parent ctx been cancelled?
    watch,          \* the goroutine that waits for the parent ctx
    worker,         \* the consumer goroutines of an asynchronous subscription
    unsub,          \* progress of the body of Unsubscribe's once.Do
    pub,            \* the Publish call each publisher is in
    published,      \* number of Publish calls so far; the event's identity
    closer,         \* progress of Close
    taken,          \* history: the events received from each channel
    owed            \* history: subscriptions complete when each Close began

busVars   == <<registry, wildcardOrder>>
chanVars  == <<chan, closed, taken>>
callVars  == <<subTopic, stage, ctxDone>>
asyncVars == <<watch, worker, unsub>>
pubVars   == <<pub, published>>
closeVars == <<closer, owed>>
vars == <<busVars, activeSubs, chanVars, callVars, asyncVars, pubVars, closeVars>>

-----------------------------------------------------------------------------
\* Observers

Registered == UNION {ToSet(registry[t]) : t \in Topics}

\* The subscription's own context subCtx, a child of the parent ctx that the
\* first statement of Unsubscribe cancels.
SubDone(s) == ctxDone[s] \/ unsub[s] # "idle"

WorkersGone(s) == \A w \in Workers : worker[s][w] = "exited"

\* Does a subscription to topic sub receive events published under topic t?
Covers(sub, t) == sub = t \/ <<sub, t>> \in Matches

NoCall == [pc |-> "idle", event |-> 0, report |-> FALSE,
           batches |-> <<>>, receipts |-> <<>>, matched |-> {}]

Init ==
    /\ registry = [t \in Topics |-> <<>>]
    /\ wildcardOrder = <<>>
    /\ activeSubs = <<>>
    /\ chan = [s \in Subs |-> <<>>]
    /\ closed = [s \in Subs |-> FALSE]
    /\ subTopic = [s \in Subs |-> NoTopic]
    /\ stage = [s \in Subs |-> "free"]
    /\ ctxDone = [s \in Subs |-> FALSE]
    /\ watch = [s \in Subs |-> "none"]
    /\ worker = [s \in Subs |-> [w \in Workers |-> "none"]]
    /\ unsub = [s \in Subs |-> "idle"]
    /\ pub = [p \in Publishers |-> NoCall]
    /\ published = 0
    /\ closer = [c \in Closers |-> [pc |-> "idle", subs |-> <<>>]]
    /\ taken = [s \in Subs |-> {}]
    /\ owed = [c \in Closers |-> {}]

-----------------------------------------------------------------------------
\* The subscription tables (under eb.mu)

\* mutant: every subscription to a pattern makes a wildcardEntry of its own.
BugEntryPerSub(t, s) ==
    /\ registry' = [registry EXCEPT ![t] = Append(@, s)]
    /\ wildcardOrder' = IF t \in WildcardPatterns THEN Append(wildcardOrder, t)
                                                  ELSE wildcardOrder

AddChannel(t, s) ==
    /\ registry' = [registry EXCEPT ![t] = Append(@, s)]
    /\ wildcardOrder' = IF t \in WildcardPatterns /\ ~Contains(wildcardOrder, t)
                        THEN Append(wildcardOrder, t)
                        ELSE wildcardOrder

\* mutant: the wildcardEntry is deleted with any of its subscriptions.
BugEntryGoesAtOnce(t, s) ==
    /\ registry' = [registry EXCEPT ![t] = RemoveFirst(registry[t], s)]
    /\ wildcardOrder' = RemoveFirst(wildcardOrder, t)

\* removeChannel: the first entry for the channel goes; a wildcardEntry whose
\* last subscription goes is deleted with it.
DropChannel(t, s) ==
    LET rest == RemoveFirst(registry[t], s) IN
    /\ registry' = [registry EXCEPT ![t] = rest]
    /\ wildcardOrder' = IF rest = <<>> THEN RemoveFirst(wildcardOrder, t)
                                       ELSE wildcardOrder

-----------------------------------------------------------------------------
\* Subscribe and SubscribeAsync

Register(s, t, next) ==
    /\ stage[s] = "free"
    /\ stage' = [stage EXCEPT ![s] = next]
    /\ subTopic' = [subTopic EXCEPT ![s] = t]
    /\ AddChannel(t, s)
    /\ UNCHANGED <<activeSubs, chanVars, ctxDone, asyncVars, pubVars, closeVars>>

Subscribe(s, t) == Register(s, t, "raw")

SubscribeAsync(s, t) == Register(s, t, "registered")

\* SubscribeAsync has spawned the workers and the watcher.
StartGoroutines(s) ==
    /\ stage[s] = "registered"
    /\ stage' = [stage EXCEPT ![s] = "started"]
    /\ worker' = [worker EXCEPT ![s] = [w \in Workers |-> "select"]]
    /\ watch' = [watch EXCEPT ![s] = "spawned"]
    /\ UNCHANGED <<busVars, activeSubs, chanVars, subTopic, ctxDone, unsub,
                   pubVars, closeVars>>

\* trackSub, the last thing SubscribeAsync does before it returns.
TrackSub(s) ==
    /\ stage[s] = "started"
    /\ stage' = [stage EXCEPT ![s] = "returned"]
    /\ activeSubs' = Append(activeSubs, s)
    /\ UNCHANGED <<busVars, chanVars, subTopic, ctxDone, asyncVars, pubVars,
                   closeVars>>

\* RemoveChannel, called by the owner of a raw channel.
RemoveChannel(s) ==
    /\ stage[s] = "raw"
    /\ stage' = [stage EXCEPT ![s] = "removed"]
    /\ DropChannel(subTopic[s], s)
    /\ UNCHANGED <<activeSubs, chanVars, subTopic, ctxDone, asyncVars, pubVars,
                   closeVars>>

\* The owner of a raw channel receives from it.
RawReceive(s) ==
    /\ stage[s] \in {"raw", "removed"}
    /\ chan[s] # <<>>
    /\ chan' = [chan EXCEPT ![s] = Tail(@)]
    /\ taken' = [taken EXCEPT ![s] = @ \cup {Head(chan[s])}]
    /\ UNCHANGED <<busVars, activeSubs, closed, callVars, asyncVars, pubVars,
                   closeVars>>

-----------------------------------------------------------------------------
\* The parent context and the watcher

\* Cancelling the parent closes ctx.Done first and then cancels its child
\* subCtx, so a watcher parked in its select is woken by ctx.Done.  Before the
\* goroutines exist, and for a watcher not yet in its select, both channels are
\* simply ready afterwards.
CtxCancel(s) ==
    /\ ~ctxDone[s]
    /\ ctxDone' = [ctxDone EXCEPT ![s] = TRUE]
    /\ watch' = [watch EXCEPT ![s] = IF @ = "parked" THEN "ctxFired" ELSE @]
    /\ UNCHANGED <<busVars, activeSubs, chanVars, subTopic, stage, worker,
                   unsub, pubVars, closeVars>>

\* The watcher reaches its select: of the ready cases Go takes any.
WatchSelect(s) ==
    /\ watch[s] = "spawned"
    /\ \/ ctxDone[s] /\ watch' = [watch EXCEPT ![s] = "ctxFired"]
       \/ SubDone(s) /\ watch' = [watch EXCEPT ![s] = "exited"]
       \/ ~SubDone(s) /\ watch' = [watch EXCEPT ![s] = "parked"]
    /\ UNCHANGED <<busVars, activeSubs, chanVars, callVars, worker, unsub,
                   pubVars, closeVars>>

\* The watcher returns once its call of Unsubscribe has.
WatchReturn(s) ==
    /\ watch[s] = "ctxFired"
    /\ unsub[s] = "done"
    /\ watch' = [watch EXCEPT ![s] = "exited"]
    /\ UNCHANGED <<busVars, activeSubs, chanVars, callVars, worker, unsub,
                   pubVars, closeVars>>

-----------------------------------------------------------------------------
\* Unsubscribe: the first caller runs the body of once.Do, any later caller
\* blocks until the body has finished.

\* s.cancel(): a parked watcher is woken by subCtx.Done and returns.
BeginUnsubscribe(s) ==
    /\ unsub[s] = "idle"
    /\ unsub' = [unsub EXCEPT ![s] = "waiting"]
    /\ watch' = [watch EXCEPT ![s] = IF @ = "parked" THEN "exited" ELSE @]

\* The holder of the Subscription calls Unsubscribe.
Unsubscribe(s) ==
    /\ stage[s] = "returned"
    /\ BeginUnsubscribe(s)
    /\ UNCHANGED <<busVars, activeSubs, chanVars, callVars, worker, pubVars,
                   closeVars>>

\* The watcher calls Unsubscribe.
WatchUnsubscribe(s) ==
    /\ watch[s] = "ctxFired"
    /\ BeginUnsubscribe(s)
    /\ UNCHANGED <<busVars, activeSubs, chanVars, callVars, worker, pubVars,
                   closeVars>>

\* mutant: wg.Wait forgotten.
BugNoWait(s) ==
    /\ unsub[s] = "waiting"
    /\ unsub' = [unsub EXCEPT ![s] = "removing"]
    /\ UNCHANGED <<busVars, activeSubs, chanVars, callVars, watch, worker,
                   pubVars, closeVars>>

\* s.wg.Wait() returns.
UnsubWait(s) ==
    /\ unsub[s] = "waiting"
    /\ WorkersGone(s)
    /\ unsub' = [unsub EXCEPT ![s] = "removing"]
    /\ UNCHANGED <<busVars, activeSubs, chanVars, callVars, watch, worker,
                   pubVars, closeVars>>

\* mutant: closes the channel where it should be removed from the tables.
BugCloseFirst(s) ==
    /\ unsub[s] = "removing"
    /\ unsub' = [unsub EXCEPT ![s] = "closing"]
    /\ closed' = [closed EXCEPT ![s] = TRUE]
    /\ UNCHANGED <<busVars, activeSubs, chan, taken, callVars, watch, worker,
                   pubVars, closeVars>>

UnsubRemove(s) ==
    /\ unsub[s] = "removing"
    /\ unsub' = [unsub EXCEPT ![s] = "closing"]
    /\ DropChannel(subTopic[s], s)
    /\ UNCHANGED <<activeSubs, chanVars, callVars, watch, worker, pubVars,
                   closeVars>>

\* closeSafe: closing a channel that Close has closed already changes nothing.
UnsubClose(s) ==
    /\ unsub[s] = "closing"
    /\ unsub' = [unsub EXCEPT ![s] = "untracking"]
    /\ closed' = [closed EXCEPT ![s] = TRUE]
    /\ UNCHANGED <<busVars, activeSubs, chan, taken, callVars, watch, worker,
                   pubVars, closeVars>>

UnsubUntrack(s) ==
    /\ unsub[s] = "untracking"
    /\ unsub' = [unsub EXCEPT ![s] = "done"]
    /\ activeSubs' = RemoveFirst(activeSubs, s)
    /\ UNCHANGED <<busVars, chanVars, callVars, watch, worker, pubVars, closeVars>>

-----------------------------------------------------------------------------
\* The consumer goroutines of SubscribeAsync

WorkerReceive(s, w) ==
    /\ worker[s][w] = "select"
    /\ chan[s] # <<>>
    /\ worker' = [worker EXCEPT ![s][w] = "handling"]
    /\ chan' = [chan EXCEPT ![s] = Tail(@)]
    /\ taken' = [taken EXCEPT ![s] = @ \cup {Head(chan[s])}]
    /\ UNCHANGED <<busVars, activeSubs, closed, callVars, watch, unsub, pubVars,
                   closeVars>>

\* mutant: the select has no case for subCtx.Done.
BugNoDoneCase(s, w) ==
    /\ worker[s][w] = "select"
    /\ closed[s] /\ chan[s] = <<>>
    /\ worker' = [worker EXCEPT ![s][w] = "exited"]
    /\ UNCHANGED <<busVars, activeSubs, chanVars, callVars, watch, unsub,
                   pubVars, closeVars>>

\* mutant: leaves a closed channel undrained.
BugNoDrain(s, w) ==
    /\ worker[s][w] = "select"
    /\ SubDone(s) \/ closed[s]
    /\ worker' = [worker EXCEPT ![s][w] = "exited"]
    /\ UNCHANGED <<busVars, activeSubs, chanVars, callVars, watch, unsub,
                   pubVars, closeVars>>

\* subCtx is done, or the channel is closed and drained.
WorkerExit(s, w) ==
    /\ worker[s][w] = "select"
    /\ SubDone(s) \/ (closed[s] /\ chan[s] = <<>>)
    /\ worker' = [worker EXCEPT ![s][w] = "exited"]
    /\ UNCHANGED <<busVars, activeSubs, chanVars, callVars, watch, unsub,
                   pubVars, closeVars>>

\* A handler that called Unsubscribe is inside once.Do until the body is done.
HandlerReturn(s, w) ==
    /\ worker[s][w] \in {"handling", "unsubscribing"}
    /\ worker[s][w] = "unsubscribing" => unsub[s] = "done"
    /\ worker' = [worker EXCEPT ![s][w] = "select"]
    /\ UNCHANGED <<busVars, activeSubs, chanVars, callVars, watch, unsub,
                   pubVars, closeVars>>

\* A handler calls Unsubscribe on its own subscription: the body then waits for
\* the worker the handler runs on.
HandlerUnsubscribe(s, w) ==
    /\ stage[s] = "returned"
    /\ worker[s][w] = "handling"
    /\ worker' = [worker EXCEPT ![s][w] = "unsubscribing"]
    /\ IF unsub[s] = "idle" THEN BeginUnsubscribe(s) ELSE UNCHANGED <<unsub, watch>>
    /\ UNCHANGED <<busVars, activeSubs, chanVars, callVars, pubVars, closeVars>>

-----------------------------------------------------------------------------
\* Publish and PublishReport

\* The targets dispatch copies under the read lock: the exact subscriptions,
\* then those of each matching wildcardEntry, one batch per table entry.
Targets(t) ==
    <<registry[t]>> \o
    [i \in DOMAIN wildcardOrder |->
        IF <<wildcardOrder[i], t>> \in Matches THEN registry[wildcardOrder[i]]
                                               ELSE <<>>]

\* history: who ought to be reached, from the subscriptions' own topics
MatchedSubs(t) == {s \in Registered : Covers(subTopic[s], t)}

\* PublishReport carries a receiptCollector in its ctx, Publish does not.
Publish(p, t, report) ==
    /\ pub[p].pc = "idle"
    /\ published < MaxEvents
    /\ published' = published + 1
    /\ pub' = [pub EXCEPT ![p] = [pc |-> "delivering", event |-> published + 1,
                                  report |-> report, batches |-> Targets(t),
                                  receipts |-> <<>>, matched |-> MatchedSubs(t)]]
    /\ UNCHANGED <<busVars, activeSubs, chanVars, callVars, asyncVars, closeVars>>

\* sendSafe: the send of a full channel takes the default branch, that of a
\* closed channel panics and is recovered; both report the event as dropped.
CanSend(s) == ~closed[s] /\ Len(chan[s]) < ChanCap

IsNextBatch(batches, i) ==
    batches[i] # <<>> /\ \A j \in 1..(i - 1) : batches[j] = <<>>

\* mutant: the recovered panic of a closed channel is not reported.
BugReceiptIgnoresClosed(s) ==
    [sub |-> s, status |-> IF Len(chan[s]) < ChanCap THEN "queued" ELSE "dropped"]

Receipt(s) == [sub |-> s, status |-> IF CanSend(s) THEN "queued" ELSE "dropped"]

\* mutant: a send without the default branch waits for room.
BugBlockingSend(p) ==
    LET call == pub[p] IN
    /\ call.pc = "delivering"
    /\ \E i \in DOMAIN call.batches :
        LET s == Head(call.batches[i]) IN
        /\ IsNextBatch(call.batches, i)
        /\ CanSend(s)
        /\ chan' = [chan EXCEPT ![s] = Append(@, call.event)]
        /\ pub' = [pub EXCEPT ![p] =
                     [call EXCEPT !.batches = [@ EXCEPT ![i] = Tail(@)],
                                  !.receipts = Append(@, Receipt(s))]]
    /\ UNCHANGED <<busVars, activeSubs, closed, taken, callVars, asyncVars,
                   published, closeVars>>

\* deliver: one target, no lock held.
Deliver(p) ==
    LET call == pub[p] IN
    /\ call.pc = "delivering"
    /\ \E i \in DOMAIN call.batches :
        LET s == Head(call.batches[i]) IN
        /\ IsNextBatch(call.batches, i)
        /\ chan' = IF CanSend(s) THEN [chan EXCEPT ![s] = Append(@, call.event)]
                                 ELSE chan
        /\ pub' = [pub EXCEPT ![p] =
                     [call EXCEPT !.batches = [call.batches EXCEPT ![i] = Tail(@)],
                                  !.receipts = IF call.report
                                               THEN Append(call.receipts, Receipt(s))
                                               ELSE call.receipts]]
    /\ UNCHANGED <<busVars, activeSubs, closed, taken, callVars, asyncVars,
                   published, closeVars>>

PublishReturn(p) ==
    /\ pub[p].pc = "delivering"
    /\ \A i \in DOMAIN pub[p].batches : pub[p].batches[i] = <<>>
    /\ pub' = [pub EXCEPT ![p] = NoCall]
    /\ UNCHANGED <<busVars, activeSubs, chanVars, callVars, asyncVars, published,
                   closeVars>>

-----------------------------------------------------------------------------
\* Close

CloseBegin(c) ==
    /\ closer[c].pc = "idle"
    /\ closer' = [closer EXCEPT ![c] = [pc |-> "unsubscribing", subs |-> activeSubs]]
    /\ activeSubs' = <<>>
    /\ owed' = [owed EXCEPT ![c] = {s \in Subs : stage[s] = "returned"}]
    /\ UNCHANGED <<busVars, chanVars, callVars, asyncVars, pubVars>>

\* Close calls Unsubscribe on the next subscription of its snapshot ...
CloseUnsubscribe(c) ==
    /\ closer[c].pc = "unsubscribing"
    /\ closer[c].subs # <<>>
    /\ BeginUnsubscribe(Head(closer[c].subs))
    /\ UNCHANGED <<busVars, activeSubs, chanVars, callVars, worker, pubVars,
                   closeVars>>

\* mutant: does not wait for a body another goroutine is running.
BugNextAtOnce(c) ==
    /\ closer[c].pc = "unsubscribing"
    /\ closer[c].subs # <<>>
    /\ unsub[Head(closer[c].subs)] # "idle"
    /\ closer' = [closer EXCEPT ![c].subs = Tail(@)]
    /\ UNCHANGED <<busVars, activeSubs, chanVars, callVars, asyncVars, pubVars, owed>>

\* ... and that call returns, whoever ran the body.
CloseNext(c) ==
    /\ closer[c].pc = "unsubscribing"
    /\ closer[c].subs # <<>>
    /\ unsub[Head(closer[c].subs)] = "done"
    /\ closer' = [closer EXCEPT ![c].subs = Tail(@)]
    /\ UNCHANGED <<busVars, activeSubs, chanVars, callVars, asyncVars, pubVars, owed>>

\* mutant: Close sets the tables to nil.
BugTablesNil(c) ==
    /\ closer[c].pc = "unsubscribing"
    /\ closer[c].subs = <<>>
    /\ closer' = [closer EXCEPT ![c].pc = "returned"]
    /\ closed' = [s \in Subs |-> closed[s] \/ s \in Registered]
    /\ registry' = <<>>
    /\ wildcardOrder' = <<>>
    /\ UNCHANGED <<activeSubs, chan, taken, callVars, asyncVars, pubVars, owed>>

\* The rest of Close, under eb.mu: close whatever is still registered.
CloseChannels(c) ==
    /\ closer[c].pc = "unsubscribing"
    /\ closer[c].subs = <<>>
    /\ closer' = [closer EXCEPT ![c].pc = "returned"]
    /\ closed' = [s \in Subs |-> closed[s] \/ s \in Registered]
    /\ registry' = [t \in Topics |-> <<>>]
    /\ wildcardOrder' = <<>>
    /\ UNCHANGED <<activeSubs, chan, taken, callVars, asyncVars, pubVars, owed>>

-----------------------------------------------------------------------------
\* What each goroutine does next

SubscribeStep(s) == StartGoroutines(s) \/ TrackSub(s)
WatchStep(s) == WatchSelect(s) \/ WatchUnsubscribe(s) \/ WatchReturn(s)
UnsubStep(s) == UnsubWait(s) \/ UnsubRemove(s) \/ UnsubClose(s) \/ UnsubUntrack(s)
WorkerStep(s, w) == WorkerReceive(s, w) \/ WorkerExit(s, w) \/ HandlerReturn(s, w)
PublishStep(p) == Deliver(p) \/ PublishReturn(p)
CloseStep(c) == CloseUnsubscribe(c) \/ CloseNext(c) \/ CloseChannels(c)

Next ==
    \/ \E s \in RawSubs :
        \/ \E t \in Topics : Subscribe(s, t)
        \/ RemoveChannel(s)
        \/ RawReceive(s)
    \/ \E s \in AsyncSubs :
        \/ \E t \in Topics : SubscribeAsync(s, t)
        \/ SubscribeStep(s)
        \/ CtxCancel(s)
        \/ WatchStep(s)
        \/ Unsubscribe(s)
        \/ UnsubStep(s)
        \/ \E w \in Workers : WorkerStep(s, w) \/ HandlerUnsubscribe(s, w)
    \/ \E p \in Publishers :
        \/ \E t \in ExactTopics, report \in BOOLEAN : Publish(p, t, report)
        \/ PublishStep(p)
    \/ \E c \in Closers : CloseBegin(c) \/ CloseStep(c)

SafetySpec == Init /\ [][Next]_vars

\* Every goroutine that can move moves, and every handler returns.  The calls
\* of the API (Subscribe, Publish, Unsubscribe, cancel, Close) are not owed.
Fairness ==
    /\ \A s \in AsyncSubs :
        /\ WF_vars(SubscribeStep(s))
        /\ WF_vars(WatchStep(s))
        /\ WF_vars(UnsubStep(s))
        /\ \A w \in Workers : WF_vars(WorkerStep(s, w))
    /\ \A p \in Publishers : WF_vars(PublishStep(p))
    /\ \A c \in Closers : WF_vars(CloseStep(c))

Spec == SafetySpec /\ Fairness
-----------------------------------------------------------------------------
(***************************************************************************)
(* Properties                                                              *)
(***************************************************************************)

PublishCalls ==
    [pc : {"idle", "delivering"}, event : Nat, report : BOOLEAN,
     batches : Seq(Seq(Subs)),
     receipts : Seq([sub : Subs, status : {"queued", "dropped"}]),
     matched : SUBSET Subs]

CloseCalls == [pc : {"idle", "unsubscribing", "returned"}, subs : Seq(Subs)]

\* Every variable has its type.
TypeOK ==
    /\ registry \in [Topics -> Seq(Subs)]
    /\ wildcardOrder \in Seq(WildcardPatterns)
    /\ activeSubs \in Seq(Subs)
    /\ chan \in [Subs -> Seq(Events)]
    /\ closed \in [Subs -> BOOLEAN]
    /\ subTopic \in [Subs -> Topics \cup {NoTopic}]
    /\ stage \in [Subs -> {"free", "raw", "removed", "registered", "started",
                           "returned"}]
    /\ ctxDone \in [Subs -> BOOLEAN]
    /\ watch \in [Subs -> {"none", "spawned", "parked", "ctxFired", "exited"}]
    /\ worker \in [Subs -> [Workers -> {"none", "select", "handling",
                                        "unsubscribing", "exited"}]]
    /\ unsub \in [Subs -> {"idle", "waiting", "removing", "closing",
                           "untracking", "done"}]
    /\ pub \in [Publishers -> PublishCalls]
    /\ published \in 0..MaxEvents
    /\ closer \in [Closers -> CloseCalls]
    /\ taken \in [Subs -> SUBSET Events]
    /\ owed \in [Closers -> SUBSET Subs]

\* No closed channel is in the subscription tables: a dispatch that starts
\* after Unsubscribe or Close has closed a channel cannot target it, so the
\* recovered panic in sendSafe is reached only by a dispatch whose snapshot is
\* older than the close (removeChannel before closeSafe; Close empties the
\* tables under the lock it closes under).
RegistryOpen == \A s \in Registered : ~closed[s]

\* Once Unsubscribe has passed wg.Wait no consumer goroutine of the
\* subscription runs any more, so none can read the channel while it is being
\* removed and closed, and no handler runs after Unsubscribe returned.
NoWorkerAfterWait ==
    \A s \in Subs : unsub[s] \in {"removing", "closing", "untracking", "done"}
                       => WorkersGone(s)

\* When Close has returned and no other Close is still running, every
\* asynchronous subscription that was complete when it began is fully released:
\* workers gone, channel closed, out of the tables and out of activeSubs -
\* whoever else was unsubscribing it at the same time.
Released(s) ==
    /\ WorkersGone(s)
    /\ closed[s]
    /\ s \notin Registered
    /\ ~Contains(activeSubs, s)

CloseReleases ==
    \A c \in Closers :
        /\ closer[c].pc = "returned"
        /\ \A d \in Closers : closer[d].pc # "unsubscribing"
        => \A s \in owed[c] : Released(s)

\* While PublishReport delivers, the receipts written and the targets left are
\* together exactly the subscriptions that matched when the snapshot was taken,
\* each of them once: subscribing, unsubscribing and closing meanwhile neither
\* lose a receipt nor produce a second one.
Written(call) == {call.receipts[k].sub : k \in DOMAIN call.receipts}
Left(call) == UNION {ToSet(call.batches[i]) : i \in DOMAIN call.batches}

Accounted(call) ==
    /\ \A k, l \in DOMAIN call.receipts :
         call.receipts[k].sub = call.receipts[l].sub => k = l
    /\ \A i \in DOMAIN call.batches : IsInjective(call.batches[i])
    /\ \A i, j \in DOMAIN call.batches :
         i # j => ToSet(call.batches[i]) \cap ToSet(call.batches[j]) = {}
    /\ Written(call) \cap Left(call) = {}
    /\ Written(call) \cup Left(call) = call.matched

ReceiptOnce ==
    \A p \in Publishers :
        pub[p].pc = "delivering" /\ pub[p].report => Accounted(pub[p])

\* A receipt says "queued" exactly when the event went into the subscriber's
\* channel: it is still there or has been received, also after the channel was
\* closed or drained.
ReceiptHonest ==
    \A p \in Publishers : \A i \in DOMAIN pub[p].receipts :
        LET r == pub[p].receipts[i] IN
        r.status = "queued" <=>
            pub[p].event \in ToSet(chan[r.sub]) \cup taken[r.sub]

\* No subscription is given an event twice: what was received is not in the
\* channel any more, and nothing is in the channel twice.
DeliveredAtMostOnce ==
    \A s \in Subs :
        /\ IsInjective(chan[s])
        /\ ToSet(chan[s]) \cap taken[s] = {}

\* The bus as its users see it: who is registered stands for the tables, and what is
\* left of the snapshots for the calls under way.
Due(e) ==
    UNION {Left(pub[p]) : p \in {q \in Publishers : pub[q].pc = "delivering"
                                                    /\ pub[q].event = e}}

Users == INSTANCE PubSub WITH
    Reaches <- {r \in Topics \X ExactTopics : Covers(r[1], r[2])},
    Capacity <- ChanCap,
    topicOf <- subTopic,
    live <- Registered,
    shut <- {s \in Subs : closed[s]},
    mailbox <- chan,
    announced <- 1..published,
    due <- [e \in Events |-> Due(e)]

\* The bus keeps its promise to publishers and subscribers: whatever subscribes,
\* unsubscribes and closes while a dispatch works on its snapshot without a lock,
\* every subscription that was in the tables and covered the topic is offered the
\* event once, nobody else is, and only a full or closed channel loses it.
ImplementsPubSub == Users!Spec

\* A handler is inside Unsubscribe of its own subscription.
SelfUnsubscribe(s) == \E w \in Workers : worker[s][w] = "unsubscribing"

\* Unsubscribe returns, whoever called it, if handlers return - unless one of
\* them is itself waiting for it.  A watcher that sees its ctx cancelled calls it, or
\* waits for who did, and ends.
UnsubscribeReturns ==
    \A s \in Subs : unsub[s] = "waiting" \/ watch[s] = "ctxFired" ~>
        (unsub[s] = "done" /\ watch[s] # "ctxFired") \/ SelfUnsubscribe(s)

\* Close returns, also with other Closes and Unsubscribes under way.
CloseReturns ==
    \A c \in Closers : closer[c].pc = "unsubscribing" ~>
        closer[c].pc = "returned" \/ \E s \in Subs : SelfUnsubscribe(s)

\* An event in the channel of an asynchronous subscription reaches the handler
\* unless the subscription is cancelled, even when Close closes the channel of
\* a subscription it did not know of.
QueuedIsHandled ==
    \A s \in AsyncSubs, e \in Events :
        Contains(chan[s], e) ~> e \in taken[s] \/ SubDone(s)

\* Publish returns although a channel is full and its worker is stuck in a handler
\* that waits for its own Unsubscribe: a full channel drops, nothing blocks the
\* publisher.
PublishNeverBlocks ==
    \A p \in Publishers : pub[p].pc = "delivering" ~> pub[p].pc = "idle"

-----------------------------------------------------------------------------
\* What comments say of the bus and its code does not do.

\* "When the parent ctx is cancelled the subscription is cleaned up, there is no
\* need to call Unsubscribe" (bus.go:122): a watcher that is not yet parked may
\* take the subCtx.Done case and return without unsubscribing.
CancelCleansUp ==
    \A s \in Subs : stage[s] = "returned" /\ ctxDone[s] ~> unsub[s] = "done"

\* The same comment and that of Subscription ("releases the resources",
\* bus.go:15): a cleanup that finishes before trackSub leaves the dead
\* subscription in activeSubs.
NoDeadSubscriptionTracked ==
    \A s \in Subs : stage[s] = "returned" /\ unsub[s] = "done"
                       => ~Contains(activeSubs, s)
=============================================================================
