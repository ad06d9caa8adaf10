-------------------------------- MODULE Pool --------------------------------
(***************************************************************************)
(* The consumer pool of ext/pool/pool.go: one SubscribeWithPool, whose     *)
(* workers run before it registers its channel.  A forwarder goroutine     *)
(* moves events from the bus channel to the queue of the pool; the workers *)
(* handle them, with retries and a dead-letter callback; Unsubscribe, the  *)
(* parent ctx and a closed bus all end in the teardown the forwarder       *)
(* defers.  The callbacks return.                                          *)
(*                                                                         *)
(* The bus is here the registration and the channel it sends to            *)
(* (EventBus.tla models it).  A handler's timeout is one of the ways it    *)
(* fails, and every period of time is nondeterministic.                    *)
(***************************************************************************)
EXTENDS Naturals, Sequences, FiniteSets, SequencesExt

CONSTANTS
    Workers,     \* the worker goroutines
    Publishers,  \* goroutines that publish on the topic
    ChanCap,     \* capacity of the bus channel (64 in the code)
    QueueSize,   \* capacity of the pool's queue
    MaxRetries,  \* retries after the first attempt
    MaxEvents    \* bound on the number of events published

ASSUME PoolConstantsOK ==
    /\ IsFiniteSet(Workers)
    /\ ChanCap \in Nat \ {0}
    /\ QueueSize \in Nat \ {0}
    /\ MaxRetries \in Nat
    /\ MaxEvents \in Nat

Events == 1..MaxEvents
NoEvent == 0

VARIABLES
    registered,  \* is the channel in the tables of the bus?
    ch,          \* the buffer of the channel
    chClosed,    \* has the channel been closed?
    pub,         \* the event each publisher is about to send, or NoEvent
    published,   \* number of events published
    ctxDone,     \* has the parent ctx been cancelled?
    busClosed,   \* has the bus been closed, once in a behaviour?
    fwd,         \* the forwarder: [pc, event]
    queue,       \* cp.queue
    stopped,     \* has stop cancelled the pool's ctx?
    worker,      \* the workers: [pc, event, attempt]
    unsub,       \* progress of Unsubscribe
    calls,       \* history: how often the handler was called with each event
    settled      \* history: what became of each event, in order

busVars  == <<registered, ch, chClosed, pub, published, busClosed>>
poolVars == <<queue, stopped, worker>>
history  == <<calls, settled>>
vars == <<busVars, ctxDone, fwd, poolVars, unsub, history>>

\* The contexts: fwdCtx and the pool's ctx are children of the parent ctx.
FwdDone == ctxDone \/ unsub # "idle"
PoolDone == ctxDone \/ stopped

Settle(e, outcome) == settled' = [settled EXCEPT ![e] = Append(@, outcome)]
CallHandler(e) == calls' = [calls EXCEPT ![e] = @ + 1]

IdleWorker == [pc |-> "select", event |-> NoEvent, attempt |-> 0]

\* newPool has returned.
Init ==
    /\ registered = FALSE
    /\ ch = <<>>
    /\ chClosed = FALSE
    /\ pub = [p \in Publishers |-> NoEvent]
    /\ published = 0
    /\ ctxDone = FALSE
    /\ busClosed = FALSE
    /\ fwd = [pc |-> "subscribing", event |-> NoEvent]
    /\ queue = <<>>
    /\ stopped = FALSE
    /\ worker = [w \in Workers |-> IdleWorker]
    /\ unsub = "idle"
    /\ calls = [e \in Events |-> 0]
    /\ settled = [e \in Events |-> <<>>]

-----------------------------------------------------------------------------
\* The bus

\* dispatch copies its targets under the lock ...
Target(p) ==
    /\ registered
    /\ pub[p] = NoEvent
    /\ published < MaxEvents
    /\ published' = published + 1
    /\ pub' = [pub EXCEPT ![p] = published + 1]
    /\ UNCHANGED <<registered, ch, chClosed, busClosed, ctxDone, fwd, poolVars,
                   unsub, history>>

\* ... and sends without it, dropping what a full or closed channel refuses.
Send(p) ==
    /\ pub[p] # NoEvent
    /\ pub' = [pub EXCEPT ![p] = NoEvent]
    /\ ch' = IF ~chClosed /\ Len(ch) < ChanCap THEN Append(ch, pub[p]) ELSE ch
    /\ UNCHANGED <<registered, chClosed, published, busClosed, ctxDone, fwd,
                   poolVars, unsub, history>>

\* Close closes the channels that are still registered.
BusClose ==
    /\ ~busClosed
    /\ busClosed' = TRUE
    /\ chClosed' = (chClosed \/ registered)
    /\ registered' = FALSE
    /\ UNCHANGED <<ch, pub, published, ctxDone, fwd, poolVars, unsub, history>>

CtxCancel ==
    /\ ~ctxDone
    /\ ctxDone' = TRUE
    /\ UNCHANGED <<busVars, fwd, poolVars, unsub, history>>

-----------------------------------------------------------------------------
\* The forwarder

\* The channel is registered, also on a bus that was closed before, the forwarder
\* started, and SubscribeWithPool returns.
SubscribeWithPool ==
    /\ fwd.pc = "subscribing"
    /\ registered' = TRUE
    /\ fwd' = [fwd EXCEPT !.pc = "select"]
    /\ UNCHANGED <<ch, chClosed, pub, published, busClosed, ctxDone, poolVars,
                   unsub, history>>

Forward ==
    /\ fwd.pc = "select"
    /\ ch # <<>>
    /\ fwd' = [pc |-> "consume", event |-> Head(ch)]
    /\ ch' = Tail(ch)
    /\ UNCHANGED <<registered, chClosed, pub, published, busClosed, ctxDone,
                   poolVars, unsub, history>>

\* consume: of the ready cases Go takes any; default only if none is.
CanQueue == Len(queue) < QueueSize

ConsumeQueued ==
    /\ fwd.pc = "consume"
    /\ CanQueue
    /\ queue' = Append(queue, fwd.event)
    /\ fwd' = [pc |-> "select", event |-> NoEvent]
    /\ UNCHANGED <<busVars, ctxDone, stopped, worker, unsub, history>>

\* mutant: an event that cannot be queued is dropped in silence.
BugNoFailHandler ==
    /\ fwd.pc = "consume"
    /\ PoolDone \/ ~CanQueue
    /\ fwd' = [pc |-> "select", event |-> NoEvent]
    /\ UNCHANGED <<busVars, ctxDone, poolVars, unsub, history>>

\* The FailHandler is called: the pool is done, or its queue is full.
ConsumeFailed ==
    /\ fwd.pc = "consume"
    /\ PoolDone \/ ~CanQueue
    /\ Settle(fwd.event, "failed")
    /\ fwd' = [pc |-> "select", event |-> NoEvent]
    /\ UNCHANGED <<busVars, ctxDone, poolVars, unsub, calls>>

\* mutant: does not notice that the channel was closed.
BugIgnoresClosed ==
    /\ fwd.pc = "select"
    /\ FwdDone
    /\ fwd' = [fwd EXCEPT !.pc = "removing"]
    /\ UNCHANGED <<busVars, ctxDone, poolVars, unsub, history>>

FwdExit ==
    /\ fwd.pc = "select"
    /\ FwdDone \/ (chClosed /\ ch = <<>>)
    /\ fwd' = [fwd EXCEPT !.pc = "removing"]
    /\ UNCHANGED <<busVars, ctxDone, poolVars, unsub, history>>

\* mutant: the channel is not removed before it is closed.
BugNotRemoved ==
    /\ fwd.pc = "removing"
    /\ fwd' = [fwd EXCEPT !.pc = "stopping"]
    /\ UNCHANGED <<busVars, ctxDone, poolVars, unsub, history>>

\* teardown: RemoveChannel, stop (cancel, then wait for the workers), close.
TeardownRemove ==
    /\ fwd.pc = "removing"
    /\ fwd' = [fwd EXCEPT !.pc = "stopping"]
    /\ registered' = FALSE
    /\ UNCHANGED <<ch, chClosed, pub, published, busClosed, ctxDone, poolVars,
                   unsub, history>>

TeardownStop ==
    /\ fwd.pc = "stopping"
    /\ fwd' = [fwd EXCEPT !.pc = "waiting"]
    /\ stopped' = TRUE
    /\ UNCHANGED <<busVars, ctxDone, queue, worker, unsub, history>>

\* mutant: stop cancels but does not wait for the workers.
BugNoWait ==
    /\ fwd.pc = "waiting"
    /\ fwd' = [fwd EXCEPT !.pc = "closing"]
    /\ UNCHANGED <<busVars, ctxDone, poolVars, unsub, history>>

TeardownWait ==
    /\ fwd.pc = "waiting"
    /\ \A w \in Workers : worker[w].pc = "exited"
    /\ fwd' = [fwd EXCEPT !.pc = "closing"]
    /\ UNCHANGED <<busVars, ctxDone, poolVars, unsub, history>>

TeardownClose ==
    /\ fwd.pc = "closing"
    /\ fwd' = [fwd EXCEPT !.pc = "exited"]
    /\ chClosed' = TRUE
    /\ UNCHANGED <<registered, ch, pub, published, busClosed, ctxDone, poolVars,
                   unsub, history>>

\* Unsubscribe cancels fwdCtx and waits for the forwarder; its own teardown
\* then finds the once used up.
Unsubscribe ==
    /\ unsub = "idle"
    /\ fwd.pc # "subscribing"
    /\ unsub' = "waiting"
    /\ UNCHANGED <<busVars, ctxDone, fwd, poolVars, history>>

UnsubReturn ==
    /\ unsub = "waiting"
    /\ fwd.pc = "exited"
    /\ unsub' = "done"
    /\ UNCHANGED <<busVars, ctxDone, fwd, poolVars, history>>

-----------------------------------------------------------------------------
\* The workers

WorkerReceive(w) ==
    /\ worker[w].pc = "select"
    /\ queue # <<>>
    /\ worker' = [worker EXCEPT ![w] =
                    [pc |-> "handling", event |-> Head(queue), attempt |-> 0]]
    /\ queue' = Tail(queue)
    /\ CallHandler(Head(queue))
    /\ UNCHANGED <<busVars, ctxDone, fwd, stopped, unsub, settled>>

\* mutant: a worker that finds the queue empty leaves.
BugIdleExit(w) ==
    /\ worker[w].pc = "select"
    /\ PoolDone \/ queue = <<>>
    /\ worker' = [worker EXCEPT ![w].pc = "exited"]
    /\ UNCHANGED <<busVars, ctxDone, fwd, queue, stopped, unsub, history>>

WorkerExit(w) ==
    /\ worker[w].pc = "select"
    /\ PoolDone
    /\ worker' = [worker EXCEPT ![w].pc = "exited"]
    /\ UNCHANGED <<busVars, ctxDone, fwd, queue, stopped, unsub, history>>

\* process returns: the worker is back at its select.
Processed(w, outcome) ==
    /\ Settle(worker[w].event, outcome)
    /\ worker' = [worker EXCEPT ![w] = IdleWorker]
    /\ UNCHANGED <<busVars, ctxDone, fwd, queue, stopped, unsub, calls>>

HandlerOk(w) ==
    /\ worker[w].pc = "handling"
    /\ Processed(w, "handled")

HandlerPanics(w) ==
    /\ worker[w].pc = "handling"
    /\ Processed(w, "dead")

\* The handler fails and the RetryClassifier decides: give up, ...
HandlerRejected(w) ==
    /\ worker[w].pc = "handling"
    /\ \E outcome \in {"dead", "dropped"} : Processed(w, outcome)

\* mutant: one retry too many.
BugOneMoreRetry(w) ==
    /\ worker[w].pc = "handling"
    /\ IF worker[w].attempt = MaxRetries + 1
       THEN Processed(w, "dead")
       ELSE /\ worker' = [worker EXCEPT ![w].pc = "backoff"]
            /\ UNCHANGED <<busVars, ctxDone, fwd, queue, stopped, unsub, history>>

\* ... or Retry, if an attempt is left.
HandlerFails(w) ==
    /\ worker[w].pc = "handling"
    /\ IF worker[w].attempt = MaxRetries
       THEN Processed(w, "dead")
       ELSE /\ worker' = [worker EXCEPT ![w].pc = "backoff"]
            /\ UNCHANGED <<busVars, ctxDone, fwd, queue, stopped, unsub, history>>

BackoffOver(w) ==
    /\ worker[w].pc = "backoff"
    /\ worker' = [worker EXCEPT ![w].pc = "handling", ![w].attempt = @ + 1]
    /\ CallHandler(worker[w].event)
    /\ UNCHANGED <<busVars, ctxDone, fwd, queue, stopped, unsub, settled>>

\* mutant: the return after the dead letter is missing.
BugNoReturn(w) ==
    /\ worker[w].pc = "backoff"
    /\ PoolDone
    /\ Settle(worker[w].event, "dead")
    /\ worker' = [worker EXCEPT ![w].pc = "handling", ![w].attempt = @ + 1]
    /\ UNCHANGED <<busVars, ctxDone, fwd, queue, stopped, unsub, calls>>

BackoffCancelled(w) ==
    /\ worker[w].pc = "backoff"
    /\ PoolDone
    /\ Processed(w, "dead")

-----------------------------------------------------------------------------
Teardown == TeardownRemove \/ TeardownStop \/ TeardownWait \/ TeardownClose
FwdStep ==
    SubscribeWithPool \/ Forward \/ ConsumeQueued \/ ConsumeFailed \/ FwdExit \/ Teardown
HandlerReturns(w) ==
    HandlerOk(w) \/ HandlerPanics(w) \/ HandlerRejected(w) \/ HandlerFails(w)
WorkerStep(w) ==
    \/ WorkerReceive(w)
    \/ WorkerExit(w)
    \/ HandlerReturns(w)
    \/ BackoffOver(w)
    \/ BackoffCancelled(w)

Next ==
    \/ \E p \in Publishers : Target(p) \/ Send(p)
    \/ BusClose
    \/ CtxCancel
    \/ FwdStep
    \/ Unsubscribe
    \/ UnsubReturn
    \/ \E w \in Workers : WorkerStep(w)

SafetySpec == Init /\ [][Next]_vars

\* Both kinds of goroutine run on, handlers return and backoffs end.
Fairness ==
    /\ WF_vars(FwdStep)
    /\ WF_vars(UnsubReturn)
    /\ \A w \in Workers : WF_vars(WorkerStep(w))

Spec == SafetySpec /\ Fairness
-----------------------------------------------------------------------------
(***************************************************************************)
(* Properties                                                              *)
(***************************************************************************)

FwdStates == [pc : {"subscribing", "select", "consume", "removing", "stopping", "waiting",
                    "closing", "exited"},
              event : Events \cup {NoEvent}]

WorkerStates == [pc : {"select", "handling", "backoff", "exited"},
                 event : Events \cup {NoEvent},
                 attempt : 0..MaxRetries]

Outcomes == {"handled", "dead", "dropped", "failed"}

\* Every variable has its type.
TypeOK ==
    /\ registered \in BOOLEAN
    /\ ch \in Seq(Events)
    /\ chClosed \in BOOLEAN
    /\ pub \in [Publishers -> Events \cup {NoEvent}]
    /\ published \in 0..MaxEvents
    /\ ctxDone \in BOOLEAN
    /\ busClosed \in BOOLEAN
    /\ fwd \in FwdStates
    /\ queue \in Seq(Events)
    /\ stopped \in BOOLEAN
    /\ worker \in [Workers -> WorkerStates]
    /\ unsub \in {"idle", "waiting", "done"}
    /\ calls \in [Events -> Nat]
    /\ settled \in [Events -> Seq(Outcomes)]

\* Where an event can be between the bus and its outcome.
Occurrences(q, e) == Cardinality({i \in DOMAIN q : q[i] = e})
Holders(e) == {w \in Workers : worker[w].event = e}
Places(e) ==
    Occurrences(ch, e) + Occurrences(queue, e) + Len(settled[e])
    + Cardinality(Holders(e)) + (IF fwd.event = e THEN 1 ELSE 0)

\* An event is in one place at a time: no two workers have it, it is not handled
\* and dead-lettered both, and the dead-letter and fail callbacks run for it once
\* at most, through retries, panics, cancellation and teardown.
OnePlace == \A e \in Events : Places(e) <= 1

\* An event the channel took never vanishes: it is on its way or has an outcome.
\* What a stopped pool discards is what is left in its channel and its queue.
NeverLost == [][\A e \in Events : Places(e) > 0 => Places(e)' > 0]_vars

\* The handler is called at most 1 + MaxRetries times with an event, and not at
\* all with one that went to the FailHandler.
AttemptsBounded ==
    \A e \in Events :
        /\ calls[e] <= 1 + MaxRetries
        /\ Contains(settled[e], "failed") => calls[e] = 0

\* Nothing is called any more once Unsubscribe has returned: no handler, no
\* dead-letter callback, no FailHandler.
QuietAfterUnsubscribe == [][unsub = "done" => UNCHANGED history]_vars

\* The pool and the bus around it as PubSub sees them: one subscription, whose mailbox
\* is the channel.
Pooled == {"pool"}
Bus == INSTANCE PubSub WITH
    Subs <- Pooled,
    Topics <- {"topic"},
    NoTopic <- "none",
    Reaches <- {<<"topic", "topic">>},
    Capacity <- ChanCap,
    topicOf <- [s \in Pooled |-> IF fwd.pc = "subscribing" THEN "none" ELSE "topic"],
    live <- {s \in Pooled : registered},
    shut <- {s \in Pooled : chClosed},
    mailbox <- [s \in Pooled |-> ch],
    announced <- 1..published,
    due <- [e \in Events |-> {s \in Pooled : \E p \in Publishers : pub[p] = e}]

\* The pool uses the bus as PubSub, which EventBus implements, lets it: it subscribes
\* once, takes what its channel accepted, and closes the channel only when nothing new
\* can be dispatched to it, however its teardown, its context and the Close of the bus
\* come together.
ImplementsPubSub == Bus!Spec

\* "Cancelling the parent ctx, Unsubscribe or closing the bus each stops the
\* workers, removes the subscription and closes the channel" (pool.go:186), at
\* any time, and Unsubscribe returns.  The bus closes the channels it has.
Released ==
    /\ \A w \in Workers : worker[w].pc = "exited"
    /\ ~registered
    /\ chClosed
StopReleases == FwdDone \/ chClosed ~> Released /\ unsub # "waiting"

\* An event the pool took is settled, unless the pool is stopped first.
QueuedIsSettled ==
    \A e \in Events : Contains(ch, e) \/ Contains(queue, e)
                         ~> settled[e] # <<>> \/ FwdDone \/ stopped
=============================================================================
