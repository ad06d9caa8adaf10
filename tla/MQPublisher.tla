---------------------------- MODULE MQPublisher ----------------------------
(***************************************************************************)
(* The Publisher of ext/amqp/publisher.go with a broker configured: the    *)
(* queue and its worker, the fallback goroutines bounded by a semaphore,   *)
(* and Close, kept apart from enqueue by an RWMutex.  (Without a broker    *)
(* Distributed is Local, MQOnly an error, and there is nothing to close.)  *)
(*                                                                         *)
(* What amqpPub.Publish does is modelled elsewhere; here it is a call that *)
(* takes any time and, whether it fails or not, ends.  An unrecovered      *)
(* panic ends the process.                                                 *)
(***************************************************************************)
EXTENDS Naturals, Sequences, FiniteSets, SequencesExt

CONSTANTS
    Callers,     \* goroutines that call Distributed and MQOnly
    Closers,     \* goroutines that call Close, once each
    QueueCap,    \* capacity of mqQueue (1000 in the code)
    SemCap,      \* capacity of fallbackSem (100 in the code)
    MaxEvents,   \* bound on the number of calls
    NilEvents    \* the events whose payload is nil

ASSUME PublisherConstantsOK ==
    /\ QueueCap \in Nat \ {0}
    /\ SemCap \in Nat
    /\ MaxEvents \in Nat
    /\ NilEvents \subseteq 1..MaxEvents

Events == 1..MaxEvents
NoEvent == 0

VARIABLES
    call,      \* the call each caller is in: [pc, event, local]
    issued,    \* number of calls so far; the event's identity
    closed,    \* p.closed
    mqQueue,   \* the buffer of p.mqQueue
    chClosed,  \* has p.mqQueue been closed?
    worker,    \* mqWorker: [pc, event]
    fallback,  \* the events the fallback goroutines are sending
    closer,    \* progress of Close
    crashed,   \* has a panic ended the process?
    fate,      \* history: what enqueue did with each event
    sends      \* history: how often each event was given to amqpPub.Publish

queueVars == <<closed, mqQueue, chClosed>>
vars == <<call, issued, queueVars, worker, fallback, closer, crashed, fate,
          sends>>

-----------------------------------------------------------------------------
\* p.mu: the callers inside enqueue hold it for reading; a Close that waits
\* for it keeps new readers out.
Readers == {c \in Callers : call[c].pc \in {"check", "queue", "fallback"}}
WriterPresent == \E k \in Closers : closer[k] \in {"lock", "locked"}

\* p.wg counts the worker and the fallback goroutines.
AllDone == worker.pc = "exited" /\ fallback = {}

NoCall == [pc |-> "idle", event |-> NoEvent, local |-> FALSE]

Init ==
    /\ call = [c \in Callers |-> NoCall]
    /\ issued = 0
    /\ closed = FALSE
    /\ mqQueue = <<>>
    /\ chClosed = FALSE
    /\ worker = [pc |-> "receive", event |-> NoEvent]
    /\ fallback = {}
    /\ closer = [k \in Closers |-> "idle"]
    /\ crashed = FALSE
    /\ fate = [e \in Events |-> "none"]
    /\ sends = [e \in Events |-> 0]

-----------------------------------------------------------------------------
\* Distributed and MQOnly

\* Distributed publishes on the local bus after enqueue, MQOnly does not.
Begin(c, local) ==
    /\ call[c].pc = "idle"
    /\ issued < MaxEvents
    /\ issued' = issued + 1
    /\ call' = [call EXCEPT ![c] =
                  [pc |-> "rlock", event |-> issued + 1, local |-> local]]
    /\ UNCHANGED <<queueVars, worker, fallback, closer, crashed, fate, sends>>

Distributed(c) == Begin(c, TRUE)
MQOnly(c) == Begin(c, FALSE)

ReadLock(c) ==
    /\ call[c].pc = "rlock"
    /\ ~WriterPresent
    /\ call' = [call EXCEPT ![c].pc = "check"]
    /\ UNCHANGED <<issued, queueVars, worker, fallback, closer, crashed,
                   fate, sends>>

\* enqueue returns and unlocks.
Leave(c, f) ==
    /\ call' = [call EXCEPT ![c] = IF @.local THEN [@ EXCEPT !.pc = "local"] ELSE NoCall]
    /\ fate' = [fate EXCEPT ![call[c].event] = f]

CheckClosed(c) ==
    /\ call[c].pc = "check"
    /\ IF closed
       THEN Leave(c, "dropped")
       ELSE call' = [call EXCEPT ![c].pc = "queue"] /\ UNCHANGED fate
    /\ UNCHANGED <<issued, queueVars, worker, fallback, closer, crashed, sends>>

\* Mutant: the return after the send into mqQueue is missing.
BugFallsThrough(c) ==
    /\ call[c].pc = "queue"
    /\ crashed' = chClosed
    /\ call' = [call EXCEPT ![c].pc = "fallback"]
    /\ mqQueue' = IF ~chClosed /\ Len(mqQueue) < QueueCap
                  THEN Append(mqQueue, call[c].event) ELSE mqQueue
    /\ UNCHANGED <<issued, closed, chClosed, worker, fallback, closer, fate, sends>>

\* The send into mqQueue: a closed channel panics, a full one falls back.
TryQueue(c) ==
    /\ call[c].pc = "queue"
    /\ crashed' = chClosed
    /\ IF ~chClosed /\ Len(mqQueue) < QueueCap
       THEN mqQueue' = Append(mqQueue, call[c].event) /\ Leave(c, "queued")
       ELSE call' = [call EXCEPT ![c].pc = "fallback"] /\ UNCHANGED <<mqQueue, fate>>
    /\ UNCHANGED <<issued, closed, chClosed, worker, fallback, closer, sends>>

\* What a goroutine that calls amqpPub.Publish does to the process and the
\* broker: Publish takes the type of the payload, which nil has not.
StartSend(e) ==
    /\ crashed' = (e \in NilEvents)
    /\ sends' = [sends EXCEPT ![e] = @ + 1]

\* Mutant: no semaphore bounds the fallback goroutines.
BugUnboundedFallback(c) ==
    /\ call[c].pc = "fallback"
    /\ fallback' = fallback \cup {call[c].event}
    /\ StartSend(call[c].event)
    /\ Leave(c, "fallback")
    /\ UNCHANGED <<issued, queueVars, worker, closer>>

\* Mutant: enqueue waits for the semaphore (no default).
BugBlockingFallback(c) ==
    /\ Cardinality(fallback) < SemCap
    /\ BugUnboundedFallback(c)

\* The send of a fallback goroutine starts with the goroutine.
TryFallback(c) ==
    /\ call[c].pc = "fallback"
    /\ IF Cardinality(fallback) < SemCap
       THEN /\ fallback' = fallback \cup {call[c].event}
            /\ StartSend(call[c].event)
            /\ Leave(c, "fallback")
       ELSE Leave(c, "dropped") /\ UNCHANGED <<fallback, crashed, sends>>
    /\ UNCHANGED <<issued, queueVars, worker, closer>>

\* bus.Publish, the local part of Distributed.
PublishLocal(c) ==
    /\ call[c].pc = "local"
    /\ call' = [call EXCEPT ![c] = NoCall]
    /\ UNCHANGED <<issued, queueVars, worker, fallback, closer, crashed,
                   fate, sends>>

-----------------------------------------------------------------------------
\* The goroutines that send

FallbackReturn(e) ==
    /\ e \in fallback
    /\ fallback' = fallback \ {e}
    /\ UNCHANGED <<call, issued, queueVars, worker, closer, crashed, fate, sends>>

WorkerReceive ==
    /\ worker.pc = "receive"
    /\ mqQueue # <<>>
    /\ worker' = [pc |-> "sending", event |-> Head(mqQueue)]
    /\ mqQueue' = Tail(mqQueue)
    /\ StartSend(Head(mqQueue))
    /\ UNCHANGED <<call, issued, closed, chClosed, fallback, closer, fate>>

WorkerReturn ==
    /\ worker.pc = "sending"
    /\ worker' = [pc |-> "receive", event |-> NoEvent]
    /\ UNCHANGED <<call, issued, queueVars, fallback, closer, crashed, fate, sends>>

\* The range over mqQueue ends when it is closed and drained.
WorkerExit ==
    /\ worker.pc = "receive"
    /\ chClosed /\ mqQueue = <<>>
    /\ worker' = [worker EXCEPT !.pc = "exited"]
    /\ UNCHANGED <<call, issued, queueVars, fallback, closer, crashed, fate, sends>>

-----------------------------------------------------------------------------
\* Close: the first caller runs the body of closeOnce.Do, any other waits for it.

Close(k) ==
    /\ closer[k] = "idle"
    /\ closer' = [closer EXCEPT ![k] =
                    IF \A j \in Closers : closer[j] = "idle" THEN "lock" ELSE "once"]
    /\ UNCHANGED <<call, issued, queueVars, worker, fallback, crashed, fate, sends>>

\* Mutant: enqueue holds no read lock.
BugNoReadLock(k) ==
    /\ closer[k] = "lock"
    /\ closer' = [closer EXCEPT ![k] = "locked"]
    /\ UNCHANGED <<call, issued, queueVars, worker, fallback, crashed, fate, sends>>

CloseLock(k) ==
    /\ closer[k] = "lock"
    /\ Readers = {}
    /\ closer' = [closer EXCEPT ![k] = "locked"]
    /\ UNCHANGED <<call, issued, queueVars, worker, fallback, crashed, fate, sends>>

\* Mutant: the queue is not closed.
BugQueueLeftOpen(k) ==
    /\ closer[k] = "locked"
    /\ closed' = TRUE
    /\ closer' = [closer EXCEPT ![k] = "waiting"]
    /\ UNCHANGED <<call, issued, mqQueue, chClosed, worker, fallback, crashed, fate, sends>>

\* closed is set and the queue closed before the lock is released.
CloseQueue(k) ==
    /\ closer[k] = "locked"
    /\ closed' = TRUE
    /\ chClosed' = TRUE
    /\ closer' = [closer EXCEPT ![k] = "waiting"]
    /\ UNCHANGED <<call, issued, mqQueue, worker, fallback, crashed, fate, sends>>

\* Mutant: the fallback goroutines are not counted by p.wg.
BugWaitWorkerOnly(k) ==
    /\ closer[k] = "waiting"
    /\ worker.pc = "exited"
    /\ closer' = [closer EXCEPT ![k] = "returned"]
    /\ UNCHANGED <<call, issued, queueVars, worker, fallback, crashed, fate, sends>>

CloseWait(k) ==
    /\ closer[k] = "waiting"
    /\ AllDone
    /\ closer' = [closer EXCEPT ![k] = "returned"]
    /\ UNCHANGED <<call, issued, queueVars, worker, fallback, crashed, fate, sends>>

CloseOnce(k) ==
    /\ closer[k] = "once"
    /\ \E j \in Closers : closer[j] = "returned"
    /\ closer' = [closer EXCEPT ![k] = "returned"]
    /\ UNCHANGED <<call, issued, queueVars, worker, fallback, crashed, fate, sends>>

-----------------------------------------------------------------------------
CallerStep(c) ==
    ReadLock(c) \/ CheckClosed(c) \/ TryQueue(c) \/ TryFallback(c) \/ PublishLocal(c)
WorkerStep == WorkerReceive \/ WorkerReturn \/ WorkerExit
CloseStep(k) == CloseLock(k) \/ CloseQueue(k) \/ CloseWait(k) \/ CloseOnce(k)

Next ==
    /\ ~crashed
    /\ \/ \E c \in Callers : Distributed(c) \/ MQOnly(c) \/ CallerStep(c)
       \/ \E e \in Events : FallbackReturn(e)
       \/ WorkerStep
       \/ \E k \in Closers : Close(k) \/ CloseStep(k)

\* Only the callers and Close are scheduled.
Fairness ==
    /\ \A c \in Callers : WF_vars(~crashed /\ CallerStep(c))
    /\ \A k \in Closers : WF_vars(~crashed /\ CloseStep(k))

Spec == Init /\ [][Next]_vars /\ Fairness

\* Every amqpPub.Publish returns, and the worker goes on.
BrokerAnswers ==
    /\ WF_vars(~crashed /\ WorkerStep)
    /\ \A e \in Events : WF_vars(~crashed /\ FallbackReturn(e))

-----------------------------------------------------------------------------
(***************************************************************************)
(* Properties                                                              *)
(***************************************************************************)

\* Every variable has its type; the queue and the fallback goroutines keep
\* within their capacities.
TypeOK ==
    /\ call \in [Callers -> [pc : {"idle", "rlock", "check", "queue", "fallback", "local"},
                             event : Events \cup {NoEvent}, local : BOOLEAN]]
    /\ issued \in 0..MaxEvents
    /\ closed \in BOOLEAN
    /\ mqQueue \in Seq(Events) /\ Len(mqQueue) <= QueueCap
    /\ chClosed \in BOOLEAN
    /\ worker \in [pc : {"receive", "sending", "exited"}, event : Events \cup {NoEvent}]
    /\ fallback \subseteq Events /\ Cardinality(fallback) <= SemCap
    /\ closer \in [Closers -> {"idle", "lock", "locked", "waiting", "once", "returned"}]
    /\ crashed \in BOOLEAN
    /\ fate \in [Events -> {"none", "queued", "fallback", "dropped"}]
    /\ sends \in [Events -> Nat]

\* No publish ever sends into the queue after Close has closed it: the process
\* does not panic, however calls of Distributed, MQOnly and Close overlap.
NoPanic == ~crashed

\* An event reaches the broker at most once, and one that enqueue reported as
\* dropped never does.
SentOnce ==
    \A e \in Events :
        /\ sends[e] <= 1
        /\ sends[e] = 1 => fate[e] \in {"queued", "fallback"}

\* Once Close has returned every event enqueue accepted has been given to the
\* broker, and no goroutine that sends is left.
CloseDrains ==
    (\E k \in Closers : closer[k] = "returned") =>
        /\ AllDone
        /\ \A e \in Events : fate[e] \in {"queued", "fallback"} => sends[e] = 1

\* A publish returns although the broker may never answer: with the queue and
\* the semaphore full the event is dropped, and a Close that waits for the broker
\* holds no lock.
PublishReturns ==
    \A c \in Callers : call[c].pc # "idle" ~> call[c].pc = "idle"

\* Close returns, for every caller of it, if the broker answers.
CloseReturns ==
    BrokerAnswers => \A k \in Closers : closer[k] # "idle" ~> closer[k] = "returned"

-----------------------------------------------------------------------------
\* What a comment says of the publisher and its code does not do.

\* "The payload can be of any type" (event.go:14): Publish calls String on the
\* reflect.TypeOf of a nil payload, which panics in mqWorker, a goroutine nobody
\* recovers.
AnyPayload == \A e \in Events : sends[e] = 1 /\ e \in NilEvents => ~crashed
=============================================================================
