---------------------------- MODULE ReceiveLoop ----------------------------
(***************************************************************************)
(* What the Consumer of ext/amqp/consumer.go and the Listener of           *)
(* ext/amqp/publisher.go share: Start, the goroutine that takes deliveries *)
(* from a manual subscription one by one, its cleanup, and Stop.           *)
(* MQConsumer and MQListener add what they do with a delivery.             *)
(*                                                                         *)
(* Each receiver is in a process of its own, all of them compete for the   *)
(* messages of one queue.  A process may crash.                            *)
(***************************************************************************)
EXTENDS ManualSubscription

VARIABLES
    loop,       \* the goroutine of Start: [pc, msg, attempt]
    stopping,   \* is a call of Stop waiting?
    finished    \* history: the messages whose handling came to its good end

loopVars == <<subscriptionVars, loop, stopping, finished>>

NoDelivery == [pc |-> "select", msg |-> NoMessage, attempt |-> 0]

LoopInit ==
    /\ SubscriptionInit
    /\ loop = [r \in Receivers |-> [NoDelivery EXCEPT !.pc = "unstarted"]]
    /\ stopping = [r \in Receivers |-> FALSE]
    /\ finished = {}

-----------------------------------------------------------------------------
\* Start and Stop

\* A second Start of a Consumer returns an error and changes nothing; a Listener
\* is started once.
Start(r) ==
    /\ loop[r].pc = "unstarted"
    /\ loop' = [loop EXCEPT ![r].pc = "subscribing"]
    /\ UNCHANGED <<subscriptionVars, stopping, finished>>

\* mutant: Stop only waits.
BugNoCancel(r) ==
    /\ ~stopping[r]
    /\ loop[r].pc \notin {"unstarted", "crashed"}
    /\ stopping' = [stopping EXCEPT ![r] = TRUE]
    /\ UNCHANGED <<subscriptionVars, loop, finished>>

\* Stop may be called any number of times.  Before Start it returns at once and
\* changes nothing (Consumer), or must not be called (Listener).
Stop(r) ==
    /\ ~stopping[r]
    /\ loop[r].pc \notin {"unstarted", "crashed"}
    /\ stopping' = [stopping EXCEPT ![r] = TRUE]
    /\ CancelCtx(r)
    /\ UNCHANGED <<loop, finished>>

StopReturn(r) ==
    /\ stopping[r]
    /\ loop[r].pc = "done"
    /\ stopping' = [stopping EXCEPT ![r] = FALSE]
    /\ UNCHANGED <<subscriptionVars, loop, finished>>

\* The ctx given to Start is cancelled.
ParentCancelled(r) ==
    /\ loop[r].pc # "crashed"
    /\ ~ctxDone[r]
    /\ CancelCtx(r)
    /\ UNCHANGED <<loop, stopping, finished>>

\* The process ends, and whoever waited in Stop with it.
Crash(r) ==
    /\ loop[r].pc \notin {"unstarted", "done", "crashed"}
    /\ loop' = [loop EXCEPT ![r] = [NoDelivery EXCEPT !.pc = "crashed"]]
    /\ ProcessEnds(r)
    /\ stopping' = [stopping EXCEPT ![r] = FALSE]
    /\ UNCHANGED finished

-----------------------------------------------------------------------------
\* The goroutine of Start

Subscribed(r) ==
    /\ loop[r].pc = "subscribing"
    /\ loop' = [loop EXCEPT ![r].pc = "select"]
    /\ OpenSubscription(r)
    /\ UNCHANGED <<stopping, finished>>

\* The cleanup SubscribeManual returned with the error is not called.
SubscribeFailed(r) ==
    /\ loop[r].pc = "subscribing"
    /\ loop' = [loop EXCEPT ![r].pc = "done"]
    /\ RefuseSubscription(r)
    /\ UNCHANGED <<stopping, finished>>

Receive(r) ==
    /\ loop[r].pc = "select"
    /\ TakeDelivery(r)
    /\ loop' = [loop EXCEPT ![r] =
                  [pc |-> "handling", msg |-> fwd[r].msg, attempt |-> 0]]
    /\ UNCHANGED <<stopping, finished>>

LoopExit(r) ==
    /\ loop[r].pc = "select"
    /\ ctxDone[r] \/ OutClosed(r)
    /\ loop' = [loop EXCEPT ![r].pc = "cleanup"]
    /\ UNCHANGED <<subscriptionVars, stopping, finished>>

\* mutant: the cleanup is not deferred.
BugNoCleanup(r) ==
    /\ loop[r].pc = "cleanup"
    /\ loop' = [loop EXCEPT ![r].pc = "done"]
    /\ UNCHANGED <<subscriptionVars, stopping, finished>>

\* The deferred calls: cleanup, then close(c.done).
LoopEnds(r) ==
    /\ loop[r].pc = "cleanup"
    /\ loop' = [loop EXCEPT ![r].pc = "done"]
    /\ Cleanup(r)
    /\ UNCHANGED <<stopping, finished>>

-----------------------------------------------------------------------------
\* handle returns: the loop is back at its select.
Handled(r) == loop' = [loop EXCEPT ![r] = NoDelivery]

StartOrStop(r) ==
    Start(r) \/ Stop(r) \/ StopReturn(r) \/ ParentCancelled(r) \/ Crash(r)

SelectStep(r) ==
    Subscribed(r) \/ SubscribeFailed(r) \/ Receive(r) \/ LoopExit(r) \/ LoopEnds(r)

FwdStep(r) ==
    (FwdReceive(r) \/ FwdExit(r)) /\ UNCHANGED <<loop, stopping, finished>>

PushStep(r) ==
    (\E m \in Messages : Push(r, m)) /\ UNCHANGED <<loop, stopping, finished>>

LinkBreaks(r) == ConnectionLost(r) /\ UNCHANGED <<loop, stopping, finished>>

-----------------------------------------------------------------------------
(***************************************************************************)
(* Properties                                                              *)
(***************************************************************************)

\* No delivery is settled twice: whoever settles one holds it, through retries,
\* cancellation, a message that came back and undecodable ones.
SettledOnce == ~misuse

\* The receivers are workers of a WorkQueue: a message is with one of them or waits,
\* is acknowledged only by the one that has it and "only after the handler
\* succeeded" (consumer.go:55), the classifier dropped it or the receipts were
\* recorded (publisher.go:27), is rejected only when given up, and comes back whole
\* when its receiver stops, crashes or is cut off.
Queue == INSTANCE WorkQueue WITH
            Workers <- Receivers,
            place <- [m \in Messages |-> Place(m)]
ImplementsWorkQueue == Queue!Spec

\* At least once, as a publisher of the queue may take it: a message that is gone from
\* the broker had been through its handler, its hooks or its receipts on some receiver,
\* and one that is dead had been refused, whichever connections broke in between.
SettledForCause == Queue!SettledForCause

\* What a receiver works on (in a handler, a backoff, a hook, the bus or the
\* recorder) is with it at the broker as long as its connection holds: neither
\* waiting for another receiver nor settled, so nobody else whose connection holds
\* works on it.  Once the connection has broken the old handler runs on, and
\* another receiver may work on the same message beside it.
InHand(r) == loop[r].msg # NoMessage /\ link[r] = "open"
InHandIsHeld == \A r \in Receivers : InHand(r) => Place(loop[r].msg) = r

\* When the loop has ended, which is what Stop waits for, the channel is closed:
\* what was prefetched or in hand is back in the queue for the other receivers.
StopGivesBack ==
    \A r \in Receivers : loop[r].pc = "done" => held[r] = {} /\ link[r] # "open"

\* Stop returns if what handles the deliveries does.
StopReturns ==
    \A r \in Receivers : stopping[r] ~> ~stopping[r]

Running(r) == link[r] = "open" /\ ~ctxDone[r]
=============================================================================
