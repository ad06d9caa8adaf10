----------------------------- MODULE MQConsumer -----------------------------
(***************************************************************************)
(* The 1:1 reliable Consumer of ext/amqp/consumer.go on a ReceiveLoop: the *)
(* handler with its retries, the classifier, the AfterCommit hooks, and    *)
(* the settlement each outcome has.  Hooks and classifiers return; the     *)
(* timeout of a handler is one of the ways it fails.  "finished" are the   *)
(* messages handled, or dropped by the classifier.                         *)
(***************************************************************************)
EXTENDS ReceiveLoop

CONSTANT MaxRetries  \* retries after the first attempt

ASSUME RetriesOK == MaxRetries \in Nat

vars == loopVars

Init == LoopInit

-----------------------------------------------------------------------------
\* handle

\* The handler has finished; what is left are the AfterCommit hooks.
HandlerOk(r) ==
    /\ loop[r].pc = "handling"
    /\ loop' = [loop EXCEPT ![r].pc = "committing"]
    /\ finished' = finished \cup {loop[r].msg}
    /\ UNCHANGED <<subscriptionVars, stopping>>

\* mutant: a hook that fails sends the message back.
BugHookNacks(r) ==
    /\ loop[r].pc = "committing"
    /\ \E how \in {"ack", "requeue"} : Settle(r, loop[r].msg, how)
    /\ Handled(r)
    /\ UNCHANGED <<forwardVars, ctxDone, refused, stopping, finished>>

\* The hooks have run, whatever they returned.
Committed(r) ==
    /\ loop[r].pc = "committing"
    /\ Ack(r, loop[r].msg)
    /\ Handled(r)
    /\ UNCHANGED <<forwardVars, ctxDone, refused, stopping, finished>>

\* The handler fails: with the ctx cancelled the message goes back ...
HandlerCancelled(r) ==
    /\ loop[r].pc = "handling"
    /\ ctxDone[r]
    /\ Nack(r, loop[r].msg, TRUE)
    /\ Handled(r)
    /\ UNCHANGED <<forwardVars, ctxDone, refused, stopping, finished>>

\* ... else the classifier decides: Drop, ...
HandlerDropped(r) ==
    /\ loop[r].pc = "handling"
    /\ ~ctxDone[r]
    /\ Ack(r, loop[r].msg)
    /\ finished' = finished \cup {loop[r].msg}
    /\ Handled(r)
    /\ UNCHANGED <<forwardVars, ctxDone, refused, stopping>>

\* mutant: gives up with an Ack.
BugAckRejected(r) ==
    /\ loop[r].pc = "handling"
    /\ ~ctxDone[r]
    /\ Ack(r, loop[r].msg)
    /\ refused' = refused \cup {loop[r].msg}
    /\ Handled(r)
    /\ UNCHANGED <<forwardVars, ctxDone, stopping, finished>>

\* ... DeadLetter, and Retry with no attempt left, ...
HandlerRejected(r) ==
    /\ loop[r].pc = "handling"
    /\ ~ctxDone[r]
    /\ Nack(r, loop[r].msg, FALSE)
    /\ refused' = refused \cup {loop[r].msg}
    /\ Handled(r)
    /\ UNCHANGED <<forwardVars, ctxDone, stopping, finished>>

\* mutant: one retry too many.
BugOneMoreRetry(r) ==
    /\ loop[r].pc = "handling"
    /\ ~ctxDone[r]
    /\ loop[r].attempt <= MaxRetries
    /\ loop' = [loop EXCEPT ![r].pc = "backoff"]
    /\ UNCHANGED <<subscriptionVars, stopping, finished>>

\* ... or Retry with attempts left.
HandlerFailed(r) ==
    /\ loop[r].pc = "handling"
    /\ ~ctxDone[r]
    /\ loop[r].attempt < MaxRetries
    /\ loop' = [loop EXCEPT ![r].pc = "backoff"]
    /\ UNCHANGED <<subscriptionVars, stopping, finished>>

BackoffOver(r) ==
    /\ loop[r].pc = "backoff"
    /\ loop' = [loop EXCEPT ![r].pc = "handling", ![r].attempt = @ + 1]
    /\ UNCHANGED <<subscriptionVars, stopping, finished>>

\* mutant: the return after the Nack is missing.
BugNoReturn(r) ==
    /\ loop[r].pc = "backoff"
    /\ ctxDone[r]
    /\ Nack(r, loop[r].msg, TRUE)
    /\ loop' = [loop EXCEPT ![r].pc = "handling"]
    /\ UNCHANGED <<forwardVars, ctxDone, refused, stopping, finished>>

BackoffCancelled(r) ==
    /\ loop[r].pc = "backoff"
    /\ ctxDone[r]
    /\ Nack(r, loop[r].msg, TRUE)
    /\ Handled(r)
    /\ UNCHANGED <<forwardVars, ctxDone, refused, stopping, finished>>

-----------------------------------------------------------------------------
HandlerReturns(r) ==
    \/ HandlerOk(r) \/ HandlerCancelled(r) \/ HandlerDropped(r)
    \/ HandlerRejected(r) \/ HandlerFailed(r)

LoopStep(r) ==
    SelectStep(r) \/ HandlerReturns(r) \/ Committed(r) \/ BackoffOver(r) \/ BackoffCancelled(r)

Next ==
    \E r \in Receivers :
        StartOrStop(r) \/ LoopStep(r) \/ FwdStep(r) \/ PushStep(r) \/ LinkBreaks(r)

SafetySpec == Init /\ [][Next]_vars

\* The goroutines run on, handlers return, backoffs end, the broker pushes what
\* a channel has credit for.  A select that finds several cases ready picks one
\* at random: a done ctx is not passed over for ever.
Fairness ==
    \A r \in Receivers :
        /\ WF_vars(LoopStep(r))
        /\ WF_vars(FwdStep(r))
        /\ WF_vars(StopReturn(r))
        /\ SF_vars(LoopExit(r))
        /\ WF_vars(PushStep(r))

Spec == SafetySpec /\ Fairness
-----------------------------------------------------------------------------
(***************************************************************************)
(* Properties, with those of ReceiveLoop                                   *)
(***************************************************************************)

\* A message whose handler succeeded does not go back to the queue, whatever the
\* hooks and the ctx do: only a broken connection or a crash has it redelivered.
CommittedIsAcked ==
    [][\A r \in Receivers :
         loop[r].pc = "committing" /\ link[r] = "open" /\ loop'[r].pc = "select"
             => loop[r].msg \in acked']_vars

\* While some consumer keeps running every message ends acknowledged or dead,
\* whatever became of the consumers that had it before.
EveryMessageEnds ==
    (\E r \in Receivers : <>[]Running(r)) => <>(acked \cup dead = Messages)
=============================================================================
