----------------------------- MODULE MQListener -----------------------------
(***************************************************************************)
(* The receivers that acknowledge a message when it is delivered, without  *)
(* waiting for its handlers, on a ReceiveLoop: the Listener of             *)
(* ext/amqp/publisher.go, which publishes the message on the local bus and *)
(* records the receipts, and the reader of Subscribe of                    *)
(* ext/amqp/amqpclt/subscribe.go, which hands it to the application.       *)
(*                                                                         *)
(* "finished" are the messages delivered and recorded, on the bus of a     *)
(* Listener without a recorder, or taken by the application.  A publish or *)
(* a Record that panics ends the process: Crash.  For a reader, Start is   *)
(* the call of Subscribe, and LoopEnds the call of its cleanup once the    *)
(* application finds the channel closed; an earlier one is to the          *)
(* goroutines what a broken connection is.                                 *)
(***************************************************************************)
EXTENDS ReceiveLoop

CONSTANT Fleets  \* the kinds of receiver that are run together

ASSUME FleetsOK ==
    Fleets \subseteq [Receivers -> {"recording", "plain", "reader"}]

VARIABLE kind

vars == <<loopVars, kind>>

Init ==
    /\ LoopInit
    /\ kind \in Fleets

-----------------------------------------------------------------------------
\* The Listener's handle.  A message without a body never arrives: decoding
\* always yields one.

\* PublishReport returns receipts: the event is on the bus.
Published(r) ==
    /\ loop[r].pc = "handling"
    /\ kind[r] # "reader"
    /\ loop' = [loop EXCEPT ![r].pc = IF kind[r] = "recording" THEN "recording" ELSE "acking"]
    /\ finished' = IF kind[r] = "recording" THEN finished ELSE finished \cup {loop[r].msg}
    /\ UNCHANGED <<subscriptionVars, stopping>>

\* PublishReport returns an error: a middleware refuses the event.
PublishFailed(r) ==
    /\ loop[r].pc = "handling"
    /\ kind[r] # "reader"
    /\ Nack(r, loop[r].msg, TRUE)
    /\ Handled(r)
    /\ UNCHANGED <<forwardVars, ctxDone, refused, stopping, finished>>

Recorded(r) ==
    /\ loop[r].pc = "recording"
    /\ loop' = [loop EXCEPT ![r].pc = "acking"]
    /\ finished' = finished \cup {loop[r].msg}
    /\ UNCHANGED <<subscriptionVars, stopping>>

\* mutant: a failed Record is logged and the message acknowledged all the same.
BugAckUnrecorded(r) ==
    /\ loop[r].pc = "recording"
    /\ loop' = [loop EXCEPT ![r].pc = "acking"]
    /\ UNCHANGED <<subscriptionVars, stopping, finished>>

\* mutant: given up instead of given back.
BugRejectUnrecorded(r) ==
    /\ loop[r].pc = "recording"
    /\ Nack(r, loop[r].msg, FALSE)
    /\ Handled(r)
    /\ UNCHANGED <<forwardVars, ctxDone, refused, stopping, finished>>

RecordFailed(r) ==
    /\ loop[r].pc = "recording"
    /\ Nack(r, loop[r].msg, TRUE)
    /\ Handled(r)
    /\ UNCHANGED <<forwardVars, ctxDone, refused, stopping, finished>>

Acked(r) ==
    /\ loop[r].pc = "acking"
    /\ Ack(r, loop[r].msg)
    /\ Handled(r)
    /\ UNCHANGED <<forwardVars, ctxDone, refused, stopping, finished>>

-----------------------------------------------------------------------------
\* The reader of Subscribe

\* The application receives the message from outCh; the Ack is next.
HandOver(r) ==
    /\ loop[r].pc = "handling"
    /\ kind[r] = "reader"
    /\ loop' = [loop EXCEPT ![r].pc = "acking"]
    /\ finished' = finished \cup {loop[r].msg}
    /\ UNCHANGED <<subscriptionVars, stopping>>

HandOverCancelled(r) ==
    /\ loop[r].pc = "handling"
    /\ kind[r] = "reader"
    /\ ctxDone[r]
    /\ Nack(r, loop[r].msg, TRUE)
    /\ loop' = [loop EXCEPT ![r] = [NoDelivery EXCEPT !.pc = "cleanup"]]
    /\ UNCHANGED <<forwardVars, ctxDone, refused, stopping, finished>>

-----------------------------------------------------------------------------
LoopStep(r) ==
    \/ SelectStep(r)
    \/ Published(r) \/ PublishFailed(r) \/ Recorded(r) \/ RecordFailed(r) \/ Acked(r)
    \/ HandOver(r) \/ HandOverCancelled(r)

\* A reader has no Stop: its application cancels the ctx.
ReceiverStep(r) ==
    \/ Start(r) \/ (kind[r] # "reader" /\ Stop(r)) \/ StopReturn(r)
    \/ ParentCancelled(r) \/ Crash(r)
    \/ LoopStep(r) \/ FwdStep(r) \/ PushStep(r) \/ LinkBreaks(r)

Next == \E r \in Receivers : ReceiverStep(r) /\ UNCHANGED kind

SafetySpec == Init /\ [][Next]_vars

\* As in MQConsumer; the application of a reader takes what it is handed, or
\* cancels, and calls the cleanup.
Fairness ==
    \A r \in Receivers :
        /\ WF_vars(LoopStep(r) /\ UNCHANGED kind)
        /\ WF_vars(FwdStep(r) /\ UNCHANGED kind)
        /\ WF_vars(StopReturn(r) /\ UNCHANGED kind)
        /\ SF_vars(LoopExit(r) /\ UNCHANGED kind)
        /\ WF_vars(PushStep(r) /\ UNCHANGED kind)

Spec == SafetySpec /\ Fairness
-----------------------------------------------------------------------------
(***************************************************************************)
(* Properties, with those of ReceiveLoop                                   *)
(***************************************************************************)

\* A message is kept as long as the bus or the recorder fails, and while some
\* receiver keeps running one that is received over and over is delivered: only
\* a bus that refuses or a recorder that fails for ever holds it up.
Recovers ==
    \A r \in Receivers :
        /\ SF_vars(Published(r) /\ UNCHANGED kind)
        /\ SF_vars(Recorded(r) /\ UNCHANGED kind)
EveryMessageDelivered ==
    (\E r \in Receivers : <>[]Running(r)) /\ Recovers
        => <>(acked = Messages \ Undecodable /\ dead = Undecodable)
=============================================================================
