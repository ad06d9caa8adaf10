---------------------------- MODULE DeadLetters ----------------------------
(***************************************************************************)
(* Where a rejected message goes: SubscribeRaw with WithDeadLetterExchange *)
(* (ext/amqp/amqpclt/subscribe.go) declares the exchange and names it in   *)
(* the arguments of the queue; the dead-letter queue behind it is declared *)
(* and bound by ConsumeDLX (ext/amqp/amqpclt/dlx.go), which an operator    *)
(* may call at any time.  The broker drops what it routes to an exchange   *)
(* without a queue.  The name given to WithDeadLetterExchange is taken to  *)
(* be the one DLXNames derives, exchange + ".dlx": with any other the two  *)
(* never meet.                                                             *)
(***************************************************************************)
EXTENDS MQConsumer

VARIABLES
    dlq,     \* the dead-letter queue: "none", "declared" or "bound"
    call,    \* the call of ConsumeDLX: "idle", "open", "declared", "bound" or "consuming"
    parked   \* the dead messages in the dead-letter queue

deadLetterVars == <<dlq, call, parked>>

DeadLettersInit == Init /\ dlq = "none" /\ call = "idle" /\ parked = {}

-----------------------------------------------------------------------------
\* ConsumeDLX.  Exchange, queue and binding are durable: they stay when a later
\* step fails, and a second call finds them.
DeclareDLX ==
    \/ /\ call = "open"
       /\ call' = "declared"
       /\ dlq' = IF dlq = "none" THEN "declared" ELSE dlq
    \/ /\ call = "declared"
       /\ call' = "bound"
       /\ dlq' = "bound"

ConsumeDLX ==
    /\ \/ call = "idle" /\ call' = "open" /\ UNCHANGED dlq
       \/ DeclareDLX
       \/ call = "bound" /\ call' = "consuming" /\ UNCHANGED dlq
       \* A step fails, or the cleanup is called: the channel is closed.
       \/ call # "idle" /\ call' = "idle" /\ UNCHANGED dlq
    /\ UNCHANGED <<vars, parked>>

\* The broker routes each message that has just been rejected.
DeadLettered ==
    /\ Next
    /\ parked' = IF dlq = "bound" THEN parked \cup (dead' \ dead) ELSE parked
    /\ UNCHANGED <<dlq, call>>

DeadLettersSpec ==
    DeadLettersInit /\ [][ConsumeDLX \/ DeadLettered]_<<vars, deadLetterVars>>

-----------------------------------------------------------------------------
\* subscribe.go:59 says that WithDeadLetterExchange enables the dead-letter queue:
\* what a consumer rejects is in it.
RejectedIsParked == dead \subseteq parked
=============================================================================
