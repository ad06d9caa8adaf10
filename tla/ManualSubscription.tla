------------------------- MODULE ManualSubscription -------------------------
(***************************************************************************)
(* A queue of the broker and the manual subscriptions to it:               *)
(* SubscribeManual of ext/amqp/amqpclt/subscribe.go, whose goroutine       *)
(* decodes what the broker pushes and offers it on an unbuffered channel,  *)
(* and the Ack and Nack of a Delivery.  ReceiveLoop extends it with the    *)
(* goroutine that receives the deliveries.                                 *)
(*                                                                         *)
(* A receiver is one process with one subscription: it has an AMQP channel *)
(* of its own, which may break at any time.  The broker keeps what it has  *)
(* pushed and not seen settled, and makes it ready again when the channel  *)
(* is gone.  The order of the ready messages is not modelled.              *)
(***************************************************************************)
EXTENDS Naturals, Sequences, FiniteSets, SequencesExt

CONSTANTS
    Receivers,    \* subscriptions to the queue
    Messages,     \* messages published to the queue
    Undecodable,  \* those whose body does not decode
    Prefetch,     \* WithQoS: unsettled messages per channel, 0 for any number
    NoMessage

ASSUME SubscriptionConstantsOK ==
    /\ Undecodable \subseteq Messages
    /\ Prefetch \in Nat
    /\ NoMessage \notin Messages
    /\ Receivers \cap {"waiting", "acked", "dead"} = {}

VARIABLES
    ready,    \* the messages in the queue that no channel holds
    held,     \* the messages pushed on each channel and not settled
    acked,    \* the messages acknowledged
    dead,     \* the messages rejected: in the dead-letter queue, or gone
    link,     \* each receiver's AMQP channel
    buffer,   \* what has been pushed and not read from msgCh
    fwd,      \* the forwarding goroutine: [pc, msg]
    ctxDone,  \* has the ctx of the subscription been cancelled?
    misuse,   \* history: was a delivery settled that was not held?
    refused   \* history: the messages given up as undecodable, dead or exhausted

brokerVars == <<ready, held, acked, dead>>
forwardVars == <<buffer, fwd>>
subscriptionVars ==
    <<brokerVars, link, forwardVars, ctxDone, misuse, refused>>

Idle == [pc |-> "none", msg |-> NoMessage]

SubscriptionInit ==
    /\ ready = Messages
    /\ held = [r \in Receivers |-> {}]
    /\ acked = {}
    /\ dead = {}
    /\ link = [r \in Receivers |-> "none"]
    /\ buffer = [r \in Receivers |-> <<>>]
    /\ fwd = [r \in Receivers |-> Idle]
    /\ ctxDone = [r \in Receivers |-> FALSE]
    /\ misuse = FALSE
    /\ refused = {}

-----------------------------------------------------------------------------
\* The broker

HasCredit(r) == Prefetch = 0 \/ Cardinality(held[r]) < Prefetch

Push(r, m) ==
    /\ link[r] = "open"
    /\ m \in ready
    /\ HasCredit(r)
    /\ ready' = ready \ {m}
    /\ held' = [held EXCEPT ![r] = @ \cup {m}]
    /\ buffer' = IF fwd[r].pc = "exited" THEN buffer
                                          ELSE [buffer EXCEPT ![r] = Append(@, m)]
    /\ UNCHANGED <<acked, dead, link, fwd, ctxDone, misuse, refused>>

\* A channel closes: what it held is ready again.
CloseLink(r) ==
    /\ link' = [link EXCEPT ![r] = "closed"]
    /\ ready' = ready \cup held[r]
    /\ held' = [held EXCEPT ![r] = {}]

\* Ack and Nack(requeue).  On a closed channel they fail and change nothing; to
\* settle what is not held is an error that closes the channel.
Settle(r, m, how) ==
    IF link[r] # "open"
    THEN UNCHANGED <<brokerVars, link, misuse>>
    ELSE IF m \notin held[r]
    THEN CloseLink(r) /\ misuse' = TRUE /\ UNCHANGED <<acked, dead>>
    ELSE /\ held' = [held EXCEPT ![r] = @ \ {m}]
         /\ acked' = IF how = "ack" THEN acked \cup {m} ELSE acked
         /\ dead' = IF how = "reject" THEN dead \cup {m} ELSE dead
         /\ ready' = IF how = "requeue" THEN ready \cup {m} ELSE ready
         /\ UNCHANGED <<link, misuse>>

Ack(r, m) == Settle(r, m, "ack")
Nack(r, m, requeue) == Settle(r, m, IF requeue THEN "requeue" ELSE "reject")

\* The connection breaks.
ConnectionLost(r) ==
    /\ link[r] = "open"
    /\ CloseLink(r)
    /\ UNCHANGED <<acked, dead, forwardVars, ctxDone, misuse, refused>>

-----------------------------------------------------------------------------
\* SubscribeManual

\* The channel is open and consumes, the forwarding goroutine runs.
OpenSubscription(r) ==
    /\ link' = [link EXCEPT ![r] = "open"]
    /\ fwd' = [fwd EXCEPT ![r].pc = "select"]
    /\ UNCHANGED <<brokerVars, buffer, ctxDone, misuse, refused>>

\* A step of SubscribeRaw fails; the channel it may have opened consumes nothing.
RefuseSubscription(r) ==
    /\ \E l \in {"none", "leaked"} : link' = [link EXCEPT ![r] = l]
    /\ UNCHANGED <<brokerVars, forwardVars, ctxDone, misuse, refused>>

\* A message is read from msgCh and decoded, or rejected at once.
FwdReceive(r) ==
    /\ fwd[r].pc = "select"
    /\ buffer[r] # <<>>
    /\ buffer' = [buffer EXCEPT ![r] = Tail(@)]
    /\ LET m == Head(buffer[r]) IN
       IF m \in Undecodable
       THEN /\ Nack(r, m, FALSE)
            /\ refused' = refused \cup {m}
            /\ UNCHANGED fwd
       ELSE /\ fwd' = [fwd EXCEPT ![r] = [pc |-> "offer", msg |-> m]]
            /\ UNCHANGED <<brokerVars, link, misuse, refused>>
    /\ UNCHANGED ctxDone

\* ctx.Done, at either select, or msgCh closed: what is still in hand or in the
\* buffer, which nobody reads any more, stays unsettled.
FwdExit(r) ==
    /\ \/ fwd[r].pc \in {"select", "offer"} /\ ctxDone[r]
       \/ fwd[r].pc = "select" /\ link[r] = "closed"
    /\ fwd' = [fwd EXCEPT ![r] = [pc |-> "exited", msg |-> NoMessage]]
    /\ buffer' = [buffer EXCEPT ![r] = <<>>]
    /\ UNCHANGED <<brokerVars, link, ctxDone, misuse, refused>>

\* The other end receives the offered delivery from outCh.
TakeDelivery(r) ==
    /\ fwd[r].pc = "offer"
    /\ fwd' = [fwd EXCEPT ![r] = [pc |-> "select", msg |-> NoMessage]]
    /\ UNCHANGED <<brokerVars, link, buffer, ctxDone, misuse, refused>>

OutClosed(r) == fwd[r].pc = "exited"

\* The cleanup function closes the channel.
Cleanup(r) ==
    /\ CloseLink(r)
    /\ UNCHANGED <<acked, dead, forwardVars, ctxDone, misuse, refused>>

CancelCtx(r) ==
    /\ ctxDone' = [ctxDone EXCEPT ![r] = TRUE]
    /\ UNCHANGED <<brokerVars, link, forwardVars, misuse, refused>>

\* The process ends without another step.
ProcessEnds(r) ==
    /\ CloseLink(r)
    /\ fwd' = [fwd EXCEPT ![r] = [pc |-> "exited", msg |-> NoMessage]]
    /\ buffer' = [buffer EXCEPT ![r] = <<>>]
    /\ UNCHANGED <<acked, dead, ctxDone, misuse, refused>>

-----------------------------------------------------------------------------
\* Where a message is, as WorkQueue sees it.
Place(m) ==
    IF m \in acked THEN "acked"
    ELSE IF m \in dead THEN "dead"
    ELSE IF \E r \in Receivers : m \in held[r]
         THEN CHOOSE r \in Receivers : m \in held[r]
         ELSE "waiting"

SubscriptionTypeOK ==
    /\ ready \subseteq Messages
    /\ held \in [Receivers -> SUBSET Messages]
    /\ acked \subseteq Messages
    /\ dead \subseteq Messages
    /\ link \in [Receivers -> {"none", "leaked", "open", "closed"}]
    /\ buffer \in [Receivers -> Seq(Messages)]
    /\ fwd \in [Receivers -> [pc : {"none", "select", "offer", "exited"},
                              msg : Messages \cup {NoMessage}]]
    /\ ctxDone \in [Receivers -> BOOLEAN]
    /\ misuse \in BOOLEAN
    /\ refused \subseteq Messages
=============================================================================
