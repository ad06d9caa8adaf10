-------------------------- MODULE ReceiveLoopProofs --------------------------
(***************************************************************************)
(* Who has a message, for every number of receivers and messages: what a   *)
(* ReceiveLoop's steps keep of the inductive invariant Custody, and the    *)
(* step of WorkQueue each of them is.  MQConsumerProofs and                *)
(* MQListenerProofs add the steps of the receivers themselves.             *)
(***************************************************************************)
EXTENDS ReceiveLoop, Integers, SequencesExt, TLAPS

\* A sequence as the buffer of a delivery channel: the broker puts a message last.
LEMMA PutLast ==
    ASSUME NEW S, NEW q \in Seq(S), NEW e \in S
    PROVE  /\ Append(q, e) \in Seq(S)
           /\ ToSet(Append(q, e)) = ToSet(q) \cup {e}
           /\ IsInjective(q) /\ e \notin ToSet(q) => IsInjective(Append(q, e))
<1> DEFINE r == Append(q, e)
<1>1. /\ r \in Seq(S) /\ DOMAIN q = 1..Len(q) /\ DOMAIN r = 1..(Len(q) + 1)
      /\ r[Len(q) + 1] = e /\ \A i \in DOMAIN q : r[i] = q[i]
  OBVIOUS
<1>2. \A i \in DOMAIN r : i \in DOMAIN q \/ i = Len(q) + 1
  OBVIOUS
<1>3. DOMAIN q \subseteq DOMAIN r /\ Len(q) + 1 \in DOMAIN r
  OBVIOUS
<1> HIDE DEF r
<1>4. ToSet(r) = ToSet(q) \cup {e}
  BY <1>1, <1>2, <1>3, Zenon DEF ToSet
<1>5. IsInjective(q) /\ e \notin ToSet(q) => IsInjective(r)
  BY <1>1, <1>2, <1>3 DEF IsInjective, ToSet
<1>6. QED
  BY <1>1, <1>4, <1>5 DEF r

\* The forwarding goroutine takes the first message.
LEMMA TakeFirst ==
    ASSUME NEW S, NEW q \in Seq(S), q # <<>>
    PROVE  /\ Tail(q) \in Seq(S) /\ Head(q) \in S
           /\ ToSet(q) = ToSet(Tail(q)) \cup {Head(q)}
           /\ IsInjective(q) => IsInjective(Tail(q)) /\ Head(q) \notin ToSet(Tail(q))
<1> DEFINE r == Tail(q)
<1>1. /\ r \in Seq(S) /\ Head(q) \in S /\ 1 \in DOMAIN q /\ q[1] = Head(q)
      /\ DOMAIN r \subseteq Nat \ {0}
      /\ \A i \in DOMAIN r : i + 1 \in DOMAIN q /\ r[i] = q[i + 1]
  OBVIOUS
<1>2. \A i \in DOMAIN q : q[i] = Head(q) \/ (i - 1 \in DOMAIN r /\ r[i - 1] = q[i])
  OBVIOUS
<1> HIDE DEF r
<1>3. ToSet(q) \subseteq ToSet(r) \cup {Head(q)}
  BY <1>2, ZenonT(60) DEF ToSet
<1>4. ToSet(r) \cup {Head(q)} \subseteq ToSet(q)
  BY <1>1, ZenonT(60) DEF ToSet
<1>5. IsInjective(q) => IsInjective(r) /\ Head(q) \notin ToSet(r)
  BY <1>1 DEF IsInjective, ToSet
<1>6. QED
  BY <1>1, <1>3, <1>4, <1>5, Zenon DEF r

\* Where a loop has no delivery in hand, and where it has one.
Resting == {"unstarted", "subscribing", "select", "cleanup", "done", "crashed"}
Busy == {"handling", "committing", "backoff", "recording", "acking"}
LoopStates ==
    [Receivers -> [pc : Resting \cup Busy, msg : Messages \cup {NoMessage}, attempt : Nat]]

\* The types of the variables.
Types ==
    /\ SubscriptionTypeOK
    /\ loop \in LoopStates
    /\ stopping \in [Receivers -> BOOLEAN]
    /\ finished \subseteq Messages

\* No message is in two places at the broker.
Apart ==
    /\ ready \cap acked = {} /\ ready \cap dead = {} /\ acked \cap dead = {}
    /\ \A r \in Receivers :
         /\ held[r] \cap (ready \cup acked \cup dead) = {}
         /\ \A q \in Receivers : q # r => held[q] \cap held[r] = {}

\* A channel that is not open holds nothing, and the goroutines of a receiver are
\* where its channel allows them to be.
Linked(r) ==
    /\ link[r] # "open" => held[r] = {}
    /\ link[r] = "none" => buffer[r] = <<>> /\ fwd[r] = Idle
    /\ loop[r].pc \in {"unstarted", "subscribing"} => link[r] = "none"
    /\ loop[r].pc = "done" => link[r] # "open"
    /\ loop[r].pc \in Resting <=> loop[r].msg = NoMessage
    /\ fwd[r].pc = "offer" <=> fwd[r].msg # NoMessage

\* On an open channel what is on its way, offered and in hand is held, and each
\* message is in one of these places: nobody settles what it does not hold.
OnItsWay(r) ==
    link[r] = "open" =>
        /\ IsInjective(buffer[r])
        /\ ToSet(buffer[r]) \subseteq held[r]
        /\ fwd[r].msg # NoMessage => fwd[r].msg \in held[r] \ ToSet(buffer[r])
        /\ loop[r].msg # NoMessage => loop[r].msg \in held[r] \ ToSet(buffer[r])
        /\ loop[r].msg # NoMessage => loop[r].msg # fwd[r].msg

\* The inductive invariant.
Custody ==
    /\ Types
    /\ Apart
    /\ \A r \in Receivers : Linked(r) /\ OnItsWay(r)
    /\ SettledOnce
-----------------------------------------------------------------------------
\* What the steps of a receiver do.

\* What concerns the receivers other than r stays.
OthersStay(r) ==
    \A q \in Receivers \ {r} :
        /\ loop'[q] = loop[q] /\ link'[q] = link[q] /\ held'[q] = held[q]
        /\ buffer'[q] = buffer[q] /\ fwd'[q] = fwd[q]

\* The loop of r goes to p with the message m in hand.
Goes(r, p, m) ==
    /\ loop' \in LoopStates
    /\ loop'[r].pc = p /\ loop'[r].msg = m
    /\ \A q \in Receivers \ {r} : loop'[q] = loop[q]

\* A loop that goes on keeps what it has in hand.
LEMMA LoopGoes ==
    ASSUME loop \in LoopStates, NEW r \in Receivers, NEW p \in Resting \cup Busy,
           loop' = [loop EXCEPT ![r].pc = p]
    PROVE  Goes(r, p, loop[r].msg)
BY DEF LoopStates, Goes

\* A loop that takes a delivery, or is done with one.
LEMMA LoopTurns ==
    ASSUME loop \in LoopStates, NEW r \in Receivers, NEW p \in Resting \cup Busy,
           NEW m \in Messages \cup {NoMessage},
           loop' = [loop EXCEPT ![r] = [pc |-> p, msg |-> m, attempt |-> 0]]
    PROVE  Goes(r, p, m)
BY DEF LoopStates, Goes

\* What is true of a receiver stays true as long as nothing of it changes.
LEMMA OthersKeep ==
    ASSUME \A q \in Receivers : Linked(q) /\ OnItsWay(q),
           NEW r \in Receivers, OthersStay(r), Linked(r)', OnItsWay(r)'
    PROVE  \A q \in Receivers : Linked(q)' /\ OnItsWay(q)'
<1> SUFFICES ASSUME NEW q \in Receivers, q # r
             PROVE  Linked(q)' /\ OnItsWay(q)'
  OBVIOUS
<1>1. Linked(q)'
  BY DEF Linked, OthersStay
<1>2. OnItsWay(q)'
  BY DEF OnItsWay, OthersStay
<1>3. QED
  BY <1>1, <1>2

\* A step of the loop that does not touch the subscription.
LEMMA MoveKeepsCustody ==
    ASSUME Custody, NEW r \in Receivers, NEW p \in Resting \cup Busy,
           Goes(r, p, loop[r].msg), p \in Resting <=> loop[r].pc \in Resting,
           p \in {"unstarted", "subscribing"} => link[r] = "none", p = "done" => link[r] # "open",
           UNCHANGED subscriptionVars, stopping' \in [Receivers -> BOOLEAN],
           finished' \subseteq Messages
    PROVE  Custody'
<1> USE DEF Custody, subscriptionVars, brokerVars, forwardVars
<1>1. Types'
  BY DEF Types, SubscriptionTypeOK, Goes
<1>2. Apart' /\ SettledOnce'
  BY DEF Apart, SettledOnce
<1>3. Linked(r)' /\ OnItsWay(r)' /\ OthersStay(r)
  BY DEF Linked, OnItsWay, OthersStay, Goes, Idle
<1>4. QED
  BY <1>1, <1>2, <1>3, OthersKeep, Zenon

\* What settling a held message, or one of a closed channel, does at the broker.
Settles(r, m) ==
    /\ Apart' /\ link' = link /\ misuse' = misuse
    /\ ready' \subseteq Messages /\ acked' \subseteq Messages /\ dead' \subseteq Messages
    /\ held' \in [Receivers -> SUBSET Messages]
    /\ held'[r] = held[r] \ {m}
    /\ \A q \in Receivers \ {r} : held'[q] = held[q]

\* To settle what is held, or on a closed channel, is no misuse.
LEMMA SettleKeepsApart ==
    ASSUME Types, Apart, NEW r \in Receivers, NEW m \in Messages,
           link[r] = "open" => m \in held[r], link[r] # "open" => held[r] = {},
           NEW how \in {"ack", "reject", "requeue"}, Settle(r, m, how)
    PROVE  Settles(r, m)
<1>1. CASE link[r] # "open"
  BY <1>1 DEF Settles, Settle, brokerVars, Types, SubscriptionTypeOK, Apart
<1>2. CASE link[r] = "open"
  <2>1. /\ held' = [held EXCEPT ![r] = @ \ {m}]
        /\ acked' = IF how = "ack" THEN acked \cup {m} ELSE acked
        /\ dead' = IF how = "reject" THEN dead \cup {m} ELSE dead
        /\ ready' = IF how = "requeue" THEN ready \cup {m} ELSE ready
        /\ link' = link /\ misuse' = misuse
    BY <1>2 DEF Settle
  <2>2. /\ held' \in [Receivers -> SUBSET Messages] /\ held'[r] = held[r] \ {m}
        /\ \A q \in Receivers \ {r} : held'[q] = held[q]
    BY <2>1 DEF Types, SubscriptionTypeOK
  <2>3. ready' \subseteq Messages /\ acked' \subseteq Messages /\ dead' \subseteq Messages
    BY <2>1 DEF Types, SubscriptionTypeOK
  <2>4. m \notin ready \cup acked \cup dead /\ \A q \in Receivers \ {r} : m \notin held[q]
    BY <1>2 DEF Apart
  <2>5. Apart'
    BY <2>1, <2>2, <2>4 DEF Apart
  <2>6. QED
    BY <2>1, <2>2, <2>3, <2>5 DEF Settles
<1>3. QED
  BY <1>1, <1>2

\* The loop settles the delivery in hand.
LEMMA SettleKeepsCustody ==
    ASSUME Custody, NEW r \in Receivers, NEW how \in {"ack", "reject", "requeue"},
           loop[r].msg # NoMessage, Settle(r, loop[r].msg, how),
           NEW p \in {"select", "cleanup"}, Goes(r, p, NoMessage),
           UNCHANGED <<forwardVars, ctxDone, stopping>>,
           finished' \subseteq Messages, refused' \subseteq Messages
    PROVE  Custody'
<1> USE DEF Custody
<1>1. loop[r].msg \in Messages
  BY DEF Types, LoopStates
<1>2. (link[r] = "open" => loop[r].msg \in held[r]) /\ (link[r] # "open" => held[r] = {})
  BY DEF OnItsWay, Linked
<1>3. Settles(r, loop[r].msg)
  BY <1>1, <1>2, SettleKeepsApart
<1>4. Types'
  BY <1>3 DEF Settles, Types, SubscriptionTypeOK, Goes, forwardVars
<1>5. Linked(r)' /\ OnItsWay(r)' /\ OthersStay(r)
  BY <1>2, <1>3 DEF Settles, Linked, OnItsWay, OthersStay, Goes, forwardVars, Idle, Resting
<1>6. QED
  BY <1>3, <1>4, <1>5, OthersKeep DEF Settles, SettledOnce

\* What the closing of a channel does at the broker.
Closes(r) ==
    /\ Apart'
    /\ link' \in [Receivers -> {"none", "leaked", "open", "closed"}]
    /\ link'[r] = "closed" /\ \A q \in Receivers \ {r} : link'[q] = link[q]
    /\ ready' \subseteq Messages
    /\ held' \in [Receivers -> SUBSET Messages]
    /\ held'[r] = {} /\ \A q \in Receivers \ {r} : held'[q] = held[q]

\* A channel that closes gives back what it held.
LEMMA CloseKeepsApart ==
    ASSUME Types, Apart, NEW r \in Receivers, CloseLink(r), acked' = acked, dead' = dead
    PROVE  Closes(r)
<1>1. /\ link' \in [Receivers -> {"none", "leaked", "open", "closed"}]
      /\ link'[r] = "closed" /\ \A q \in Receivers \ {r} : link'[q] = link[q]
      /\ held' \in [Receivers -> SUBSET Messages]
      /\ held'[r] = {} /\ \A q \in Receivers \ {r} : held'[q] = held[q]
  BY DEF CloseLink, Types, SubscriptionTypeOK
<1>2. ready' = ready \cup held[r] /\ ready' \subseteq Messages
  BY DEF CloseLink, Types, SubscriptionTypeOK
<1>3. Apart'
  BY <1>1, <1>2 DEF Apart
<1>4. QED
  BY <1>1, <1>2, <1>3 DEF Closes

-----------------------------------------------------------------------------
\* Each step of a ReceiveLoop keeps Custody.

\* The steps of Start and Stop: only a crash does more than move the loop.
LEMMA StartOrStopKeepsCustody ==
    ASSUME Custody, NEW r \in Receivers, StartOrStop(r)
    PROVE  Custody'
<1> USE DEF Custody
<1>1. CASE Start(r)
  <2>1. Goes(r, "subscribing", loop[r].msg) /\ UNCHANGED subscriptionVars
    BY <1>1, LoopGoes DEF Start, Types, Resting
  <2>2. QED
    BY <1>1, <2>1, MoveKeepsCustody DEF Start, Types, Linked, Resting
<1>2. CASE Stop(r) \/ ParentCancelled(r)
  <2>1. /\ UNCHANGED <<brokerVars, link, forwardVars, misuse, refused, loop, finished>>
        /\ ctxDone' = [ctxDone EXCEPT ![r] = TRUE]
        /\ stopping' = [stopping EXCEPT ![r] = TRUE] \/ stopping' = stopping
    BY <1>2 DEF Stop, ParentCancelled, CancelCtx
  <2>2. Types'
    BY <2>1 DEF Types, SubscriptionTypeOK, brokerVars, forwardVars
  <2>3. Apart' /\ SettledOnce' /\ \A q \in Receivers : Linked(q)' /\ OnItsWay(q)'
    BY <2>1 DEF Apart, SettledOnce, Linked, OnItsWay, brokerVars, forwardVars
  <2>4. QED
    BY <2>2, <2>3
<1>3. CASE StopReturn(r)
  <2>1. UNCHANGED <<subscriptionVars, loop, finished>> /\ stopping' \in [Receivers -> BOOLEAN]
    BY <1>3 DEF StopReturn, Types
  <2>2. Types'
    BY <2>1 DEF Types, SubscriptionTypeOK, subscriptionVars, brokerVars, forwardVars
  <2>3. Apart' /\ SettledOnce' /\ \A q \in Receivers : Linked(q)' /\ OnItsWay(q)'
    BY <2>1 DEF Apart, SettledOnce, Linked, OnItsWay, subscriptionVars, brokerVars, forwardVars
  <2>4. QED
    BY <2>2, <2>3
<1>4. CASE Crash(r)
  <2>1. /\ CloseLink(r) /\ UNCHANGED <<acked, dead, ctxDone, misuse, refused, finished>>
        /\ fwd' = [fwd EXCEPT ![r] = [pc |-> "exited", msg |-> NoMessage]]
        /\ buffer' = [buffer EXCEPT ![r] = <<>>]
        /\ stopping' = [stopping EXCEPT ![r] = FALSE]
    BY <1>4 DEF Crash, ProcessEnds
  <2>2. Goes(r, "crashed", NoMessage)
    <3>1. [NoDelivery EXCEPT !.pc = "crashed"]
             = [pc |-> "crashed", msg |-> NoMessage, attempt |-> 0]
      BY DEF NoDelivery
    <3>2. QED
      BY <1>4, <3>1, LoopTurns DEF Crash, Types, Resting
  <2>3. Closes(r)
    BY <2>1, CloseKeepsApart
  <2>4. Types'
    <3>1. fwd' \in [Receivers -> [pc : {"none", "select", "offer", "exited"},
                                 msg : Messages \cup {NoMessage}]]
      BY <2>1 DEF Types, SubscriptionTypeOK
    <3>2. buffer' \in [Receivers -> Seq(Messages)] /\ stopping' \in [Receivers -> BOOLEAN]
      BY <2>1 DEF Types, SubscriptionTypeOK
    <3>3. QED
      BY <2>1, <2>2, <2>3, <3>1, <3>2 DEF Closes, Goes, Types, SubscriptionTypeOK
  <2>5. Linked(r)' /\ OnItsWay(r)' /\ OthersStay(r)
    BY <2>1, <2>2, <2>3 DEF Closes, Goes, Types, SubscriptionTypeOK, Linked, OnItsWay, OthersStay,
                            Resting
  <2>6. QED
    BY <2>1, <2>3, <2>4, <2>5, OthersKeep DEF Closes, SettledOnce
<1>5. QED
  BY <1>1, <1>2, <1>3, <1>4 DEF StartOrStop

\* The steps of the loop around the handling of deliveries.
LEMMA SelectStepKeepsCustody ==
    ASSUME Custody, NEW r \in Receivers, SelectStep(r)
    PROVE  Custody'
<1> USE DEF Custody
<1>1. CASE Subscribed(r)
  <2>1. /\ link' = [link EXCEPT ![r] = "open"]
        /\ fwd' = [fwd EXCEPT ![r].pc = "select"]
        /\ UNCHANGED <<brokerVars, buffer, ctxDone, misuse, refused, stopping, finished>>
        /\ Goes(r, "select", loop[r].msg)
    BY <1>1, LoopGoes DEF Subscribed, OpenSubscription, Types, Resting
  <2>2. /\ link[r] = "none" /\ held[r] = {} /\ buffer[r] = <<>> /\ fwd[r] = Idle
        /\ loop[r].msg = NoMessage
    BY <1>1 DEF Subscribed, Linked, Resting
  <2>3. Types'
    BY <2>1 DEF Types, SubscriptionTypeOK, brokerVars, Goes
  <2>4. Apart' /\ SettledOnce'
    BY <2>1 DEF Apart, SettledOnce, brokerVars
  <2>5. link'[r] = "open" /\ fwd'[r] = [pc |-> "select", msg |-> NoMessage] /\ OthersStay(r)
    BY <2>1, <2>2 DEF Types, SubscriptionTypeOK, OthersStay, Goes, Idle, brokerVars
  <2>6. IsInjective(<<>>) /\ ToSet(<<>>) = {}
    BY DEF IsInjective, ToSet
  <2>7. Linked(r)' /\ OnItsWay(r)'
    BY <2>1, <2>2, <2>5, <2>6 DEF Linked, OnItsWay, Goes, Resting, brokerVars
  <2>8. QED
    BY <2>3, <2>4, <2>5, <2>7, OthersKeep
<1>2. CASE SubscribeFailed(r)
  <2>1. PICK l \in {"none", "leaked"} : link' = [link EXCEPT ![r] = l]
    BY <1>2 DEF SubscribeFailed, RefuseSubscription
  <2>2. /\ UNCHANGED <<brokerVars, forwardVars, ctxDone, misuse, refused, stopping, finished>>
        /\ Goes(r, "done", NoMessage) /\ link[r] = "none" /\ held[r] = {} /\ loop[r].msg = NoMessage
    BY <1>2, LoopGoes DEF SubscribeFailed, RefuseSubscription, Types, Linked, Resting
  <2>3. Types'
    BY <2>1, <2>2 DEF Types, SubscriptionTypeOK, brokerVars, forwardVars, Goes
  <2>4. Apart' /\ SettledOnce'
    BY <2>2 DEF Apart, SettledOnce, brokerVars
  <2>5. link'[r] = l /\ OthersStay(r)
    BY <2>1, <2>2 DEF Types, SubscriptionTypeOK, OthersStay, Goes, brokerVars, forwardVars
  <2>6. Linked(r)' /\ OnItsWay(r)'
    BY <2>2, <2>5 DEF Linked, OnItsWay, Goes, Resting, brokerVars, forwardVars
  <2>7. QED
    BY <2>3, <2>4, <2>5, <2>6, OthersKeep
<1>3. CASE Receive(r)
  <2>1. /\ fwd[r].pc = "offer"
        /\ fwd' = [fwd EXCEPT ![r] = [pc |-> "select", msg |-> NoMessage]]
        /\ UNCHANGED <<brokerVars, link, buffer, ctxDone, misuse, refused, stopping, finished>>
        /\ loop[r].pc = "select"
    BY <1>3 DEF Receive, TakeDelivery
  <2>2. fwd[r].msg \in Messages /\ fwd[r].msg # NoMessage
    BY <2>1 DEF Linked, Types, SubscriptionTypeOK
  <2>3. Goes(r, "handling", fwd[r].msg)
    BY <1>3, <2>2, LoopTurns DEF Receive, Types, Busy
  <2>4. fwd'[r] = [pc |-> "select", msg |-> NoMessage] /\ OthersStay(r)
    BY <2>1, <2>3 DEF Types, SubscriptionTypeOK, OthersStay, Goes, brokerVars
  <2>5. fwd' \in [Receivers -> [pc : {"none", "select", "offer", "exited"},
                               msg : Messages \cup {NoMessage}]]
    BY <2>1 DEF Types, SubscriptionTypeOK
  <2>6. Types' /\ Apart' /\ SettledOnce'
    BY <2>1, <2>3, <2>5 DEF Types, SubscriptionTypeOK, brokerVars, Goes, Apart, SettledOnce
  <2>7. Linked(r)'
    BY <2>1, <2>2, <2>3, <2>4 DEF Linked, Goes, Resting, Idle, brokerVars
  <2>8. OnItsWay(r)'
    BY <2>1, <2>2, <2>3, <2>4 DEF OnItsWay, Goes, brokerVars
  <2>9. QED
    BY <2>4, <2>6, <2>7, <2>8, OthersKeep
<1>4. CASE LoopExit(r)
  <2>1. Goes(r, "cleanup", loop[r].msg) /\ UNCHANGED <<subscriptionVars, stopping, finished>>
    BY <1>4, LoopGoes DEF LoopExit, Types, Resting
  <2>2. QED
    BY <1>4, <2>1, MoveKeepsCustody DEF LoopExit, Types, Resting
<1>5. CASE LoopEnds(r)
  <2>1. /\ CloseLink(r)
        /\ UNCHANGED <<acked, dead, forwardVars, ctxDone, misuse, refused, stopping, finished>>
        /\ Goes(r, "done", NoMessage) /\ loop[r].msg = NoMessage /\ loop[r].pc = "cleanup"
    BY <1>5, LoopGoes DEF LoopEnds, Cleanup, Types, Linked, Resting
  <2>2. Closes(r)
    BY <2>1, CloseKeepsApart
  <2>3. Types'
    BY <2>1, <2>2 DEF Closes, Goes, Types, SubscriptionTypeOK, forwardVars
  <2>4. Linked(r)' /\ OnItsWay(r)' /\ OthersStay(r)
    BY <2>1, <2>2 DEF Closes, Goes, Linked, OnItsWay, OthersStay, Resting, forwardVars
  <2>5. QED
    BY <2>1, <2>2, <2>3, <2>4, OthersKeep DEF Closes, SettledOnce
<1>6. QED
  BY <1>1, <1>2, <1>3, <1>4, <1>5 DEF SelectStep

\* The steps of the forwarding goroutine: one of an undecodable message settles it.
LEMMA FwdStepKeepsCustody ==
    ASSUME Custody, NEW r \in Receivers, FwdStep(r)
    PROVE  Custody'
<1> USE DEF Custody
<1>1. UNCHANGED <<loop, stopping, finished, ctxDone>>
  BY DEF FwdStep, FwdReceive, FwdExit
<1>2. CASE FwdReceive(r)
  <2> DEFINE m == Head(buffer[r])
  <2>1. /\ fwd[r].pc = "select" /\ buffer[r] \in Seq(Messages) /\ buffer[r] # <<>>
        /\ buffer' = [buffer EXCEPT ![r] = Tail(buffer[r])]
    BY <1>2 DEF FwdReceive, Types, SubscriptionTypeOK
  <2>2. /\ Tail(buffer[r]) \in Seq(Messages) /\ m \in Messages
        /\ ToSet(buffer[r]) = ToSet(Tail(buffer[r])) \cup {m}
    BY <2>1, TakeFirst
  <2>3. link[r] = "open" => IsInjective(Tail(buffer[r])) /\ m \notin ToSet(Tail(buffer[r]))
    BY <2>1, TakeFirst DEF OnItsWay
  <2>4. buffer' \in [Receivers -> Seq(Messages)] /\ buffer'[r] = Tail(buffer[r])
        /\ \A q \in Receivers \ {r} : buffer'[q] = buffer[q]
    BY <2>1, <2>2 DEF Types, SubscriptionTypeOK
  <2>5. fwd[r].msg = NoMessage /\ (link[r] = "open" => m \in held[r]) /\ link[r] # "none"
        /\ (link[r] # "open" => held[r] = {})
    BY <2>1, <2>2 DEF OnItsWay, Linked
  <2>6. CASE m \in Undecodable
    <3>1. Settle(r, m, "reject") /\ refused' = refused \cup {m} /\ fwd' = fwd
      BY <1>2, <2>6 DEF FwdReceive, Nack
    <3>2. Settles(r, m)
      BY <2>2, <2>5, <3>1, SettleKeepsApart
    <3>3. Types'
      BY <1>1, <2>2, <2>4, <3>1, <3>2 DEF Types, SubscriptionTypeOK, Settles
    <3>4. Linked(r)' /\ OthersStay(r)
      BY <1>1, <2>4, <2>5, <3>1, <3>2 DEF Linked, OthersStay, Settles
    <3>5. OnItsWay(r)'
      BY <1>1, <2>2, <2>3, <2>4, <2>5, <3>1, <3>2 DEF OnItsWay, Settles
    <3>6. QED
      BY <3>2, <3>3, <3>4, <3>5, OthersKeep DEF Settles, SettledOnce
  <2>7. CASE m \notin Undecodable
    <3>1. /\ fwd' = [fwd EXCEPT ![r] = [pc |-> "offer", msg |-> m]]
          /\ UNCHANGED <<brokerVars, link, misuse, refused>>
      BY <1>2, <2>7 DEF FwdReceive
    <3>2. fwd' \in [Receivers -> [pc : {"none", "select", "offer", "exited"},
                                 msg : Messages \cup {NoMessage}]]
      BY <2>2, <3>1 DEF Types, SubscriptionTypeOK
    <3>3. fwd'[r] = [pc |-> "offer", msg |-> m] /\ \A q \in Receivers \ {r} : fwd'[q] = fwd[q]
      BY <3>1 DEF Types, SubscriptionTypeOK
    <3>4. m # NoMessage
      BY <2>2, SubscriptionConstantsOK
    <3>5. Types' /\ Apart' /\ SettledOnce'
      BY <1>1, <2>4, <3>1, <3>2 DEF Types, SubscriptionTypeOK, brokerVars, Apart, SettledOnce
    <3>6. Linked(r)' /\ OthersStay(r)
      BY <1>1, <2>4, <2>5, <3>1, <3>3, <3>4 DEF Linked, OthersStay, brokerVars
    <3>7. OnItsWay(r)'
      BY <1>1, <2>2, <2>3, <2>4, <2>5, <3>1, <3>3, <3>4 DEF OnItsWay, brokerVars
    <3>8. QED
      BY <3>5, <3>6, <3>7, OthersKeep
  <2>8. QED
    BY <2>6, <2>7
<1>3. CASE FwdExit(r)
  <2>1. /\ fwd' = [fwd EXCEPT ![r] = [pc |-> "exited", msg |-> NoMessage]]
        /\ buffer' = [buffer EXCEPT ![r] = <<>>]
        /\ UNCHANGED <<brokerVars, link, misuse, refused>>
        /\ fwd[r] # Idle
    BY <1>3 DEF FwdExit, Idle
  <2>2. fwd' \in [Receivers -> [pc : {"none", "select", "offer", "exited"},
                               msg : Messages \cup {NoMessage}]]
    BY <2>1 DEF Types, SubscriptionTypeOK
  <2>3. buffer' \in [Receivers -> Seq(Messages)] /\ buffer'[r] = <<>>
        /\ fwd'[r] = [pc |-> "exited", msg |-> NoMessage] /\ OthersStay(r)
    BY <1>1, <2>1 DEF Types, SubscriptionTypeOK, OthersStay, brokerVars
  <2>4. Types' /\ Apart' /\ SettledOnce'
    BY <1>1, <2>1, <2>2, <2>3 DEF Types, SubscriptionTypeOK, brokerVars, Apart, SettledOnce
  <2>5. IsInjective(<<>>) /\ ToSet(<<>>) = {}
    BY DEF IsInjective, ToSet
  <2>6. Linked(r)' /\ OnItsWay(r)'
    BY <1>1, <2>1, <2>3, <2>5 DEF Linked, OnItsWay, brokerVars
  <2>7. QED
    BY <2>3, <2>4, <2>6, OthersKeep
<1>4. QED
  BY <1>2, <1>3 DEF FwdStep

\* The broker pushes a message no channel holds.
LEMMA PushStepKeepsCustody ==
    ASSUME Custody, NEW r \in Receivers, PushStep(r)
    PROVE  Custody'
<1> USE DEF Custody
<1>1. PICK m \in Messages : Push(r, m)
  BY DEF PushStep
<1>2. /\ link[r] = "open" /\ m \in ready /\ ready' = ready \ {m}
      /\ held' = [held EXCEPT ![r] = held[r] \cup {m}]
      /\ buffer' = IF fwd[r].pc = "exited" THEN buffer
                   ELSE [buffer EXCEPT ![r] = Append(buffer[r], m)]
      /\ UNCHANGED <<acked, dead, link, fwd, ctxDone, misuse, refused, loop, stopping, finished>>
  BY <1>1 DEF Push, PushStep
<1>3. m \notin acked \cup dead /\ \A q \in Receivers : m \notin held[q]
  BY <1>2 DEF Apart
<1>4. /\ held' \in [Receivers -> SUBSET Messages] /\ held'[r] = held[r] \cup {m}
      /\ \A q \in Receivers \ {r} : held'[q] = held[q]
  BY <1>2 DEF Types, SubscriptionTypeOK
<1>5. Apart' /\ SettledOnce'
  BY <1>2, <1>3, <1>4 DEF Apart, SettledOnce
<1>6. buffer[r] \in Seq(Messages)
  BY DEF Types, SubscriptionTypeOK
<1>7. /\ Append(buffer[r], m) \in Seq(Messages)
      /\ ToSet(Append(buffer[r], m)) = ToSet(buffer[r]) \cup {m}
  BY <1>6, PutLast
<1>8. IsInjective(Append(buffer[r], m))
  <2>1. IsInjective(buffer[r]) /\ m \notin ToSet(buffer[r])
    BY <1>2, <1>3 DEF OnItsWay
  <2>2. QED
    BY <1>6, <2>1, PutLast
<1>9. /\ buffer' \in [Receivers -> Seq(Messages)]
      /\ buffer'[r] \in {buffer[r], Append(buffer[r], m)}
      /\ \A q \in Receivers \ {r} : buffer'[q] = buffer[q]
  BY <1>2, <1>7 DEF Types, SubscriptionTypeOK
<1>10. Types'
  <2>1. ready' \subseteq Messages
    BY <1>2 DEF Types, SubscriptionTypeOK
  <2>2. QED
    BY <1>2, <1>4, <1>9, <2>1 DEF Types, SubscriptionTypeOK
<1>11. Linked(r)' /\ OthersStay(r)
  BY <1>2, <1>4, <1>9 DEF Linked, OthersStay
<1>12. OnItsWay(r)'
  BY <1>2, <1>3, <1>4, <1>7, <1>8, <1>9 DEF OnItsWay
<1>13. QED
  BY <1>5, <1>10, <1>11, <1>12, OthersKeep

\* A connection breaks.
LEMMA LinkBreaksKeepsCustody ==
    ASSUME Custody, NEW r \in Receivers, LinkBreaks(r)
    PROVE  Custody'
<1> USE DEF Custody
<1>1. /\ link[r] = "open" /\ CloseLink(r)
      /\ UNCHANGED <<acked, dead, buffer, fwd, ctxDone, misuse, refused, loop, stopping, finished>>
  BY DEF LinkBreaks, ConnectionLost, forwardVars
<1>2. Closes(r)
  BY <1>1, CloseKeepsApart
<1>3. Types'
  BY <1>1, <1>2 DEF Closes, Types, SubscriptionTypeOK
<1>4. Linked(r)' /\ OnItsWay(r)' /\ OthersStay(r)
  BY <1>1, <1>2 DEF Closes, Linked, OnItsWay, OthersStay
<1>5. QED
  BY <1>1, <1>2, <1>3, <1>4, OthersKeep DEF Closes, SettledOnce

\* At first every message is ready and nobody has any.
LEMMA InitIsCustody ==
    ASSUME LoopInit
    PROVE  Custody
<1> USE DEF LoopInit, SubscriptionInit
<1>1. loop = [r \in Receivers |-> [pc |-> "unstarted", msg |-> NoMessage, attempt |-> 0]]
  BY DEF NoDelivery
<1>2. Types
  <2>1. loop \in LoopStates
    BY <1>1 DEF LoopStates, Resting
  <2>2. SubscriptionTypeOK
    <3>1. buffer \in [Receivers -> Seq(Messages)]
      OBVIOUS
    <3>2. fwd \in [Receivers -> [pc : {"none", "select", "offer", "exited"},
                               msg : Messages \cup {NoMessage}]]
      BY DEF Idle
    <3>3. QED
      BY <3>1, <3>2 DEF SubscriptionTypeOK
  <2>3. QED
    BY <2>1, <2>2 DEF Types
<1>3. Apart /\ SettledOnce
  BY DEF Apart, SettledOnce
<1>4. \A r \in Receivers : Linked(r) /\ OnItsWay(r)
  BY <1>1 DEF Linked, OnItsWay, Resting, Idle
<1>5. QED
  BY <1>2, <1>3, <1>4 DEF Custody

\* Nothing changes.
LEMMA StutterKeepsCustody ==
    ASSUME Custody, UNCHANGED loopVars
    PROVE  Custody'
BY DEF Custody, Types, SubscriptionTypeOK, Apart, Linked, OnItsWay, SettledOnce,
       loopVars, subscriptionVars, brokerVars, forwardVars

-----------------------------------------------------------------------------
\* What Custody says of the receivers.

\* A loop that has ended holds nothing, and its channel is not open.
LEMMA CustodyGivesBack ==
    ASSUME Custody
    PROVE  StopGivesBack
BY DEF Custody, Linked, StopGivesBack

-----------------------------------------------------------------------------
\* The step of WorkQueue that each step is.

Places == [m \in Messages |-> Place(m)]
QueueStep == Queue!Next \/ UNCHANGED Queue!vars

\* A message that only one receiver holds is with that one.
LEMMA TheHolder ==
    ASSUME NEW H, NEW m, NEW r \in Receivers, m \in H[r],
           \A q \in Receivers : q # r => m \notin H[q]
    PROVE  (CHOOSE q \in Receivers : m \in H[q]) = r
OBVIOUS

\* The place of a message, read off the broker.
LEMMA PlaceNow ==
    ASSUME Apart, NEW m
    PROVE  /\ m \in acked => Place(m) = "acked"
           /\ m \in dead => Place(m) = "dead"
           /\ \A r \in Receivers : m \in held[r] => Place(m) = r
           /\ (m \notin acked \cup dead /\ \A r \in Receivers : m \notin held[r])
                => Place(m) = "waiting"
<1>1. (m \in acked => m \notin dead) /\ (m \in dead => m \notin acked)
  BY DEF Apart
<1>2. ASSUME NEW r \in Receivers, m \in held[r]
      PROVE  Place(m) = r
  <2>1. m \notin acked /\ m \notin dead /\ \A q \in Receivers : q # r => m \notin held[q]
    BY <1>2 DEF Apart
  <2>2. (CHOOSE q \in Receivers : m \in held[q]) = r
    BY <1>2, <2>1, TheHolder
  <2>3. QED
    BY <1>2, <2>1, <2>2 DEF Place
<1>3. QED
  BY <1>1, <1>2 DEF Place

\* What a receiver with an open channel works on is with it.
LEMMA CustodyIsHeld ==
    ASSUME Custody
    PROVE  InHandIsHeld
<1> SUFFICES ASSUME NEW r \in Receivers, InHand(r)
             PROVE  Place(loop[r].msg) = r
  BY DEF InHandIsHeld
<1>1. loop[r].msg \in held[r]
  BY DEF Custody, OnItsWay, InHand
<1>2. QED
  BY <1>1, PlaceNow DEF Custody

\* The same of its place after a step.
LEMMA PlaceNext ==
    ASSUME Apart', NEW m
    PROVE  /\ m \in acked' => Place(m)' = "acked"
           /\ m \in dead' => Place(m)' = "dead"
           /\ \A r \in Receivers : m \in held'[r] => Place(m)' = r
           /\ (m \notin acked' \cup dead' /\ \A r \in Receivers : m \notin held'[r])
                => Place(m)' = "waiting"
<1>1. (m \in acked' => m \notin dead') /\ (m \in dead' => m \notin acked')
  BY DEF Apart
<1>2. ASSUME NEW r \in Receivers, m \in held'[r]
      PROVE  Place(m)' = r
  <2>1. m \notin acked' /\ m \notin dead' /\ \A q \in Receivers : q # r => m \notin held'[q]
    BY <1>2 DEF Apart
  <2>2. (CHOOSE q \in Receivers : m \in held'[q]) = r
    BY <1>2, <2>1, TheHolder
  <2>3. QED
    BY <1>2, <2>1, <2>2 DEF Place
<1>3. QED
  BY <1>1, <1>2 DEF Place

\* A message stays where the broker leaves it.
LEMMA PlaceStays ==
    ASSUME Apart, Apart', NEW m,
           m \in acked <=> m \in acked', m \in dead <=> m \in dead',
           \A r \in Receivers : m \in held[r] <=> m \in held'[r]
    PROVE  Place(m)' = Place(m)
BY PlaceNow, PlaceNext

\* When the broker does not move, work may still be finished or refused.
LEMMA SameBroker ==
    ASSUME UNCHANGED brokerVars, NEW m \in Messages,
           \/ finished' \in {finished, finished \cup {m}} /\ refused' = refused
           \/ refused' \in {refused, refused \cup {m}} /\ finished' = finished
    PROVE  QueueStep
<1>1. Places' = Places
  BY DEF Places, Place, brokerVars
<1>2. CASE finished' = finished /\ refused' = refused
  BY <1>1, <1>2 DEF QueueStep, Queue!vars, Places
<1>3. CASE finished' = finished \cup {m} /\ refused' = refused
  BY <1>1, <1>3 DEF QueueStep, Queue!Next, Queue!Finish, Places
<1>4. CASE refused' = refused \cup {m} /\ finished' = finished
  BY <1>1, <1>4 DEF QueueStep, Queue!Next, Queue!Refuse, Places
<1>5. QED
  BY <1>2, <1>3, <1>4

\* A channel that closes gives back all it held.
LEMMA CloseIsGiveBack ==
    ASSUME Types, Apart, NEW r \in Receivers, CloseLink(r),
           UNCHANGED <<acked, dead, finished, refused>>
    PROVE  QueueStep
<1>1. Closes(r) /\ held[r] \in SUBSET Messages
  BY CloseKeepsApart DEF Types, SubscriptionTypeOK
<1>2. \A m \in held[r] : Place(m) = r
  BY PlaceNow
<1>3. ASSUME NEW m \in Messages
      PROVE  Place(m)' = IF m \in held[r] THEN "waiting" ELSE Place(m)
  <2>1. CASE m \in held[r]
    <3>1. m \notin acked' \cup dead' /\ \A q \in Receivers : m \notin held'[q]
      BY <1>1, <2>1 DEF Closes, Apart
    <3>2. QED
      BY <1>1, <2>1, <3>1, PlaceNext DEF Closes
  <2>2. CASE m \notin held[r]
    BY <1>1, <2>2, PlaceStays DEF Closes
  <2>3. QED
    BY <2>1, <2>2
<1>4. Queue!GiveBack(r, held[r])
  BY <1>1, <1>2, <1>3 DEF Queue!GiveBack
<1>5. QED
  BY <1>1, <1>4 DEF QueueStep, Queue!Next

\* A settlement is what WorkQueue calls it, or has no effect any more.
LEMMA SettleIsStep ==
    ASSUME Types, Apart, NEW r \in Receivers, NEW m \in Messages,
           link[r] = "open" => m \in held[r], link[r] # "open" => held[r] = {},
           NEW how \in {"ack", "reject", "requeue"}, Settle(r, m, how),
           IF how = "ack" THEN m \in finished' /\ finished' \in {finished, finished \cup {m}}
                          ELSE finished' = finished,
           refused' = IF how = "reject" THEN refused \cup {m} ELSE refused
    PROVE  QueueStep
<1>1. CASE link[r] # "open"
  <2>1. UNCHANGED brokerVars
    BY <1>1 DEF Settle
  <2>2. QED
    BY <2>1, SameBroker
<1>2. CASE link[r] = "open"
  <2>1. Settles(r, m)
    BY SettleKeepsApart
  <2>2. /\ acked' = IF how = "ack" THEN acked \cup {m} ELSE acked
        /\ dead' = IF how = "reject" THEN dead \cup {m} ELSE dead
    BY <1>2 DEF Settle
  <2>3. Place(m) = r
    BY <1>2, PlaceNow
  <2>4. \A q \in Messages \ {m} : Place(q)' = Place(q)
    <3>1. TAKE q \in Messages \ {m}
    <3>2. \A w \in Receivers : q \in held[w] <=> q \in held'[w]
      BY <2>1 DEF Settles
    <3>3. QED
      BY <2>1, <2>2, <3>2, PlaceStays DEF Settles
  <2>5. \A w \in Receivers : m \notin held'[w]
    BY <1>2, <2>1 DEF Settles, Apart
  <2>6. CASE how = "ack"
    <3>1. Place(m)' = "acked"
      BY <2>1, <2>2, <2>6, PlaceNext DEF Settles
    <3>2. Queue!Acknowledge(r, m)
      BY <2>3, <2>4, <2>6, <3>1 DEF Queue!Acknowledge
    <3>3. QED
      BY <3>2 DEF QueueStep, Queue!Next
  <2>7. CASE how = "reject"
    <3>1. Place(m)' = "dead"
      BY <2>1, <2>2, <2>7, PlaceNext DEF Settles
    <3>2. Queue!GiveUp(r, m)
      BY <2>3, <2>4, <2>7, <3>1 DEF Queue!GiveUp
    <3>3. QED
      BY <3>2 DEF QueueStep, Queue!Next
  <2>8. CASE how = "requeue"
    <3>1. m \notin acked' \cup dead'
      BY <1>2, <2>2, <2>8 DEF Apart
    <3>2. Place(m)' = "waiting"
      BY <2>1, <2>5, <3>1, PlaceNext DEF Settles
    <3>3. Queue!GiveBack(r, {m})
      BY <2>3, <2>4, <2>8, <3>2 DEF Queue!GiveBack
    <3>4. QED
      BY <3>3 DEF QueueStep, Queue!Next
  <2>9. QED
    BY <2>6, <2>7, <2>8
<1>3. QED
  BY <1>1, <1>2

\* The broker's push is the taking of a message.
LEMMA PushStepIsTake ==
    ASSUME Custody, Custody', NEW r \in Receivers, PushStep(r)
    PROVE  QueueStep
<1> USE DEF Custody
<1>1. PICK m \in Messages : Push(r, m)
  BY DEF PushStep
<1>2. /\ m \in ready /\ held' = [held EXCEPT ![r] = held[r] \cup {m}]
      /\ UNCHANGED <<acked, dead, refused, finished>>
  BY <1>1 DEF Push, PushStep
<1>3. m \notin acked \cup dead /\ \A q \in Receivers : m \notin held[q]
  BY <1>2 DEF Apart
<1>4. held'[r] = held[r] \cup {m} /\ \A q \in Receivers \ {r} : held'[q] = held[q]
  BY <1>2 DEF Types, SubscriptionTypeOK
<1>5. Place(m) = "waiting" /\ Place(m)' = r
  BY <1>3, <1>4, PlaceNow, PlaceNext
<1>6. \A q \in Messages \ {m} : Place(q)' = Place(q)
  BY <1>2, <1>4, PlaceStays
<1>7. Queue!Take(r, m)
  BY <1>2, <1>5, <1>6 DEF Queue!Take
<1>8. QED
  BY <1>7 DEF QueueStep, Queue!Next

\* The other steps of a ReceiveLoop.
LEMMA LoopIsQueueStep ==
    ASSUME Custody, NEW r \in Receivers,
           StartOrStop(r) \/ SelectStep(r) \/ FwdStep(r) \/ LinkBreaks(r)
    PROVE  QueueStep
<1> USE DEF Custody
<1>1. CASE UNCHANGED <<brokerVars, finished, refused>>
  <2>1. Places' = Places
    BY <1>1 DEF Places, Place, brokerVars
  <2>2. QED
    BY <1>1, <2>1 DEF QueueStep, Queue!vars, Places
<1>2. CASE CloseLink(r) /\ UNCHANGED <<acked, dead, finished, refused>>
  BY <1>2, CloseIsGiveBack
<1>3. CASE FwdReceive(r) /\ finished' = finished /\ Head(buffer[r]) \in Undecodable
  <2> DEFINE m == Head(buffer[r])
  <2>1. Settle(r, m, "reject") /\ refused' = refused \cup {m}
    BY <1>3 DEF FwdReceive, Nack
  <2>2. m \in Messages /\ m \in ToSet(buffer[r])
    BY <1>3, TakeFirst DEF FwdReceive, Types, SubscriptionTypeOK
  <2>3. (link[r] = "open" => m \in held[r]) /\ (link[r] # "open" => held[r] = {})
    BY <2>2 DEF OnItsWay, Linked
  <2>4. QED
    BY <1>3, <2>1, <2>2, <2>3, SettleIsStep
<1>4. CASE StartOrStop(r)
  BY <1>1, <1>2, <1>4 DEF StartOrStop, Start, Stop, StopReturn, ParentCancelled, Crash, CancelCtx,
                          ProcessEnds, subscriptionVars
<1>5. CASE SelectStep(r)
  BY <1>1, <1>2, <1>5 DEF SelectStep, Subscribed, SubscribeFailed, Receive, LoopExit, LoopEnds,
                          OpenSubscription, RefuseSubscription, TakeDelivery, Cleanup,
                          subscriptionVars
<1>6. CASE FwdStep(r)
  BY <1>1, <1>3, <1>6 DEF FwdStep, FwdReceive, FwdExit
<1>7. CASE LinkBreaks(r)
  BY <1>2, <1>7 DEF LinkBreaks, ConnectionLost
<1>8. QED
  BY <1>4, <1>5, <1>6, <1>7

\* The loop settles the delivery in hand.
LEMMA HandSettleIsStep ==
    ASSUME Custody, NEW r \in Receivers, loop[r].msg # NoMessage,
           NEW how \in {"ack", "reject", "requeue"}, Settle(r, loop[r].msg, how),
           IF how = "ack" THEN /\ loop[r].msg \in finished'
                               /\ finished' \in {finished, finished \cup {loop[r].msg}}
                          ELSE finished' = finished,
           refused' = IF how = "reject" THEN refused \cup {loop[r].msg} ELSE refused
    PROVE  QueueStep
<1>1. loop[r].msg \in Messages
  BY DEF Custody, Types, LoopStates
<1>2. (link[r] = "open" => loop[r].msg \in held[r]) /\ (link[r] # "open" => held[r] = {})
  BY DEF Custody, OnItsWay, Linked
<1>3. QED
  BY <1>1, <1>2, SettleIsStep DEF Custody

\* At first every message waits.
LEMMA InitIsQueueInit ==
    ASSUME LoopInit
    PROVE  Queue!Init
<1>1. \A m \in Messages : Place(m) = "waiting"
  BY DEF LoopInit, SubscriptionInit, Place
<1>2. QED
  BY <1>1 DEF Queue!Init, LoopInit, SubscriptionInit

-----------------------------------------------------------------------------
\* The invariant of the receivers, and what their handle may do.

\* Past these points what is in hand is finished: its handler succeeded, or it is
\* delivered.
Done == {"committing", "acking"}
Inv == Custody /\ \A r \in Receivers : loop[r].pc \in Done => loop[r].msg \in finished

\* handle goes on with the delivery in hand.
MovesOn(r, p) ==
    /\ loop[r].pc \in Busy /\ p \in Busy /\ Goes(r, p, loop[r].msg)
    /\ UNCHANGED <<subscriptionVars, stopping>>
    /\ finished' = IF p \in Done /\ loop[r].pc \notin Done THEN finished \cup {loop[r].msg}
                                                         ELSE finished

\* handle settles the delivery in hand and returns.
SettlesHand(r, how, p) ==
    /\ loop[r].pc \in Busy /\ Settle(r, loop[r].msg, how) /\ Goes(r, p, NoMessage)
    /\ UNCHANGED <<forwardVars, ctxDone, stopping>>
    /\ finished' = IF how = "ack" /\ loop[r].pc \notin Done THEN finished \cup {loop[r].msg}
                                                          ELSE finished
    /\ refused' = IF how = "reject" THEN refused \cup {loop[r].msg} ELSE refused

HandleStep(r) ==
    \/ \E p \in Busy : MovesOn(r, p)
    \/ \E how \in {"ack", "reject", "requeue"}, p \in {"select", "cleanup"} : SettlesHand(r, how, p)

\* What is in hand is a message.
LEMMA HandIsMessage ==
    ASSUME Custody, NEW r \in Receivers, loop[r].pc \in Busy
    PROVE  loop[r].msg \in Messages /\ loop[r].msg # NoMessage /\ loop[r].pc \notin Resting
<1>1. loop[r].pc \notin Resting
  BY DEF Busy, Resting
<1>2. QED
  BY <1>1 DEF Custody, Types, LoopStates, Linked

\* A step of handle keeps the invariant and is a step of WorkQueue.
LEMMA HandleKeepsInv ==
    ASSUME Inv, NEW r \in Receivers, HandleStep(r)
    PROVE  Inv' /\ QueueStep
<1>1. Types
  BY DEF Inv, Custody
<1>2. ASSUME NEW p \in Busy, MovesOn(r, p)
      PROVE  Inv' /\ QueueStep
  <2>1. p \notin Resting /\ p \notin {"unstarted", "subscribing"} /\ p # "done"
    BY DEF Busy, Resting
  <2>2. loop[r].msg \in Messages /\ loop[r].pc \notin Resting
    BY <1>2, HandIsMessage DEF MovesOn, Inv
  <2>3. finished' \in {finished, finished \cup {loop[r].msg}} /\ finished' \subseteq Messages
    BY <1>1, <1>2, <2>2 DEF MovesOn, Types
  <2>4. Custody'
    <3>1. stopping' \in [Receivers -> BOOLEAN]
      BY <1>1, <1>2 DEF MovesOn, Types
    <3>2. QED
      BY <1>2, <2>1, <2>2, <2>3, <3>1, MoveKeepsCustody DEF MovesOn, Inv
  <2>5. \A q \in Receivers : loop'[q].pc \in Done => loop'[q].msg \in finished'
    BY <1>2, <2>3 DEF MovesOn, Goes, Inv
  <2>6. QueueStep
    BY <1>2, <2>2, <2>3, SameBroker DEF MovesOn, subscriptionVars
  <2>7. QED
    BY <2>4, <2>5, <2>6 DEF Inv
<1>3. ASSUME NEW how \in {"ack", "reject", "requeue"}, NEW p \in {"select", "cleanup"},
             SettlesHand(r, how, p)
      PROVE  Inv' /\ QueueStep
  <2>1. loop[r].msg \in Messages /\ loop[r].msg # NoMessage
    BY <1>3, HandIsMessage DEF SettlesHand, Inv
  <2>2. finished' \in {finished, finished \cup {loop[r].msg}}
        /\ (how = "ack" => loop[r].msg \in finished') /\ (how # "ack" => finished' = finished)
    BY <1>3 DEF SettlesHand, Inv
  <2>3. finished' \subseteq Messages /\ refused' \subseteq Messages
    BY <1>1, <1>3, <2>1, <2>2 DEF SettlesHand, Types, SubscriptionTypeOK
  <2>4. Custody'
    BY <1>3, <2>1, <2>3, SettleKeepsCustody DEF SettlesHand, Inv
  <2>5. \A q \in Receivers : loop'[q].pc \in Done => loop'[q].msg \in finished'
    BY <1>3, <2>2 DEF SettlesHand, Goes, Inv, Done
  <2>6. QueueStep
    BY <1>3, <2>1, <2>2, HandSettleIsStep DEF SettlesHand, Inv
  <2>7. QED
    BY <2>4, <2>5, <2>6 DEF Inv
<1>4. QED
  BY <1>2, <1>3 DEF HandleStep

\* So do the steps of the ReceiveLoop.
LEMMA LoopKeepsInv ==
    ASSUME Inv, NEW r \in Receivers,
           StartOrStop(r) \/ SelectStep(r) \/ FwdStep(r) \/ PushStep(r) \/ LinkBreaks(r)
    PROVE  Inv' /\ QueueStep
<1> USE DEF Inv
<1>1. finished' = finished
  BY DEF StartOrStop, Start, Stop, StopReturn, ParentCancelled, Crash, SelectStep, Subscribed,
         SubscribeFailed, Receive, LoopExit, LoopEnds, FwdStep, PushStep, LinkBreaks
<1>2. \A q \in Receivers : loop'[q].pc \in Done => loop'[q] = loop[q]
  BY DEF Custody, Types, LoopStates, Done, NoDelivery, StartOrStop, Start, Stop, StopReturn,
         ParentCancelled, Crash, SelectStep, Subscribed, SubscribeFailed, Receive, LoopExit, LoopEnds,
         FwdStep, PushStep, LinkBreaks
<1>3. Custody'
  BY StartOrStopKeepsCustody, SelectStepKeepsCustody, FwdStepKeepsCustody, PushStepKeepsCustody,
     LinkBreaksKeepsCustody
<1>4. QueueStep
  BY <1>3, LoopIsQueueStep, PushStepIsTake
<1>5. QED
  BY <1>1, <1>2, <1>3, <1>4

\* And no step at all.
LEMMA StutterKeepsInv ==
    ASSUME Inv, UNCHANGED loopVars
    PROVE  Inv' /\ QueueStep
<1>1. Custody'
  BY StutterKeepsCustody DEF Inv
<1>2. QED
  BY <1>1 DEF Inv, QueueStep, Queue!vars, Place, loopVars, subscriptionVars, brokerVars

\* The invariant holds at first.
LEMMA InitInv ==
    ASSUME LoopInit
    PROVE  Inv
<1>1. \A r \in Receivers : loop[r].pc \notin Done
  BY DEF LoopInit, NoDelivery, Done
<1>2. QED
  BY <1>1, InitIsCustody DEF Inv

\* handle that returns leaves the loop at its select, or at its end.
LEMMA HandledGoes ==
    ASSUME Types, NEW r \in Receivers, NEW p \in {"select", "cleanup"},
           loop' = [loop EXCEPT ![r] = [NoDelivery EXCEPT !.pc = p]]
    PROVE  Goes(r, p, NoMessage)
<1>1. [NoDelivery EXCEPT !.pc = p] = [pc |-> p, msg |-> NoMessage, attempt |-> 0]
  BY DEF NoDelivery
<1>2. QED
  BY <1>1, LoopTurns DEF Types, Resting
-----------------------------------------------------------------------------
\* What a WorkQueue entails: no place is final without cause, since only Acknowledge
\* and GiveUp make it so.
LEMMA QueueHasCause == Queue!Spec => []Queue!SettledForCause
<1> DEFINE P == [m \in Messages |-> Place(m)]
<1>1. Queue!Init => Queue!SettledForCause
  <2>1. SUFFICES ASSUME Queue!Init
                 PROVE  Queue!SettledForCause
    OBVIOUS
  <2>2. \A m \in Messages : P[m] = "waiting"
    BY <2>1 DEF Queue!Init
  <2>3. QED
    BY <2>2 DEF Queue!SettledForCause
<1>2. Queue!SettledForCause /\ [Queue!Next]_(Queue!vars) => Queue!SettledForCause'
  <2>1. SUFFICES ASSUME Queue!SettledForCause, [Queue!Next]_(Queue!vars)
                 PROVE  Queue!SettledForCause'
    OBVIOUS
  <2>2. \A m \in Messages : P[m] = "acked" => m \in finished
    BY <2>1 DEF Queue!SettledForCause
  <2>3. \A m \in Messages : P[m] = "dead" => m \in refused
    BY <2>1 DEF Queue!SettledForCause
  <2>4. DOMAIN P = Messages
    OBVIOUS
  <2> HIDE DEF P
  <2>5. CASE UNCHANGED Queue!vars
    BY <2>2, <2>3, <2>5 DEF Queue!vars, Queue!SettledForCause, P
  <2>6. ASSUME NEW m \in Messages, Queue!Finish(m) \/ Queue!Refuse(m)
        PROVE  Queue!SettledForCause'
    BY <2>2, <2>3, <2>6 DEF Queue!Finish, Queue!Refuse, Queue!SettledForCause, P
  <2>7. ASSUME NEW r \in Receivers, NEW m \in Messages,
               Queue!Take(r, m) \/ Queue!Acknowledge(r, m) \/ Queue!GiveUp(r, m)
        PROVE  Queue!SettledForCause'
    <3>1. r # "acked" /\ r # "dead"
      BY SubscriptionConstantsOK
    <3>2. PICK q : P' = [P EXCEPT ![m] = q]
      BY <2>7 DEF Queue!Take, Queue!Acknowledge, Queue!GiveUp, P
    <3>3. finished \subseteq finished' /\ refused \subseteq refused'
      BY <2>7 DEF Queue!Take, Queue!Acknowledge, Queue!GiveUp
    <3>4. P'[m] = "acked" => m \in finished'
      BY <2>4, <2>7, <3>1 DEF Queue!Take, Queue!Acknowledge, Queue!GiveUp, P
    <3>5. P'[m] = "dead" => m \in refused'
      BY <2>4, <2>7, <3>1 DEF Queue!Take, Queue!Acknowledge, Queue!GiveUp, P
    <3>6. \A n \in Messages \ {m} : P'[n] = P[n]
      BY <2>4, <3>2
    <3>7. QED
      BY <2>2, <2>3, <3>3, <3>4, <3>5, <3>6 DEF Queue!SettledForCause, P
  <2>8. ASSUME NEW r \in Receivers, NEW S \in SUBSET Messages, Queue!GiveBack(r, S)
        PROVE  Queue!SettledForCause'
    <3>1. UNCHANGED <<finished, refused>>
      BY <2>8 DEF Queue!GiveBack
    <3>2. \A m \in Messages : P'[m] = "waiting" \/ P'[m] = P[m]
      BY <2>8 DEF Queue!GiveBack, P
    <3>3. QED
      BY <2>2, <2>3, <3>1, <3>2 DEF Queue!SettledForCause, P
  <2>9. QED
    BY <2>1, <2>5, <2>6, <2>7, <2>8 DEF Queue!Next
<1>3. QED
  BY <1>1, <1>2, PTL DEF Queue!Spec
=============================================================================
