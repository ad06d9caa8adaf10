------------------------------- MODULE PubSub -------------------------------
(***************************************************************************)
(* What the bus promises its publishers and subscribers, without tables,   *)
(* locks, goroutines or snapshots: an announced event is due to each       *)
(* subscription that was live at that moment and whose topic the event's   *)
(* topic reaches, and is offered once to those and to nobody else; an      *)
(* offer is accepted unless the mailbox is full or shut; a subscription    *)
(* takes what it accepted in that order; and no mailbox is shut while its  *)
(* subscription is live.                                                   *)
(*                                                                         *)
(* EventBus implements it; Pool takes part in it as one subscription.      *)
(***************************************************************************)
EXTENDS Naturals, Sequences

CONSTANTS
    Subs, Topics, Events,
    NoTopic,   \* the topic of a subscription nobody has made yet
    Reaches,   \* <<t, u>>: a subscription to t gets the events published under u
    Capacity   \* of a mailbox

VARIABLES
    topicOf,    \* the topic of each subscription
    live,       \* the subscriptions new events are for
    shut,       \* those whose mailbox accepts nothing more
    mailbox,    \* what each subscription has accepted and not taken
    announced,  \* the events published so far
    due         \* for each event, the subscriptions it has yet to be offered to

vars == <<topicOf, live, shut, mailbox, announced, due>>

Init ==
    /\ topicOf = [s \in Subs |-> NoTopic]
    /\ live = {}
    /\ shut = {}
    /\ mailbox = [s \in Subs |-> <<>>]
    /\ announced = {}
    /\ due = [e \in Events |-> {}]

Join(s, t) ==
    /\ topicOf[s] = NoTopic
    /\ topicOf' = [topicOf EXCEPT ![s] = t]
    /\ live' = live \cup {s}
    /\ UNCHANGED <<shut, mailbox, announced, due>>

Leave(s) ==
    /\ live' = live \ {s}
    /\ UNCHANGED <<topicOf, shut, mailbox, announced, due>>

\* A mailbox is shut after its subscription has left ...
Shut(s) ==
    /\ topicOf[s] # NoTopic
    /\ s \notin live
    /\ shut' = shut \cup {s}
    /\ UNCHANGED <<topicOf, live, mailbox, announced, due>>

\* ... or with all the others.
ShutDown ==
    /\ shut' = shut \cup live
    /\ live' = {}
    /\ UNCHANGED <<topicOf, mailbox, announced, due>>

Announce(e, u) ==
    /\ e \notin announced
    /\ announced' = announced \cup {e}
    /\ due' = [due EXCEPT ![e] = {s \in live : <<topicOf[s], u>> \in Reaches}]
    /\ UNCHANGED <<topicOf, live, shut, mailbox>>

Accepts(s) == s \notin shut /\ Len(mailbox[s]) < Capacity

Offer(e, s) ==
    /\ s \in due[e]
    /\ due' = [due EXCEPT ![e] = due[e] \ {s}]
    /\ mailbox' = IF Accepts(s) THEN [mailbox EXCEPT ![s] = Append(mailbox[s], e)]
                                ELSE mailbox
    /\ UNCHANGED <<topicOf, live, shut, announced>>

Take(s) ==
    /\ mailbox[s] # <<>>
    /\ mailbox' = [mailbox EXCEPT ![s] = Tail(mailbox[s])]
    /\ UNCHANGED <<topicOf, live, shut, announced, due>>

Next ==
    \/ \E s \in Subs : Leave(s) \/ Shut(s) \/ Take(s)
    \/ \E s \in Subs, t \in Topics : Join(s, t)
    \/ ShutDown
    \/ \E e \in Events, u \in Topics : Announce(e, u)
    \/ \E e \in Events, s \in Subs : Offer(e, s)

Spec == Init /\ [][Next]_vars
=============================================================================
