------------------------------ MODULE WorkQueue ------------------------------
(***************************************************************************)
(* What the receiving side of the bridge promises to whoever puts messages *)
(* into a queue of the broker, whatever is lost, cancelled or killed on    *)
(* the way: a message is in one place; it is acknowledged by the worker    *)
(* that has it, and only after its work was finished; it is given up by    *)
(* the worker that has it, and only after it was refused; and what a       *)
(* worker does not settle waits again.                                     *)
(*                                                                         *)
(* MQConsumer and MQListener implement it.  What "finished" means is       *)
(* theirs to say: the handler succeeded, the receipts are recorded, the    *)
(* message was handed over.                                                *)
(***************************************************************************)
CONSTANTS Workers, Messages

\* Places that are not a worker.
Shelves == {"waiting", "acked", "dead"}

VARIABLES
    place,     \* where each message is: with a worker or on a shelf
    finished,  \* the messages whose work has been done at least once
    refused    \* the messages some worker would not take

vars == <<place, finished, refused>>

Init ==
    /\ place = [m \in Messages |-> "waiting"]
    /\ finished = {}
    /\ refused = {}

Take(w, m) ==
    /\ place[m] = "waiting"
    /\ place' = [place EXCEPT ![m] = w]
    /\ UNCHANGED <<finished, refused>>

\* Some of what a worker has, one message or all it holds, waits again.
GiveBack(w, S) ==
    /\ \A m \in S : place[m] = w
    /\ place' = [m \in Messages |-> IF m \in S THEN "waiting" ELSE place[m]]
    /\ UNCHANGED <<finished, refused>>

\* Work can finish, and be refused, after the message was taken away.
Finish(m) == finished' = finished \cup {m} /\ UNCHANGED <<place, refused>>
Refuse(m) == refused' = refused \cup {m} /\ UNCHANGED <<place, finished>>

Acknowledge(w, m) ==
    /\ place[m] = w
    /\ place' = [place EXCEPT ![m] = "acked"]
    /\ finished' \in {finished, finished \cup {m}}
    /\ m \in finished'
    /\ UNCHANGED refused

GiveUp(w, m) ==
    /\ place[m] = w
    /\ place' = [place EXCEPT ![m] = "dead"]
    /\ refused' = refused \cup {m}
    /\ UNCHANGED finished

Next ==
    \/ \E w \in Workers, m \in Messages : Take(w, m) \/ Acknowledge(w, m) \/ GiveUp(w, m)
    \/ \E w \in Workers, S \in SUBSET Messages : GiveBack(w, S)
    \/ \E m \in Messages : Finish(m) \/ Refuse(m)

Spec == Init /\ [][Next]_vars

\* What is acknowledged was finished, what is dead was refused.
SettledForCause ==
    \A m \in Messages : /\ place[m] = "acked" => m \in finished
                        /\ place[m] = "dead" => m \in refused
=============================================================================
