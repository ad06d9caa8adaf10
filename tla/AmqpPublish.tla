---------------------------- MODULE AmqpPublish ----------------------------
(***************************************************************************)
(* Publishing with confirms: Publish, PublishBatch and PublishAsync of     *)
(* ext/amqp/amqpclt/publish.go.                                            *)
(*                                                                         *)
(* Several callers share one AMQP channel in confirm mode.  Each makes one *)
(* call, for messages 1..Size in their order; a call of Publish is a batch *)
(* of one.  The channel closes when the connection breaks or Close is      *)
(* called, and is not opened again.  As the client library and the broker  *)
(* have it, a close answers every open confirm with a nack whether the     *)
(* message arrived or not, and a nack of the broker itself means that the  *)
(* message was not stored.  What has been sent is on the wire until the    *)
(* broker takes it, also when nobody waits for the answer any more.        *)
(***************************************************************************)
EXTENDS Naturals, Sequences

CONSTANTS
    Callers,
    Async,        \* those who call PublishAsync
    Size,         \* messages of a call
    MaxRetries,   \* WithMaxRetries
    Capacity      \* of the result channel of PublishAsync

ASSUME PublishConstantsOK ==
    /\ Async \subseteq Callers
    /\ Size \in Nat \ {0}
    /\ MaxRetries \in Nat
    /\ Capacity \in Nat

VARIABLES
    chOpen,   \* p.ch
    ctxDone,  \* has the ctx of the call been cancelled?
    call,     \* the call: [pc, attempt]
    results,  \* the outcomes so far, one Boolean a message
    unread,   \* how many of them are in the result channel
    reading,  \* does the caller still read the result channel?
    wire,     \* the last publishing of each message
    copies,   \* how often the broker has stored each message
    confirmTimeout  \* is WithPublishTimeout set?  Chosen once

callVars == <<call, results, unread, ctxDone, reading>>
brokerVars == <<chOpen, wire, copies, confirmTimeout>>
vars == <<callVars, brokerVars>>

Messages == Callers \X (1..Size)

Init ==
    /\ chOpen = TRUE
    /\ ctxDone = [c \in Callers |-> FALSE]
    /\ call = [c \in Callers |-> [pc |-> "idle", attempt |-> 0]]
    /\ results = [c \in Callers |-> <<>>]
    /\ unread = [c \in Callers |-> 0]
    /\ reading = [c \in Callers |-> TRUE]
    /\ wire = [m \in Messages |-> "none"]
    /\ copies = [m \in Messages |-> 0]
    /\ confirmTimeout \in BOOLEAN

\* The message the call is at.
Current(c) == <<c, Len(results[c]) + 1>>

-----------------------------------------------------------------------------
\* The broker and the channel

\* A message that was sent arrives: it is stored and confirmed, or nacked.
Arrive(m) ==
    /\ chOpen
    /\ wire[m] = "sent"
    /\ \/ wire' = [wire EXCEPT ![m] = "acked"] /\ copies' = [copies EXCEPT ![m] = @ + 1]
       \/ wire' = [wire EXCEPT ![m] = "nacked"] /\ UNCHANGED copies
    /\ UNCHANGED <<callVars, chOpen, confirmTimeout>>

\* The channel closes.  Of what is on the wire some was stored.
ChannelCloses ==
    /\ chOpen
    /\ chOpen' = FALSE
    /\ LET sent == {m \in Messages : wire[m] = "sent"} IN
       /\ wire' = [m \in Messages |-> IF m \in sent THEN "nacked" ELSE wire[m]]
       /\ \E S \in SUBSET sent :
            copies' = [m \in Messages |-> copies[m] + IF m \in S THEN 1 ELSE 0]
    /\ UNCHANGED <<callVars, confirmTimeout>>

-----------------------------------------------------------------------------
\* The calls

At(c, pc) == call[c].pc = pc
Goto(c, pc) == call' = [call EXCEPT ![c].pc = pc]

\* Where a call goes on after the outcome with number n.
After(n) == IF n = Size THEN "done" ELSE "next"

\* A message's Publish has come to an end: PublishBatch goes on to the next, an
\* asynchronous call has to report first.
Outcome(c, ok) ==
    IF c \in Async
    THEN /\ call' = [call EXCEPT ![c] = [pc |-> IF ok THEN "confirmed" ELSE "failed", attempt |-> 0]]
         /\ UNCHANGED results
    ELSE /\ results' = [results EXCEPT ![c] = Append(@, ok)]
         /\ call' = [call EXCEPT ![c] = [pc |-> After(Len(results'[c])), attempt |-> 0]]

Begin(c) ==
    /\ At(c, "idle")
    /\ Goto(c, "next")
    /\ UNCHANGED <<brokerVars, results, unread, ctxDone, reading>>

\* PublishAsync looks at its ctx before each message, the others do not.
NextMessage(c) ==
    /\ At(c, "next")
    /\ Goto(c, IF c \in Async /\ ctxDone[c] THEN "cancelled" ELSE "publishing")
    /\ UNCHANGED <<brokerVars, results, unread, ctxDone, reading>>

\* The message cannot be marshalled.
MarshalFails(c) ==
    /\ At(c, "publishing")
    /\ call[c].attempt = 0
    /\ Outcome(c, FALSE)
    /\ UNCHANGED <<brokerVars, unread, ctxDone, reading>>

Publishing(c) ==
    /\ At(c, "publishing")
    /\ chOpen
    /\ wire' = [wire EXCEPT ![Current(c)] = "sent"]
    /\ Goto(c, "waiting")
    /\ UNCHANGED <<chOpen, copies, confirmTimeout, results, unread, ctxDone, reading>>

\* An attempt has failed: after the last one so has the message.
AttemptFails(c) ==
    /\ IF call[c].attempt < MaxRetries
       THEN Goto(c, "backoff") /\ UNCHANGED results
       ELSE Outcome(c, FALSE)
    /\ UNCHANGED <<brokerVars, unread, ctxDone, reading>>

\* The publishing fails, on a closed channel always.
PublishingFails(c) == At(c, "publishing") /\ AttemptFails(c)

\* mutant: a cancelled wait returns without an outcome.
BugCancelSilent(c) ==
    /\ At(c, "backoff") \/ At(c, "waiting")
    /\ ctxDone[c]
    /\ Goto(c, "done")
    /\ UNCHANGED <<brokerVars, results, unread, ctxDone, reading>>

\* mutant: every retry counts as the same attempt.
BugSameAttempt(c) ==
    /\ At(c, "backoff")
    /\ Goto(c, "publishing")
    /\ UNCHANGED <<brokerVars, results, unread, ctxDone, reading>>

BackoffOver(c) ==
    /\ At(c, "backoff")
    /\ call' = [call EXCEPT ![c] = [pc |-> "publishing", attempt |-> @.attempt + 1]]
    /\ UNCHANGED <<brokerVars, results, unread, ctxDone, reading>>

Cancelled(c) ==
    /\ At(c, "backoff") \/ At(c, "waiting")
    /\ ctxDone[c]
    /\ Outcome(c, FALSE)
    /\ UNCHANGED <<brokerVars, unread, ctxDone, reading>>

\* mutant: a wait that ends counts as a confirm.
BugTimeoutConfirms(c) ==
    /\ At(c, "waiting")
    /\ confirmTimeout
    /\ Outcome(c, TRUE)
    /\ UNCHANGED <<brokerVars, unread, ctxDone, reading>>

\* mutant: a wait that times out is retried like a nack.
BugTimeoutRetries(c) ==
    /\ At(c, "waiting")
    /\ confirmTimeout
    /\ AttemptFails(c)

WaitTimesOut(c) ==
    /\ At(c, "waiting")
    /\ confirmTimeout
    /\ Outcome(c, FALSE)
    /\ UNCHANGED <<brokerVars, unread, ctxDone, reading>>

Acked(c) ==
    /\ At(c, "waiting")
    /\ wire[Current(c)] = "acked"
    /\ Outcome(c, TRUE)
    /\ UNCHANGED <<brokerVars, unread, ctxDone, reading>>

Nacked(c) ==
    /\ At(c, "waiting")
    /\ wire[Current(c)] = "nacked"
    /\ AttemptFails(c)

\* PublishAsync writes a result, into the buffer of the channel or into the hand
\* of a reader; the one for a cancelled ctx is the last.
Report(c) ==
    /\ At(c, "confirmed") \/ At(c, "failed") \/ At(c, "cancelled")
    /\ \/ unread[c] < Capacity /\ unread' = [unread EXCEPT ![c] = @ + 1]
       \/ unread[c] = 0 /\ reading[c] /\ UNCHANGED unread
    /\ results' = [results EXCEPT ![c] = Append(@, At(c, "confirmed"))]
    /\ Goto(c, IF At(c, "cancelled") THEN "done" ELSE After(Len(results'[c])))
    /\ UNCHANGED <<brokerVars, ctxDone, reading>>

\* The owner of a call
ReadResult(c) ==
    /\ reading[c]
    /\ unread[c] > 0
    /\ unread' = [unread EXCEPT ![c] = @ - 1]
    /\ UNCHANGED <<brokerVars, call, results, ctxDone, reading>>

StopReading(c) ==
    /\ c \in Async
    /\ reading[c]
    /\ reading' = [reading EXCEPT ![c] = FALSE]
    /\ UNCHANGED <<brokerVars, call, results, unread, ctxDone>>

CancelCtx(c) ==
    /\ ~ctxDone[c]
    /\ ctxDone' = [ctxDone EXCEPT ![c] = TRUE]
    /\ UNCHANGED <<brokerVars, call, results, unread, reading>>

-----------------------------------------------------------------------------
CallStep(c) ==
    \/ NextMessage(c) \/ MarshalFails(c) \/ Publishing(c) \/ PublishingFails(c)
    \/ BackoffOver(c) \/ Cancelled(c) \/ WaitTimesOut(c) \/ Acked(c) \/ Nacked(c) \/ Report(c)

Next ==
    \/ ChannelCloses
    \/ \E m \in Messages : Arrive(m)
    \/ \E c \in Callers :
         Begin(c) \/ CallStep(c) \/ ReadResult(c) \/ StopReading(c) \/ CancelCtx(c)

\* The goroutines run on and the timer fires; a reader that reads takes what there
\* is.  The broker owes no answer.
Fairness ==
    \A c \in Callers : WF_vars(CallStep(c)) /\ WF_vars(ReadResult(c))

Spec == Init /\ [][Next]_vars /\ Fairness

-----------------------------------------------------------------------------
(***************************************************************************)
(* Properties                                                              *)
(***************************************************************************)

\* A message reported as published is at the broker: neither a timeout nor a close
\* of the channel, which answers every wait, may pass for a confirm.
SuccessIsStored ==
    \A c \in Callers : \A i \in DOMAIN results[c] :
        results[c][i] => copies[<<c, i>>] > 0

\* No message is stored twice, although attempts are repeated: an attempt whose
\* answer was lost is not repeated, and after a close none succeeds.
StoredOnce == \A m \in Messages : copies[m] <= 1

\* When a call is over, what it has not reported is not at the broker and not on
\* its way: the results are for the first messages, in their order, and it stops
\* short only before a message and after a cancellation.  amqpclt/README.md:20
\* promises the result of each message; the code reports the one it is at when its
\* ctx is done and none of those after it (publish.go:203), so that this is what a
\* caller can rely on.
SilentIsUnsent ==
    \A c \in Callers : At(c, "done") =>
        /\ Len(results[c]) < Size => ctxDone[c]
        /\ \A i \in (Len(results[c]) + 1)..Size :
             copies[<<c, i>>] = 0 /\ wire[<<c, i>>] = "none"

\* A call ends, answered or not, once its ctx is cancelled, and without that if
\* each wait has a timeout, as long as the results of an asynchronous one are read.
CallEnds ==
    \A c \in Callers :
        ~At(c, "idle") /\ (confirmTimeout \/ ctxDone[c]) ~> At(c, "done") \/ ~reading[c]
=============================================================================
