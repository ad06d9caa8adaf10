--------------------------- MODULE AmqpPublishProofs ---------------------------
(***************************************************************************)
(* What the results of a publish say of the broker, for every number of    *)
(* callers, messages and retries: SuccessIsStored, StoredOnce and          *)
(* SilentIsUnsent.                                                         *)
(***************************************************************************)
EXTENDS AmqpPublish, TLAPS

Pcs == {"idle", "next", "publishing", "waiting", "backoff", "confirmed", "failed", "cancelled", "done"}

\* The types of the variables.
Types ==
    /\ chOpen \in BOOLEAN
    /\ ctxDone \in [Callers -> BOOLEAN]
    /\ call \in [Callers -> [pc : Pcs, attempt : Nat]]
    /\ results \in [Callers -> Seq(BOOLEAN)]
    /\ wire \in [Messages -> {"none", "sent", "acked", "nacked"}]
    /\ copies \in [Messages -> Nat]

\* What the broker has of a message, told from its last publishing.
Stored(m) ==
    /\ copies[m] <= 1
    /\ wire[m] \in {"none", "sent"} => copies[m] = 0
    /\ wire[m] = "sent" => chOpen
    /\ wire[m] = "nacked" /\ chOpen => copies[m] = 0
    /\ wire[m] = "acked" => copies[m] = 1

\* What the progress of a call says of its messages: the later ones have not been
\* sent, the current one may be sent again if it is not confirmed, and what is
\* reported as published is confirmed.
Told(c) ==
    /\ Len(results[c]) <= Size
    /\ ~At(c, "done") => Len(results[c]) < Size
    /\ \A i \in 1..Size : i > Len(results[c]) + 1 => wire[<<c, i>>] = "none"
    /\ call[c].pc \in {"idle", "next", "cancelled", "done"} =>
         \A i \in 1..Size : i > Len(results[c]) => wire[<<c, i>>] = "none"
    /\ call[c].pc \in {"publishing", "backoff"} => wire[Current(c)] \in {"none", "nacked"}
    /\ At(c, "confirmed") => wire[Current(c)] = "acked"
    /\ At(c, "cancelled") => ctxDone[c]
    /\ At(c, "done") => Len(results[c]) = Size \/ ctxDone[c]
    /\ \A i \in 1..Len(results[c]) : results[c][i] => wire[<<c, i>>] = "acked"

\* The inductive invariant.
IInv ==
    /\ Types
    /\ \A m \in Messages : Stored(m)
    /\ \A c \in Callers : Told(c)
-----------------------------------------------------------------------------
\* The invariant holds at first.
LEMMA IInvInit == Init => IInv
<1> SUFFICES ASSUME Init
             PROVE  IInv
  OBVIOUS
<1>1. Types
  BY DEF Init, Types, Pcs
<1>2. \A m \in Messages : Stored(m)
  BY DEF Init, Stored
<1>3. ASSUME NEW c \in Callers
      PROVE  Told(c)
  <2>1. call[c].pc = "idle" /\ results[c] = <<>> /\ Len(results[c]) = 0
    BY DEF Init
  <2>2. \A i \in 1..Size : wire[<<c, i>>] = "none"
    BY DEF Init, Messages
  <2>3. QED
    BY <2>1, <2>2, PublishConstantsOK DEF Told, At
<1>4. QED
  BY <1>1, <1>2, <1>3 DEF IInv

\* What is told of a call stays true as long as only messages on the wire arrive.
LEMMA ToldStays ==
    ASSUME Types, NEW c \in Callers, Told(c),
           call'[c] = call[c], results'[c] = results[c], ctxDone[c] => ctxDone'[c],
           \A i \in 1..Size : wire[<<c, i>>] # "sent" => wire'[<<c, i>>] = wire[<<c, i>>]
    PROVE  Told(c)'
<1> DEFINE n == Len(results[c])
<1>1. n \in Nat /\ Len(results'[c]) = n /\ Size \in Nat /\ n <= Size
  BY PublishConstantsOK DEF Types, Told
<1>2. \A i \in 1..Size : wire[<<c, i>>] \in {"none", "acked", "nacked"}
                           => wire'[<<c, i>>] = wire[<<c, i>>]
  OBVIOUS
<1>3. Current(c)' = <<c, n + 1>> /\ Current(c) = <<c, n + 1>>
  BY DEF Current
<1>4. ~At(c, "done") => n + 1 \in 1..Size
  BY <1>1 DEF Told
<1>5. call[c].pc \in {"publishing", "backoff"} => wire'[<<c, n + 1>>] \in {"none", "nacked"}
  BY <1>2, <1>3, <1>4 DEF Told, At
<1>6. call[c].pc = "confirmed" => wire'[<<c, n + 1>>] = "acked"
  BY <1>2, <1>3, <1>4 DEF Told, At
<1>7. \A i \in 1..n : results[c][i] => wire'[<<c, i>>] = "acked"
  BY <1>1, <1>2 DEF Told
<1>8. \A i \in 1..Size : (i > n + 1 => wire'[<<c, i>>] = "none")
                         /\ (wire[<<c, i>>] = "none" => wire'[<<c, i>>] = "none")
  BY <1>1, <1>2 DEF Told
<1>9. QED
  BY <1>1, <1>3, <1>5, <1>6, <1>7, <1>8 DEF Told, At

\* What the broker does with what is on the wire breaks none of it.
LEMMA BrokerKeepsIInv ==
    ASSUME IInv, ChannelCloses \/ \E m \in Messages : Arrive(m)
    PROVE  IInv'
<1> USE DEF IInv
<1>1. UNCHANGED <<call, results, ctxDone>>
  BY DEF ChannelCloses, Arrive, callVars
<1>2. CASE ChannelCloses
  <2>1. PICK S \in SUBSET {m \in Messages : wire[m] = "sent"} :
          copies' = [m \in Messages |-> copies[m] + IF m \in S THEN 1 ELSE 0]
    BY <1>2 DEF ChannelCloses
  <2>2. /\ chOpen' = FALSE
        /\ wire' = [m \in Messages |-> IF wire[m] = "sent" THEN "nacked" ELSE wire[m]]
    BY <1>2 DEF ChannelCloses
  <2>3. copies' \in [Messages -> Nat]
    BY <2>1 DEF Types
  <2>4. wire' \in [Messages -> {"none", "sent", "acked", "nacked"}]
    BY <2>2 DEF Types
  <2>5. Types'
    BY <1>1, <2>2, <2>3, <2>4 DEF Types
  <2>6. \A m \in Messages : Stored(m)'
    BY <2>1, <2>2 DEF Types, Stored
  <2>7. \A m \in Messages : wire[m] # "sent" => wire'[m] = wire[m]
    BY <2>2
  <2>8. \A c \in Callers : Told(c)'
    BY <1>1, <2>7, ToldStays DEF Messages
  <2>9. QED
    BY <2>5, <2>6, <2>8
<1>3. ASSUME NEW m \in Messages, Arrive(m)
      PROVE  IInv'
  <2>1. /\ wire[m] = "sent" /\ chOpen' = chOpen
        /\ \/ wire' = [wire EXCEPT ![m] = "acked"] /\ copies' = [copies EXCEPT ![m] = copies[m] + 1]
           \/ wire' = [wire EXCEPT ![m] = "nacked"] /\ copies' = copies
    BY <1>3 DEF Arrive
  <2>2. copies' \in [Messages -> Nat]
    <3>1. copies \in [Messages -> Nat] /\ copies[m] + 1 \in Nat
      BY DEF Types
    <3>2. QED
      BY <2>1, <3>1
  <2>8. wire' \in [Messages -> {"none", "sent", "acked", "nacked"}]
    <3>1. wire \in [Messages -> {"none", "sent", "acked", "nacked"}]
      BY DEF Types
    <3>2. QED
      BY <2>1, <3>1
  <2>3. Types'
    BY <1>1, <2>1, <2>2, <2>8 DEF Types
  <2>4. \A q \in Messages : Stored(q)'
    BY <2>1 DEF Types, Stored
  <2>5. \A q \in Messages : wire[q] # "sent" => wire'[q] = wire[q]
    BY <2>1 DEF Types
  <2>6. \A c \in Callers : Told(c)'
    BY <1>1, <2>5, ToldStays DEF Messages
  <2>7. QED
    BY <2>3, <2>4, <2>6
<1>4. QED
  BY <1>2, <1>3

-----------------------------------------------------------------------------
\* The steps of a call.

\* Only c goes on; the other calls stay as they are.
OnlyMoves(c, p) ==
    /\ call' \in [Callers -> [pc : Pcs, attempt : Nat]]
    /\ call'[c].pc = p
    /\ \A d \in Callers \ {c} : call'[d] = call[d] /\ results'[d] = results[d]
    /\ chOpen' = chOpen /\ ctxDone' = ctxDone

\* A step that has no outcome and sends nothing.
LEMMA GoesOn ==
    ASSUME IInv, NEW c \in Callers, NEW p \in Pcs \ {"idle", "done"}, OnlyMoves(c, p),
           results' = results, wire' = wire, copies' = copies, ~At(c, "done"),
           p \in {"next", "cancelled"} => call[c].pc \in {"idle", "next"},
           p \in {"publishing", "backoff"} =>
               At(c, "next") \/ wire[Current(c)] \in {"none", "nacked"},
           p = "confirmed" => wire[Current(c)] = "acked",
           p = "cancelled" => ctxDone[c]
    PROVE  IInv'
<1> USE DEF IInv
<1> DEFINE n == Len(results[c])
<1>1. Types' /\ \A m \in Messages : Stored(m)'
  BY DEF Types, Stored, OnlyMoves
<1>2. \A d \in Callers \ {c} : Told(d)'
  BY ToldStays DEF OnlyMoves
<1>3. n \in Nat /\ n < Size /\ Size \in Nat /\ n + 1 \in 1..Size
  BY PublishConstantsOK DEF Types, Told
<1>4. At(c, "next") => wire[Current(c)] = "none"
  BY <1>3 DEF Told, At, Current
<1>5. Told(c)'
  BY <1>3, <1>4 DEF Told, At, Current, OnlyMoves
<1>6. QED
  BY <1>1, <1>2, <1>5

\* A step that reports the outcome of the current message.
LEMMA Reports ==
    ASSUME IInv, NEW c \in Callers, NEW p \in {"next", "done"}, OnlyMoves(c, p),
           NEW ok \in BOOLEAN, results' = [results EXCEPT ![c] = Append(results[c], ok)],
           wire' = wire, copies' = copies, ~At(c, "done"),
           ok => wire[Current(c)] = "acked",
           p = "done" => Len(results[c]) + 1 = Size \/ ctxDone[c],
           p = "next" => Len(results[c]) + 1 # Size
    PROVE  IInv'
<1> USE DEF IInv
<1> DEFINE n == Len(results[c])
<1>1. results[c] \in Seq(BOOLEAN) /\ results' \in [Callers -> Seq(BOOLEAN)]
      /\ results'[c] = Append(results[c], ok)
  BY DEF Types
<1>2. Types' /\ \A m \in Messages : Stored(m)'
  BY <1>1 DEF Types, Stored, OnlyMoves
<1>3. \A d \in Callers \ {c} : Told(d)'
  BY ToldStays DEF OnlyMoves
<1>4. n \in Nat /\ n < Size /\ Size \in Nat /\ Len(results'[c]) = n + 1
  BY <1>1, PublishConstantsOK DEF Types, Told
<1>5. \A i \in 1..(n + 1) : results'[c][i] => wire[<<c, i>>] = "acked"
  <2>1. \A i \in 1..n : results'[c][i] = results[c][i]
    BY <1>1, <1>4
  <2>2. results'[c][n + 1] = ok
    BY <1>1, <1>4
  <2>3. \A i \in 1..n : results[c][i] => wire[<<c, i>>] = "acked"
    BY DEF Told
  <2>4. \A i \in 1..(n + 1) : i \in 1..n \/ i = n + 1
    BY <1>4
  <2>5. QED
    BY <2>1, <2>2, <2>3, <2>4, Zenon DEF Current
<1>6. \A i \in 1..Size : i > n + 1 => wire[<<c, i>>] = "none"
  BY DEF Told
<1>7. Told(c)'
  BY <1>4, <1>5, <1>6 DEF Told, At, OnlyMoves
<1>8. QED
  BY <1>2, <1>3, <1>7

\* The current message is sent.
LEMMA PublishingKeepsIInv ==
    ASSUME IInv, NEW c \in Callers, Publishing(c)
    PROVE  IInv'
<1> USE DEF IInv
<1> DEFINE n == Len(results[c])
<1>1. n \in Nat /\ n < Size /\ Size \in Nat /\ n + 1 \in 1..Size
  BY PublishConstantsOK DEF Types, Told, Publishing, At
<1>2. /\ wire' = [wire EXCEPT ![<<c, n + 1>>] = "sent"] /\ chOpen
      /\ UNCHANGED <<chOpen, copies, results, ctxDone>>
      /\ wire[<<c, n + 1>>] \in {"none", "nacked"} /\ <<c, n + 1>> \in Messages
      /\ call[c].pc = "publishing"
  BY <1>1 DEF Publishing, Current, At, Told, Messages
<1>3. OnlyMoves(c, "waiting")
  BY <1>2 DEF Publishing, Goto, OnlyMoves, Types, Pcs
<1>4. wire' \in [Messages -> {"none", "sent", "acked", "nacked"}]
  BY <1>2 DEF Types
<1>5. Types' /\ \A m \in Messages : Stored(m)'
  <2>1. Types'
    BY <1>2, <1>3, <1>4 DEF Types, OnlyMoves
  <2>2. ASSUME NEW m \in Messages
        PROVE  Stored(m)'
    <3>1. wire'[m] = wire[m] \/ (wire[m] \in {"none", "nacked"} /\ wire'[m] = "sent")
      BY <1>2, Zenon DEF Types
    <3>2. copies'[m] = copies[m] /\ chOpen' = chOpen /\ Stored(m)
      BY <1>2
    <3>3. QED
      BY <1>2, <3>1, <3>2 DEF Stored
  <2>3. QED
    BY <2>1, <2>2
<1>6. \A d \in Callers, i \in 1..Size : <<d, i>> # <<c, n + 1>> => wire'[<<d, i>>] = wire[<<d, i>>]
  BY <1>2 DEF Types, Messages
<1>7. \A d \in Callers \ {c} : Told(d)'
  BY <1>2, <1>3, <1>6, ToldStays DEF OnlyMoves
<1>8. \A i \in 1..Size : i # n + 1 => wire'[<<c, i>>] = wire[<<c, i>>]
  BY <1>6
<1>9. Told(c)'
  <2>1. call'[c].pc = "waiting" /\ results'[c] = results[c] /\ Len(results'[c]) = n
    BY <1>2, <1>3 DEF OnlyMoves
  <2>2. \A i \in 1..Size : i > n + 1 => wire'[<<c, i>>] = "none"
    BY <1>1, <1>8 DEF Told
  <2>3. \A i \in 1..n : results'[c][i] => wire'[<<c, i>>] = "acked"
    <3>1. \A i \in 1..n : i \in 1..Size /\ i # n + 1
      BY <1>1
    <3>2. QED
      BY <1>8, <2>1, <3>1 DEF Told
  <2>4. QED
    BY <1>1, <2>1, <2>2, <2>3 DEF Told, At
<1>10. QED
  BY <1>5, <1>7, <1>9

\* A message's Publish ends, as published or not.
LEMMA OutcomeKeepsIInv ==
    ASSUME IInv, NEW c \in Callers, NEW ok \in BOOLEAN, Outcome(c, ok),
           UNCHANGED <<brokerVars, ctxDone>>,
           call[c].pc \in {"publishing", "waiting", "backoff"},
           ok => wire[Current(c)] = "acked"
    PROVE  IInv'
<1>1. UNCHANGED <<chOpen, wire, copies, ctxDone>> /\ ~At(c, "done")
  BY DEF brokerVars, At
<1>2. CASE c \in Async
  <2> DEFINE p == IF ok THEN "confirmed" ELSE "failed"
  <2>1. call' = [call EXCEPT ![c] = [pc |-> p, attempt |-> 0]] /\ results' = results
    BY <1>2 DEF Outcome
  <2>2. p \in {"confirmed", "failed"} /\ (p = "confirmed" => wire[Current(c)] = "acked")
    OBVIOUS
  <2> HIDE DEF p
  <2>3. OnlyMoves(c, p) /\ p \in Pcs \ {"idle", "done"}
    BY <1>1, <2>1, <2>2 DEF OnlyMoves, IInv, Types, Pcs
  <2>4. QED
    BY <1>1, <2>1, <2>2, <2>3, GoesOn
<1>3. CASE c \notin Async
  <2>1. /\ results' = [results EXCEPT ![c] = Append(results[c], ok)]
        /\ Len(results'[c]) = Len(results[c]) + 1
    BY <1>3 DEF Outcome, IInv, Types
  <2> DEFINE p == After(Len(results[c]) + 1)
  <2>2. p \in {"next", "done"} /\ (p = "done" <=> Len(results[c]) + 1 = Size)
    BY DEF After
  <2>3. call' = [call EXCEPT ![c] = [pc |-> p, attempt |-> 0]]
    BY <1>3, <2>1 DEF Outcome
  <2> HIDE DEF p
  <2>4. OnlyMoves(c, p)
    BY <1>1, <2>1, <2>2, <2>3 DEF OnlyMoves, IInv, Types, Pcs
  <2>5. QED
    BY <1>1, <2>1, <2>2, <2>4, Reports
<1>4. QED
  BY <1>2, <1>3

\* An attempt fails: it is repeated, or the message has failed.
LEMMA AttemptKeepsIInv ==
    ASSUME IInv, NEW c \in Callers, AttemptFails(c),
           call[c].pc \in {"publishing", "waiting"},
           At(c, "waiting") => wire[Current(c)] = "nacked"
    PROVE  IInv'
<1>1. UNCHANGED <<brokerVars, ctxDone>>
  BY DEF AttemptFails
<1>2. CASE call[c].attempt < MaxRetries
  <2>1. OnlyMoves(c, "backoff") /\ results' = results
    <3>1. call' = [call EXCEPT ![c].pc = "backoff"] /\ results' = results
      BY <1>2 DEF AttemptFails, Goto
    <3>2. call' \in [Callers -> [pc : Pcs, attempt : Nat]] /\ call'[c].pc = "backoff"
      BY <3>1 DEF IInv, Types, Pcs
    <3>3. QED
      BY <1>1, <3>1, <3>2 DEF OnlyMoves, brokerVars
  <2>2. wire[Current(c)] \in {"none", "nacked"} /\ ~At(c, "done")
    BY DEF IInv, Told, At
  <2>3. QED
    BY <1>1, <2>1, <2>2, GoesOn DEF Pcs, brokerVars
<1>3. CASE ~(call[c].attempt < MaxRetries)
  <2>1. Outcome(c, FALSE)
    BY <1>3 DEF AttemptFails
  <2>2. QED
    BY <1>1, <2>1, OutcomeKeepsIInv
<1>4. QED
  BY <1>2, <1>3

\* Every step of a call keeps the invariant.
LEMMA CallKeepsIInv ==
    ASSUME IInv, NEW c \in Callers, Begin(c) \/ CallStep(c)
    PROVE  IInv'
<1> USE DEF At
<1>1. CASE Begin(c) \/ NextMessage(c)
  <2> DEFINE p == IF Begin(c) THEN "next"
                  ELSE IF c \in Async /\ ctxDone[c] THEN "cancelled" ELSE "publishing"
  <2>1. /\ call' = [call EXCEPT ![c].pc = p] /\ call[c].pc \in {"idle", "next"}
        /\ UNCHANGED <<brokerVars, results, ctxDone>>
        /\ p = "publishing" => call[c].pc = "next"
    BY <1>1 DEF Begin, NextMessage, Goto
  <2>2. p \in {"next", "cancelled", "publishing"} /\ (p = "cancelled" => ctxDone[c])
    OBVIOUS
  <2> HIDE DEF p
  <2>3. p \in Pcs \ {"idle", "done"}
    BY <2>2 DEF Pcs
  <2>4. call' \in [Callers -> [pc : Pcs, attempt : Nat]] /\ call'[c].pc = p
    BY <2>1, <2>3 DEF IInv, Types
  <2>5. OnlyMoves(c, p)
    BY <2>1, <2>4 DEF OnlyMoves, brokerVars
  <2>6. QED
    BY <2>1, <2>2, <2>3, <2>5, GoesOn DEF brokerVars
<1>2. CASE MarshalFails(c) \/ Cancelled(c) \/ WaitTimesOut(c)
  BY <1>2, OutcomeKeepsIInv DEF MarshalFails, Cancelled, WaitTimesOut
<1>3. CASE Publishing(c)
  BY <1>3, PublishingKeepsIInv
<1>4. CASE PublishingFails(c) \/ Nacked(c)
  BY <1>4, AttemptKeepsIInv DEF PublishingFails, Nacked
<1>5. CASE BackoffOver(c)
  <2>1. OnlyMoves(c, "publishing") /\ UNCHANGED <<brokerVars, results, ctxDone>>
    BY <1>5 DEF BackoffOver, OnlyMoves, IInv, Types, Pcs, brokerVars
  <2>2. call[c].pc = "backoff" /\ wire[Current(c)] \in {"none", "nacked"}
    BY <1>5 DEF BackoffOver, IInv, Told
  <2>3. QED
    BY <2>1, <2>2, GoesOn DEF Pcs, brokerVars
<1>6. CASE Acked(c)
  BY <1>6, OutcomeKeepsIInv DEF Acked
<1>7. CASE Report(c)
  <2> DEFINE ok == call[c].pc = "confirmed"
             p == IF call[c].pc = "cancelled" THEN "done" ELSE After(Len(results[c]) + 1)
  <2>1. /\ results' = [results EXCEPT ![c] = Append(results[c], ok)]
        /\ UNCHANGED <<brokerVars, ctxDone>>
        /\ call[c].pc \in {"confirmed", "failed", "cancelled"}
    BY <1>7 DEF Report
  <2>2. Len(results'[c]) = Len(results[c]) + 1
    BY <2>1 DEF IInv, Types
  <2>3. call' = [call EXCEPT ![c].pc = p]
    <3>1. call' = [call EXCEPT ![c].pc = IF call[c].pc = "cancelled" THEN "done"
                                         ELSE After(Len(results'[c]))]
      BY <1>7 DEF Report, Goto
    <3>2. QED
      BY <2>2, <3>1, Zenon
  <2>4. /\ ok \in BOOLEAN /\ (ok => wire[Current(c)] = "acked")
        /\ call[c].pc = "cancelled" => ctxDone[c]
    BY DEF IInv, Told
  <2>5. p \in {"next", "done"} /\ (p = "done" => Len(results[c]) + 1 = Size \/ ctxDone[c])
        /\ (p = "next" => Len(results[c]) + 1 # Size)
    BY <2>4 DEF After
  <2> HIDE DEF ok, p
  <2>6. OnlyMoves(c, p)
    BY <2>1, <2>3, <2>5 DEF OnlyMoves, IInv, Types, Pcs, brokerVars
  <2>7. QED
    BY <2>1, <2>4, <2>5, <2>6, Reports DEF brokerVars
<1>8. QED
  BY <1>1, <1>2, <1>3, <1>4, <1>5, <1>6, <1>7 DEF CallStep

\* So does everything else.
LEMMA IInvStep ==
    ASSUME IInv, [Next]_vars
    PROVE  IInv'
<1>1. ASSUME NEW c \in Callers, ReadResult(c) \/ StopReading(c) \/ CancelCtx(c)
      PROVE  IInv'
  <2>1. /\ UNCHANGED <<chOpen, wire, copies, call, results>>
        /\ ctxDone' = ctxDone \/ ctxDone' = [ctxDone EXCEPT ![c] = TRUE]
    BY <1>1 DEF ReadResult, StopReading, CancelCtx, brokerVars
  <2>2. Types' /\ \A d \in Callers : ctxDone[d] => ctxDone'[d]
    BY <2>1 DEF IInv, Types
  <2>3. QED
    BY <2>1, <2>2, ToldStays DEF IInv, Stored
<1>2. CASE UNCHANGED vars
  <2>1. UNCHANGED <<chOpen, ctxDone, call, results, wire, copies>>
    BY <1>2 DEF vars, callVars, brokerVars
  <2>2. QED
    BY <2>1, ToldStays DEF IInv, Types, Stored
<1>3. QED
  BY <1>1, <1>2, BrokerKeepsIInv, CallKeepsIInv DEF Next

\* It is an invariant of the publishing client.
LEMMA IInvHolds == Spec => []IInv
<1>1. Init => IInv
  BY IInvInit
<1>2. IInv /\ [Next]_vars => IInv'
  BY IInvStep
<1>3. QED
  BY <1>1, <1>2, PTL DEF Spec

-----------------------------------------------------------------------------
\* What Publish, PublishBatch or PublishAsync reports as published is at the broker,
\* whatever times out, is cancelled or closed.
THEOREM PublishedIsStored == Spec => []SuccessIsStored
<1>1. ASSUME IInv
      PROVE  SuccessIsStored
  <2> SUFFICES ASSUME NEW c \in Callers, NEW i \in DOMAIN results[c], results[c][i]
               PROVE  copies[<<c, i>>] > 0
    BY DEF SuccessIsStored
  <2>1. i \in 1..Len(results[c]) /\ <<c, i>> \in Messages
    BY <1>1, PublishConstantsOK DEF IInv, Types, Told, Messages
  <2>2. wire[<<c, i>>] = "acked"
    BY <1>1, <2>1 DEF IInv, Told
  <2>3. QED
    BY <1>1, <2>1, <2>2 DEF IInv, Stored
<1>2. QED
  BY <1>1, IInvHolds, PTL

\* Retrying a nacked or failed attempt stores no message twice.
THEOREM RetriesStoreOnce == Spec => []StoredOnce
<1>1. IInv => StoredOnce
  BY DEF IInv, Stored, StoredOnce
<1>2. QED
  BY <1>1, IInvHolds, PTL

\* What a call has not reported when it ends was never sent.
THEOREM SilenceIsUnsent == Spec => []SilentIsUnsent
<1>1. ASSUME IInv
      PROVE  SilentIsUnsent
  <2> SUFFICES ASSUME NEW c \in Callers, At(c, "done")
               PROVE  /\ Len(results[c]) < Size => ctxDone[c]
                      /\ \A i \in (Len(results[c]) + 1)..Size :
                           copies[<<c, i>>] = 0 /\ wire[<<c, i>>] = "none"
    BY DEF SilentIsUnsent
  <2>1. Len(results[c]) < Size => ctxDone[c]
    BY <1>1, PublishConstantsOK DEF IInv, Types, Told
  <2>2. ASSUME NEW i \in (Len(results[c]) + 1)..Size
        PROVE  copies[<<c, i>>] = 0 /\ wire[<<c, i>>] = "none"
    <3>1. i \in 1..Size /\ i > Len(results[c]) /\ <<c, i>> \in Messages
      BY <1>1, PublishConstantsOK DEF IInv, Types, Messages
    <3>2. wire[<<c, i>>] = "none"
      BY <1>1, <3>1 DEF IInv, Told, At
    <3>3. QED
      BY <1>1, <3>1, <3>2 DEF IInv, Stored
  <2>3. QED
    BY <2>1, <2>2
<1>2. QED
  BY <1>1, IInvHolds, PTL
=============================================================================
