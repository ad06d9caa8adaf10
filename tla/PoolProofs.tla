------------------------------ MODULE PoolProofs ------------------------------
(***************************************************************************)
(* The safety of the pool, for every number of workers, publishers,        *)
(* retries and events: OnePlace, AttemptsBounded, NeverLost,               *)
(* QuietAfterUnsubscribe, and that the pool uses the bus as PubSub allows. *)
(*                                                                         *)
(* Places counts an event in two sequences, among the workers and at the   *)
(* forwarder; the first lemmas say how each step of those changes the      *)
(* count, PlacesStep that only Send raises it, and Unsent that what is     *)
(* sent was nowhere before.                                                *)
(***************************************************************************)
EXTENDS Pool, FiniteSetTheorems, SequenceTheorems, TLAPS

\* One more or one less of a finite set that differs in one element only.
LEMMA CountElement ==
    ASSUME NEW A, NEW B, NEW x, IsFiniteSet(A), A \ {x} = B \ {x}
    PROVE  /\ IsFiniteSet(B)
           /\ Cardinality(A) \in Nat /\ Cardinality(B) \in Nat
           /\ Cardinality(B) + (IF x \in A THEN 1 ELSE 0)
                = Cardinality(A) + (IF x \in B THEN 1 ELSE 0)
<1>1. IsFiniteSet(A \ {x})
  BY FS_RemoveElement
<1>2. B = A \ {x} \/ B = (A \ {x}) \cup {x}
  OBVIOUS
<1>3. IsFiniteSet(B)
  BY <1>1, <1>2, FS_AddElement
<1>4. Cardinality(A) \in Nat /\ Cardinality(B) \in Nat
  BY <1>3, FS_CardinalityType
<1>5. Cardinality(A \ {x}) = IF x \in A THEN Cardinality(A) - 1 ELSE Cardinality(A)
  BY FS_RemoveElement
<1>6. Cardinality(B \ {x}) = IF x \in B THEN Cardinality(B) - 1 ELSE Cardinality(B)
  BY <1>3, FS_RemoveElement
<1>7. QED
  BY <1>3, <1>4, <1>5, <1>6

\* How often an event occurs in a sequence is a number.
LEMMA OccurrencesType ==
    ASSUME NEW S, NEW q \in Seq(S), NEW e
    PROVE  /\ IsFiniteSet({i \in DOMAIN q : q[i] = e})
           /\ Occurrences(q, e) \in Nat
<1>1. IsFiniteSet(1..Len(q)) /\ DOMAIN q = 1..Len(q)
  BY FS_Interval
<1>2. IsFiniteSet({i \in DOMAIN q : q[i] = e})
  BY <1>1, FS_Subset
<1>3. QED
  BY <1>2, FS_CardinalityType DEF Occurrences

\* An empty sequence holds nothing.
LEMMA OccurrencesEmpty ==
    ASSUME NEW e
    PROVE  Occurrences(<<>>, e) = 0
<1>1. {i \in DOMAIN <<>> : <<>>[i] = e} = {}
  OBVIOUS
<1>2. QED
  BY <1>1, FS_EmptySet, Zenon DEF Occurrences

\* Appending adds one occurrence of one event.
LEMMA OccurrencesAppend ==
    ASSUME NEW S, NEW q \in Seq(S), NEW x \in S, NEW e
    PROVE  Occurrences(Append(q, x), e) = Occurrences(q, e) + (IF x = e THEN 1 ELSE 0)
<1> DEFINE r == Append(q, x)
           A == {i \in DOMAIN q : q[i] = e}
           B == {i \in DOMAIN r : r[i] = e}
           n == Len(q) + 1
<1>1. /\ r \in Seq(S) /\ DOMAIN q = 1..Len(q) /\ DOMAIN r = 1..n /\ Len(q) \in Nat
      /\ r[n] = x /\ \A i \in DOMAIN q : r[i] = q[i]
  OBVIOUS
<1> HIDE DEF r
<1>2. n \notin A /\ (n \in B <=> x = e)
  BY <1>1
<1>3. A \ {n} = B \ {n}
  BY <1>1
<1>4. IsFiniteSet(A)
  BY OccurrencesType
<1> HIDE DEF A, B, n
<1>5. Cardinality(B) = Cardinality(A) + (IF x = e THEN 1 ELSE 0)
  BY <1>2, <1>3, <1>4, CountElement
<1>6. QED
  BY <1>5 DEF Occurrences, A, B, r

\* Taking the head removes one occurrence of one event.
LEMMA OccurrencesTail ==
    ASSUME NEW S, NEW q \in Seq(S), NEW e, q # <<>>
    PROVE  Occurrences(q, e) = Occurrences(Tail(q), e) + (IF Head(q) = e THEN 1 ELSE 0)
<1> DEFINE r == Tail(q)
           A == {i \in DOMAIN r : r[i] = e}
           B == {i \in DOMAIN q : q[i] = e}
           C == B \ {1}
<1>1. /\ r \in Seq(S) /\ Len(q) \in Nat \ {0} /\ DOMAIN q = 1..Len(q)
      /\ DOMAIN r = 1..(Len(q) - 1) /\ \A i \in 1..(Len(q) - 1) : r[i] = q[i + 1]
      /\ q[1] = Head(q)
  OBVIOUS
<1> HIDE DEF r
<1>2. Cardinality(C) = Cardinality(A)
  <2> DEFINE f == [i \in A |-> i + 1]
  <2>1. f \in [A -> C]
    BY <1>1
  <2>2. \A i, j \in A : f[i] = f[j] => i = j
    BY <1>1
  <2>3. \A j \in C : \E i \in A : f[i] = j
    <3>1. TAKE j \in C
    <3>2. j - 1 \in A /\ f[j - 1] = j
      BY <1>1
    <3>3. QED
      BY <3>2
  <2> HIDE DEF f, A, C
  <2>4. f \in Bijection(A, C)
    BY <2>1, <2>2, <2>3 DEF Bijection, Injection, Surjection, IsInjective
  <2>5. IsFiniteSet(A)
    BY <1>1, OccurrencesType DEF A
  <2>6. QED
    BY <2>4, <2>5, FS_Bijection DEF ExistsBijection
<1>3. IsFiniteSet(B)
  BY OccurrencesType
<1>4. B \ {1} = C \ {1} /\ 1 \notin C /\ (1 \in B <=> Head(q) = e)
  BY <1>1
<1> HIDE DEF A, B, C
<1>5. Cardinality(C) + (IF Head(q) = e THEN 1 ELSE 0) = Cardinality(B)
  BY <1>3, <1>4, CountElement
<1>6. QED
  BY <1>2, <1>5 DEF Occurrences, A, B, r

-----------------------------------------------------------------------------
\* The invariant

\* Who has an event and who has none.
Hands ==
    /\ fwd.pc = "consume" <=> fwd.event # NoEvent
    /\ \A w \in Workers : worker[w].pc \in {"handling", "backoff"} <=> worker[w].event # NoEvent

\* An event that is about to be sent is nobody's yet, and nobody else's to send.
Unsent ==
    \A e \in Events :
        /\ e > published => Places(e) = 0
        /\ \A p \in Publishers : pub[p] = e =>
             /\ e <= published
             /\ Places(e) = 0
             /\ \A q \in Publishers : q # p => pub[q] # e

\* The handler was called with what a worker has, once more than it has retried, and
\* otherwise only with events that are settled.
Attempts ==
    /\ \A w \in Workers : worker[w].event # NoEvent =>
         /\ calls[worker[w].event] = worker[w].attempt + 1
         /\ worker[w].pc = "backoff" => worker[w].attempt < MaxRetries
    /\ \A e \in Events : calls[e] # 0 => settled[e] # <<>> \/ Holders(e) # {}
    /\ AttemptsBounded

\* The forwarder is past its wait for the workers only when they have exited, and
\* Unsubscribe returns only after the forwarder.
Ends ==
    /\ fwd.pc \in {"closing", "exited"} => \A w \in Workers : worker[w].pc = "exited"
    /\ unsub = "done" => fwd.pc = "exited"

\* The inductive invariant.
IInv == TypeOK /\ Hands /\ Unsent /\ OnePlace /\ Attempts /\ Ends
-----------------------------------------------------------------------------
\* No event is named NoEvent.
LEMMA NoEventIsNone == NoEvent \notin Events /\ Events \subseteq Nat
BY PoolConstantsOK DEF Events, NoEvent

\* newPool returns a pool of the right type.
LEMMA TypeInit == Init => TypeOK
<1>1. IdleWorker \in WorkerStates
  BY PoolConstantsOK DEF IdleWorker, WorkerStates
<1>2. <<>> \in Seq(Outcomes) /\ <<>> \in Seq(Events) /\ 0 \in 0..MaxEvents
  BY PoolConstantsOK
<1>3. ASSUME Init
      PROVE  TypeOK
  <2>1. /\ registered \in BOOLEAN /\ chClosed \in BOOLEAN /\ ctxDone \in BOOLEAN
        /\ busClosed \in BOOLEAN /\ stopped \in BOOLEAN /\ unsub \in {"idle", "waiting", "done"}
        /\ ch \in Seq(Events) /\ queue \in Seq(Events) /\ published \in 0..MaxEvents
    BY <1>2, <1>3 DEF Init
  <2>2. fwd \in FwdStates
    BY <1>3 DEF Init, FwdStates
  <2>3. /\ pub \in [Publishers -> Events \cup {NoEvent}]
        /\ worker \in [Workers -> WorkerStates]
    BY <1>1, <1>3 DEF Init
  <2>4. /\ calls \in [Events -> Nat]
        /\ settled \in [Events -> Seq(Outcomes)]
    BY <1>2, <1>3 DEF Init
  <2>5. QED
    BY <2>1, <2>2, <2>3, <2>4 DEF TypeOK
<1>4. QED
  BY <1>3

\* What becomes of an event is written down once more.
LEMMA SettleType ==
    ASSUME TypeOK, NEW e \in Events, NEW outcome \in Outcomes, Settle(e, outcome)
    PROVE  /\ settled' \in [Events -> Seq(Outcomes)]
           /\ Len(settled'[e]) = Len(settled[e]) + 1
           /\ \A f \in Events \ {e} : settled'[f] = settled[f]
<1>1. settled[e] \in Seq(Outcomes)
  BY DEF TypeOK
<1>2. Append(settled[e], outcome) \in Seq(Outcomes)
      /\ Len(Append(settled[e], outcome)) = Len(settled[e]) + 1
  BY <1>1
<1>3. settled' = [settled EXCEPT ![e] = Append(settled[e], outcome)]
  BY DEF Settle
<1>4. QED
  BY <1>2, <1>3, Zenon DEF TypeOK

\* A call of the handler is counted.
LEMMA CallType ==
    ASSUME TypeOK, NEW e \in Events, CallHandler(e)
    PROVE  /\ calls' \in [Events -> Nat]
           /\ calls'[e] = calls[e] + 1
           /\ \A f \in Events \ {e} : calls'[f] = calls[f]
<1>1. calls[e] \in Nat
  BY DEF TypeOK
<1>2. QED
  BY <1>1 DEF TypeOK, CallHandler

\* Every step keeps the types: an attempt is left when a backoff ends.
LEMMA TypeStep ==
    ASSUME TypeOK, Hands, Attempts, [Next]_vars
    PROVE  TypeOK'
<1> USE NoEventIsNone, PoolConstantsOK
<1>1. ASSUME NEW p \in Publishers, Target(p)
      PROVE  TypeOK'
  BY <1>1 DEF TypeOK, Target, history, poolVars, Events
<1>2. ASSUME NEW p \in Publishers, Send(p)
      PROVE  TypeOK'
  BY <1>2 DEF TypeOK, Send, history, poolVars
<1>3. CASE BusClose \/ CtxCancel \/ Unsubscribe \/ UnsubReturn \/ UNCHANGED vars
  BY <1>3 DEF TypeOK, BusClose, CtxCancel, Unsubscribe, UnsubReturn, vars, history,
     poolVars, busVars
<1>4. CASE SubscribeWithPool \/ FwdExit \/ Teardown
  <2>1. CASE SubscribeWithPool \/ FwdExit
    BY <2>1 DEF TypeOK, FwdStates, SubscribeWithPool, FwdExit, history, poolVars, busVars
  <2>2. CASE TeardownRemove \/ TeardownStop
    BY <2>2 DEF TypeOK, FwdStates, TeardownRemove, TeardownStop, history, poolVars, busVars
  <2>3. CASE TeardownWait \/ TeardownClose
    BY <2>3 DEF TypeOK, FwdStates, TeardownWait, TeardownClose, history, poolVars, busVars
  <2>4. QED
    BY <1>4, <2>1, <2>2, <2>3 DEF Teardown
<1>5. CASE Forward
  BY <1>5 DEF TypeOK, FwdStates, Forward, history, poolVars
<1>6. CASE ConsumeQueued
  BY <1>6 DEF TypeOK, FwdStates, ConsumeQueued, history, busVars, Hands
<1>7. CASE ConsumeFailed
  <2>1. fwd.event \in Events /\ "failed" \in Outcomes
    BY <1>7 DEF TypeOK, FwdStates, ConsumeFailed, Hands, Outcomes
  <2>2. settled' \in [Events -> Seq(Outcomes)]
    BY <1>7, <2>1, SettleType DEF ConsumeFailed
  <2>3. QED
    BY <1>7, <2>2 DEF TypeOK, FwdStates, ConsumeFailed, poolVars, busVars
<1>8. ASSUME NEW w \in Workers, WorkerReceive(w)
      PROVE  TypeOK'
  <2>1. Head(queue) \in Events /\ Tail(queue) \in Seq(Events)
    BY <1>8 DEF TypeOK, WorkerReceive
  <2>2. [pc |-> "handling", event |-> Head(queue), attempt |-> 0] \in WorkerStates
    BY <2>1 DEF WorkerStates
  <2>3. worker' \in [Workers -> WorkerStates] /\ calls' \in [Events -> Nat]
    BY <1>8, <2>1, <2>2, CallType DEF TypeOK, WorkerReceive
  <2>4. QED
    BY <1>8, <2>1, <2>3 DEF TypeOK, WorkerReceive, busVars
<1>9. ASSUME NEW w \in Workers, WorkerExit(w)
      PROVE  TypeOK'
  <2>1. [worker[w] EXCEPT !.pc = "exited"] \in WorkerStates
    BY DEF TypeOK, WorkerStates
  <2>2. worker' \in [Workers -> WorkerStates]
    BY <1>9, <2>1 DEF TypeOK, WorkerExit
  <2>3. QED
    BY <1>9, <2>2 DEF TypeOK, WorkerExit, history, busVars
<1>10. ASSUME NEW w \in Workers, worker[w].pc \in {"handling", "backoff"},
              NEW outcome \in {"handled", "dead", "dropped"}, Processed(w, outcome)
       PROVE  TypeOK'
  <2>1. IdleWorker \in WorkerStates
    BY DEF IdleWorker, WorkerStates
  <2>2. worker[w].event \in Events
    BY <1>10 DEF TypeOK, Hands, WorkerStates
  <2>3. worker' \in [Workers -> WorkerStates]
    BY <1>10, <2>1 DEF TypeOK, Processed
  <2>4. settled' \in [Events -> Seq(Outcomes)]
    BY <1>10, <2>2, SettleType DEF Processed, Outcomes
  <2>5. QED
    BY <1>10, <2>3, <2>4 DEF TypeOK, Processed, busVars
<1>11. ASSUME NEW w \in Workers, HandlerFails(w), worker[w].attempt # MaxRetries
       PROVE  TypeOK'
  <2>1. [worker[w] EXCEPT !.pc = "backoff"] \in WorkerStates
    BY DEF TypeOK, WorkerStates
  <2>2. worker' \in [Workers -> WorkerStates]
    BY <1>11, <2>1 DEF TypeOK, HandlerFails
  <2>3. QED
    BY <1>11, <2>2 DEF TypeOK, HandlerFails, history, busVars
<1>12. ASSUME NEW w \in Workers, BackoffOver(w)
       PROVE  TypeOK'
  <2>1. worker[w].event \in Events /\ worker[w].attempt \in 0..MaxRetries
        /\ worker[w].attempt < MaxRetries
    BY <1>12 DEF BackoffOver, TypeOK, Hands, Attempts, WorkerStates
  <2>2. [worker[w] EXCEPT !.pc = "handling", !.attempt = worker[w].attempt + 1] \in WorkerStates
    <3>1. worker[w].attempt + 1 \in 0..MaxRetries
      BY <2>1
    <3>2. QED
      BY <3>1 DEF TypeOK, WorkerStates
  <2>3. worker' \in [Workers -> WorkerStates]
    BY <1>12, <2>2 DEF TypeOK, BackoffOver
  <2>4. calls' \in [Events -> Nat]
    BY <1>12, <2>1, CallType DEF BackoffOver
  <2>5. QED
    BY <1>12, <2>3, <2>4 DEF TypeOK, BackoffOver, busVars
<1>13. QED
  BY <1>1, <1>2, <1>3, <1>4, <1>5, <1>6, <1>7, <1>8, <1>9, <1>10, <1>11, <1>12
     DEF Next, FwdStep, WorkerStep, HandlerReturns, HandlerOk, HandlerPanics,
         HandlerRejected, HandlerFails, BackoffCancelled
-----------------------------------------------------------------------------
\* Places

\* One for who has the event.
Has(r, e) == IF r.event = e THEN 1 ELSE 0

\* A worker that goes from one event to another moves between their holders.
LEMMA HoldersStep ==
    ASSUME TypeOK, NEW w \in Workers, NEW r, worker' = [worker EXCEPT ![w] = r], NEW e
    PROVE  /\ Cardinality(Holders(e)') + Has(worker[w], e)
                = Cardinality(Holders(e)) + Has(r, e)
           /\ Cardinality(Holders(e)') \in Nat
           /\ Cardinality(Holders(e)) \in Nat
<1> DEFINE A == Holders(e)
           B == Holders(e)'
<1>1. worker'[w] = r /\ \A v \in Workers \ {w} : worker'[v] = worker[v]
  BY DEF TypeOK
<1>2. A \ {w} = B \ {w} /\ (w \in A <=> worker[w].event = e) /\ (w \in B <=> r.event = e)
  BY <1>1 DEF Holders
<1>3. IsFiniteSet(A)
  BY PoolConstantsOK, FS_Subset DEF Holders
<1> HIDE DEF A, B
<1>4. QED
  BY <1>2, <1>3, CountElement DEF A, B, Has

\* The parts of Places are numbers.
LEMMA PlacesType ==
    ASSUME TypeOK, NEW e \in Events
    PROVE  /\ Occurrences(ch, e) \in Nat
           /\ Occurrences(queue, e) \in Nat
           /\ Len(settled[e]) \in Nat
           /\ Cardinality(Holders(e)) \in Nat
           /\ Places(e) \in Nat
<1>1. Occurrences(ch, e) \in Nat /\ Occurrences(queue, e) \in Nat
  BY OccurrencesType DEF TypeOK
<1>2. Len(settled[e]) \in Nat
  BY DEF TypeOK
<1>3. Cardinality(Holders(e)) \in Nat
  BY PoolConstantsOK, FS_Subset, FS_CardinalityType DEF Holders
<1>4. QED
  BY <1>1, <1>2, <1>3 DEF Places

\* A publisher puts an event of its own into the channel.
Sends(e) == \E p \in Publishers : pub[p] = e /\ pub'[p] = NoEvent

\* An event comes to the channel from a publisher; all other steps keep the number
\* of places it is in.
LEMMA PlacesStep ==
    ASSUME TypeOK, Hands, [Next]_vars, NEW e \in Events
    PROVE  \/ Places(e)' = Places(e)
           \/ Sends(e) /\ Places(e)' = Places(e) + 1
<1> DEFINE C == Occurrences(ch, e)
           Q == Occurrences(queue, e)
           L == Len(settled[e])
           H == Cardinality(Holders(e))
           F == IF fwd.event = e THEN 1 ELSE 0
<1>1. Places(e) = C + Q + L + H + F
  BY DEF Places
<1>2. Places(e)' = Occurrences(ch', e) + Occurrences(queue', e) + Len(settled'[e])
                   + Cardinality(Holders(e)') + (IF fwd'.event = e THEN 1 ELSE 0)
  BY DEF Places
<1>3. C \in Nat /\ Q \in Nat /\ L \in Nat /\ H \in Nat /\ F \in Nat
  BY PlacesType
<1>4. e # NoEvent
  BY NoEventIsNone
<1>5. CASE UNCHANGED <<ch, queue, settled, worker>> /\ fwd'.event = fwd.event
  BY <1>1, <1>2, <1>5 DEF Holders
<1>6. ASSUME NEW p \in Publishers, Send(p)
      PROVE  Places(e)' = Places(e) \/ (Sends(e) /\ Places(e)' = Places(e) + 1)
  <2>1. UNCHANGED <<queue, settled, worker, fwd>> /\ Holders(e)' = Holders(e)
    BY <1>6 DEF Send, poolVars, history, Holders
  <2>2. CASE ch' = ch
    <3> HIDE DEF C, Q, L, H, F
    <3>1. Places(e)' = C + Q + L + H + F
      BY <1>2, <2>1, <2>2 DEF C, Q, L, H, F
    <3>2. QED
      BY <1>1, <3>1, Zenon
  <2>3. CASE ch' = Append(ch, pub[p])
    <3>1. pub[p] \in Events /\ ch \in Seq(Events) /\ pub'[p] = NoEvent
      BY <1>6 DEF Send, TypeOK
    <3>2. Occurrences(ch', e) = C + (IF pub[p] = e THEN 1 ELSE 0)
      BY <2>3, <3>1, OccurrencesAppend
    <3>3. pub[p] = e => Sends(e)
      BY <3>1 DEF Sends
    <3> DEFINE D == Occurrences(ch', e)
    <3> HIDE DEF C, D, Q, L, H, F
    <3>4. D = C \/ (Sends(e) /\ D = C + 1)
      <4>1. (pub[p] = e /\ D = C + 1) \/ D = C
        BY <1>3, <3>2 DEF D
      <4>2. QED
        BY <3>3, <4>1, Zenon
    <3>5. Places(e)' = D + Q + L + H + F
      BY <1>2, <2>1 DEF D, Q, L, H, F
    <3>6. QED
      BY <1>1, <1>3, <3>4, <3>5
  <2>4. QED
    BY <1>6, <2>2, <2>3 DEF Send
<1>7. CASE Forward
  <2>1. /\ UNCHANGED <<queue, settled, worker>> /\ Holders(e)' = Holders(e)
        /\ ch \in Seq(Events) /\ ch # <<>> /\ ch' = Tail(ch) /\ fwd'.event = Head(ch)
        /\ fwd.event = NoEvent
    BY <1>7 DEF Forward, poolVars, history, Holders, Hands, TypeOK
  <2>2. C = Occurrences(ch', e) + (IF fwd'.event = e THEN 1 ELSE 0) /\ F = 0
    BY <1>4, <2>1, OccurrencesTail
  <2>3. Occurrences(ch', e) \in Nat
    <3>1. ch' \in Seq(Events)
      BY <2>1
    <3>2. QED
      BY <3>1, OccurrencesType
  <2> HIDE DEF C, F
  <2>4. Places(e)' = Occurrences(ch', e) + Q + L + H + (IF fwd'.event = e THEN 1 ELSE 0)
    BY <1>2, <2>1
  <2> HIDE DEF Q, L, H
  <2>5. QED
    BY <1>1, <1>3, <2>2, <2>3, <2>4
<1>8. CASE ConsumeQueued
  <2>1. /\ UNCHANGED <<ch, settled, worker>> /\ Holders(e)' = Holders(e)
        /\ queue \in Seq(Events) /\ fwd.event \in Events /\ queue' = Append(queue, fwd.event)
        /\ fwd'.event = NoEvent
    BY <1>8 DEF ConsumeQueued, busVars, history, Holders, Hands, TypeOK, FwdStates
  <2>2. Occurrences(queue', e) = Q + F
    BY <2>1, OccurrencesAppend
  <2> HIDE DEF F, Q
  <2>3. Places(e)' = C + (Q + F) + L + H + 0
    BY <1>2, <1>4, <2>1, <2>2
  <2> HIDE DEF C, L, H
  <2>4. QED
    BY <1>1, <1>3, <2>3
<1>9. CASE ConsumeFailed
  <2>1. /\ UNCHANGED <<ch, queue, worker>> /\ Holders(e)' = Holders(e)
        /\ fwd.event \in Events /\ Settle(fwd.event, "failed") /\ fwd'.event = NoEvent
    BY <1>9 DEF ConsumeFailed, busVars, poolVars, Holders, Hands, TypeOK, FwdStates
  <2>2. Len(settled'[e]) = L + F
    <3>1. /\ Len(settled'[fwd.event]) = Len(settled[fwd.event]) + 1
          /\ \A f \in Events \ {fwd.event} : settled'[f] = settled[f]
      BY <2>1, SettleType DEF Outcomes
    <3>2. CASE fwd.event = e
      BY <3>1, <3>2
    <3>3. CASE fwd.event # e
      BY <1>3, <3>1, <3>3
    <3>4. QED
      BY <3>2, <3>3
  <2> HIDE DEF F, L
  <2>3. Places(e)' = C + Q + (L + F) + H + 0
    BY <1>2, <1>4, <2>1, <2>2
  <2> HIDE DEF C, Q, H
  <2>4. QED
    BY <1>1, <1>3, <2>3
<1>10. ASSUME NEW w \in Workers, WorkerReceive(w)
       PROVE  Places(e)' = Places(e)
  <2> DEFINE h == Head(queue)
             r == [pc |-> "handling", event |-> h, attempt |-> 0]
  <2>1. /\ UNCHANGED <<ch, settled, fwd>> /\ worker' = [worker EXCEPT ![w] = r]
        /\ queue \in Seq(Events) /\ queue # <<>> /\ queue' = Tail(queue)
        /\ worker[w].event = NoEvent
    BY <1>10 DEF WorkerReceive, busVars, Hands, TypeOK
  <2>2. Q = Occurrences(queue', e) + (IF h = e THEN 1 ELSE 0)
    BY <2>1, OccurrencesTail
  <2>3. Occurrences(queue', e) \in Nat /\ r.event = h
    <3>1. queue' \in Seq(Events)
      BY <2>1
    <3>2. QED
      BY <3>1, OccurrencesType
  <2> HIDE DEF h, r
  <2>4. /\ Cardinality(Holders(e)') = H + (IF h = e THEN 1 ELSE 0)
        /\ Cardinality(Holders(e)') \in Nat
    <3>1. /\ Cardinality(Holders(e)') + Has(worker[w], e) = H + Has(r, e)
          /\ Cardinality(Holders(e)') \in Nat
      <4>1. worker' = [worker EXCEPT ![w] = r]
        BY <2>1
      <4>2. QED
        BY <4>1, HoldersStep, Zenon
    <3>2. worker[w].event # e
      BY <1>4, <2>1
    <3> DEFINE K == Cardinality(Holders(e)')
    <3> HIDE DEF H, K
    <3>3. QED
      BY <1>3, <2>3, <3>1, <3>2 DEF K, Has
  <2> HIDE DEF Q, H
  <2>5. Places(e)' = C + Occurrences(queue', e) + L + Cardinality(Holders(e)') + F
    BY <1>2, <2>1
  <2> HIDE DEF C, L, F
  <2>6. QED
    BY <1>1, <1>3, <2>2, <2>3, <2>4, <2>5
<1>11. ASSUME NEW w \in Workers, worker[w].pc \in {"handling", "backoff"},
              NEW outcome \in {"handled", "dead", "dropped"}, Processed(w, outcome)
       PROVE  Places(e)' = Places(e)
  <2>1. /\ UNCHANGED <<ch, queue, fwd>> /\ worker' = [worker EXCEPT ![w] = IdleWorker]
        /\ worker[w].event \in Events /\ Settle(worker[w].event, outcome)
        /\ outcome \in Outcomes
    BY <1>11 DEF Processed, busVars, Hands, TypeOK, Outcomes, WorkerStates
  <2> DEFINE d == IF worker[w].event = e THEN 1 ELSE 0
  <2>2. Len(settled'[e]) = L + d
    <3>1. /\ Len(settled'[worker[w].event]) = Len(settled[worker[w].event]) + 1
          /\ \A f \in Events \ {worker[w].event} : settled'[f] = settled[f]
      BY <2>1, SettleType, Zenon
    <3>2. CASE worker[w].event = e
      BY <3>1, <3>2
    <3>3. CASE worker[w].event # e
      BY <1>3, <3>1, <3>3
    <3>4. QED
      BY <3>2, <3>3
  <2>3. IdleWorker.event # e
    BY <1>4 DEF IdleWorker
  <2>4. Cardinality(Holders(e)') + d = H /\ Cardinality(Holders(e)') \in Nat
    <3>1. /\ Cardinality(Holders(e)') + Has(worker[w], e) = H + Has(IdleWorker, e)
          /\ Cardinality(Holders(e)') \in Nat
      <4>1. worker' = [worker EXCEPT ![w] = IdleWorker]
        BY <2>1
      <4>2. QED
        BY <4>1, HoldersStep, Zenon
    <3> DEFINE K == Cardinality(Holders(e)')
    <3>2. K + d = H + 0 /\ K \in Nat
      BY <2>3, <3>1, Zenon DEF Has
    <3> HIDE DEF H, K, d
    <3>3. K + d = H
      BY <1>3, <3>2
    <3>4. QED
      BY <3>2, <3>3 DEF K
  <2>5. d \in Nat
    OBVIOUS
  <2> HIDE DEF H, L, d
  <2>6. Places(e)' = C + Q + (L + d) + Cardinality(Holders(e)') + F
    BY <1>2, <2>1, <2>2
  <2> HIDE DEF C, Q, F
  <2>7. QED
    BY <1>1, <1>3, <2>4, <2>5, <2>6
<1>12. ASSUME NEW w \in Workers, NEW r, worker' = [worker EXCEPT ![w] = r],
              r.event = worker[w].event, UNCHANGED <<ch, queue, settled, fwd>>
       PROVE  Places(e)' = Places(e)
  <2>1. Holders(e)' = Holders(e)
    BY <1>12 DEF Holders, TypeOK
  <2>2. QED
    BY <1>1, <1>2, <1>12, <2>1
<1>13. ASSUME NEW w \in Workers,
              \/ WorkerExit(w)
              \/ HandlerFails(w) /\ worker[w].attempt # MaxRetries
              \/ BackoffOver(w)
       PROVE  Places(e)' = Places(e)
  <2>1. worker[w] \in WorkerStates
    BY DEF TypeOK
  <2>2. /\ UNCHANGED <<ch, queue, settled, fwd>>
        /\ \E r : worker' = [worker EXCEPT ![w] = r] /\ r.event = worker[w].event
    BY <1>13, <2>1 DEF WorkerExit, HandlerFails, BackoffOver, WorkerStates, busVars, history
  <2>3. QED
    BY <1>12, <2>2
<1>14. ASSUME NEW w \in Workers, WorkerStep(w)
       PROVE  Places(e)' = Places(e)
  <2>1. CASE HandlerOk(w) \/ HandlerPanics(w) \/ HandlerRejected(w) \/ BackoffCancelled(w)
    BY <1>11, <2>1 DEF HandlerOk, HandlerPanics, HandlerRejected, BackoffCancelled
  <2>2. CASE HandlerFails(w) /\ worker[w].attempt = MaxRetries
    BY <1>11, <2>2 DEF HandlerFails
  <2>3. QED
    BY <1>10, <1>13, <1>14, <2>1, <2>2, Zenon DEF WorkerStep, HandlerReturns
<1>15. CASE \/ \E p \in Publishers : Target(p)
            \/ BusClose \/ CtxCancel \/ Unsubscribe \/ UnsubReturn
            \/ SubscribeWithPool \/ FwdExit \/ Teardown \/ UNCHANGED vars
  <2>1. fwd \in FwdStates
    BY DEF TypeOK
  <2>2. UNCHANGED <<ch, queue, settled, worker>> /\ fwd'.event = fwd.event
    BY <1>15, <2>1 DEF FwdStates, Target, BusClose, CtxCancel, Unsubscribe, UnsubReturn,
          SubscribeWithPool, FwdExit, Teardown, TeardownRemove, TeardownStop, TeardownWait,
          TeardownClose, vars, busVars, poolVars, history
  <2>3. QED
    BY <1>5, <2>2
<1>16. QED
  BY <1>6, <1>7, <1>8, <1>9, <1>14, <1>15, Zenon DEF Next, FwdStep

-----------------------------------------------------------------------------
\* The steps keep the invariant

\* Whose step it is: the forwarder, the workers and Unsubscribe have variables of their own.
LEMMA Owners ==
    ASSUME [Next]_vars
    PROVE  /\ FwdStep \/ UNCHANGED fwd
           /\ (\E w \in Workers : WorkerStep(w)) \/ UNCHANGED worker
           /\ (\E p \in Publishers : Target(p) \/ Send(p)) \/ UNCHANGED <<pub, published>>
           /\ Unsubscribe \/ UnsubReturn \/ UNCHANGED unsub
<1>1. CASE \E p \in Publishers : Target(p) \/ Send(p)
  BY <1>1 DEF Target, Send, poolVars
<1>2. CASE BusClose \/ CtxCancel \/ Unsubscribe \/ UnsubReturn \/ UNCHANGED vars
  BY <1>2 DEF BusClose, CtxCancel, Unsubscribe, UnsubReturn, vars, busVars, poolVars
<1>3. CASE FwdStep
  BY <1>3 DEF FwdStep, SubscribeWithPool, Forward, ConsumeQueued, ConsumeFailed, FwdExit,
     Teardown,
     TeardownRemove, TeardownStop, TeardownWait, TeardownClose, busVars, poolVars
<1>4. ASSUME NEW w \in Workers, WorkerStep(w)
      PROVE  UNCHANGED <<fwd, pub, published, unsub>>
  BY <1>4 DEF WorkerStep, WorkerReceive, WorkerExit, HandlerReturns, HandlerOk, HandlerPanics,
     HandlerRejected, HandlerFails, BackoffOver, BackoffCancelled, Processed, busVars
<1>5. QED
  BY <1>1, <1>2, <1>3, <1>4 DEF Next

\* Who takes an event, has it; who is done with it, has not.
LEMMA HandsStep ==
    ASSUME TypeOK, Hands, [Next]_vars
    PROVE  Hands'
<1> DEFINE FwdHands == fwd.pc = "consume" <=> fwd.event # NoEvent
           Holds(r) == r.pc \in {"handling", "backoff"} <=> r.event # NoEvent
<1>1. FwdHands'
  <2>1. fwd \in FwdStates
    BY DEF TypeOK
  <2>2. CASE fwd' = fwd
    BY <2>2 DEF Hands
  <2>3. CASE Forward
    <3>1. Head(ch) \in Events
      BY <2>3 DEF Forward, TypeOK
    <3>2. QED
      BY <2>3, <3>1, NoEventIsNone DEF Forward
  <2>4. CASE FwdStep /\ ~Forward
    BY <2>1, <2>4 DEF FwdStates, FwdStep, SubscribeWithPool, ConsumeQueued, ConsumeFailed,
       FwdExit, Teardown,
          TeardownRemove, TeardownStop, TeardownWait, TeardownClose, Hands
  <2>5. FwdStep \/ fwd' = fwd
    BY Owners
  <2>6. QED
    BY <2>2, <2>3, <2>4, <2>5
<1>2. \A w \in Workers : Holds(worker'[w])
  <2>1. \A w \in Workers : worker[w] \in WorkerStates /\ Holds(worker[w])
    BY DEF TypeOK, Hands
  <2>2. ASSUME NEW w \in Workers, NEW r, Holds(r), worker' = [worker EXCEPT ![w] = r]
        PROVE  \A v \in Workers : Holds(worker'[v])
    BY <2>1, <2>2 DEF TypeOK
  <2>3. ASSUME NEW w \in Workers, WorkerStep(w)
        PROVE  \E r : Holds(r) /\ worker' = [worker EXCEPT ![w] = r]
    <3>1. CASE WorkerReceive(w)
      <4>1. Head(queue) \in Events
        BY <3>1 DEF WorkerReceive, TypeOK
      <4>2. QED
        BY <3>1, <4>1, NoEventIsNone DEF WorkerReceive
    <3>2. CASE \/ WorkerExit(w) \/ BackoffOver(w)
               \/ HandlerFails(w) /\ worker[w].attempt # MaxRetries
      BY <2>1, <3>2 DEF WorkerExit, BackoffOver, HandlerFails, WorkerStates
    <3>3. CASE worker' = [worker EXCEPT ![w] = IdleWorker]
      BY <3>3 DEF IdleWorker
    <3>4. QED
      BY <2>3, <3>1, <3>2, <3>3
         DEF WorkerStep, HandlerReturns, HandlerOk, HandlerPanics, HandlerRejected, HandlerFails,
             BackoffCancelled, Processed
  <2>4. CASE worker' = worker
    BY <2>1, <2>4
  <2>5. worker' = worker \/ \E w \in Workers : WorkerStep(w)
    BY Owners
  <2> HIDE DEF Holds
  <2>6. QED
    BY <2>2, <2>3, <2>4, <2>5, Zenon
<1>3. QED
  BY <1>1, <1>2 DEF Hands

\* A new event is nobody's, and an event that is sent is not sent again.
LEMMA UnsentStep ==
    ASSUME TypeOK, Hands, Unsent, [Next]_vars
    PROVE  Unsent'
<1> SUFFICES ASSUME NEW e \in Events
             PROVE  /\ e > published' => Places(e)' = 0
                    /\ \A p \in Publishers : pub'[p] = e =>
                         /\ e <= published'
                         /\ Places(e)' = 0
                         /\ \A q \in Publishers : q # p => pub'[q] # e
  BY DEF Unsent
<1>1. /\ e \in Nat /\ e # NoEvent /\ published \in Nat
      /\ e > published => Places(e) = 0
      /\ \A p \in Publishers : pub[p] = e =>
           e <= published /\ Places(e) = 0 /\ \A q \in Publishers : q # p => pub[q] # e
  BY PoolConstantsOK, NoEventIsNone DEF TypeOK, Unsent
<1>2. Sends(e) \/ Places(e)' = Places(e)
  BY PlacesStep, Zenon
<1>3. CASE \E p \in Publishers : Target(p)
  <2>1. PICK p \in Publishers : Target(p)
    BY <1>3
  <2>2. /\ pub[p] = NoEvent /\ published' = published + 1 /\ pub'[p] = published + 1
        /\ \A q \in Publishers \ {p} : pub'[q] = pub[q]
    BY <2>1 DEF Target, TypeOK
  <2>3. Places(e)' = Places(e)
    BY <1>1, <1>2, <2>2 DEF Sends
  <2>4. e > published + 1 => e > published
    BY <1>1
  <2>5. e <= published => e <= published + 1 /\ e # published + 1
    BY <1>1
  <2>6. e = published + 1 => e > published /\ e <= published + 1 /\ ~(e <= published)
    BY <1>1
  <2>7. QED
    BY <1>1, <2>2, <2>3, <2>4, <2>5, <2>6
<1>4. CASE \E p \in Publishers : Send(p)
  <2>1. PICK p \in Publishers : Send(p)
    BY <1>4
  <2>2. /\ published' = published /\ pub'[p] = NoEvent
        /\ \A q \in Publishers \ {p} : pub'[q] = pub[q]
    BY <2>1 DEF Send, TypeOK
  <2>3. CASE pub[p] = e
    <3>1. ~(e > published)
      BY <1>1, <2>3
    <3>2. QED
      BY <1>1, <2>2, <2>3, <3>1
  <2>4. CASE pub[p] # e
    <3>1. Places(e)' = Places(e)
      BY <1>1, <1>2, <2>2, <2>4 DEF Sends
    <3>2. QED
      BY <1>1, <2>2, <2>4, <3>1
  <2>5. QED
    BY <2>3, <2>4
<1>5. CASE UNCHANGED <<pub, published>>
  <2>1. Places(e)' = Places(e)
    BY <1>1, <1>2, <1>5 DEF Sends
  <2>2. QED
    BY <1>1, <1>5, <2>1
<1>6. QED
  BY <1>3, <1>4, <1>5, Owners

\* An event comes to the channel when it is nowhere.
LEMMA OnePlaceStep ==
    ASSUME TypeOK, Hands, Unsent, OnePlace, [Next]_vars
    PROVE  OnePlace'
<1> SUFFICES ASSUME NEW e \in Events
             PROVE  Places(e)' <= 1
  BY DEF OnePlace
<1>1. Places(e) \in Nat /\ Places(e) <= 1
  BY PlacesType DEF OnePlace
<1>2. Sends(e) => Places(e) = 0
  BY NoEventIsNone DEF Sends, Unsent
<1>3. CASE Places(e)' = Places(e)
  BY <1>1, <1>3
<1>4. CASE Sends(e) /\ Places(e)' = Places(e) + 1
  BY <1>2, <1>4
<1>5. QED
  BY <1>3, <1>4, PlacesStep, Zenon

\* Workers that have exited stay so, and the forwarder waits for them.
LEMMA EndsStep ==
    ASSUME TypeOK, Ends, [Next]_vars
    PROVE  Ends'
<1>1. \A w \in Workers : worker[w].pc = "exited" => worker'[w].pc = "exited"
  <2>1. ASSUME NEW v \in Workers, WorkerStep(v)
        PROVE  worker[v].pc # "exited" /\ \A w \in Workers \ {v} : worker'[w] = worker[w]
    BY <2>1 DEF WorkerStep, WorkerReceive, WorkerExit, HandlerReturns, HandlerOk, HandlerPanics,
       HandlerRejected, HandlerFails, BackoffOver, BackoffCancelled, Processed, TypeOK
  <2>2. worker' = worker \/ \E w \in Workers : WorkerStep(w)
    BY Owners
  <2>3. QED
    BY <2>1, <2>2
<1>2. /\ fwd'.pc \in {"closing", "exited"} =>
           fwd.pc \in {"closing", "exited"} \/ \A w \in Workers : worker[w].pc = "exited"
      /\ fwd.pc = "exited" => fwd' = fwd
  <2>1. fwd \in FwdStates
    BY DEF TypeOK
  <2>2. CASE FwdStep
    BY <2>1, <2>2 DEF FwdStates, FwdStep, SubscribeWithPool, Forward, ConsumeQueued,
       ConsumeFailed, FwdExit,
       Teardown, TeardownRemove, TeardownStop, TeardownWait, TeardownClose
  <2>3. QED
    BY <2>2, Owners
<1>3. unsub' = "done" => unsub = "done" \/ fwd.pc = "exited"
  BY Owners DEF Unsubscribe, UnsubReturn
<1>4. QED
  BY <1>1, <1>2, <1>3 DEF Ends

\* An event a worker has, or that is settled, is nowhere else.
LEMMA SolePlace ==
    ASSUME TypeOK, OnePlace, NEW e \in Events
    PROVE  /\ Holders(e) # {} => settled[e] = <<>>
           /\ \A v, w \in Holders(e) : v = w
           /\ fwd.event = e => settled[e] = <<>> /\ Holders(e) = {}
           /\ queue # <<>> /\ Head(queue) = e => settled[e] = <<>> /\ Holders(e) = {}
<1> DEFINE H == Cardinality(Holders(e))
           L == Len(settled[e])
           Q == Occurrences(queue, e)
           C == Occurrences(ch, e)
           F == IF fwd.event = e THEN 1 ELSE 0
<1>1. C + Q + L + H + F <= 1 /\ C \in Nat /\ Q \in Nat /\ L \in Nat /\ H \in Nat /\ F \in Nat
  BY PlacesType DEF OnePlace, Places
<1>2. IsFiniteSet(Holders(e))
  BY PoolConstantsOK, FS_Subset DEF Holders
<1>3. /\ H = 0 <=> Holders(e) = {}
      /\ H = 1 => \E w : Holders(e) = {w}
  BY <1>2, FS_EmptySet, FS_Singleton
<1>4. L = 0 <=> settled[e] = <<>>
  BY DEF TypeOK
<1>5. queue # <<>> /\ Head(queue) = e => Q >= 1
  <2>1. SUFFICES ASSUME queue # <<>>, Head(queue) = e
                 PROVE  Q >= 1
    OBVIOUS
  <2>2. queue \in Seq(Events) /\ Tail(queue) \in Seq(Events)
    BY <2>1 DEF TypeOK
  <2>3. Q = Occurrences(Tail(queue), e) + 1 /\ Occurrences(Tail(queue), e) \in Nat
    BY <2>1, <2>2, OccurrencesTail, OccurrencesType
  <2>4. QED
    BY <2>3
<1>6. fwd.event = e => F = 1
  OBVIOUS
<1> HIDE DEF H, L, Q, C, F
<1>7. /\ H \in {0, 1} /\ (H = 1 => L = 0)
      /\ F = 1 => L = 0 /\ H = 0
      /\ Q >= 1 => L = 0 /\ H = 0
  BY <1>1
<1>8. QED
  BY <1>3, <1>4, <1>5, <1>6, <1>7

\* The handler is called with an event that no worker has and that is not settled, or
\* once more by the worker that has it.
LEMMA AttemptsStep ==
    ASSUME TypeOK, Hands, OnePlace, Attempts, [Next]_vars
    PROVE  Attempts'
<1> USE NoEventIsNone, PoolConstantsOK
<1>1. /\ \A w \in Workers : worker[w] \in WorkerStates
      /\ \A e \in Events : calls[e] \in Nat /\ settled[e] \in Seq(Outcomes)
      /\ fwd \in FwdStates
  BY DEF TypeOK
<1>2. ASSUME NEW w \in Workers, worker[w].event # NoEvent
      PROVE  /\ worker[w].event \in Events
             /\ settled[worker[w].event] = <<>>
             /\ \A v \in Workers \ {w} : worker[v].event # worker[w].event
  <2>1. worker[w].event \in Events /\ w \in Holders(worker[w].event)
    BY <1>1, <1>2 DEF WorkerStates, Holders
  <2>2. /\ settled[worker[w].event] = <<>>
        /\ \A v \in Holders(worker[w].event) : v = w
    BY <2>1, SolePlace, Zenon
  <2>3. QED
    BY <2>1, <2>2, Zenon DEF Holders
<1>3. CASE UNCHANGED <<worker, calls, settled>>
  <2>1. \A e \in Events : Holders(e)' = Holders(e)
    BY <1>3 DEF Holders
  <2>2. QED
    BY <1>1, <1>3, <2>1 DEF Attempts, AttemptsBounded, WorkerStates
<1>4. CASE ConsumeFailed
  <2> DEFINE e == fwd.event
  <2>1. e \in Events /\ UNCHANGED <<worker, calls>> /\ Settle(e, "failed")
    BY <1>1, <1>4 DEF ConsumeFailed, Hands, FwdStates, poolVars
  <2>2. settled[e] = <<>> /\ Holders(e) = {}
    BY <2>1, SolePlace
  <2>3. calls[e] = 0
    BY <2>1, <2>2 DEF Attempts
  <2>4. \A f \in Events \ {e} : settled'[f] = settled[f]
    BY <2>1, SettleType DEF Outcomes
  <2>5. \A f \in Events : Holders(f)' = Holders(f)
    BY <2>1 DEF Holders
  <2> HIDE DEF e
  <2>6. QED
    BY <1>1, <2>1, <2>3, <2>4, <2>5 DEF Attempts, AttemptsBounded, WorkerStates
<1>5. ASSUME NEW w \in Workers, WorkerReceive(w)
      PROVE  Attempts'
  <2>0. Head(queue) \in Events
    BY <1>5 DEF WorkerReceive, TypeOK
  <2> PICK h \in Events : h = Head(queue)
    BY <2>0
  <2>1. /\ queue # <<>> /\ CallHandler(h) /\ UNCHANGED settled
        /\ worker' = [worker EXCEPT ![w] = [pc |-> "handling", event |-> h, attempt |-> 0]]
    BY <1>5 DEF WorkerReceive
  <2>2. settled[h] = <<>> /\ Holders(h) = {}
    BY <2>1, SolePlace
  <2>3. calls[h] = 0
    BY <2>1, <2>2 DEF Attempts
  <2>4. calls'[h] = 1 /\ \A f \in Events \ {h} : calls'[f] = calls[f]
    BY <2>1, <2>3, CallType
  <2>5. /\ worker'[w] = [pc |-> "handling", event |-> h, attempt |-> 0]
        /\ \A v \in Workers \ {w} : worker'[v] = worker[v]
    BY <2>1 DEF TypeOK
  <2>6. \A v \in Workers \ {w} : worker[v].event # h
    BY <2>2 DEF Holders
  <2>7. ASSUME NEW v \in Workers, worker'[v].event # NoEvent
        PROVE  /\ calls'[worker'[v].event] = worker'[v].attempt + 1
               /\ worker'[v].pc = "backoff" => worker'[v].attempt < MaxRetries
    <3>1. CASE v = w
      BY <2>4, <2>5, <3>1
    <3>2. CASE v # w
      <4>1. worker'[v] = worker[v] /\ worker[v].event \in Events \ {h}
        BY <1>1, <2>5, <2>6, <2>7, <3>2 DEF WorkerStates
      <4>2. QED
        BY <2>4, <2>7, <4>1 DEF Attempts
    <3>3. QED
      BY <3>1, <3>2
  <2>8. \A f \in Events : calls'[f] # 0 => settled'[f] # <<>> \/ Holders(f)' # {}
    <3>1. w \in Holders(h)'
      BY <2>5 DEF Holders
    <3>2. \A f \in Events : Holders(f) \subseteq Holders(f)'
      <4>1. worker[w].event = NoEvent
        BY <1>5 DEF WorkerReceive, Hands
      <4>2. QED
        BY <2>5, <4>1 DEF Holders
    <3>3. QED
      BY <2>1, <2>4, <3>1, <3>2 DEF Attempts
  <2>9. AttemptsBounded'
    <3>1. ~Contains(settled[h], "failed") /\ 1 <= 1 + MaxRetries
      BY <2>2 DEF Contains
    <3>2. QED
      BY <2>1, <2>4, <3>1 DEF Attempts, AttemptsBounded
  <2>10. QED
    BY <2>7, <2>8, <2>9 DEF Attempts
<1>6. ASSUME NEW w \in Workers, worker[w].pc \in {"handling", "backoff"},
             NEW outcome \in {"handled", "dead", "dropped"}, Processed(w, outcome)
      PROVE  Attempts'
  <2> DEFINE e == worker[w].event
  <2>1. /\ e # NoEvent /\ UNCHANGED calls /\ Settle(e, outcome) /\ outcome \in Outcomes
        /\ worker' = [worker EXCEPT ![w] = IdleWorker]
    BY <1>6 DEF Processed, Hands, Outcomes
  <2>2. e \in Events /\ settled[e] = <<>> /\ \A v \in Workers \ {w} : worker[v].event # e
    BY <1>2, <2>1
  <2> HIDE DEF e
  <2>3. settled'[e] = <<outcome>> /\ \A f \in Events \ {e} : settled'[f] = settled[f]
    <3>1. settled'[e] = Append(settled[e], outcome)
      BY <2>1, <2>2 DEF Settle, TypeOK
    <3>2. QED
      BY <2>1, <2>2, <3>1, SettleType
  <2>4. /\ worker'[w].event = NoEvent
        /\ \A v \in Workers \ {w} : worker'[v] = worker[v]
    BY <2>1 DEF TypeOK, IdleWorker
  <2>5. ASSUME NEW v \in Workers, worker'[v].event # NoEvent
        PROVE  /\ calls'[worker'[v].event] = worker'[v].attempt + 1
               /\ worker'[v].pc = "backoff" => worker'[v].attempt < MaxRetries
    BY <2>1, <2>4, <2>5 DEF Attempts
  <2>6. \A f \in Events : calls'[f] # 0 => settled'[f] # <<>> \/ Holders(f)' # {}
    <3>1. \A f \in Events \ {e} : Holders(f) \subseteq Holders(f)'
      BY <2>4 DEF Holders, e
    <3>2. QED
      BY <2>1, <2>3, <3>1 DEF Attempts
  <2>7. AttemptsBounded'
    <3>1. ~Contains(settled'[e], "failed")
      BY <1>6, <2>3 DEF Contains
    <3>2. QED
      BY <2>1, <2>3, <3>1 DEF Attempts, AttemptsBounded
  <2>8. QED
    BY <2>5, <2>6, <2>7 DEF Attempts
<1>7. ASSUME NEW w \in Workers,
             WorkerExit(w) \/ (HandlerFails(w) /\ worker[w].attempt # MaxRetries)
      PROVE  Attempts'
  <2>1. /\ UNCHANGED <<calls, settled>>
        /\ worker'[w].event = worker[w].event /\ worker'[w].attempt = worker[w].attempt
        /\ worker'[w].pc = "backoff" => worker[w].attempt < MaxRetries
        /\ \A v \in Workers \ {w} : worker'[v] = worker[v]
    <3>1. worker[w] \in WorkerStates /\ worker \in [Workers -> WorkerStates]
      BY DEF TypeOK
    <3>2. worker[w].attempt # MaxRetries => worker[w].attempt < MaxRetries
      BY <3>1 DEF WorkerStates
    <3>3. QED
      BY <1>7, <3>1, <3>2 DEF WorkerExit, HandlerFails, WorkerStates, history
  <2>2. \A f \in Events : Holders(f)' = Holders(f)
    BY <2>1 DEF Holders
  <2>3. QED
    BY <2>1, <2>2 DEF Attempts, AttemptsBounded
<1>8. ASSUME NEW w \in Workers, BackoffOver(w)
      PROVE  Attempts'
  <2> DEFINE e == worker[w].event
             n == worker[w].attempt
  <2>1. /\ e # NoEvent /\ UNCHANGED settled /\ CallHandler(e)
        /\ worker[w] \in WorkerStates
        /\ calls[e] = n + 1 /\ n < MaxRetries
    BY <1>1, <1>8 DEF BackoffOver, Hands, Attempts
  <2>2. e \in Events /\ settled[e] = <<>> /\ \A v \in Workers \ {w} : worker[v].event # e
    BY <1>2, <2>1
  <2>3. /\ worker'[w].event = e /\ worker'[w].attempt = n + 1 /\ worker'[w].pc = "handling"
        /\ \A v \in Workers \ {w} : worker'[v] = worker[v]
    BY <1>8, <2>1 DEF BackoffOver, TypeOK, WorkerStates
  <2>4. n \in Nat
    BY <2>1 DEF WorkerStates
  <2> HIDE DEF e, n
  <2>5. calls'[e] = (n + 1) + 1 /\ \A f \in Events \ {e} : calls'[f] = calls[f]
    BY <2>1, <2>2, <2>4, CallType
  <2>6. ASSUME NEW v \in Workers, worker'[v].event # NoEvent
        PROVE  /\ calls'[worker'[v].event] = worker'[v].attempt + 1
               /\ worker'[v].pc = "backoff" => worker'[v].attempt < MaxRetries
    <3>1. CASE v = w
      BY <2>3, <2>5, <3>1
    <3>2. CASE v # w
      <4>1. worker'[v] = worker[v] /\ worker[v].event \in Events \ {e}
        BY <1>1, <2>2, <2>3, <2>6, <3>2 DEF WorkerStates
      <4>2. QED
        BY <2>5, <2>6, <4>1 DEF Attempts
    <3>3. QED
      BY <3>1, <3>2
  <2>7. \A f \in Events : Holders(f)' = Holders(f)
    BY <2>3 DEF Holders, e
  <2>8. \A f \in Events : calls'[f] # 0 => settled'[f] # <<>> \/ Holders(f)' # {}
    <3>1. w \in Holders(e)
      BY DEF Holders, e
    <3>2. QED
      BY <2>1, <2>5, <2>7, <3>1 DEF Attempts
  <2>9. AttemptsBounded'
    <3>1. ~Contains(settled[e], "failed") /\ (n + 1) + 1 <= 1 + MaxRetries
      BY <2>1, <2>2, <2>4 DEF Contains
    <3>2. QED
      BY <2>1, <2>5, <3>1 DEF Attempts, AttemptsBounded
  <2>10. QED
    BY <2>6, <2>8, <2>9 DEF Attempts
<1>9. ASSUME NEW w \in Workers, WorkerStep(w)
      PROVE  Attempts'
  <2>1. CASE HandlerOk(w) \/ HandlerPanics(w) \/ HandlerRejected(w) \/ BackoffCancelled(w)
    BY <1>6, <2>1 DEF HandlerOk, HandlerPanics, HandlerRejected, BackoffCancelled
  <2>2. CASE HandlerFails(w) /\ worker[w].attempt = MaxRetries
    BY <1>6, <2>2 DEF HandlerFails
  <2>3. QED
    BY <1>5, <1>7, <1>8, <1>9, <2>1, <2>2, Zenon DEF WorkerStep, HandlerReturns
<1>10. ConsumeFailed \/ UNCHANGED <<worker, calls, settled>> \/ \E w \in Workers : WorkerStep(w)
  BY DEF Next, Target, Send, BusClose, CtxCancel, Unsubscribe, UnsubReturn, FwdStep,
     SubscribeWithPool, Forward, ConsumeQueued, FwdExit, Teardown, TeardownRemove, TeardownStop,
     TeardownWait, TeardownClose, vars, poolVars, history
<1>11. QED
  BY <1>3, <1>4, <1>9, <1>10, Zenon
-----------------------------------------------------------------------------
\* The theorems

\* In the pool newPool returns no event is anywhere.
LEMMA IInvInit == Init => IInv
<1> SUFFICES ASSUME Init
             PROVE  IInv
  OBVIOUS
<1>1. TypeOK
  BY TypeInit
<1>2. /\ \A e \in Events : Holders(e) = {} /\ calls[e] = 0 /\ settled[e] = <<>>
      /\ \A w \in Workers : worker[w].pc = "select" /\ worker[w].event = NoEvent
      /\ fwd.pc = "subscribing" /\ fwd.event = NoEvent
      /\ \A p \in Publishers : pub[p] = NoEvent
  BY NoEventIsNone DEF Init, Holders, IdleWorker
<1>3. \A e \in Events : Places(e) = 0
  <2>1. TAKE e \in Events
  <2>2. Occurrences(ch, e) = 0 /\ Occurrences(queue, e) = 0
    BY OccurrencesEmpty DEF Init
  <2>3. Cardinality(Holders(e)) = 0 /\ Len(settled[e]) = 0 /\ fwd.event # e
    <3>1. Holders(e) = {} /\ settled[e] = <<>> /\ fwd.event # e
      BY <1>2, NoEventIsNone
    <3>2. Cardinality({}) = 0
      BY FS_EmptySet
    <3>3. QED
      BY <3>1, <3>2
  <2>4. QED
    BY <2>2, <2>3 DEF Places
<1>4. OnePlace
  BY <1>3 DEF OnePlace
<1>5. Hands /\ Ends
  BY <1>2 DEF Hands, Ends, Init
<1>6. Unsent
  BY <1>2, <1>3, NoEventIsNone DEF Unsent
<1>7. Attempts
  <2>1. 0 <= 1 + MaxRetries
    BY PoolConstantsOK
  <2>2. QED
    BY <1>2, <2>1 DEF Attempts, AttemptsBounded
<1>8. QED
  BY <1>1, <1>4, <1>5, <1>6, <1>7 DEF IInv

\* Every step keeps the invariant.
LEMMA IInvStep == IInv /\ [Next]_vars => IInv'
BY TypeStep, HandsStep, UnsentStep, OnePlaceStep, AttemptsStep, EndsStep DEF IInv

\* It is an invariant of the pool.
LEMMA IInvHolds == SafetySpec => []IInv
BY IInvInit, IInvStep, PTL DEF SafetySpec

\* No event is in two places: handled twice, handled and dead-lettered, or held by
\* two workers.
THEOREM EventsAreInOnePlace == SafetySpec => []OnePlace
<1>1. IInv => OnePlace
  BY DEF IInv
<1>2. QED
  BY <1>1, IInvHolds, PTL

\* No event is handled more often than its retries allow, nor after it was refused.
THEOREM RetriesAreBounded == SafetySpec => []AttemptsBounded
<1>1. IInv => AttemptsBounded
  BY DEF IInv, Attempts
<1>2. QED
  BY <1>1, IInvHolds, PTL

\* An event the channel took is in the pool or settled from then on.
THEOREM EventsAreNeverLost == SafetySpec => NeverLost
<1>1. IInv /\ [Next]_vars => [\A e \in Events : Places(e) > 0 => Places(e)' > 0]_vars
  <2>1. SUFFICES ASSUME IInv, [Next]_vars, NEW e \in Events, Places(e) > 0
                 PROVE  Places(e)' > 0
    OBVIOUS
  <2>2. TypeOK /\ Hands
    BY <2>1 DEF IInv
  <2>3. Places(e)' = Places(e) \/ Places(e)' = Places(e) + 1
    BY <2>1, <2>2, PlacesStep, Zenon
  <2>4. Places(e) \in Nat
    BY <2>2, PlacesType
  <2>5. QED
    BY <2>1, <2>3, <2>4
<1>2. QED
  BY <1>1, IInvHolds, PTL DEF SafetySpec, NeverLost

\* When Unsubscribe has returned, the forwarder and all workers have, and nobody is
\* left to call a handler or a callback.
THEOREM UnsubscribedIsQuiet == SafetySpec => QuietAfterUnsubscribe
<1>1. IInv /\ [Next]_vars => [unsub = "done" => UNCHANGED history]_vars
  <2>1. SUFFICES ASSUME IInv, [Next]_vars, unsub = "done"
                 PROVE  UNCHANGED history
    OBVIOUS
  <2>2. fwd.pc = "exited" /\ \A w \in Workers : worker[w].pc = "exited"
    BY <2>1 DEF IInv, Ends
  <2>3. ~ConsumeFailed /\ \A w \in Workers : ~WorkerStep(w)
    BY <2>2 DEF ConsumeFailed, WorkerStep, WorkerReceive, WorkerExit, HandlerReturns, HandlerOk,
       HandlerPanics, HandlerRejected, HandlerFails, BackoffOver, BackoffCancelled
  <2>4. QED
    BY <2>1, <2>3 DEF Next, Target, Send, BusClose, CtxCancel, Unsubscribe, UnsubReturn, FwdStep,
       SubscribeWithPool, Forward, ConsumeQueued, FwdExit, Teardown, TeardownRemove, TeardownStop,
       TeardownWait, TeardownClose, vars
<1>2. QED
  BY <1>1, IInvHolds, PTL DEF SafetySpec, QuietAfterUnsubscribe
-----------------------------------------------------------------------------
\* The pool as a user of PubSub

\* The channel is in the tables from SubscribeWithPool to TeardownRemove at most.
Listed == registered => fwd.pc \in {"select", "consume", "removing"}

\* Only those two steps put it in and take it out.
LEMMA ListedStep == TypeOK /\ Listed /\ [Next]_vars => Listed'
<1> SUFFICES ASSUME TypeOK, Listed, [Next]_vars
             PROVE  Listed'
  OBVIOUS
<1>1. CASE FwdStep
  <2>1. fwd \in FwdStates
    BY DEF TypeOK
  <2>2. CASE SubscribeWithPool
    BY <2>1, <2>2 DEF SubscribeWithPool, Listed, FwdStates
  <2>3. CASE TeardownRemove
    BY <2>3 DEF TeardownRemove, Listed
  <2>4. CASE Forward \/ ConsumeQueued \/ ConsumeFailed \/ FwdExit
    <3>1. fwd.pc \in {"select", "consume"} /\ registered' = registered
      BY <2>4 DEF Forward, ConsumeQueued, ConsumeFailed, FwdExit, busVars
    <3>2. fwd'.pc \in {"select", "consume", "removing"}
      BY <2>1, <2>4 DEF Forward, ConsumeQueued, ConsumeFailed, FwdExit, FwdStates
    <3>3. QED
      BY <3>1, <3>2 DEF Listed
  <2>5. CASE TeardownStop \/ TeardownWait \/ TeardownClose
    BY <2>5 DEF TeardownStop, TeardownWait, TeardownClose, busVars, Listed
  <2>6. QED
    BY <1>1, <2>2, <2>3, <2>4, <2>5 DEF FwdStep, Teardown
<1>2. CASE (registered' => registered) /\ fwd' = fwd
  BY <1>2 DEF Listed
<1>3. ASSUME NEW w \in Workers, WorkerStep(w)
      PROVE  UNCHANGED <<registered, fwd>>
  BY <1>3 DEF WorkerStep, WorkerReceive, WorkerExit, HandlerReturns, HandlerOk, HandlerPanics,
     HandlerRejected, HandlerFails, BackoffOver, BackoffCancelled, Processed, busVars
<1>4. QED
  BY <1>1, <1>2, <1>3 DEF Next, Target, Send, BusClose, CtxCancel, Unsubscribe, UnsubReturn, vars,
     busVars

\* The pool subscribes after newPool, so the invariant holds at first.
LEMMA ListedHolds == SafetySpec => []Listed
<1>1. Init => Listed
  BY DEF Init, Listed
<1>2. IInv => TypeOK
  BY DEF IInv
<1>3. QED
  BY <1>1, <1>2, ListedStep, IInvHolds, PTL DEF SafetySpec

\* dispatch copies the channel as a target: the event is due to the pool.
LEMMA TargetIsAnnounce ==
    ASSUME IInv, Listed, NEW p \in Publishers, Target(p)
    PROVE  Bus!Announce(published + 1, "topic") /\ published + 1 \in Events
<1> DEFINE e == published + 1
<1>1. /\ published \in Nat /\ e \in Events /\ published' = e
      /\ pub' = [pub EXCEPT ![p] = e] /\ pub \in [Publishers -> Events \cup {NoEvent}]
      /\ registered /\ pub[p] = NoEvent
      /\ UNCHANGED <<registered, ch, chClosed, fwd>>
  BY PoolConstantsOK DEF IInv, TypeOK, Target, Events
<1>2. fwd.pc # "subscribing"
  BY <1>1 DEF Listed
<1>3. \A q \in Publishers : pub[q] # e
  BY <1>1, PoolConstantsOK DEF IInv, Unsent, Events
<1>4. \A d \in Events : (\E q \in Publishers : pub'[q] = d)
                         <=> d = e \/ \E q \in Publishers : pub[q] = d
  <2>1. pub'[p] = e /\ \A q \in Publishers \ {p} : pub'[q] = pub[q]
    BY <1>1
  <2>2. NoEvent \notin Events
    BY NoEventIsNone
  <2>3. QED
    BY <1>1, <2>1, <2>2
<1>5. e \notin 1..published /\ 1..published' = 1..published \cup {e}
  BY <1>1
<1> HIDE DEF e
<1>6. [d \in Events |-> {s \in Pooled : \E q \in Publishers : pub[q] = d}]' =
        [[d \in Events |-> {s \in Pooled : \E q \in Publishers : pub[q] = d}] EXCEPT ![e] = Pooled]
  BY <1>1, <1>4
<1>7. {s \in {x \in Pooled : registered} :
         <<[x \in Pooled |-> IF fwd.pc = "subscribing" THEN "none" ELSE "topic"][s], "topic">>
             \in {<<"topic", "topic">>}} = Pooled
  BY <1>1, <1>2
<1>8. QED
  BY <1>1, <1>5, <1>6, <1>7 DEF Bus!Announce, e

\* The send to the channel offers it.
LEMMA SendIsOffer ==
    ASSUME IInv, NEW p \in Publishers, Send(p)
    PROVE  Bus!Offer(pub[p], "pool") /\ pub[p] \in Events
<1> DEFINE e == pub[p]
           Due(d) == {s \in Pooled : \E q \in Publishers : pub[q] = d}
<1>1. /\ e \in Events /\ pub' = [pub EXCEPT ![p] = NoEvent]
      /\ pub \in [Publishers -> Events \cup {NoEvent}]
      /\ ch' = IF ~chClosed /\ Len(ch) < ChanCap THEN Append(ch, e) ELSE ch
      /\ UNCHANGED <<registered, chClosed, published, fwd>>
  BY DEF IInv, TypeOK, Send
<1>2. \A q \in Publishers \ {p} : pub[q] # e
  BY <1>1 DEF IInv, Unsent
<1>3. \A d \in Events : (\E q \in Publishers : pub'[q] = d)
                         <=> d # e /\ \E q \in Publishers : pub[q] = d
  <2>1. pub'[p] = NoEvent /\ \A q \in Publishers \ {p} : pub'[q] = pub[q]
    BY <1>1
  <2>2. NoEvent \notin Events
    BY NoEventIsNone
  <2>3. QED
    BY <1>2, <2>1, <2>2
<1>4. "pool" \in Pooled /\ Pooled \ {"pool"} = {} /\ \A s \in Pooled : s = "pool"
  BY DEF Pooled
<1>5. [d \in Events |-> Due(d)][e] = Pooled
  BY <1>1
<1>6. [d \in Events |-> Due(d)]' =
        [[d \in Events |-> Due(d)] EXCEPT ![e] = [d \in Events |-> Due(d)][e] \ {"pool"}]
  <2>1. \A d \in Events : Due(d)' = IF d = e THEN {} ELSE Due(d)
    BY <1>3
  <2> HIDE DEF Due
  <2>2. [d \in Events |-> Due(d)]' = [d \in Events |-> Due(d)']
    OBVIOUS
  <2>3. QED
    BY <1>1, <1>4, <1>5, <2>1, <2>2
<1>7. Bus!Accepts("pool") <=> ~chClosed /\ Len(ch) < ChanCap
  BY <1>4 DEF Bus!Accepts
<1>8. [s \in Pooled |-> ch]' = IF Bus!Accepts("pool")
                               THEN [[s \in Pooled |-> ch] EXCEPT
                                        !["pool"] = Append([s \in Pooled |-> ch]["pool"], e)]
                               ELSE [s \in Pooled |-> ch]
  BY <1>1, <1>4, <1>7
<1> HIDE DEF e
<1>9. Bus!Offer(e, "pool")
  BY <1>1, <1>4, <1>5, <1>6, <1>8 DEF Bus!Offer
<1>10. QED
  BY <1>1, <1>9 DEF e

\* The other steps on the channel.
LEMMA ChannelSteps ==
    ASSUME IInv, Listed
    PROVE  /\ SubscribeWithPool => Bus!Join("pool", "topic")
           /\ TeardownRemove => Bus!Leave("pool")
           /\ TeardownClose => Bus!Shut("pool")
           /\ BusClose => Bus!ShutDown
           /\ Forward => Bus!Take("pool")
<1>1. "pool" \in Pooled /\ \A s \in Pooled : s = "pool"
  BY DEF Pooled
<1>2. fwd \in FwdStates
  BY DEF IInv, TypeOK
<1>3. ASSUME SubscribeWithPool PROVE Bus!Join("pool", "topic")
  BY <1>1, <1>2, <1>3 DEF SubscribeWithPool, Bus!Join, FwdStates
<1>4. ASSUME TeardownRemove PROVE Bus!Leave("pool")
  BY <1>1, <1>2, <1>4 DEF TeardownRemove, Bus!Leave, FwdStates
<1>5. ASSUME TeardownClose PROVE Bus!Shut("pool")
  BY <1>1, <1>2, <1>5 DEF TeardownClose, Bus!Shut, FwdStates, Listed
<1>6. ASSUME BusClose PROVE Bus!ShutDown
  BY <1>1, <1>6 DEF BusClose, Bus!ShutDown
<1>7. ASSUME Forward PROVE Bus!Take("pool")
  BY <1>1, <1>2, <1>7 DEF Forward, Bus!Take, FwdStates
<1>8. QED
  BY <1>3, <1>4, <1>5, <1>6, <1>7

\* Every step of the pool is one of PubSub, or none.
LEMMA BusStep ==
    ASSUME IInv, Listed, [Next]_vars
    PROVE  [Bus!Next]_Bus!vars
<1>1. ASSUME NEW p \in Publishers, Target(p) \/ Send(p)
      PROVE  Bus!Next
  BY <1>1, TargetIsAnnounce, SendIsOffer DEF Bus!Next, Pooled
<1>2. CASE SubscribeWithPool \/ TeardownRemove \/ TeardownClose \/ BusClose \/ Forward
  BY <1>2, ChannelSteps DEF Bus!Next, Pooled
<1>3. ASSUME UNCHANGED busVars, fwd'.pc = fwd.pc \/ {fwd.pc, fwd'.pc} \cap {"subscribing"} = {}
      PROVE  UNCHANGED Bus!vars
  BY <1>3 DEF busVars, Bus!vars
<1>4. CASE ConsumeQueued \/ ConsumeFailed \/ FwdExit \/ TeardownStop \/ TeardownWait
  <2>1. fwd \in FwdStates
    BY DEF IInv, TypeOK
  <2>2. QED
    BY <1>3, <1>4, <2>1 DEF FwdStates, ConsumeQueued, ConsumeFailed, FwdExit, TeardownStop,
       TeardownWait
<1>5. ASSUME NEW w \in Workers, WorkerStep(w)
      PROVE  UNCHANGED <<busVars, fwd>>
  BY <1>5 DEF WorkerStep, WorkerReceive, WorkerExit, HandlerReturns, HandlerOk, HandlerPanics,
     HandlerRejected, HandlerFails, BackoffOver, BackoffCancelled, Processed
<1>6. CASE CtxCancel \/ Unsubscribe \/ UnsubReturn \/ UNCHANGED vars
  BY <1>3, <1>6 DEF CtxCancel, Unsubscribe, UnsubReturn, vars
<1>7. QED
  BY <1>1, <1>2, <1>3, <1>4, <1>5, <1>6 DEF Next, FwdStep, Teardown

\* The pool takes part in PubSub as one subscription: the bus it is modelled with does
\* nothing the promise of the bus excludes, and its teardown closes no channel that can
\* still be dispatched to.
THEOREM PoolImplementsPubSub == SafetySpec => ImplementsPubSub
<1>1. Init => Bus!Init
  <2>1. SUFFICES ASSUME Init
                 PROVE  Bus!Init
    OBVIOUS
  <2>2. 1..published = {}
    BY <2>1 DEF Init
  <2>3. \A e \in Events : \A p \in Publishers : pub[p] # e
    BY <2>1, NoEventIsNone DEF Init
  <2>4. QED
    BY <2>1, <2>2, <2>3 DEF Init, Bus!Init
<1>2. IInv /\ Listed /\ [Next]_vars => [Bus!Next]_Bus!vars
  BY BusStep
<1>3. QED
  BY <1>1, <1>2, IInvHolds, ListedHolds, PTL DEF SafetySpec, ImplementsPubSub, Bus!Spec
=============================================================================
