--------------------------- MODULE EventBusProofs ---------------------------
(***************************************************************************)
(* The safety of the bus for every number of subscriptions, workers,       *)
(* publishers and closers: type correctness, RegistryOpen,                 *)
(* NoWorkerAfterWait, CloseReleases; from a second invariant on top of     *)
(* theirs, DeliveredAtMostOnce and ReceiptHonest; from a third one,        *)
(* ReceiptOnce; and that the bus implements PubSub.                        *)
(***************************************************************************)
EXTENDS EventBus, Integers, SequenceTheorems, TLAPS

\* What the sequence operators of the model do: Append registers a subscription,
\* RemoveFirst is removeChannel and untrackSub, Tail takes the next subscription of
\* a snapshot.

\* Contains and ToSet speak of the same elements.
LEMMA ContainsToSet ==
    ASSUME NEW S, NEW q \in Seq(S), NEW e
    PROVE  Contains(q, e) <=> e \in ToSet(q)
BY DEF Contains, ToSet

\* Appending adds one element, at the end.
LEMMA ToSetAppend ==
    ASSUME NEW S, NEW q \in Seq(S), NEW e \in S
    PROVE  /\ Append(q, e) \in Seq(S)
           /\ ToSet(Append(q, e)) = ToSet(q) \cup {e}
<1>1. Append(q, e) \in Seq(S)
  OBVIOUS
<1>2. \A i \in DOMAIN q : i \in DOMAIN Append(q, e) /\ Append(q, e)[i] = q[i]
  OBVIOUS
<1>3. \A i \in DOMAIN Append(q, e) : i \in DOMAIN q \/ i = Len(q) + 1
  OBVIOUS
<1>4. Len(q) + 1 \in DOMAIN Append(q, e) /\ Append(q, e)[Len(q) + 1] = e
  OBVIOUS
<1>5. QED
  BY <1>1, <1>2, <1>3, <1>4, Zenon DEF ToSet

\* A sequence without repetition keeps that when a new element is appended.
LEMMA InjectiveAppend ==
    ASSUME NEW S, NEW q \in Seq(S), NEW e \in S, IsInjective(q), e \notin ToSet(q)
    PROVE  IsInjective(Append(q, e))
<1>1. \A i \in 1..Len(q) : q[i] # e
  BY DEF ToSet
<1>2. QED
  BY <1>1 DEF IsInjective

\* The tail has no other elements than the sequence, and lacks at most the head.
LEMMA ToSetTail ==
    ASSUME NEW S, NEW q \in Seq(S), q # <<>>
    PROVE  /\ Tail(q) \in Seq(S)
           /\ Head(q) \in S
           /\ ToSet(q) = ToSet(Tail(q)) \cup {Head(q)}
<1>1. Tail(q) \in Seq(S) /\ Head(q) \in S
  OBVIOUS
<1>2. \A i \in DOMAIN Tail(q) : i + 1 \in DOMAIN q /\ Tail(q)[i] = q[i + 1]
  OBVIOUS
<1>3. \A i \in DOMAIN q : q[i] = Head(q) \/ (i - 1 \in DOMAIN Tail(q)
                                             /\ Tail(q)[i - 1] = q[i])
  OBVIOUS
<1>4. 1 \in DOMAIN q /\ q[1] = Head(q)
  OBVIOUS
<1>5. ToSet(q) \subseteq ToSet(Tail(q)) \cup {Head(q)}
  BY <1>3, ZenonT(60) DEF ToSet
<1>6. ToSet(Tail(q)) \cup {Head(q)} \subseteq ToSet(q)
  BY <1>2, <1>4, ZenonT(60) DEF ToSet
<1>7. QED
  BY <1>1, <1>5, <1>6, Zenon

\* The tail of a sequence without repetition has none, and not the head.
LEMMA InjectiveTail ==
    ASSUME NEW S, NEW q \in Seq(S), q # <<>>, IsInjective(q)
    PROVE  /\ IsInjective(Tail(q))
           /\ Head(q) \notin ToSet(Tail(q))
<1>1. \A i \in DOMAIN Tail(q) : i + 1 \in DOMAIN q /\ Tail(q)[i] = q[i + 1]
  OBVIOUS
<1>2. 1 \in DOMAIN q /\ q[1] = Head(q)
  OBVIOUS
<1>3. \A i, j \in DOMAIN q : q[i] = q[j] => i = j
  BY DEF IsInjective
<1>4. DOMAIN Tail(q) \subseteq Nat \ {0}
  OBVIOUS
<1>5. IsInjective(Tail(q))
  BY <1>1, <1>3, <1>4 DEF IsInjective
<1>6. \A i \in DOMAIN Tail(q) : Tail(q)[i] # Head(q)
  BY <1>1, <1>2, <1>3, <1>4
<1>7. QED
  BY <1>5, <1>6 DEF ToSet

\* Where RemoveFirst cuts a sequence without repetition.
LEMMA RemoveFirstShape ==
    ASSUME NEW S, NEW q \in Seq(S), NEW e, IsInjective(q)
    PROVE  \/ e \notin ToSet(q) /\ RemoveFirst(q, e) = q
           \/ \E k \in 1..Len(q) : q[k] = e /\ RemoveFirst(q, e) = RemoveAt(q, k)
<1>1. CASE e \notin ToSet(q)
  <2>1. ~ \E i \in 1..Len(q) : q[i] = e
    BY <1>1 DEF ToSet
  <2>2. RemoveFirst(q, e) = q
    BY <2>1, Zenon DEF RemoveFirst
  <2>3. QED
    BY <1>1, <2>2
<1>2. CASE e \in ToSet(q)
  <2> DEFINE I == {i \in 1..Len(q) : q[i] = e}
  <2>1. PICK k \in 1..Len(q) : q[k] = e
    BY <1>2 DEF ToSet
  <2>2. I = {k}
    BY <2>1 DEF IsInjective
  <2>3. Min(I) = k
    BY <2>2 DEF Min
  <2>4. RemoveFirst(q, e) = RemoveAt(q, Min(I))
    BY <2>1, <2>2 DEF RemoveFirst, SelectInSeq
  <2>5. QED
    BY <2>1, <2>3, <2>4
<1>3. QED
  BY <1>1, <1>2

\* RemoveFirst takes e, and nothing else, out of a sequence without repetition,
\* which stays one.
LEMMA RemoveFirstRemoves ==
    ASSUME NEW S, NEW q \in Seq(S), NEW e, IsInjective(q)
    PROVE  /\ RemoveFirst(q, e) \in Seq(S)
           /\ IsInjective(RemoveFirst(q, e))
           /\ ToSet(RemoveFirst(q, e)) = ToSet(q) \ {e}
<1>1. CASE e \notin ToSet(q) /\ RemoveFirst(q, e) = q
  BY <1>1
<1>2. CASE \E k \in 1..Len(q) : q[k] = e /\ RemoveFirst(q, e) = RemoveAt(q, k)
  <2>1. PICK k \in 1..Len(q) : q[k] = e /\ RemoveFirst(q, e) = RemoveAt(q, k)
    BY <1>2
  <2> DEFINE r == RemoveAt(q, k)
  <2>2. /\ r \in Seq(S)
        /\ Len(r) = Len(q) - 1
        /\ \A i \in 1..Len(r) : r[i] = IF i < k THEN q[i] ELSE q[i + 1]
    <3> DEFINE a == SubSeq(q, 1, k - 1)
               b == SubSeq(q, k + 1, Len(q))
    <3>1. a \in Seq(S) /\ Len(a) = k - 1 /\ \A i \in 1..(k - 1) : a[i] = q[i]
      BY SubSeqProperties
    <3>2. /\ b \in Seq(S)
          /\ Len(b) = Len(q) - k
          /\ \A i \in 1..(Len(q) - k) : b[i] = q[k + i]
      <4>1. \A i \in (k + 1)..Len(q) : q[i] \in S
        OBVIOUS
      <4>2. QED
        BY <4>1, SubSeqProperties
    <3> HIDE DEF a, b
    <3>3. a \o b \in Seq(S) /\ Len(a \o b) = Len(q) - 1
      <4>1. a \o b \in Seq(S) /\ Len(a \o b) = Len(a) + Len(b)
        BY <3>1, <3>2, ConcatProperties, Zenon
      <4>2. QED
        BY <3>1, <3>2, <4>1
    <3>4. \A i \in 1..(Len(q) - 1) : (a \o b)[i] = IF i < k THEN q[i] ELSE q[i + 1]
      <4>1. TAKE i \in 1..(Len(q) - 1)
      <4>2. CASE i < k
        <5>1. i \in 1..Len(a) /\ a[i] = q[i]
          BY <3>1, <4>2
        <5>2. (a \o b)[i] = a[i]
          BY <3>1, <3>2, <5>1, ConcatProperties
        <5>3. QED
          BY <4>2, <5>1, <5>2, Zenon
      <4>3. CASE ~(i < k)
        <5>1. /\ i - (k - 1) \in 1..(Len(q) - k)
              /\ k + (i - (k - 1)) = i + 1
              /\ i \in (Len(a) + 1)..(Len(a) + Len(b))
          BY <3>1, <3>2, <4>3
        <5>2. (a \o b)[i] = b[i - Len(a)]
          BY <3>1, <3>2, <5>1, ConcatProperties
        <5>3. b[i - Len(a)] = q[i + 1]
          BY <3>1, <3>2, <5>1
        <5>4. QED
          BY <4>3, <5>2, <5>3, Zenon
      <4>4. QED
        BY <4>2, <4>3, Zenon
    <3>5. QED
      BY <3>3, <3>4 DEF RemoveAt, a, b
  <2>3. IsInjective(r)
    <3>1. \A i, j \in 1..Len(q) : q[i] = q[j] => i = j
      BY DEF IsInjective
    <3>2. \A i, j \in 1..Len(r) : r[i] = r[j] => i = j
      BY <2>2, <3>1
    <3>3. DOMAIN r = 1..Len(r)
      BY <2>2
    <3>4. QED
      BY <3>2, <3>3, Zenon DEF IsInjective
  <2> HIDE DEF r
  <2>4. \A i \in 1..Len(r) : r[i] \in ToSet(q) \ {e}
    <3>1. \A j \in 1..Len(q) : j # k => q[j] # e
      BY <2>1 DEF IsInjective
    <3>2. \A j \in 1..Len(q) : q[j] \in ToSet(q)
      BY DEF ToSet
    <3>3. TAKE i \in 1..Len(r)
    <3>4. \E j \in 1..Len(q) : j # k /\ r[i] = q[j]
      <4>1. CASE i < k
        <5>1. i \in 1..Len(q) /\ i # k /\ r[i] = q[i]
          BY <2>2, <4>1
        <5>2. QED
          BY <5>1, Zenon
      <4>2. CASE ~(i < k)
        <5>1. i + 1 \in 1..Len(q) /\ i + 1 # k /\ r[i] = q[i + 1]
          BY <2>2, <4>2
        <5>2. QED
          BY <5>1, Zenon
      <4>3. QED
        BY <4>1, <4>2, Zenon
    <3>5. QED
      BY <3>1, <3>2, <3>4, Zenon
  <2>5. \A j \in 1..Len(q) : q[j] # e => \E i \in 1..Len(r) : r[i] = q[j]
    <3>1. TAKE j \in 1..Len(q)
    <3>2. HAVE q[j] # e
    <3>3. CASE j < k
      <4>1. j \in 1..Len(r) /\ r[j] = q[j]
        BY <2>2, <3>3
      <4>2. QED
        BY <4>1
    <3>4. CASE k < j
      <4>1. j - 1 \in 1..Len(r) /\ r[j - 1] = q[j]
        BY <2>2, <3>4
      <4>2. QED
        BY <4>1
    <3>5. QED
      BY <2>1, <3>2, <3>3, <3>4
  <2>6. ToSet(r) = ToSet(q) \ {e}
    <3>1. DOMAIN r = 1..Len(r) /\ DOMAIN q = 1..Len(q)
      BY <2>2
    <3>2. ToSet(r) \subseteq ToSet(q) \ {e}
      BY <2>4, <3>1, Zenon DEF ToSet
    <3>3. ToSet(q) \ {e} \subseteq ToSet(r)
      BY <2>5, <3>1, Zenon DEF ToSet
    <3>4. QED
      BY <3>2, <3>3, Zenon
  <2>7. QED
    BY <2>1, <2>2, <2>3, <2>6, Zenon DEF r
<1>3. QED
  BY <1>1, <1>2, RemoveFirstShape
-----------------------------------------------------------------------------
\* The tables hold each subscription once, under the topic it was made with.
Tables ==
    /\ IsInjective(wildcardOrder)
    /\ \A t \in Topics :
        /\ IsInjective(registry[t])
        /\ \A s \in ToSet(registry[t]) : subTopic[s] = t /\ stage[s] # "free"

\* What the progress of the subscribe call allows the rest to be.
Stages ==
    \A s \in Subs :
        /\ stage[s] = "free" => ~closed[s] /\ subTopic[s] = NoTopic
        /\ stage[s] # "free" => subTopic[s] \in Topics
        /\ watch[s] # "none" \/ unsub[s] # "idle" => stage[s] \in {"started", "returned"}

\* What the body of Unsubscribe has achieved so far.
Progress ==
    \A s \in Subs :
        /\ unsub[s] \in {"closing", "untracking", "done"} => s \notin Registered
        /\ unsub[s] \in {"untracking", "done"} => closed[s]

\* Every subscription returned to its caller is tracked, finished, or about to
\* be unsubscribed by a Close that took it out of activeSubs.
Tracked ==
    /\ IsInjective(activeSubs)
    /\ \A s \in ToSet(activeSubs) : stage[s] = "returned"
    /\ \A c \in Closers : \A s \in ToSet(closer[c].subs) : stage[s] = "returned"
    /\ \A s \in Subs : stage[s] = "returned" =>
        \/ s \in ToSet(activeSubs)
        \/ unsub[s] = "done"
        \/ \E c \in Closers : closer[c].pc = "unsubscribing" /\ s \in ToSet(closer[c].subs)

\* What a Close began with stays out of activeSubs.
OwedOut ==
    \A c \in Closers : \A s \in owed[c] : stage[s] = "returned" /\ s \notin ToSet(activeSubs)

\* A delivering publisher carries an event.
Carries == \A p \in Publishers : pub[p].pc = "delivering" => pub[p].event \in Events

\* The inductive invariant.
IInv ==
    /\ TypeOK
    /\ Carries
    /\ Tables
    /\ Stages
    /\ RegistryOpen
    /\ NoWorkerAfterWait
    /\ Progress
    /\ Tracked
    /\ OwedOut
-----------------------------------------------------------------------------
\* The types of what the operators of the model return.

\* The snapshot dispatch takes is a sequence of batches of subscriptions.
LEMMA TargetsType ==
    ASSUME TypeOK, NEW t \in ExactTopics
    PROVE  Targets(t) \in Seq(Seq(Subs))
<1>1. registry[t] \in Seq(Subs)
  BY DEF TypeOK, Topics
<1>2. \A i \in DOMAIN wildcardOrder : registry[wildcardOrder[i]] \in Seq(Subs)
  BY DEF TypeOK, Topics
<1> DEFINE exact == <<registry[t]>>
           wild == [i \in DOMAIN wildcardOrder |->
                      IF <<wildcardOrder[i], t>> \in Matches
                      THEN registry[wildcardOrder[i]] ELSE <<>>]
<1>3. exact \in Seq(Seq(Subs))
  BY <1>1
<1>4. wild \in Seq(Seq(Subs))
  <2>1. DOMAIN wildcardOrder = 1..Len(wildcardOrder) /\ Len(wildcardOrder) \in Nat
    BY DEF TypeOK
  <2>2. \A i \in DOMAIN wildcardOrder : wild[i] \in Seq(Subs)
    BY <1>2
  <2> HIDE DEF wild
  <2>3. wild = [i \in 1..Len(wildcardOrder) |-> wild[i]]
    BY <2>1, Zenon DEF wild
  <2>4. QED
    BY <2>1, <2>2, <2>3
<1>5. exact \o wild \in Seq(Seq(Subs))
  BY <1>3, <1>4, ConcatProperties, Zenon
<1>6. QED
  BY <1>5 DEF Targets

\* addChannel keeps the type of the tables.
LEMMA AddChannelType ==
    ASSUME TypeOK, NEW t \in Topics, NEW s \in Subs, AddChannel(t, s)
    PROVE  registry' \in [Topics -> Seq(Subs)] /\ wildcardOrder' \in Seq(WildcardPatterns)
BY DEF TypeOK, AddChannel

\* removeChannel keeps the type of the tables.
LEMMA DropChannelType ==
    ASSUME TypeOK, Tables, NEW t \in Topics, NEW s \in Subs, DropChannel(t, s)
    PROVE  registry' \in [Topics -> Seq(Subs)] /\ wildcardOrder' \in Seq(WildcardPatterns)
<1>1. RemoveFirst(registry[t], s) \in Seq(Subs)
  BY RemoveFirstRemoves DEF TypeOK, Tables
<1>2. RemoveFirst(wildcardOrder, t) \in Seq(WildcardPatterns)
  BY RemoveFirstRemoves DEF TypeOK, Tables
<1>3. QED
  BY <1>1, <1>2 DEF TypeOK, DropChannel

-----------------------------------------------------------------------------
\* Every step preserves the types.

\* A publisher outside Publish has a well-typed call.
LEMMA NoCallType == NoCall \in PublishCalls
BY DEF NoCall, PublishCalls

\* The bus New returns is well typed.
LEMMA TypeInit == Init => TypeOK
BY ConstantsOK, NoCallType DEF Init, TypeOK, CloseCalls

\* Every step of every goroutine keeps the types.
LEMMA TypeStep ==
    ASSUME TypeOK, Carries, Tables, Stages, Tracked, [Next]_vars
    PROVE  TypeOK'
<1> USE DEF TypeOK, busVars, chanVars, callVars, asyncVars, pubVars, closeVars
<1>1. ASSUME NEW s \in Subs, NEW t \in Topics, NEW next \in {"raw", "registered"},
             Register(s, t, next)
      PROVE  TypeOK'
  BY <1>1, AddChannelType DEF Register
<1>2. ASSUME NEW s \in Subs, StartGoroutines(s) PROVE TypeOK'
  BY <1>2 DEF StartGoroutines
<1>3. ASSUME NEW s \in Subs, TrackSub(s) PROVE TypeOK'
  BY <1>3 DEF TrackSub
<1>4. ASSUME NEW s \in Subs, RemoveChannel(s) PROVE TypeOK'
  <2>1. subTopic[s] \in Topics
    BY <1>4 DEF RemoveChannel, Stages
  <2>2. QED
    BY <1>4, <2>1, DropChannelType DEF RemoveChannel
<1>5. ASSUME NEW s \in Subs, RawReceive(s) PROVE TypeOK'
  BY <1>5 DEF RawReceive
<1>6. ASSUME NEW s \in Subs, CtxCancel(s) PROVE TypeOK'
  BY <1>6 DEF CtxCancel
<1>7. ASSUME NEW s \in Subs, WatchSelect(s) PROVE TypeOK'
  <2>1. PICK x \in {"ctxFired", "exited", "parked"} : watch' = [watch EXCEPT ![s] = x]
    BY <1>7 DEF WatchSelect
  <2>2. QED
    BY <1>7, <2>1 DEF WatchSelect
<1>8. ASSUME NEW s \in Subs, WatchReturn(s) PROVE TypeOK'
  BY <1>8 DEF WatchReturn
<1>9. ASSUME NEW s \in Subs, Unsubscribe(s) PROVE TypeOK'
  BY <1>9 DEF Unsubscribe, BeginUnsubscribe
<1>10. ASSUME NEW s \in Subs, WatchUnsubscribe(s) PROVE TypeOK'
  BY <1>10 DEF WatchUnsubscribe, BeginUnsubscribe
<1>11. ASSUME NEW s \in Subs, UnsubWait(s) PROVE TypeOK'
  BY <1>11 DEF UnsubWait
<1>12. ASSUME NEW s \in Subs, UnsubRemove(s) PROVE TypeOK'
  <2>1. subTopic[s] \in Topics
    BY <1>12 DEF UnsubRemove, Stages
  <2>2. QED
    BY <1>12, <2>1, DropChannelType DEF UnsubRemove
<1>13. ASSUME NEW s \in Subs, UnsubClose(s) PROVE TypeOK'
  BY <1>13 DEF UnsubClose
<1>14. ASSUME NEW s \in Subs, UnsubUntrack(s) PROVE TypeOK'
  <2>1. RemoveFirst(activeSubs, s) \in Seq(Subs)
    BY <1>14, RemoveFirstRemoves DEF Tracked
  <2>2. QED
    BY <1>14, <2>1 DEF UnsubUntrack
<1>15. ASSUME NEW s \in Subs, NEW w \in Workers, WorkerReceive(s, w) PROVE TypeOK'
  BY <1>15 DEF WorkerReceive
<1>16. ASSUME NEW s \in Subs, NEW w \in Workers, WorkerExit(s, w) PROVE TypeOK'
  BY <1>16 DEF WorkerExit
<1>17. ASSUME NEW s \in Subs, NEW w \in Workers, HandlerReturn(s, w) PROVE TypeOK'
  BY <1>17 DEF HandlerReturn
<1>18. ASSUME NEW s \in Subs, NEW w \in Workers, HandlerUnsubscribe(s, w) PROVE TypeOK'
  BY <1>18 DEF HandlerUnsubscribe, BeginUnsubscribe
<1>19. ASSUME NEW p \in Publishers, NEW t \in ExactTopics, NEW report \in BOOLEAN,
              Publish(p, t, report)
       PROVE  TypeOK'
  <2>1. Targets(t) \in Seq(Seq(Subs)) /\ MatchedSubs(t) \subseteq Subs
    BY TargetsType DEF MatchedSubs, Registered, ToSet
  <2>2. published' \in 0..MaxEvents
    BY <1>19, ConstantsOK DEF Publish
  <2>3. pub' \in [Publishers -> PublishCalls]
    <3>1. published + 1 \in Nat
      BY ConstantsOK
    <3>2. [pc |-> "delivering", event |-> published + 1, report |-> report,
           batches |-> Targets(t), receipts |-> <<>>, matched |-> MatchedSubs(t)]
              \in PublishCalls
      BY <2>1, <3>1 DEF PublishCalls
    <3>3. QED
      BY <1>19, <3>2 DEF Publish
  <2>4. QED
    BY <1>19, <2>2, <2>3 DEF Publish
<1>20. ASSUME NEW p \in Publishers, Deliver(p) PROVE TypeOK'
  <2>1. PICK i \in DOMAIN pub[p].batches :
            LET s == Head(pub[p].batches[i]) IN
            /\ IsNextBatch(pub[p].batches, i)
            /\ chan' = IF CanSend(s) THEN [chan EXCEPT ![s] = Append(@, pub[p].event)]
                                     ELSE chan
            /\ pub' = [pub EXCEPT ![p] =
                         [pub[p] EXCEPT !.batches = [pub[p].batches EXCEPT ![i] = Tail(@)],
                                        !.receipts = IF pub[p].report
                                                     THEN Append(pub[p].receipts, Receipt(s))
                                                     ELSE pub[p].receipts]]
    BY <1>20 DEF Deliver
  <2> DEFINE s == Head(pub[p].batches[i])
  <2>2. pub[p] \in PublishCalls /\ pub[p].event \in Events
    BY <1>20 DEF Deliver, Carries
  <2>3. pub[p].batches[i] \in Seq(Subs) /\ pub[p].batches[i] # <<>>
    BY <2>1, <2>2 DEF IsNextBatch, PublishCalls
  <2>4. s \in Subs
    BY <2>3
  <2>5. chan' \in [Subs -> Seq(Events)]
    <3>1. Append(chan[s], pub[p].event) \in Seq(Events)
      BY <2>2, <2>4
    <3> QED
      BY <2>1, <2>4, <3>1
  <2>6. pub' \in [Publishers -> PublishCalls]
    <3>1. [pub[p].batches EXCEPT ![i] = Tail(@)] \in Seq(Seq(Subs))
      BY <2>2, <2>3 DEF PublishCalls
    <3>2. Receipt(s) \in [sub : Subs, status : {"queued", "dropped"}]
      BY <2>4 DEF Receipt
    <3>3. pub[p].receipts \in Seq([sub : Subs, status : {"queued", "dropped"}])
      BY <2>2 DEF PublishCalls
    <3>4. Append(pub[p].receipts, Receipt(s))
              \in Seq([sub : Subs, status : {"queued", "dropped"}])
      BY <3>2, <3>3
    <3> DEFINE newBatches == [pub[p].batches EXCEPT ![i] = Tail(@)]
               newReceipts == IF pub[p].report THEN Append(pub[p].receipts, Receipt(s))
                                               ELSE pub[p].receipts
    <3>5. newReceipts \in Seq([sub : Subs, status : {"queued", "dropped"}])
      BY <3>3, <3>4
    <3>6. pub' = [pub EXCEPT ![p] = [pub[p] EXCEPT !.batches = newBatches,
                                                   !.receipts = newReceipts]]
      BY <2>1, Zenon
    <3> HIDE DEF newBatches, newReceipts
    <3>7. [pub[p] EXCEPT !.batches = newBatches, !.receipts = newReceipts] \in PublishCalls
      BY <2>2, <3>1, <3>5 DEF PublishCalls, newBatches
    <3>8. QED
      BY <3>6, <3>7
  <2>7. QED
    BY <1>20, <2>5, <2>6 DEF Deliver
<1>21. ASSUME NEW p \in Publishers, PublishReturn(p) PROVE TypeOK'
  BY <1>21, NoCallType DEF PublishReturn
<1>22. ASSUME NEW c \in Closers, CloseBegin(c) PROVE TypeOK'
  BY <1>22 DEF CloseBegin, CloseCalls
<1>23. ASSUME NEW c \in Closers, CloseUnsubscribe(c) PROVE TypeOK'
  BY <1>23 DEF CloseUnsubscribe, BeginUnsubscribe
<1>24. ASSUME NEW c \in Closers, CloseNext(c) PROVE TypeOK'
  <2>1. [closer[c] EXCEPT !.subs = Tail(@)] \in CloseCalls
    <3> DEFINE call == closer[c]
    <3>1. call \in CloseCalls
      OBVIOUS
    <3>2. call.subs \in Seq(Subs) /\ call.subs # <<>>
      BY <1>24, <3>1 DEF CloseNext, CloseCalls
    <3>3. Tail(call.subs) \in Seq(Subs)
      BY <3>2
    <3> HIDE DEF call
    <3>4. [call EXCEPT !.subs = Tail(@)] \in CloseCalls
      BY <3>1, <3>3 DEF CloseCalls
    <3>5. QED
      BY <3>4 DEF call
  <2>2. QED
    BY <1>24, <2>1 DEF CloseNext
<1>25. ASSUME NEW c \in Closers, CloseChannels(c) PROVE TypeOK'
  <2>1. closed' \in [Subs -> BOOLEAN]
    BY <1>25, Zenon DEF CloseChannels
  <2>2. [closer[c] EXCEPT !.pc = "returned"] \in CloseCalls
    <3> DEFINE call == closer[c]
    <3>1. call \in CloseCalls
      OBVIOUS
    <3> HIDE DEF call
    <3>2. [call EXCEPT !.pc = "returned"] \in CloseCalls
      BY <3>1 DEF CloseCalls
    <3>3. QED
      BY <3>2 DEF call
  <2>3. registry' \in [Topics -> Seq(Subs)] /\ wildcardOrder' \in Seq(WildcardPatterns)
    BY <1>25 DEF CloseChannels
  <2>4. QED
    BY <1>25, <2>1, <2>2, <2>3 DEF CloseChannels
<1>26. CASE UNCHANGED vars
  BY <1>26 DEF vars
<1>27. QED
  BY <1>1, <1>2, <1>3, <1>4, <1>5, <1>6, <1>7, <1>8, <1>9, <1>10, <1>11, <1>12,
     <1>13, <1>14, <1>15, <1>16, <1>17, <1>18, <1>19, <1>20, <1>21, <1>22, <1>23,
     <1>24, <1>25, <1>26, Zenon
     DEF Next, Subscribe, SubscribeAsync, SubscribeStep, WatchStep, UnsubStep,
         WorkerStep, PublishStep, CloseStep, Subs
-----------------------------------------------------------------------------
\* What registering and removing a channel do to the tables.

\* What the tables hold are subscriptions.
LEMMA RegisteredType == TypeOK => Registered \subseteq Subs
BY DEF TypeOK, Registered, ToSet

\* addChannel adds one subscription to one table entry.
LEMMA AddChannelTables ==
    ASSUME TypeOK, Tables, NEW t \in Topics, NEW s \in Subs, stage[s] = "free",
           AddChannel(t, s)
    PROVE  /\ IsInjective(wildcardOrder')
           /\ \A u \in Topics : IsInjective(registry'[u])
           /\ \A u \in Topics : ToSet(registry'[u]) =
                 IF u = t THEN ToSet(registry[u]) \cup {s} ELSE ToSet(registry[u])
           /\ Registered' = Registered \cup {s}
<1>1. \A u \in Topics : registry[u] \in Seq(Subs) /\ IsInjective(registry[u])
  BY DEF TypeOK, Tables
<1>2. \A u \in Topics :
        registry'[u] = IF u = t THEN Append(registry[u], s) ELSE registry[u]
  BY DEF TypeOK, AddChannel
<1>3. s \notin ToSet(registry[t])
  BY DEF Tables
<1>4. IsInjective(wildcardOrder')
  <2>1. CASE t \in WildcardPatterns /\ ~Contains(wildcardOrder, t)
    <3>1. wildcardOrder \in Seq(WildcardPatterns) /\ IsInjective(wildcardOrder)
      BY DEF TypeOK, Tables
    <3>2. t \notin ToSet(wildcardOrder)
      BY <2>1, <3>1, ContainsToSet
    <3>3. IsInjective(Append(wildcardOrder, t))
      BY <2>1, <3>1, <3>2, InjectiveAppend
    <3>4. QED
      BY <2>1, <3>3 DEF AddChannel
  <2>2. CASE ~(t \in WildcardPatterns /\ ~Contains(wildcardOrder, t))
    BY <2>2 DEF AddChannel, Tables
  <2>3. QED
    BY <2>1, <2>2
<1>5. \A u \in Topics : IsInjective(registry'[u])
  BY <1>1, <1>2, <1>3, InjectiveAppend
<1>6. \A u \in Topics : ToSet(registry'[u]) =
         IF u = t THEN ToSet(registry[u]) \cup {s} ELSE ToSet(registry[u])
  <2>1. TAKE u \in Topics
  <2>2. ToSet(Append(registry[u], s)) = ToSet(registry[u]) \cup {s}
    BY <1>1, ToSetAppend
  <2>3. QED
    BY <1>2, <2>2
<1>7. Registered' = Registered \cup {s}
  <2>1. s \in ToSet(registry'[t])
    BY <1>6
  <2>2. \A u \in Topics : /\ ToSet(registry[u]) \subseteq ToSet(registry'[u])
                          /\ ToSet(registry'[u]) \subseteq ToSet(registry[u]) \cup {s}
    BY <1>6
  <2>3. Registered \cup {s} \subseteq Registered'
    BY <2>1, <2>2 DEF Registered
  <2>4. Registered' \subseteq Registered \cup {s}
    BY <2>2 DEF Registered
  <2>5. QED
    BY <2>3, <2>4
<1>8. QED
  BY <1>4, <1>5, <1>6, <1>7

\* removeChannel takes one subscription out of the entry of its topic, and so
\* out of the tables.
LEMMA DropChannelTables ==
    ASSUME TypeOK, Tables, NEW s \in Subs, subTopic[s] \in Topics,
           DropChannel(subTopic[s], s)
    PROVE  /\ IsInjective(wildcardOrder')
           /\ \A u \in Topics : IsInjective(registry'[u])
           /\ \A u \in Topics : ToSet(registry'[u]) = ToSet(registry[u]) \ {s}
           /\ Registered' = Registered \ {s}
<1> DEFINE t == subTopic[s]
<1>1. \A u \in Topics : registry[u] \in Seq(Subs) /\ IsInjective(registry[u])
  BY DEF TypeOK, Tables
<1>2. \A u \in Topics :
        registry'[u] = IF u = t THEN RemoveFirst(registry[u], s) ELSE registry[u]
  BY DEF TypeOK, DropChannel
<1>3. \A u \in Topics : u # t => s \notin ToSet(registry[u])
  BY DEF Tables
<1>4. IsInjective(wildcardOrder')
  BY RemoveFirstRemoves DEF TypeOK, Tables, DropChannel
<1>5. \A u \in Topics : IsInjective(registry'[u])
  BY <1>1, <1>2, RemoveFirstRemoves
<1>6. \A u \in Topics : ToSet(registry'[u]) = ToSet(registry[u]) \ {s}
  BY <1>1, <1>2, <1>3, RemoveFirstRemoves
<1>7. Registered' = Registered \ {s}
  BY <1>6 DEF Registered
<1>8. QED
  BY <1>4, <1>5, <1>6, <1>7

-----------------------------------------------------------------------------
\* The other parts of the invariant, one lemma each: the actions that can
\* disturb the part, then the ones that leave its variables alone.

\* A publisher inside dispatch carries the event it was called with.
LEMMA CarriesStep ==
    ASSUME TypeOK, Carries, [Next]_vars
    PROVE  Carries'
<1>1. ASSUME NEW p \in Publishers, NEW t \in ExactTopics, NEW report \in BOOLEAN,
             Publish(p, t, report)
      PROVE  Carries'
  <2>1. published + 1 \in Events
    BY <1>1, ConstantsOK DEF Publish, TypeOK, Events
  <2>2. QED
    BY <1>1, <2>1 DEF Publish, Carries, TypeOK
<1>2. ASSUME NEW p \in Publishers, Deliver(p) PROVE Carries'
  <2>1. pub[p] \in PublishCalls
    BY DEF TypeOK
  <2>2. pub'[p].event = pub[p].event /\ \A q \in Publishers : q # p => pub'[q] = pub[q]
    BY <1>2, <2>1 DEF Deliver, PublishCalls, TypeOK
  <2>3. pub[p].event \in Events
    BY <1>2 DEF Deliver, Carries
  <2>4. QED
    BY <2>2, <2>3 DEF Carries
<1>3. ASSUME NEW p \in Publishers, PublishReturn(p) PROVE Carries'
  BY <1>3 DEF PublishReturn, Carries, NoCall, TypeOK
<1>4. CASE UNCHANGED pub
  BY <1>4 DEF Carries
<1>5. QED
  BY <1>1, <1>2, <1>3, <1>4, Zenon DEF Next, vars, Register, Subscribe, SubscribeAsync,
     SubscribeStep, StartGoroutines, TrackSub, RemoveChannel, RawReceive, CtxCancel,
     WatchStep, WatchSelect, WatchReturn, WatchUnsubscribe, Unsubscribe, UnsubStep,
     UnsubWait, UnsubRemove, UnsubClose, UnsubUntrack, WorkerStep, WorkerReceive,
     WorkerExit, HandlerReturn, HandlerUnsubscribe, PublishStep, CloseStep, CloseBegin,
     CloseUnsubscribe, CloseNext, CloseChannels, pubVars

\* Each subscription stays in the tables at most once, under its own topic:
\* addChannel files it there and nothing moves it.
LEMMA TablesStep ==
    ASSUME TypeOK, Tables, Stages, [Next]_vars
    PROVE  Tables'
<1>1. ASSUME NEW s \in Subs, NEW t \in Topics, NEW next \in {"raw", "registered"},
             Register(s, t, next)
      PROVE  Tables'
  <2>1. /\ IsInjective(wildcardOrder')
        /\ \A u \in Topics : IsInjective(registry'[u])
        /\ \A u \in Topics : ToSet(registry'[u]) =
              IF u = t THEN ToSet(registry[u]) \cup {s} ELSE ToSet(registry[u])
    BY <1>1, AddChannelTables DEF Register
  <2>2. /\ subTopic' = [subTopic EXCEPT ![s] = t]
        /\ stage' = [stage EXCEPT ![s] = next]
        /\ stage[s] = "free"
    BY <1>1 DEF Register
  <2>3. \A u \in Topics : \A r \in ToSet(registry[u]) :
            r # s /\ r \in Subs /\ subTopic[r] = u /\ stage[r] # "free"
    BY <2>2 DEF Tables, TypeOK, ToSet
  <2>4. \A u \in Topics : \A r \in ToSet(registry'[u]) :
            subTopic'[r] = u /\ stage'[r] # "free"
    <3>1. TAKE u \in Topics
    <3>2. TAKE r \in ToSet(registry'[u])
    <3>3. r \in ToSet(registry[u]) \/ (r = s /\ u = t)
      BY <2>1
    <3>4. CASE r \in ToSet(registry[u])
      BY <2>2, <2>3, <3>4 DEF TypeOK
    <3>5. CASE r = s /\ u = t
      BY <2>2, <3>5 DEF TypeOK
    <3>6. QED
      BY <3>3, <3>4, <3>5
  <2>5. QED
    BY <2>1, <2>4 DEF Tables
<1>2. ASSUME NEW s \in Subs, subTopic[s] \in Topics, DropChannel(subTopic[s], s),
             subTopic' = subTopic, \A r \in Subs : stage[r] # "free" => stage'[r] # "free"
      PROVE  Tables'
  <2>1. /\ IsInjective(wildcardOrder')
        /\ \A u \in Topics : IsInjective(registry'[u])
        /\ \A u \in Topics : ToSet(registry'[u]) \subseteq ToSet(registry[u])
    BY <1>2, DropChannelTables
  <2>2. \A u \in Topics : ToSet(registry[u]) \subseteq Subs
    BY DEF TypeOK, ToSet
  <2>3. QED
    BY <1>2, <2>1, <2>2 DEF Tables
<1>3. ASSUME NEW s \in Subs, RemoveChannel(s) PROVE Tables'
  BY <1>2, <1>3 DEF RemoveChannel, Stages, TypeOK, chanVars, callVars
<1>4. ASSUME NEW s \in Subs, UnsubRemove(s) PROVE Tables'
  BY <1>2, <1>4 DEF UnsubRemove, Stages, callVars
<1>5. ASSUME NEW s \in Subs, StartGoroutines(s) \/ TrackSub(s) PROVE Tables'
  <2>1. /\ registry' = registry /\ wildcardOrder' = wildcardOrder /\ subTopic' = subTopic
        /\ \A r \in Subs : stage[r] # "free" => stage'[r] # "free"
    BY <1>5 DEF StartGoroutines, TrackSub, TypeOK, busVars
  <2>2. \A u \in Topics : ToSet(registry[u]) \subseteq Subs
    BY DEF TypeOK, ToSet
  <2>3. QED
    BY <2>1, <2>2 DEF Tables
<1>6. ASSUME NEW c \in Closers, CloseChannels(c) PROVE Tables'
  BY <1>6 DEF CloseChannels, Tables, IsInjective, ToSet
<1>7. CASE UNCHANGED <<registry, wildcardOrder, subTopic, stage>>
  BY <1>7 DEF Tables
<1>8. QED
  BY <1>1, <1>3, <1>4, <1>5, <1>6, <1>7, ZenonT(120)
  DEF Next, vars, Subs, Register, Subscribe, SubscribeAsync, SubscribeStep,
      StartGoroutines, TrackSub, RemoveChannel, RawReceive, CtxCancel, WatchStep,
      WatchSelect, WatchReturn, WatchUnsubscribe, Unsubscribe, UnsubStep, UnsubWait,
      UnsubRemove, UnsubClose, UnsubUntrack, WorkerStep, WorkerReceive, WorkerExit,
      HandlerReturn, HandlerUnsubscribe, Publish, PublishStep, Deliver, PublishReturn,
      CloseBegin, CloseStep, CloseUnsubscribe, CloseNext, CloseChannels,
      busVars, callVars

\* What a SubscribeAsync has started agrees with how far the call has got.
LEMMA StagesStep ==
    ASSUME TypeOK, Tables, Stages, Tracked, [Next]_vars
    PROVE  Stages'
<1> USE DEF TypeOK, Stages, busVars, chanVars, callVars, asyncVars, pubVars, closeVars
<1>1. ASSUME NEW s \in Subs, NEW t \in Topics, NEW next \in {"raw", "registered"},
             Register(s, t, next)
      PROVE  Stages'
  BY <1>1 DEF Register
<1>2. ASSUME NEW s \in Subs, StartGoroutines(s) PROVE Stages'
  BY <1>2 DEF StartGoroutines
<1>3. ASSUME NEW s \in Subs, TrackSub(s) PROVE Stages'
  BY <1>3 DEF TrackSub
<1>4. ASSUME NEW s \in Subs, RemoveChannel(s) PROVE Stages'
  BY <1>4 DEF RemoveChannel
<1>5. ASSUME NEW s \in Subs, CtxCancel(s) PROVE Stages'
  BY <1>5 DEF CtxCancel
<1>6. ASSUME NEW s \in Subs, WatchSelect(s) \/ WatchReturn(s) PROVE Stages'
  BY <1>6 DEF WatchSelect, WatchReturn
<1>7. ASSUME NEW s \in Subs, stage[s] \in {"started", "returned"}, BeginUnsubscribe(s),
             UNCHANGED <<chanVars, callVars>>
      PROVE  Stages'
  BY <1>7 DEF BeginUnsubscribe
<1>8. ASSUME NEW s \in Subs, Unsubscribe(s) \/ WatchUnsubscribe(s) PROVE Stages'
  BY <1>7, <1>8 DEF Unsubscribe, WatchUnsubscribe
<1>9. ASSUME NEW s \in Subs, NEW w \in Workers, HandlerUnsubscribe(s, w) PROVE Stages'
  BY <1>7, <1>9 DEF HandlerUnsubscribe
<1>10. ASSUME NEW c \in Closers, CloseUnsubscribe(c) PROVE Stages'
  <2> DEFINE s == Head(closer[c].subs)
  <2>1. closer[c].subs \in Seq(Subs) /\ closer[c].subs # <<>>
    BY <1>10 DEF CloseUnsubscribe, CloseCalls
  <2>2. s \in Subs /\ s \in ToSet(closer[c].subs)
    BY <2>1, ToSetTail
  <2>3. stage[s] = "returned"
    BY <2>2 DEF Tracked
  <2>4. QED
    BY <1>7, <1>10, <2>2, <2>3 DEF CloseUnsubscribe
<1>11. ASSUME NEW s \in Subs, UnsubWait(s) \/ UnsubRemove(s) \/ UnsubClose(s) \/ UnsubUntrack(s)
       PROVE  Stages'
  BY <1>11 DEF UnsubWait, UnsubRemove, UnsubClose, UnsubUntrack
<1>12. ASSUME NEW c \in Closers, CloseChannels(c) PROVE Stages'
  <2>1. \A s \in Registered : stage[s] # "free"
    BY DEF Registered, Tables
  <2>2. QED
    BY <1>12, <2>1 DEF CloseChannels
<1>13. CASE UNCHANGED <<stage, closed, subTopic, watch, unsub>>
  BY <1>13
<1>14. QED
  BY <1>1, <1>2, <1>3, <1>4, <1>5, <1>6, <1>8, <1>9, <1>10, <1>11, <1>12, <1>13, ZenonT(120)
  DEF Next, vars, Subs, Register, Subscribe, SubscribeAsync, SubscribeStep,
      StartGoroutines, TrackSub, RemoveChannel, RawReceive, CtxCancel, WatchStep,
      WatchSelect, WatchReturn, WatchUnsubscribe, Unsubscribe, UnsubStep, UnsubWait,
      UnsubRemove, UnsubClose, UnsubUntrack, WorkerStep, WorkerReceive, WorkerExit,
      HandlerReturn, HandlerUnsubscribe, Publish, PublishStep, Deliver, PublishReturn,
      CloseBegin, CloseStep, CloseUnsubscribe, CloseNext, CloseChannels

\* Every step keeps closed channels out of the tables: removeChannel comes
\* before closeSafe, and Close empties the tables it closes.
LEMMA RegistryOpenStep ==
    ASSUME TypeOK, Tables, Stages, Progress, RegistryOpen, [Next]_vars
    PROVE  RegistryOpen'
<1>1. ASSUME NEW s \in Subs, NEW t \in Topics, NEW next \in {"raw", "registered"},
             Register(s, t, next)
      PROVE  RegistryOpen'
  <2>1. Registered' = Registered \cup {s} /\ ~closed[s] /\ closed' = closed
    BY <1>1, AddChannelTables DEF Register, Stages, chanVars
  <2>2. QED
    BY <2>1 DEF RegistryOpen
<1>2. ASSUME NEW s \in Subs, RemoveChannel(s) \/ UnsubRemove(s) PROVE RegistryOpen'
  <2>1. subTopic[s] \in Topics /\ DropChannel(subTopic[s], s) /\ closed' = closed
    BY <1>2 DEF RemoveChannel, UnsubRemove, Stages, chanVars
  <2>2. Registered' = Registered \ {s}
    BY <2>1, DropChannelTables
  <2>3. QED
    BY <2>1, <2>2 DEF RegistryOpen
<1>3. ASSUME NEW s \in Subs, UnsubClose(s) PROVE RegistryOpen'
  <2>1. s \notin Registered /\ Registered' = Registered
    BY <1>3 DEF UnsubClose, Progress, Registered, busVars
  <2>2. \A r \in Registered : closed'[r] = closed[r]
    <3>1. Registered \subseteq Subs
      BY RegisteredType
    <3>2. QED
      BY <1>3, <2>1, <3>1 DEF UnsubClose, TypeOK
  <2>3. QED
    BY <2>1, <2>2 DEF RegistryOpen
<1>4. ASSUME NEW c \in Closers, CloseChannels(c) PROVE RegistryOpen'
  BY <1>4 DEF CloseChannels, RegistryOpen, Registered, ToSet
<1>5. CASE UNCHANGED <<registry, closed>>
  BY <1>5 DEF RegistryOpen, Registered
<1>6. QED
  BY <1>1, <1>2, <1>3, <1>4, <1>5, ZenonT(120)
  DEF Next, vars, Subs, Register, Subscribe, SubscribeAsync, SubscribeStep,
      StartGoroutines, TrackSub, RemoveChannel, RawReceive, CtxCancel, WatchStep,
      WatchSelect, WatchReturn, WatchUnsubscribe, Unsubscribe, UnsubStep, UnsubWait,
      UnsubRemove, UnsubClose, UnsubUntrack, WorkerStep, WorkerReceive, WorkerExit,
      HandlerReturn, HandlerUnsubscribe, Publish, PublishStep, Deliver, PublishReturn,
      CloseBegin, CloseStep, CloseUnsubscribe, CloseNext, CloseChannels,
      busVars, chanVars

\* Workers that have exited stay so: only SubscribeAsync starts any, once.
LEMMA NoWorkerStep ==
    ASSUME TypeOK, Stages, NoWorkerAfterWait, [Next]_vars
    PROVE  NoWorkerAfterWait'
<1>1. ASSUME NEW s \in Subs, StartGoroutines(s) PROVE NoWorkerAfterWait'
  BY <1>1 DEF StartGoroutines, Stages, TypeOK, NoWorkerAfterWait, WorkersGone
<1>2. ASSUME NEW s \in Subs, BeginUnsubscribe(s), UNCHANGED worker
      PROVE  NoWorkerAfterWait'
  BY <1>2 DEF BeginUnsubscribe, TypeOK, NoWorkerAfterWait, WorkersGone
<1>3. ASSUME NEW s \in Subs, Unsubscribe(s) \/ WatchUnsubscribe(s)
      PROVE  NoWorkerAfterWait'
  BY <1>2, <1>3 DEF Unsubscribe, WatchUnsubscribe
<1>4. ASSUME NEW c \in Closers, CloseUnsubscribe(c) PROVE NoWorkerAfterWait'
  <2>1. Head(closer[c].subs) \in Subs
    BY <1>4 DEF CloseUnsubscribe, CloseCalls, TypeOK
  <2>2. QED
    BY <1>2, <1>4, <2>1 DEF CloseUnsubscribe
<1>5. ASSUME NEW s \in Subs, UnsubWait(s) PROVE NoWorkerAfterWait'
  BY <1>5 DEF UnsubWait, TypeOK, NoWorkerAfterWait, WorkersGone
<1>6. ASSUME NEW s \in Subs, UnsubRemove(s) \/ UnsubClose(s) \/ UnsubUntrack(s)
      PROVE  NoWorkerAfterWait'
  <2>1. /\ worker' = worker
        /\ unsub[s] \in {"removing", "closing", "untracking"}
        /\ \A r \in Subs : r # s => unsub'[r] = unsub[r]
    BY <1>6 DEF UnsubRemove, UnsubClose, UnsubUntrack, TypeOK
  <2>2. QED
    BY <2>1 DEF NoWorkerAfterWait, WorkersGone
<1>7. ASSUME NEW s \in Subs, NEW w \in Workers,
             \/ WorkerReceive(s, w)
             \/ WorkerExit(s, w)
             \/ HandlerReturn(s, w)
      PROVE  NoWorkerAfterWait'
  <2>1. PICK x : worker' = [worker EXCEPT ![s][w] = x]
    BY <1>7 DEF WorkerReceive, WorkerExit, HandlerReturn
  <2>2. unsub' = unsub /\ worker[s][w] # "exited"
    BY <1>7 DEF WorkerReceive, WorkerExit, HandlerReturn
  <2>3. unsub[s] \notin {"removing", "closing", "untracking", "done"}
    BY <2>2 DEF NoWorkerAfterWait, WorkersGone
  <2>4. \A r \in Subs : r # s => worker'[r] = worker[r]
    BY <2>1 DEF TypeOK
  <2>5. QED
    BY <2>2, <2>3, <2>4 DEF NoWorkerAfterWait, WorkersGone
<1>8. ASSUME NEW s \in Subs, NEW w \in Workers, HandlerUnsubscribe(s, w)
      PROVE  NoWorkerAfterWait'
  <2>1. worker' = [worker EXCEPT ![s][w] = "unsubscribing"] /\ worker[s][w] = "handling"
    BY <1>8 DEF HandlerUnsubscribe
  <2>2. unsub' = unsub \/ (unsub[s] = "idle" /\ unsub' = [unsub EXCEPT ![s] = "waiting"])
    BY <1>8 DEF HandlerUnsubscribe, BeginUnsubscribe
  <2>3. unsub'[s] \notin {"removing", "closing", "untracking", "done"}
    BY <2>1, <2>2 DEF NoWorkerAfterWait, WorkersGone, TypeOK
  <2>4. \A r \in Subs : r # s => worker'[r] = worker[r] /\ unsub'[r] = unsub[r]
    BY <2>1, <2>2 DEF TypeOK
  <2>5. QED
    BY <2>3, <2>4 DEF NoWorkerAfterWait, WorkersGone
<1>9. CASE UNCHANGED <<unsub, worker>>
  BY <1>9 DEF NoWorkerAfterWait, WorkersGone
<1>10. QED
  BY <1>1, <1>3, <1>4, <1>5, <1>6, <1>7, <1>8, <1>9, ZenonT(120)
  DEF Next, vars, Subs, Register, Subscribe, SubscribeAsync, SubscribeStep,
      StartGoroutines, TrackSub, RemoveChannel, RawReceive, CtxCancel, WatchStep,
      WatchSelect, WatchReturn, WatchUnsubscribe, Unsubscribe, UnsubStep, UnsubWait,
      UnsubRemove, UnsubClose, UnsubUntrack, WorkerStep, WorkerReceive, WorkerExit,
      HandlerReturn, HandlerUnsubscribe, Publish, PublishStep, Deliver, PublishReturn,
      CloseBegin, CloseStep, CloseUnsubscribe, CloseNext, CloseChannels,
      asyncVars

\* What the body of Unsubscribe has done by each of its stages stays done.
LEMMA ProgressStep ==
    ASSUME TypeOK, Tables, Stages, Progress, [Next]_vars
    PROVE  Progress'
<1> USE DEF TypeOK, Progress
<1>1. ASSUME NEW s \in Subs, NEW t \in Topics, NEW next \in {"raw", "registered"},
             Register(s, t, next)
      PROVE  Progress'
  <2>1. Registered' = Registered \cup {s} /\ unsub[s] = "idle"
    BY <1>1, AddChannelTables DEF Register, Stages
  <2>2. QED
    BY <1>1, <2>1 DEF Register, chanVars, asyncVars
<1>2. ASSUME NEW s \in Subs, RemoveChannel(s) \/ UnsubRemove(s) PROVE Progress'
  <2>1. subTopic[s] \in Topics /\ DropChannel(subTopic[s], s)
    BY <1>2 DEF RemoveChannel, UnsubRemove, Stages
  <2>2. Registered' = Registered \ {s}
    BY <2>1, DropChannelTables
  <2>3. QED
    BY <1>2, <2>2 DEF RemoveChannel, UnsubRemove, chanVars, asyncVars
<1>3. ASSUME NEW s \in Subs, BeginUnsubscribe(s), UNCHANGED <<registry, closed>>
      PROVE  Progress'
  BY <1>3 DEF BeginUnsubscribe, Registered
<1>4. ASSUME NEW s \in Subs, Unsubscribe(s) \/ WatchUnsubscribe(s) PROVE Progress'
  BY <1>3, <1>4 DEF Unsubscribe, WatchUnsubscribe, busVars, chanVars
<1>5. ASSUME NEW s \in Subs, NEW w \in Workers, HandlerUnsubscribe(s, w) PROVE Progress'
  <2>1. CASE unsub[s] = "idle"
    BY <1>3, <1>5, <2>1 DEF HandlerUnsubscribe, busVars, chanVars
  <2>2. CASE unsub[s] # "idle"
    BY <1>5, <2>2 DEF HandlerUnsubscribe, busVars, chanVars, Registered
  <2>3. QED
    BY <2>1, <2>2
<1>6. ASSUME NEW c \in Closers, CloseUnsubscribe(c) PROVE Progress'
  <2>1. Head(closer[c].subs) \in Subs
    BY <1>6 DEF CloseUnsubscribe, CloseCalls
  <2>2. QED
    BY <1>3, <1>6, <2>1 DEF CloseUnsubscribe, busVars, chanVars
<1>7. ASSUME NEW s \in Subs, UnsubWait(s) \/ UnsubClose(s) \/ UnsubUntrack(s)
      PROVE  Progress'
  BY <1>7 DEF UnsubWait, UnsubClose, UnsubUntrack, busVars, chanVars, Registered
<1>8. ASSUME NEW c \in Closers, CloseChannels(c) PROVE Progress'
  <2>1. Registered' = {}
    BY <1>8 DEF CloseChannels, Registered, ToSet
  <2>2. \A s \in Subs : unsub'[s] = unsub[s] /\ (closed[s] => closed'[s])
    BY <1>8, Zenon DEF CloseChannels, asyncVars
  <2>3. QED
    BY <2>1, <2>2
<1>9. CASE UNCHANGED <<registry, closed, unsub>>
  BY <1>9 DEF Registered
<1>10. QED
  BY <1>1, <1>2, <1>4, <1>5, <1>6, <1>7, <1>8, <1>9, ZenonT(120)
  DEF Next, vars, Subs, Register, Subscribe, SubscribeAsync, SubscribeStep,
      StartGoroutines, TrackSub, RemoveChannel, RawReceive, CtxCancel, WatchStep,
      WatchSelect, WatchReturn, WatchUnsubscribe, Unsubscribe, UnsubStep, UnsubWait,
      UnsubRemove, UnsubClose, UnsubUntrack, WorkerStep, WorkerReceive, WorkerExit,
      HandlerReturn, HandlerUnsubscribe, Publish, PublishStep, Deliver, PublishReturn,
      CloseBegin, CloseStep, CloseUnsubscribe, CloseNext, CloseChannels,
      busVars, chanVars, asyncVars
\* An action that neither tracks nor untracks, completes no subscribe call and
\* takes back no finished Unsubscribe.
Quiet ==
    /\ activeSubs' = activeSubs
    /\ \A s \in Subs : stage'[s] = "returned" <=> stage[s] = "returned"
    /\ \A s \in Subs : unsub[s] = "done" => unsub'[s] = "done"

\* Only trackSub, untrackSub and the first step of Close are not quiet.
LEMMA QuietSteps ==
    ASSUME TypeOK, [Next]_vars
    PROVE  \/ Quiet /\ UNCHANGED <<closer, owed>>
           \/ \E s \in Subs : TrackSub(s) \/ UnsubUntrack(s)
           \/ \E c \in Closers : CloseBegin(c)
           \/ \E c \in Closers : (CloseNext(c) \/ CloseChannels(c)) /\ Quiet
<1> DEFINE Goal == \/ Quiet /\ UNCHANGED <<closer, owed>>
                   \/ \E s \in Subs : TrackSub(s) \/ UnsubUntrack(s)
                   \/ \E c \in Closers : CloseBegin(c)
                   \/ \E c \in Closers : (CloseNext(c) \/ CloseChannels(c)) /\ Quiet
<1>1. ASSUME NEW s \in Subs, NEW t \in Topics, NEW next \in {"raw", "registered"},
             Register(s, t, next)
      PROVE  Goal
  BY <1>1 DEF Register, Quiet, TypeOK, asyncVars, closeVars
<1>2. ASSUME NEW s \in Subs, StartGoroutines(s) \/ RemoveChannel(s) PROVE Goal
  BY <1>2 DEF StartGoroutines, RemoveChannel, Quiet, TypeOK, asyncVars, closeVars
<1>3. ASSUME NEW s \in Subs, BeginUnsubscribe(s), UNCHANGED <<activeSubs, stage, closer, owed>>
      PROVE  Goal
  BY <1>3 DEF BeginUnsubscribe, Quiet, TypeOK
<1>4. ASSUME NEW s \in Subs, Unsubscribe(s) \/ WatchUnsubscribe(s) PROVE Goal
  BY <1>3, <1>4 DEF Unsubscribe, WatchUnsubscribe, callVars, closeVars
<1>5. ASSUME NEW s \in Subs, NEW w \in Workers, HandlerUnsubscribe(s, w) PROVE Goal
  <2>1. CASE unsub[s] = "idle"
    BY <1>3, <1>5, <2>1 DEF HandlerUnsubscribe, callVars, closeVars
  <2>2. CASE unsub[s] # "idle"
    BY <1>5, <2>2 DEF HandlerUnsubscribe, callVars, closeVars, Quiet
  <2>3. QED
    BY <2>1, <2>2
<1>6. ASSUME NEW c \in Closers, CloseUnsubscribe(c) PROVE Goal
  <2>1. Head(closer[c].subs) \in Subs
    BY <1>6 DEF CloseUnsubscribe, CloseCalls, TypeOK
  <2>2. QED
    BY <1>3, <1>6, <2>1 DEF CloseUnsubscribe, callVars, closeVars
<1>7. ASSUME NEW s \in Subs, UnsubWait(s) \/ UnsubRemove(s) \/ UnsubClose(s) PROVE Goal
  BY <1>7 DEF UnsubWait, UnsubRemove, UnsubClose, Quiet, TypeOK, callVars, closeVars
<1>8. ASSUME NEW c \in Closers, CloseNext(c) \/ CloseChannels(c) PROVE Goal
  BY <1>8 DEF CloseNext, CloseChannels, Quiet, callVars, asyncVars
<1>9. ASSUME UNCHANGED <<activeSubs, stage, unsub, closer, owed>> PROVE Goal
  BY <1>9 DEF Quiet
<1> HIDE DEF Goal
<1>10. /\ \A s \in Subs : TrackSub(s) \/ UnsubUntrack(s) => Goal
       /\ \A c \in Closers : CloseBegin(c) => Goal
  BY DEF Goal
<1>11. Goal
  BY <1>1, <1>2, <1>4, <1>5, <1>6, <1>7, <1>8, <1>9, <1>10, ZenonT(120)
  DEF Next, vars, Subs, Register, Subscribe, SubscribeAsync, SubscribeStep,
      StartGoroutines, TrackSub, RemoveChannel, RawReceive, CtxCancel, WatchStep,
      WatchSelect, WatchReturn, WatchUnsubscribe, Unsubscribe, UnsubStep, UnsubWait,
      UnsubRemove, UnsubClose, UnsubUntrack, WorkerStep, WorkerReceive, WorkerExit,
      HandlerReturn, HandlerUnsubscribe, Publish, PublishStep, Deliver, PublishReturn,
      CloseBegin, CloseStep, CloseUnsubscribe, CloseNext, CloseChannels,
      callVars, asyncVars, closeVars
<1>12. QED
  BY <1>11 DEF Goal

\* A complete subscription that is not being released is in activeSubs or in
\* the snapshot of a running Close; untrackSub and CloseNext keep that.
LEMMA TrackedStep ==
    ASSUME TypeOK, Tracked, [Next]_vars
    PROVE  Tracked'
<1>1. /\ ToSet(activeSubs) \subseteq Subs
      /\ \A c \in Closers : closer[c] \in CloseCalls /\ ToSet(closer[c].subs) \subseteq Subs
  BY DEF TypeOK, ToSet, CloseCalls
<1>2. CASE Quiet /\ UNCHANGED <<closer, owed>>
  BY <1>1, <1>2 DEF Quiet, Tracked
<1>3. ASSUME NEW s \in Subs, TrackSub(s) PROVE Tracked'
  <2>1. /\ stage[s] = "started"
        /\ stage' = [stage EXCEPT ![s] = "returned"]
        /\ activeSubs' = Append(activeSubs, s)
        /\ UNCHANGED <<unsub, closer>>
    BY <1>3 DEF TrackSub, asyncVars, closeVars
  <2>2. s \notin ToSet(activeSubs) /\ \A c \in Closers : s \notin ToSet(closer[c].subs)
    BY <2>1 DEF Tracked
  <2>3. /\ IsInjective(activeSubs')
        /\ ToSet(activeSubs') = ToSet(activeSubs) \cup {s}
    BY <2>1, <2>2, InjectiveAppend, ToSetAppend DEF TypeOK, Tracked
  <2>4. \A r \in Subs : stage'[r] = IF r = s THEN "returned" ELSE stage[r]
    BY <2>1 DEF TypeOK
  <2>5. QED
    BY <1>1, <2>1, <2>3, <2>4 DEF Tracked
<1>4. ASSUME NEW s \in Subs, UnsubUntrack(s) PROVE Tracked'
  <2>1. /\ activeSubs' = RemoveFirst(activeSubs, s)
        /\ unsub' = [unsub EXCEPT ![s] = "done"]
        /\ UNCHANGED <<stage, closer>>
    BY <1>4 DEF UnsubUntrack, callVars, closeVars
  <2>2. IsInjective(activeSubs') /\ ToSet(activeSubs') = ToSet(activeSubs) \ {s}
    BY <2>1, RemoveFirstRemoves DEF TypeOK, Tracked
  <2>3. \A r \in Subs : unsub'[r] = IF r = s THEN "done" ELSE unsub[r]
    BY <2>1 DEF TypeOK
  <2>4. QED
    BY <1>1, <2>1, <2>2, <2>3 DEF Tracked
<1>5. ASSUME NEW c \in Closers, CloseBegin(c) PROVE Tracked'
  <2>1. /\ closer[c].pc = "idle"
        /\ closer' = [closer EXCEPT ![c] = [pc |-> "unsubscribing", subs |-> activeSubs]]
        /\ activeSubs' = <<>>
        /\ UNCHANGED <<stage, unsub>>
    BY <1>5 DEF CloseBegin, callVars, asyncVars
  <2>2. IsInjective(activeSubs') /\ ToSet(activeSubs') = {}
    BY <2>1 DEF IsInjective, ToSet
  <2>3. /\ closer'[c].pc = "unsubscribing" /\ closer'[c].subs = activeSubs
        /\ \A d \in Closers : d # c => closer'[d] = closer[d]
    BY <2>1 DEF TypeOK
  <2>4. QED
    BY <2>1, <2>2, <2>3 DEF Tracked
<1>6. ASSUME NEW c \in Closers, CloseNext(c), Quiet PROVE Tracked'
  <2> DEFINE h == Head(closer[c].subs)
  <2>1. /\ closer[c].subs \in Seq(Subs) /\ closer[c].subs # <<>>
        /\ unsub[h] = "done"
        /\ closer' = [closer EXCEPT ![c].subs = Tail(@)]
    BY <1>1, <1>6 DEF CloseNext, CloseCalls
  <2>2. ToSet(closer[c].subs) = ToSet(Tail(closer[c].subs)) \cup {h}
    BY <2>1, ToSetTail
  <2>3. /\ closer'[c].pc = closer[c].pc
        /\ closer'[c].subs = Tail(closer[c].subs)
        /\ \A d \in Closers : d # c => closer'[d] = closer[d]
    BY <1>1, <2>1 DEF TypeOK, CloseCalls
  <2> HIDE DEF h
  <2>4. h \in Subs /\ unsub'[h] = "done"
    BY <1>1, <1>6, <2>1, <2>2 DEF Quiet
  <2>5. QED
    BY <1>1, <1>6, <2>2, <2>3, <2>4 DEF Quiet, Tracked
<1>7. ASSUME NEW c \in Closers, CloseChannels(c), Quiet PROVE Tracked'
  <2>1. /\ ToSet(closer[c].subs) = {}
        /\ closer' = [closer EXCEPT ![c].pc = "returned"]
    BY <1>7 DEF CloseChannels, ToSet
  <2>2. /\ closer'[c].subs = closer[c].subs
        /\ \A d \in Closers : d # c => closer'[d] = closer[d]
    BY <1>1, <2>1 DEF TypeOK, CloseCalls
  <2>3. QED
    BY <1>1, <1>7, <2>1, <2>2 DEF Quiet, Tracked
<1>8. QED
  BY <1>2, <1>3, <1>4, <1>5, <1>6, <1>7, QuietSteps

\* What was complete when a Close began never enters activeSubs again: trackSub
\* is the last statement of a SubscribeAsync.
LEMMA OwedStep ==
    ASSUME TypeOK, Tracked, OwedOut, [Next]_vars
    PROVE  OwedOut'
<1>1. \A c \in Closers : owed[c] \subseteq Subs
  BY DEF TypeOK
<1>2. CASE Quiet /\ UNCHANGED owed
  BY <1>1, <1>2 DEF Quiet, OwedOut
<1>3. ASSUME NEW s \in Subs, TrackSub(s) PROVE OwedOut'
  <2>1. ToSet(activeSubs') = ToSet(activeSubs) \cup {s} /\ owed' = owed
    BY <1>3, ToSetAppend DEF TrackSub, TypeOK, closeVars
  <2>2. \A c \in Closers : s \notin owed[c]
    BY <1>3 DEF TrackSub, OwedOut
  <2>3. \A r \in Subs : stage[r] = "returned" => stage'[r] = "returned"
    BY <1>3 DEF TrackSub, TypeOK
  <2>4. QED
    BY <1>1, <2>1, <2>2, <2>3 DEF OwedOut
<1>4. ASSUME NEW s \in Subs, UnsubUntrack(s) PROVE OwedOut'
  <2>1. /\ ToSet(activeSubs') = ToSet(activeSubs) \ {s}
        /\ UNCHANGED <<owed, stage>>
    BY <1>4, RemoveFirstRemoves DEF UnsubUntrack, TypeOK, Tracked, callVars, closeVars
  <2>2. QED
    BY <2>1 DEF OwedOut
<1>5. ASSUME NEW c \in Closers, CloseBegin(c) PROVE OwedOut'
  <2>1. /\ ToSet(activeSubs') = {} /\ stage' = stage
        /\ owed' = [owed EXCEPT ![c] = {s \in Subs : stage[s] = "returned"}]
    BY <1>5 DEF CloseBegin, ToSet, callVars
  <2>2. QED
    BY <2>1 DEF OwedOut, TypeOK
<1>6. QED
  BY <1>2, <1>3, <1>4, <1>5, QuietSteps DEF CloseNext, CloseChannels

-----------------------------------------------------------------------------
\* The invariant holds of the bus New returns.
LEMMA IInvInit == Init => IInv
<1> SUFFICES ASSUME Init PROVE IInv
  OBVIOUS
<1>1. TypeOK
  BY TypeInit
<1>2. Carries
  BY DEF Init, Carries, NoCall
<1>3. Registered = {}
  BY DEF Init, Registered, ToSet
<1>4. Tables
  BY DEF Init, Tables, IsInjective, ToSet
<1>5. Stages
  BY DEF Init, Stages
<1>6. RegistryOpen /\ NoWorkerAfterWait /\ Progress
  BY <1>3 DEF Init, RegistryOpen, NoWorkerAfterWait, Progress
<1>7. Tracked /\ OwedOut
  BY DEF Init, Tracked, OwedOut, IsInjective, ToSet
<1>8. QED
  BY <1>1, <1>2, <1>4, <1>5, <1>6, <1>7 DEF IInv

\* The invariant is inductive: one lemma per conjunct.
LEMMA IInvStep == IInv /\ [Next]_vars => IInv'
BY TypeStep, CarriesStep, TablesStep, StagesStep, RegistryOpenStep, NoWorkerStep,
   ProgressStep, TrackedStep, OwedStep DEF IInv

\* The invariant holds in every reachable state of the bus.
LEMMA IInvHolds == SafetySpec => []IInv
BY IInvInit, IInvStep, PTL DEF SafetySpec

\* Every variable of the bus keeps its type.
THEOREM TypeCorrect == SafetySpec => []TypeOK
<1>1. IInv => TypeOK
  BY DEF IInv
<1>2. QED
  BY <1>1, IInvHolds, PTL

\* No closed channel is in the subscription tables.
THEOREM RegistryStaysOpen == SafetySpec => []RegistryOpen
<1>1. IInv => RegistryOpen
  BY DEF IInv
<1>2. QED
  BY <1>1, IInvHolds, PTL

\* No consumer goroutine outlives the wg.Wait of Unsubscribe.
THEOREM WorkersGoneAfterWait == SafetySpec => []NoWorkerAfterWait
<1>1. IInv => NoWorkerAfterWait
  BY DEF IInv
<1>2. QED
  BY <1>1, IInvHolds, PTL

\* When no Close is running any more, each one that returned has had everything
\* released that was subscribed when it began.
THEOREM CloseReleasesAll == SafetySpec => []CloseReleases
<1>1. ASSUME IInv, NEW c \in Closers, \A d \in Closers : closer[d].pc # "unsubscribing",
             NEW s \in owed[c]
      PROVE  Released(s)
  <2>1. s \in Subs /\ stage[s] = "returned" /\ s \notin ToSet(activeSubs)
    BY <1>1 DEF IInv, TypeOK, OwedOut
  <2>2. unsub[s] = "done"
    BY <1>1, <2>1 DEF IInv, Tracked
  <2>3. WorkersGone(s) /\ closed[s] /\ s \notin Registered
    BY <1>1, <2>1, <2>2 DEF IInv, NoWorkerAfterWait, Progress
  <2>4. ~Contains(activeSubs, s)
    BY <1>1, <2>1, ContainsToSet DEF IInv, TypeOK
  <2>5. QED
    BY <2>3, <2>4 DEF Released
<1>2. IInv => CloseReleases
  BY <1>1 DEF CloseReleases
<1>3. QED
  BY <1>2, IInvHolds, PTL
-----------------------------------------------------------------------------
\* What a subscription has been given of the events, and what a Publish call that
\* is under way has still to deliver.

\* The events a subscription has been given: it holds them or has received them.
Given(s) == ToSet(chan[s]) \cup taken[s]

\* Each Publish call under way has an event of its own, and only events that have
\* been published were given to anybody.
Numbered ==
    /\ \A p \in Publishers : pub[p].pc = "delivering" =>
         /\ pub[p].event \in 1..published
         /\ \A q \in Publishers : q # p /\ pub[q].pc = "delivering" => pub[q].event # pub[p].event
    /\ \A s \in Subs : Given(s) \subseteq 1..published

\* What is left of a snapshot names nobody twice and nobody who was given the event
\* or has a receipt; who has a receipt was told the truth.
Outstanding(p) ==
    LET b == pub[p].batches
        r == pub[p].receipts
    IN
    /\ pub[p].pc = "idle" => b = <<>> /\ r = <<>>
    /\ \A i \in DOMAIN b : IsInjective(b[i])
    /\ \A i, j \in DOMAIN b : i # j => ToSet(b[i]) \cap ToSet(b[j]) = {}
    /\ \A i \in DOMAIN b : \A s \in ToSet(b[i]) : pub[p].event \notin Given(s)
    /\ \A i \in DOMAIN b : \A k \in DOMAIN r : r[k].sub \notin ToSet(b[i])
    /\ \A k \in DOMAIN r : r[k].status = "queued" <=> pub[p].event \in Given(r[k].sub)

\* The inductive invariant of dispatch, on top of IInv.
DInv ==
    /\ Numbered
    /\ DeliveredAtMostOnce
    /\ \A p \in Publishers : Outstanding(p)

\* What a sequence over a set holds is of that set.
LEMMA ElementsOf ==
    ASSUME NEW S, NEW q \in Seq(S)
    PROVE  \A k \in DOMAIN q : q[k] \in S
OBVIOUS

\* A call stays as it is while nobody is given its event or loses it.
LEMMA OutstandingKept ==
    ASSUME TypeOK, NEW p \in Publishers, Outstanding(p), pub'[p] = pub[p],
           pub[p].pc = "delivering" =>
               \A s \in Subs : pub[p].event \in Given(s)' <=> pub[p].event \in Given(s)
    PROVE  Outstanding(p)'
<1> DEFINE b == pub[p].batches
           r == pub[p].receipts
<1>1. pub[p] \in PublishCalls
  BY DEF TypeOK
<1>2. b \in Seq(Seq(Subs)) /\ r \in Seq([sub : Subs, status : {"queued", "dropped"}])
      /\ pub[p].pc \in {"idle", "delivering"}
  BY <1>1 DEF PublishCalls
<1>3. \A i \in DOMAIN b : ToSet(b[i]) \subseteq Subs
  BY <1>2 DEF ToSet
<1>4. \A k \in DOMAIN r : r[k].sub \in Subs
  <2> HIDE DEF r
  <2>1. \A k \in DOMAIN r : r[k] \in [sub : Subs, status : {"queued", "dropped"}]
    BY <1>2, ElementsOf
  <2>2. QED
    BY <2>1
<1>5. CASE pub[p].pc = "delivering"
  <2>1. \A s \in Subs : pub[p].event \in Given(s)' <=> pub[p].event \in Given(s)
    BY <1>5
  <2>2. \A i \in DOMAIN b : \A s \in ToSet(b[i]) : pub[p].event \notin Given(s)'
    BY <1>3, <2>1 DEF Outstanding
  <2>3. \A k \in DOMAIN r : r[k].status = "queued" <=> pub[p].event \in Given(r[k].sub)'
    BY <1>4, <2>1 DEF Outstanding
  <2>4. QED
    BY <1>5, <2>2, <2>3 DEF Outstanding
<1>6. CASE pub[p].pc = "idle"
  <2>1. b = <<>> /\ r = <<>>
    BY <1>6 DEF Outstanding
  <2>2. DOMAIN b = {} /\ DOMAIN r = {}
    BY <2>1
  <2>3. QED
    BY <2>1, <2>2 DEF Outstanding
<1>7. QED
  BY <1>2, <1>5, <1>6

\* The snapshot in full: the exact subscriptions, then a batch for every entry of
\* wildcardOrder, empty where the pattern does not match.
LEMMA TargetsShape ==
    ASSUME TypeOK, NEW t \in ExactTopics
    PROVE  LET n == Len(wildcardOrder)
               b == Targets(t)
           IN  /\ n \in Nat /\ DOMAIN wildcardOrder = 1..n /\ DOMAIN b = 1..(n + 1)
               /\ b[1] = registry[t]
               /\ \A i \in 1..n : b[i + 1] = IF <<wildcardOrder[i], t>> \in Matches
                                             THEN registry[wildcardOrder[i]] ELSE <<>>
<1> DEFINE n == Len(wildcardOrder)
           b == Targets(t)
           wild == [i \in DOMAIN wildcardOrder |->
                      IF <<wildcardOrder[i], t>> \in Matches
                      THEN registry[wildcardOrder[i]] ELSE <<>>]
<1>1. n \in Nat /\ DOMAIN wildcardOrder = 1..n
  BY DEF TypeOK
<1>2. b = <<registry[t]>> \o wild
  BY DEF Targets
<1>3. wild \in Seq({wild[i] : i \in 1..n}) /\ Len(wild) = n
  BY <1>1
<1>4. \A i \in 1..n : wild[i] = IF <<wildcardOrder[i], t>> \in Matches
                               THEN registry[wildcardOrder[i]] ELSE <<>>
  BY <1>1
<1> HIDE DEF wild
<1>5. Len(<<registry[t]>>) = 1 /\ DOMAIN b = 1..(n + 1)
      /\ \A i \in 1..(n + 1) : b[i] = IF i <= 1 THEN registry[t] ELSE wild[i - 1]
  BY <1>1, <1>2, <1>3
<1> HIDE DEF b
<1>6. 1 \in 1..(n + 1) /\ \A i \in 1..n : i + 1 \in 1..(n + 1) /\ ~(i + 1 <= 1) /\ (i + 1) - 1 = i
  BY <1>1
<1>7. b[1] = registry[t] /\ \A i \in 1..n : b[i + 1] = wild[i]
  BY <1>5, <1>6
<1>8. QED
  BY <1>1, <1>4, <1>5, <1>7 DEF b

\* The snapshot names every subscription once at most: each is in one table entry,
\* and a pattern has one entry.
LEMMA TargetsOnce ==
    ASSUME TypeOK, Tables, NEW t \in ExactTopics
    PROVE  /\ \A i \in DOMAIN Targets(t) : IsInjective(Targets(t)[i])
           /\ \A i, j \in DOMAIN Targets(t) :
                i # j => ToSet(Targets(t)[i]) \cap ToSet(Targets(t)[j]) = {}
<1> DEFINE n == Len(wildcardOrder)
           b == Targets(t)
           topic(i) == IF i = 1 THEN t ELSE wildcardOrder[i - 1]
<1>1. n \in Nat /\ DOMAIN wildcardOrder = 1..n
  BY DEF TypeOK
<1>2. DOMAIN b = 1..(n + 1)
      /\ b[1] = registry[t]
      /\ \A i \in 2..(n + 1) : b[i] \in {registry[wildcardOrder[i - 1]], <<>>}
  <2> HIDE DEF b
  <2>1. /\ DOMAIN b = 1..(n + 1) /\ b[1] = registry[t]
        /\ \A i \in 1..n : b[i + 1] \in {registry[wildcardOrder[i]], <<>>}
    BY TargetsShape DEF b
  <2>2. \A i \in 2..(n + 1) : i - 1 \in 1..n /\ (i - 1) + 1 = i
    BY <1>1
  <2>3. QED
    BY <2>1, <2>2
<1> HIDE DEF b
<1>3. \A i \in 1..(n + 1) : topic(i) \in Topics /\ b[i] \in {registry[topic(i)], <<>>}
  <2>1. \A i \in 1..n : wildcardOrder[i] \in WildcardPatterns
    BY <1>1 DEF TypeOK
  <2>2. \A i \in 1..(n + 1) : i # 1 => i \in 2..(n + 1) /\ i - 1 \in 1..n
    BY <1>1
  <2>3. QED
    BY <1>2, <2>1, <2>2 DEF Topics
<1>4. \A i, j \in 1..(n + 1) : i # j => topic(i) # topic(j)
  <2>1. \A i \in 1..n : wildcardOrder[i] # t
    BY <1>1, ConstantsOK DEF TypeOK
  <2>2. \A i, j \in 1..n : i # j => wildcardOrder[i] # wildcardOrder[j]
    BY <1>1 DEF Tables, IsInjective
  <2>3. \A i \in 1..(n + 1) : i # 1 => i - 1 \in 1..n
    BY <1>1
  <2>4. \A i, j \in 1..(n + 1) : i # j => i - 1 # j - 1
    BY <1>1
  <2>5. QED
    BY <2>1, <2>2, <2>3, <2>4
<1> HIDE DEF topic
<1>5. IsInjective(<<>>) /\ ToSet(<<>>) = {}
  BY DEF IsInjective, ToSet
<1>6. \A i \in 1..(n + 1) : IsInjective(b[i]) /\ \A s \in ToSet(b[i]) : subTopic[s] = topic(i)
  BY <1>3, <1>5 DEF Tables
<1>7. QED
  BY <1>2, <1>4, <1>6 DEF b

\* A Publish call begins: nobody was given its event.
LEMMA PublishKeepsDInv ==
    ASSUME IInv, DInv, NEW p \in Publishers, NEW t \in ExactTopics, NEW report \in BOOLEAN,
           Publish(p, t, report)
    PROVE  DInv'
<1> USE DEF DInv
<1> DEFINE new == [pc |-> "delivering", event |-> published + 1, report |-> report,
                   batches |-> Targets(t), receipts |-> <<>>, matched |-> MatchedSubs(t)]
<1>1. TypeOK /\ Tables
  BY DEF IInv
<1>2. /\ pub' = [pub EXCEPT ![p] = new] /\ published' = published + 1
      /\ UNCHANGED <<chan, taken>>
  BY DEF Publish, chanVars
<1>3. pub'[p] = new /\ \A q \in Publishers \ {p} : pub'[q] = pub[q]
  BY <1>1, <1>2 DEF TypeOK
<1>4. published \in Nat /\ \A s \in Subs : Given(s)' = Given(s) /\ published + 1 \notin Given(s)
  BY <1>1, <1>2, ConstantsOK DEF TypeOK, Given, Numbered
<1>5. new.pc = "delivering" /\ new.event = published + 1
      /\ new.batches = Targets(t) /\ new.receipts = <<>>
  OBVIOUS
<1> HIDE DEF new
<1>6. \A q \in Publishers : pub[q].pc = "delivering" =>
                               pub[q].event \in 1..published /\ pub[q].event # published + 1
  BY <1>4 DEF Numbered
<1>7. Numbered'
  <2>1. published + 1 \in 1..(published + 1) /\ 1..published \subseteq 1..(published + 1)
    BY <1>4
  <2>2. \A s \in Subs : Given(s)' \subseteq 1..published'
    BY <1>2, <1>4, <2>1 DEF Numbered
  <2>3. ASSUME NEW q \in Publishers, pub'[q].pc = "delivering"
        PROVE  /\ pub'[q].event \in 1..published'
               /\ \A r \in Publishers : r # q /\ pub'[r].pc = "delivering"
                                          => pub'[r].event # pub'[q].event
    BY <1>2, <1>3, <1>5, <1>6, <2>1, <2>3 DEF Numbered
  <2>4. QED
    BY <2>2, <2>3 DEF Numbered
<1>8. DeliveredAtMostOnce'
  BY <1>2 DEF DeliveredAtMostOnce
<1>9. Outstanding(p)'
  <2>1. \A i \in DOMAIN Targets(t) : ToSet(Targets(t)[i]) \subseteq Subs
    BY <1>1, TargetsType DEF ToSet
  <2>2. \A i \in DOMAIN Targets(t) : \A s \in ToSet(Targets(t)[i]) : published + 1 \notin Given(s)'
    BY <1>4, <2>1
  <2>3. DOMAIN new.receipts = {}
    BY <1>5
  <2>4. QED
    BY <1>1, <1>3, <1>5, <2>2, <2>3, TargetsOnce DEF Outstanding
<1>10. \A q \in Publishers \ {p} : Outstanding(q)'
  BY <1>1, <1>3, <1>4, OutstandingKept
<1>11. QED
  BY <1>7, <1>8, <1>9, <1>10

\* A target is sent the event, or has it dropped.
LEMMA DeliverKeepsDInv ==
    ASSUME IInv, DInv, NEW p \in Publishers, Deliver(p)
    PROVE  DInv'
<1> USE DEF DInv
<1> DEFINE b == pub[p].batches
           r == pub[p].receipts
           e == pub[p].event
<1>1. PICK i \in DOMAIN b :
          LET s == Head(b[i]) IN
          /\ b[i] # <<>>
          /\ chan' = IF CanSend(s) THEN [chan EXCEPT ![s] = Append(chan[s], e)] ELSE chan
          /\ pub' = [pub EXCEPT ![p] =
                       [pub[p] EXCEPT !.batches = [b EXCEPT ![i] = Tail(b[i])],
                                      !.receipts = IF pub[p].report THEN Append(r, Receipt(s))
                                                                    ELSE r]]
  BY DEF Deliver, IsNextBatch
<1> DEFINE s == Head(b[i])
           newB == [b EXCEPT ![i] = Tail(b[i])]
           newR == IF pub[p].report THEN Append(r, Receipt(s)) ELSE r
           Now(x) == ToSet(chan'[x]) \cup taken'[x]
<1>2. TypeOK /\ pub[p] \in PublishCalls /\ pub[p].pc = "delivering"
      /\ UNCHANGED <<taken, published, closed>>
  BY DEF Deliver, IInv, TypeOK
<1>3. /\ b \in Seq(Seq(Subs)) /\ e \in Nat
      /\ r \in Seq([sub : Subs, status : {"queued", "dropped"}])
  BY <1>2 DEF PublishCalls
<1>4. b[i] \in Seq(Subs) /\ \A j \in DOMAIN b : ToSet(b[j]) \subseteq Subs
  BY <1>3 DEF ToSet
<1>5. Outstanding(p) /\ IsInjective(b[i])
  BY DEF Outstanding
<1>6. /\ Tail(b[i]) \in Seq(Subs) /\ s \in Subs
      /\ ToSet(b[i]) = ToSet(Tail(b[i])) \cup {s}
      /\ IsInjective(Tail(b[i])) /\ s \notin ToSet(Tail(b[i]))
  BY <1>1, <1>4, <1>5, ToSetTail, InjectiveTail
<1>7. e \notin Given(s) /\ e \in Events /\ e \in 1..published
  BY <1>2, <1>5, <1>6 DEF Outstanding, IInv, Carries, Numbered
<1>8. /\ \A x \in Subs \ {s} : chan'[x] = chan[x]
      /\ CanSend(s) => chan'[s] = Append(chan[s], e)
      /\ ~CanSend(s) => chan'[s] = chan[s]
  BY <1>1, <1>2, <1>6 DEF TypeOK
<1>9. /\ pub'[p].pc = "delivering" /\ pub'[p].event = e
      /\ pub'[p].batches = newB /\ pub'[p].receipts = newR
      /\ \A q \in Publishers \ {p} : pub'[q] = pub[q]
  <2> HIDE DEF newB, newR
  <2>1. pub' = [pub EXCEPT ![p] = [pub[p] EXCEPT !.batches = newB, !.receipts = newR]]
    BY <1>1, Zenon DEF newB, newR
  <2>2. QED
    BY <1>2, <2>1 DEF PublishCalls, TypeOK
<1>10. DOMAIN newB = DOMAIN b /\ newB[i] = Tail(b[i]) /\ \A j \in DOMAIN b \ {i} : newB[j] = b[j]
  BY <1>3
<1>11. chan[s] \in Seq(Events) /\ ToSet(Append(chan[s], e)) = ToSet(chan[s]) \cup {e}
  BY <1>2, <1>6, <1>7, ToSetAppend DEF TypeOK
<1>12. /\ \A x \in Subs \ {s} : Now(x) = Given(x)
       /\ Now(s) = IF CanSend(s) THEN Given(s) \cup {e} ELSE Given(s)
  <2>1. \A x \in Subs \ {s} : Now(x) = Given(x)
    BY <1>2, <1>8 DEF Given
  <2>2. CASE CanSend(s)
    <3>1. Now(s) = (ToSet(chan[s]) \cup {e}) \cup taken[s]
      BY <1>2, <1>8, <1>11, <2>2 DEF Given
    <3>2. QED
      BY <2>1, <2>2, <3>1 DEF Given
  <2>3. CASE ~CanSend(s)
    BY <1>2, <1>8, <2>1, <2>3 DEF Given
  <2>4. QED
    BY <2>2, <2>3
<1>13. IsInjective(chan'[s]) /\ ToSet(chan'[s]) \cap taken[s] = {}
  <2>1. e \notin ToSet(chan[s]) /\ e \notin taken[s]
    BY <1>7 DEF Given
  <2>2. IsInjective(chan[s]) /\ ToSet(chan[s]) \cap taken[s] = {}
    BY <1>6 DEF DeliveredAtMostOnce
  <2>3. IsInjective(Append(chan[s], e))
    BY <1>7, <1>11, <2>1, <2>2, InjectiveAppend
  <2>4. QED
    BY <1>8, <1>11, <2>1, <2>2, <2>3
<1>14. DeliveredAtMostOnce'
  BY <1>2, <1>8, <1>13 DEF DeliveredAtMostOnce
<1>15. Numbered'
  <2>1. \A x \in Subs : Now(x) \subseteq Given(x) \cup {e}
    BY <1>12
  <2>2. \A x \in Subs : Given(x) \subseteq 1..published
    BY DEF Numbered
  <2>3. \A q \in Publishers : pub'[q].event = pub[q].event
                              /\ (pub'[q].pc = "delivering" => pub[q].pc = "delivering")
    BY <1>2, <1>9
  <2>4. QED
    BY <1>2, <1>7, <2>1, <2>2, <2>3 DEF Numbered, Given
<1>16. \A x \in Subs : Given(x)' = Now(x)
  BY DEF Given
<1> HIDE DEF b, r, e, s, newB, Now
<1>17. \A j \in DOMAIN newB : /\ IsInjective(newB[j]) /\ s \notin ToSet(newB[j])
                              /\ ToSet(newB[j]) \subseteq ToSet(b[j])
  <2>1. \A j \in DOMAIN b \ {i} : IsInjective(b[j]) /\ ToSet(b[i]) \cap ToSet(b[j]) = {}
    BY <1>5 DEF Outstanding, b
  <2>2. QED
    BY <1>6, <1>10, <2>1
<1>18. \A j, k \in DOMAIN newB : j # k => ToSet(newB[j]) \cap ToSet(newB[k]) = {}
  <2>1. \A j, k \in DOMAIN b : j # k => ToSet(b[j]) \cap ToSet(b[k]) = {}
    BY <1>5 DEF Outstanding, b
  <2>2. QED
    BY <1>10, <1>17, <2>1
<1>19. \A j \in DOMAIN newB : \A x \in ToSet(newB[j]) : e \notin Now(x)
  <2>1. \A j \in DOMAIN b : \A x \in ToSet(b[j]) : x \in Subs /\ e \notin Given(x)
    BY <1>4, <1>5 DEF Outstanding, b, e
  <2>2. QED
    BY <1>10, <1>12, <1>17, <2>1
<1>20. \A k \in DOMAIN newR : /\ \A j \in DOMAIN newB : newR[k].sub \notin ToSet(newB[j])
                              /\ newR[k].status = "queued" <=> e \in Now(newR[k].sub)
  <2>1. ASSUME NEW k \in DOMAIN r
        PROVE  /\ \A j \in DOMAIN newB : r[k].sub \notin ToSet(newB[j])
               /\ r[k].status = "queued" <=> e \in Now(r[k].sub)
    <3>1. /\ \A j \in DOMAIN b : r[k].sub \notin ToSet(b[j])
          /\ r[k].status = "queued" <=> e \in Given(r[k].sub)
      BY <1>5 DEF Outstanding, b, r, e
    <3>2. r[k].sub \in Subs \ {s}
      <4>1. r[k] \in [sub : Subs, status : {"queued", "dropped"}]
        BY <1>3, ElementsOf
      <4>2. r[k].sub \notin ToSet(b[i]) /\ s \in ToSet(b[i])
        BY <1>6, <3>1
      <4>3. QED
        BY <4>1, <4>2
    <3>3. QED
      <4>1. Now(r[k].sub) = Given(r[k].sub)
        BY <1>12, <3>2
      <4>2. QED
        BY <1>10, <1>17, <3>1, <4>1
  <2>2. Receipt(s).sub = s /\ (Receipt(s).status = "queued" <=> CanSend(s))
    BY DEF Receipt
  <2>3. e \in Now(s) <=> CanSend(s)
    BY <1>7, <1>12
  <2>4. \A k \in DOMAIN newR : \/ k \in DOMAIN r /\ newR[k] = r[k]
                               \/ newR[k] = Receipt(s)
    BY <1>3
  <2> HIDE DEF newR
  <2>5. QED
    BY <1>17, <2>1, <2>2, <2>3, <2>4
<1> HIDE DEF newR
<1>21. Outstanding(p)'
  BY <1>9, <1>17, <1>18, <1>19, <1>20 DEF Outstanding, Now, Given
<1>22. ASSUME NEW q \in Publishers \ {p}
       PROVE  Outstanding(q)'
  <2>1. pub[q].pc = "delivering" => pub[q].event # e
    BY <1>2 DEF Numbered, e
  <2>2. pub[q].pc = "delivering" =>
            \A x \in Subs : pub[q].event \in Given(x)' <=> pub[q].event \in Given(x)
    BY <1>12, <1>16, <2>1
  <2>3. QED
    BY <1>2, <1>9, <2>2, OutstandingKept
<1>23. QED
  BY <1>14, <1>15, <1>21, <1>22

\* A channel is received from: what its subscription was given stays the same.
LEMMA ReceiveKeepsDInv ==
    ASSUME IInv, DInv, NEW s \in Subs, chan[s] # <<>>,
           chan' = [chan EXCEPT ![s] = Tail(chan[s])],
           taken' = [taken EXCEPT ![s] = taken[s] \cup {Head(chan[s])}],
           UNCHANGED pubVars
    PROVE  DInv'
<1> USE DEF DInv, pubVars
<1>1. TypeOK /\ chan[s] \in Seq(Events) /\ IsInjective(chan[s])
      /\ ToSet(chan[s]) \cap taken[s] = {}
  BY DEF IInv, TypeOK, DeliveredAtMostOnce
<1>2. /\ ToSet(chan[s]) = ToSet(Tail(chan[s])) \cup {Head(chan[s])}
      /\ IsInjective(Tail(chan[s])) /\ Head(chan[s]) \notin ToSet(Tail(chan[s]))
  BY <1>1, ToSetTail, InjectiveTail
<1>3. /\ chan'[s] = Tail(chan[s]) /\ taken'[s] = taken[s] \cup {Head(chan[s])}
      /\ \A x \in Subs \ {s} : chan'[x] = chan[x] /\ taken'[x] = taken[x]
  BY <1>1 DEF TypeOK
<1>4. Given(s)' = Given(s) /\ \A x \in Subs \ {s} : Given(x)' = Given(x)
  BY <1>2, <1>3 DEF Given
<1>5. DeliveredAtMostOnce'
  <2>1. IsInjective(chan'[s]) /\ ToSet(chan'[s]) \cap taken'[s] = {}
    BY <1>1, <1>2, <1>3
  <2>2. QED
    BY <1>3, <2>1 DEF DeliveredAtMostOnce
<1>6. Numbered'
  BY <1>4 DEF Numbered
<1>7. \A p \in Publishers : Outstanding(p)'
  BY <1>1, <1>4, OutstandingKept
<1>8. QED
  BY <1>5, <1>6, <1>7

\* A Publish call returns.
LEMMA ReturnKeepsDInv ==
    ASSUME IInv, DInv, NEW p \in Publishers, PublishReturn(p)
    PROVE  DInv'
<1> USE DEF DInv
<1>1. /\ TypeOK /\ pub' = [pub EXCEPT ![p] = NoCall]
      /\ UNCHANGED <<chan, taken, published>>
  BY DEF PublishReturn, chanVars, IInv
<1>2. pub'[p] = NoCall /\ \A q \in Publishers \ {p} : pub'[q] = pub[q]
  BY <1>1 DEF TypeOK
<1>3. NoCall.pc = "idle" /\ NoCall.batches = <<>> /\ NoCall.receipts = <<>>
  BY DEF NoCall
<1>4. Numbered' /\ DeliveredAtMostOnce' /\ \A s \in Subs : Given(s)' = Given(s)
  BY <1>1, <1>2, <1>3 DEF Numbered, DeliveredAtMostOnce, Given
<1>5. Outstanding(p)'
  <2>1. DOMAIN NoCall.batches = {} /\ DOMAIN NoCall.receipts = {}
    BY <1>3
  <2>2. QED
    BY <1>2, <1>3, <2>1 DEF Outstanding
<1>6. \A q \in Publishers \ {p} : Outstanding(q)'
  BY <1>1, <1>2, <1>4, OutstandingKept
<1>7. QED
  BY <1>4, <1>5, <1>6

\* Every step of the bus keeps it; few are about events.
LEMMA DInvStep == IInv /\ DInv /\ [Next]_vars => DInv'
<1> SUFFICES ASSUME IInv, DInv, [Next]_vars
             PROVE  DInv'
  OBVIOUS
<1>1. ASSUME NEW s \in Subs, RawReceive(s) \/ \E w \in Workers : WorkerReceive(s, w)
      PROVE  DInv'
  BY <1>1, ReceiveKeepsDInv DEF RawReceive, WorkerReceive
<1>2. CASE UNCHANGED <<chan, taken, pubVars>>
  <2>1. TypeOK /\ \A s \in Subs : Given(s)' = Given(s)
    BY <1>2 DEF Given, IInv
  <2>2. QED
    BY <1>2, <2>1, OutstandingKept DEF DInv, Numbered, DeliveredAtMostOnce, pubVars
<1>3. QED
  BY <1>1, <1>2, PublishKeepsDInv, DeliverKeepsDInv, ReturnKeepsDInv, Zenon DEF Next, vars,
     Register, Subscribe, SubscribeAsync, SubscribeStep, StartGoroutines, TrackSub,
     RemoveChannel, CtxCancel, WatchStep, WatchSelect, WatchReturn, WatchUnsubscribe,
     Unsubscribe, UnsubStep, UnsubWait, UnsubRemove, UnsubClose, UnsubUntrack, WorkerStep,
     WorkerExit, HandlerReturn, HandlerUnsubscribe, PublishStep, CloseStep, CloseBegin,
     CloseUnsubscribe, CloseNext, CloseChannels, chanVars, Subs

\* Nothing has been published on the bus New returns.
LEMMA DInvInit == Init => DInv
<1> SUFFICES ASSUME Init
             PROVE  DInv
  OBVIOUS
<1>1. ToSet(<<>>) = {} /\ IsInjective(<<>>) /\ DOMAIN <<>> = {}
  BY DEF ToSet, IsInjective
<1>2. \A s \in Subs : chan[s] = <<>> /\ taken[s] = {}
  BY DEF Init
<1>3. \A p \in Publishers : pub[p].pc = "idle" /\ pub[p].batches = <<>> /\ pub[p].receipts = <<>>
  BY DEF Init, NoCall
<1>4. QED
  BY <1>1, <1>2, <1>3 DEF DInv, Numbered, Given, DeliveredAtMostOnce, Outstanding

\* It is an invariant of the bus.
LEMMA DInvHolds == SafetySpec => []DInv
BY DInvInit, DInvStep, IInvHolds, PTL DEF SafetySpec

\* No subscription is given an event twice, by one Publish or by several.
THEOREM EventsDeliveredOnce == SafetySpec => []DeliveredAtMostOnce
<1>1. DInv => DeliveredAtMostOnce
  BY DEF DInv
<1>2. QED
  BY <1>1, DInvHolds, PTL

\* A receipt says "queued" exactly when the subscription was given the event.
THEOREM ReceiptsAreHonest == SafetySpec => []ReceiptHonest
<1>1. DInv => ReceiptHonest
  BY DEF DInv, Outstanding, ReceiptHonest, Given
<1>2. QED
  BY <1>1, DInvHolds, PTL
-----------------------------------------------------------------------------
\* Who has a receipt: with the targets left, the subscriptions that matched.

\* A pattern with subscriptions has an entry that dispatch reads.
Indexed ==
    \A t \in WildcardPatterns : registry[t] # <<>> => t \in ToSet(wildcardOrder)

\* What a reporting call has written and has left is what matched; no subscription
\* has two receipts.
Tally(p) ==
    pub[p].pc = "delivering" /\ pub[p].report =>
        /\ \A k, l \in DOMAIN pub[p].receipts :
             pub[p].receipts[k].sub = pub[p].receipts[l].sub => k = l
        /\ Written(pub[p]) \cup Left(pub[p]) = pub[p].matched

\* The inductive invariant of the receipts, on top of IInv and DInv.
RInv ==
    /\ Indexed
    /\ \A p \in Publishers : Tally(p)

\* removeChannel deletes the entry of a pattern with its last subscription only.
LEMMA DropKeepsIndexed ==
    ASSUME TypeOK, Tables, Indexed, NEW s \in Subs, NEW t \in Topics, DropChannel(t, s)
    PROVE  Indexed'
<1> DEFINE rest == RemoveFirst(registry[t], s)
<1>1. /\ registry'[t] = rest
      /\ \A u \in Topics \ {t} : registry'[u] = registry[u]
      /\ wildcardOrder' = IF rest = <<>> THEN RemoveFirst(wildcardOrder, t) ELSE wildcardOrder
  BY DEF DropChannel, TypeOK
<1>2. ToSet(RemoveFirst(wildcardOrder, t)) = ToSet(wildcardOrder) \ {t}
  BY RemoveFirstRemoves DEF TypeOK, Tables
<1> HIDE DEF rest
<1>3. registry[t] = <<>> => rest = <<>>
  <2>1. ~ \E i \in 1..Len(<<>>) : <<>>[i] = s
    OBVIOUS
  <2>2. RemoveFirst(<<>>, s) = <<>>
    BY <2>1, Zenon DEF RemoveFirst
  <2>3. QED
    BY <2>2 DEF rest
<1>4. ASSUME NEW u \in WildcardPatterns, registry'[u] # <<>>
      PROVE  u \in ToSet(wildcardOrder')
  <2>1. CASE u = t
    BY <1>1, <1>3, <1>4, <2>1 DEF Indexed
  <2>2. CASE u # t
    BY <1>1, <1>2, <1>4, <2>2 DEF Indexed, Topics
  <2>3. QED
    BY <2>1, <2>2
<1>5. QED
  BY <1>4 DEF Indexed

\* addChannel makes the entry of a pattern with its first subscription.
LEMMA AddKeepsIndexed ==
    ASSUME TypeOK, Indexed, NEW s \in Subs, NEW t \in Topics, AddChannel(t, s)
    PROVE  Indexed'
<1>1. \A u \in Topics \ {t} : registry'[u] = registry[u]
  BY DEF AddChannel, TypeOK
<1>2. wildcardOrder \in Seq(WildcardPatterns)
  BY DEF TypeOK
<1>3. ToSet(wildcardOrder) \subseteq ToSet(wildcardOrder')
  BY <1>2, ToSetAppend DEF AddChannel
<1>4. t \in WildcardPatterns => t \in ToSet(wildcardOrder')
  BY <1>2, ToSetAppend, ContainsToSet DEF AddChannel
<1>5. QED
  BY <1>1, <1>3, <1>4 DEF Indexed, Topics

\* Nothing else touches the tables but Close, which empties them.
LEMMA IndexedStep ==
    ASSUME TypeOK, Tables, Stages, Indexed, [Next]_vars
    PROVE  Indexed'
<1>1. ASSUME NEW s \in Subs, NEW t \in Topics, NEW next \in {"raw", "registered"},
             Register(s, t, next)
      PROVE  Indexed'
  BY <1>1, AddKeepsIndexed DEF Register
<1>2. ASSUME NEW s \in Subs, RemoveChannel(s) \/ UnsubRemove(s) PROVE Indexed'
  <2>1. subTopic[s] \in Topics /\ DropChannel(subTopic[s], s)
    BY <1>2 DEF RemoveChannel, UnsubRemove, Stages
  <2>2. QED
    BY <2>1, DropKeepsIndexed
<1>3. ASSUME NEW c \in Closers, CloseChannels(c) PROVE Indexed'
  BY <1>3 DEF CloseChannels, Indexed, Topics
<1>4. CASE UNCHANGED busVars
  BY <1>4 DEF Indexed, busVars
<1>5. QED
  BY <1>1, <1>2, <1>3, <1>4, ZenonT(120)
  DEF Next, vars, Subs, Subscribe, SubscribeAsync, SubscribeStep, StartGoroutines,
      TrackSub, RawReceive, CtxCancel, WatchStep, WatchSelect, WatchReturn,
      WatchUnsubscribe, Unsubscribe, UnsubStep, UnsubWait, UnsubClose, UnsubUntrack,
      WorkerStep, WorkerReceive, WorkerExit, HandlerReturn, HandlerUnsubscribe, Publish,
      PublishStep, Deliver, PublishReturn, CloseBegin, CloseStep, CloseUnsubscribe,
      CloseNext

\* The snapshot reaches the subscriptions whose own topic covers that of the event,
\* and no others.
LEMMA TargetsAreMatched ==
    ASSUME TypeOK, Tables, Indexed, NEW t \in ExactTopics
    PROVE  UNION {ToSet(Targets(t)[i]) : i \in DOMAIN Targets(t)} = MatchedSubs(t)
<1> DEFINE n == Len(wildcardOrder)
           b == Targets(t)
           order == wildcardOrder
<1>1. /\ n \in Nat /\ DOMAIN order = 1..n /\ DOMAIN b = 1..(n + 1) /\ b[1] = registry[t]
      /\ \A i \in 1..n : b[i + 1] = IF <<order[i], t>> \in Matches
                                    THEN registry[order[i]] ELSE <<>>
  BY TargetsShape
<1>2. t \in Topics /\ \A i \in 1..n : order[i] \in Topics
  BY <1>1 DEF TypeOK, Topics
<1>3. \A u \in Topics : \A s \in ToSet(registry[u]) : subTopic[s] = u /\ s \in Registered
  BY DEF Tables, Registered
<1> HIDE DEF n, b
<1>4. ASSUME NEW i \in DOMAIN b, NEW s \in ToSet(b[i])
      PROVE  s \in MatchedSubs(t)
  <2>1. CASE i = 1
    BY <1>1, <1>2, <1>3, <1>4, <2>1 DEF MatchedSubs, Covers
  <2>2. CASE i # 1
    <3>1. PICK j \in 1..n : i = j + 1
      <4>1. i \in 1..(n + 1) /\ n \in Nat
        BY <1>1
      <4>2. i - 1 \in 1..n /\ i = (i - 1) + 1
        BY <2>2, <4>1
      <4>3. QED
        BY <4>2
    <3>2. ToSet(<<>>) = {}
      BY DEF ToSet
    <3>3. <<order[j], t>> \in Matches /\ s \in ToSet(registry[order[j]])
      BY <1>1, <1>4, <3>1, <3>2
    <3>4. QED
      BY <1>2, <1>3, <3>3 DEF MatchedSubs, Covers
  <2>3. QED
    BY <2>1, <2>2
<1>5. ASSUME NEW s \in MatchedSubs(t)
      PROVE  \E i \in DOMAIN b : s \in ToSet(b[i])
  <2>1. PICK u \in Topics : s \in ToSet(registry[u])
    BY DEF MatchedSubs, Registered
  <2>2. u = t \/ <<u, t>> \in Matches
    BY <1>3, <2>1 DEF MatchedSubs, Covers
  <2>3. CASE u = t
    <3>1. 1 \in DOMAIN b
      BY <1>1
    <3>2. QED
      BY <1>1, <2>1, <2>3, <3>1
  <2>4. CASE <<u, t>> \in Matches
    <3>1. u \in WildcardPatterns
      BY <2>4, ConstantsOK
    <3>2. registry[u] # <<>>
      BY <2>1 DEF ToSet
    <3>3. PICK j \in 1..n : order[j] = u
      BY <1>1, <3>1, <3>2 DEF Indexed, ToSet
    <3>4. j + 1 \in DOMAIN b
      BY <1>1
    <3>5. b[j + 1] = registry[u]
      BY <1>1, <2>4, <3>3
    <3>6. QED
      BY <2>1, <3>4, <3>5
  <2>5. QED
    BY <2>2, <2>3, <2>4
<1>6. QED
  BY <1>4, <1>5 DEF b

\* A call begins: everybody it matched is left.
LEMMA PublishKeepsTally ==
    ASSUME IInv, Indexed, NEW p \in Publishers, NEW t \in ExactTopics,
           NEW report \in BOOLEAN, Publish(p, t, report)
    PROVE  Tally(p)' /\ \A q \in Publishers \ {p} : pub'[q] = pub[q]
<1> DEFINE new == [pc |-> "delivering", event |-> published + 1, report |-> report,
                   batches |-> Targets(t), receipts |-> <<>>, matched |-> MatchedSubs(t)]
<1>1. TypeOK /\ Tables /\ pub' = [pub EXCEPT ![p] = new]
  BY DEF IInv, Publish
<1>2. pub'[p] = new /\ \A q \in Publishers \ {p} : pub'[q] = pub[q]
  BY <1>1 DEF TypeOK
<1>3. DOMAIN new.receipts = {} /\ new.batches = Targets(t) /\ new.matched = MatchedSubs(t)
  OBVIOUS
<1> HIDE DEF new
<1>4. Written(new) = {} /\ Left(new) = new.matched
  BY <1>1, <1>3, TargetsAreMatched DEF Written, Left
<1>5. QED
  BY <1>2, <1>3, <1>4 DEF Tally

\* A delivery takes one subscription off what is left, and changes nothing else of
\* the call but the receipt it writes.
LEMMA DeliverEffect ==
    ASSUME IInv, DInv, NEW p \in Publishers, Deliver(p)
    PROVE  \E s \in Left(pub[p]) :
             /\ chan' = IF CanSend(s) THEN [chan EXCEPT ![s] = Append(chan[s], pub[p].event)]
                                      ELSE chan
             /\ Left(pub'[p]) = Left(pub[p]) \ {s}
             /\ pub'[p].receipts = IF pub[p].report THEN Append(pub[p].receipts, Receipt(s))
                                                    ELSE pub[p].receipts
             /\ pub'[p].pc = pub[p].pc /\ pub'[p].event = pub[p].event
             /\ pub'[p].report = pub[p].report /\ pub'[p].matched = pub[p].matched
             /\ \A q \in Publishers \ {p} : pub'[q] = pub[q]
<1> DEFINE call == pub[p]
           b == call.batches
           r == call.receipts
<1>1. PICK i \in DOMAIN b :
          LET s == Head(b[i]) IN
          /\ b[i] # <<>>
          /\ chan' = IF CanSend(s) THEN [chan EXCEPT ![s] = Append(chan[s], call.event)] ELSE chan
          /\ pub' = [pub EXCEPT ![p] =
                       [call EXCEPT !.batches = [b EXCEPT ![i] = Tail(b[i])],
                                    !.receipts = IF call.report THEN Append(r, Receipt(s))
                                                                ELSE r]]
  BY DEF Deliver, IsNextBatch
<1> DEFINE s == Head(b[i])
           newB == [b EXCEPT ![i] = Tail(b[i])]
           newR == IF call.report THEN Append(r, Receipt(s)) ELSE r
           new == [call EXCEPT !.batches = newB, !.receipts = newR]
<1>2. call \in PublishCalls /\ Outstanding(p) /\ pub' = [pub EXCEPT ![p] = new]
  BY <1>1, Zenon DEF Deliver, IInv, TypeOK, DInv
<1>3. pub'[p] = new /\ \A q \in Publishers \ {p} : pub'[q] = pub[q]
  <2> HIDE DEF new
  <2>1. QED
    BY <1>2 DEF IInv, TypeOK
<1>4. /\ new.pc = call.pc /\ new.event = call.event
      /\ new.report = call.report /\ new.matched = call.matched
      /\ new.batches = newB /\ new.receipts = newR
  <2> HIDE DEF newB, newR
  <2>1. QED
    BY <1>2 DEF PublishCalls
<1>5. b \in Seq(Seq(Subs)) /\ b[i] \in Seq(Subs) /\ IsInjective(b[i])
  BY <1>2 DEF PublishCalls, Outstanding
<1>6. /\ ToSet(b[i]) = ToSet(Tail(b[i])) \cup {s} /\ s \notin ToSet(Tail(b[i]))
  BY <1>1, <1>5, ToSetTail, InjectiveTail
<1>7. DOMAIN newB = DOMAIN b /\ newB[i] = Tail(b[i]) /\ \A j \in DOMAIN b \ {i} : newB[j] = b[j]
  BY <1>5
<1>8. \A j \in DOMAIN b \ {i} : ToSet(b[i]) \cap ToSet(b[j]) = {}
  BY <1>2 DEF Outstanding
<1> HIDE DEF newR, newB, new, s, r, b, call
<1>9. Left(new) = Left(call) \ {s} /\ s \in Left(call)
  <2>1. Left(new) = UNION {ToSet(newB[j]) : j \in DOMAIN newB}
    BY <1>4, Zenon DEF Left
  <2>2. Left(call) = UNION {ToSet(b[j]) : j \in DOMAIN b}
    BY Zenon DEF Left, b
  <2>3. \A j \in DOMAIN b : ToSet(newB[j]) = ToSet(b[j]) \ {s}
    BY <1>6, <1>7, <1>8
  <2>4. QED
    BY <1>6, <1>7, <2>1, <2>2, <2>3
<1>10. QED
  BY <1>1, <1>3, <1>4, <1>9, Zenon DEF newR, s, r, b, call

\* A delivery moves one subscription from what is left to what is written.
LEMMA DeliverKeepsTally ==
    ASSUME IInv, DInv, NEW p \in Publishers, Tally(p), Deliver(p)
    PROVE  Tally(p)' /\ \A q \in Publishers \ {p} : pub'[q] = pub[q]
<1> DEFINE r == pub[p].receipts
           newR == pub'[p].receipts
<1>1. PICK s \in Left(pub[p]) :
          /\ Left(pub'[p]) = Left(pub[p]) \ {s}
          /\ newR = IF pub[p].report THEN Append(r, Receipt(s)) ELSE r
          /\ pub'[p].report = pub[p].report /\ pub'[p].matched = pub[p].matched
          /\ \A q \in Publishers \ {p} : pub'[q] = pub[q]
  BY DeliverEffect
<1>2. CASE pub[p].report
  <2> DEFINE m == Len(r) + 1
  <2>1. r \in Seq([sub : Subs, status : {"queued", "dropped"}]) /\ pub[p].pc = "delivering"
    BY DEF Deliver, IInv, TypeOK, PublishCalls
  <2> HIDE DEF r, newR
  <2>2. /\ DOMAIN newR = DOMAIN r \cup {m}
        /\ newR[m] = Receipt(s) /\ \A k \in DOMAIN r : newR[k] = r[k]
    BY <1>1, <1>2, <2>1
  <2>3. Receipt(s).sub = s
    BY DEF Receipt
  <2>4. \A k \in DOMAIN r : r[k].sub # s
    BY DEF DInv, Outstanding, Left, r
  <2>5. /\ \A k, l \in DOMAIN r : r[k].sub = r[l].sub => k = l
        /\ Written(pub[p]) \cup Left(pub[p]) = pub[p].matched
    BY <1>2, <2>1 DEF Tally, r
  <2> HIDE DEF m
  <2>6. \A k, l \in DOMAIN newR : newR[k].sub = newR[l].sub => k = l
    BY <2>2, <2>3, <2>4, <2>5
  <2>7. Written(pub'[p]) = Written(pub[p]) \cup {s}
    BY <2>2, <2>3 DEF Written, r, newR
  <2>8. Written(pub'[p]) \cup Left(pub'[p]) = pub'[p].matched
    BY <1>1, <2>5, <2>7
  <2>9. QED
    BY <1>1, <2>6, <2>8 DEF Tally, newR
<1>3. CASE ~pub[p].report
  BY <1>1, <1>3 DEF Tally
<1>4. QED
  BY <1>2, <1>3

\* Nobody else writes the record of a call.
LEMMA RInvStep == IInv /\ DInv /\ RInv /\ [Next]_vars => RInv'
<1> SUFFICES ASSUME IInv, DInv, RInv, [Next]_vars
             PROVE  RInv'
  OBVIOUS
<1>1. Indexed'
  BY IndexedStep DEF IInv, RInv
<1>2. ASSUME NEW q \in Publishers
      PROVE  Tally(q)'
  <2>1. Tally(q) /\ Indexed
    BY DEF RInv
  <2>2. CASE pub'[q] = pub[q]
    BY <2>1, <2>2 DEF Tally
  <2>3. ASSUME NEW p \in Publishers, PublishReturn(p)
        PROVE  Tally(q)'
    <3>1. pub' = [pub EXCEPT ![p] = NoCall] /\ NoCall.pc = "idle"
      BY <2>3 DEF PublishReturn, NoCall
    <3>2. pub'[q] = pub[q] \/ pub'[q].pc = "idle"
      BY <3>1 DEF IInv, TypeOK
    <3>3. QED
      BY <2>2, <3>2 DEF Tally
  <2>4. ASSUME NEW p \in Publishers, NEW t \in ExactTopics, NEW report \in BOOLEAN,
               Publish(p, t, report)
        PROVE  Tally(q)'
    BY <2>1, <2>2, <2>4, PublishKeepsTally
  <2>5. ASSUME NEW p \in Publishers, Deliver(p)
        PROVE  Tally(q)'
    <3>1. Tally(p)
      BY DEF RInv
    <3>2. QED
      BY <2>2, <2>5, <3>1, DeliverKeepsTally
  <2>6. CASE pub' = pub
    BY <2>2, <2>6
  <2>7. QED
    BY <2>3, <2>4, <2>5, <2>6, ZenonT(120)
    DEF Next, vars, Register, Subscribe, SubscribeAsync, SubscribeStep, StartGoroutines,
        TrackSub, RemoveChannel, RawReceive, CtxCancel, WatchStep, WatchSelect,
        WatchReturn, WatchUnsubscribe, Unsubscribe, UnsubStep, UnsubWait, UnsubRemove,
        UnsubClose, UnsubUntrack, WorkerStep, WorkerReceive, WorkerExit, HandlerReturn,
        HandlerUnsubscribe, PublishStep, CloseStep, CloseBegin, CloseUnsubscribe,
        CloseNext, CloseChannels, pubVars
<1>3. QED
  BY <1>1, <1>2 DEF RInv

\* The tables of the bus New returns are empty.
LEMMA RInvInit == Init => RInv
BY DEF Init, RInv, Indexed, Tally, NoCall, Topics

\* It is an invariant of the bus.
LEMMA RInvHolds == SafetySpec => []RInv
BY RInvInit, RInvStep, IInvHolds, DInvHolds, PTL DEF SafetySpec

\* The receipts of a PublishReport and the targets it has left are at every moment the
\* subscriptions that matched, each once: when nothing is left every one of them has
\* its receipt.
THEOREM ReceiptsAreComplete == SafetySpec => []ReceiptOnce
<1>1. ASSUME DInv, RInv, NEW p \in Publishers, pub[p].pc = "delivering", pub[p].report
      PROVE  Accounted(pub[p])
  <2>1. Tally(p) /\ Outstanding(p)
    BY <1>1 DEF DInv, RInv
  <2>2. Written(pub[p]) \cap Left(pub[p]) = {}
    BY <2>1 DEF Outstanding, Written, Left
  <2>3. QED
    BY <1>1, <2>1, <2>2 DEF Tally, Outstanding, Accounted
<1>2. DInv /\ RInv => ReceiptOnce
  BY <1>1 DEF ReceiptOnce
<1>3. QED
  BY <1>2, DInvHolds, RInvHolds, PTL
-----------------------------------------------------------------------------
\* The bus implements PubSub: the step of PubSub that each of its steps is.

\* A step that writes nothing the users see.
LEMMA UnseenStep ==
    ASSUME UNCHANGED <<registry, subTopic, closed, chan, published, pub>>
    PROVE  UNCHANGED Users!vars
BY DEF Users!vars, Registered, Due

\* While only the tables and the channels change, the same is due.
LEMMA DueKept ==
    ASSUME UNCHANGED pub
    PROVE  [e \in Events |-> Due(e)]' = [e \in Events |-> Due(e)]
BY DEF Due

\* What is due of an event is what its call has left: no other call carries it.
LEMMA DueOfCall ==
    ASSUME TypeOK, Numbered, NEW p \in Publishers, pub[p].pc = "delivering"
    PROVE  Due(pub[p].event) = Left(pub[p])
<1>1. \A q \in Publishers : pub[q].pc = "delivering" /\ pub[q].event = pub[p].event <=> q = p
  BY DEF Numbered
<1>2. {q \in Publishers : pub[q].pc = "delivering" /\ pub[q].event = pub[p].event} = {p}
  BY <1>1
<1>3. QED
  BY <1>2, Zenon DEF Due

\* Subscribing joins.
LEMMA RegisterIsJoin ==
    ASSUME IInv, NEW s \in Subs, NEW t \in Topics, NEW next \in {"raw", "registered"},
           Register(s, t, next)
    PROVE  Users!Join(s, t)
<1>1. Registered' = Registered \cup {s} /\ subTopic[s] = NoTopic
  BY AddChannelTables DEF IInv, Register, Stages
<1>2. UNCHANGED <<closed, chan, published, pub>> /\ subTopic' = [subTopic EXCEPT ![s] = t]
  BY DEF Register, chanVars, pubVars
<1>3. QED
  BY <1>1, <1>2, DueKept DEF Users!Join

\* Removing a channel leaves.
LEMMA DropIsLeave ==
    ASSUME IInv, NEW s \in Subs, RemoveChannel(s) \/ UnsubRemove(s)
    PROVE  Users!Leave(s)
<1>1. subTopic[s] \in Topics /\ DropChannel(subTopic[s], s)
      /\ UNCHANGED <<subTopic, closed, chan, published, pub>>
  BY DEF IInv, RemoveChannel, UnsubRemove, Stages, chanVars, callVars, pubVars
<1>2. Registered' = Registered \ {s}
  BY <1>1, DropChannelTables DEF IInv
<1>3. QED
  BY <1>1, <1>2, DueKept DEF Users!Leave

\* Unsubscribe shuts the channel it has removed.
LEMMA CloseIsShut ==
    ASSUME IInv, NEW s \in Subs, UnsubClose(s)
    PROVE  Users!Shut(s)
<1>1. subTopic[s] # NoTopic /\ s \notin Registered
  BY ConstantsOK DEF IInv, UnsubClose, Stages, Progress
<1>2. {r \in Subs : closed[r]}' = {r \in Subs : closed[r]} \cup {s}
  BY DEF IInv, TypeOK, UnsubClose
<1>3. UNCHANGED <<registry, subTopic, chan, published, pub>>
  BY DEF UnsubClose, busVars, callVars, pubVars
<1>4. Registered' = Registered
  BY <1>3 DEF Registered
<1>5. QED
  BY <1>1, <1>2, <1>3, <1>4, DueKept DEF Users!Shut

\* Close shuts whatever is registered.
LEMMA CloseIsShutDown ==
    ASSUME IInv, NEW c \in Closers, CloseChannels(c)
    PROVE  Users!ShutDown
<1>1. Registered \subseteq Subs
  BY RegisteredType DEF IInv
<1>2. {s \in Subs : closed[s]}' = {s \in Subs : closed[s]} \cup Registered
  BY <1>1 DEF CloseChannels
<1>3. Registered' = {}
  BY DEF CloseChannels, Registered, ToSet
<1>4. UNCHANGED <<subTopic, chan, published, pub>>
  BY DEF CloseChannels, callVars, pubVars
<1>5. QED
  BY <1>2, <1>3, <1>4, DueKept DEF Users!ShutDown

\* Whoever receives from a channel takes from a mailbox.
LEMMA ReceiveIsTake ==
    ASSUME NEW s \in Subs, RawReceive(s) \/ \E w \in Workers : WorkerReceive(s, w)
    PROVE  Users!Take(s)
<1>1. chan[s] # <<>> /\ chan' = [chan EXCEPT ![s] = Tail(chan[s])]
      /\ UNCHANGED <<registry, subTopic, closed, published, pub>>
  BY DEF RawReceive, WorkerReceive, busVars, callVars, pubVars
<1>2. Registered' = Registered
  BY <1>1 DEF Registered
<1>3. QED
  BY <1>1, <1>2, DueKept DEF Users!Take

\* The snapshot announces the event to those whose topic it reaches.
LEMMA PublishIsAnnounce ==
    ASSUME IInv, DInv, Indexed, NEW p \in Publishers, NEW t \in ExactTopics,
           NEW report \in BOOLEAN, Publish(p, t, report)
    PROVE  Users!Announce(published + 1, t)
<1> DEFINE new == [pc |-> "delivering", event |-> published + 1, report |-> report,
                   batches |-> Targets(t), receipts |-> <<>>, matched |-> MatchedSubs(t)]
           e == published + 1
           Reached == {r \in Topics \X ExactTopics : Covers(r[1], r[2])}
<1>1. /\ TypeOK /\ Tables /\ Numbered /\ published \in Nat /\ published' = e
      /\ pub[p].pc = "idle" /\ pub' = [pub EXCEPT ![p] = new]
      /\ UNCHANGED <<registry, subTopic, closed, chan>>
  BY ConstantsOK DEF IInv, DInv, TypeOK, Publish, busVars, chanVars, callVars
<1>2. pub'[p] = new /\ \A q \in Publishers \ {p} : pub'[q] = pub[q]
  BY <1>1 DEF TypeOK
<1>3. new.pc = "delivering" /\ new.event = e /\ new.batches = Targets(t)
  OBVIOUS
<1> HIDE DEF new, e
<1>4. Left(new) = MatchedSubs(t)
  BY <1>1, <1>3, TargetsAreMatched, Zenon DEF Left
<1>5. \A q \in Publishers : pub[q].pc = "delivering" => pub[q].event # e
  BY <1>1 DEF Numbered, e
<1>6. ASSUME NEW d \in Events
      PROVE  Due(d)' = IF d = e THEN MatchedSubs(t) ELSE Due(d)
  <2> DEFINE Now == {q \in Publishers : pub'[q].pc = "delivering" /\ pub'[q].event = d}
             Then == {q \in Publishers : pub[q].pc = "delivering" /\ pub[q].event = d}
  <2>1. Due(d)' = UNION {Left(pub'[q]) : q \in Now} /\ Due(d) = UNION {Left(pub[q]) : q \in Then}
    BY Zenon DEF Due, Left
  <2>2. CASE d = e
    <3>1. Now = {p}
      BY <1>2, <1>3, <1>5, <2>2
    <3>2. QED
      BY <1>2, <1>4, <2>1, <2>2, <3>1
  <2>3. CASE d # e
    <3>1. Now = Then /\ p \notin Now
      BY <1>1, <1>2, <1>3, <2>3
    <3> HIDE DEF Now, Then
    <3>2. Now \subseteq Publishers \ {p}
      BY <3>1 DEF Now
    <3>3. {Left(pub'[q]) : q \in Now} = {Left(pub[q]) : q \in Then}
      BY <1>2, <3>1, <3>2
    <3>4. QED
      BY <2>1, <2>3, <3>3
  <2>4. QED
    BY <2>2, <2>3
<1>7. MatchedSubs(t) = {s \in Registered : <<subTopic[s], t>> \in Reached}
  <2>1. \A s \in Registered : subTopic[s] \in Topics
    BY <1>1 DEF Tables, Registered
  <2>2. QED
    BY <2>1 DEF MatchedSubs
<1> HIDE DEF Reached
<1>8. [d \in Events |-> Due(d)]' =
        [[d \in Events |-> Due(d)] EXCEPT
           ![e] = {s \in Registered : <<subTopic[s], t>> \in Reached}]
  BY <1>6, <1>7
<1>9. e \notin 1..published /\ 1..published' = 1..published \cup {e}
  BY <1>1 DEF e
<1>10. UNCHANGED <<subTopic, Registered, {s \in Subs : closed[s]}, chan>>
  BY <1>1 DEF Registered
<1>11. QED
  BY <1>8, <1>9, <1>10 DEF Users!Announce, e, Reached

\* A delivery offers the event to one of those it is due to.
LEMMA DeliverIsOffer ==
    ASSUME IInv, DInv, NEW p \in Publishers, Deliver(p)
    PROVE  \E s \in Subs : Users!Offer(pub[p].event, s) /\ pub[p].event \in Events
<1> DEFINE e == pub[p].event
<1>1. /\ TypeOK /\ Numbered /\ Numbered' /\ TypeOK' /\ e \in Events /\ pub[p].pc = "delivering"
      /\ UNCHANGED <<registry, subTopic, closed, published>>
  <2>1. IInv' /\ DInv'
    BY IInvStep, DInvStep DEF Next, PublishStep
  <2>2. QED
    BY <2>1 DEF IInv, DInv, Carries, Deliver, busVars, callVars
<1>2. PICK s \in Left(pub[p]) :
          /\ chan' = IF CanSend(s) THEN [chan EXCEPT ![s] = Append(chan[s], e)] ELSE chan
          /\ Left(pub'[p]) = Left(pub[p]) \ {s}
          /\ pub'[p].pc = pub[p].pc /\ pub'[p].event = pub[p].event
          /\ \A q \in Publishers \ {p} : pub'[q] = pub[q]
  BY DeliverEffect
<1>3. s \in Subs
  <2>1. pub[p].batches \in Seq(Seq(Subs))
    BY <1>1 DEF TypeOK, PublishCalls
  <2>2. QED
    BY <2>1 DEF Left, ToSet
<1>4. Due(e) = Left(pub[p])
  BY <1>1, DueOfCall
<1> HIDE DEF e
<1>5. \A q \in Publishers : pub[q].pc = "delivering" /\ pub[q].event = e <=> q = p
  BY <1>1 DEF Numbered, e
<1>6. ASSUME NEW d \in Events
      PROVE  Due(d)' = IF d = e THEN Due(d) \ {s} ELSE Due(d)
  <2> DEFINE Now == {q \in Publishers : pub'[q].pc = "delivering" /\ pub'[q].event = d}
             Then == {q \in Publishers : pub[q].pc = "delivering" /\ pub[q].event = d}
  <2>1. Due(d)' = UNION {Left(pub'[q]) : q \in Now} /\ Due(d) = UNION {Left(pub[q]) : q \in Then}
    BY Zenon DEF Due, Left
  <2>2. Now = Then
    BY <1>2
  <2>3. CASE d = e
    <3>1. Now = {p}
      BY <1>5, <2>2, <2>3
    <3>2. QED
      BY <1>2, <1>4, <2>1, <2>3, <3>1
  <2>4. CASE d # e
    <3>1. p \notin Now
      BY <1>5, <2>2, <2>4
    <3> HIDE DEF Then
    <3>2. Now \subseteq Publishers \ {p}
      BY <3>1
    <3> HIDE DEF Now
    <3>3. {Left(pub'[q]) : q \in Now} = {Left(pub[q]) : q \in Then}
      BY <1>2, <2>2, <3>2
    <3>4. QED
      BY <2>1, <2>4, <3>3
  <2>5. QED
    BY <2>3, <2>4
<1>7. [d \in Events |-> Due(d)]' =
        [[d \in Events |-> Due(d)] EXCEPT ![e] = [d \in Events |-> Due(d)][e] \ {s}]
  BY <1>1, <1>6
<1>8. UNCHANGED <<subTopic, Registered, {x \in Subs : closed[x]}, 1..published>>
  BY <1>1 DEF Registered
<1>9. Users!Accepts(s) <=> CanSend(s)
  BY <1>1, <1>3 DEF Users!Accepts, CanSend, TypeOK
<1>10. s \in [d \in Events |-> Due(d)][e]
  BY <1>1, <1>4
<1>11. Users!Offer(e, s)
  BY <1>2, <1>7, <1>8, <1>9, <1>10 DEF Users!Offer
<1>12. QED
  BY <1>1, <1>3, <1>11 DEF e

\* A call returns when nothing of its event is due.
LEMMA ReturnIsUnseen ==
    ASSUME IInv, DInv, NEW p \in Publishers, PublishReturn(p)
    PROVE  UNCHANGED Users!vars
<1>1. /\ pub[p].pc = "delivering" /\ pub' = [pub EXCEPT ![p] = NoCall]
      /\ \A i \in DOMAIN pub[p].batches : pub[p].batches[i] = <<>>
      /\ UNCHANGED <<registry, subTopic, closed, chan, published>>
  BY DEF PublishReturn, busVars, chanVars, callVars
<1>2. pub'[p].pc = "idle" /\ \A q \in Publishers \ {p} : pub'[q] = pub[q]
  BY <1>1 DEF IInv, TypeOK, NoCall
<1>3. Left(pub[p]) = {}
  BY <1>1 DEF Left, ToSet
<1>4. ASSUME NEW d \in Events
      PROVE  Due(d)' = Due(d)
  <2> DEFINE Now == {q \in Publishers : pub'[q].pc = "delivering" /\ pub'[q].event = d}
             Then == {q \in Publishers : pub[q].pc = "delivering" /\ pub[q].event = d}
  <2>1. Due(d)' = UNION {Left(pub'[q]) : q \in Now} /\ Due(d) = UNION {Left(pub[q]) : q \in Then}
    BY Zenon DEF Due, Left
  <2>2. Now = Then \ {p} /\ Now \subseteq Publishers \ {p}
    BY <1>2
  <2> HIDE DEF Now, Then
  <2>3. \A x : (\E q \in Now : x \in Left(pub'[q])) <=> (\E q \in Then : x \in Left(pub[q]))
    BY <1>2, <1>3, <2>2
  <2>4. QED
    BY <2>1, <2>3
<1>5. QED
  BY <1>1, <1>4 DEF Users!vars, Registered

\* Every step of the bus is a step of PubSub, or none.
LEMMA UsersStep ==
    ASSUME IInv, DInv, RInv, [Next]_vars
    PROVE  [Users!Next]_Users!vars
<1>1. ASSUME NEW s \in Subs, NEW t \in Topics, NEW next \in {"raw", "registered"},
             Register(s, t, next)
      PROVE  Users!Next
  BY <1>1, RegisterIsJoin DEF Users!Next
<1>2. ASSUME NEW s \in Subs, RemoveChannel(s) \/ UnsubRemove(s) PROVE Users!Next
  BY <1>2, DropIsLeave DEF Users!Next
<1>3. ASSUME NEW s \in Subs, UnsubClose(s) PROVE Users!Next
  BY <1>3, CloseIsShut DEF Users!Next
<1>4. ASSUME NEW c \in Closers, CloseChannels(c) PROVE Users!Next
  BY <1>4, CloseIsShutDown DEF Users!Next
<1>5. ASSUME NEW s \in Subs, RawReceive(s) \/ \E w \in Workers : WorkerReceive(s, w)
      PROVE  Users!Next
  BY <1>5, ReceiveIsTake DEF Users!Next
<1>6. ASSUME NEW p \in Publishers, NEW t \in ExactTopics, NEW report \in BOOLEAN,
             Publish(p, t, report)
      PROVE  Users!Next
  <2>1. published + 1 \in Events /\ t \in Topics
    BY <1>6, ConstantsOK DEF Publish, Events, Topics, IInv, TypeOK
  <2>2. QED
    BY <1>6, <2>1, PublishIsAnnounce DEF Users!Next, RInv
<1>7. ASSUME NEW p \in Publishers, Deliver(p) PROVE Users!Next
  BY <1>7, DeliverIsOffer DEF Users!Next
<1>8. ASSUME NEW p \in Publishers, PublishReturn(p) PROVE UNCHANGED Users!vars
  BY <1>8, ReturnIsUnseen
<1>9. CASE UNCHANGED <<registry, subTopic, closed, chan, published, pub>>
  BY <1>9, UnseenStep
<1>10. QED
  BY <1>1, <1>2, <1>3, <1>4, <1>5, <1>6, <1>7, <1>8, <1>9, ZenonT(120)
  DEF Next, vars, Subs, Subscribe, SubscribeAsync, SubscribeStep, StartGoroutines,
      TrackSub, CtxCancel, WatchStep, WatchSelect, WatchReturn, WatchUnsubscribe,
      Unsubscribe, UnsubStep, UnsubWait, UnsubUntrack, WorkerStep, WorkerExit,
      HandlerReturn, HandlerUnsubscribe, PublishStep, CloseBegin, CloseStep,
      CloseUnsubscribe, CloseNext, busVars, chanVars, callVars, pubVars

\* The bus New returns has no subscriptions and owes nothing.
LEMMA UsersInit == Init => Users!Init
<1> SUFFICES ASSUME Init
             PROVE  Users!Init
  OBVIOUS
<1>1. Registered = {} /\ {s \in Subs : closed[s]} = {} /\ 1..published = {}
  BY DEF Init, Registered, ToSet
<1>2. \A e \in Events : Due(e) = {}
  BY DEF Init, NoCall, Due
<1>3. QED
  BY <1>1, <1>2 DEF Init, Users!Init

\* Whatever subscribes, unsubscribes and closes meanwhile, an event is offered once to
\* each subscription that was in the tables and covered its topic, and to no other.
THEOREM BusImplementsPubSub == SafetySpec => ImplementsPubSub
<1>1. IInv /\ DInv /\ RInv /\ [Next]_vars => [Users!Next]_Users!vars
  BY UsersStep
<1>2. QED
  BY <1>1, UsersInit, IInvHolds, DInvHolds, RInvHolds, PTL
  DEF SafetySpec, ImplementsPubSub, Users!Spec
=============================================================================
