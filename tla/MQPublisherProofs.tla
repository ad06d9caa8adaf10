--------------------------- MODULE MQPublisherProofs ---------------------------
(***************************************************************************)
(* What becomes of the events of the publisher, for every number of        *)
(* callers and events and every capacity: NoPanic, SentOnce, CloseDrains.  *)
(***************************************************************************)
EXTENDS MQPublisher, Integers, SequencesExt, TLAPS

\* A sequence as the buffer of a Go channel: a send puts an event last.
LEMMA PutLast ==
    ASSUME NEW S, NEW q \in Seq(S), NEW e \in S
    PROVE  /\ Append(q, e) \in Seq(S)
           /\ ToSet(Append(q, e)) = ToSet(q) \cup {e}
           /\ IsInjective(q) /\ e \notin ToSet(q) => IsInjective(Append(q, e))
<1> DEFINE r == Append(q, e)
<1>1. /\ r \in Seq(S) /\ DOMAIN q = 1..Len(q) /\ DOMAIN r = 1..(Len(q) + 1)
      /\ r[Len(q) + 1] = e /\ \A i \in DOMAIN q : r[i] = q[i]
  OBVIOUS
<1>2. \A i \in DOMAIN r : i \in DOMAIN q \/ i = Len(q) + 1
  OBVIOUS
<1>3. DOMAIN q \subseteq DOMAIN r /\ Len(q) + 1 \in DOMAIN r
  OBVIOUS
<1> HIDE DEF r
<1>4. ToSet(r) = ToSet(q) \cup {e}
  BY <1>1, <1>2, <1>3, Zenon DEF ToSet
<1>5. IsInjective(q) /\ e \notin ToSet(q) => IsInjective(r)
  BY <1>1, <1>2, <1>3 DEF IsInjective, ToSet
<1>6. QED
  BY <1>1, <1>4, <1>5 DEF r

\* A receive takes the first event.
LEMMA TakeFirst ==
    ASSUME NEW S, NEW q \in Seq(S), q # <<>>
    PROVE  /\ Tail(q) \in Seq(S) /\ Head(q) \in S
           /\ ToSet(q) = ToSet(Tail(q)) \cup {Head(q)}
           /\ IsInjective(q) => IsInjective(Tail(q)) /\ Head(q) \notin ToSet(Tail(q))
<1> DEFINE r == Tail(q)
<1>1. /\ r \in Seq(S) /\ Head(q) \in S /\ 1 \in DOMAIN q /\ q[1] = Head(q)
      /\ DOMAIN r \subseteq Nat \ {0}
      /\ \A i \in DOMAIN r : i + 1 \in DOMAIN q /\ r[i] = q[i + 1]
  OBVIOUS
<1>2. \A i \in DOMAIN q : q[i] = Head(q) \/ (i - 1 \in DOMAIN r /\ r[i - 1] = q[i])
  OBVIOUS
<1> HIDE DEF r
<1>3. ToSet(q) \subseteq ToSet(r) \cup {Head(q)}
  BY <1>2, ZenonT(60) DEF ToSet
<1>4. ToSet(r) \cup {Head(q)} \subseteq ToSet(q)
  BY <1>1, ZenonT(60) DEF ToSet
<1>5. IsInjective(q) => IsInjective(r) /\ Head(q) \notin ToSet(r)
  BY <1>1 DEF IsInjective, ToSet
<1>6. QED
  BY <1>1, <1>3, <1>4, <1>5, Zenon DEF r

\* A call in Distributed or MQOnly that has not left enqueue.
Pending(c) == call[c].pc \in {"rlock", "check", "queue", "fallback"}
Fate == {"none", "queued", "fallback", "dropped"}

\* The types of the variables; closed is set with the close of the channel.
Types ==
    /\ call \in [Callers -> [pc : {"idle", "rlock", "check", "queue", "fallback", "local"},
                             event : Events \cup {NoEvent}, local : BOOLEAN]]
    /\ issued \in 0..MaxEvents
    /\ closed \in BOOLEAN /\ chClosed = closed
    /\ mqQueue \in Seq(Events)
    /\ closer \in [Closers -> {"idle", "lock", "locked", "waiting", "once", "returned"}]
    /\ fate \in [Events -> Fate]
    /\ sends \in [Events -> Nat]

\* The read lock and Close's lock exclude each other, so that what a call has seen
\* of closed is true until it leaves enqueue.
Locks ==
    \A c \in Callers :
        /\ call[c].pc \in {"check", "queue", "fallback"} => \A k \in Closers : closer[k] # "locked"
        /\ call[c].pc \in {"queue", "fallback"} => ~closed

\* The worker leaves a closed, empty queue, and Close waits for every sender.
Ends ==
    /\ worker.pc = "exited" => closed /\ mqQueue = <<>>
    /\ \A k \in Closers : closer[k] = "returned" => AllDone

\* Each pending call has an event of its own, of which nothing is decided.
Calls ==
    \A c \in Callers : Pending(c) =>
        /\ call[c].event \in 1..issued
        /\ fate[call[c].event] = "none"
        /\ \A d \in Callers : d # c /\ Pending(d) => call[d].event # call[c].event

\* An event that was queued is in the queue until it is sent; one that fell back
\* is sent at once, any other is not.
Fated(e) ==
    /\ e > issued => fate[e] = "none"
    /\ e \in ToSet(mqQueue) <=> fate[e] = "queued" /\ sends[e] = 0
    /\ sends[e] \in {0, 1}
    /\ fate[e] \in {"none", "dropped"} => sends[e] = 0
    /\ fate[e] = "fallback" => sends[e] = 1

\* The inductive invariant.
IInv ==
    /\ Types
    /\ Locks
    /\ Ends
    /\ Calls
    /\ IsInjective(mqQueue)
    /\ \A e \in Events : Fated(e)
-----------------------------------------------------------------------------
\* The invariant holds at first.
LEMMA IInvInit == Init => IInv
<1> SUFFICES ASSUME Init
             PROVE  IInv
  OBVIOUS
<1>1. ToSet(mqQueue) = {} /\ IsInjective(mqQueue)
  BY DEF Init, ToSet, IsInjective
<1>2. Types
  <2>1. issued \in 0..MaxEvents /\ mqQueue \in Seq(Events)
    BY PublisherConstantsOK DEF Init
  <2>2. chClosed = closed /\ closed \in BOOLEAN
    BY DEF Init
  <2>3. NoCall \in [pc : {"idle", "rlock", "check", "queue", "fallback", "local"},
                    event : Events \cup {NoEvent}, local : BOOLEAN]
    BY DEF NoCall
  <2>4. fate \in [Events -> Fate] /\ sends \in [Events -> Nat]
    BY DEF Init, Fate
  <2>5. QED
    BY <2>1, <2>2, <2>3, <2>4 DEF Init, Types
<1>3. Locks /\ Ends /\ Calls
  BY DEF Init, Locks, Ends, Calls, NoCall, Pending
<1>4. \A e \in Events : Fated(e)
  BY <1>1 DEF Init, Fated
<1>5. QED
  BY <1>1, <1>2, <1>3, <1>4 DEF IInv

\* The event of a pending call is one that nothing has been decided of.
LEMMA PendingEvent ==
    ASSUME IInv, NEW c \in Callers, Pending(c)
    PROVE  /\ call[c].event \in Events
           /\ fate[call[c].event] = "none" /\ sends[call[c].event] = 0
           /\ call[c].event \notin ToSet(mqQueue)
           /\ ~(call[c].event > issued)
<1>1. call[c].event \in 1..issued /\ fate[call[c].event] = "none"
  BY DEF IInv, Calls
<1>2. call[c].event \in Events /\ ~(call[c].event > issued)
  BY <1>1, PublisherConstantsOK DEF IInv, Types, Events
<1>3. QED
  BY <1>1, <1>2 DEF IInv, Fated

\* A call leaves enqueue.
LEMMA LeaveEffect ==
    ASSUME IInv, NEW c \in Callers, NEW f \in Fate, Pending(c), Leave(c, f)
    PROVE  /\ call' \in [Callers -> [pc : {"idle", "rlock", "check", "queue", "fallback", "local"},
                                     event : Events \cup {NoEvent}, local : BOOLEAN]]
           /\ call'[c].pc \in {"idle", "local"}
           /\ \A d \in Callers \ {c} : call'[d] = call[d]
           /\ fate' \in [Events -> Fate]
           /\ fate'[call[c].event] = f
           /\ \A e \in Events \ {call[c].event} : fate'[e] = fate[e]
<1> DEFINE new == IF call[c].local THEN [call[c] EXCEPT !.pc = "local"] ELSE NoCall
<1>1. call' = [call EXCEPT ![c] = new]
  BY DEF Leave
<1>2. call[c] \in [pc : {"idle", "rlock", "check", "queue", "fallback", "local"},
                   event : Events \cup {NoEvent}, local : BOOLEAN]
  BY DEF IInv, Types
<1>3. /\ new \in [pc : {"idle", "rlock", "check", "queue", "fallback", "local"},
                  event : Events \cup {NoEvent}, local : BOOLEAN]
      /\ new.pc \in {"idle", "local"}
  BY <1>2 DEF NoCall
<1> HIDE DEF new
<1>4. fate \in [Events -> Fate] /\ fate' = [fate EXCEPT ![call[c].event] = f]
  BY DEF Leave, IInv, Types
<1>5. call[c].event \in Events
  BY PendingEvent
<1>6. QED
  BY <1>1, <1>3, <1>4, <1>5 DEF IInv, Types

\* What a call that leaves does to the calls, the locks and the fates of the other
\* events.
LEMMA LeaveKeeps ==
    ASSUME IInv, NEW c \in Callers, NEW f \in Fate, Pending(c), Leave(c, f),
           UNCHANGED <<issued, closed, closer>>
    PROVE  Locks' /\ Calls'
<1>1. /\ call'[c].pc \in {"idle", "local"}
      /\ \A d \in Callers \ {c} : call'[d] = call[d]
      /\ \A e \in Events \ {call[c].event} : fate'[e] = fate[e]
  BY LeaveEffect
<1>2. Locks'
  BY <1>1 DEF IInv, Locks
<1>3. ASSUME NEW d \in Callers, Pending(d)'
      PROVE  /\ call'[d].event \in 1..issued'
             /\ fate'[call'[d].event] = "none"
             /\ \A g \in Callers : g # d /\ Pending(g)' => call'[g].event # call'[d].event
  <2>1. d # c /\ call'[d] = call[d] /\ Pending(d)
    BY <1>1, <1>3 DEF Pending
  <2>2. call[d].event # call[c].event /\ call[d].event \in Events
    BY <2>1, PendingEvent DEF IInv, Calls
  <2>3. fate'[call[d].event] = "none"
    BY <1>1, <2>1, <2>2 DEF IInv, Calls
  <2>4. \A g \in Callers : g # d /\ Pending(g)' => Pending(g) /\ call'[g] = call[g]
    BY <1>1 DEF Pending
  <2>5. QED
    BY <2>1, <2>3, <2>4 DEF IInv, Calls
<1>4. QED
  BY <1>2, <1>3 DEF Calls

\* A step of a call that decides nothing of its event: it goes on in enqueue, or
\* ends.
LEMMA MovesOn ==
    ASSUME IInv, NEW c \in Callers, NEW p \in {"check", "queue", "fallback"}, Pending(c),
           call' = [call EXCEPT ![c].pc = p],
           UNCHANGED <<issued, queueVars, worker, fallback, closer, fate, sends>>,
           \A k \in Closers : closer[k] # "locked",
           p # "check" => ~closed
    PROVE  IInv'
<1> USE DEF IInv, queueVars
<1>1. call' \in [Callers -> [pc : {"idle", "rlock", "check", "queue", "fallback", "local"},
                             event : Events \cup {NoEvent}, local : BOOLEAN]]
  BY DEF Types
<1>2. Types'
  BY <1>1 DEF Types
<1>3. /\ call'[c].pc = p /\ call'[c].event = call[c].event
      /\ \A d \in Callers \ {c} : call'[d] = call[d]
  BY DEF Types
<1>4. Locks' /\ Ends'
  BY <1>3 DEF Locks, Ends, AllDone
<1>5. \A d \in Callers : (Pending(d)' => Pending(d)) /\ call'[d].event = call[d].event
  BY <1>3 DEF Pending
<1>6. issued' = issued /\ fate' = fate
  OBVIOUS
<1>7. Calls'
  <2> SUFFICES ASSUME NEW d \in Callers, Pending(d)'
               PROVE  /\ call'[d].event \in 1..issued'
                      /\ fate'[call'[d].event] = "none"
                      /\ \A g \in Callers : g # d /\ Pending(g)' => call'[g].event # call'[d].event
    BY DEF Calls
  <2>1. Pending(d) /\ call'[d].event = call[d].event
    BY <1>5
  <2>2. \A g \in Callers : Pending(g)' => Pending(g) /\ call'[g].event = call[g].event
    BY <1>5
  <2>3. QED
    BY <1>6, <2>1, <2>2 DEF Calls
<1>8. \A e \in Events : Fated(e)'
  BY DEF Fated
<1>9. QED
  BY <1>2, <1>4, <1>7, <1>8

\* A call begins, with the next event.
LEMMA BeginKeepsIInv ==
    ASSUME IInv, NEW c \in Callers, NEW local \in BOOLEAN, Begin(c, local)
    PROVE  IInv'
<1> USE DEF IInv
<1>1. /\ call' = [call EXCEPT ![c] = [pc |-> "rlock", event |-> issued + 1, local |-> local]]
      /\ issued < MaxEvents /\ issued' = issued + 1
      /\ UNCHANGED <<queueVars, worker, fallback, closer, fate, sends>>
      /\ call[c].pc = "idle"
  BY DEF Begin
<1>2. issued \in Nat /\ issued + 1 \in Events /\ issued' \in 0..MaxEvents
  BY <1>1, PublisherConstantsOK DEF Types, Events
<1>3. call' \in [Callers -> [pc : {"idle", "rlock", "check", "queue", "fallback", "local"},
                             event : Events \cup {NoEvent}, local : BOOLEAN]]
  BY <1>1, <1>2 DEF Types
<1>4. Types'
  BY <1>1, <1>2, <1>3 DEF Types, queueVars
<1>5. /\ call'[c].pc = "rlock" /\ call'[c].event = issued + 1
      /\ \A d \in Callers \ {c} : call'[d] = call[d]
  BY <1>1 DEF Types
<1>6. Locks' /\ Ends'
  BY <1>1, <1>5 DEF Locks, Ends, AllDone, queueVars
<1>7. \A d \in Callers \ {c} : Pending(d)' => Pending(d) /\ call[d].event \in 1..issued
                                              /\ call[d].event # issued + 1
  BY <1>2, <1>5 DEF Pending, Calls
<1>8. fate[issued + 1] = "none"
  BY <1>2 DEF Fated
<1>9. Calls'
  <2>1. ASSUME NEW d \in Callers, Pending(d)'
        PROVE  call'[d].event \in 1..issued' /\ fate'[call'[d].event] = "none"
    BY <1>1, <1>2, <1>5, <1>7, <1>8, <2>1 DEF Calls
  <2>2. ASSUME NEW d \in Callers, NEW g \in Callers, Pending(d)', Pending(g)', g # d
        PROVE  call'[g].event # call'[d].event
    BY <1>5, <1>7, <2>2 DEF Calls
  <2>3. QED
    BY <2>1, <2>2 DEF Calls
<1>10. \A e \in Events : Fated(e)'
  BY <1>1, <1>2 DEF Fated, queueVars, Events
<1>11. QED
  BY <1>1, <1>4, <1>6, <1>9, <1>10 DEF queueVars

\* enqueue drops the event.
LEMMA DropKeepsIInv ==
    ASSUME IInv, NEW c \in Callers, Pending(c), Leave(c, "dropped"),
           UNCHANGED <<issued, queueVars, worker, fallback, closer, sends>>
    PROVE  IInv'
<1> USE DEF IInv, queueVars
<1> DEFINE e == call[c].event
<1>1. e \in Events /\ e \notin ToSet(mqQueue) /\ ~(e > issued) /\ sends[e] = 0
  BY PendingEvent
<1>2. /\ fate' \in [Events -> Fate] /\ fate'[e] = "dropped"
      /\ \A d \in Events \ {e} : fate'[d] = fate[d]
  BY LeaveEffect DEF Fate
<1> HIDE DEF e
<1>3. Types'
  BY <1>2, LeaveEffect DEF Types, Fate
<1>4. Locks' /\ Calls'
  BY LeaveKeeps DEF Fate
<1>5. Ends'
  BY DEF Ends, AllDone
<1>6. \A d \in Events : Fated(d)'
  BY <1>1, <1>2 DEF Fated
<1>7. QED
  BY <1>3, <1>4, <1>5, <1>6

\* enqueue drops the event, queues it or starts a goroutine that sends it.
LEMMA EnqueueKeepsIInv ==
    ASSUME IInv, NEW c \in Callers,
           CheckClosed(c) \/ TryQueue(c) \/ TryFallback(c)
    PROVE  IInv'
<1> USE DEF IInv
<1> DEFINE e == call[c].event
<1>1. Pending(c) /\ call[c].pc \in {"check", "queue", "fallback"}
      /\ (\A k \in Closers : closer[k] # "locked")
      /\ (call[c].pc \in {"queue", "fallback"} => ~closed)
  BY DEF CheckClosed, TryQueue, TryFallback, Pending, Locks
<1>2. /\ e \in Events /\ e \notin ToSet(mqQueue) /\ ~(e > issued)
      /\ fate[e] = "none" /\ sends[e] = 0
  BY <1>1, PendingEvent
<1> HIDE DEF e
<1>3. CASE call[c].pc = "check" /\ ~closed
  <2>1. /\ call' = [call EXCEPT ![c].pc = "queue"]
        /\ UNCHANGED <<issued, queueVars, worker, fallback, closer, fate, sends>>
    BY <1>3 DEF CheckClosed, TryQueue, TryFallback
  <2>2. QED
    BY <1>1, <1>3, <2>1, MovesOn
<1>4. CASE call[c].pc = "check" /\ closed
  <2>1. /\ Leave(c, "dropped")
        /\ UNCHANGED <<issued, queueVars, worker, fallback, closer, sends>>
    BY <1>4 DEF CheckClosed, TryQueue, TryFallback
  <2>2. QED
    BY <1>1, <1>2, <2>1, DropKeepsIInv
<1>5. CASE call[c].pc = "queue" /\ ~(Len(mqQueue) < QueueCap)
  <2>1. /\ call' = [call EXCEPT ![c].pc = "fallback"]
        /\ UNCHANGED <<issued, queueVars, worker, fallback, closer, fate, sends>>
    BY <1>5 DEF CheckClosed, TryQueue, TryFallback, queueVars
  <2>2. QED
    BY <1>1, <1>5, <2>1, MovesOn
<1>6. CASE call[c].pc = "queue" /\ Len(mqQueue) < QueueCap
  <2>1. /\ Leave(c, "queued") /\ mqQueue' = Append(mqQueue, e)
        /\ UNCHANGED <<issued, closed, chClosed, worker, fallback, closer, sends>>
    BY <1>1, <1>6 DEF CheckClosed, TryQueue, TryFallback, Types, e
  <2>2. /\ mqQueue' \in Seq(Events)
        /\ ToSet(mqQueue') = ToSet(mqQueue) \cup {e}
        /\ IsInjective(mqQueue')
    BY <1>2, <2>1, PutLast DEF Types
  <2>3. /\ fate' \in [Events -> Fate] /\ fate'[e] = "queued"
        /\ \A d \in Events \ {e} : fate'[d] = fate[d]
    BY <1>1, <2>1, LeaveEffect DEF Fate, e
  <2>4. Types'
    BY <1>1, <2>1, <2>2, <2>3, LeaveEffect DEF Types, Fate
  <2>5. Locks' /\ Calls'
    BY <1>1, <2>1, LeaveKeeps DEF Fate
  <2>6. Ends'
    BY <1>1, <1>6, <2>1 DEF Ends, AllDone
  <2>7. \A d \in Events : Fated(d)'
    BY <1>2, <2>1, <2>2, <2>3 DEF Fated
  <2>8. QED
    BY <2>2, <2>4, <2>5, <2>6, <2>7
<1>7. CASE call[c].pc = "fallback" /\ ~(Cardinality(fallback) < SemCap)
  <2>1. /\ Leave(c, "dropped")
        /\ UNCHANGED <<issued, queueVars, worker, fallback, closer, sends>>
    BY <1>7 DEF CheckClosed, TryQueue, TryFallback
  <2>2. QED
    BY <1>1, <2>1, DropKeepsIInv
<1>8. CASE call[c].pc = "fallback" /\ Cardinality(fallback) < SemCap
  <2>1. /\ Leave(c, "fallback") /\ sends' = [sends EXCEPT ![e] = sends[e] + 1]
        /\ UNCHANGED <<issued, closed, chClosed, mqQueue, worker, closer>>
    BY <1>8 DEF CheckClosed, TryQueue, TryFallback, StartSend, queueVars, e
  <2>2. sends' \in [Events -> Nat] /\ sends'[e] = 1
        /\ \A d \in Events \ {e} : sends'[d] = sends[d]
    BY <1>2, <2>1 DEF Types
  <2>3. /\ fate' \in [Events -> Fate] /\ fate'[e] = "fallback"
        /\ \A d \in Events \ {e} : fate'[d] = fate[d]
    BY <1>1, <2>1, LeaveEffect DEF Fate, e
  <2>4. Types'
    BY <1>1, <2>1, <2>2, <2>3, LeaveEffect DEF Types, Fate
  <2>5. Locks' /\ Calls'
    BY <1>1, <2>1, LeaveKeeps DEF Fate
  <2>6. Ends'
    BY <1>1, <1>8, <2>1 DEF Ends, AllDone
  <2>7. \A d \in Events : Fated(d)'
    BY <1>2, <2>1, <2>2, <2>3 DEF Fated
  <2>8. QED
    BY <2>1, <2>4, <2>5, <2>6, <2>7
<1>9. QED
  BY <1>1, <1>3, <1>4, <1>5, <1>6, <1>7, <1>8 DEF Types

\* The worker takes the first event of the queue and sends it.
LEMMA ReceiveKeepsIInv ==
    ASSUME IInv, WorkerReceive
    PROVE  IInv'
<1> USE DEF IInv
<1> DEFINE e == Head(mqQueue)
<1>1. /\ mqQueue # <<>> /\ mqQueue' = Tail(mqQueue) /\ worker.pc = "receive"
      /\ worker' = [pc |-> "sending", event |-> e]
      /\ sends' = [sends EXCEPT ![e] = sends[e] + 1]
      /\ UNCHANGED <<call, issued, closed, chClosed, fallback, closer, fate>>
  BY DEF WorkerReceive, StartSend
<1>2. /\ mqQueue' \in Seq(Events) /\ e \in Events /\ IsInjective(mqQueue')
      /\ e \notin ToSet(mqQueue') /\ ToSet(mqQueue) = ToSet(mqQueue') \cup {e}
  BY <1>1, TakeFirst DEF Types
<1> HIDE DEF e
<1>3. fate[e] = "queued" /\ sends[e] = 0
  BY <1>2 DEF Fated
<1>4. sends' \in [Events -> Nat] /\ sends'[e] = 1 /\ \A d \in Events \ {e} : sends'[d] = sends[d]
  BY <1>1, <1>2, <1>3 DEF Types
<1>5. Types' /\ Locks' /\ Ends'
  BY <1>1, <1>2, <1>4 DEF Types, Locks, Ends, AllDone
<1>6. Calls'
  BY <1>1 DEF Calls, Pending
<1>7. \A d \in Events : Fated(d)'
  BY <1>1, <1>2, <1>3, <1>4 DEF Fated
<1>8. QED
  BY <1>2, <1>5, <1>6, <1>7

\* The end of a call, of a send and of the worker, and the steps of Close.
LEMMA OthersKeepIInv ==
    ASSUME IInv,
           \/ \E c \in Callers : PublishLocal(c)
           \/ \E e \in Events : FallbackReturn(e)
           \/ WorkerReturn \/ WorkerExit
           \/ \E k \in Closers : Close(k) \/ CloseStep(k)
    PROVE  IInv'
<1> USE DEF IInv, queueVars
<1>1. CASE \E c \in Callers : PublishLocal(c)
  <2> PICK c \in Callers : PublishLocal(c)
    BY <1>1
  <2>1. /\ call' = [call EXCEPT ![c] = NoCall]
        /\ UNCHANGED <<issued, queueVars, worker, fallback, closer, fate, sends>>
    BY DEF PublishLocal
  <2>2. NoCall \in [pc : {"idle", "rlock", "check", "queue", "fallback", "local"},
                    event : Events \cup {NoEvent}, local : BOOLEAN] /\ NoCall.pc = "idle"
    BY DEF NoCall
  <2>3. Types' /\ call'[c].pc = "idle" /\ \A d \in Callers \ {c} : call'[d] = call[d]
    BY <2>1, <2>2 DEF Types
  <2>4. Locks' /\ Ends'
    BY <2>1, <2>3 DEF Locks, Ends, AllDone
  <2>5. \A d \in Callers : Pending(d)' => Pending(d) /\ call'[d] = call[d]
    BY <2>3 DEF Pending
  <2>6. Calls' /\ \A e \in Events : Fated(e)'
    BY <2>1, <2>5 DEF Calls, Fated
  <2>7. QED
    BY <2>1, <2>3, <2>4, <2>6
<1>2. CASE (\E e \in Events : FallbackReturn(e)) \/ WorkerReturn \/ WorkerExit
  <2>1. UNCHANGED <<call, issued, queueVars, closer, fate, sends>>
    BY <1>2 DEF FallbackReturn, WorkerReturn, WorkerExit
  <2>2. Ends'
    BY <1>2, <2>1 DEF FallbackReturn, WorkerReturn, WorkerExit, Ends, AllDone, Types
  <2>3. QED
    BY <2>1, <2>2 DEF Types, Locks, Calls, Pending, Fated
<1>3. CASE \E k \in Closers : Close(k) \/ CloseStep(k)
  <2> PICK k \in Closers : Close(k) \/ CloseStep(k)
    BY <1>3
  <2>1. UNCHANGED <<call, issued, mqQueue, worker, fallback, fate, sends>>
    BY DEF Close, CloseStep, CloseLock, CloseQueue, CloseWait, CloseOnce
  <2>2. Calls' /\ \A e \in Events : Fated(e)'
    BY <2>1 DEF Calls, Pending, Fated
  <2>3. CASE CloseQueue(k)
    <3>1. closer[k] = "locked" /\ closed' = TRUE /\ chClosed' = TRUE
          /\ closer' = [closer EXCEPT ![k] = "waiting"]
      BY <2>3 DEF CloseQueue
    <3>2. Types' /\ Locks' /\ Ends'
      BY <2>1, <3>1 DEF Types, Locks, Ends, AllDone
    <3>3. QED
      BY <2>1, <2>2, <3>2
  <2>4. CASE CloseWait(k) \/ CloseOnce(k)
    <3>1. UNCHANGED <<closed, chClosed>> /\ closer' = [closer EXCEPT ![k] = "returned"] /\ AllDone
      BY <2>4 DEF CloseWait, CloseOnce, Ends
    <3>2. Types' /\ Locks' /\ Ends'
      BY <2>1, <3>1 DEF Types, Locks, Ends, AllDone
    <3>3. QED
      BY <2>1, <2>2, <3>2
  <2>5. CASE Close(k) \/ CloseLock(k)
    <3>1. UNCHANGED <<closed, chClosed>> /\ (closer'[k] = "locked" => Readers = {})
          /\ \A j \in Closers : closer'[j] \in {closer[j], "lock", "once", "locked"}
                                /\ (j # k => closer'[j] = closer[j])
      BY <2>5 DEF Close, CloseLock, Types
    <3>2. closer' \in [Closers -> {"idle", "lock", "locked", "waiting", "once", "returned"}]
      BY <2>5 DEF Close, CloseLock, Types
    <3>3. Types' /\ Locks' /\ Ends'
      BY <2>1, <3>1, <3>2 DEF Types, Locks, Ends, AllDone, Readers
    <3>4. QED
      BY <2>1, <2>2, <3>3
  <2>6. QED
    BY <2>3, <2>4, <2>5 DEF CloseStep
<1>4. QED
  BY <1>1, <1>2, <1>3

\* Every step of the publisher keeps the invariant.
LEMMA IInvStep ==
    ASSUME IInv, [Next]_vars
    PROVE  IInv'
<1>1. ASSUME NEW c \in Callers, ReadLock(c)
      PROVE  IInv'
  <2>1. \A k \in Closers : closer[k] # "locked"
    BY <1>1 DEF ReadLock, WriterPresent
  <2>2. QED
    BY <1>1, <2>1, MovesOn DEF ReadLock, Pending
<1>2. CASE UNCHANGED vars
  BY <1>2 DEF IInv, vars, queueVars, Types, Locks, Ends, AllDone, Calls, Pending, Fated
<1>3. ASSUME NEW c \in Callers, Distributed(c) \/ MQOnly(c)
      PROVE  IInv'
  BY <1>3, BeginKeepsIInv DEF Distributed, MQOnly
<1>4. QED
  BY <1>1, <1>2, <1>3, EnqueueKeepsIInv, ReceiveKeepsIInv, OthersKeepIInv
     DEF Next, CallerStep, WorkerStep

\* It is an invariant of the publisher.
LEMMA IInvHolds == Spec => []IInv
<1>1. Init => IInv
  BY IInvInit
<1>2. IInv /\ [Next]_vars => IInv'
  BY IInvStep
<1>3. QED
  BY <1>1, <1>2, PTL DEF Spec

-----------------------------------------------------------------------------
\* No Distributed or MQOnly that overlaps a Close sends into the closed queue; the
\* payload must have a type.
THEOREM PublishNeverPanics ==
    ASSUME NilEvents = {}
    PROVE  Spec => []NoPanic
<1>1. Init => NoPanic
  BY DEF Init, NoPanic
<1>2. IInv /\ NoPanic /\ [Next]_vars => NoPanic'
  <2> SUFFICES ASSUME IInv, ~crashed, [Next]_vars
               PROVE  ~crashed'
    BY DEF NoPanic
  <2>1. ASSUME NEW c \in Callers, TryQueue(c)
        PROVE  ~crashed'
    BY <2>1 DEF TryQueue, IInv, Types, Locks
  <2>2. ASSUME NEW c \in Callers, TryFallback(c) \/ CheckClosed(c)
        PROVE  ~crashed'
    BY <2>2 DEF TryFallback, CheckClosed, StartSend
  <2>3. ASSUME NEW c \in Callers,
               Distributed(c) \/ MQOnly(c) \/ ReadLock(c) \/ PublishLocal(c)
        PROVE  ~crashed'
    BY <2>3 DEF Distributed, MQOnly, Begin, ReadLock, PublishLocal
  <2>4. CASE WorkerStep \/ \E e \in Events : FallbackReturn(e)
    BY <2>4 DEF WorkerStep, WorkerReceive, StartSend, WorkerReturn, WorkerExit, FallbackReturn
  <2>5. ASSUME NEW k \in Closers, Close(k) \/ CloseStep(k)
        PROVE  ~crashed'
    BY <2>5 DEF Close, CloseStep, CloseLock, CloseQueue, CloseWait, CloseOnce
  <2>6. QED
    BY <2>1, <2>2, <2>3, <2>4, <2>5 DEF Next, CallerStep, vars
<1>3. QED
  BY <1>1, <1>2, IInvHolds, PTL DEF Spec

\* An event is given to the broker once at most, by the worker or by a fallback
\* goroutine, and never when enqueue dropped it.
THEOREM EventsAreSentOnce == Spec => []SentOnce
<1>1. IInv => SentOnce
  <2> SUFFICES ASSUME IInv, NEW e \in Events
               PROVE  sends[e] <= 1 /\ (sends[e] = 1 => fate[e] \in {"queued", "fallback"})
    BY DEF SentOnce
  <2>1. Fated(e) /\ fate[e] \in Fate
    BY DEF IInv, Types
  <2>2. QED
    BY <2>1 DEF Fated, Fate
<1>2. QED
  BY <1>1, IInvHolds, PTL

\* A Close that returns leaves no accepted event unsent and no sender behind.
THEOREM CloseDrainsTheQueue == Spec => []CloseDrains
<1>1. IInv => CloseDrains
  <2> SUFFICES ASSUME IInv, NEW k \in Closers, closer[k] = "returned"
               PROVE  AllDone /\ \A e \in Events : fate[e] \in {"queued", "fallback"} => sends[e] = 1
    BY DEF CloseDrains
  <2>1. AllDone /\ mqQueue = <<>>
    BY DEF IInv, Ends, AllDone
  <2>2. ToSet(mqQueue) = {}
    BY <2>1 DEF ToSet
  <2>3. QED
    BY <2>1, <2>2 DEF IInv, Fated
<1>2. QED
  BY <1>1, IInvHolds, PTL
=============================================================================
