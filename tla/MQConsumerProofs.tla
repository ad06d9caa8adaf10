-------------------------- MODULE MQConsumerProofs ---------------------------
(***************************************************************************)
(* For every number of consumers, messages and retries: no delivery is     *)
(* settled twice or without a cause, what a consumer handles over an open  *)
(* channel is held for it by the broker, a stopped consumer has given back *)
(* what it had, and the consumers implement WorkQueue.                     *)
(***************************************************************************)
EXTENDS MQConsumer, ReceiveLoopProofs

\* What a consumer does with a delivery is a step of handle.
LEMMA ConsumerHandles ==
    ASSUME Types, NEW r \in Receivers,
           HandlerReturns(r) \/ Committed(r) \/ BackoffOver(r) \/ BackoffCancelled(r)
    PROVE  HandleStep(r)
<1> USE DEF Busy, Done
<1>1. ASSUME Handled(r)
      PROVE  Goes(r, "select", NoMessage)
  <2>1. NoDelivery = [NoDelivery EXCEPT !.pc = "select"]
    BY DEF NoDelivery
  <2>2. QED
    BY <1>1, <2>1, HandledGoes DEF Handled
<1>2. CASE HandlerOk(r)
  <2>1. Goes(r, "committing", loop[r].msg)
    BY <1>2, LoopGoes DEF HandlerOk, Types
  <2>2. MovesOn(r, "committing")
    BY <1>2, <2>1 DEF HandlerOk, MovesOn
  <2>3. QED
    BY <2>2 DEF HandleStep
<1>3. CASE HandlerFailed(r)
  <2>1. Goes(r, "backoff", loop[r].msg)
    BY <1>3, LoopGoes DEF HandlerFailed, Types
  <2>2. MovesOn(r, "backoff")
    BY <1>3, <2>1 DEF HandlerFailed, MovesOn
  <2>3. QED
    BY <2>2 DEF HandleStep
<1>4. CASE BackoffOver(r)
  <2>1. Goes(r, "handling", loop[r].msg)
    BY <1>4 DEF BackoffOver, Goes, Types, LoopStates
  <2>2. MovesOn(r, "handling")
    BY <1>4, <2>1 DEF BackoffOver, MovesOn
  <2>3. QED
    BY <2>2 DEF HandleStep
<1>5. CASE Committed(r) \/ HandlerDropped(r)
  <2>1. SettlesHand(r, "ack", "select")
    BY <1>1, <1>5 DEF Committed, HandlerDropped, Ack, SettlesHand
  <2>2. QED
    BY <2>1 DEF HandleStep
<1>6. CASE HandlerCancelled(r) \/ BackoffCancelled(r)
  <2>1. SettlesHand(r, "requeue", "select")
    BY <1>1, <1>6 DEF HandlerCancelled, BackoffCancelled, Nack, SettlesHand
  <2>2. QED
    BY <2>1 DEF HandleStep
<1>7. CASE HandlerRejected(r)
  <2>1. SettlesHand(r, "reject", "select")
    BY <1>1, <1>7 DEF HandlerRejected, Nack, SettlesHand
  <2>2. QED
    BY <2>1 DEF HandleStep
<1>8. QED
  BY <1>2, <1>3, <1>4, <1>5, <1>6, <1>7 DEF HandlerReturns

\* Every step keeps the invariant and is a step of WorkQueue, or none.
LEMMA StepKeepsInv ==
    ASSUME Inv, [Next]_vars
    PROVE  Inv' /\ QueueStep
<1>1. CASE UNCHANGED vars
  BY <1>1, StutterKeepsInv DEF vars
<1>2. ASSUME NEW r \in Receivers,
             HandlerReturns(r) \/ Committed(r) \/ BackoffOver(r) \/ BackoffCancelled(r)
      PROVE  Inv' /\ QueueStep
  BY <1>2, ConsumerHandles, HandleKeepsInv DEF Inv, Custody
<1>3. ASSUME NEW r \in Receivers,
             StartOrStop(r) \/ SelectStep(r) \/ FwdStep(r) \/ PushStep(r) \/ LinkBreaks(r)
      PROVE  Inv' /\ QueueStep
  BY <1>3, LoopKeepsInv
<1>4. QED
  BY <1>1, <1>2, <1>3 DEF Next, LoopStep

\* Inv is an invariant of the consumers.
LEMMA InvHolds == SafetySpec => []Inv
<1>1. Init => Inv
  BY InitInv DEF Init
<1>2. Inv /\ [Next]_vars => Inv'
  BY StepKeepsInv
<1>3. QED
  BY <1>1, <1>2, PTL DEF SafetySpec

-----------------------------------------------------------------------------
\* No delivery is acknowledged or rejected by a consumer that no longer holds it
\* (handle and the forwarding goroutine settle each exactly once).
THEOREM ConsumersSettleOnce == Spec => []SettledOnce
<1>1. Inv => SettledOnce
  BY DEF Inv, Custody
<1>2. QED
  BY <1>1, InvHolds, PTL DEF Spec

\* What a consumer handles while its connection holds is with it at the broker,
\* through retries, hooks and backoffs (handle settles it last): nobody else is
\* given it until it is settled, the connection breaks or the process crashes.
\* After that a handler may run on beside the consumer the message went to next.
THEOREM HandlersHoldTheirMessage == Spec => []InHandIsHeld
<1>1. Inv => InHandIsHeld
  BY CustodyIsHeld DEF Inv
<1>2. QED
  BY <1>1, InvHolds, PTL DEF Spec

\* When Stop returns, what the consumer had prefetched is back in the queue.
THEOREM StoppedConsumersGiveBack == Spec => []StopGivesBack
<1>1. Inv => StopGivesBack
  BY CustodyGivesBack DEF Inv
<1>2. QED
  BY <1>1, InvHolds, PTL DEF Spec

\* A message whose handler succeeded is acknowledged when its hooks have run.
THEOREM HandledIsAcknowledged == Spec => CommittedIsAcked
<1> DEFINE Commits == \A r \in Receivers :
                 loop[r].pc = "committing" /\ link[r] = "open" /\ loop'[r].pc = "select"
                     => loop[r].msg \in acked'
<1>1. ASSUME Inv, [Next]_vars
      PROVE  [Commits]_vars
  <2> SUFFICES ASSUME NEW r \in Receivers, loop[r].pc = "committing", link[r] = "open",
                      loop'[r].pc = "select"
               PROVE  loop[r].msg \in acked'
    BY DEF Commits
  <2>1. loop[r].msg \in held[r]
    BY <1>1, HandIsMessage DEF Inv, Custody, OnItsWay, Busy
  <2>2. PICK q \in Receivers : StartOrStop(q) \/ LoopStep(q) \/ FwdStep(q) \/ PushStep(q) \/ LinkBreaks(q)
    BY <1>1 DEF Next, vars, loopVars
  <2>3. loop \in LoopStates /\ loop'[r] # loop[r]
    BY <1>1 DEF Inv, Custody, Types
  <2>4. ~StartOrStop(q)
    BY <2>3 DEF LoopStates, StartOrStop, Start, Stop, StopReturn, ParentCancelled, Crash, NoDelivery
  <2>5. ~SelectStep(q)
    BY <2>3 DEF LoopStates, SelectStep, Subscribed, SubscribeFailed, Receive, LoopExit, LoopEnds
  <2>6. ~(FwdStep(q) \/ PushStep(q) \/ LinkBreaks(q))
    BY <2>3 DEF FwdStep, PushStep, LinkBreaks
  <2>7. ~(HandlerReturns(q) \/ BackoffOver(q) \/ BackoffCancelled(q))
    BY <2>3 DEF LoopStates, HandlerReturns, HandlerOk, HandlerCancelled, HandlerDropped,
       HandlerRejected, HandlerFailed, Handled, BackoffOver, BackoffCancelled
  <2>8. Committed(r)
    BY <2>2, <2>3, <2>4, <2>5, <2>6, <2>7 DEF LoopStates, LoopStep, Committed, Handled
  <2>9. QED
    BY <2>1, <2>8 DEF Committed, Ack, Settle
<1>2. QED
  BY <1>1, InvHolds, PTL DEF Spec, SafetySpec, CommittedIsAcked

\* The consumers implement WorkQueue: a message is acknowledged by the one that has
\* it and only after its handler succeeded or the classifier dropped it.
THEOREM ConsumersImplementWorkQueue == Spec => ImplementsWorkQueue
<1>1. Init => Queue!Init
  BY InitIsQueueInit DEF Init
<1>2. Inv /\ [Next]_vars => [Queue!Next]_(Queue!vars)
  BY StepKeepsInv DEF QueueStep
<1>3. QED
  BY <1>1, <1>2, InvHolds, PTL DEF Spec, SafetySpec, ImplementsWorkQueue, Queue!Spec

\* Nothing is acknowledged that no consumer has handled or dropped, nothing is dead that
\* none has refused.
THEOREM ConsumersSettleForCause == Spec => []SettledForCause
BY ConsumersImplementWorkQueue, QueueHasCause, PTL DEF ImplementsWorkQueue, SettledForCause
=============================================================================
