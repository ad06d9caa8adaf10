--------------------------- MODULE MQListenerProofs ---------------------------
(***************************************************************************)
(* For every number and mixture of listeners and readers, and of messages: *)
(* no delivery is settled twice or without a cause, a receiver that has    *)
(* stopped has given back what it had, and the receivers implement         *)
(* WorkQueue.                                                              *)
(***************************************************************************)
EXTENDS MQListener, ReceiveLoopProofs

\* What a listener or a reader does with a delivery is a step of handle.
LEMMA ListenerHandles ==
    ASSUME Types, NEW r \in Receivers,
           \/ Published(r) \/ PublishFailed(r) \/ Recorded(r) \/ RecordFailed(r) \/ Acked(r)
           \/ HandOver(r) \/ HandOverCancelled(r)
    PROVE  HandleStep(r)
<1> USE DEF Busy, Done
<1>1. ASSUME Handled(r)
      PROVE  Goes(r, "select", NoMessage)
  <2>1. NoDelivery = [NoDelivery EXCEPT !.pc = "select"]
    BY DEF NoDelivery
  <2>2. QED
    BY <1>1, <2>1, HandledGoes DEF Handled
<1>2. CASE Published(r) /\ kind[r] = "recording"
  <2>1. Goes(r, "recording", loop[r].msg)
    BY <1>2, LoopGoes DEF Published, Types
  <2>2. MovesOn(r, "recording")
    BY <1>2, <2>1 DEF Published, MovesOn
  <2>3. QED
    BY <2>2 DEF HandleStep
<1>3. CASE (Published(r) /\ kind[r] # "recording") \/ Recorded(r) \/ HandOver(r)
  <2>1. Goes(r, "acking", loop[r].msg)
    BY <1>3, LoopGoes DEF Published, Recorded, HandOver, Types
  <2>2. MovesOn(r, "acking")
    BY <1>3, <2>1 DEF Published, Recorded, HandOver, MovesOn
  <2>3. QED
    BY <2>2 DEF HandleStep
<1>4. CASE PublishFailed(r) \/ RecordFailed(r)
  <2>1. SettlesHand(r, "requeue", "select")
    BY <1>1, <1>4 DEF PublishFailed, RecordFailed, Nack, SettlesHand
  <2>2. QED
    BY <2>1 DEF HandleStep
<1>5. CASE HandOverCancelled(r)
  <2>1. Goes(r, "cleanup", NoMessage)
    BY <1>5, HandledGoes DEF HandOverCancelled
  <2>2. SettlesHand(r, "requeue", "cleanup")
    BY <1>5, <2>1 DEF HandOverCancelled, Nack, SettlesHand
  <2>3. QED
    BY <2>2 DEF HandleStep
<1>6. CASE Acked(r)
  <2>1. SettlesHand(r, "ack", "select")
    BY <1>1, <1>6 DEF Acked, Ack, SettlesHand
  <2>2. QED
    BY <2>1 DEF HandleStep
<1>7. QED
  BY <1>2, <1>3, <1>4, <1>5, <1>6

\* Every step keeps the invariant and is a step of WorkQueue, or none.
LEMMA StepKeepsInv ==
    ASSUME Inv, [Next]_vars
    PROVE  Inv' /\ QueueStep
<1>1. CASE UNCHANGED vars
  BY <1>1, StutterKeepsInv DEF vars
<1>2. ASSUME NEW r \in Receivers, ReceiverStep(r)
      PROVE  Inv' /\ QueueStep
  <2>1. CASE \/ Published(r) \/ PublishFailed(r) \/ Recorded(r) \/ RecordFailed(r) \/ Acked(r)
             \/ HandOver(r) \/ HandOverCancelled(r)
    BY <2>1, ListenerHandles, HandleKeepsInv DEF Inv, Custody
  <2>2. CASE StartOrStop(r) \/ SelectStep(r) \/ FwdStep(r) \/ PushStep(r) \/ LinkBreaks(r)
    BY <2>2, LoopKeepsInv
  <2>3. QED
    BY <1>2, <2>1, <2>2 DEF ReceiverStep, LoopStep, StartOrStop
<1>3. QED
  BY <1>1, <1>2 DEF Next

\* Inv is an invariant of the receivers.
LEMMA InvHolds == SafetySpec => []Inv
<1>1. Init => Inv
  BY InitInv DEF Init
<1>2. Inv /\ [Next]_vars => Inv'
  BY StepKeepsInv
<1>3. QED
  BY <1>1, <1>2, PTL DEF SafetySpec

-----------------------------------------------------------------------------
\* No delivery is acknowledged or rejected by a listener or reader that no longer
\* holds it: each way out of handle settles it once.
THEOREM ListenersSettleOnce == Spec => []SettledOnce
<1>1. Inv => SettledOnce
  BY DEF Inv, Custody
<1>2. QED
  BY <1>1, InvHolds, PTL DEF Spec

\* The receivers implement WorkQueue: a message is acknowledged by the one that has
\* it and only after it was delivered on the bus and recorded, or handed over.
THEOREM ListenersImplementWorkQueue == Spec => ImplementsWorkQueue
<1>1. Init => Queue!Init
  BY InitIsQueueInit DEF Init
<1>2. Inv /\ [Next]_vars => [Queue!Next]_(Queue!vars)
  BY StepKeepsInv DEF QueueStep
<1>3. QED
  BY <1>1, <1>2, InvHolds, PTL DEF Spec, SafetySpec, ImplementsWorkQueue, Queue!Spec

\* Nothing is acknowledged that no listener has published and recorded and no reader handed
\* over, nothing is dead that none has refused.
THEOREM ListenersSettleForCause == Spec => []SettledForCause
BY ListenersImplementWorkQueue, QueueHasCause, PTL DEF ImplementsWorkQueue, SettledForCause
=============================================================================
