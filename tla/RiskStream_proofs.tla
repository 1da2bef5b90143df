-------------------------- MODULE RiskStream_proofs -------------------------
(***************************************************************************)
(* Proofs about RiskStream, for any number of subscribers and of trades    *)
(* and for every capacity of the channel.                                  *)
(***************************************************************************)
EXTENDS RiskStream, SequenceTheorems, TLAPS

IInv == TypeOK /\ TaskOutlivesStream

(* A send keeps the queues within the capacity. *)
LEMMA SendKeepsTypes ==
  ASSUME TypeOK, NEW message \in Nat, Send(message)
  PROVE  /\ queue' \in [Calls -> Seq(Nat)]
         /\ \A c \in Calls : Len(queue'[c]) <= Capacity
         /\ lagged' \in SUBSET receivers
<1>1. ASSUME NEW c \in Calls
      PROVE  /\ Offer(c, message) \in Seq(Nat)
             /\ Len(Offer(c, message)) <= Capacity
  <2>1. queue[c] \in Seq(Nat) /\ Len(queue[c]) <= Capacity /\ Len(queue[c]) \in Nat
    BY DEF TypeOK
  <2>2. CASE Full(c)
    <3>1. queue[c] # <<>>
      BY <2>1, <2>2, StreamAssumption DEF Full
    <3>2. Tail(queue[c]) \in Seq(Nat) /\ Len(Tail(queue[c])) = Capacity - 1
      BY <2>1, <2>2, <3>1 DEF Full
    <3>3. Offer(c, message) = Append(Tail(queue[c]), message)
      BY <2>2 DEF Offer
    <3> QED
      BY <3>2, <3>3, StreamAssumption
  <2>3. CASE ~Full(c)
    <3>1. Offer(c, message) = Append(queue[c], message)
      BY <2>3 DEF Offer
    <3> QED
      BY <2>1, <2>3, <3>1, StreamAssumption DEF Full
  <2> QED
    BY <2>2, <2>3
<1>2. \A c \in Calls :
        queue'[c] = IF c \in receivers THEN Offer(c, message) ELSE queue[c]
  BY DEF Send
<1>3. \A c \in Calls : queue'[c] \in Seq(Nat) /\ Len(queue'[c]) <= Capacity
  BY <1>1, <1>2 DEF TypeOK
<1>4. queue' \in [Calls -> Seq(Nat)]
  BY <1>3, Zenon DEF Send
<1>5. lagged' \in SUBSET receivers
  BY DEF Send, TypeOK
<1> QED
  BY <1>3, <1>4, <1>5

LEMMA InitHolds == Init => IInv
  BY StreamAssumption DEF Init, IInv, TypeOK, TaskOutlivesStream

(* Every step of a call keeps the invariant. *)
LEMMA CallKeeps ==
  ASSUME IInv, NEW c \in Calls,
         \/ Subscribe(c) \/ Leave(c) \/ Tick(c) \/ Publish(c) \/ Stop(c)
         \/ Skip(c) \/ Deliver(c)
  PROVE  IInv'
<1> USE DEF IInv, handlerVars, channel
<1>1. CASE Subscribe(c)
  BY <1>1 DEF Subscribe, TypeOK, TaskOutlivesStream
<1>2. CASE Leave(c)
  BY <1>2, StreamAssumption DEF Leave, TypeOK, TaskOutlivesStream
<1>3. CASE Tick(c)
  BY <1>3 DEF Tick, Snapshot, TypeOK, TaskOutlivesStream
<1>4. CASE Publish(c)
  <2>1. held[c] \in Nat /\ Send(held[c])
    BY <1>4 DEF Publish, TypeOK
  <2>2. /\ queue' \in [Calls -> Seq(Nat)]
        /\ \A d \in Calls : Len(queue'[d]) <= Capacity
        /\ lagged' \in SUBSET receivers
    BY <2>1, SendKeepsTypes
  <2> QED
    BY <1>4, <2>2 DEF Publish, TypeOK, TaskOutlivesStream
<1>5. CASE Stop(c)
  <2>1. receivers = {}
    BY <1>5 DEF Stop, Stops
  <2> QED
    BY <1>5, <2>1, StreamAssumption DEF Stop, TypeOK, TaskOutlivesStream
<1>6. CASE Skip(c)
  BY <1>6 DEF Skip, TypeOK, TaskOutlivesStream
<1>7. CASE Deliver(c)
  <2>1. /\ queue[c] \in Seq(Nat) /\ queue[c] # <<>>
        /\ Len(queue[c]) <= Capacity
    BY <1>7 DEF Deliver, TypeOK
  <2>2. /\ Head(queue[c]) \in Nat
        /\ Tail(queue[c]) \in Seq(Nat)
        /\ Len(Tail(queue[c])) <= Capacity
    BY <2>1, StreamAssumption
  <2>3. /\ queue' = [queue EXCEPT ![c] = Tail(queue[c])]
        /\ last' = [last EXCEPT ![c] = Head(queue[c])]
        /\ UNCHANGED <<orders, handler, task, held, receivers, lagged>>
    BY <1>7 DEF Deliver
  <2> QED
    BY <2>2, <2>3 DEF TypeOK, TaskOutlivesStream
<1> QED
  BY <1>1, <1>2, <1>3, <1>4, <1>5, <1>6, <1>7

(* Every step of a handler keeps the invariant. *)
LEMMA HandlerKeeps ==
  ASSUME IInv, NEW h \in Handlers,
         \/ \E booked \in {0, 1} : Accept(h, booked)
         \/ BuildRiskState(h) \/ Broadcast(h) \/ Cancel(h)
  PROVE  IInv'
<1> USE DEF IInv, handlerVars, channel
<1>1. ASSUME NEW booked \in {0, 1}, Accept(h, booked) PROVE IInv'
  BY <1>1 DEF Accept, TypeOK, TaskOutlivesStream
<1>2. CASE BuildRiskState(h)
  BY <1>2, StreamAssumption DEF BuildRiskState, TypeOK, TaskOutlivesStream
<1>3. CASE Broadcast(h)
  <2>1. held[h] \in Nat /\ Send(held[h])
    BY <1>3 DEF Broadcast, TypeOK
  <2>2. /\ queue' \in [Calls -> Seq(Nat)]
        /\ \A d \in Calls : Len(queue'[d]) <= Capacity
        /\ lagged' \in SUBSET receivers
    BY <2>1, SendKeepsTypes
  <2>3. /\ held' = [held EXCEPT ![h] = None]
        /\ handler' = [handler EXCEPT ![h] = "done"]
        /\ UNCHANGED <<orders, task, receivers, last>>
    BY <1>3 DEF Broadcast
  <2>4. \A c \in Calls : held'[c] = held[c]
    BY <2>3, StreamAssumption DEF TypeOK
  <2> QED
    BY <2>2, <2>3, <2>4 DEF TypeOK, TaskOutlivesStream
<1>4. CASE Cancel(h)
  BY <1>4 DEF Cancel, TypeOK, TaskOutlivesStream
<1> QED
  BY <1>1, <1>2, <1>3, <1>4

LEMMA StepKeeps == IInv /\ [Next]_vars => IInv'
<1> SUFFICES ASSUME IInv, [Next]_vars PROVE IInv'
  OBVIOUS
<1>1. CASE Next
  BY <1>1, CallKeeps, HandlerKeeps DEF Next
<1>2. CASE UNCHANGED vars
  BY <1>2 DEF vars, handlerVars, channel, IInv, TypeOK, TaskOutlivesStream
<1> QED
  BY <1>1, <1>2

LEMMA Invariance == Spec => []IInv
  BY InitHolds, StepKeeps, PTL DEF Spec

(* The variables have their types; no queue outgrows the channel. *)
THEOREM TypeCorrect == Spec => []TypeOK
<1>1. IInv => TypeOK
  BY DEF IInv
<1> QED
  BY <1>1, Invariance, PTL

(* A stream that is open has its periodic task. *)
THEOREM OpenStreamsAreFed == Spec => []TaskOutlivesStream
<1>1. IInv => TaskOutlivesStream
  BY DEF IInv
<1> QED
  BY <1>1, Invariance, PTL
=============================================================================
