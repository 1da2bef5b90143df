--------------------- MODULE TradeGatewayFrames_proofs ---------------------
(***************************************************************************)
(* The proof that TradeGateway publishes exactly one frame per answer, for *)
(* any number of handlers.                                                 *)
(***************************************************************************)
EXTENDS TradeGateway_proofs, FiniteSetTheorems

(* The places of a handler's frames on the wire. *)
Sent(h) == {n \in DOMAIN wire : wire[n].by = h}

(* Where a handler has not tried to publish yet, and where it has.         *)
Before == {"idle", "evaluate", "respond", "open", "frame", "send"}
After == {"riskstate", "broadcast", "done"}

(* A handler is on the wire at most once, or refused, and neither before   *)
(* it has tried; without a publisher it never tries.                       *)
Framed(h) ==
  /\ \A m, n \in Sent(h) : m = n
  /\ Sent(h) # {} => h \notin lost
  /\ pc[h] \in Before => Sent(h) = {} /\ h \notin lost
  /\ ~publisher => Sent(h) = {} /\ h \notin lost /\ pc[h] \notin {"frame", "send"}
  /\ publisher /\ pc[h] \in After => Sent(h) # {} \/ h \in lost
  /\ \A n \in Sent(h) : wire[n].all_gates_open <=> code[h] = Accepted

-----------------------------------------------------------------------------
(* A step that leaves the wire, the refusals and a handler's decision alone *)
(* keeps what is said of the handler, if the handler does not move past the *)
(* publication without having tried.                                       *)
LEMMA FramedKept ==
  ASSUME NEW k \in Handlers, Framed(k),
         wire' = wire, lost' = lost, publisher' = publisher,
         code'[k] = code[k] \/ pc[k] \in Before,
         pc'[k] \in Before => pc[k] \in Before,
         pc'[k] \in {"frame", "send"} => publisher \/ pc[k] \in {"frame", "send"},
         publisher /\ pc'[k] \in After => pc[k] \in After
  PROVE  Framed(k)'
<1>1. Sent(k)' = Sent(k)
  BY DEF Sent
<1>2. \A n \in Sent(k)' : wire'[n].all_gates_open <=> code'[k] = Accepted
  <2>1. CASE code'[k] = code[k]
    BY <1>1, <2>1 DEF Framed
  <2>2. CASE pc[k] \in Before
    BY <1>1, <2>2 DEF Framed
  <2>. QED
    BY <2>1, <2>2
<1>. QED
  BY <1>1, <1>2 DEF Framed

LEMMA InitFramed == Init => \A h \in Handlers : Framed(h)
BY DEF Init, Framed, Sent, Before, After

(* Every action of a handler but the two that end the publication. *)
LEMMA QuietFramed ==
  ASSUME IInv, NEW h \in Handlers, NEW k \in Handlers, Framed(k),
         \/ Receive(h) \/ EvaluateGates(h) \/ BuildResponse(h) \/ RecordPosition(h)
         \/ BuildFrame(h) \/ BuildRiskState(h) \/ Broadcast(h) \/ Cancel(h)
  PROVE  Framed(k)'
<1>1. wire' = wire /\ lost' = lost /\ publisher' = publisher
  BY DEF Receive, EvaluateGates, BuildResponse, RecordPosition, BuildFrame,
         BuildRiskState, Broadcast, Cancel, engine
<1>2. code'[k] = code[k] \/ pc[k] \in Before
  BY DEF Receive, EvaluateGates, BuildResponse, RecordPosition, BuildFrame,
         BuildRiskState, Broadcast, Cancel, local, IInv, TypeOK, Before
<1>3. pc \in [Handlers -> {"idle"} \cup Running \cup Ended]
  BY DEF IInv, TypeOK
<1>4. CASE k # h
  <2>1. pc'[k] = pc[k]
    BY <1>3, <1>4 DEF Receive, EvaluateGates, BuildResponse, RecordPosition, BuildFrame,
           BuildRiskState, Broadcast, Cancel, Goto
  <2>. QED
    BY <1>1, <1>2, <2>1, FramedKept
<1>5. CASE k = h
  <2>1. /\ pc'[h] \in Before => pc[h] \in Before
        /\ pc'[h] \in {"frame", "send"} => publisher \/ pc[h] \in {"frame", "send"}
        /\ publisher /\ pc'[h] \in After => pc[h] \in After
    <3>1. CASE Receive(h) \/ EvaluateGates(h)
      BY <1>3, <3>1 DEF Receive, EvaluateGates, Goto, Before, After
    <3>2. CASE BuildResponse(h) \/ RecordPosition(h)
      BY <1>3, <3>2 DEF BuildResponse, RecordPosition, Goto, ToFrame, AfterFrame, Before, After
    <3>3. CASE BuildFrame(h) \/ BuildRiskState(h) \/ Broadcast(h) \/ Cancel(h)
      BY <1>3, <3>3 DEF BuildFrame, BuildRiskState, Broadcast, Cancel, Goto, Before, After
    <3>. QED
      BY <3>1, <3>2, <3>3
  <2>. QED
    BY <1>1, <1>2, <1>5, <2>1, FramedKept
<1>. QED
  BY <1>4, <1>5

(* The frame is sent: the handler had none, and now has one. *)
LEMMA SendFrameFramed ==
  ASSUME IInv, NEW h \in Handlers, SendFrame(h), Framed(h),
         NEW k \in Handlers, Framed(k)
  PROVE  Framed(k)'
<1>. DEFINE e == [by |-> h, all_gates_open |-> code[h] = Accepted, shot |-> shot[h]["frame"]]
            new == Len(wire) + 1
<1>1. pc[h] = "send" /\ wire' = Append(wire, e)
      /\ UNCHANGED <<lost, code, publisher>>
  BY DEF SendFrame, local, engine
<1>2. /\ pc'[h] \in {"riskstate", "done"}
      /\ \A j \in Handlers \ {h} : pc'[j] = pc[j]
  BY DEF IInv, TypeOK, SendFrame, Goto, AfterFrame
<1>3. e \in Frames /\ wire \in Seq(Frames)
  BY <1>1 DEF IInv, TypeOK, Taken, Frames, Purposes
<1>4. e.by = h /\ (e.all_gates_open <=> code[h] = Accepted)
  OBVIOUS
<1>. HIDE DEF e
<1>5. /\ DOMAIN wire' = DOMAIN wire \cup {new}
      /\ new \notin DOMAIN wire
      /\ wire'[new] = e
      /\ \A n \in DOMAIN wire : wire'[n] = wire[n]
  BY <1>1, <1>3
<1>6. Sent(h) = {} /\ h \notin lost /\ publisher
  BY <1>1 DEF Framed, Before
<1>7. CASE k = h
  <2>1. Sent(h)' = {new}
    BY <1>4, <1>5, <1>6 DEF Sent
  <2>2. \A n \in Sent(h)' : wire'[n].all_gates_open <=> code'[h] = Accepted
    BY <1>1, <1>4, <1>5, <2>1
  <2>. QED
    BY <1>1, <1>2, <1>6, <1>7, <2>1, <2>2 DEF Framed, Before
<1>8. CASE k # h
  <2>1. Sent(k)' = Sent(k)
    BY <1>4, <1>5, <1>8 DEF Sent
  <2>2. \A n \in Sent(k)' : wire'[n].all_gates_open <=> code'[k] = Accepted
    BY <1>1, <1>5, <2>1 DEF Framed, Sent
  <2>. QED
    BY <1>1, <1>2, <1>8, <2>1, <2>2 DEF Framed
<1>. QED
  BY <1>7, <1>8

(* The frame is refused. *)
LEMMA FailFrameFramed ==
  ASSUME IInv, NEW h \in Handlers, FailFrame(h), Framed(h),
         NEW k \in Handlers, Framed(k)
  PROVE  Framed(k)'
<1>1. pc[h] = "send" /\ lost' = lost \cup {h} /\ UNCHANGED <<wire, code, publisher>>
  BY DEF FailFrame, local, engine
<1>2. /\ pc'[h] \in {"riskstate", "done"}
      /\ \A j \in Handlers \ {h} : pc'[j] = pc[j]
  BY DEF IInv, TypeOK, FailFrame, Goto, AfterFrame
<1>3. Sent(h) = {} /\ publisher
  BY <1>1 DEF Framed, Before
<1>4. \A j \in Handlers : Sent(j)' = Sent(j)
  BY <1>1 DEF Sent
<1>5. CASE k = h
  BY <1>1, <1>2, <1>3, <1>4, <1>5 DEF Framed, Before
<1>6. CASE k # h
  BY <1>1, <1>2, <1>4, <1>6 DEF Framed
<1>. QED
  BY <1>5, <1>6

LEMMA NextFramed ==
  ASSUME IInv, [Next]_vars, \A h \in Handlers : Framed(h), NEW k \in Handlers
  PROVE  Framed(k)'
<1>1. ASSUME NEW i \in Priced, FeedPrice(i) PROVE Framed(k)'
  BY <1>1, FramedKept DEF FeedPrice, local, engine
<1>2. CASE UNCHANGED vars
  BY <1>2, FramedKept DEF vars, local, engine
<1>3. ASSUME NEW h \in Handlers, Step(h) PROVE Framed(k)'
  BY <1>3, QuietFramed, SendFrameFramed, FailFrameFramed DEF Step
<1>. QED
  BY <1>1, <1>2, <1>3, QuietFramed DEF Next

LEMMA AlwaysFramed == Spec => [](\A h \in Handlers : Framed(h))
<1>1. IInv /\ (\A h \in Handlers : Framed(h)) /\ [Next]_vars => (\A h \in Handlers : Framed(h))'
  BY NextFramed
<1>. QED
  BY InitFramed, <1>1, Inductive, PTL DEF Spec

(* With a publisher exactly one attempt to publish is made for every       *)
(* answer, before the answer and with its flag; without one, none.         *)
THEOREM OneFrameEach == Spec => []OneFramePerAnswer
<1>1. ASSUME TypeOK, \A h \in Handlers : Framed(h)
      PROVE  OneFramePerAnswer
  <2>1. ASSUME NEW h \in Handlers
        PROVE  /\ Attempts(h) <= IF publisher THEN 1 ELSE 0
               /\ publisher /\ Answered(h) => Attempts(h) = 1
    <3>1. Attempts(h) = Cardinality(Sent(h)) + (IF h \in lost THEN 1 ELSE 0)
      BY DEF Attempts, Sent
    <3>2. CASE Sent(h) = {}
      <4>1. Cardinality(Sent(h)) = 0
        BY <3>2, FS_EmptySet
      <4>2. ~publisher => h \notin lost
        BY <1>1 DEF Framed
      <4>3. publisher /\ Answered(h) => h \in lost
        BY <1>1, <3>2 DEF Framed, Answered, After
      <4>. QED
        BY <3>1, <4>1, <4>2, <4>3
    <3>3. CASE Sent(h) # {}
      <4>1. PICK n : Sent(h) = {n}
        BY <1>1, <3>3 DEF Framed
      <4>2. Cardinality(Sent(h)) = 1
        BY <4>1, FS_Singleton
      <4>3. h \notin lost /\ publisher
        BY <1>1, <3>3 DEF Framed
      <4>. QED
        BY <3>1, <4>2, <4>3
    <3>. QED
      BY <3>2, <3>3
  <2>2. ASSUME NEW n \in DOMAIN wire
        PROVE  wire[n].all_gates_open <=> code[wire[n].by] = Accepted
    <3>1. wire[n].by \in Handlers
      <4>1. wire \in Seq(Frames)
        BY <1>1 DEF TypeOK
      <4>2. wire[n] \in Frames
        BY <4>1
      <4>. QED
        BY <4>2 DEF Frames
    <3>2. n \in Sent(wire[n].by)
      BY DEF Sent
    <3>. QED
      BY <1>1, <3>1, <3>2 DEF Framed
  <2>. QED
    BY <2>1, <2>2 DEF OneFramePerAnswer
<1>2. IInv => TypeOK
  BY DEF IInv
<1>. QED
  BY <1>1, <1>2, Inductive, AlwaysFramed, PTL
=============================================================================
