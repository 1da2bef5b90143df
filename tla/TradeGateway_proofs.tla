------------------------ MODULE TradeGateway_proofs ------------------------
(***************************************************************************)
(* Theorems about TradeGateway, for any number of handlers, any set of     *)
(* requests and any configuration.                                         *)
(***************************************************************************)
EXTENDS TradeGateway, TLAPS

(* Where a handler has decided, and where it has passed the point at which *)
(* an accepted order is recorded.                                          *)
Past == {"frame", "send", "riskstate", "broadcast", "done"}
Decided == {"respond", "open"} \cup Past

(* What a handler's position in its code says of its local variables.      *)
Control(h) ==
  /\ pc[h] # "idle" => req[h] # None
  /\ pc[h] \in {"idle", "evaluate"} => code[h] = None /\ \A p \in Purposes : shot[h][p] = None
  /\ pc[h] \in Decided => code[h] # None
  /\ pc[h] = "open" => code[h] = Accepted /\ Bookable(req[h])
  /\ pc[h] \in {"riskstate", "broadcast"} => code[h] = Accepted

(* An order is recorded exactly between "open" and the end.                *)
Recorded(h) ==
  /\ h \in ledger => /\ pc[h] \in Past \cup {"cancelled"}
                     /\ code[h] = Accepted /\ Bookable(req[h])
  /\ pc[h] \in Past /\ code[h] = Accepted /\ Bookable(req[h]) => h \in ledger

(* Which snapshots a handler may have taken so far.                        *)
Taken(h) ==
  /\ pc[h] = "respond" => shot[h]["response"] = None
  /\ pc[h] \in {"respond", "open", "frame"} => shot[h]["frame"] = None
  /\ pc[h] = "send" => shot[h]["frame"] # None
  /\ pc[h] \in {"respond", "open", "frame", "send", "riskstate"} => shot[h]["stream"] = None
  /\ pc[h] = "broadcast" => shot[h]["stream"] # None

(* The frame and the broadcast of an accepted order are taken after it is  *)
(* recorded; a handler on the wire or in the feed has a request for good.  *)
Visible(h) ==
  /\ \A p \in {"frame", "stream"} :
       shot[h][p] # None /\ code[h] = Accepted /\ Bookable(req[h]) => h \in shot[h][p].seen
  /\ \A n \in DOMAIN wire : wire[n].by = h =>
       pc[h] \notin {"idle", "evaluate"} /\ (wire[n].all_gates_open => code[h] = Accepted)
  /\ \A n \in DOMAIN feed : feed[n].by = h => pc[h] \notin {"idle", "evaluate"}

IInv ==
  /\ TypeOK
  /\ \A h \in Handlers : Control(h) /\ Recorded(h) /\ Taken(h)

-----------------------------------------------------------------------------
(* Opening a position yields a map of positions again. *)
LEMMA OpenPositionType ==
  ASSUME NEW book \in Books, NEW i \in Instruments, NEW side \in Sides, NEW n \in Int
  PROVE  OpenPosition(book, i, side, n) \in Books
<1>. DEFINE entry == IF book[i] = NoPosition THEN [side |-> side, notional |-> 0] ELSE book[i]
<1>1. entry \in Position
  BY DEF Books, Position
<1>2. [side |-> entry.side, notional |-> entry.notional + n] \in Position
  BY <1>1 DEF Position
<1>. QED
  BY <1>2 DEF OpenPosition, Books

(* The variance a handler reads is one the type invariant allows. *)
LEMMA SigmaSqType ==
  ASSUME TypeOK, NEW i
  PROVE  SigmaSq(i) \in Sigmas \cup {DefaultSigma}
BY DEF TypeOK, SigmaSq

(* The decision is one of the gate codes, and never None. *)
LEMMA DecideType ==
  ASSUME NEW h \in Handlers
  PROVE  Decide(h) \in GateCodes /\ Decide(h) # None
<1>1. Decide(h) \in GateCodes
  BY DEF Decide, Evaluate, GateCodes
<1>. QED
  BY <1>1, NoneAssumption

(* The snapshot a handler takes is well formed and is not None. *)
LEMMA SnapshotType ==
  ASSUME TypeOK
  PROVE  LET s == [book |-> positions, seen |-> ledger]
         IN  s \in Snapshots /\ s # None
BY NoneAssumption DEF TypeOK, Snapshots

-----------------------------------------------------------------------------
LEMMA InitIInv == Init => IInv
<1>. SUFFICES ASSUME Init PROVE IInv
  OBVIOUS
<1>1. TypeOK
  BY NoneAssumption DEF Init, TypeOK, NewBook, Books
<1>2. \A h \in Handlers : Control(h)
  BY DEF Init, Control, Decided, Past, Purposes
<1>3. \A h \in Handlers : Recorded(h) /\ Taken(h)
  BY DEF Init, Recorded, Taken, Past
<1>. QED
  BY <1>1, <1>2, <1>3 DEF IInv

-----------------------------------------------------------------------------
(* One lemma for each action of a handler: the typed variables, then what  *)
(* its new position in the code says of it; other handlers do not move.    *)
LEMMA ReceiveIInv ==
  ASSUME IInv, NEW h \in Handlers, Receive(h)
  PROVE  IInv'
<1>1. PICK m \in Messages, t \in Clock :
         /\ req' = [req EXCEPT ![h] = m]
         /\ now' = [now EXCEPT ![h] = t]
         /\ sigma' = [sigma EXCEPT ![h] = SigmaSq(m.instrument)]
  BY DEF Receive
<1>2. TypeOK'
  BY <1>1, SigmaSqType DEF IInv, TypeOK, Receive, Goto, engine, Running
<1>3. m # None
  BY NoneAssumption, GatewayAssumption
<1>4. ASSUME NEW k \in Handlers PROVE Control(k)' /\ Recorded(k)' /\ Taken(k)'
  BY <1>1, <1>3 DEF IInv, TypeOK, Control, Recorded, Taken, Receive, Goto, Decided, Past, Bookable, Purposes
<1>. QED
  BY <1>2, <1>4 DEF IInv

LEMMA EvaluateGatesIInv ==
  ASSUME IInv, NEW h \in Handlers, EvaluateGates(h)
  PROVE  IInv'
<1>1. TypeOK'
  BY SnapshotType, DecideType
     DEF IInv, TypeOK, EvaluateGates, TakeSnapshot, Goto, engine, Running, Purposes
<1>2. ASSUME NEW k \in Handlers PROVE Control(k)' /\ Recorded(k)' /\ Taken(k)'
  BY SnapshotType, DecideType
     DEF IInv, TypeOK, Control, Recorded, Taken, Purposes, EvaluateGates, TakeSnapshot, Goto, Decided, Past, Bookable
<1>. QED
  BY <1>1, <1>2 DEF IInv

LEMMA BuildResponseIInv ==
  ASSUME IInv, NEW h \in Handlers, BuildResponse(h)
  PROVE  IInv'
<1>1. TypeOK'
  BY SnapshotType
     DEF IInv, TypeOK, BuildResponse, TakeSnapshot, Goto, ToFrame, AfterFrame,
         engine, local, Running, Ended, Purposes
<1>2. ASSUME NEW k \in Handlers PROVE Control(k)' /\ Recorded(k)' /\ Taken(k)'
  BY DEF IInv, TypeOK, Control, Recorded, Taken, BuildResponse, TakeSnapshot, Goto, ToFrame,
         AfterFrame, local, Decided, Past, Bookable
<1>. QED
  BY <1>1, <1>2 DEF IInv

LEMMA RecordPositionIInv ==
  ASSUME IInv, NEW h \in Handlers, RecordPosition(h)
  PROVE  IInv'
<1>1. /\ req[h].instrument \in Instruments
      /\ req[h].side \in Sides
      /\ req[h].notional \in Int
  <2>1. req[h] \in Requests /\ Bookable(req[h])
    BY GatewayAssumption DEF IInv, TypeOK, Control, RecordPosition
  <2>. QED
    BY <2>1 DEF Requests, Bookable
<1>2. positions' \in Books
  BY <1>1, OpenPositionType DEF IInv, TypeOK, RecordPosition
<1>3. TypeOK'
  BY <1>2 DEF IInv, TypeOK, RecordPosition, Goto, ToFrame, AfterFrame, engine, local, Running, Ended
<1>4. ASSUME NEW k \in Handlers PROVE Control(k)' /\ Recorded(k)' /\ Taken(k)'
  BY DEF IInv, TypeOK, Control, Recorded, Taken, RecordPosition, Goto, ToFrame, AfterFrame,
         local, Decided, Past, Bookable
<1>. QED
  BY <1>3, <1>4 DEF IInv

LEMMA BuildFrameIInv ==
  ASSUME IInv, NEW h \in Handlers, BuildFrame(h)
  PROVE  IInv'
<1>1. TypeOK'
  BY SnapshotType DEF IInv, TypeOK, BuildFrame, TakeSnapshot, Goto, engine, local, Running, Purposes
<1>2. ASSUME NEW k \in Handlers PROVE Control(k)' /\ Recorded(k)' /\ Taken(k)'
  BY SnapshotType
     DEF IInv, TypeOK, Control, Recorded, Taken, Purposes, BuildFrame, TakeSnapshot, Goto, local, Decided, Past, Bookable
<1>. QED
  BY <1>1, <1>2 DEF IInv

LEMMA SendFrameIInv ==
  ASSUME IInv, NEW h \in Handlers, SendFrame(h)
  PROVE  IInv'
<1>1. [by |-> h, all_gates_open |-> code[h] = Accepted, shot |-> shot[h]["frame"]] \in Frames
  BY DEF IInv, TypeOK, Taken, SendFrame, Frames, Purposes
<1>2. TypeOK'
  BY <1>1 DEF IInv, TypeOK, SendFrame, Goto, AfterFrame, engine, local, Running, Ended
<1>3. ASSUME NEW k \in Handlers PROVE Control(k)' /\ Recorded(k)' /\ Taken(k)'
  BY DEF IInv, TypeOK, Control, Recorded, Taken, SendFrame, Goto, AfterFrame, local, Decided, Past, Bookable
<1>. QED
  BY <1>2, <1>3 DEF IInv

LEMMA FailFrameIInv ==
  ASSUME IInv, NEW h \in Handlers, FailFrame(h)
  PROVE  IInv'
<1>1. TypeOK'
  BY DEF IInv, TypeOK, FailFrame, Goto, AfterFrame, engine, local, Running, Ended
<1>2. ASSUME NEW k \in Handlers PROVE Control(k)' /\ Recorded(k)' /\ Taken(k)'
  BY DEF IInv, TypeOK, Control, Recorded, Taken, FailFrame, Goto, AfterFrame, local, Decided, Past, Bookable
<1>. QED
  BY <1>1, <1>2 DEF IInv

LEMMA BuildRiskStateIInv ==
  ASSUME IInv, NEW h \in Handlers, BuildRiskState(h)
  PROVE  IInv'
<1>1. TypeOK'
  BY SnapshotType DEF IInv, TypeOK, BuildRiskState, TakeSnapshot, Goto, engine, local, Running, Purposes
<1>2. ASSUME NEW k \in Handlers PROVE Control(k)' /\ Recorded(k)' /\ Taken(k)'
  BY SnapshotType
     DEF IInv, TypeOK, Control, Recorded, Taken, Purposes, BuildRiskState, TakeSnapshot, Goto, local, Decided, Past, Bookable
<1>. QED
  BY <1>1, <1>2 DEF IInv

LEMMA BroadcastIInv ==
  ASSUME IInv, NEW h \in Handlers, Broadcast(h)
  PROVE  IInv'
<1>1. [by |-> h, shot |-> shot[h]["stream"]] \in Updates
  BY DEF IInv, TypeOK, Taken, Broadcast, Updates, Purposes
<1>2. TypeOK'
  BY <1>1 DEF IInv, TypeOK, Broadcast, Goto, engine, local, Ended
<1>3. ASSUME NEW k \in Handlers PROVE Control(k)' /\ Recorded(k)' /\ Taken(k)'
  BY DEF IInv, TypeOK, Control, Recorded, Taken, Broadcast, Goto, local, Decided, Past, Bookable
<1>. QED
  BY <1>2, <1>3 DEF IInv

LEMMA CancelIInv ==
  ASSUME IInv, NEW h \in Handlers, Cancel(h)
  PROVE  IInv'
<1>1. TypeOK'
  BY DEF IInv, TypeOK, Cancel, Goto, engine, local, Ended
<1>2. ASSUME NEW k \in Handlers PROVE Control(k)' /\ Recorded(k)' /\ Taken(k)'
  BY DEF IInv, TypeOK, Control, Recorded, Taken, Cancel, Goto, local, Awaits, Running, Decided, Past, Bookable
<1>. QED
  BY <1>1, <1>2 DEF IInv

LEMMA FeedPriceIInv ==
  ASSUME IInv, NEW i \in Priced, FeedPrice(i)
  PROVE  IInv'
<1>1. TypeOK'
  BY GatewayAssumption DEF IInv, TypeOK, FeedPrice, engine, local
<1>2. ASSUME NEW k \in Handlers PROVE Control(k)' /\ Recorded(k)' /\ Taken(k)'
  BY DEF IInv, Control, Recorded, Taken, FeedPrice, local
<1>. QED
  BY <1>1, <1>2 DEF IInv

LEMMA StutterIInv == IInv /\ UNCHANGED vars => IInv'
BY DEF IInv, TypeOK, Control, Recorded, Taken, vars, engine, local, Bookable

LEMMA NextIInv == IInv /\ [Next]_vars => IInv'
<1>. SUFFICES ASSUME IInv, [Next]_vars PROVE IInv'
  OBVIOUS
<1>1. ASSUME NEW h \in Handlers, Step(h) PROVE IInv'
  BY <1>1, EvaluateGatesIInv, BuildResponseIInv, RecordPositionIInv, BuildFrameIInv,
     SendFrameIInv, FailFrameIInv, BuildRiskStateIInv, BroadcastIInv DEF Step
<1>. QED
  BY <1>1, ReceiveIInv, FeedPriceIInv, CancelIInv, StutterIInv DEF Next

LEMMA Inductive == Spec => []IInv
BY InitIInv, NextIInv, PTL DEF Spec

(* Every variable keeps its type, in particular a recorded order always    *)
(* has an instrument and a notional, and a frame on the wire a snapshot.   *)
THEOREM TypeCorrect == Spec => []TypeOK
<1>1. IInv => TypeOK
  BY DEF IInv
<1>. QED
  BY <1>1, Inductive, PTL

(* A handler that has answered has recorded its order if and only if it    *)
(* answered ACCEPTED and the order could be recorded.                      *)
THEOREM AnswersCorrect == Spec => []AnswersMatchBooks
<1>1. IInv => AnswersMatchBooks
  BY DEF IInv, AnswersMatchBooks, Answered, Recorded, Past
<1>. QED
  BY <1>1, Inductive, PTL

-----------------------------------------------------------------------------
(* The decision names the first gate that fails, or none if none does. *)
LEMMA DecideOrder ==
  ASSUME NEW h \in Handlers
  PROVE  /\ \A g \in 1 .. 4 : Decide(h) = GateCode[g] =>
              GateFails(h)[g] /\ \A e \in 1 .. g - 1 : ~GateFails(h)[e]
         /\ Decide(h) \in {Accepted, ExecutionError} =>
              \A g \in 1 .. 4 : ~GateFails(h)[g]
<1>. DEFINE F == GateFails(h)
<1>1. /\ F[1] = SignalExpired(req[h], now[h])
      /\ F[2] = DrawdownBreached(RiskContext(h).drawdown, config)
      /\ F[3] = VarBreached(RiskContext(h).var, config)
      /\ F[4] = GarchBreached(sigma[h], config)
  BY DEF GateFails
<1>2. /\ GateCode[1] = SignalStale /\ GateCode[2] = MaxDrawdown
      /\ GateCode[3] = VarBreach   /\ GateCode[4] = GarchTooHigh
  BY DEF GateCode
<1>3. RiskContext(h).sigma = sigma[h]
  BY DEF RiskContext
<1>4. /\ Decide(h) = SignalStale => F[1]
      /\ Decide(h) = MaxDrawdown => ~F[1] /\ F[2]
      /\ Decide(h) = VarBreach => ~F[1] /\ ~F[2] /\ F[3]
      /\ Decide(h) = GarchTooHigh => ~F[1] /\ ~F[2] /\ ~F[3] /\ F[4]
      /\ Decide(h) \in {Accepted, ExecutionError} => ~F[1] /\ ~F[2] /\ ~F[3] /\ ~F[4]
  BY <1>1, <1>3 DEF Decide, Evaluate, Accepted, SignalStale, MaxDrawdown, VarBreach,
                    GarchTooHigh, ExecutionError
<1>. HIDE DEF F
<1>5. ASSUME NEW g \in 1 .. 4, Decide(h) = GateCode[g]
      PROVE  F[g] /\ \A e \in 1 .. g - 1 : ~F[e]
  <2>1. g = 1 \/ g = 2 \/ g = 3 \/ g = 4
    OBVIOUS
  <2>2. \A e \in 1 .. g - 1 : e = 1 \/ e = 2 \/ e = 3
    OBVIOUS
  <2>. QED
    BY <1>2, <1>4, <1>5, <2>1, <2>2
<1>6. ASSUME Decide(h) \in {Accepted, ExecutionError}
      PROVE  \A g \in 1 .. 4 : ~F[g]
  <2>1. \A g \in 1 .. 4 : g = 1 \/ g = 2 \/ g = 3 \/ g = 4
    OBVIOUS
  <2>. QED
    BY <1>4, <1>6, <2>1
<1>. QED
  BY <1>5, <1>6 DEF F

(* What the order of the gates says of one handler. *)
OrderOf(h) ==
  code[h] # None =>
    /\ \A g \in 1 .. 4 :
         code[h] = GateCode[g] =>
           GateFails(h)[g] /\ \A e \in 1 .. g - 1 : ~GateFails(h)[e]
    /\ code[h] \in {Accepted, ExecutionError} =>
         \A g \in 1 .. 4 : ~GateFails(h)[g]

(* It depends on nothing but the handler's own decision and the values it  *)
(* was made from.                                                          *)
LEMMA OrderKept ==
  ASSUME NEW h \in Handlers, OrderOf(h),
         config' = config, code'[h] = code[h], req'[h] = req[h],
         now'[h] = now[h], sigma'[h] = sigma[h]
  PROVE  OrderOf(h)'
<1>1. GateFails(h)' = GateFails(h)
  BY DEF GateFails, RiskContext, DrawdownBreached, VarBreached, GarchBreached, SignalExpired
<1>. QED
  BY <1>1 DEF OrderOf

LEMMA NextOrder ==
  ASSUME IInv, [Next]_vars, NEW k \in Handlers, OrderOf(k)
  PROVE  OrderOf(k)'
<1>1. ASSUME NEW h \in Handlers, Receive(h) PROVE OrderOf(k)'
  <2>1. CASE k = h
    BY <1>1, <2>1 DEF IInv, TypeOK, Control, Receive, OrderOf
  <2>2. CASE k # h
    BY <1>1, <2>2, OrderKept DEF IInv, TypeOK, Receive, engine
  <2>. QED
    BY <2>1, <2>2
<1>2. ASSUME NEW h \in Handlers, EvaluateGates(h) PROVE OrderOf(k)'
  <2>1. CASE k = h
    <3>1. code'[h] = Decide(h) /\ GateFails(h)' = GateFails(h)
      BY <1>2 DEF EvaluateGates, IInv, TypeOK, engine, GateFails, RiskContext,
                  DrawdownBreached, VarBreached, GarchBreached, SignalExpired
    <3>. QED
      BY <2>1, <3>1, DecideOrder DEF OrderOf
  <2>2. CASE k # h
    BY <1>2, <2>2, OrderKept DEF IInv, TypeOK, EvaluateGates, engine
  <2>. QED
    BY <2>1, <2>2
<1>3. CASE UNCHANGED <<engine, local>>
  BY <1>3, OrderKept DEF engine, local
<1>4. ASSUME NEW h \in Handlers, Step(h), ~EvaluateGates(h) PROVE UNCHANGED <<engine, local>>
  BY <1>4 DEF Step, BuildResponse, RecordPosition, BuildFrame, SendFrame, FailFrame,
              BuildRiskState, Broadcast
<1>. QED
  BY <1>1, <1>2, <1>3, <1>4 DEF Next, FeedPrice, Cancel, vars

(* The answer of a handler names the first gate that fails on the values   *)
(* the handler read; it is an acceptance, or a refusal of the fill model,  *)
(* only if none fails.                                                     *)
THEOREM GateOrderStrict == Spec => []StrictGateOrder
<1>1. StrictGateOrder <=> \A h \in Handlers : OrderOf(h)
  BY DEF StrictGateOrder, OrderOf
<1>2. Init => \A h \in Handlers : OrderOf(h)
  BY DEF Init, OrderOf
<1>3. IInv /\ (\A h \in Handlers : OrderOf(h)) /\ [Next]_vars
        => (\A h \in Handlers : OrderOf(h))'
  BY NextOrder
<1>. QED
  BY <1>1, <1>2, <1>3, Inductive, PTL DEF Spec

-----------------------------------------------------------------------------
(* An order only ever adds to the notional of its instrument's entry: the  *)
(* entry stays, on the side of the order that created it.                  *)
THEOREM SidesNeverChange == Spec => SidesAreFixed
<1>1. ASSUME IInv, [Next]_vars, NEW i \in Instruments, positions[i] # NoPosition
      PROVE  positions'[i] # NoPosition /\ positions'[i].side = positions[i].side
  <2>1. ASSUME NEW h \in Handlers, RecordPosition(h)
        PROVE  positions'[i] # NoPosition /\ positions'[i].side = positions[i].side
    <3>1. positions[i] \in Position
      BY <1>1 DEF IInv, TypeOK, Books
    <3>2. req[h] \in Requests /\ Bookable(req[h])
      BY <1>1, <2>1, GatewayAssumption DEF IInv, TypeOK, Control, RecordPosition
    <3>3. positions' \in Books
      BY <1>1, <2>1, <3>2, OpenPositionType DEF IInv, TypeOK, RecordPosition, Requests, Bookable
    <3>4. CASE i = req[h].instrument
      <4>1. positions'[i] = [side |-> positions[i].side,
                             notional |-> positions[i].notional + req[h].notional]
        BY <1>1, <2>1, <3>1, <3>4 DEF RecordPosition, OpenPosition, IInv, TypeOK, Books
      <4>2. positions'[i] \in Position
        BY <3>1, <3>2, <3>4, <4>1 DEF Position, Requests, Bookable
      <4>. QED
        BY <4>1, <4>2, PortfolioAssumption DEF Position, Sides, Buy, Sell
    <3>5. CASE i # req[h].instrument
      BY <1>1, <2>1, <3>5 DEF RecordPosition, OpenPosition, IInv, TypeOK, Books
    <3>. QED
      BY <3>4, <3>5
  <2>2. CASE UNCHANGED positions
    BY <1>1, <2>2
  <2>3. ASSUME NEW h \in Handlers, Step(h), ~RecordPosition(h) PROVE UNCHANGED positions
    BY <2>3 DEF Step, EvaluateGates, BuildResponse, BuildFrame, SendFrame, FailFrame,
                BuildRiskState, Broadcast
  <2>. QED
    BY <1>1, <2>1, <2>2, <2>3 DEF Next, Receive, FeedPrice, Cancel, vars
<1>2. IInv /\ [Next]_vars =>
        [\A i \in Instruments : positions[i] # NoPosition =>
           positions'[i] # NoPosition /\ positions'[i].side = positions[i].side]_vars
  BY <1>1
<1>. QED
  BY <1>2, Inductive, PTL DEF Spec, SidesAreFixed

-----------------------------------------------------------------------------
(* What the two properties of the snapshots say of one handler. *)
InOrder(h) ==
  /\ \A p \in Purposes : SeenBy(h, p) \subseteq ledger
  /\ shot[h]["response"] # None => SeenBy(h, "gates") \subseteq SeenBy(h, "response")
  /\ shot[h]["frame"] # None => SeenBy(h, "response") \subseteq SeenBy(h, "frame")
  /\ shot[h]["stream"] # None =>
       SeenBy(h, "response") \cup SeenBy(h, "frame") \subseteq SeenBy(h, "stream")

OwnOrder(h) ==
  /\ h \notin SeenBy(h, "gates") /\ h \notin SeenBy(h, "response")
  /\ \A n \in DOMAIN wire :
       wire[n].by = h /\ wire[n].all_gates_open /\ Bookable(req[h])
         => h \in wire[n].shot.seen
  /\ \A n \in DOMAIN feed :
       feed[n].by = h /\ Bookable(req[h]) => h \in feed[n].shot.seen

Ordered(h) == InOrder(h) /\ OwnOrder(h) /\ Visible(h)

(* An element of a longer sequence is an element of the shorter one, or    *)
(* the one that was appended.                                              *)
LEMMA AppendCases ==
  ASSUME NEW S, NEW s \in Seq(S), NEW e \in S, NEW n \in DOMAIN Append(s, e)
  PROVE  (n \in DOMAIN s /\ Append(s, e)[n] = s[n]) \/ Append(s, e)[n] = e
OBVIOUS

(* A step that leaves a handler's request, decision and snapshots alone,   *)
(* and the wire and the feed, keeps what is said of the handler: recorded  *)
(* orders are never taken back.                                            *)
LEMMA OrderedKept ==
  ASSUME NEW k \in Handlers, Ordered(k),
         ledger \subseteq ledger', shot'[k] = shot[k], code'[k] = code[k],
         req'[k] = req[k], wire' = wire, feed' = feed,
         pc'[k] = pc[k] \/ pc'[k] \notin {"idle", "evaluate"}
  PROVE  Ordered(k)'
<1>1. \A p \in Purposes : SeenBy(k, p)' = SeenBy(k, p)
  BY DEF SeenBy
<1>2. {"gates", "response", "frame", "stream"} \subseteq Purposes
  BY DEF Purposes
<1>3. InOrder(k)'
  BY <1>1, <1>2 DEF Ordered, InOrder
<1>4. OwnOrder(k)'
  BY <1>1, <1>2 DEF Ordered, OwnOrder, Bookable
<1>5. Visible(k)'
  BY DEF Ordered, Visible, Bookable
<1>. QED
  BY <1>3, <1>4, <1>5 DEF Ordered

(* A handler that takes a snapshot sees all that is recorded so far. *)
LEMMA SnapshotSeen ==
  ASSUME IInv, NEW h \in Handlers, NEW p \in Purposes, TakeSnapshot(h, p)
  PROVE  /\ shot'[h][p] # None /\ shot'[h][p].seen = ledger
         /\ SeenBy(h, p)' = ledger
         /\ \A q \in Purposes \ {p} : shot'[h][q] = shot[h][q] /\ SeenBy(h, q)' = SeenBy(h, q)
         /\ \A k \in Handlers \ {h} : shot'[k] = shot[k]
<1>1. shot'[h][p] = [book |-> positions, seen |-> ledger]
  BY DEF IInv, TypeOK, TakeSnapshot
<1>2. shot'[h][p] # None /\ shot'[h][p].seen = ledger
  BY <1>1, SnapshotType DEF IInv
<1>3. \A q \in Purposes \ {p} : shot'[h][q] = shot[h][q]
  BY DEF IInv, TypeOK, TakeSnapshot
<1>4. \A k \in Handlers \ {h} : shot'[k] = shot[k]
  BY DEF IInv, TypeOK, TakeSnapshot
<1>. QED
  BY <1>2, <1>3, <1>4 DEF SeenBy

LEMMA InitOrdered == Init => \A h \in Handlers : Ordered(h)
BY DEF Init, Ordered, InOrder, OwnOrder, Visible, SeenBy, Purposes

LEMMA ReceiveOrdered ==
  ASSUME IInv, NEW h \in Handlers, Receive(h), NEW k \in Handlers, Ordered(k)
  PROVE  Ordered(k)'
<1>1. CASE k # h
  BY <1>1, OrderedKept DEF IInv, TypeOK, Receive, Goto
<1>2. CASE k = h
  <2>1. pc[h] = "idle" /\ pc'[h] = "evaluate" /\ shot' = shot /\ ledger' = ledger
        /\ wire' = wire /\ feed' = feed
    BY DEF IInv, TypeOK, Receive, Goto
  <2>2. \A p \in Purposes : shot[h][p] = None
    BY <2>1 DEF IInv, Control
  <2>3. (\A n \in DOMAIN wire : wire[n].by # h) /\ (\A n \in DOMAIN feed : feed[n].by # h)
    BY <1>2, <2>1 DEF Ordered, Visible
  <2>. QED
    BY <1>2, <2>1, <2>2, <2>3 DEF Ordered, InOrder, OwnOrder, Visible, SeenBy, Purposes
<1>. QED
  BY <1>1, <1>2

LEMMA EvaluateGatesOrdered ==
  ASSUME IInv, NEW h \in Handlers, EvaluateGates(h), NEW k \in Handlers, Ordered(k)
  PROVE  Ordered(k)'
<1>1. "gates" \in Purposes
  BY DEF Purposes
<1>2. CASE k # h
  BY <1>1, <1>2, SnapshotSeen, OrderedKept DEF IInv, TypeOK, EvaluateGates, Goto
<1>3. CASE k = h
  <2>1. pc[h] = "evaluate" /\ ledger' = ledger /\ wire' = wire /\ feed' = feed
    BY DEF EvaluateGates
  <2>2. h \notin ledger
    BY <2>1 DEF IInv, Recorded, Past
  <2>3. \A p \in Purposes : shot[h][p] = None
    BY <2>1 DEF IInv, Control
  <2>4. (\A n \in DOMAIN wire : wire[n].by # h) /\ (\A n \in DOMAIN feed : feed[n].by # h)
    BY <1>3, <2>1 DEF Ordered, Visible
  <2>5. SeenBy(h, "gates")' = ledger /\ \A q \in Purposes \ {"gates"} : shot'[h][q] = None
    BY <1>1, <2>3, SnapshotSeen DEF EvaluateGates
  <2>. QED
    BY <1>3, <2>1, <2>2, <2>4, <2>5 DEF Ordered, InOrder, OwnOrder, Visible, SeenBy, Purposes
<1>. QED
  BY <1>2, <1>3

LEMMA BuildResponseOrdered ==
  ASSUME IInv, NEW h \in Handlers, BuildResponse(h), NEW k \in Handlers, Ordered(k)
  PROVE  Ordered(k)'
<1>1. "response" \in Purposes
  BY DEF Purposes
<1>2. pc[h] = "respond" /\ ledger' = ledger /\ wire' = wire /\ feed' = feed
      /\ code' = code /\ req' = req
  BY DEF BuildResponse, local
<1>3. pc'[h] \notin {"idle", "evaluate"} /\ \A j \in Handlers \ {h} : pc'[j] = pc[j]
  BY DEF IInv, TypeOK, BuildResponse, Goto, ToFrame, AfterFrame
<1>4. CASE k # h
  BY <1>1, <1>2, <1>3, <1>4, SnapshotSeen, OrderedKept DEF BuildResponse
<1>5. CASE k = h
  <2>1. h \notin ledger
    BY <1>2 DEF IInv, Recorded, Past
  <2>2. shot[h]["frame"] = None /\ shot[h]["stream"] = None
    BY <1>2 DEF IInv, Taken
  <2>3. /\ SeenBy(h, "response")' = ledger
        /\ SeenBy(h, "gates")' = SeenBy(h, "gates")
        /\ shot'[h]["frame"] = None /\ shot'[h]["stream"] = None
    BY <1>1, <2>2, SnapshotSeen DEF BuildResponse, Purposes
  <2>4. InOrder(h)'
    BY <1>2, <1>5, <2>3 DEF Ordered, InOrder, SeenBy, Purposes
  <2>5. OwnOrder(h)'
    BY <1>2, <1>5, <2>1, <2>3 DEF Ordered, OwnOrder, Bookable
  <2>6. Visible(h)'
    BY <1>2, <1>3, <1>5, <2>3 DEF Ordered, Visible, Bookable
  <2>. QED
    BY <1>5, <2>4, <2>5, <2>6 DEF Ordered
<1>. QED
  BY <1>4, <1>5

LEMMA RecordPositionOrdered ==
  ASSUME IInv, NEW h \in Handlers, RecordPosition(h), NEW k \in Handlers, Ordered(k)
  PROVE  Ordered(k)'
<1>1. pc'[k] = pc[k] \/ pc'[k] \notin {"idle", "evaluate"}
  BY DEF IInv, TypeOK, RecordPosition, Goto, ToFrame, AfterFrame
<1>. QED
  BY <1>1, OrderedKept DEF RecordPosition, local

LEMMA BuildFrameOrdered ==
  ASSUME IInv, NEW h \in Handlers, BuildFrame(h), NEW k \in Handlers, Ordered(k)
  PROVE  Ordered(k)'
<1>1. "frame" \in Purposes
  BY DEF Purposes
<1>2. pc[h] = "frame" /\ ledger' = ledger /\ wire' = wire /\ feed' = feed
      /\ code' = code /\ req' = req
  BY DEF BuildFrame, local
<1>3. pc'[h] = "send" /\ \A j \in Handlers \ {h} : pc'[j] = pc[j]
  BY DEF IInv, TypeOK, BuildFrame, Goto
<1>4. CASE k # h
  BY <1>1, <1>2, <1>3, <1>4, SnapshotSeen, OrderedKept DEF BuildFrame
<1>5. CASE k = h
  <2>1. code[h] = Accepted /\ Bookable(req[h]) => h \in ledger
    BY <1>2 DEF IInv, Recorded, Past
  <2>2. shot[h]["stream"] = None
    BY <1>2 DEF IInv, Taken
  <2>3. /\ shot'[h]["frame"] # None /\ shot'[h]["frame"].seen = ledger
        /\ \A q \in {"gates", "response", "stream"} :
             shot'[h][q] = shot[h][q] /\ SeenBy(h, q)' = SeenBy(h, q)
        /\ SeenBy(h, "frame")' = ledger
    BY <1>1, SnapshotSeen DEF BuildFrame, Purposes
  <2>4. InOrder(h)'
    BY <1>2, <1>5, <2>2, <2>3 DEF Ordered, InOrder, Purposes
  <2>5. OwnOrder(h)'
    BY <1>2, <1>5, <2>3 DEF Ordered, OwnOrder, Bookable
  <2>6. Visible(h)'
    BY <1>2, <1>3, <1>5, <2>1, <2>2, <2>3 DEF Ordered, Visible, Bookable
  <2>. QED
    BY <1>5, <2>4, <2>5, <2>6 DEF Ordered
<1>. QED
  BY <1>4, <1>5

LEMMA BuildRiskStateOrdered ==
  ASSUME IInv, NEW h \in Handlers, BuildRiskState(h), NEW k \in Handlers, Ordered(k)
  PROVE  Ordered(k)'
<1>1. "stream" \in Purposes
  BY DEF Purposes
<1>2. pc[h] = "riskstate" /\ ledger' = ledger /\ wire' = wire /\ feed' = feed
      /\ code' = code /\ req' = req
  BY DEF BuildRiskState, local
<1>3. pc'[h] = "broadcast" /\ \A j \in Handlers \ {h} : pc'[j] = pc[j]
  BY DEF IInv, TypeOK, BuildRiskState, Goto
<1>4. CASE k # h
  BY <1>1, <1>2, <1>3, <1>4, SnapshotSeen, OrderedKept DEF BuildRiskState
<1>5. CASE k = h
  <2>1. code[h] = Accepted /\ Bookable(req[h]) => h \in ledger
    BY <1>2 DEF IInv, Recorded, Past
  <2>2. /\ shot'[h]["stream"] # None /\ shot'[h]["stream"].seen = ledger
        /\ \A q \in {"gates", "response", "frame"} :
             shot'[h][q] = shot[h][q] /\ SeenBy(h, q)' = SeenBy(h, q)
        /\ SeenBy(h, "stream")' = ledger
    BY <1>1, SnapshotSeen DEF BuildRiskState, Purposes
  <2>3. InOrder(h)'
    BY <1>2, <1>5, <2>2 DEF Ordered, InOrder, Purposes
  <2>4. OwnOrder(h)'
    BY <1>2, <1>5, <2>2 DEF Ordered, OwnOrder, Bookable
  <2>5. Visible(h)'
    BY <1>2, <1>3, <1>5, <2>1, <2>2 DEF Ordered, Visible, Bookable
  <2>. QED
    BY <1>5, <2>3, <2>4, <2>5 DEF Ordered
<1>. QED
  BY <1>4, <1>5

LEMMA SendFrameOrdered ==
  ASSUME IInv, NEW h \in Handlers, SendFrame(h), Ordered(h), NEW k \in Handlers, Ordered(k)
  PROVE  Ordered(k)'
<1>. DEFINE e == [by |-> h, all_gates_open |-> code[h] = Accepted, shot |-> shot[h]["frame"]]
<1>1. pc[h] = "send" /\ wire' = Append(wire, e)
      /\ UNCHANGED <<shot, ledger, feed, code, req>>
  BY DEF SendFrame, local
<1>2. /\ pc'[h] \notin {"idle", "evaluate"} /\ \A j \in Handlers \ {h} : pc'[j] = pc[j]
  BY DEF IInv, TypeOK, SendFrame, Goto, AfterFrame
<1>3. e \in Frames /\ wire \in Seq(Frames)
  BY <1>1 DEF IInv, TypeOK, Taken, Frames, Purposes
<1>4. e.by = h /\ (e.all_gates_open <=> code[h] = Accepted) /\ e.shot = shot[h]["frame"]
  OBVIOUS
<1>5. e.all_gates_open /\ Bookable(req[h]) => h \in e.shot.seen
  <2>1. shot[h]["frame"] # None
    BY <1>1 DEF IInv, Taken
  <2>. QED
    BY <1>4, <2>1 DEF Ordered, Visible
<1>. HIDE DEF e
<1>6. \A n \in DOMAIN wire' : (n \in DOMAIN wire /\ wire'[n] = wire[n]) \/ wire'[n] = e
  BY <1>1, <1>3, AppendCases
<1>7. InOrder(k)'
  BY <1>1 DEF Ordered, InOrder, SeenBy
<1>8. OwnOrder(k)'
  <2>1. k \notin SeenBy(k, "gates")' /\ k \notin SeenBy(k, "response")'
    BY <1>1 DEF Ordered, OwnOrder, SeenBy
  <2>2. ASSUME NEW n \in DOMAIN wire', wire'[n].by = k, wire'[n].all_gates_open, Bookable(req[k])
        PROVE  k \in wire'[n].shot.seen
    BY <1>4, <1>5, <1>6, <2>2 DEF Ordered, OwnOrder
  <2>. QED
    BY <1>1, <2>1, <2>2 DEF Ordered, OwnOrder, Bookable
<1>9. Visible(k)'
  <2>1. ASSUME NEW n \in DOMAIN wire', wire'[n].by = k
        PROVE  pc'[k] \notin {"idle", "evaluate"} /\ (wire'[n].all_gates_open => code[k] = Accepted)
    BY <1>2, <1>4, <1>6, <2>1 DEF Ordered, Visible
  <2>. QED
    BY <1>1, <1>2, <2>1 DEF Ordered, Visible, Bookable
<1>. QED
  BY <1>7, <1>8, <1>9 DEF Ordered

LEMMA BroadcastOrdered ==
  ASSUME IInv, NEW h \in Handlers, Broadcast(h), Ordered(h), NEW k \in Handlers, Ordered(k)
  PROVE  Ordered(k)'
<1>. DEFINE e == [by |-> h, shot |-> shot[h]["stream"]]
<1>1. pc[h] = "broadcast" /\ feed' = Append(feed, e)
      /\ UNCHANGED <<shot, ledger, wire, code, req>>
  BY DEF Broadcast, local
<1>2. /\ pc'[h] \notin {"idle", "evaluate"} /\ \A j \in Handlers \ {h} : pc'[j] = pc[j]
  BY DEF IInv, TypeOK, Broadcast, Goto
<1>3. e \in Updates /\ feed \in Seq(Updates)
  BY <1>1 DEF IInv, TypeOK, Taken, Updates, Purposes
<1>4. e.by = h /\ e.shot = shot[h]["stream"]
  OBVIOUS
<1>5. Bookable(req[h]) => h \in e.shot.seen
  <2>1. shot[h]["stream"] # None /\ code[h] = Accepted
    BY <1>1 DEF IInv, Taken, Control
  <2>. QED
    BY <1>4, <2>1 DEF Ordered, Visible
<1>. HIDE DEF e
<1>6. \A n \in DOMAIN feed' : (n \in DOMAIN feed /\ feed'[n] = feed[n]) \/ feed'[n] = e
  BY <1>1, <1>3, AppendCases
<1>7. InOrder(k)'
  BY <1>1 DEF Ordered, InOrder, SeenBy
<1>8. OwnOrder(k)'
  <2>1. k \notin SeenBy(k, "gates")' /\ k \notin SeenBy(k, "response")'
    BY <1>1 DEF Ordered, OwnOrder, SeenBy
  <2>2. ASSUME NEW n \in DOMAIN feed', feed'[n].by = k, Bookable(req[k])
        PROVE  k \in feed'[n].shot.seen
    BY <1>4, <1>5, <1>6, <2>2 DEF Ordered, OwnOrder
  <2>. QED
    BY <1>1, <2>1, <2>2 DEF Ordered, OwnOrder, Bookable
<1>9. Visible(k)'
  <2>1. ASSUME NEW n \in DOMAIN feed', feed'[n].by = k
        PROVE  pc'[k] \notin {"idle", "evaluate"}
    BY <1>2, <1>4, <1>6, <2>1 DEF Ordered, Visible
  <2>. QED
    BY <1>1, <1>2, <2>1 DEF Ordered, Visible, Bookable
<1>. QED
  BY <1>7, <1>8, <1>9 DEF Ordered

LEMMA NextOrdered ==
  ASSUME IInv, [Next]_vars, \A h \in Handlers : Ordered(h), NEW k \in Handlers
  PROVE  Ordered(k)'
<1>1. ASSUME NEW h \in Handlers, FailFrame(h) \/ Cancel(h) PROVE Ordered(k)'
  <2>1. pc'[k] = pc[k] \/ pc'[k] \notin {"idle", "evaluate"}
    BY <1>1 DEF IInv, TypeOK, FailFrame, Cancel, Goto, AfterFrame
  <2>. QED
    BY <1>1, <2>1, OrderedKept DEF FailFrame, Cancel, local
<1>2. ASSUME NEW i \in Priced, FeedPrice(i) PROVE Ordered(k)'
  BY <1>2, OrderedKept DEF FeedPrice, local
<1>3. CASE UNCHANGED vars
  BY <1>3, OrderedKept DEF vars, local
<1>4. ASSUME NEW h \in Handlers, Step(h) PROVE Ordered(k)'
  BY <1>1, <1>4, EvaluateGatesOrdered, BuildResponseOrdered, RecordPositionOrdered,
     BuildFrameOrdered, SendFrameOrdered, BuildRiskStateOrdered, BroadcastOrdered DEF Step
<1>. QED
  BY <1>1, <1>2, <1>3, <1>4, ReceiveOrdered DEF Next

LEMMA AlwaysOrdered == Spec => [](\A h \in Handlers : Ordered(h))
<1>1. IInv /\ (\A h \in Handlers : Ordered(h)) /\ [Next]_vars => (\A h \in Handlers : Ordered(h))'
  BY NextOrdered
<1>. QED
  BY InitOrdered, <1>1, Inductive, PTL DEF Spec

(* What a request is told never goes back in time: its response, its frame *)
(* and its broadcast see ever more of the recorded orders.                 *)
THEOREM SnapshotsNeverGoBack == Spec => []SnapshotsInOrder
<1>1. (\A h \in Handlers : Ordered(h)) => SnapshotsInOrder
  BY DEF Ordered, InOrder, SnapshotsInOrder
<1>. QED
  BY <1>1, AlwaysOrdered, PTL

(* An order is absent from its own response, and present in the frame and  *)
(* in the broadcast that announce it.                                      *)
THEOREM OwnOrderSeen == Spec => []OwnOrderVisibility
<1>1. (\A h \in Handlers : Ordered(h)) => OwnOrderVisibility
  BY DEF Ordered, OwnOrder, OwnOrderVisibility
<1>. QED
  BY <1>1, AlwaysOrdered, PTL

=============================================================================
