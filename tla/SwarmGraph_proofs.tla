-------------------------- MODULE SwarmGraph_proofs --------------------------
(***************************************************************************)
(* Proofs about SwarmGraph, for every selection and order of the analysts, *)
(* every number of rounds and every limit on the nodes.                    *)
(*                                                                         *)
(* The inductive invariant says, for each node, how many nodes have run    *)
(* before it (StepCount), which texts this attempt has written (Written),  *)
(* and how far the debates are (ResearchSoFar, RiskSoFar).                 *)
(***************************************************************************)
EXTENDS SwarmGraph, SequenceTheorems, TLAPS

N == Len(SelectedAnalysts)

(* All arguments of a history are of one attempt. *)
AllOf(history, run) == \A i \in 1..Len(history) : history[i].run = run

Deciding == RiskNodes \cup {"Q-KUKEB Executor", "END"}

StepCount ==
  /\ node = "Analyst" => steps = 2 * (turn - 1) + 2 * toolRounds
  /\ node \in {"tools", "Msg Clear"} => steps = 2 * (turn - 1) + 2 * toolRounds + 1
  /\ node \in {"Bull Researcher", "Bear Researcher"} =>
       steps = 2 * N + 2 * toolRounds + debate.count
  /\ node = "Research Manager" => steps = 2 * N + 2 * toolRounds + DebateTurns
  /\ node = "Trader" => steps = 2 * N + 2 * toolRounds + DebateTurns + 1
  /\ node \in RiskNodes => steps = 2 * N + 2 * toolRounds + DebateTurns + 2 + risk.count
  /\ node = "Q-KUKEB Executor" =>
       steps = 2 * N + 2 * toolRounds + DebateTurns + 2 + RiskTurns

Written ==
  /\ node \in Running => attempt > 0
  /\ node \in Analysing => \A i \in 1..N : i < turn => report[SelectedAnalysts[i]] = attempt
  /\ node = "Msg Clear" => report[SelectedAnalysts[turn]] = attempt
  /\ node \in (Running \ Analysing) \cup {"END"} =>
       \A i \in 1..N : report[SelectedAnalysts[i]] = attempt
  /\ node \in Deciding \cup {"Trader"} => debate.judge = attempt /\ plan = attempt
  /\ node \in Deciding => proposal = attempt
  /\ node = "END" => risk.judge = attempt /\ decision.run = attempt

ResearchSoFar ==
  /\ node \in Running \cup {"END"} =>
       /\ debate.count = Len(debate.history)
       /\ AllOf(debate.history, attempt)
  /\ node \in Analysing => debate = NoDebate
  /\ node \in {"Bull Researcher", "Bear Researcher", "Research Manager"} => debate.judge <= 0
  /\ node = "Bull Researcher" => debate.count % 2 = 0 /\ debate.count < DebateTurns
  /\ node = "Bear Researcher" => debate.count % 2 = 1 /\ debate.count < 2 * MaxDebateRounds
  /\ node \in Deciding \cup {"Research Manager", "Trader"} => debate.count = DebateTurns

RiskSoFar ==
  /\ node \in Running \cup {"END"} =>
       /\ risk.count = Len(risk.history)
       /\ AllOf(risk.history, attempt)
  /\ node \in Running \ Deciding => risk = NoRiskDebate
  /\ node \in RiskNodes => risk.judge <= 0 /\ risk.count < RiskTurns
  /\ node = "Aggressive Analyst" => risk.count % 3 = 0
  /\ node = "Conservative Analyst" => risk.count % 3 = 1
  /\ node = "Neutral Analyst" => risk.count % 3 = 2
  /\ node = "Q-KUKEB Executor" => risk.judge <= 0 /\ risk.count = RiskTurns

IInv ==
  /\ TypeOK /\ StepCount /\ Written /\ ResearchSoFar /\ RiskSoFar /\ CutOffOnlyByTools

-----------------------------------------------------------------------------
LEMMA TurnsType ==
  DebateTurns \in Nat /\ DebateTurns > 0 /\ RiskTurns \in Nat /\ RiskTurns > 0
  BY GraphAssumption DEF DebateTurns, RiskTurns

LEMMA Sizes == N \in Nat /\ N > 0 /\ MaxRecurLimit \in Nat /\ MaxRecurLimit > 0
<1>1. SelectedAnalysts \in Seq(AnalystTypes) /\ Len(SelectedAnalysts) > 0
  BY GraphAssumption
<1>2. Len(SelectedAnalysts) \in Nat
  BY <1>1, LenProperties
<1> QED
  BY <1>1, <1>2, GraphAssumption DEF N

(* The analysts are selected once each. *)
LEMMA Selection ==
  /\ \A i \in 1..N : SelectedAnalysts[i] \in AnalystTypes
  /\ \A i, j \in 1..N : SelectedAnalysts[i] = SelectedAnalysts[j] => i = j
<1>1. SelectedAnalysts \in Seq(AnalystTypes)
  BY GraphAssumption
<1>2. \A i \in 1..N : SelectedAnalysts[i] \in AnalystTypes
  BY <1>1, ElementOfSeq DEF N
<1> QED
  BY <1>2, GraphAssumption DEF N

LEMMA EmptyStates == NoDebate \in InvestDebateState /\ NoRiskDebate \in RiskDebateState
<1>1. <<>> \in Seq(Arguments({"Bull", "Bear"})) /\ <<>> \in Seq(Arguments({"Bull"}))
      /\ <<>> \in Seq(Arguments({"Bear"})) /\ <<>> \in Seq(Arguments(RiskSpeakers))
  OBVIOUS
<1>2. 0 \in Attempts
  BY GraphAssumption DEF Attempts
<1> QED
  BY <1>1, <1>2 DEF NoDebate, NoRiskDebate, InvestDebateState, RiskDebateState

LEMMA NoDecisionType == NoDecision \in Decisions
<1>1. 0 \in Attempts
  BY GraphAssumption DEF Attempts
<1>2. "none" \in Replies \cup {"none"} /\ "" \in Gates /\ FALSE \in BOOLEAN
  BY DEF Gates
<1> QED
  BY <1>1, <1>2 DEF NoDecision, Decisions

LEMMA HumanType == Human \in Messages
  BY DEF Human, Messages

LEMMA SingleType == ASSUME NEW S, NEW e \in S PROVE <<e>> \in Seq(S)
  OBVIOUS

LEMMA OneMore == ASSUME NEW n \in Nat PROVE n + 1 \in Nat
  OBVIOUS

(* What appending an argument to a history of this attempt gives. *)
LEMMA Appended ==
  ASSUME NEW S, NEW history \in Seq(S), NEW argument \in S, NEW run,
         AllOf(history, run), argument.run = run
  PROVE  /\ Append(history, argument) \in Seq(S)
         /\ Len(Append(history, argument)) = Len(history) + 1
         /\ AllOf(Append(history, argument), run)
<1>1. /\ Append(history, argument) \in Seq(S)
      /\ Len(Append(history, argument)) = Len(history) + 1
  BY AppendProperties
<1>2. ASSUME NEW i \in 1..Len(Append(history, argument))
      PROVE  Append(history, argument)[i].run = run
  <2>1. CASE i = Len(history) + 1
    BY <2>1, AppendProperties
  <2>2. CASE i # Len(history) + 1
    <3>1. i \in 1..Len(history) /\ Append(history, argument)[i] = history[i]
      BY <1>1, <1>2, <2>2, AppendProperties, LenProperties
    <3> QED
      BY <3>1 DEF AllOf
  <2> QED
    BY <2>1, <2>2
<1> QED
  BY <1>1, <1>2 DEF AllOf

LEMMA InitIInv == Init => IInv
<1> SUFFICES ASSUME Init PROVE IInv
  OBVIOUS
<1>1. TypeOK
  <2>1. node \in Running \cup Ended \cup {"idle"}
    BY DEF Init
  <2>2. turn \in 1..Len(SelectedAnalysts) /\ steps \in 0..MaxRecurLimit
    BY Sizes DEF Init, N
  <2>3. /\ attempt \in Attempts /\ plan \in Attempts /\ proposal \in Attempts
        /\ report \in [AnalystTypes -> Attempts]
    BY GraphAssumption DEF Init, Attempts
  <2>4. messages \in Seq(Messages)
    <3>1. <<>> \in Seq(Messages)
      OBVIOUS
    <3> QED
      BY <3>1 DEF Init
  <2>5. debate \in InvestDebateState /\ risk \in RiskDebateState
    BY EmptyStates DEF Init
  <2>6. decision \in Decisions
    BY NoDecisionType DEF Init
  <2> QED
    BY <2>1, <2>2, <2>3, <2>4, <2>5, <2>6 DEF TypeOK, Init
<1>2. node = "idle"
  BY DEF Init
<1> QED
  BY <1>1, <1>2 DEF IInv, StepCount, Written, ResearchSoFar, RiskSoFar, CutOffOnlyByTools,
     Running, Analysing, RiskNodes, Deciding

LEMMA InvokeIInv == IInv /\ Invoke => IInv'
<1> SUFFICES ASSUME IInv, Invoke PROVE IInv'
  OBVIOUS
<1>1. /\ node' = "Analyst" /\ turn' = 1 /\ steps' = 0 /\ toolRounds' = 0
      /\ attempt' = attempt + 1 /\ debate' = NoDebate /\ risk' = NoRiskDebate
      /\ checkpointed' = checkpointed
  BY DEF Invoke
<1>2. attempt' \in Attempts /\ attempt' > 0
  BY GraphAssumption, <1>1 DEF IInv, TypeOK, Invoke, Attempts
<1>3. messages' \in Seq(Messages)
  <2>1. messages \in Seq(Messages)
    BY DEF IInv, TypeOK
  <2>2. messages' = Append(messages, Human) \/ messages' = <<Human>>
    BY DEF Invoke
  <2>3. Append(messages, Human) \in Seq(Messages)
    BY <2>1, HumanType, AppendProperties
  <2>4. <<Human>> \in Seq(Messages)
    BY HumanType, SingleType
  <2> QED
    BY <2>2, <2>3, <2>4
<1>4. report' \in [AnalystTypes -> Attempts]
  BY GraphAssumption DEF Invoke, Attempts
<1>5. plan' \in Attempts /\ proposal' \in Attempts /\ decision' \in Decisions
  <2>1. 0 \in Attempts
    BY GraphAssumption DEF Attempts
  <2> QED
    BY <2>1, NoDecisionType DEF Invoke, IInv, TypeOK
<1>6. TypeOK'
  <2>1. node' \in Running \cup Ended \cup {"idle"}
    BY <1>1 DEF Running, Analysing
  <2>2. turn' \in 1..Len(SelectedAnalysts) /\ steps' \in 0..MaxRecurLimit
    BY <1>1, Sizes DEF N
  <2>3. debate' \in InvestDebateState /\ risk' \in RiskDebateState
    BY <1>1, EmptyStates
  <2>4. checkpointed' \in BOOLEAN /\ toolRounds' \in Nat
    BY <1>1 DEF IInv, TypeOK
  <2> QED
    BY <1>2, <1>3, <1>4, <1>5, <2>1, <2>2, <2>3, <2>4 DEF TypeOK
<1>7. StepCount' /\ CutOffOnlyByTools'
  BY <1>1 DEF StepCount, CutOffOnlyByTools, RiskNodes
<1>8. Written'
  BY <1>1, <1>2 DEF Written, Analysing, Running, Deciding, RiskNodes
<1>9. ResearchSoFar' /\ RiskSoFar'
  <2>1. /\ Len(debate'.history) = 0 /\ Len(risk'.history) = 0
        /\ debate'.count = 0 /\ risk'.count = 0
    BY <1>1 DEF NoDebate, NoRiskDebate
  <2>2. node' \notin Deciding
    BY <1>1 DEF Deciding, RiskNodes
  <2>3. ResearchSoFar'
    BY <1>1, <2>1, <2>2 DEF ResearchSoFar, AllOf
  <2>4. RiskSoFar'
    BY <1>1, <2>1, <2>2 DEF RiskSoFar, RiskNodes, AllOf
  <2> QED
    BY <2>3, <2>4
<1> QED
  BY <1>6, <1>7, <1>8, <1>9 DEF IInv

(* What every node has in common: it was running, and one more has run.    *)
LEMMA GotoFacts ==
  ASSUME IInv, NEW n \in Running, At(n), NEW next \in Running \cup Ended, Goto(next)
  PROVE  /\ node = n /\ node' = next /\ next # "idle"
         /\ steps \in Nat /\ steps' = steps + 1 /\ steps' \in 0..MaxRecurLimit
         /\ attempt \in Attempts /\ attempt \in Nat /\ attempt > 0
         /\ attempt' = attempt /\ checkpointed' = checkpointed /\ checkpointed \in BOOLEAN
<1>1. /\ node = n /\ node' = next /\ steps < MaxRecurLimit /\ steps' = steps + 1
      /\ attempt' = attempt /\ checkpointed' = checkpointed
  BY DEF At, Goto
<1>2. steps \in 0..MaxRecurLimit /\ attempt \in Attempts /\ checkpointed \in BOOLEAN
  BY DEF IInv, TypeOK
<1>3. attempt > 0
  BY <1>1 DEF IInv, Written
<1>4. attempt \in Nat /\ attempt > 0
  BY <1>2, <1>3, GraphAssumption DEF Attempts
<1>5. steps \in Nat /\ steps' \in 0..MaxRecurLimit
  BY <1>1, <1>2, Sizes
<1>6. next # "idle"
  BY DEF Running, Ended, Analysing, RiskNodes
<1> QED
  BY <1>1, <1>2, <1>4, <1>5, <1>6

LEMMA AnalystIInv ==
  ASSUME IInv, NEW type \in AnalystTypes, Analyst(type) PROVE IInv'
<1>1. PICK calls \in BOOLEAN :
        /\ messages' = Append(messages, [by |-> type, calls |-> calls])
        /\ report' = [report EXCEPT ![type] = IF calls THEN 0 ELSE attempt]
  BY DEF Analyst
<1> DEFINE message == [by |-> type, calls |-> calls]
           next == IF calls THEN "tools" ELSE "Msg Clear"
<1>2. message \in Messages
  BY DEF Messages
<1>3. messages \in Seq(Messages) /\ report \in [AnalystTypes -> Attempts] /\ turn \in 1..N
  BY DEF IInv, TypeOK, N
<1>4. messages' \in Seq(Messages) /\ messages'[Len(messages')] = message
  BY <1>1, <1>2, <1>3, AppendProperties
<1>5. ShouldContinueAnalyst(messages') = next
  BY <1>4 DEF ShouldContinueAnalyst
<1>6. At("Analyst") /\ Goto(next) /\ SelectedAnalysts[turn] = type
  BY <1>5 DEF Analyst
<1>7. "Analyst" \in Running /\ next \in Running \cup Ended
  BY DEF Running, Analysing
<1>8. /\ node = "Analyst" /\ node' = next
      /\ steps \in Nat /\ steps' = steps + 1 /\ steps' \in 0..MaxRecurLimit
      /\ attempt \in Attempts /\ attempt \in Nat /\ attempt > 0
      /\ attempt' = attempt /\ checkpointed' = checkpointed /\ checkpointed \in BOOLEAN
  BY <1>6, <1>7, GotoFacts
<1>9. /\ turn' = turn /\ debate' = debate /\ plan' = plan /\ proposal' = proposal
      /\ risk' = risk /\ decision' = decision /\ toolRounds' = toolRounds
  BY DEF Analyst
<1>10. report' \in [AnalystTypes -> Attempts]
  <2>1. 0 \in Attempts
    BY GraphAssumption DEF Attempts
  <2> QED
    BY <1>1, <1>3, <1>8, <2>1
<1>11. /\ \A i \in 1..N : i < turn => report'[SelectedAnalysts[i]] = attempt
       /\ ~calls => report'[SelectedAnalysts[turn]] = attempt
  <2>1. \A i \in 1..N : i < turn => report[SelectedAnalysts[i]] = attempt
    BY <1>8 DEF IInv, Written, Analysing
  <2>2. \A i \in 1..N : i < turn => SelectedAnalysts[i] # type /\ SelectedAnalysts[i] \in AnalystTypes
    <3> SUFFICES ASSUME NEW i \in 1..N, i < turn
                 PROVE  SelectedAnalysts[i] # type /\ SelectedAnalysts[i] \in AnalystTypes
      OBVIOUS
    <3>1. turn \in 1..N /\ i # turn
      BY <1>3, Sizes
    <3> QED
      BY <1>6, <3>1, Selection
  <2> QED
    BY <1>1, <1>3, <1>6, <2>1, <2>2
<1>12. TypeOK'
  BY <1>3, <1>4, <1>7, <1>8, <1>9, <1>10 DEF TypeOK, IInv, N
<1>13. StepCount' /\ CutOffOnlyByTools'
  BY <1>8, <1>9 DEF IInv, StepCount, CutOffOnlyByTools, RiskNodes
<1>14. Written'
  <2>1. attempt' > 0
    BY <1>8
  <2>2. \A i \in 1..N : i < turn' => report'[SelectedAnalysts[i]] = attempt'
    BY <1>8, <1>9, <1>11
  <2>3. node' = "Msg Clear" => report'[SelectedAnalysts[turn']] = attempt'
    BY <1>8, <1>9, <1>11
  <2>4. node' \in Analysing /\ node' \notin Deciding \cup {"Trader", "END"}
    BY <1>8 DEF Analysing, Deciding, RiskNodes
  <2> QED
    BY <2>1, <2>2, <2>3, <2>4 DEF Written
<1>15. debate = NoDebate /\ risk = NoRiskDebate
  BY <1>7, <1>8 DEF IInv, ResearchSoFar, RiskSoFar, Analysing, Deciding, RiskNodes
<1>16. ResearchSoFar' /\ RiskSoFar'
  BY <1>8, <1>9, <1>15 DEF IInv, ResearchSoFar, RiskSoFar, Running, Analysing, Deciding, RiskNodes
<1> QED
  BY <1>12, <1>13, <1>14, <1>16 DEF IInv

LEMMA ToolsNodeIInv == IInv /\ ToolsNode => IInv'
<1> SUFFICES ASSUME IInv, ToolsNode PROVE IInv'
  OBVIOUS
<1>1. At("tools") /\ Goto("Analyst") /\ "tools" \in Running /\ "Analyst" \in Running
  BY DEF ToolsNode, Running, Analysing
<1>2. /\ node = "tools" /\ node' = "Analyst"
      /\ steps \in Nat /\ steps' = steps + 1 /\ steps' \in 0..MaxRecurLimit
      /\ attempt \in Attempts /\ attempt \in Nat /\ attempt > 0
      /\ attempt' = attempt /\ checkpointed' = checkpointed /\ checkpointed \in BOOLEAN
  BY <1>1, GotoFacts
<1>3. /\ turn' = turn /\ report' = report /\ debate' = debate /\ plan' = plan
      /\ proposal' = proposal /\ risk' = risk /\ decision' = decision
      /\ toolRounds' = toolRounds + 1 /\ toolRounds \in Nat /\ turn \in 1..N
  BY DEF ToolsNode, IInv, TypeOK, N
<1>4. messages' \in Seq(Messages)
  <2>1. [by |-> "tool", calls |-> FALSE] \in Messages
    BY DEF Messages
  <2>2. messages \in Seq(Messages)
    BY DEF IInv, TypeOK
  <2> QED
    BY <2>1, <2>2, AppendProperties DEF ToolsNode
<1>5. TypeOK'
  BY <1>1, <1>2, <1>3, <1>4 DEF TypeOK, IInv
<1>6. StepCount' /\ CutOffOnlyByTools'
  <2>1. steps = 2 * (turn - 1) + 2 * toolRounds + 1
    BY <1>2 DEF IInv, StepCount
  <2>2. steps' = 2 * (turn' - 1) + 2 * toolRounds'
    BY <1>2, <1>3, <2>1, Sizes
  <2> QED
    BY <1>2, <2>2 DEF StepCount, CutOffOnlyByTools, RiskNodes
<1>7. Written'
  BY <1>2, <1>3 DEF IInv, Written, Deciding, RiskNodes, Analysing
<1>8. debate = NoDebate /\ risk = NoRiskDebate
  BY <1>1, <1>2 DEF IInv, ResearchSoFar, RiskSoFar, Analysing, Deciding, RiskNodes
<1>9. ResearchSoFar' /\ RiskSoFar'
  BY <1>1, <1>2, <1>3, <1>8
     DEF IInv, ResearchSoFar, RiskSoFar, Running, Analysing, Deciding, RiskNodes
<1> QED
  BY <1>5, <1>6, <1>7, <1>9 DEF IInv

LEMMA MsgClearIInv == IInv /\ MsgClear => IInv'
<1> SUFFICES ASSUME IInv, MsgClear PROVE IInv'
  OBVIOUS
<1> DEFINE next == IF IsLast THEN "Bull Researcher" ELSE "Analyst"
<1>1. /\ At("Msg Clear") /\ Goto(next) /\ "Msg Clear" \in Running
      /\ next \in Running \cup Ended
  BY DEF MsgClear, Running, Analysing
<1>2. /\ node = "Msg Clear" /\ node' = next
      /\ steps \in Nat /\ steps' = steps + 1 /\ steps' \in 0..MaxRecurLimit
      /\ attempt \in Attempts /\ attempt \in Nat /\ attempt > 0
      /\ attempt' = attempt /\ checkpointed' = checkpointed /\ checkpointed \in BOOLEAN
  BY <1>1, GotoFacts
<1>3. /\ turn' = IF IsLast THEN turn ELSE turn + 1
      /\ report' = report /\ debate' = debate /\ plan' = plan /\ proposal' = proposal
      /\ risk' = risk /\ decision' = decision /\ toolRounds' = toolRounds
      /\ toolRounds \in Nat /\ turn \in 1..N
  BY DEF MsgClear, IInv, TypeOK, N
<1>4. turn' \in 1..N /\ turn \in Int /\ (IsLast => turn = N)
  BY <1>3, Sizes DEF IsLast, N
<1>5. messages' \in Seq(Messages)
  <2>1. [by |-> "placeholder", calls |-> FALSE] \in Messages
    BY DEF Messages
  <2> QED
    BY <2>1, SingleType DEF MsgClear, Cleared
<1>6. TypeOK'
  BY <1>1, <1>2, <1>3, <1>4, <1>5 DEF TypeOK, IInv, N
<1>7. debate = NoDebate /\ risk = NoRiskDebate /\ debate.count = 0 /\ debate.judge = 0
  <2>1. debate = NoDebate /\ risk = NoRiskDebate
    BY <1>1, <1>2 DEF IInv, ResearchSoFar, RiskSoFar, Analysing, Deciding, RiskNodes
  <2> QED
    BY <2>1 DEF NoDebate
<1>8. StepCount' /\ CutOffOnlyByTools'
  <2>1. steps = 2 * (turn - 1) + 2 * toolRounds + 1
    BY <1>2 DEF IInv, StepCount
  <2>2. steps' = 2 * turn + 2 * toolRounds
    <3>1. toolRounds \in Nat /\ turn \in Int /\ steps' = steps + 1
      <4>1. toolRounds \in Nat
        BY <1>3
      <4>2. turn \in Int
        BY <1>4
      <4>3. steps' = steps + 1
        BY <1>2
      <4> QED
        BY <4>1, <4>2, <4>3
    <3> QED
      BY <2>1, <3>1
  <2>3. CASE IsLast
    <3>1. steps' = 2 * N + 2 * toolRounds' + debate'.count
      BY <1>3, <1>4, <1>7, <2>2, <2>3, Sizes
    <3> QED
      BY <1>2, <2>3, <3>1 DEF StepCount, CutOffOnlyByTools, RiskNodes
  <2>4. CASE ~IsLast
    <3>1. steps' = 2 * (turn' - 1) + 2 * toolRounds'
      BY <1>3, <2>2, <2>4, Sizes
    <3> QED
      BY <1>2, <2>4, <3>1 DEF StepCount, CutOffOnlyByTools, RiskNodes
  <2> QED
    BY <2>3, <2>4
<1>9. Written'
  <2>1. /\ \A i \in 1..N : i < turn => report[SelectedAnalysts[i]] = attempt
        /\ report[SelectedAnalysts[turn]] = attempt
    BY <1>2 DEF IInv, Written, Analysing
  <2>2. \A i \in 1..N : i < turn + 1 => report[SelectedAnalysts[i]] = attempt
    BY <1>3, <2>1, Sizes
  <2>3. CASE IsLast
    <3>1. \A i \in 1..N : report'[SelectedAnalysts[i]] = attempt'
      <4>1. \A i \in 1..N : i < turn + 1
        BY <1>4, <2>3, Sizes
      <4> QED
        BY <1>2, <1>3, <2>2, <4>1
    <3> QED
      BY <1>2, <2>3, <3>1 DEF Written, Analysing, Deciding, RiskNodes
  <2>4. CASE ~IsLast
    <3>1. \A i \in 1..N : i < turn' => report'[SelectedAnalysts[i]] = attempt'
      BY <1>2, <1>3, <2>2, <2>4
    <3> QED
      BY <1>2, <2>4, <3>1 DEF Written, Analysing, Deciding, RiskNodes
  <2> QED
    BY <2>3, <2>4
<1>10. RiskSoFar'
  BY <1>1, <1>2, <1>3, <1>7 DEF IInv, RiskSoFar, Running, Analysing, Deciding, RiskNodes
<1>11. ResearchSoFar'
  <2>1. /\ debate'.count = Len(debate'.history)
        /\ AllOf(debate'.history, attempt')
    BY <1>1, <1>2, <1>3 DEF IInv, ResearchSoFar
  <2>2. debate' = NoDebate /\ debate'.count % 2 = 0 /\ debate'.count < DebateTurns
        /\ debate'.judge <= 0
    BY <1>3, <1>7, TurnsType
  <2> QED
    BY <1>2, <2>1, <2>2 DEF ResearchSoFar, Analysing, Deciding, RiskNodes
<1> QED
  BY <1>6, <1>8, <1>9, <1>10, <1>11 DEF IInv

-----------------------------------------------------------------------------
(* A turn of the bull, and of the bear, in numbers.                        *)
LEMMA BullTurn ==
  ASSUME NEW c \in Nat, c % 2 = 0, c < DebateTurns
  PROVE  IF c + 1 >= 2 * MaxDebateRounds
         THEN c + 1 = DebateTurns
         ELSE (c + 1) % 2 = 1 /\ c + 1 < 2 * MaxDebateRounds
  BY GraphAssumption DEF DebateTurns

LEMMA BearTurn ==
  ASSUME NEW c \in Nat, c % 2 = 1, c < 2 * MaxDebateRounds
  PROVE  IF c + 1 >= 2 * MaxDebateRounds
         THEN c + 1 = DebateTurns
         ELSE (c + 1) % 2 = 0 /\ c + 1 < DebateTurns
  BY GraphAssumption DEF DebateTurns

(* An argument joins the whole history and the history of its speaker.     *)
LEMMA DebateGrows ==
  ASSUME IInv, node \in {"Bull Researcher", "Bear Researcher"}, attempt \in Attempts,
         NEW s \in {"Bull", "Bear"}
  PROVE  LET argument == [by |-> s, run |-> attempt, at |-> debate.count + 1]
         IN  /\ debate \in InvestDebateState /\ debate.count \in Nat
             /\ debate.count = Len(debate.history)
             /\ Append(debate.history, argument) \in Seq(Arguments({"Bull", "Bear"}))
             /\ Len(Append(debate.history, argument)) = debate.count + 1
             /\ AllOf(Append(debate.history, argument), attempt)
             /\ s = "Bull" => Append(debate.bull, argument) \in Seq(Arguments({"Bull"}))
             /\ s = "Bear" => Append(debate.bear, argument) \in Seq(Arguments({"Bear"}))
<1> DEFINE argument == [by |-> s, run |-> attempt, at |-> debate.count + 1]
<1>1. debate \in InvestDebateState
  BY DEF IInv, TypeOK
<1>2. /\ debate.count \in Nat /\ debate.history \in Seq(Arguments({"Bull", "Bear"}))
      /\ debate.bull \in Seq(Arguments({"Bull"})) /\ debate.bear \in Seq(Arguments({"Bear"}))
  BY <1>1 DEF InvestDebateState
<1>3. /\ debate.count = Len(debate.history)
      /\ AllOf(debate.history, attempt)
  BY DEF IInv, ResearchSoFar, Running
<1>4. /\ argument \in Arguments({"Bull", "Bear"}) /\ argument \in Arguments({s})
      /\ argument.run = attempt
  <2>1. debate.count \in Nat
    BY <1>2
  <2>2. debate.count + 1 \in Nat
    BY <2>1, OneMore
  <2> QED
    BY <2>2 DEF Arguments
<1> HIDE DEF argument
<1>5. /\ Append(debate.history, argument) \in Seq(Arguments({"Bull", "Bear"}))
      /\ Len(Append(debate.history, argument)) = Len(debate.history) + 1
      /\ AllOf(Append(debate.history, argument), attempt)
  <2>1. debate.history \in Seq(Arguments({"Bull", "Bear"}))
    BY <1>2
  <2>2. AllOf(debate.history, attempt)
    BY <1>3
  <2>3. argument \in Arguments({"Bull", "Bear"}) /\ argument.run = attempt
    BY <1>4
  <2> QED
    BY <2>1, <2>2, <2>3, Appended
<1>6. s = "Bull" => Append(debate.bull, argument) \in Seq(Arguments({"Bull"}))
  BY <1>2, <1>4, AppendProperties
<1>7. s = "Bear" => Append(debate.bear, argument) \in Seq(Arguments({"Bear"}))
  BY <1>2, <1>4, AppendProperties
<1> QED
  BY <1>1, <1>2, <1>3, <1>5, <1>6, <1>7 DEF argument

LEMMA BullResearcherIInv == IInv /\ BullResearcher => IInv'
<1> SUFFICES ASSUME IInv, BullResearcher PROVE IInv'
  OBVIOUS
<1> DEFINE argument == [by |-> "Bull", run |-> attempt, at |-> debate.count + 1]
           next == IF debate.count + 1 >= 2 * MaxDebateRounds
                   THEN "Research Manager" ELSE "Bear Researcher"
<1>1. debate' = [history |-> Append(debate.history, argument),
                 bull |-> Append(debate.bull, argument), bear |-> debate.bear,
                 current |-> "Bull", judge |-> Absent, count |-> debate.count + 1]
  BY DEF BullResearcher
<1>2. /\ At("Bull Researcher") /\ Goto(next) /\ "Bull Researcher" \in Running
      /\ next \in Running \cup Ended
  <2>1. Among(ShouldContinueDebate(debate'), {"Bear Researcher", "Research Manager"}) = next
    BY <1>1 DEF Among, ShouldContinueDebate
  <2> QED
    BY <2>1 DEF BullResearcher, Running
<1>3. /\ node = "Bull Researcher" /\ node' = next
      /\ steps \in Nat /\ steps' = steps + 1 /\ steps' \in 0..MaxRecurLimit
      /\ attempt \in Attempts /\ attempt \in Nat /\ attempt > 0
      /\ attempt' = attempt /\ checkpointed' = checkpointed /\ checkpointed \in BOOLEAN
  BY <1>2, GotoFacts
<1>4. /\ turn' = turn /\ messages' = messages /\ report' = report /\ plan' = plan
      /\ proposal' = proposal /\ risk' = risk /\ decision' = decision
      /\ toolRounds' = toolRounds
  BY DEF BullResearcher
<1>5. /\ debate \in InvestDebateState /\ debate.count \in Nat
      /\ debate.count = Len(debate.history)
      /\ Append(debate.history, argument) \in Seq(Arguments({"Bull", "Bear"}))
      /\ Len(Append(debate.history, argument)) = debate.count + 1
      /\ AllOf(Append(debate.history, argument), attempt)
      /\ Append(debate.bull, argument) \in Seq(Arguments({"Bull"}))
  BY <1>3, DebateGrows
<1>6. debate' \in InvestDebateState
  <2>1. debate.bear \in Seq(Arguments({"Bear"}))
    BY <1>5 DEF InvestDebateState
  <2>2. debate.count \in Nat
    BY <1>5
  <2>3. debate.count + 1 \in Nat
    BY <2>2
  <2> HIDE DEF argument
  <2> QED
    BY <1>1, <1>5, <2>1, <2>3 DEF InvestDebateState, Absent
<1>7. TypeOK'
  BY <1>2, <1>3, <1>4, <1>6 DEF TypeOK, IInv
<1>8. /\ debate'.count = debate.count + 1 /\ debate'.history = Append(debate.history, argument)
      /\ debate'.judge = -1
  BY <1>1 DEF Absent
<1>9. IF debate.count + 1 >= 2 * MaxDebateRounds
      THEN debate.count + 1 = DebateTurns
      ELSE (debate.count + 1) % 2 = 1 /\ debate.count + 1 < 2 * MaxDebateRounds
  <2>1. debate.count % 2 = 0 /\ debate.count < DebateTurns
    BY <1>3 DEF IInv, ResearchSoFar
  <2> QED
    BY <1>5, <2>1, BullTurn
<1>10. StepCount' /\ CutOffOnlyByTools'
  <2>1. steps = 2 * N + 2 * toolRounds + debate.count /\ toolRounds \in Nat
    BY <1>3 DEF IInv, StepCount, TypeOK
  <2>2. steps' = 2 * N + 2 * toolRounds' + debate'.count
    <3>1. /\ steps' = steps + 1 /\ toolRounds' = toolRounds /\ debate'.count = debate.count + 1
          /\ debate.count \in Nat
      BY <1>3, <1>4, <1>5, <1>8
    <3> QED
      BY <2>1, <3>1, Sizes
  <2> QED
    BY <1>3, <1>8, <1>9, <2>2 DEF StepCount, CutOffOnlyByTools, RiskNodes
<1>11. Written'
  <2>1. \A i \in 1..N : report[SelectedAnalysts[i]] = attempt
    BY <1>2, <1>3 DEF IInv, Written, Analysing
  <2> QED
    BY <1>3, <1>4, <2>1 DEF Written, Analysing, Deciding, RiskNodes
<1>12. ResearchSoFar'
  <2>1. /\ debate'.count = Len(debate'.history)
        /\ AllOf(debate'.history, attempt')
    BY <1>3, <1>5, <1>8
  <2>2. debate'.judge <= 0
    BY <1>8
  <2>3. CASE debate.count + 1 >= 2 * MaxDebateRounds
    <3>1. node' = "Research Manager" /\ debate'.count = DebateTurns
      BY <1>3, <1>8, <1>9, <2>3
    <3> QED
      BY <2>1, <2>2, <3>1 DEF ResearchSoFar, Analysing, Deciding, RiskNodes
  <2>4. CASE ~(debate.count + 1 >= 2 * MaxDebateRounds)
    <3>1. /\ node' = "Bear Researcher"
          /\ debate'.count % 2 = 1 /\ debate'.count < 2 * MaxDebateRounds
      BY <1>3, <1>8, <1>9, <2>4
    <3> QED
      BY <2>1, <2>2, <3>1 DEF ResearchSoFar, Analysing, Deciding, RiskNodes
  <2> QED
    BY <2>3, <2>4
<1>13. RiskSoFar'
  BY <1>2, <1>3, <1>4 DEF IInv, RiskSoFar, Running, Deciding, RiskNodes, Analysing
<1> QED
  BY <1>7, <1>10, <1>11, <1>12, <1>13 DEF IInv

LEMMA BearResearcherIInv == IInv /\ BearResearcher => IInv'
<1> SUFFICES ASSUME IInv, BearResearcher PROVE IInv'
  OBVIOUS
<1> DEFINE argument == [by |-> "Bear", run |-> attempt, at |-> debate.count + 1]
           next == IF debate.count + 1 >= 2 * MaxDebateRounds
                   THEN "Research Manager" ELSE "Bull Researcher"
<1>1. debate' = [history |-> Append(debate.history, argument),
                 bear |-> Append(debate.bear, argument), bull |-> debate.bull,
                 current |-> "Bear", judge |-> Absent, count |-> debate.count + 1]
  BY DEF BearResearcher
<1>2. /\ At("Bear Researcher") /\ Goto(next) /\ "Bear Researcher" \in Running
      /\ next \in Running \cup Ended
  <2>1. Among(ShouldContinueDebate(debate'), {"Bull Researcher", "Research Manager"}) = next
    BY <1>1 DEF Among, ShouldContinueDebate
  <2> QED
    BY <2>1 DEF BearResearcher, Running
<1>3. /\ node = "Bear Researcher" /\ node' = next
      /\ steps \in Nat /\ steps' = steps + 1 /\ steps' \in 0..MaxRecurLimit
      /\ attempt \in Attempts /\ attempt \in Nat /\ attempt > 0
      /\ attempt' = attempt /\ checkpointed' = checkpointed /\ checkpointed \in BOOLEAN
  BY <1>2, GotoFacts
<1>4. /\ turn' = turn /\ messages' = messages /\ report' = report /\ plan' = plan
      /\ proposal' = proposal /\ risk' = risk /\ decision' = decision
      /\ toolRounds' = toolRounds
  BY DEF BearResearcher
<1>5. /\ debate \in InvestDebateState /\ debate.count \in Nat
      /\ debate.count = Len(debate.history)
      /\ Append(debate.history, argument) \in Seq(Arguments({"Bull", "Bear"}))
      /\ Len(Append(debate.history, argument)) = debate.count + 1
      /\ AllOf(Append(debate.history, argument), attempt)
      /\ Append(debate.bear, argument) \in Seq(Arguments({"Bear"}))
  BY <1>3, DebateGrows
<1>6. debate' \in InvestDebateState
  <2>1. debate.bull \in Seq(Arguments({"Bull"}))
    BY <1>5 DEF InvestDebateState
  <2>2. debate.count \in Nat
    BY <1>5
  <2>3. debate.count + 1 \in Nat
    BY <2>2
  <2> HIDE DEF argument
  <2> QED
    BY <1>1, <1>5, <2>1, <2>3 DEF InvestDebateState, Absent
<1>7. TypeOK'
  BY <1>2, <1>3, <1>4, <1>6 DEF TypeOK, IInv
<1>8. /\ debate'.count = debate.count + 1 /\ debate'.history = Append(debate.history, argument)
      /\ debate'.judge = -1
  BY <1>1 DEF Absent
<1>9. IF debate.count + 1 >= 2 * MaxDebateRounds
      THEN debate.count + 1 = DebateTurns
      ELSE (debate.count + 1) % 2 = 0 /\ debate.count + 1 < DebateTurns
  <2>1. debate.count % 2 = 1 /\ debate.count < 2 * MaxDebateRounds
    BY <1>3 DEF IInv, ResearchSoFar
  <2> QED
    BY <1>5, <2>1, BearTurn
<1>10. StepCount' /\ CutOffOnlyByTools'
  <2>1. steps = 2 * N + 2 * toolRounds + debate.count /\ toolRounds \in Nat
    BY <1>3 DEF IInv, StepCount, TypeOK
  <2>2. steps' = 2 * N + 2 * toolRounds' + debate'.count
    <3>1. /\ steps' = steps + 1 /\ toolRounds' = toolRounds /\ debate'.count = debate.count + 1
          /\ debate.count \in Nat
      BY <1>3, <1>4, <1>5, <1>8
    <3> QED
      BY <2>1, <3>1, Sizes
  <2> QED
    BY <1>3, <1>8, <1>9, <2>2 DEF StepCount, CutOffOnlyByTools, RiskNodes
<1>11. Written'
  <2>1. \A i \in 1..N : report[SelectedAnalysts[i]] = attempt
    BY <1>2, <1>3 DEF IInv, Written, Analysing
  <2> QED
    BY <1>3, <1>4, <2>1 DEF Written, Analysing, Deciding, RiskNodes
<1>12. ResearchSoFar'
  <2>1. /\ debate'.count = Len(debate'.history)
        /\ AllOf(debate'.history, attempt')
    BY <1>3, <1>5, <1>8
  <2>2. debate'.judge <= 0
    BY <1>8
  <2>3. CASE debate.count + 1 >= 2 * MaxDebateRounds
    <3>1. node' = "Research Manager" /\ debate'.count = DebateTurns
      BY <1>3, <1>8, <1>9, <2>3
    <3> QED
      BY <2>1, <2>2, <3>1 DEF ResearchSoFar, Analysing, Deciding, RiskNodes
  <2>4. CASE ~(debate.count + 1 >= 2 * MaxDebateRounds)
    <3>1. /\ node' = "Bull Researcher"
          /\ debate'.count % 2 = 0 /\ debate'.count < DebateTurns
      BY <1>3, <1>8, <1>9, <2>4
    <3> QED
      BY <2>1, <2>2, <3>1 DEF ResearchSoFar, Analysing, Deciding, RiskNodes
  <2> QED
    BY <2>3, <2>4
<1>13. RiskSoFar'
  BY <1>2, <1>3, <1>4 DEF IInv, RiskSoFar, Running, Deciding, RiskNodes, Analysing
<1> QED
  BY <1>7, <1>10, <1>11, <1>12, <1>13 DEF IInv

LEMMA ResearchManagerIInv == IInv /\ ResearchManager => IInv'
<1> SUFFICES ASSUME IInv, ResearchManager PROVE IInv'
  OBVIOUS
<1>1. /\ At("Research Manager") /\ Goto("Trader")
      /\ "Research Manager" \in Running /\ "Trader" \in Running \cup Ended
  BY DEF ResearchManager, Running
<1>2. /\ node = "Research Manager" /\ node' = "Trader"
      /\ steps \in Nat /\ steps' = steps + 1 /\ steps' \in 0..MaxRecurLimit
      /\ attempt \in Attempts /\ attempt \in Nat /\ attempt > 0
      /\ attempt' = attempt /\ checkpointed' = checkpointed /\ checkpointed \in BOOLEAN
  BY <1>1, GotoFacts
<1>3. /\ turn' = turn /\ messages' = messages /\ report' = report /\ proposal' = proposal
      /\ risk' = risk /\ decision' = decision /\ toolRounds' = toolRounds
      /\ plan' = attempt /\ debate' = [debate EXCEPT !.judge = attempt, !.current = "Plan"]
      /\ debate \in InvestDebateState
  BY DEF ResearchManager, IInv, TypeOK
<1>4. /\ debate' \in InvestDebateState /\ debate'.judge = attempt
      /\ debate'.count = debate.count /\ debate'.history = debate.history
  BY <1>2, <1>3 DEF InvestDebateState
<1>5. TypeOK'
  BY <1>1, <1>2, <1>3, <1>4 DEF TypeOK, IInv
<1>6. StepCount' /\ CutOffOnlyByTools'
  <2>1. steps = 2 * N + 2 * toolRounds + DebateTurns
    BY <1>2 DEF IInv, StepCount
  <2> QED
    BY <1>2, <1>3, <2>1 DEF StepCount, CutOffOnlyByTools, RiskNodes
<1>7. Written'
  <2>1. \A i \in 1..N : report[SelectedAnalysts[i]] = attempt
    BY <1>1, <1>2 DEF IInv, Written, Analysing
  <2> QED
    BY <1>2, <1>3, <1>4, <2>1 DEF Written, Analysing, Deciding, RiskNodes
<1>8. ResearchSoFar'
  <2>1. debate.count = DebateTurns /\ debate.count = Len(debate.history)
        /\ AllOf(debate.history, attempt)
    BY <1>1, <1>2 DEF IInv, ResearchSoFar
  <2> QED
    BY <1>2, <1>4, <2>1 DEF ResearchSoFar, Analysing, Deciding, RiskNodes
<1>9. RiskSoFar'
  BY <1>1, <1>2, <1>3 DEF IInv, RiskSoFar, Running, Deciding, RiskNodes, Analysing
<1> QED
  BY <1>5, <1>6, <1>7, <1>8, <1>9 DEF IInv

LEMMA TraderIInv == IInv /\ Trader => IInv'
<1> SUFFICES ASSUME IInv, Trader PROVE IInv'
  OBVIOUS
<1>1. /\ At("Trader") /\ Goto("Aggressive Analyst")
      /\ "Trader" \in Running /\ "Aggressive Analyst" \in Running \cup Ended
  BY DEF Trader, Running, RiskNodes
<1>2. /\ node = "Trader" /\ node' = "Aggressive Analyst"
      /\ steps \in Nat /\ steps' = steps + 1 /\ steps' \in 0..MaxRecurLimit
      /\ attempt \in Attempts /\ attempt \in Nat /\ attempt > 0
      /\ attempt' = attempt /\ checkpointed' = checkpointed /\ checkpointed \in BOOLEAN
  BY <1>1, GotoFacts
<1>3. /\ turn' = turn /\ report' = report /\ debate' = debate /\ plan' = plan
      /\ risk' = risk /\ decision' = decision /\ toolRounds' = toolRounds
      /\ proposal' = attempt
  BY DEF Trader
<1>4. messages' \in Seq(Messages)
  <2>1. [by |-> "Trader", calls |-> FALSE] \in Messages
    BY DEF Messages
  <2>2. messages \in Seq(Messages)
    BY DEF IInv, TypeOK
  <2> QED
    BY <2>1, <2>2, AppendProperties DEF Trader
<1>5. TypeOK'
  BY <1>1, <1>2, <1>3, <1>4 DEF TypeOK, IInv
<1>6. /\ risk' = NoRiskDebate /\ risk'.count = 0 /\ risk'.judge = 0 /\ Len(risk'.history) = 0
  <2>1. risk = NoRiskDebate
    BY <1>2 DEF IInv, RiskSoFar, Running, Deciding, RiskNodes
  <2> QED
    BY <1>3, <2>1 DEF NoRiskDebate
<1>7. StepCount' /\ CutOffOnlyByTools'
  <2>1. steps = 2 * N + 2 * toolRounds + DebateTurns + 1 /\ toolRounds \in Nat
    BY <1>2 DEF IInv, StepCount, TypeOK
  <2>2. steps' = 2 * N + 2 * toolRounds' + DebateTurns + 2 + risk'.count
    <3>1. steps' = steps + 1 /\ toolRounds' = toolRounds /\ risk'.count = 0
      BY <1>2, <1>3, <1>6
    <3> QED
      BY <2>1, <3>1, Sizes, TurnsType
  <2> QED
    BY <1>2, <2>2 DEF StepCount, CutOffOnlyByTools, RiskNodes
<1>8. Written'
  <2>1. /\ \A i \in 1..N : report[SelectedAnalysts[i]] = attempt
        /\ debate.judge = attempt /\ plan = attempt
    BY <1>1, <1>2 DEF IInv, Written, Analysing
  <2> QED
    BY <1>2, <1>3, <2>1 DEF Written, Analysing, Deciding, RiskNodes
<1>9. ResearchSoFar'
  BY <1>1, <1>2, <1>3 DEF IInv, ResearchSoFar, Analysing, Deciding, RiskNodes
<1>10. RiskSoFar'
  <2>1. AllOf(risk'.history, attempt') /\ risk'.count < RiskTurns /\ risk'.count % 3 = 0
        /\ risk'.judge <= 0
    BY <1>6, TurnsType DEF AllOf
  <2> QED
    BY <1>2, <1>6, <2>1 DEF RiskSoFar, Deciding, RiskNodes
<1> QED
  BY <1>5, <1>7, <1>8, <1>9, <1>10 DEF IInv

-----------------------------------------------------------------------------
(* A turn of a risk analyst in numbers.                                    *)
LEMMA RiskTurn ==
  ASSUME NEW c \in Nat, c < RiskTurns
  PROVE  /\ IF c + 1 >= 3 * MaxRiskDiscussRounds THEN c + 1 = RiskTurns ELSE c + 1 < RiskTurns
         /\ c % 3 = 0 => (c + 1) % 3 = 1
         /\ c % 3 = 1 => (c + 1) % 3 = 2
         /\ c % 3 = 2 => (c + 1) % 3 = 0
  BY GraphAssumption DEF RiskTurns

(* The speakers of a history to which an argument is appended.              *)
LEMMA SpeakersAppended ==
  ASSUME NEW S, NEW history \in Seq(S), NEW argument \in S
  PROVE  SpeakersOf(Append(history, argument)) = Append(SpeakersOf(history), argument.by)
<1> DEFINE more == Append(history, argument)
<1>1. /\ Len(more) = Len(history) + 1 /\ Len(history) \in Nat
      /\ \A i \in 1..Len(history) : more[i] = history[i]
      /\ more[Len(history) + 1] = argument
  BY AppendProperties, LenProperties
<1> HIDE DEF more
<1>2. SpeakersOf(more) = [i \in 1..(Len(history) + 1) |-> more[i].by]
  BY <1>1 DEF SpeakersOf
<1>3. /\ SpeakersOf(history) = [i \in 1..Len(history) |-> history[i].by]
      /\ Len(SpeakersOf(history)) = Len(history)
  BY <1>1 DEF SpeakersOf
<1>4. Append(SpeakersOf(history), argument.by) =
        [i \in 1..(Len(history) + 1) |->
           IF i = Len(history) + 1 THEN argument.by ELSE SpeakersOf(history)[i]]
  BY <1>3
<1>5. \A i \in 1..(Len(history) + 1) :
        more[i].by = IF i = Len(history) + 1 THEN argument.by ELSE SpeakersOf(history)[i]
  BY <1>1, <1>3
<1> QED
  BY <1>2, <1>4, <1>5 DEF more

(* The nodes run so far are one more after a turn.                         *)
LEMMA OneTurnMore ==
  ASSUME NEW rounds \in Nat, NEW spoken \in Nat
  PROVE  (2 * N + 2 * rounds + DebateTurns + 2 + spoken) + 1
           = 2 * N + 2 * rounds + DebateTurns + 2 + (spoken + 1)
  BY Sizes, TurnsType

LEMMA SpokenType ==
  ASSUME risk \in RiskDebateState, attempt \in Attempts, AllOf(risk.history, attempt),
         risk.count = Len(risk.history), NEW s \in RiskSpeakers
  PROVE  /\ Spoken(risk, s) \in RiskDebateState
         /\ risk.count \in Nat
         /\ Spoken(risk, s).count = risk.count + 1
         /\ Spoken(risk, s).count = Len(Spoken(risk, s).history)
         /\ AllOf(Spoken(risk, s).history, attempt)
         /\ Spoken(risk, s).judge = -1 /\ Spoken(risk, s).latest = s
         /\ SpeakersOf(Spoken(risk, s).history) = Append(SpeakersOf(risk.history), s)
<1> DEFINE argument == [by |-> s, run |-> attempt, at |-> risk.count + 1]
<1>1. /\ risk.history \in Seq(Arguments(RiskSpeakers)) /\ risk.count \in Nat
      /\ risk.own \in [RiskSpeakers -> Seq(Arguments(RiskSpeakers))]
      /\ risk.current \in [RiskSpeakers -> Nat]
  BY DEF RiskDebateState
<1>2. risk.count + 1 \in Nat
  BY <1>1, OneMore
<1>3. /\ argument \in Arguments(RiskSpeakers) /\ argument.run = attempt /\ argument.by = s
      /\ argument.at = risk.count + 1
  BY <1>2 DEF Arguments
<1>4. Spoken(risk, s) =
        [history |-> Append(risk.history, argument),
         own |-> [risk.own EXCEPT ![s] = Append(@, argument)],
         current |-> [risk.current EXCEPT ![s] = risk.count + 1],
         latest |-> s, judge |-> Absent, count |-> risk.count + 1]
  BY DEF Spoken
<1> HIDE DEF argument
<1>5. /\ Append(risk.history, argument) \in Seq(Arguments(RiskSpeakers))
      /\ Len(Append(risk.history, argument)) = Len(risk.history) + 1
      /\ AllOf(Append(risk.history, argument), attempt)
  BY <1>1, <1>3, Appended
<1>6. [risk.own EXCEPT ![s] = Append(@, argument)] \in [RiskSpeakers -> Seq(Arguments(RiskSpeakers))]
  <2>1. Append(risk.own[s], argument) \in Seq(Arguments(RiskSpeakers))
    BY <1>1, <1>3, AppendProperties
  <2> QED
    BY <1>1, <2>1
<1>7. [risk.current EXCEPT ![s] = risk.count + 1] \in [RiskSpeakers -> Nat]
  BY <1>1, <1>2
<1>8. Spoken(risk, s) \in RiskDebateState
  <2> DEFINE own == [risk.own EXCEPT ![s] = Append(@, argument)]
             current == [risk.current EXCEPT ![s] = risk.count + 1]
             history == Append(risk.history, argument)
             count == risk.count + 1
  <2>1. /\ own \in [RiskSpeakers -> Seq(Arguments(RiskSpeakers))]
        /\ current \in [RiskSpeakers -> Nat] /\ history \in Seq(Arguments(RiskSpeakers))
        /\ count \in Nat
    BY <1>2, <1>5, <1>6, <1>7
  <2>2. Spoken(risk, s) = [history |-> history, own |-> own, current |-> current,
                           latest |-> s, judge |-> Absent, count |-> count]
    BY <1>4
  <2> HIDE DEF own, current, history, count
  <2>3. Absent \in Attempts \cup {Absent} /\ s \in RiskSpeakers \cup {"", "Judge"}
    OBVIOUS
  <2>4. [history |-> history, own |-> own, current |-> current,
         latest |-> s, judge |-> Absent, count |-> count] \in RiskDebateState
    BY <2>1, <2>3 DEF RiskDebateState
  <2> QED
    BY <2>2, <2>4
<1>9. SpeakersOf(Append(risk.history, argument)) = Append(SpeakersOf(risk.history), s)
  BY <1>1, <1>3, SpeakersAppended
<1> QED
  BY <1>1, <1>4, <1>5, <1>8, <1>9 DEF Absent

(* What the three nodes of the debate on the risk have in common.          *)
LEMMA RiskAnalystFacts ==
  ASSUME IInv, NEW n \in RiskNodes, NEW s \in RiskSpeakers, NEW targets,
         RiskAnalyst(n, s, targets),
         NEW next \in RiskNodes \cup {"Q-KUKEB Executor"},
         Among(ShouldContinueRiskAnalysis(risk'), targets) = next
  PROVE  /\ TypeOK' /\ Written' /\ ResearchSoFar' /\ node' = next
         /\ node' = "Q-KUKEB Executor" /\ risk'.count = RiskTurns => StepCount'
         /\ node' \in RiskNodes => StepCount'
         /\ risk.count \in Nat /\ risk.count < RiskTurns /\ risk'.count = risk.count + 1
         /\ risk'.count = Len(risk'.history) /\ AllOf(risk'.history, attempt')
         /\ risk'.judge = -1
         /\ CutOffOnlyByTools'
<1>1. /\ At(n) /\ Goto(next) /\ n \in Running /\ next \in Running \cup Ended
  BY DEF RiskAnalyst, Running
<1>2. /\ node = n /\ node' = next
      /\ steps \in Nat /\ steps' = steps + 1 /\ steps' \in 0..MaxRecurLimit
      /\ attempt \in Attempts /\ attempt \in Nat /\ attempt > 0
      /\ attempt' = attempt /\ checkpointed' = checkpointed /\ checkpointed \in BOOLEAN
  BY <1>1, GotoFacts
<1>3. /\ turn' = turn /\ messages' = messages /\ report' = report /\ debate' = debate
      /\ plan' = plan /\ proposal' = proposal /\ decision' = decision
      /\ toolRounds' = toolRounds /\ risk' = Spoken(risk, s)
  BY DEF RiskAnalyst
<1>4. /\ risk \in RiskDebateState /\ risk.count = Len(risk.history)
      /\ AllOf(risk.history, attempt) /\ risk.count < RiskTurns
  BY <1>1, <1>2 DEF IInv, TypeOK, RiskSoFar
<1>5. /\ risk' \in RiskDebateState /\ risk.count \in Nat /\ risk'.count = risk.count + 1
      /\ risk'.count = Len(risk'.history) /\ AllOf(risk'.history, attempt)
      /\ risk'.judge = -1
  BY <1>2, <1>3, <1>4, SpokenType
<1>6. TypeOK'
  BY <1>1, <1>2, <1>3, <1>5 DEF TypeOK, IInv
<1>7. Written'
  BY <1>2, <1>3 DEF IInv, Written, Running, Analysing, Deciding, RiskNodes
<1>8. ResearchSoFar'
  BY <1>2, <1>3 DEF IInv, ResearchSoFar, Running, Analysing, Deciding, RiskNodes
<1>9. steps' = 2 * N + 2 * toolRounds' + DebateTurns + 2 + risk'.count
  <2>1. steps = 2 * N + 2 * toolRounds + DebateTurns + 2 + risk.count /\ toolRounds \in Nat
    BY <1>2 DEF IInv, StepCount, TypeOK
  <2>2. /\ steps' = steps + 1 /\ toolRounds' = toolRounds /\ risk'.count = risk.count + 1
        /\ risk.count \in Nat
    BY <1>2, <1>3, <1>5
  <2> QED
    BY <2>1, <2>2, OneTurnMore
<1>10. /\ node' = "Q-KUKEB Executor" /\ risk'.count = RiskTurns => StepCount'
       /\ node' \in RiskNodes => StepCount'
       /\ CutOffOnlyByTools'
  BY <1>2, <1>9 DEF StepCount, CutOffOnlyByTools, RiskNodes
<1> QED
  BY <1>2, <1>4, <1>5, <1>6, <1>7, <1>8, <1>10

LEMMA AggressiveIInv == IInv /\ AggressiveAnalyst => IInv'
<1> SUFFICES ASSUME IInv, AggressiveAnalyst PROVE IInv'
  OBVIOUS
<1> DEFINE targets == {"Conservative Analyst", "Q-KUKEB Executor"}
           next == IF risk.count + 1 >= 3 * MaxRiskDiscussRounds
                   THEN "Q-KUKEB Executor" ELSE "Conservative Analyst"
<1>1. /\ RiskAnalyst("Aggressive Analyst", "Aggressive", targets)
      /\ "Aggressive Analyst" \in RiskNodes /\ "Aggressive" \in RiskSpeakers
      /\ next \in RiskNodes \cup {"Q-KUKEB Executor"}
  BY DEF AggressiveAnalyst, RiskNodes, RiskSpeakers
<1>2. risk' = Spoken(risk, "Aggressive") /\ node = "Aggressive Analyst"
  BY <1>1 DEF RiskAnalyst, At
<1>3. Among(ShouldContinueRiskAnalysis(risk'), targets) = next
  <2>1. risk'.count = risk.count + 1 /\ risk'.latest = "Aggressive"
    BY <1>2 DEF Spoken
  <2> QED
    BY <2>1 DEF Among, ShouldContinueRiskAnalysis
<1> HIDE DEF targets
<1>4. /\ TypeOK' /\ Written' /\ ResearchSoFar' /\ node' = next
      /\ node' = "Q-KUKEB Executor" /\ risk'.count = RiskTurns => StepCount'
      /\ node' \in RiskNodes => StepCount'
      /\ risk.count \in Nat /\ risk.count < RiskTurns /\ risk'.count = risk.count + 1
      /\ risk'.count = Len(risk'.history) /\ AllOf(risk'.history, attempt')
      /\ risk'.judge = -1
      /\ CutOffOnlyByTools'
  <2> HIDE DEF next
  <2> QED
    BY <1>1, <1>3, RiskAnalystFacts
<1>5. risk.count % 3 = 0
  BY <1>2 DEF IInv, RiskSoFar
<1>6. /\ IF risk.count + 1 >= 3 * MaxRiskDiscussRounds
         THEN risk.count + 1 = RiskTurns ELSE risk.count + 1 < RiskTurns
      /\ (risk.count + 1) % 3 = 1
  BY <1>4, <1>5, RiskTurn
<1>7. CASE risk.count + 1 >= 3 * MaxRiskDiscussRounds
  <2>1. node' = "Q-KUKEB Executor" /\ risk'.count = RiskTurns
    BY <1>4, <1>6, <1>7
  <2>2. RiskSoFar'
    <3>1. risk'.count = Len(risk'.history) /\ AllOf(risk'.history, attempt') /\ risk'.judge = -1
      BY <1>4
    <3>2. risk'.judge <= 0
      BY <3>1
    <3> QED
      BY <2>1, <3>1, <3>2 DEF RiskSoFar, Deciding, RiskNodes
  <2> QED
    BY <1>4, <2>1, <2>2 DEF IInv
<1>8. CASE ~(risk.count + 1 >= 3 * MaxRiskDiscussRounds)
  <2>1. /\ node' = "Conservative Analyst" /\ risk'.count < RiskTurns
        /\ risk'.count % 3 = 1 /\ node' \in RiskNodes
    BY <1>4, <1>6, <1>8 DEF RiskNodes
  <2>2. RiskSoFar'
    <3>1. risk'.count = Len(risk'.history) /\ AllOf(risk'.history, attempt') /\ risk'.judge = -1
      BY <1>4
    <3>2. risk'.judge <= 0
      BY <3>1
    <3> QED
      BY <2>1, <3>1, <3>2 DEF RiskSoFar, Deciding, RiskNodes
  <2> QED
    BY <1>4, <2>1, <2>2 DEF IInv
<1> QED
  BY <1>7, <1>8

LEMMA ConservativeIInv == IInv /\ ConservativeAnalyst => IInv'
<1> SUFFICES ASSUME IInv, ConservativeAnalyst PROVE IInv'
  OBVIOUS
<1> DEFINE targets == {"Neutral Analyst", "Q-KUKEB Executor"}
           next == IF risk.count + 1 >= 3 * MaxRiskDiscussRounds
                   THEN "Q-KUKEB Executor" ELSE "Neutral Analyst"
<1>1. /\ RiskAnalyst("Conservative Analyst", "Conservative", targets)
      /\ "Conservative Analyst" \in RiskNodes /\ "Conservative" \in RiskSpeakers
      /\ next \in RiskNodes \cup {"Q-KUKEB Executor"}
  BY DEF ConservativeAnalyst, RiskNodes, RiskSpeakers
<1>2. risk' = Spoken(risk, "Conservative") /\ node = "Conservative Analyst"
  BY <1>1 DEF RiskAnalyst, At
<1>3. Among(ShouldContinueRiskAnalysis(risk'), targets) = next
  <2>1. risk'.count = risk.count + 1 /\ risk'.latest = "Conservative"
    BY <1>2 DEF Spoken
  <2> QED
    BY <2>1 DEF Among, ShouldContinueRiskAnalysis
<1> HIDE DEF targets
<1>4. /\ TypeOK' /\ Written' /\ ResearchSoFar' /\ node' = next
      /\ node' = "Q-KUKEB Executor" /\ risk'.count = RiskTurns => StepCount'
      /\ node' \in RiskNodes => StepCount'
      /\ risk.count \in Nat /\ risk.count < RiskTurns /\ risk'.count = risk.count + 1
      /\ risk'.count = Len(risk'.history) /\ AllOf(risk'.history, attempt')
      /\ risk'.judge = -1
      /\ CutOffOnlyByTools'
  <2> HIDE DEF next
  <2> QED
    BY <1>1, <1>3, RiskAnalystFacts
<1>5. risk.count % 3 = 1
  BY <1>2 DEF IInv, RiskSoFar
<1>6. /\ IF risk.count + 1 >= 3 * MaxRiskDiscussRounds
         THEN risk.count + 1 = RiskTurns ELSE risk.count + 1 < RiskTurns
      /\ (risk.count + 1) % 3 = 2
  BY <1>4, <1>5, RiskTurn
<1>7. CASE risk.count + 1 >= 3 * MaxRiskDiscussRounds
  <2>1. node' = "Q-KUKEB Executor" /\ risk'.count = RiskTurns
    BY <1>4, <1>6, <1>7
  <2>2. RiskSoFar'
    <3>1. risk'.count = Len(risk'.history) /\ AllOf(risk'.history, attempt') /\ risk'.judge = -1
      BY <1>4
    <3>2. risk'.judge <= 0
      BY <3>1
    <3> QED
      BY <2>1, <3>1, <3>2 DEF RiskSoFar, Deciding, RiskNodes
  <2> QED
    BY <1>4, <2>1, <2>2 DEF IInv
<1>8. CASE ~(risk.count + 1 >= 3 * MaxRiskDiscussRounds)
  <2>1. /\ node' = "Neutral Analyst" /\ risk'.count < RiskTurns
        /\ risk'.count % 3 = 2 /\ node' \in RiskNodes
    BY <1>4, <1>6, <1>8 DEF RiskNodes
  <2>2. RiskSoFar'
    <3>1. risk'.count = Len(risk'.history) /\ AllOf(risk'.history, attempt') /\ risk'.judge = -1
      BY <1>4
    <3>2. risk'.judge <= 0
      BY <3>1
    <3> QED
      BY <2>1, <3>1, <3>2 DEF RiskSoFar, Deciding, RiskNodes
  <2> QED
    BY <1>4, <2>1, <2>2 DEF IInv
<1> QED
  BY <1>7, <1>8

LEMMA NeutralIInv == IInv /\ NeutralAnalyst => IInv'
<1> SUFFICES ASSUME IInv, NeutralAnalyst PROVE IInv'
  OBVIOUS
<1> DEFINE targets == {"Aggressive Analyst", "Q-KUKEB Executor"}
           next == IF risk.count + 1 >= 3 * MaxRiskDiscussRounds
                   THEN "Q-KUKEB Executor" ELSE "Aggressive Analyst"
<1>1. /\ RiskAnalyst("Neutral Analyst", "Neutral", targets)
      /\ "Neutral Analyst" \in RiskNodes /\ "Neutral" \in RiskSpeakers
      /\ next \in RiskNodes \cup {"Q-KUKEB Executor"}
  BY DEF NeutralAnalyst, RiskNodes, RiskSpeakers
<1>2. risk' = Spoken(risk, "Neutral") /\ node = "Neutral Analyst"
  BY <1>1 DEF RiskAnalyst, At
<1>3. Among(ShouldContinueRiskAnalysis(risk'), targets) = next
  <2>1. risk'.count = risk.count + 1 /\ risk'.latest = "Neutral"
    BY <1>2 DEF Spoken
  <2> QED
    BY <2>1 DEF Among, ShouldContinueRiskAnalysis
<1> HIDE DEF targets
<1>4. /\ TypeOK' /\ Written' /\ ResearchSoFar' /\ node' = next
      /\ node' = "Q-KUKEB Executor" /\ risk'.count = RiskTurns => StepCount'
      /\ node' \in RiskNodes => StepCount'
      /\ risk.count \in Nat /\ risk.count < RiskTurns /\ risk'.count = risk.count + 1
      /\ risk'.count = Len(risk'.history) /\ AllOf(risk'.history, attempt')
      /\ risk'.judge = -1
      /\ CutOffOnlyByTools'
  <2> HIDE DEF next
  <2> QED
    BY <1>1, <1>3, RiskAnalystFacts
<1>5. risk.count % 3 = 2
  BY <1>2 DEF IInv, RiskSoFar
<1>6. /\ IF risk.count + 1 >= 3 * MaxRiskDiscussRounds
         THEN risk.count + 1 = RiskTurns ELSE risk.count + 1 < RiskTurns
      /\ (risk.count + 1) % 3 = 0
  BY <1>4, <1>5, RiskTurn
<1>7. CASE risk.count + 1 >= 3 * MaxRiskDiscussRounds
  <2>1. node' = "Q-KUKEB Executor" /\ risk'.count = RiskTurns
    BY <1>4, <1>6, <1>7
  <2>2. RiskSoFar'
    <3>1. risk'.count = Len(risk'.history) /\ AllOf(risk'.history, attempt') /\ risk'.judge = -1
      BY <1>4
    <3>2. risk'.judge <= 0
      BY <3>1
    <3> QED
      BY <2>1, <3>1, <3>2 DEF RiskSoFar, Deciding, RiskNodes
  <2> QED
    BY <1>4, <2>1, <2>2 DEF IInv
<1>8. CASE ~(risk.count + 1 >= 3 * MaxRiskDiscussRounds)
  <2>1. /\ node' = "Aggressive Analyst" /\ risk'.count < RiskTurns
        /\ risk'.count % 3 = 0 /\ node' \in RiskNodes
    BY <1>4, <1>6, <1>8 DEF RiskNodes
  <2>2. RiskSoFar'
    <3>1. risk'.count = Len(risk'.history) /\ AllOf(risk'.history, attempt') /\ risk'.judge = -1
      BY <1>4
    <3>2. risk'.judge <= 0
      BY <3>1
    <3> QED
      BY <2>1, <3>1, <3>2 DEF RiskSoFar, Deciding, RiskNodes
  <2> QED
    BY <1>4, <2>1, <2>2 DEF IInv
<1> QED
  BY <1>7, <1>8

-----------------------------------------------------------------------------
(* The payload never reaches the executor as a payload.                    *)
LEMMA AlwaysHolds ==
  ASSUME NEW reply \in Replies, NEW answer
  PROVE  ExecutorDecision(InvokeStructuredOrFreetext(reply), answer) =
           [gate |-> "HOLD (parse failure)", submitted |-> FALSE]
<1>1. InvokeStructuredOrFreetext(reply) \notin Payloads
  BY DEF InvokeStructuredOrFreetext, Payloads
<1> QED
  BY <1>1 DEF ExecutorDecision

LEMMA AtMostOneMore == ASSUME NEW a \in Int, NEW b \in Int, a + 1 <= b PROVE a <= b
  OBVIOUS

(* The sums behind the limit on the nodes.                                 *)
LEMMA NodesAdded ==
  ASSUME NEW rounds \in Nat, NEW k \in Nat
  PROVE  /\ NodesNeeded + 2 * rounds \in Int
         /\ NodesNeeded + 2 * rounds = 2 * N + 2 * rounds + DebateTurns + RiskTurns + 3
         /\ \A t \in 1..N : 2 * (t - 1) + 2 * rounds + 1 <= NodesNeeded + 2 * rounds
         /\ k <= DebateTurns => 2 * N + 2 * rounds + k + 1 <= NodesNeeded + 2 * rounds
         /\ k <= RiskTurns =>
              2 * N + 2 * rounds + DebateTurns + 2 + k + 1 <= NodesNeeded + 2 * rounds
         /\ 2 * N + 2 * rounds + DebateTurns + 2 + RiskTurns + 1 <= NodesNeeded + 2 * rounds
  BY Sizes, TurnsType DEF NodesNeeded, N

LEMMA ExecutorIInv == IInv /\ Executor => IInv' /\ decision'.submitted = FALSE
<1> SUFFICES ASSUME IInv, Executor PROVE IInv' /\ decision'.submitted = FALSE
  OBVIOUS
<1>1. PICK next \in {"END", "out of steps"} :
        Goto(next) /\ (next = "out of steps" => steps + 1 = MaxRecurLimit)
  BY DEF Executor
<1>2. /\ At("Q-KUKEB Executor") /\ "Q-KUKEB Executor" \in Running
      /\ next \in Running \cup Ended
  BY DEF Executor, Running, Ended
<1>3. /\ node = "Q-KUKEB Executor" /\ node' = next
      /\ steps \in Nat /\ steps' = steps + 1 /\ steps' \in 0..MaxRecurLimit
      /\ attempt \in Attempts /\ attempt \in Nat /\ attempt > 0
      /\ attempt' = attempt /\ checkpointed' = checkpointed /\ checkpointed \in BOOLEAN
  BY <1>1, <1>2, GotoFacts
<1>4. /\ turn' = turn /\ messages' = messages /\ report' = report /\ debate' = debate
      /\ plan' = plan /\ proposal' = proposal /\ toolRounds' = toolRounds
      /\ risk' = [risk EXCEPT !.judge = attempt, !.latest = "Judge"]
  BY DEF Executor, UpdateRiskState
<1>5. /\ decision' \in Decisions /\ decision'.run = attempt /\ decision'.submitted = FALSE
  <2>1. PICK reply \in Replies, answer \in Answers :
          decision' = [run |-> attempt, signal |-> reply,
            gate |-> ExecutorDecision(InvokeStructuredOrFreetext(reply), answer).gate,
            submitted |-> ExecutorDecision(InvokeStructuredOrFreetext(reply), answer).submitted]
    BY DEF Executor
  <2>2. decision' = [run |-> attempt, signal |-> reply, gate |-> "HOLD (parse failure)",
                     submitted |-> FALSE]
    <3> DEFINE outcome == ExecutorDecision(InvokeStructuredOrFreetext(reply), answer)
    <3>1. outcome = [gate |-> "HOLD (parse failure)", submitted |-> FALSE]
      BY AlwaysHolds
    <3>2. decision' = [run |-> attempt, signal |-> reply, gate |-> outcome.gate,
                       submitted |-> outcome.submitted]
      BY <2>1
    <3> HIDE DEF outcome
    <3>3. outcome.gate = "HOLD (parse failure)" /\ outcome.submitted = FALSE
      BY <3>1
    <3> QED
      BY <3>2, <3>3
  <2>3. "HOLD (parse failure)" \in Gates
    BY DEF Gates
  <2> QED
    BY <1>3, <2>2, <2>3 DEF Decisions
<1>6. /\ risk \in RiskDebateState /\ risk' \in RiskDebateState /\ risk'.judge = attempt
      /\ risk'.history = risk.history /\ risk'.count = risk.count
  <2>1. risk \in RiskDebateState
    BY DEF IInv, TypeOK
  <2> QED
    BY <1>3, <1>4, <2>1 DEF RiskDebateState
<1>7. TypeOK'
  BY <1>2, <1>3, <1>4, <1>5, <1>6 DEF TypeOK, IInv
<1>8. StepCount'
  BY <1>3 DEF StepCount, RiskNodes
<1>9. Written'
  BY <1>2, <1>3, <1>4, <1>5, <1>6 DEF IInv, Written, Running, Analysing, Deciding, RiskNodes
<1>10. ResearchSoFar'
  BY <1>2, <1>3, <1>4 DEF IInv, ResearchSoFar, Running, Analysing, Deciding, RiskNodes
<1>11. RiskSoFar'
  <2>1. risk.count = Len(risk.history) /\ AllOf(risk.history, attempt)
    BY <1>2, <1>3 DEF IInv, RiskSoFar
  <2> QED
    BY <1>3, <1>6, <2>1 DEF RiskSoFar, Running, Analysing, Deciding, RiskNodes
<1>12. CutOffOnlyByTools'
  <2> SUFFICES ASSUME node' = "out of steps"
               PROVE  NodesNeeded + 2 * toolRounds' >= MaxRecurLimit
    BY DEF CutOffOnlyByTools, NodesNeeded, DebateTurns, RiskTurns
  <2>1. steps = 2 * N + 2 * toolRounds + DebateTurns + 2 + RiskTurns /\ toolRounds \in Nat
    BY <1>3 DEF IInv, StepCount, TypeOK
  <2>2. steps + 1 = MaxRecurLimit /\ toolRounds' = toolRounds
    BY <1>1, <1>3, <1>4
  <2>3. steps + 1 <= NodesNeeded + 2 * toolRounds
    BY <2>1, TurnsType, NodesAdded
  <2> QED
    BY <2>2, <2>3, Sizes
<1> QED
  BY <1>5, <1>7, <1>8, <1>9, <1>10, <1>11, <1>12 DEF IInv

(* The nodes run before any node are fewer than every run needs, the       *)
(* rounds of tools apart.                                                  *)
LEMMA StepsBound == IInv /\ node \in Running => steps <= NodesNeeded + 2 * toolRounds
<1> SUFFICES ASSUME IInv, node \in Running PROVE steps <= NodesNeeded + 2 * toolRounds
  OBVIOUS
<1>1. /\ toolRounds \in Nat /\ turn \in 1..N
      /\ debate \in InvestDebateState /\ risk \in RiskDebateState
  BY DEF IInv, TypeOK, N
<1>2. debate.count \in Nat /\ risk.count \in Nat
  BY <1>1 DEF InvestDebateState, RiskDebateState
<1> DEFINE sum == NodesNeeded + 2 * toolRounds
<1>3. steps \in Int /\ sum \in Int
  <2>1. steps \in 0..MaxRecurLimit
    BY DEF IInv, TypeOK
  <2> QED
    BY <1>1, <2>1, Sizes, NodesAdded
<1>4. SUFFICES steps + 1 <= sum \/ steps <= sum
  BY <1>3, AtMostOneMore
<1>5. CASE node \in Analysing
  <2>1. \/ steps = 2 * (turn - 1) + 2 * toolRounds
        \/ steps = 2 * (turn - 1) + 2 * toolRounds + 1
    BY <1>5 DEF IInv, StepCount, Analysing
  <2>2. 2 * (turn - 1) + 2 * toolRounds + 1 <= NodesNeeded + 2 * toolRounds
    BY <1>1, NodesAdded
  <2> QED
    BY <2>1, <2>2
<1>6. CASE node \in {"Bull Researcher", "Bear Researcher"}
  <2>1. steps = 2 * N + 2 * toolRounds + debate.count
    BY <1>6 DEF IInv, StepCount
  <2>2. debate.count < DebateTurns \/ debate.count < 2 * MaxDebateRounds
    BY <1>6 DEF IInv, ResearchSoFar
  <2>3. debate.count <= DebateTurns
    BY <1>2, <2>2, GraphAssumption DEF DebateTurns
  <2>4. 2 * N + 2 * toolRounds + debate.count + 1 <= NodesNeeded + 2 * toolRounds
    BY <1>1, <1>2, <2>3, NodesAdded
  <2> QED
    BY <2>1, <2>4
<1>7. CASE node \in {"Research Manager", "Trader"}
  <2>1. \/ steps = 2 * N + 2 * toolRounds + DebateTurns
        \/ steps = 2 * N + 2 * toolRounds + DebateTurns + 1
    BY <1>7 DEF IInv, StepCount
  <2>2. 2 * N + 2 * toolRounds + DebateTurns + 1 <= NodesNeeded + 2 * toolRounds
    BY <1>1, TurnsType, NodesAdded
  <2> QED
    BY <2>1, <2>2
<1>8. CASE node \in RiskNodes
  <2>1. steps = 2 * N + 2 * toolRounds + DebateTurns + 2 + risk.count
    BY <1>8 DEF IInv, StepCount
  <2>2. risk.count < RiskTurns
    BY <1>8 DEF IInv, RiskSoFar
  <2>3. risk.count <= RiskTurns
    BY <1>2, <2>2, TurnsType
  <2>4. 2 * N + 2 * toolRounds + DebateTurns + 2 + risk.count + 1 <= NodesNeeded + 2 * toolRounds
    BY <1>1, <1>2, <2>3, NodesAdded
  <2> QED
    BY <2>1, <2>4
<1>9. CASE node = "Q-KUKEB Executor"
  <2>1. steps = 2 * N + 2 * toolRounds + DebateTurns + 2 + RiskTurns
    BY <1>9 DEF IInv, StepCount
  <2>2. 2 * N + 2 * toolRounds + DebateTurns + 2 + RiskTurns + 1 <= NodesNeeded + 2 * toolRounds
    BY <1>1, TurnsType, NodesAdded
  <2> QED
    BY <2>1, <2>2
<1> QED
  BY <1>5, <1>6, <1>7, <1>8, <1>9 DEF Running

LEMMA StopsIInv == IInv /\ (OutOfSteps \/ Fail) => IInv'
<1> SUFFICES ASSUME IInv, OutOfSteps \/ Fail PROVE IInv'
  OBVIOUS
<1>1. /\ node \in Running /\ node' \in {"out of steps", "raised"}
      /\ node' = "out of steps" => steps = MaxRecurLimit
      /\ turn' = turn /\ steps' = steps /\ attempt' = attempt /\ checkpointed' = checkpointed
      /\ messages' = messages /\ report' = report /\ debate' = debate /\ plan' = plan
      /\ proposal' = proposal /\ risk' = risk /\ decision' = decision
      /\ toolRounds' = toolRounds
  BY DEF OutOfSteps, Fail
<1>2. TypeOK'
  BY <1>1 DEF IInv, TypeOK, Ended
<1>3. StepCount' /\ Written' /\ ResearchSoFar' /\ RiskSoFar'
  BY <1>1 DEF StepCount, Written, ResearchSoFar, RiskSoFar, Running, Analysing, Deciding, RiskNodes
<1>4. CutOffOnlyByTools'
  <2>1. steps <= NodesNeeded + 2 * toolRounds
    BY <1>1, StepsBound
  <2>2. node' = "out of steps" => NodesNeeded + 2 * toolRounds >= MaxRecurLimit
    BY <1>1, <2>1
  <2> QED
    BY <1>1, <2>2 DEF CutOffOnlyByTools, NodesNeeded, DebateTurns, RiskTurns
<1> QED
  BY <1>2, <1>3, <1>4 DEF IInv

LEMMA StutterIInv == IInv /\ UNCHANGED vars => IInv'
<1> SUFFICES ASSUME IInv, UNCHANGED vars PROVE IInv'
  OBVIOUS
<1> USE DEF IInv, vars
<1>1. TypeOK'
  BY DEF TypeOK
<1>2. StepCount'
  BY DEF StepCount
<1>3. Written'
  BY DEF Written
<1>4. ResearchSoFar'
  BY DEF ResearchSoFar
<1>5. RiskSoFar'
  BY DEF RiskSoFar
<1>6. CutOffOnlyByTools'
  BY DEF CutOffOnlyByTools
<1> QED
  BY <1>1, <1>2, <1>3, <1>4, <1>5, <1>6

LEMMA NextIInv == IInv /\ [Next]_vars => IInv'
<1> SUFFICES ASSUME IInv, [Next]_vars PROVE IInv'
  OBVIOUS
<1>1. CASE Invoke
  BY <1>1, InvokeIInv
<1>2. CASE MarketAnalyst \/ SocialMediaAnalyst \/ NewsAnalyst \/ FundamentalsAnalyst
  <2>1. PICK type \in AnalystTypes : Analyst(type)
    BY <1>2 DEF MarketAnalyst, SocialMediaAnalyst, NewsAnalyst, FundamentalsAnalyst, AnalystTypes
  <2> QED
    BY <2>1, AnalystIInv
<1>3. CASE ToolsNode \/ MsgClear
  BY <1>3, ToolsNodeIInv, MsgClearIInv
<1>4. CASE BullResearcher \/ BearResearcher \/ ResearchManager \/ Trader
  BY <1>4, BullResearcherIInv, BearResearcherIInv, ResearchManagerIInv, TraderIInv
<1>5. CASE AggressiveAnalyst \/ ConservativeAnalyst \/ NeutralAnalyst
  BY <1>5, AggressiveIInv, ConservativeIInv, NeutralIInv
<1>6. CASE Executor
  BY <1>6, ExecutorIInv
<1>7. CASE OutOfSteps \/ Fail
  BY <1>7, StopsIInv
<1>8. CASE UNCHANGED vars
  BY <1>8, StutterIInv
<1> QED
  BY <1>1, <1>2, <1>3, <1>4, <1>5, <1>6, <1>7, <1>8 DEF Next, Step

LEMMA Inductive == Spec => []IInv
  BY InitIInv, NextIInv, PTL DEF Spec

-----------------------------------------------------------------------------
(* The types of the graph's state.                                         *)
THEOREM TypeCorrect == Spec => []TypeOK
<1>1. IInv => TypeOK
  BY DEF IInv
<1> QED
  BY <1>1, Inductive, PTL

(* No run is cut off by the limit on the nodes unless its rounds of tools  *)
(* do not fit beside the nodes that every run needs.                       *)
THEOREM CutOffBound == Spec => []CutOffOnlyByTools
<1>1. IInv => CutOffOnlyByTools
  BY DEF IInv
<1> QED
  BY <1>1, Inductive, PTL

(* What the executor decides on was written by this attempt, and so is     *)
(* what is logged at the end.                                              *)
THEOREM OneRun == Spec => []DecisionFromOneRun
<1>1. IInv => DecisionFromOneRun
  <2> SUFFICES ASSUME IInv, node \in {"Q-KUKEB Executor", "END"} PROVE DecisionFromOneRun
    BY DEF DecisionFromOneRun
  <2>1. /\ node \in Running \cup {"END"} /\ node \notin Analysing
        /\ node \in Deciding
    BY DEF Running, Analysing, Deciding, RiskNodes
  <2>2. /\ \A i \in 1..N : report[SelectedAnalysts[i]] = attempt
        /\ debate.judge = attempt /\ plan = attempt /\ proposal = attempt
        /\ node = "END" => risk.judge = attempt /\ decision.run = attempt
    BY <2>1 DEF IInv, Written
  <2>3. AllOf(debate.history, attempt) /\ AllOf(risk.history, attempt)
    BY <2>1 DEF IInv, ResearchSoFar, RiskSoFar
  <2> QED
    BY <2>2, <2>3 DEF DecisionFromOneRun, AllOf, N
<1> QED
  BY <1>1, Inductive, PTL

(* The executor never submits an order: the payload has become a text      *)
(* before it is asked whether it is a payload.                             *)
THEOREM NeverSubmits == Spec => [](decision.submitted = FALSE)
<1> DEFINE Held == decision.submitted = FALSE
<1>0. NoDecision.submitted = FALSE
  BY DEF NoDecision
<1>1. Init => Held
  <2>1. Init => decision = NoDecision
    BY DEF Init
  <2> QED
    BY <1>0, <2>1
<1>2. IInv /\ Held /\ [Next]_vars => Held'
  <2> SUFFICES ASSUME IInv, Held, [Next]_vars PROVE Held'
    OBVIOUS
  <2>1. CASE Executor
    BY <2>1, ExecutorIInv
  <2>2. CASE Invoke
    <3>1. decision' = NoDecision \/ decision' = decision
      BY <2>2 DEF Invoke
    <3> QED
      BY <1>0, <3>1
  <2>3. CASE ~Executor /\ ~Invoke
    <3>1. decision' = decision
      BY <2>3 DEF Next, Step, vars, MarketAnalyst, SocialMediaAnalyst, NewsAnalyst,
         FundamentalsAnalyst, Analyst, ToolsNode, MsgClear, BullResearcher, BearResearcher,
         ResearchManager, Trader, AggressiveAnalyst, ConservativeAnalyst, NeutralAnalyst,
         RiskAnalyst, OutOfSteps, Fail
    <3> QED
      BY <3>1
  <2> QED
    BY <2>1, <2>2, <2>3
<1> QED
  BY <1>1, <1>2, Inductive, PTL DEF Spec

-----------------------------------------------------------------------------
(* The debates implement the panel.                                        *)
LEMMA NobodySpoke == SpeakersOf(<<>>) = <<>>
  BY DEF SpeakersOf

LEMMA SpeakersLen ==
  ASSUME NEW S, NEW history \in Seq(S) PROVE Len(SpeakersOf(history)) = Len(history)
<1>1. Len(history) \in Nat
  BY LenProperties
<1> QED
  BY <1>1 DEF SpeakersOf

LEMMA ResearchKept ==
  ASSUME [Next]_vars, ~Invoke, ~BullResearcher, ~BearResearcher, ~ResearchManager
  PROVE  debate' = debate
  BY DEF Next, Step, vars, MarketAnalyst, SocialMediaAnalyst, NewsAnalyst, FundamentalsAnalyst,
     Analyst, ToolsNode, MsgClear, Trader, AggressiveAnalyst, ConservativeAnalyst,
     NeutralAnalyst, RiskAnalyst, Executor, OutOfSteps, Fail

LEMMA NoVerdictYet == \A j \in Attempts \cup {Absent} : j \in Int /\ (j <= 0 => ~(j > 0))
  BY GraphAssumption DEF Attempts, Absent

LEMMA BullSpeaks == IInv /\ BullResearcher => ResearchDebate!Speak
<1> SUFFICES ASSUME IInv, BullResearcher PROVE ResearchDebate!Speak
  OBVIOUS
<1> DEFINE argument == [by |-> "Bull", run |-> attempt, at |-> debate.count + 1]
<1>1. debate' = [history |-> Append(debate.history, argument),
                 bull |-> Append(debate.bull, argument), bear |-> debate.bear,
                 current |-> "Bull", judge |-> Absent, count |-> debate.count + 1]
  BY DEF BullResearcher
<1>2. node = "Bull Researcher" /\ node \in Running
  BY DEF BullResearcher, At, Running
<1>3. /\ debate.count = Len(debate.history) /\ debate.judge <= 0
      /\ debate.count % 2 = 0 /\ debate.count < DebateTurns
  BY <1>2 DEF IInv, ResearchSoFar
<1>4. debate \in InvestDebateState /\ attempt \in Attempts
  BY DEF IInv, TypeOK
<1>5. /\ debate.history \in Seq(Arguments({"Bull", "Bear"})) /\ debate.count \in Nat
      /\ debate.judge \in Attempts \cup {Absent}
  BY <1>4 DEF InvestDebateState
<1>6. argument \in Arguments({"Bull", "Bear"}) /\ argument.by = "Bull"
  <2>1. debate.count \in Nat
    BY <1>5
  <2>2. debate.count + 1 \in Nat
    BY <2>1, OneMore
  <2> QED
    BY <1>4, <2>2 DEF Arguments
<1> HIDE DEF argument
<1>7. SpeakersOf(debate'.history) = Append(SpeakersOf(debate.history), "Bull")
  BY <1>1, <1>5, <1>6, SpeakersAppended
<1>8. Len(SpeakersOf(debate.history)) = debate.count
  BY <1>3, <1>5, SpeakersLen
<1>9. debate.count < DebateTurns
  <2>1. debate.count \in Nat
    BY <1>5
  <2> QED
    BY <1>3, <2>1, GraphAssumption DEF DebateTurns
<1>10. <<"Bull", "Bear">>[(debate.count % Len(<<"Bull", "Bear">>)) + 1] = "Bull"
  <2>1. debate.count % 2 = 0
    BY <1>3
  <2> QED
    BY <2>1
<1>11. ~(debate.judge > 0) /\ ~(debate'.judge > 0)
  <2>1. ~(debate.judge > 0)
    BY <1>3, <1>5, NoVerdictYet
  <2>2. debate'.judge = -1
    BY <1>1 DEF Absent
  <2> QED
    BY <2>1, <2>2
<1> QED
  BY <1>7, <1>8, <1>9, <1>10, <1>11 DEF ResearchDebate!Speak

LEMMA BearSpeaks == IInv /\ BearResearcher => ResearchDebate!Speak
<1> SUFFICES ASSUME IInv, BearResearcher PROVE ResearchDebate!Speak
  OBVIOUS
<1> DEFINE argument == [by |-> "Bear", run |-> attempt, at |-> debate.count + 1]
<1>1. debate' = [history |-> Append(debate.history, argument),
                 bear |-> Append(debate.bear, argument), bull |-> debate.bull,
                 current |-> "Bear", judge |-> Absent, count |-> debate.count + 1]
  BY DEF BearResearcher
<1>2. node = "Bear Researcher" /\ node \in Running
  BY DEF BearResearcher, At, Running
<1>3. /\ debate.count = Len(debate.history) /\ debate.judge <= 0
      /\ debate.count % 2 = 1 /\ debate.count < 2 * MaxDebateRounds
  BY <1>2 DEF IInv, ResearchSoFar
<1>4. debate \in InvestDebateState /\ attempt \in Attempts
  BY DEF IInv, TypeOK
<1>5. /\ debate.history \in Seq(Arguments({"Bull", "Bear"})) /\ debate.count \in Nat
      /\ debate.judge \in Attempts \cup {Absent}
  BY <1>4 DEF InvestDebateState
<1>6. argument \in Arguments({"Bull", "Bear"}) /\ argument.by = "Bear"
  <2>1. debate.count \in Nat
    BY <1>5
  <2>2. debate.count + 1 \in Nat
    BY <2>1, OneMore
  <2> QED
    BY <1>4, <2>2 DEF Arguments
<1> HIDE DEF argument
<1>7. SpeakersOf(debate'.history) = Append(SpeakersOf(debate.history), "Bear")
  BY <1>1, <1>5, <1>6, SpeakersAppended
<1>8. Len(SpeakersOf(debate.history)) = debate.count
  BY <1>3, <1>5, SpeakersLen
<1>9. debate.count < DebateTurns
  <2>1. debate.count \in Nat
    BY <1>5
  <2> QED
    BY <1>3, <2>1, GraphAssumption DEF DebateTurns
<1>10. <<"Bull", "Bear">>[(debate.count % Len(<<"Bull", "Bear">>)) + 1] = "Bear"
  <2>1. debate.count % 2 = 1
    BY <1>3
  <2> QED
    BY <2>1
<1>11. ~(debate.judge > 0) /\ ~(debate'.judge > 0)
  <2>1. ~(debate.judge > 0)
    BY <1>3, <1>5, NoVerdictYet
  <2>2. debate'.judge = -1
    BY <1>1 DEF Absent
  <2> QED
    BY <2>1, <2>2
<1> QED
  BY <1>7, <1>8, <1>9, <1>10, <1>11 DEF ResearchDebate!Speak

LEMMA ResearchJudged == IInv /\ ResearchManager => ResearchDebate!Judge
<1> SUFFICES ASSUME IInv, ResearchManager PROVE ResearchDebate!Judge
  OBVIOUS
<1>1. /\ node = "Research Manager" /\ node \in Running
      /\ debate' = [debate EXCEPT !.judge = attempt, !.current = "Plan"]
  BY DEF ResearchManager, At, Running
<1>2. /\ debate.count = Len(debate.history) /\ debate.judge <= 0 /\ debate.count = DebateTurns
      /\ attempt > 0
  BY <1>1 DEF IInv, ResearchSoFar, Written
<1>3. debate \in InvestDebateState
  BY DEF IInv, TypeOK
<1>4. /\ debate.history \in Seq(Arguments({"Bull", "Bear"})) /\ debate.judge \in Attempts \cup {Absent}
      /\ debate'.history = debate.history /\ debate'.judge = attempt
  BY <1>1, <1>3 DEF InvestDebateState
<1>5. Len(SpeakersOf(debate.history)) = DebateTurns
  BY <1>2, <1>4, SpeakersLen
<1>6. ~(debate.judge > 0)
  BY <1>2, <1>4, NoVerdictYet
<1>7. (debate'.judge > 0) = TRUE
  BY <1>2, <1>4
<1> QED
  BY <1>4, <1>5, <1>6, <1>7 DEF ResearchDebate!Judge

(* The debate of the researchers implements the panel of two.              *)
THEOREM ResearchRefinesPanel == Spec => ImplementsResearchDebate
<1>1. Init => ResearchDebate!Init
  <2> SUFFICES ASSUME Init PROVE ResearchDebate!Init
    OBVIOUS
  <2>1. debate.history = <<>> /\ debate.judge = 0
    BY DEF Init, NoDebate
  <2> QED
    BY <2>1, NobodySpoke DEF ResearchDebate!Init
<1>2. IInv /\ [Next]_vars => [ResearchDebate!Next]_(ResearchDebate!vars)
  <2> SUFFICES ASSUME IInv, [Next]_vars
               PROVE  ResearchDebate!Next \/ UNCHANGED ResearchDebate!vars
    OBVIOUS
  <2>1. CASE Invoke
    <3>1. debate'.history = <<>> /\ debate'.judge = 0
      BY <2>1 DEF Invoke, NoDebate
    <3>2. ResearchDebate!StartOver
      BY <3>1, NobodySpoke DEF ResearchDebate!StartOver
    <3> QED
      BY <3>2 DEF ResearchDebate!Next
  <2>2. CASE BullResearcher \/ BearResearcher
    BY <2>2, BullSpeaks, BearSpeaks DEF ResearchDebate!Next
  <2>3. CASE ResearchManager
    BY <2>3, ResearchJudged DEF ResearchDebate!Next
  <2>4. CASE ~Invoke /\ ~BullResearcher /\ ~BearResearcher /\ ~ResearchManager
    <3>1. debate' = debate
      BY <2>4, ResearchKept
    <3> QED
      BY <3>1 DEF ResearchDebate!vars
  <2> QED
    BY <2>1, <2>2, <2>3, <2>4
<1> QED
  BY <1>1, <1>2, Inductive, PTL DEF Spec, ImplementsResearchDebate, ResearchDebate!Spec

LEMMA RiskKept ==
  ASSUME [Next]_vars, ~Invoke, ~AggressiveAnalyst, ~ConservativeAnalyst, ~NeutralAnalyst,
         ~Executor
  PROVE  risk' = risk
  BY DEF Next, Step, vars, MarketAnalyst, SocialMediaAnalyst, NewsAnalyst, FundamentalsAnalyst,
     Analyst, ToolsNode, MsgClear, BullResearcher, BearResearcher, ResearchManager, Trader,
     OutOfSteps, Fail

LEMMA RiskSpeaks ==
  ASSUME IInv, node \in RiskNodes, NEW s \in RiskSpeakers, risk' = Spoken(risk, s),
         <<"Aggressive", "Conservative", "Neutral">>[(risk.count % 3) + 1] = s
  PROVE  RiskDebate!Speak
<1>1. node \in Running /\ node \in Deciding
  BY DEF Running, Deciding
<1>2. /\ risk.count = Len(risk.history) /\ risk.judge <= 0 /\ risk.count < RiskTurns
      /\ AllOf(risk.history, attempt)
  BY <1>1 DEF IInv, RiskSoFar
<1>3. risk \in RiskDebateState /\ attempt \in Attempts
  BY DEF IInv, TypeOK
<1>4. risk.history \in Seq(Arguments(RiskSpeakers)) /\ risk.judge \in Attempts \cup {Absent}
  BY <1>3 DEF RiskDebateState
<1>5. /\ risk'.judge = -1
      /\ SpeakersOf(risk'.history) = Append(SpeakersOf(risk.history), s)
  BY <1>2, <1>3, SpokenType
<1>6. Len(SpeakersOf(risk.history)) = risk.count
  BY <1>2, <1>4, SpeakersLen
<1>7. ~(risk.judge > 0) /\ ~(risk'.judge > 0)
  <2>1. ~(risk.judge > 0)
    BY <1>2, <1>4, NoVerdictYet
  <2>2. ~(risk'.judge > 0)
    BY <1>5
  <2> QED
    BY <2>1, <2>2
<1>8. Len(<<"Aggressive", "Conservative", "Neutral">>) = 3
  OBVIOUS
<1> DEFINE order == <<"Aggressive", "Conservative", "Neutral">>
           said == SpeakersOf(risk.history)
<1>9. order[(Len(said) % Len(order)) + 1] = s
  BY <1>6, <1>8
<1>10. Len(said) < RiskTurns /\ SpeakersOf(risk'.history) = Append(said, s)
  BY <1>2, <1>5, <1>6
<1>11. (risk'.judge > 0) = (risk.judge > 0)
  BY <1>7
<1> HIDE DEF order, said
<1>12. /\ ~(risk.judge > 0) /\ Len(said) < RiskTurns
       /\ SpeakersOf(risk'.history) = Append(said, order[(Len(said) % Len(order)) + 1])
       /\ (risk'.judge > 0) = (risk.judge > 0)
  BY <1>7, <1>9, <1>10, <1>11
<1> QED
  BY <1>12 DEF RiskDebate!Speak, order, said

LEMMA RiskJudged == IInv /\ Executor => RiskDebate!Judge
<1> SUFFICES ASSUME IInv, Executor PROVE RiskDebate!Judge
  OBVIOUS
<1>1. /\ node = "Q-KUKEB Executor" /\ node \in Running
      /\ risk' = [risk EXCEPT !.judge = attempt, !.latest = "Judge"]
  BY DEF Executor, At, Running, UpdateRiskState
<1>2. /\ risk.count = Len(risk.history) /\ risk.judge <= 0 /\ risk.count = RiskTurns
      /\ attempt > 0
  BY <1>1 DEF IInv, RiskSoFar, Written
<1>3. risk \in RiskDebateState
  BY DEF IInv, TypeOK
<1>4. /\ risk.history \in Seq(Arguments(RiskSpeakers)) /\ risk.judge \in Attempts \cup {Absent}
      /\ risk'.history = risk.history /\ risk'.judge = attempt
  BY <1>1, <1>3 DEF RiskDebateState
<1>5. Len(SpeakersOf(risk.history)) = RiskTurns
  BY <1>2, <1>4, SpeakersLen
<1>6. ~(risk.judge > 0)
  BY <1>2, <1>4, NoVerdictYet
<1>7. (risk'.judge > 0) = TRUE
  BY <1>2, <1>4
<1> QED
  BY <1>4, <1>5, <1>6, <1>7 DEF RiskDebate!Judge

(* The debate on the risk implements the panel of three.                   *)
THEOREM RiskRefinesPanel == Spec => ImplementsRiskDebate
<1>1. Init => RiskDebate!Init
  <2> SUFFICES ASSUME Init PROVE RiskDebate!Init
    OBVIOUS
  <2>1. risk.history = <<>> /\ risk.judge = 0
    BY DEF Init, NoRiskDebate
  <2> QED
    BY <2>1, NobodySpoke DEF RiskDebate!Init
<1>2. IInv /\ [Next]_vars => [RiskDebate!Next]_(RiskDebate!vars)
  <2> SUFFICES ASSUME IInv, [Next]_vars PROVE RiskDebate!Next \/ UNCHANGED RiskDebate!vars
    OBVIOUS
  <2>1. CASE Invoke
    <3>1. risk'.history = <<>> /\ risk'.judge = 0
      BY <2>1 DEF Invoke, NoRiskDebate
    <3>2. RiskDebate!StartOver
      BY <3>1, NobodySpoke DEF RiskDebate!StartOver
    <3> QED
      BY <3>2 DEF RiskDebate!Next
  <2>2. CASE AggressiveAnalyst \/ ConservativeAnalyst \/ NeutralAnalyst
    <3>1. PICK s \in RiskSpeakers :
            /\ node \in RiskNodes /\ risk' = Spoken(risk, s)
            /\ \/ s = "Aggressive" /\ node = "Aggressive Analyst"
               \/ s = "Conservative" /\ node = "Conservative Analyst"
               \/ s = "Neutral" /\ node = "Neutral Analyst"
      BY <2>2 DEF AggressiveAnalyst, ConservativeAnalyst, NeutralAnalyst, RiskAnalyst, At,
         RiskNodes, RiskSpeakers
    <3>2. \/ s = "Aggressive" /\ risk.count % 3 = 0
          \/ s = "Conservative" /\ risk.count % 3 = 1
          \/ s = "Neutral" /\ risk.count % 3 = 2
      BY <3>1 DEF IInv, RiskSoFar
    <3>3. <<"Aggressive", "Conservative", "Neutral">>[(risk.count % 3) + 1] = s
      BY <3>2
    <3>4. RiskDebate!Speak
      BY <3>1, <3>3, RiskSpeaks
    <3> QED
      BY <3>4 DEF RiskDebate!Next
  <2>3. CASE Executor
    BY <2>3, RiskJudged DEF RiskDebate!Next
  <2>4. CASE ~Invoke /\ ~AggressiveAnalyst /\ ~ConservativeAnalyst /\ ~NeutralAnalyst /\ ~Executor
    <3>1. risk' = risk
      BY <2>4, RiskKept
    <3> QED
      BY <3>1 DEF RiskDebate!vars
  <2> QED
    BY <2>1, <2>2, <2>3, <2>4
<1> QED
  BY <1>1, <1>2, Inductive, PTL DEF Spec, ImplementsRiskDebate, RiskDebate!Spec

-----------------------------------------------------------------------------
(* The conversation of an analyst.                                         *)
(*                                                                         *)
(* While its tools run the last call has no answer yet; and the first      *)
(* attempt finds no messages, even where checkpoints are enabled.          *)
OwnAttempt == ~(checkpointed /\ attempt > 1)

OwnMessages ==
  \A i \in 1..Len(messages) :
    /\ messages[i].by \in {SelectedAnalysts[turn], "human", "placeholder", "tool"}
    /\ messages[i].calls /\ i < Len(messages) => messages[i + 1].by = "tool"
    /\ messages[i].calls /\ node = "Analyst" => i < Len(messages)

Conversation ==
  /\ attempt = 0 => messages = <<>>
  /\ node \in {"Analyst", "tools"} /\ OwnAttempt => OwnMessages

LEMMA AttemptFacts == IInv => attempt \in Nat /\ (node \in Running => attempt # 0)
<1> SUFFICES ASSUME IInv PROVE attempt \in Nat /\ (node \in Running => attempt # 0)
  OBVIOUS
<1>1. attempt \in Attempts
  BY DEF IInv, TypeOK
<1>2. attempt \in Nat
  BY <1>1, GraphAssumption DEF Attempts
<1>3. node \in Running => attempt > 0
  BY DEF IInv, Written
<1> QED
  BY <1>2, <1>3

LEMMA MessageAppended ==
  ASSUME messages \in Seq(Messages), NEW m \in Messages
  PROVE  /\ Len(messages) \in Nat
         /\ Len(Append(messages, m)) = Len(messages) + 1
         /\ Append(messages, m)[Len(messages) + 1] = m
         /\ \A i \in 1..Len(messages) : Append(messages, m)[i] = messages[i]
         /\ \A i \in 1..(Len(messages) + 1) : i \in 1..Len(messages) \/ i = Len(messages) + 1
<1>1. Len(messages) \in Nat
  BY LenProperties
<1> QED
  BY <1>1, AppendProperties

LEMMA InvokeConversation == IInv /\ Conversation /\ Invoke => Conversation'
<1> SUFFICES ASSUME IInv, Conversation, Invoke PROVE Conversation'
  OBVIOUS
<1>1. /\ node' = "Analyst" /\ attempt' = attempt + 1 /\ checkpointed' = checkpointed
      /\ attempt \in Nat /\ checkpointed \in BOOLEAN
  BY GraphAssumption DEF Invoke, IInv, TypeOK, Attempts
<1>2. ASSUME OwnAttempt' PROVE OwnMessages'
  <2>1. checkpointed => attempt = 0
    BY <1>1, <1>2 DEF OwnAttempt
  <2>2. messages' = <<Human>>
    <3>1. CASE ~checkpointed
      <4>1. CheckpointLeft = {FALSE}
        BY <3>1 DEF CheckpointLeft
      <4> QED
        BY <4>1 DEF Invoke
    <3>2. CASE checkpointed
      <4>1. messages = <<>>
        BY <2>1, <3>2 DEF Conversation
      <4>2. messages' = <<Human>> \/ messages' = Append(<<>>, Human)
        BY <4>1 DEF Invoke
      <4> QED
        BY <4>2
    <3> QED
      BY <3>1, <3>2
  <2>3. Len(messages') = 1 /\ messages'[1] = Human
    BY <2>2
  <2>4. Human.by = "human" /\ Human.calls = FALSE
    BY DEF Human
  <2>5. \A i \in 1..Len(messages') : messages'[i] = Human
    BY <2>3
  <2> QED
    BY <2>4, <2>5 DEF OwnMessages
<1>3. attempt' # 0
  BY <1>1
<1> QED
  BY <1>2, <1>3 DEF Conversation

LEMMA AnalystConversation ==
  ASSUME IInv, Conversation, NEW type \in AnalystTypes, Analyst(type) PROVE Conversation'
<1>1. PICK calls \in BOOLEAN : messages' = Append(messages, [by |-> type, calls |-> calls])
  BY DEF Analyst
<1> DEFINE m == [by |-> type, calls |-> calls]
<1>2. /\ node = "Analyst" /\ SelectedAnalysts[turn] = type /\ turn' = turn
      /\ attempt' = attempt /\ checkpointed' = checkpointed /\ messages \in Seq(Messages)
      /\ attempt \in Nat
      /\ node' = ShouldContinueAnalyst(messages')
  BY GraphAssumption DEF Analyst, At, Goto, IInv, TypeOK, Attempts
<1>3. m \in Messages /\ m.by = type /\ m.calls = calls
  BY DEF Messages
<1>4. /\ Len(messages) \in Nat /\ Len(messages') = Len(messages) + 1
      /\ messages'[Len(messages) + 1] = m
      /\ \A i \in 1..Len(messages) : messages'[i] = messages[i]
      /\ \A i \in 1..Len(messages') : i \in 1..Len(messages) \/ i = Len(messages) + 1
  BY <1>1, <1>2, <1>3, MessageAppended
<1> HIDE DEF m
<1>5. node' # "Analyst"
  BY <1>2 DEF ShouldContinueAnalyst
<1>6. attempt' # 0
  BY <1>2, AttemptFacts DEF Running, Analysing
<1>7. ASSUME OwnAttempt' PROVE OwnMessages'
  <2>1. OwnMessages
    BY <1>2, <1>7 DEF OwnAttempt, Conversation
  <2>2. ASSUME NEW i \in 1..Len(messages)
        PROVE  /\ messages'[i].by \in {SelectedAnalysts[turn], "human", "placeholder", "tool"}
               /\ messages'[i].calls => messages'[i + 1].by = "tool"
    <3>1. messages'[i] = messages[i]
      BY <1>4
    <3>2. messages[i].calls => i < Len(messages) /\ messages[i + 1].by = "tool"
      BY <1>2, <2>1 DEF OwnMessages
    <3>3. i < Len(messages) => messages'[i + 1] = messages[i + 1]
      <4>1. i < Len(messages) => i + 1 \in 1..Len(messages)
        BY <1>4
      <4> QED
        BY <1>4, <4>1
    <3>4. messages[i].by \in {SelectedAnalysts[turn], "human", "placeholder", "tool"}
      BY <2>1 DEF OwnMessages
    <3> QED
      BY <3>1, <3>2, <3>3, <3>4
  <2>3. ASSUME NEW i \in 1..Len(messages'), ~(i \in 1..Len(messages))
        PROVE  /\ messages'[i].by \in {SelectedAnalysts[turn], "human", "placeholder", "tool"}
               /\ ~(i < Len(messages'))
    BY <1>2, <1>3, <1>4, <2>3
  <2> QED
    BY <1>2, <1>5, <2>2, <2>3 DEF OwnMessages
<1> QED
  BY <1>6, <1>7 DEF Conversation

LEMMA ToolsConversation == IInv /\ Conversation /\ ToolsNode => Conversation'
<1> SUFFICES ASSUME IInv, Conversation, ToolsNode PROVE Conversation'
  OBVIOUS
<1> DEFINE m == [by |-> "tool", calls |-> FALSE]
<1>1. /\ node = "tools" /\ node' = "Analyst" /\ turn' = turn /\ attempt' = attempt
      /\ checkpointed' = checkpointed /\ messages \in Seq(Messages) /\ attempt \in Nat
      /\ messages' = Append(messages, m)
  BY GraphAssumption DEF ToolsNode, At, Goto, IInv, TypeOK, Attempts
<1>2. m \in Messages /\ m.by = "tool" /\ m.calls = FALSE
  BY DEF Messages
<1> HIDE DEF m
<1>3. /\ Len(messages) \in Nat /\ Len(messages') = Len(messages) + 1
      /\ messages'[Len(messages) + 1] = m
      /\ \A i \in 1..Len(messages) : messages'[i] = messages[i]
      /\ \A i \in 1..Len(messages') : i \in 1..Len(messages) \/ i = Len(messages) + 1
  BY <1>1, <1>2, MessageAppended
<1>4. attempt' # 0
  BY <1>1, AttemptFacts DEF Running, Analysing
<1>5. ASSUME OwnAttempt' PROVE OwnMessages'
  <2>1. OwnMessages
    BY <1>1, <1>5 DEF OwnAttempt, Conversation
  <2>2. ASSUME NEW i \in 1..Len(messages)
        PROVE  /\ messages'[i].by \in {SelectedAnalysts[turn], "human", "placeholder", "tool"}
               /\ messages'[i].calls => messages'[i + 1].by = "tool"
               /\ i < Len(messages')
    <3>1. messages'[i] = messages[i] /\ i < Len(messages')
      BY <1>3
    <3>2. messages[i].calls /\ i < Len(messages) => messages[i + 1].by = "tool"
      BY <2>1 DEF OwnMessages
    <3>3. IF i < Len(messages) THEN messages'[i + 1] = messages[i + 1]
                               ELSE messages'[i + 1] = m
      <4>1. IF i < Len(messages) THEN i + 1 \in 1..Len(messages) ELSE i + 1 = Len(messages) + 1
        BY <1>3
      <4> QED
        BY <1>3, <4>1
    <3>4. messages[i].by \in {SelectedAnalysts[turn], "human", "placeholder", "tool"}
      BY <2>1 DEF OwnMessages
    <3> QED
      BY <1>2, <3>1, <3>2, <3>3, <3>4
  <2>3. ASSUME NEW i \in 1..Len(messages'), ~(i \in 1..Len(messages))
        PROVE  messages'[i].by = "tool" /\ ~messages'[i].calls
    BY <1>2, <1>3, <2>3
  <2> QED
    BY <1>1, <2>2, <2>3 DEF OwnMessages
<1> QED
  BY <1>4, <1>5 DEF Conversation

LEMMA ClearConversation == IInv /\ Conversation /\ MsgClear => Conversation'
<1> SUFFICES ASSUME IInv, Conversation, MsgClear PROVE Conversation'
  OBVIOUS
<1> DEFINE m == [by |-> "placeholder", calls |-> FALSE]
<1>1. node = "Msg Clear" /\ attempt' = attempt /\ messages' = <<m>>
  <2>1. messages' = Cleared(messages) /\ At("Msg Clear") /\ attempt' = attempt
    BY DEF MsgClear, Goto
  <2> QED
    BY <2>1 DEF Cleared, At
<1>2. m.by = "placeholder" /\ m.calls = FALSE
  OBVIOUS
<1> HIDE DEF m
<1>3. \A i \in 1..Len(messages') : messages'[i] = m
  <2>1. Len(<<m>>) = 1 /\ <<m>>[1] = m
    OBVIOUS
  <2>2. \A i \in 1..1 : i = 1
    OBVIOUS
  <2> QED
    BY <1>1, <2>1, <2>2
<1>4. attempt' # 0
  BY <1>1, AttemptFacts DEF Running, Analysing
<1> QED
  BY <1>2, <1>3, <1>4 DEF Conversation, OwnMessages

(* The other nodes come after the analysts. *)
LEMMA OtherConversation ==
  ASSUME IInv, Conversation, [Next]_vars, ~Invoke, ~ToolsNode, ~MsgClear,
         \A type \in AnalystTypes : ~Analyst(type)
  PROVE  Conversation'
<1>1. CASE UNCHANGED vars
  BY <1>1 DEF vars, Conversation, OwnMessages, OwnAttempt
<1>2. CASE Next
  <2>1. node \in Running /\ attempt' = attempt /\ node' \notin {"Analyst", "tools"}
    <3>1. ~MarketAnalyst /\ ~SocialMediaAnalyst /\ ~NewsAnalyst /\ ~FundamentalsAnalyst
      BY DEF MarketAnalyst, SocialMediaAnalyst, NewsAnalyst, FundamentalsAnalyst, AnalystTypes
    <3>2. CASE BullResearcher \/ BearResearcher \/ ResearchManager \/ Trader \/ Executor
      BY <3>2 DEF BullResearcher, BearResearcher, ResearchManager, Trader, Executor, At, Goto,
         Among, Running
    <3>3. CASE AggressiveAnalyst \/ ConservativeAnalyst \/ NeutralAnalyst
      BY <3>3 DEF AggressiveAnalyst, ConservativeAnalyst, NeutralAnalyst, RiskAnalyst, At, Goto,
         Among, Running, RiskNodes
    <3>4. CASE OutOfSteps \/ Fail
      BY <3>4 DEF OutOfSteps, Fail
    <3> QED
      BY <1>2, <3>1, <3>2, <3>3, <3>4 DEF Next, Step
  <2>2. attempt # 0
    BY <2>1, AttemptFacts
  <2> QED
    BY <2>1, <2>2 DEF Conversation
<1> QED
  BY <1>1, <1>2

(* An analyst that is asked finds its own messages only and no call of it  *)
(* is without an answer, in every run that did not start on a checkpoint.  *)
THEOREM OwnConversation == Spec => []ConversationIsOwn
<1>1. Init => Conversation
  BY DEF Init, Conversation
<1>2. IInv /\ Conversation /\ [Next]_vars => Conversation'
  BY InvokeConversation, AnalystConversation, ToolsConversation, ClearConversation,
     OtherConversation
<1>3. Conversation => ConversationIsOwn
  BY DEF Conversation, OwnAttempt, OwnMessages, ConversationIsOwn
<1> QED
  BY <1>1, <1>2, <1>3, Inductive, PTL DEF Spec

-----------------------------------------------------------------------------
(* The transcripts.                                                        *)
(*                                                                         *)
(* The turn of an argument is its place in the transcript, so what is said *)
(* next is later than all of what the speaker said before.                 *)
SameElements(own, history, s) ==
  /\ \A i \in 1..Len(own) :
       \E j \in 1..Len(history) : history[j] = own[i] /\ history[j].by = s
  /\ \A j \in 1..Len(history) :
       history[j].by = s => \E i \in 1..Len(own) : own[i] = history[j]

LEMMA PartElements ==
  ASSUME NEW own, NEW history, NEW s, IsPart(own, history, s)
  PROVE  SameElements(own, history, s)
<1> DEFINE A == {own[i] : i \in 1..Len(own)}
           B == {history[i] : i \in {j \in 1..Len(history) : history[j].by = s}}
<1>1. A = B
  BY DEF IsPart
<1>2. ASSUME NEW i \in 1..Len(own)
      PROVE  \E j \in 1..Len(history) : history[j] = own[i] /\ history[j].by = s
  <2>1. own[i] \in B
    BY <1>1
  <2> QED
    BY <2>1
<1>3. ASSUME NEW j \in 1..Len(history), history[j].by = s
      PROVE  \E i \in 1..Len(own) : own[i] = history[j]
  <2>1. history[j] \in A
    BY <1>1, <1>3
  <2> QED
    BY <2>1
<1> QED
  BY <1>2, <1>3 DEF SameElements

LEMMA PartFromElements ==
  ASSUME NEW own, NEW history, NEW s,
         \A i \in 1..Len(own) :
           \E j \in 1..Len(history) : history[j] = own[i] /\ history[j].by = s,
         \A j \in 1..Len(history) :
           history[j].by = s => \E i \in 1..Len(own) : own[i] = history[j],
         \A i, j \in 1..Len(own) : i < j => own[i].at < own[j].at
  PROVE  IsPart(own, history, s)
<1> DEFINE A == {own[i] : i \in 1..Len(own)}
           B == {history[i] : i \in {j \in 1..Len(history) : history[j].by = s}}
<1>1. A \subseteq B
  OBVIOUS
<1>2. B \subseteq A
  OBVIOUS
<1>3. A = B
  BY <1>1, <1>2
<1> QED
  BY <1>3 DEF IsPart

(* The shape of a history or of a part with one more argument. *)
LEMMA OneArgumentMore ==
  ASSUME NEW S, NEW h \in Seq(S), NEW a \in S
  PROVE  /\ Len(h) \in Nat /\ Len(Append(h, a)) = Len(h) + 1
         /\ Len(h) + 1 \in 1..Len(Append(h, a)) /\ Append(h, a)[Len(h) + 1] = a
         /\ \A i \in 1..Len(h) : i \in 1..Len(Append(h, a)) /\ Append(h, a)[i] = h[i]
         /\ \A i \in 1..Len(Append(h, a)) : i \in Int /\ (i \in 1..Len(h) \/ i = Len(h) + 1)
<1>1. Len(h) \in Nat /\ Len(Append(h, a)) = Len(h) + 1 /\ Append(h, a)[Len(h) + 1] = a
  BY AppendProperties, LenProperties
<1>2. \A i \in 1..Len(h) : Append(h, a)[i] = h[i]
  BY AppendProperties
<1> QED
  BY <1>1, <1>2

LEMMA TranscriptGrows ==
  ASSUME NEW S, NEW h \in Seq(S), NEW a \in S, NEW count \in Nat,
         IsTranscript(h, count), a.at = count + 1
  PROVE  IsTranscript(Append(h, a), count + 1)
<1>1. count = Len(h) /\ \A i \in 1..Len(h) : h[i].at = i
  BY DEF IsTranscript
<1>2. /\ Len(Append(h, a)) = Len(h) + 1 /\ Append(h, a)[Len(h) + 1] = a
      /\ \A i \in 1..Len(h) : Append(h, a)[i] = h[i]
      /\ \A i \in 1..Len(Append(h, a)) : i \in 1..Len(h) \/ i = Len(h) + 1
  BY OneArgumentMore
<1>3. \A i \in 1..Len(Append(h, a)) : Append(h, a)[i].at = i
  BY <1>1, <1>2
<1> QED
  BY <1>1, <1>2, <1>3 DEF IsTranscript

LEMMA SpeakersPart ==
  ASSUME NEW S, NEW h \in Seq(S), NEW T, NEW own \in Seq(T), NEW a \in S, a \in T,
         NEW count \in Nat, IsTranscript(h, count), a.at = count + 1,
         NEW s, a.by = s, IsPart(own, h, s)
  PROVE  IsPart(Append(own, a), Append(h, a), s)
<1> DEFINE h2 == Append(h, a)
           own2 == Append(own, a)
<1>1. count = Len(h) /\ \A i \in 1..Len(h) : h[i].at = i
  BY DEF IsTranscript
<1>2. /\ Len(h) \in Nat /\ Len(h2) = Len(h) + 1
      /\ Len(h) + 1 \in 1..Len(h2) /\ h2[Len(h) + 1] = a
      /\ \A i \in 1..Len(h) : i \in 1..Len(h2) /\ h2[i] = h[i]
      /\ \A i \in 1..Len(h2) : i \in Int /\ (i \in 1..Len(h) \/ i = Len(h) + 1)
  BY OneArgumentMore, Zenon
<1>3. /\ Len(own) \in Nat /\ Len(own2) = Len(own) + 1
      /\ Len(own) + 1 \in 1..Len(own2) /\ own2[Len(own) + 1] = a
      /\ \A i \in 1..Len(own) : i \in 1..Len(own2) /\ own2[i] = own[i]
      /\ \A i \in 1..Len(own2) : i \in Int /\ (i \in 1..Len(own) \/ i = Len(own) + 1)
  BY OneArgumentMore, Zenon
<1> HIDE DEF h2, own2
<1>0. SameElements(own, h, s)
  BY PartElements
<1>4. /\ \A i \in 1..Len(own) : \E j \in 1..Len(h) : h[j] = own[i] /\ h[j].by = s
      /\ \A j \in 1..Len(h) : h[j].by = s => \E i \in 1..Len(own) : own[i] = h[j]
  BY <1>0 DEF SameElements
<1>5. ASSUME NEW i \in 1..Len(own2)
      PROVE  \E j \in 1..Len(h2) : h2[j] = own2[i] /\ h2[j].by = s
  <2>1. CASE i \in 1..Len(own)
    <3>1. PICK j \in 1..Len(h) : h[j] = own[i] /\ h[j].by = s
      BY <1>4, <2>1
    <3>2. own2[i] = own[i] /\ h2[j] = h[j] /\ j \in 1..Len(h2)
      BY <1>2, <1>3, <2>1
    <3> QED
      BY <3>1, <3>2
  <2>2. CASE i = Len(own) + 1
    BY <1>2, <1>3, <2>2
  <2> QED
    BY <1>3, <2>1, <2>2
<1>6. ASSUME NEW j \in 1..Len(h2), h2[j].by = s
      PROVE  \E i \in 1..Len(own2) : own2[i] = h2[j]
  <2>1. CASE j \in 1..Len(h)
    <3>1. h2[j] = h[j]
      BY <1>2, <2>1
    <3>2. PICK i \in 1..Len(own) : own[i] = h[j]
      BY <1>4, <1>6, <2>1, <3>1
    <3>3. own2[i] = own[i] /\ i \in 1..Len(own2)
      BY <1>3
    <3> QED
      BY <3>1, <3>2, <3>3
  <2>2. CASE j = Len(h) + 1
    BY <1>2, <1>3, <2>2
  <2> QED
    BY <1>2, <2>1, <2>2
<1>7. \A i \in 1..Len(own) : own[i].at < a.at
  <2> SUFFICES ASSUME NEW i \in 1..Len(own) PROVE own[i].at < a.at
    OBVIOUS
  <2>1. PICK j \in 1..Len(h) : h[j] = own[i]
    BY <1>4
  <2>2. own[i].at = j /\ j < count + 1
    BY <1>1, <1>2, <2>1
  <2> QED
    BY <2>2
<1>8. ASSUME NEW i \in 1..Len(own2), NEW j \in 1..Len(own2), i < j
      PROVE  own2[i].at < own2[j].at
  <2>1. i \in 1..Len(own) /\ own2[i] = own[i]
    BY <1>3, <1>8
  <2>2. CASE j \in 1..Len(own)
    <3>1. own[i].at < own[j].at
      BY <1>8, <2>1, <2>2 DEF IsPart
    <3> QED
      BY <1>3, <2>1, <2>2, <3>1
  <2>3. CASE j = Len(own) + 1
    BY <1>3, <1>7, <2>1, <2>3
  <2> QED
    BY <1>3, <2>2, <2>3
<1>9. IsPart(own2, h2, s)
  BY <1>5, <1>6, <1>8, PartFromElements
<1> QED
  BY <1>9 DEF own2, h2

LEMMA OthersPart ==
  ASSUME NEW S, NEW h \in Seq(S), NEW own, NEW a \in S, NEW s, a.by # s, IsPart(own, h, s)
  PROVE  IsPart(own, Append(h, a), s)
<1> DEFINE h2 == Append(h, a)
<1>1. /\ Len(h) \in Nat /\ Len(h2) = Len(h) + 1
      /\ Len(h) + 1 \in 1..Len(h2) /\ h2[Len(h) + 1] = a
      /\ \A i \in 1..Len(h) : i \in 1..Len(h2) /\ h2[i] = h[i]
      /\ \A i \in 1..Len(h2) : i \in Int /\ (i \in 1..Len(h) \/ i = Len(h) + 1)
  BY OneArgumentMore, Zenon
<1> HIDE DEF h2
<1>0. SameElements(own, h, s)
  BY PartElements
<1>2. /\ \A i \in 1..Len(own) : \E j \in 1..Len(h) : h[j] = own[i] /\ h[j].by = s
      /\ \A j \in 1..Len(h) : h[j].by = s => \E i \in 1..Len(own) : own[i] = h[j]
  BY <1>0 DEF SameElements
<1>3. ASSUME NEW i \in 1..Len(own)
      PROVE  \E j \in 1..Len(h2) : h2[j] = own[i] /\ h2[j].by = s
  <2>1. PICK j \in 1..Len(h) : h[j] = own[i] /\ h[j].by = s
    BY <1>2
  <2>2. h2[j] = h[j] /\ j \in 1..Len(h2)
    BY <1>1
  <2> QED
    BY <2>1, <2>2
<1>4. ASSUME NEW j \in 1..Len(h2), h2[j].by = s
      PROVE  \E i \in 1..Len(own) : own[i] = h2[j]
  <2>1. j \in 1..Len(h) /\ h2[j] = h[j]
    BY <1>1, <1>4
  <2> QED
    BY <1>2, <1>4, <2>1
<1>5. \A i, j \in 1..Len(own) : i < j => own[i].at < own[j].at
  BY DEF IsPart
<1>6. IsPart(own, h2, s)
  BY <1>3, <1>4, <1>5, PartFromElements
<1> QED
  BY <1>6 DEF h2

LEMMA EmptyPart == \A s : IsPart(<<>>, <<>>, s) /\ IsTranscript(<<>>, 0)
<1>1. Len(<<>>) = 0 /\ 1..0 = {}
  OBVIOUS
<1> QED
  BY <1>1 DEF IsPart, IsTranscript

LEMMA EmptyTranscripts ==
  ASSUME debate = NoDebate, risk = NoRiskDebate PROVE TranscriptsKept
<1>1. /\ debate.history = <<>> /\ debate.bull = <<>> /\ debate.bear = <<>> /\ debate.count = 0
  BY DEF NoDebate
<1>2. /\ risk.history = <<>> /\ risk.count = 0
      /\ \A s \in RiskSpeakers : risk.own[s] = <<>> /\ risk.current[s] = 0
  BY DEF NoRiskDebate
<1> QED
  BY <1>1, <1>2, EmptyPart DEF TranscriptsKept

LEMMA BullTranscripts == IInv /\ TranscriptsKept /\ BullResearcher => TranscriptsKept'
<1> SUFFICES ASSUME IInv, TranscriptsKept, BullResearcher PROVE TranscriptsKept'
  OBVIOUS
<1> DEFINE a == [by |-> "Bull", run |-> attempt, at |-> debate.count + 1]
<1>1. /\ debate'.history = Append(debate.history, a) /\ debate'.bull = Append(debate.bull, a)
      /\ debate'.bear = debate.bear /\ debate'.count = debate.count + 1 /\ risk' = risk
  BY DEF BullResearcher
<1>2. /\ debate.history \in Seq(Arguments({"Bull", "Bear"}))
      /\ debate.bull \in Seq(Arguments({"Bull"})) /\ debate.count \in Nat /\ attempt \in Attempts
  BY DEF IInv, TypeOK, InvestDebateState
<1>3. /\ a \in Arguments({"Bull", "Bear"}) /\ a \in Arguments({"Bull"})
      /\ a.by = "Bull" /\ a.at = debate.count + 1 /\ a.by # "Bear"
  BY <1>2 DEF Arguments
<1> HIDE DEF a
<1>4. /\ IsTranscript(debate.history, debate.count)
      /\ IsPart(debate.bull, debate.history, "Bull")
      /\ IsPart(debate.bear, debate.history, "Bear")
  BY DEF TranscriptsKept
<1>5. IsTranscript(debate'.history, debate'.count)
  BY <1>1, <1>2, <1>3, <1>4, TranscriptGrows
<1>6. IsPart(debate'.bull, debate'.history, "Bull")
  BY <1>1, <1>2, <1>3, <1>4, SpeakersPart
<1>7. IsPart(debate'.bear, debate'.history, "Bear")
  BY <1>1, <1>2, <1>3, <1>4, OthersPart
<1> QED
  BY <1>1, <1>5, <1>6, <1>7 DEF TranscriptsKept

LEMMA BearTranscripts == IInv /\ TranscriptsKept /\ BearResearcher => TranscriptsKept'
<1> SUFFICES ASSUME IInv, TranscriptsKept, BearResearcher PROVE TranscriptsKept'
  OBVIOUS
<1> DEFINE a == [by |-> "Bear", run |-> attempt, at |-> debate.count + 1]
<1>1. /\ debate'.history = Append(debate.history, a) /\ debate'.bear = Append(debate.bear, a)
      /\ debate'.bull = debate.bull /\ debate'.count = debate.count + 1 /\ risk' = risk
  BY DEF BearResearcher
<1>2. /\ debate.history \in Seq(Arguments({"Bull", "Bear"}))
      /\ debate.bear \in Seq(Arguments({"Bear"})) /\ debate.count \in Nat /\ attempt \in Attempts
  BY DEF IInv, TypeOK, InvestDebateState
<1>3. /\ a \in Arguments({"Bull", "Bear"}) /\ a \in Arguments({"Bear"})
      /\ a.by = "Bear" /\ a.at = debate.count + 1 /\ a.by # "Bull"
  BY <1>2 DEF Arguments
<1> HIDE DEF a
<1>4. /\ IsTranscript(debate.history, debate.count)
      /\ IsPart(debate.bull, debate.history, "Bull")
      /\ IsPart(debate.bear, debate.history, "Bear")
  BY DEF TranscriptsKept
<1>5. IsTranscript(debate'.history, debate'.count)
  BY <1>1, <1>2, <1>3, <1>4, TranscriptGrows
<1>6. IsPart(debate'.bear, debate'.history, "Bear")
  BY <1>1, <1>2, <1>3, <1>4, SpeakersPart
<1>7. IsPart(debate'.bull, debate'.history, "Bull")
  BY <1>1, <1>2, <1>3, <1>4, OthersPart
<1> QED
  BY <1>1, <1>5, <1>6, <1>7 DEF TranscriptsKept

LEMMA RiskTranscripts ==
  ASSUME IInv, TranscriptsKept, NEW n, NEW s \in RiskSpeakers, NEW targets,
         RiskAnalyst(n, s, targets)
  PROVE  TranscriptsKept'
<1> DEFINE a == [by |-> s, run |-> attempt, at |-> risk.count + 1]
<1>1. /\ risk.history \in Seq(Arguments(RiskSpeakers)) /\ risk.count \in Nat
      /\ risk.own \in [RiskSpeakers -> Seq(Arguments(RiskSpeakers))]
      /\ risk.current \in [RiskSpeakers -> Nat] /\ attempt \in Attempts
  BY DEF IInv, TypeOK, RiskDebateState
<1>2. /\ risk'.history = Append(risk.history, a) /\ risk'.count = risk.count + 1
      /\ risk'.own = [risk.own EXCEPT ![s] = Append(@, a)]
      /\ risk'.current = [risk.current EXCEPT ![s] = risk.count + 1] /\ debate' = debate
  <2>1. risk' = Spoken(risk, s) /\ debate' = debate
    BY DEF RiskAnalyst
  <2> QED
    BY <2>1 DEF Spoken
<1>3. a \in Arguments(RiskSpeakers) /\ a.by = s /\ a.at = risk.count + 1
  BY <1>1 DEF Arguments
<1> HIDE DEF a
<1>4. /\ IsTranscript(risk.history, risk.count)
      /\ \A t \in RiskSpeakers :
           /\ IsPart(risk.own[t], risk.history, t)
           /\ risk.current[t] =
                IF risk.own[t] = <<>> THEN 0 ELSE risk.own[t][Len(risk.own[t])].at
  BY DEF TranscriptsKept
<1>5. IsTranscript(risk'.history, risk'.count)
  BY <1>1, <1>2, <1>3, <1>4, TranscriptGrows
<1>6. /\ IsPart(risk'.own[s], risk'.history, s)
      /\ risk'.current[s] =
           IF risk'.own[s] = <<>> THEN 0 ELSE risk'.own[s][Len(risk'.own[s])].at
  <2>1. risk'.own[s] = Append(risk.own[s], a) /\ risk'.current[s] = risk.count + 1
    BY <1>1, <1>2
  <2>2. risk.own[s] \in Seq(Arguments(RiskSpeakers)) /\ IsPart(risk.own[s], risk.history, s)
    BY <1>1, <1>4
  <2>3. IsPart(Append(risk.own[s], a), Append(risk.history, a), s)
    BY <1>1, <1>3, <1>4, <2>2, SpeakersPart
  <2>4. /\ Len(risk.own[s]) \in Nat
        /\ Len(Append(risk.own[s], a)) = Len(risk.own[s]) + 1
        /\ Append(risk.own[s], a)[Len(risk.own[s]) + 1] = a
    BY <1>3, <2>2, OneArgumentMore
  <2>5. Append(risk.own[s], a) # <<>>
    <3>1. Len(risk.own[s]) + 1 # 0
      BY <2>4
    <3>2. Len(<<>>) = 0
      OBVIOUS
    <3> QED
      BY <2>4, <3>1, <3>2, Zenon
  <2> QED
    BY <1>2, <1>3, <2>1, <2>3, <2>4, <2>5
<1>7. ASSUME NEW t \in RiskSpeakers, t # s
      PROVE  /\ IsPart(risk'.own[t], risk'.history, t)
             /\ risk'.current[t] =
                  IF risk'.own[t] = <<>> THEN 0 ELSE risk'.own[t][Len(risk'.own[t])].at
  <2>1. risk'.own[t] = risk.own[t] /\ risk'.current[t] = risk.current[t]
    BY <1>1, <1>2, <1>7
  <2>2. IsPart(risk.own[t], Append(risk.history, a), t)
    BY <1>1, <1>3, <1>4, <1>7, OthersPart
  <2> QED
    BY <1>2, <1>4, <2>1, <2>2
<1> QED
  BY <1>2, <1>4, <1>5, <1>6, <1>7 DEF TranscriptsKept

(* The managers and the rest of the nodes add nothing to a transcript.     *)
LEMMA OtherTranscripts ==
  ASSUME IInv, TranscriptsKept, [Next]_vars, ~Invoke, ~BullResearcher, ~BearResearcher,
         ~AggressiveAnalyst, ~ConservativeAnalyst, ~NeutralAnalyst
  PROVE  TranscriptsKept'
<1>1. debate \in InvestDebateState /\ risk \in RiskDebateState
  BY DEF IInv, TypeOK
<1>2. /\ debate'.history = debate.history /\ debate'.bull = debate.bull
      /\ debate'.bear = debate.bear /\ debate'.count = debate.count
  <2>1. CASE ResearchManager
    <3>1. debate' = [debate EXCEPT !.judge = attempt, !.current = "Plan"]
      BY <2>1 DEF ResearchManager
    <3> QED
      BY <1>1, <3>1 DEF InvestDebateState
  <2>2. CASE ~ResearchManager
    BY <2>2 DEF Next, Step, vars, MarketAnalyst, SocialMediaAnalyst, NewsAnalyst,
       FundamentalsAnalyst, Analyst, ToolsNode, MsgClear, Trader, Executor, OutOfSteps, Fail
  <2> QED
    BY <2>1, <2>2
<1>3. /\ risk'.history = risk.history /\ risk'.own = risk.own
      /\ risk'.current = risk.current /\ risk'.count = risk.count
  <2>1. CASE Executor
    <3>1. risk' = [risk EXCEPT !.judge = attempt, !.latest = "Judge"]
      BY <2>1 DEF Executor, UpdateRiskState
    <3> QED
      BY <1>1, <3>1 DEF RiskDebateState
  <2>2. CASE ~Executor
    BY <2>2 DEF Next, Step, vars, MarketAnalyst, SocialMediaAnalyst, NewsAnalyst,
       FundamentalsAnalyst, Analyst, ToolsNode, MsgClear, ResearchManager, Trader,
       OutOfSteps, Fail
  <2> QED
    BY <2>1, <2>2
<1> QED
  BY <1>2, <1>3 DEF TranscriptsKept

(* Nothing that was said is lost, put twice, reordered or attributed to    *)
(* another speaker, however long the debates are.                          *)
THEOREM Transcripts == Spec => []TranscriptsKept
<1>1. Init => TranscriptsKept
  BY EmptyTranscripts DEF Init
<1>2. ASSUME Invoke PROVE TranscriptsKept'
  <2>1. debate' = NoDebate /\ risk' = NoRiskDebate
    BY <1>2 DEF Invoke
  <2>2. /\ debate'.history = <<>> /\ debate'.bull = <<>> /\ debate'.bear = <<>>
        /\ debate'.count = 0
    BY <2>1 DEF NoDebate
  <2>3. /\ risk'.history = <<>> /\ risk'.count = 0
        /\ \A s \in RiskSpeakers : risk'.own[s] = <<>> /\ risk'.current[s] = 0
    BY <2>1 DEF NoRiskDebate
  <2> QED
    BY <2>2, <2>3, EmptyPart DEF TranscriptsKept
<1>3. IInv /\ TranscriptsKept /\ (AggressiveAnalyst \/ ConservativeAnalyst \/ NeutralAnalyst)
        => TranscriptsKept'
  BY RiskTranscripts DEF AggressiveAnalyst, ConservativeAnalyst, NeutralAnalyst, RiskSpeakers
<1>4. IInv /\ TranscriptsKept /\ [Next]_vars => TranscriptsKept'
  BY <1>2, <1>3, BullTranscripts, BearTranscripts, OtherTranscripts
<1> QED
  BY <1>1, <1>4, Inductive, PTL DEF Spec
=============================================================================
