----------------------------- MODULE SwarmGraph ------------------------------
(***************************************************************************)
(* The graph of agents that one call of propagate runs for a ticker and a  *)
(* date: the selected analysts one after the other, each in a loop with    *)
(* its tools; the debate of the bull and the bear researcher; the research *)
(* manager; the trader; the debate of the three risk analysts; and the     *)
(* executor, which decides.                                                *)
(*                                                                         *)
(* A step runs one node, as the graph library does: the node reads the     *)
(* shared state and returns the keys it changes.  What the language model  *)
(* answers is chosen freely.  Any node may raise, or its process may be    *)
(* killed; propagate is then called again for the same ticker and date.    *)
(*                                                                         *)
(* A text is represented by the number of the call of propagate (the       *)
(* attempt) that wrote it; 0 stands for an empty text.  An argument of a   *)
(* debate has its speaker and its turn too.                                *)
(***************************************************************************)
EXTENDS Integers, Sequences

CONSTANTS
  SelectedAnalysts,       \* the analysts in the order of their nodes
  MaxDebateRounds,
  MaxRiskDiscussRounds,
  MaxRecurLimit,          \* the nodes one invocation of the graph may run
  GrpcClient,             \* is there a client (FALSE: dry run)?
  MaxAttempts             \* bound: calls of propagate

AnalystTypes == {"market", "social", "news", "fundamentals"}

ASSUME GraphAssumption ==
  /\ SelectedAnalysts \in Seq(AnalystTypes)
  /\ Len(SelectedAnalysts) > 0
  /\ \A i, j \in 1..Len(SelectedAnalysts) :
       SelectedAnalysts[i] = SelectedAnalysts[j] => i = j
  /\ MaxDebateRounds \in Nat
  /\ MaxRiskDiscussRounds \in Nat
  /\ MaxRecurLimit \in Nat \ {0}
  /\ GrpcClient \in BOOLEAN
  /\ MaxAttempts \in Nat

VARIABLES
  node,          \* the node that runs next, or how the attempt ended
  turn,          \* the analyst whose nodes are running
  steps,         \* the nodes this invocation has run
  attempt,       \* the calls of propagate so far
  checkpointed,  \* checkpoint_enabled
  messages,      \* the conversation of the analysts and their tools
  report,        \* market_report, sentiment_report, ...
  debate,        \* investment_debate_state
  plan,          \* investment_plan
  proposal,      \* trader_investment_plan
  risk,          \* risk_debate_state
  decision,      \* final_trade_decision, and how it came about
  toolRounds     \* the runs of tool nodes in this attempt, for the properties

vars == <<node, turn, steps, attempt, checkpointed, messages, report, debate,
          plan, proposal, risk, decision, toolRounds>>

-----------------------------------------------------------------------------
(* The state.                                                              *)
Analysing == {"Analyst", "tools", "Msg Clear"}
RiskNodes == {"Aggressive Analyst", "Conservative Analyst", "Neutral Analyst"}
Running ==
  Analysing \cup RiskNodes \cup
  {"Bull Researcher", "Bear Researcher", "Research Manager", "Trader",
   "Q-KUKEB Executor"}

Ended == {"END", "raised", "out of steps"}
RiskSpeakers == {"Aggressive", "Conservative", "Neutral"}
Attempts == 0..MaxAttempts
Absent == -1      \* the key is not in the dictionary

Messages ==
  [by : AnalystTypes \cup {"human", "placeholder", "tool", "Trader"}, calls : BOOLEAN]

Arguments(speakers) == [by : speakers, run : Attempts, at : Nat]

InvestDebateState ==
  [history : Seq(Arguments({"Bull", "Bear"})),
   bull : Seq(Arguments({"Bull"})), bear : Seq(Arguments({"Bear"})),
   current : {"", "Bull", "Bear", "Plan"},     \* what the last response starts with
   judge : Attempts \cup {Absent}, count : Nat]

RiskDebateState ==
  [history : Seq(Arguments(RiskSpeakers)),
   own : [RiskSpeakers -> Seq(Arguments(RiskSpeakers))],
   current : [RiskSpeakers -> Nat],            \* the turn of the latest argument
   latest : RiskSpeakers \cup {"", "Judge"},
   judge : Attempts \cup {Absent}, count : Nat]

Human == [by |-> "human", calls |-> FALSE]

NoDebate ==
  [history |-> <<>>, bull |-> <<>>, bear |-> <<>>, current |-> "", judge |-> 0, count |-> 0]

NoRiskDebate ==
  [history |-> <<>>, own |-> [s \in RiskSpeakers |-> <<>>],
   current |-> [s \in RiskSpeakers |-> 0], latest |-> "", judge |-> 0, count |-> 0]

NoDecision == [run |-> 0, signal |-> "none", gate |-> "", submitted |-> FALSE]

-----------------------------------------------------------------------------
(* The executor's decision.                                                *)
(*                                                                         *)
(* A structured call may not be supported by the provider or may fail; or  *)
(* it gives a payload whose confidence is below or above the threshold.    *)
Payloads == {"unsure", "sure"}
Replies == Payloads \cup {"unsupported", "malformed"}

(* The text of the reply, whichever way it came: a payload is rendered.    *)
InvokeStructuredOrFreetext(reply) ==
  IF reply \in Payloads THEN "markdown" ELSE "free text"

(* What submit_trade_sync can give: the code of the engine's answer, or an *)
(* exception.                                                              *)
Answers == {"ACCEPTED", "REJECTED", "exception"}

Gates ==
  Answers \cup
  {"", "HOLD (parse failure)", "HOLD (low confidence)", "DRY_RUN_ACCEPTED", "GRPC_ERROR"}

Decisions ==
  [run : Attempts, signal : Replies \cup {"none"}, gate : Gates, submitted : BOOLEAN]

GateOfSubmission(answer) ==
  IF ~GrpcClient THEN "DRY_RUN_ACCEPTED"
  ELSE IF answer = "exception" THEN "GRPC_ERROR" ELSE answer

ExecutorDecision(result, answer) ==
  IF result \notin Payloads THEN [gate |-> "HOLD (parse failure)", submitted |-> FALSE]
  ELSE IF result = "unsure"  THEN [gate |-> "HOLD (low confidence)", submitted |-> FALSE]
  ELSE [gate |-> GateOfSubmission(answer), submitted |-> GrpcClient]

UpdateRiskState(r, run) == [r EXCEPT !.judge = run, !.latest = "Judge"]

-----------------------------------------------------------------------------
(* The conditional edges.                                                  *)
ShouldContinueAnalyst(msgs) == IF msgs[Len(msgs)].calls THEN "tools" ELSE "Msg Clear"

(* A bug: one turn too many. *)
ShouldContinueDebateOnce(d) ==
  IF d.count > 2 * MaxDebateRounds THEN "Research Manager"
  ELSE IF d.current = "Bull" THEN "Bear Researcher" ELSE "Bull Researcher"

ShouldContinueDebate(d) ==
  IF d.count >= 2 * MaxDebateRounds THEN "Research Manager"
  ELSE IF d.current = "Bull" THEN "Bear Researcher" ELSE "Bull Researcher"

(* A bug: the rounds are counted as in the debate of two. *)
ShouldContinueRiskAnalysisOfTwo(r) ==
  IF r.count >= 2 * MaxRiskDiscussRounds THEN "Q-KUKEB Executor"
  ELSE IF r.latest = "Aggressive" THEN "Conservative Analyst"
  ELSE IF r.latest = "Conservative" THEN "Neutral Analyst" ELSE "Aggressive Analyst"

ShouldContinueRiskAnalysis(r) ==
  IF r.count >= 3 * MaxRiskDiscussRounds THEN "Q-KUKEB Executor"
  ELSE IF r.latest = "Aggressive" THEN "Conservative Analyst"
  ELSE IF r.latest = "Conservative" THEN "Neutral Analyst" ELSE "Aggressive Analyst"

-----------------------------------------------------------------------------
Init ==
  /\ node = "idle" /\ turn = 1 /\ steps = 0 /\ attempt = 0
  /\ checkpointed \in BOOLEAN
  /\ messages = <<>>
  /\ report = [a \in AnalystTypes |-> 0]
  /\ debate = NoDebate /\ risk = NoRiskDebate
  /\ plan = 0 /\ proposal = 0 /\ decision = NoDecision
  /\ toolRounds = 0

(* Does an earlier attempt leave its checkpoint?  A failed one does; one   *)
(* that has ended removes it, unless it crashes before or the removal      *)
(* fails, silently.                                                        *)
CheckpointLeft ==
  IF ~checkpointed THEN {FALSE} ELSE IF node = "END" THEN BOOLEAN ELSE {TRUE}

(* The initial state given to the graph.  With a checkpoint of an earlier  *)
(* attempt the library merges the two: the message is appended and the     *)
(* other keys of the initial state are overwritten; keys that it does not  *)
(* have keep their values.  The graph starts at its first node in any case.*)
Invoke ==
  /\ node \in Ended \cup {"idle"}
  /\ attempt < MaxAttempts
  /\ attempt' = attempt + 1
  /\ node' = "Analyst" /\ turn' = 1 /\ steps' = 0 /\ toolRounds' = 0
  /\ report' = [a \in AnalystTypes |-> 0]
  /\ debate' = NoDebate /\ risk' = NoRiskDebate
  /\ \E left \in CheckpointLeft :
       IF left
       THEN /\ messages' = Append(messages, Human)
            /\ UNCHANGED <<plan, proposal, decision>>
       ELSE /\ messages' = <<Human>>
            /\ plan' = 0 /\ proposal' = 0 /\ decision' = NoDecision
  /\ UNCHANGED checkpointed

(* A node is run if the limit allows it, and the edge taken. *)
At(n) == node = n /\ steps < MaxRecurLimit

Goto(next) == node' = next /\ steps' = steps + 1 /\ UNCHANGED <<attempt, checkpointed>>

(* An edge that the graph does not have is an error of the library. *)
Among(next, targets) == IF next \in targets THEN next ELSE "raised"

-----------------------------------------------------------------------------
(* The analysts.                                                           *)
(*                                                                         *)
(* A reply asks for tools or is the report; the report is reset while the  *)
(* analyst is asking for tools.                                            *)
Analyst(type) ==
  /\ At("Analyst")
  /\ SelectedAnalysts[turn] = type
  /\ \E calls \in BOOLEAN :
       /\ messages' = Append(messages, [by |-> type, calls |-> calls])
       /\ report' = [report EXCEPT ![type] = IF calls THEN 0 ELSE attempt]
  /\ Goto(ShouldContinueAnalyst(messages'))
  /\ UNCHANGED <<turn, debate, plan, proposal, risk, decision, toolRounds>>

MarketAnalyst == Analyst("market")
SocialMediaAnalyst == Analyst("social")
NewsAnalyst == Analyst("news")
FundamentalsAnalyst == Analyst("fundamentals")

(* All calls of the last message are answered. *)
ToolsNode ==
  /\ At("tools")
  /\ messages' = Append(messages, [by |-> "tool", calls |-> FALSE])
  /\ toolRounds' = toolRounds + 1
  /\ Goto("Analyst")
  /\ UNCHANGED <<turn, report, debate, plan, proposal, risk, decision>>

(* A bug: the placeholder is added and nothing is removed. *)
PlaceholderAdded(msgs) == Append(msgs, [by |-> "placeholder", calls |-> FALSE])

Cleared(msgs) == <<[by |-> "placeholder", calls |-> FALSE]>>

(* Bugs: the last analyst is left out; an analyst after the last. *)
LeavesOneOut == turn + 1 >= Len(SelectedAnalysts)
IsPastLast == turn > Len(SelectedAnalysts)

IsLast == turn = Len(SelectedAnalysts)

(* Then the next analyst, or the debate. *)
MsgClear ==
  /\ At("Msg Clear")
  /\ messages' = Cleared(messages)
  /\ IF IsLast
     THEN turn' = turn /\ Goto("Bull Researcher")
     ELSE turn' = turn + 1 /\ Goto("Analyst")
  /\ UNCHANGED <<report, debate, plan, proposal, risk, decision, toolRounds>>

-----------------------------------------------------------------------------
(* The debate of the researchers: each node makes a new dictionary, in     *)
(* which judge_decision is missing.                                        *)
BullResearcher ==
  /\ At("Bull Researcher")
  /\ LET argument == [by |-> "Bull", run |-> attempt, at |-> debate.count + 1]
     IN  debate' = [history |-> Append(debate.history, argument),
                    bull |-> Append(debate.bull, argument), bear |-> debate.bear,
                    current |-> "Bull", judge |-> Absent, count |-> debate.count + 1]
  /\ Goto(Among(ShouldContinueDebate(debate'), {"Bear Researcher", "Research Manager"}))
  /\ UNCHANGED <<turn, messages, report, plan, proposal, risk, decision, toolRounds>>

BearResearcher ==
  /\ At("Bear Researcher")
  /\ LET argument == [by |-> "Bear", run |-> attempt, at |-> debate.count + 1]
     IN  debate' = [history |-> Append(debate.history, argument),
                    bear |-> Append(debate.bear, argument), bull |-> debate.bull,
                    current |-> "Bear", judge |-> Absent, count |-> debate.count + 1]
  /\ Goto(Among(ShouldContinueDebate(debate'), {"Bull Researcher", "Research Manager"}))
  /\ UNCHANGED <<turn, messages, report, plan, proposal, risk, decision, toolRounds>>

ResearchManager ==
  /\ At("Research Manager")
  /\ debate' = [debate EXCEPT !.judge = attempt, !.current = "Plan"]
  /\ plan' = attempt
  /\ Goto("Trader")
  /\ UNCHANGED <<turn, messages, report, proposal, risk, decision, toolRounds>>

Trader ==
  /\ At("Trader")
  /\ messages' = Append(messages, [by |-> "Trader", calls |-> FALSE])
  /\ proposal' = attempt
  /\ Goto("Aggressive Analyst")
  /\ UNCHANGED <<turn, report, debate, plan, risk, decision, toolRounds>>

-----------------------------------------------------------------------------
(* The debate on the risk.                                                 *)
(*                                                                         *)
(* A bug: a speaker forgets to hand on what the others have said. *)
SpokenAlone(r, s) ==
  LET argument == [by |-> s, run |-> attempt, at |-> r.count + 1]
  IN  [history |-> Append(r.history, argument),
       own |-> [t \in RiskSpeakers |-> IF t = s THEN Append(r.own[s], argument) ELSE <<>>],
       current |-> [r.current EXCEPT ![s] = argument.at],
       latest |-> s, judge |-> Absent, count |-> r.count + 1]

Spoken(r, s) ==
  LET argument == [by |-> s, run |-> attempt, at |-> r.count + 1]
  IN  [history |-> Append(r.history, argument),
       own |-> [r.own EXCEPT ![s] = Append(@, argument)],
       current |-> [r.current EXCEPT ![s] = argument.at],
       latest |-> s, judge |-> Absent, count |-> r.count + 1]

RiskAnalyst(n, s, targets) ==
  /\ At(n)
  /\ risk' = Spoken(risk, s)
  /\ Goto(Among(ShouldContinueRiskAnalysis(risk'), targets))
  /\ UNCHANGED <<turn, messages, report, debate, plan, proposal, decision, toolRounds>>

AggressiveAnalyst ==
  RiskAnalyst("Aggressive Analyst", "Aggressive", {"Conservative Analyst", "Q-KUKEB Executor"})

ConservativeAnalyst ==
  RiskAnalyst("Conservative Analyst", "Conservative", {"Neutral Analyst", "Q-KUKEB Executor"})

NeutralAnalyst ==
  RiskAnalyst("Neutral Analyst", "Neutral", {"Aggressive Analyst", "Q-KUKEB Executor"})

-----------------------------------------------------------------------------
(* The executor, then the end.  Whether the library still notices the end  *)
(* of a graph that has used its limit up is left open.                     *)
Executor ==
  /\ At("Q-KUKEB Executor")
  /\ \E reply \in Replies, answer \in Answers :
       LET outcome == ExecutorDecision(InvokeStructuredOrFreetext(reply), answer)
       IN  decision' = [run |-> attempt, signal |-> reply, gate |-> outcome.gate,
                        submitted |-> outcome.submitted]
  /\ risk' = UpdateRiskState(risk, attempt)
  /\ \/ Goto("END")
     \/ steps + 1 = MaxRecurLimit /\ Goto("out of steps")
  /\ UNCHANGED <<turn, messages, report, debate, plan, proposal, toolRounds>>

(* A bug: the library's error is swallowed. *)
LimitIgnored == FALSE /\ UNCHANGED vars

(* GraphRecursionError. *)
OutOfSteps ==
  /\ node \in Running
  /\ steps = MaxRecurLimit
  /\ node' = "out of steps"
  /\ UNCHANGED <<turn, steps, attempt, checkpointed, messages, report, debate, plan,
                 proposal, risk, decision, toolRounds>>

(* A model or a tool raises, or the process is killed. *)
Fail ==
  /\ node \in Running
  /\ node' = "raised"
  /\ UNCHANGED <<turn, steps, attempt, checkpointed, messages, report, debate, plan,
                 proposal, risk, decision, toolRounds>>

Step ==
  \/ MarketAnalyst \/ SocialMediaAnalyst \/ NewsAnalyst \/ FundamentalsAnalyst
  \/ ToolsNode \/ MsgClear
  \/ BullResearcher \/ BearResearcher \/ ResearchManager \/ Trader
  \/ AggressiveAnalyst \/ ConservativeAnalyst \/ NeutralAnalyst
  \/ Executor \/ OutOfSteps

Next == Invoke \/ Step \/ Fail

Spec == Init /\ [][Next]_vars

(* A node that has been started ends: models and tools answer.  Nobody has *)
(* to call propagate again.                                                *)
FairSpec == Spec /\ WF_vars(Step)

-----------------------------------------------------------------------------
TypeOK ==
  /\ node \in Running \cup Ended \cup {"idle"}
  /\ turn \in 1..Len(SelectedAnalysts)
  /\ steps \in 0..MaxRecurLimit
  /\ attempt \in Attempts
  /\ checkpointed \in BOOLEAN
  /\ messages \in Seq(Messages)
  /\ report \in [AnalystTypes -> Attempts]
  /\ debate \in InvestDebateState
  /\ plan \in Attempts /\ proposal \in Attempts
  /\ risk \in RiskDebateState
  /\ decision \in Decisions
  /\ toolRounds \in Nat

(* The turns of a debate: with no rounds its first speaker speaks all the  *)
(* same, because the edges only ask after a turn.                          *)
DebateTurns == IF MaxDebateRounds = 0 THEN 1 ELSE 2 * MaxDebateRounds
RiskTurns == IF MaxRiskDiscussRounds = 0 THEN 1 ELSE 3 * MaxRiskDiscussRounds

SpeakersOf(history) == [i \in 1..Len(history) |-> history[i].by]

ResearchDebate ==
  INSTANCE Panel WITH Speakers <- <<"Bull", "Bear">>, Turns <- DebateTurns,
                      said <- SpeakersOf(debate.history), verdict <- debate.judge > 0

RiskDebate ==
  INSTANCE Panel WITH Speakers <- <<"Aggressive", "Conservative", "Neutral">>,
                      Turns <- RiskTurns,
                      said <- SpeakersOf(risk.history), verdict <- risk.judge > 0

(* The researchers take turns, the bull first, each as often as            *)
(* configured; the research manager judges the whole debate, and nobody    *)
(* speaks after him, whatever fails and is started again.                  *)
ImplementsResearchDebate == ResearchDebate!Spec

(* So do the three risk analysts, and the executor decides after all of    *)
(* them have spoken equally often.                                         *)
ImplementsRiskDebate == RiskDebate!Spec

(* The part of a transcript that s spoke, turn by turn. *)
IsPart(own, history, s) ==
  /\ {own[i] : i \in 1..Len(own)} =
       {history[i] : i \in {j \in 1..Len(history) : history[j].by = s}}
  /\ \A i, j \in 1..Len(own) : i < j => own[i].at < own[j].at

IsTranscript(history, count) ==
  count = Len(history) /\ \A i \in 1..count : history[i].at = i

(* Every node writes the whole dictionary of its debate anew, and nothing  *)
(* that was said is lost or attributed to another speaker: each history is *)
(* the speaker's part of the transcript, the counter its length, and the   *)
(* latest response that the others answer to is really the latest.         *)
TranscriptsKept ==
  /\ IsTranscript(debate.history, debate.count)
  /\ IsPart(debate.bull, debate.history, "Bull")
  /\ IsPart(debate.bear, debate.history, "Bear")
  /\ IsTranscript(risk.history, risk.count)
  /\ \A s \in RiskSpeakers :
       /\ IsPart(risk.own[s], risk.history, s)
       /\ risk.current[s] =
            IF risk.own[s] = <<>> THEN 0 ELSE risk.own[s][Len(risk.own[s])].at

(* An analyst reads a conversation of its own: no message of an analyst    *)
(* before it, and an answer to every call for tools.  A run that starts on *)
(* a checkpoint of an earlier one is given the messages of that one.       *)
ConversationIsOwn ==
  node = "Analyst" /\ ~(checkpointed /\ attempt > 1) =>
    \A i \in 1..Len(messages) :
      /\ messages[i].by \in {SelectedAnalysts[turn], "human", "placeholder", "tool"}
      /\ messages[i].calls => i < Len(messages) /\ messages[i + 1].by = "tool"

(* The decision is made of what this attempt wrote, although a checkpoint  *)
(* keeps the plan and the proposal of a failed one: the reports of all     *)
(* selected analysts, the debates, the plan and the proposal.  Every key   *)
(* that is logged at the end is there.                                     *)
DecisionFromOneRun ==
  node \in {"Q-KUKEB Executor", "END"} =>
    /\ \A i \in 1..Len(SelectedAnalysts) : report[SelectedAnalysts[i]] = attempt
    /\ \A i \in 1..Len(debate.history) : debate.history[i].run = attempt
    /\ \A i \in 1..Len(risk.history) : risk.history[i].run = attempt
    /\ debate.judge = attempt /\ plan = attempt /\ proposal = attempt
    /\ node = "END" => risk.judge = attempt /\ decision.run = attempt

(* The nodes of a run in which no analyst asks for tools. *)
NodesNeeded == 2 * Len(SelectedAnalysts) + DebateTurns + 2 + RiskTurns + 1

(* The limit on the nodes is shared by all of them, the loops with the     *)
(* tools included; a run is cut off only when its tool rounds, two nodes   *)
(* each, do not fit beside the nodes that every run needs.                 *)
CutOffOnlyByTools ==
  node = "out of steps" => NodesNeeded + 2 * toolRounds >= MaxRecurLimit

(* A run ends, even if the analysts ask for tools for ever. *)
RunEnds == node \in Running ~> node \in Ended

(* A payload the executor is sure of is submitted when there is a client.  *)
SureSignalSubmitted ==
  GrpcClient /\ decision.signal = "sure" => decision.submitted
=============================================================================
