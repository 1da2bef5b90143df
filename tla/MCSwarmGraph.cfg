\* All analysts and two rounds of each debate: 21 nodes without tools, and a
\* limit that three rounds of tools exceed.
\* A run that has ended need not be started again.
SPECIFICATION FairSpec
CONSTANTS
  SelectedAnalysts <- AllAnalysts
  MaxDebateRounds = 2
  MaxRiskDiscussRounds = 2
  MaxRecurLimit = 26
  GrpcClient = TRUE
  MaxAttempts = 2
INVARIANTS
  TypeOK
  TranscriptsKept
  ConversationIsOwn
  DecisionFromOneRun
  CutOffOnlyByTools
PROPERTIES
  ImplementsResearchDebate
  ImplementsRiskDebate
  RunEnds
CHECK_DEADLOCK FALSE
