\* The executor of a graph that has a client.
SPECIFICATION Spec
CONSTANTS
  SelectedAnalysts <- AllAnalysts
  MaxDebateRounds = 1
  MaxRiskDiscussRounds = 1
  MaxRecurLimit = 20
  GrpcClient = TRUE
  MaxAttempts = 1
INVARIANT
  SureSignalSubmitted
CHECK_DEADLOCK FALSE
