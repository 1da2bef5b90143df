\* Two processes on one log, crashes, and a limit of one entry.
\* Everything stops when the bound on the stores is reached.
SPECIFICATION Spec
CONSTANTS
  Tickers = {btc, eth}
  Dates = {d1}
  MaxEntries = 1
  Sizes = {1, 2}
  ReflectionSize = 1
  Torn = Torn
  Processes = {p1, p2}
  MaxStores = 3
  CheckpointEnabled = FALSE
  None = None
INVARIANT
  TypeOK
PROPERTY
  LossNeedsOverlap
CHECK_DEADLOCK FALSE
