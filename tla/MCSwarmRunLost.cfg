\* Two processes with different tickers on one log.
\* Everything stops when the bound on the stores is reached.
SPECIFICATION Spec
CONSTANTS
  Tickers = {btc, eth}
  Dates = {d1}
  MaxEntries = 0
  Sizes = {1}
  ReflectionSize = 1
  Torn = Torn
  Processes = {p1, p2}
  MaxStores = 2
  CheckpointEnabled = FALSE
  None = None
PROPERTY
  PendingKept
CHECK_DEADLOCK FALSE
