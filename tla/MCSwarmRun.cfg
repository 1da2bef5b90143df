\* One process at a time, crashes, two tickers, and a limit of one entry.
\* Everything stops when the bound on the stores is reached.
SPECIFICATION Spec
CONSTANTS
  Tickers = {btc, eth}
  Dates = {d1, d2}
  MaxEntries = 1
  Sizes = {1}
  ReflectionSize = 1
  Torn = Torn
  Processes = {p1}
  MaxStores = 4
  CheckpointEnabled = TRUE
  None = None
INVARIANTS
  OnePendingPerKey
  StoreOrder
  ResolvedWithinLimit
PROPERTIES
  PendingKept
  OldestDroppedFirst
  CheckpointClearedLast
CHECK_DEADLOCK FALSE
