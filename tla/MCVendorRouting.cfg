SPECIFICATION FairSpec
CONSTANTS
  Calls = {c1, c2}
  c1 = c1
  c2 = c2
  Requests <- MCRequests
  Names = {"alpha_vantage", "yfinance", "yahoo", "default"}
  Configs <- MCConfigs
  Today = 2
  TradingDays <- MCTradingDays
  OldDays <- MCOldDays
  LookBackDays = 1
  MaxRetries = 1
  MaxKills = 1
INVARIANTS
  TypeOK
  SomeVendorAnswers
  ToolsAnswer
  CacheSettles
  GapsExplained
PROPERTIES
  CallEnds
