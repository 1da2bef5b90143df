\* One order above the leverage cap, one above the notional cap.
SPECIFICATION Spec
CONSTANTS
  btc = btc
  eth = eth
  Instruments = {btc, eth}
  NoPosition = NoPosition
  None = None
  BaseSlippage = 5
  VolMultiplier = 1
  Handlers = {h1}
  Messages <- MCCapMessages
  GateConfigs <- MCDefaultConfig
  Sigmas = {6}
  DefaultSigma = 2
  Clock = {4}
  Priced = {btc}
  InitialAum = 100000
INVARIANT
  RecordedWithinCaps
