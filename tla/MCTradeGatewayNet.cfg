\* An order to buy and one to sell the same instrument.
SPECIFICATION Spec
CONSTANTS
  btc = btc
  eth = eth
  Instruments = {btc, eth}
  NoPosition = NoPosition
  None = None
  BaseSlippage = 5
  VolMultiplier = 1
  Handlers = {h1, h2}
  Messages <- MCNetMessages
  GateConfigs <- MCDefaultConfig
  Sigmas = {6}
  DefaultSigma = 2
  Clock = {4}
  Priced = {btc}
  InitialAum = 100000
INVARIANT
  NetIsDirectional
