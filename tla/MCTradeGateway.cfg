\* Two requests in flight over two instruments.
SPECIFICATION Spec
CONSTANTS
  btc = btc
  eth = eth
  Instruments = {btc, eth}
  NoPosition = NoPosition
  None = None
  BaseSlippage = 5
  VolMultiplier = 1
  Handlers = {h1, h2}
  Messages <- MCMessages
  GateConfigs <- MCConfigs
  Sigmas = {6, 401}
  DefaultSigma = 2
  Clock = {4}
  Priced = {btc}
  InitialAum = 100000
INVARIANTS
  TypeOK
  BooksBalance
  AnswersMatchBooks
  StrictGateOrder
  SnapshotsInOrder
  OwnOrderVisibility
  OneFramePerAnswer
PROPERTIES
  SidesAreFixed
  EveryRequestEnds
