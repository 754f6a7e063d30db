SPECIFICATION Spec
CONSTANTS
  None = None
  btc = btc
  eth = eth
  SUPPORTED_SYMBOLS = {btc, eth}
  HOUR = 2
  DAY = 4
  FUNDING_INTERVAL = 2
  EMA_200_WARMUP_DAYS = 1
  Snapshots <- MCSnapshots
INVARIANTS
  KlinesAcceptedIffContiguous
  DerivedBarsAreWhole
  SignalSeesCompletedBars
  SignalsAreWarmedUp
  RowsAreFound
CHECK_DEADLOCK FALSE
