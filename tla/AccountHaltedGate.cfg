SPECIFICATION Spec
CONSTANTS
  None = None
  btc = btc
  bnb = bnb
  SUPPORTED_SYMBOLS <- Order2
  Unit = 100
  FEE_RATE = 1
  SLIPPAGE_RATE = 1
  STOP_PCT = 10
  TAKE_PROFIT_R = 2
  PER_POSITION_RISK = 8
  AGGREGATE_PLANNED_RISK = 12
  GROSS_LEVERAGE_CEILING = 2
  PRICE_TICK = 1
  QUANTITY_STEP = 1
  MIN_QUANTITY = 1
  MIN_NOTIONAL = 200
  StartingEquity = 100000
  DAILY_LOSS_STOP = 8
  MDD_HALT = 15
  MinutesPerHour = 1
  MinutesPerDay = 2
  FundingInterval = 2
  Bars <- MCBars
  FundingRates <- MCRates
  Observed <- MCObserved
  End = 3
  DayLength = 2
  MonthLengths <- ShortMonths
  ByName <- Names
  Starts = {2, 4}
  WindowMonths = 1
  MaxDrawdown = 15
INVARIANTS
  HaltedFailsDrawdownGate
CHECK_DEADLOCK FALSE
