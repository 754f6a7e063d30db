SPECIFICATION Spec
CONSTANTS
  None = None
  Symbols = {btc}
  MinutesPerHour = 1
  MinutesPerDay = 2
  MaxMinute = 3
  MaxSeq = 1
  MaxCrashes = 3
CHECK_DEADLOCK FALSE
INVARIANT StoppedAccountIsFlat
PROPERTIES EntriesNeedRunning StaleBarOpensNothing
