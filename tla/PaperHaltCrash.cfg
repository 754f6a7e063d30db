SPECIFICATION Spec
CONSTANTS
  None = None
  Symbols = {btc}
  MinutesPerHour = 1
  MinutesPerDay = 4
  MaxMinute = 3
  MaxSeq = 2
  MaxCrashes = 1
CHECK_DEADLOCK FALSE
INVARIANT MddHaltIsFlat
