SPECIFICATION Spec
CONSTANTS
  None = None
  Symbols = {btc, eth}
  MinutesPerHour = 1
  MinutesPerDay = 4
  MaxMinute = 5
  MaxSeq = 1
  MaxCrashes = 0
SYMMETRY SymbolSymmetry
CHECK_DEADLOCK FALSE
PROPERTY NoMinuteSkipped
