SPECIFICATION Spec
CONSTANTS
  None = None
  Symbols = {btc, eth}
  MinutesPerHour = 2
  MinutesPerDay = 2
  MaxMinute = 3
  MaxSeq = 2
  MaxCrashes = 0
SYMMETRY SymbolSymmetry
CHECK_DEADLOCK FALSE
INVARIANTS TypeOK LedgerStopIsFlat
PROPERTIES StopsReachLedger LeaderSkipsNoMinute RepairBeforeResume OpenGapBarsEntries
