SPECIFICATION FairSpec
CONSTANTS
  None = None
  Callers = {p1, p2}
  Families = {f1, f2}
  Runs = {r1, r2}
  MaxPerf = 2
  MaxErrors = 1
  MaxCrashes = 1
INVARIANTS OneRunUnsealed SealedRunHasEvidence
PROPERTIES ImplementsFamilyGate OosEventuallyDecided
CHECK_DEADLOCK FALSE
