SPECIFICATION Spec
CONSTANTS
  None = None
  Families = {f1, f2}
  Versions = {v1, v2}
  Runs = {r1, r2, r3}
  KeyNumbers = {k1}
  ApprovalKeys = {a1}
  Actors = {owner}
  Allowlist = {owner}
  MaxPerf = 2
  UnitsPerDay = 2
  MaxClock = 0
SYMMETRY RunSymmetry
INVARIANTS
  OneSealedRunPerFamily
  PaperMatchesRun
  RejectedNeverPapers
  BudgetsMatchRows
PROPERTIES
  FamilyAfterRejectionApproved
  ImplementsFamilyGate
CHECK_DEADLOCK FALSE
