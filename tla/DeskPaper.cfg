SPECIFICATION Spec
CONSTANTS
  None = None
  Families = {f1}
  Versions = {v1, v2}
  Runs = {r1}
  KeyNumbers = {k1, k2}
  ApprovalKeys = {a1, a2}
  Actors = {owner, stranger}
  Allowlist = {owner}
  MaxPerf = 2
  UnitsPerDay = 2
  MaxClock = 2
SYMMETRY KeySymmetry
INVARIANT HaltsAlerted
PROPERTIES
  ResumeControlled
CHECK_DEADLOCK FALSE
