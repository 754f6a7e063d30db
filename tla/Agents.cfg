SPECIFICATION JobSpec
CONSTANTS
  None = None
  Writers = {a1, a2}
  Agents = {a1}
  Versions = {v1, v2}
  Contents <- MCContents
SYMMETRY MCSymmetry
INVARIANTS
  TempsAreOwned
  SubmitIsAllOrNothing
PROPERTY
  ImplementsContentStore
CHECK_DEADLOCK FALSE
