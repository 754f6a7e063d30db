SPECIFICATION FairSpec
CONSTANTS
  None = None
  Revisions = {rev1, rev2}
  Workers = {w1, w2}
  RETRY_DELAYS <- ShortDelays
  WARNING_AFTER = 2
  MaxCrashes = 1
INVARIANTS
  PublishedIsVisible
  LeaseExclusion
PROPERTIES
  WarnedLate
  ImplementsPublication
  EventuallyPublished
  EventuallyWarned
