SPECIFICATION FairSpec
CONSTANTS
  s1 = s1
  s2 = s2
  s3 = s3
  None = None
  Sections <- MCSections
  Targets <- MCTargets
  Refs <- MCRefs
  High <- MCHigh
  Size <- MCSize
  Budget = 3
  Versions = {1, 2}
  Unresolved <- MCUnresolved
  NumRuns = 2
  MaxUpsets = 2
INVARIANTS
  SkipIsRight
PROPERTIES
  WorkspaceStaysValid
  RunsSettle
CHECK_DEADLOCK FALSE
