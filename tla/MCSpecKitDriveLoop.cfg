SPECIFICATION FairDrive
CONSTANTS
  None = None
  Specs <- MCSpecs
  BundleOf <- MCBundleOf
  Limits <- MCLimits
INVARIANTS
  RunsAreProgress
  EarlierSpecsDone
PROPERTIES
  LoopEnds
