SPECIFICATION Spec
CONSTANTS
  r1 = r1
  r2 = r2
  Runs <- MCRuns
  Specs <- MCSpecs
  Configs <- MCConfigs
  Outputs <- MCOutputs
  Earlier <- MCEarlier
  None = None
  MaxClock = 2
  MaxFaults = 1
SYMMETRY MCSymmetry
INVARIANTS
  RefusedLeavesNothing
  TrialDecides
  OwnRightsOnly
CHECK_DEADLOCK FALSE
