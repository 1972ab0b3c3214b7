SPECIFICATION FairSpec
CONSTANTS
  Layouts = {"legacy", "new"}
  Sources = {"file", "working"}
  Versions = {1, 2, 3}
  Given <- MCGiven
  HandSplits <- MCHandSplits
  Flags <- MCFlags
  Rework <- MCRework
  None = None
  Large = 4
  MaxEdits = 1
  MaxCuts = 1
INVARIANTS
  ReusedIsCurrent
PROPERTIES
  ConversionFits
  LegacyApprovalFits
  NewLayoutGetsThrough
CHECK_DEADLOCK FALSE
