SPECIFICATION FairPlan
CONSTANTS
  NoFile = NoFile
  Torn = Torn
  Hlds <- MCHlds
  Theme <- MCTheme
  DefaultMax = 3
  HardMax = 5
  MaxUpsets = 1
INVARIANTS
  CyclesStopPlanning
  ApprovalFits
PROPERTIES
  SplitKeepsOrder
  PlanTurnsGreen
CHECK_DEADLOCK FALSE
