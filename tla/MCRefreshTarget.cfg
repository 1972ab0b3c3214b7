SPECIFICATION FairSpec
CONSTANTS
  None = None
  Broken = Broken
  Rules = {"r1", "r2"}
  MaxDeaths = 1
  MaxEdits = 1
INVARIANTS
  RefreshTypeOK
  KeepsRules
  AppliedIsCurrent
PROPERTY
  RefreshSettles
