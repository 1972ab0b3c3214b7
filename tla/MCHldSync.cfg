SPECIFICATION SyncSpec
CONSTANTS
  s1 = s1
  s2 = s2
  a1 = a1
  a2 = a2
  Absent = Absent
  Specs <- MCSpecs
  Anchors <- MCSections
  SectionsOf <- MCSectionsOf
  Texts = {"old", "new"}
  MaxTime = 4
INVARIANTS
  VerifiedIsFresh
PROPERTIES
  StaleSticks
