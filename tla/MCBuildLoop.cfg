SPECIFICATION FairSpec
CONSTANTS
  Texts = {"old", "new"}
  Habits = {"careful", "any"}
  None = None
  Torn = Torn
  MaxEdits = 1
  MaxCrashes = 1
PROPERTIES
  ReadyIsCurrent
  CarefulPeopleGetReady
