SPECIFICATION Spec
CONSTANTS
  s1 = s1
  s2 = s2
  r1 = r1
  r2 = r2
  Target = Target
  Absent = Absent
  Torn = Torn
  Sources <- MCSources
  Records <- MCTwoRecords
  MaxStarts = 3
SYMMETRY Symmetry
CHECK_DEADLOCK FALSE
INVARIANTS
  ExternalStartTakesEffect
PROPERTIES
  InterruptionKeepsControl
  FirstMoveKeepsRecords
