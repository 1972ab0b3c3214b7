SPECIFICATION FairSpec
CONSTANTS
  w1 = w1
  w2 = w2
  None = None
  Writers <- MCWriters
  Requests <- MCRequests
  Content <- MCContent
  Responsive <- MCResponsive
  Pieces = 2
INVARIANTS
  HistoryIsHonest
  HistoryReplays
  AckedRecordsSurvive
PROPERTIES
  TornLogIsFrozen
  EveryCallEnds
  RefinesLedger
