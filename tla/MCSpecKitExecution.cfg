SPECIFICATION FairSpec
CONSTANTS
  f1 = f1
  f2 = f2
  Features <- MCFeatures
  Queues <- MCPrefixQueues
  PHASE_ORDER <- MCOrder
  Modes <- MCModes
  Olds <- MCOlds
  MaxCrashes = 1
INVARIANTS
  CompleteIsEarned
  DependencyOrder
  RepeatsAreCrashes
PROPERTIES
  EverythingCompletes
