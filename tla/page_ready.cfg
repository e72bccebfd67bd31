SPECIFICATION PageFairSpec
CONSTANTS
  MadeFirst = {2}
  MaxDeferreds = 3
  MaxCalls = 3
  MaxPlainCalls = 5
  ListOptions <- MCListOptions
  MayThrow = TRUE
CHECK_DEADLOCK FALSE
INVARIANTS
  NoneForgotten
  SettlesWithOthers
PROPERTIES
  KeepsOutcomes
  NobodySkipped
  EveryReadyHandlerRuns
