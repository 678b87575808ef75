SPECIFICATION FairSpec
CONSTANTS
  Tasks = {"a", "b"}
  Deps = {}
  RunLists <- MCNamed
  Limits = {2}
  MaxCycles = 0
  EndlessRetries = FALSE
  Setbacks = 1
  Faults = 0
PROPERTY OthersGetTheirTurn
CHECK_DEADLOCK FALSE
