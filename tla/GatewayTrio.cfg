SPECIFICATION FairSpec
CONSTANTS
  Tasks = {"a", "b"}
  Deps <- MCDeps
  RunLists <- MCRunLists
  Limits = {0, 2}
  MaxCycles = 2
  EndlessRetries = TRUE
  Setbacks = 2
  Faults = 1
INVARIANTS WorkIsCounted CompletedMeansDone
PROPERTIES GivenUpForGood DependencyGate DoneStaysDone RunEnds
CHECK_DEADLOCK FALSE
