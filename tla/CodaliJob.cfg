SPECIFICATION Spec
CONSTANTS
  StageCount = 3
  MaxParallelStages = 2
  PolicyToolCalls = 2
  Budgets = {1}
  Asks <- MCAsks
  Followups = {1}

CHECK_DEADLOCK FALSE
INVARIANTS NothingBuiltOnFailure OverrunBounded StatusTrue
PROPERTIES JobEnds
