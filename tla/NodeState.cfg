SPECIFICATION FairSpec
CONSTANTS
  Jobs = {"j1"}
  Edits = 1
  Crashes = 1
INVARIANTS CanRestart VerdictStands PollsStop
PROPERTIES VerdictIsReported
CHECK_DEADLOCK FALSE
