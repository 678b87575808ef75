SPECIFICATION Spec
CONSTANTS
  r1 = r1
  r2 = r2
  r3 = r3
  j1 = j1
  j2 = j2
  NoRun = NoRun
  Runs <- MCRuns
  Jobs <- MCJobs
  JobOf <- MCJobOf
  MayExpire = TRUE
  MayAbandon <- MCAbandon
  MayCancel <- MCCancel
INVARIANTS ExclusiveUnlessExcused NoRowLeftBehind
PROPERTIES WorkerKeepsRow
