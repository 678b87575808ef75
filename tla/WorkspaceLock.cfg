SPECIFICATION LockSpec
CONSTANTS
  r1 = r1
  r2 = r2
  r3 = r3
  Nobody = Nobody
  Processes <- MCProcesses
  Host <- MCHost
INVARIANTS ExclusiveUnlessDisturbed NoLockLeftBehind
