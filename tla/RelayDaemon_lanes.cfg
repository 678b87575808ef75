SPECIFICATION FairSpec
CONSTANTS
  e1 = e1
  e2 = e2
  p1 = p1
  p2 = p2
  a1 = a1
  ExecIds = {e1, e2}
  PollIds = {p1, p2}
  Agents = {a1}
  RegularLimit = 1
  ReservedLimit = 1
  MaxExcluded = 2
  RelayDirect = FALSE
  RetryMax = 2
  MaxStreak = 2
  HeartbeatInterval = 1
  RevokedRecheck = 2

INVARIANTS OnePollOutstanding AgentsExclusive ReservedLaneIsUrgent NoLostWakeup
PROPERTIES CooldownRespected ImplementsSlots KeepsPolling
