SPECIFICATION FairSpec
CONSTANTS
  Jobs <- MCJobs
  Tenant <- MCTenant
  Priority <- MCPriority
  MaxRetries <- MCMaxRetries
  MaxConcurrent = 2
  None = None
  Requests = 3
INVARIANTS ReservationsHold RecordsAgree DiesOnlyByCancel
PROPERTIES CancelHonoured QueueDrains
CHECK_DEADLOCK FALSE
