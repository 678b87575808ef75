SPECIFICATION Spec
CONSTANTS
  Jobs <- MCJobs
  Tenant <- MCTenant
  Priority <- MCPriority
  MaxRetries <- MCMaxRetries
  MaxConcurrent = 2
  None = None
  Requests = 3
INVARIANT NodeStaysUp
CHECK_DEADLOCK FALSE
