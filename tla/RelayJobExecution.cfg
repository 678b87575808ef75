SPECIFICATION Spec
CONSTANTS
  MaxChunks = 5
  BatchSize = 2
  MaxAttempts = 4
INVARIANTS EventsDelivered VerdictIsTrue ResolvedMeansDelivered
PROPERTIES JobSettles
