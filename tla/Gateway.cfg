SPECIFICATION FairSpec
CONSTANTS
    MaxParallelWorkers = 2
    MaxToolCalls = 2
    MaxModelCalls = 3
    MaxEvidenceItems = 1
    MaxIterations = 1
    HasVerifier = TRUE
    ExtraCalls = 0
    MinPlanned = 1
    MaxPlanned = 3
    MaxFollowUps = 1
    MaxEvidence = 1
INVARIANTS
    EveryTaskSettled
    BudgetOverrunBounded
    RequiredFailureFailsRun
    SkipsAreExplained
PROPERTIES
    RunEnds
CHECK_DEADLOCK FALSE
