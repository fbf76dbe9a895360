SPECIFICATION FairSpec
CONSTANTS
    Jobs = {j1}
    Workers = {w1, w2}
    NULL = NULL
    LeaseSeconds = 2
    MaxAttempts = 3
    ServiceWired = TRUE
    AgeBound = 0
    MaxCrashes = 1
INVARIANTS
    AttemptsBounded
    OneClaimPerLease
    RunningHasProcessor
    CompletedMeansInvestigated
PROPERTY QueuedJobIsSettled
CHECK_DEADLOCK FALSE
