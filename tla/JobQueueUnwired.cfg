\* The worker as run_once runs it: process_job builds its own service.
SPECIFICATION FairSpec
CONSTANTS
    Jobs = {j1}
    Workers = {w1}
    NULL = NULL
    LeaseSeconds = 2
    MaxAttempts = 3
    ServiceWired = FALSE
    AgeBound = 0
    MaxCrashes = 0
INVARIANT FailedMeansGraphRan
CHECK_DEADLOCK FALSE
