SPECIFICATION FairSpec
CONSTANTS
    NULL = NULL
    MaxIterations = 2
    ConfidenceThreshold = 1
    MinRootCauseConfidence = 2
    MaxConfidence = 2
    MaxAttempts = 1
    MaxAuto = 1
    MaxProposals = 2
    TypeLists <- AnyList
    MaxFaults = 1
INVARIANT RejectNeverExecutes
CHECK_DEADLOCK FALSE
