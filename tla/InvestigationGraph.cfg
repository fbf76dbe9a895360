SPECIFICATION FairSpec
CONSTANTS
    NULL = NULL
    MaxIterations = 3
    ConfidenceThreshold = 1
    MinRootCauseConfidence = 2
    MaxConfidence = 2
    MaxAttempts = 2
    MaxAuto = 1
    MaxProposals = 2
    TypeLists <- AnyList
    MaxFaults = 2
INVARIANTS
    TypeOK
    ExecutionGrounded
    ExecutionAuthorised
    OneActionPerThread
    RoutingInvariant
PROPERTIES
    ImplementsThread
    InvocationReturns
CHECK_DEADLOCK FALSE
