SPECIFICATION FairSpec
CONSTANTS
    r1 = r1
    r2 = r2
    Runs = {r1, r2}
    Setups <- AllSetups
    NULL = NULL
    MaxRetries = 1
    MaxStops = 1
INVARIANTS
    TypeOK
    RecoveryIsReal
    VerdictNeedsData
PROPERTIES
    ResetsOnce
    ExecutionSettles
CHECK_DEADLOCK FALSE
