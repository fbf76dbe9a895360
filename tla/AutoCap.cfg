SPECIFICATION Spec
CONSTANTS
    NULL = NULL
    Threads = {t1, t2}
    Operators = {o1}
    Levels = {1}
    MaxAttempts = 3
    MaxAuto = 1
    MaxProposals = 1
    TypeLists <- SingleLists
INVARIANT AutoCap
CHECK_DEADLOCK FALSE
