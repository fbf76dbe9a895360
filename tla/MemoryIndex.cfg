SPECIFICATION Spec
CONSTANTS
    NULL = NULL
    Runs = {r1, r2}
INVARIANTS
    TypeOK
    MemoryIsEarned
    PostmortemIsComplete
    MemoryNamesItsAction
PROPERTIES
    FirstRecordStands
    ResolutionIsRecorded
CHECK_DEADLOCK FALSE
