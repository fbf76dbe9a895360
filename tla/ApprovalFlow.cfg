SPECIFICATION Spec
CONSTANTS
    NULL = NULL
    Threads = {t1, t2}
    Operators = {o1, o2}
    Levels = {0, 1}
    MaxAttempts = 3
    MaxAuto = 1
    MaxProposals = 2
    TypeLists <- MixedLists
INVARIANTS
    OutcomeNeedsApproval
    OutcomeIsTrue
    ResolvedIsValidated
    AwaitingHasAction
    CapOnKnownExecutions
    InvestigatingHasRun
PROPERTIES
    OutcomesAreFinal
    TwoWaitForEver
    RowsFollowAnswers
SYMMETRY Symmetry
CHECK_DEADLOCK FALSE
