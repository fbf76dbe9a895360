SPECIFICATION Spec
CONSTANTS
    NULL = NULL
    Requests = {h1, h2}
    MaxIncidents = 3
INVARIANTS
    DuplicatesAreTwins
    FiringIsInvestigated
PROPERTIES
    ResolvedAlertStaysResolved
    ResolvedClearsFiring
SYMMETRY Symmetry
CHECK_DEADLOCK FALSE
