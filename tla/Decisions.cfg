SPECIFICATION Spec
CONSTANTS
    MaxProposals = 3
    MaxCount = 2
INVARIANTS
    SelectionIsBest
    AuthorityMonotone
    ChangesAreCollected
    PromotionIsEarned
CHECK_DEADLOCK FALSE
