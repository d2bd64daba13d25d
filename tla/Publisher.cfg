SPECIFICATION Spec
CONSTANTS
    Capacity = 2
    Pending = 3
    First = 1
    MaxSequence = 7
    MaxOffers = 9
    Value <- Sequences
    Oversized <- MCOversized
    ReoffersStalled = FALSE
INVARIANTS CrossesInSequence WindowHolds AcceptedIsKept
CHECK_DEADLOCK FALSE
