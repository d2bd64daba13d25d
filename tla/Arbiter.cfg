SPECIFICATION ArbiterSpec
CONSTANTS
    DigestHistory = 2
    Digest = {7, 8}
    DetectDivergence = TRUE
    LastSequence = 3
    MaxOffers = 5
INVARIANTS CrossesOnce DivergenceIsCaught NoFalseAlarm
CHECK_DEADLOCK FALSE
