SPECIFICATION Spec
CONSTANTS
    MaxOutstandingGaps = 2
    Session = {1, 2}
    MaxSequence = 7
    MaxPackets = 5
INVARIANTS MissingIsExact AuditBalances
PROPERTY ExpectationAdvances
CHECK_DEADLOCK FALSE
