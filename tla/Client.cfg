SPECIFICATION Spec
CONSTANTS
    MaxOutstandingGaps = 2
    DigestHistory = 1
    Digest = {0}
    DetectDivergence = FALSE
    SettleDelay = 0
    FirstTimeout = 1
    MaxTimeout = 1
    BackoffNumerator = 1
    BackoffDenominator = 1
    MaxAttempts = 1
    RetentionWindow = 2
    MaxMessagesPerRequest = 2
    BufferMessages = 2
    Staleness = 0
    Adverse = {"snapshot"}
    MaxPacket = 2
    MaxSequence = 4
    MaxLater = 2
    MaxSession = 2
    MaxAge = 3
    MaxRequests = 1
INVARIANTS NoMessageTwice AcceptedOrRecovered KnowsWhatIsMissing MissingIsChased
CHECK_DEADLOCK FALSE
