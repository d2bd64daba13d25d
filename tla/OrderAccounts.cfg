CONSTANTS
    Tokens = {t1, t2, t3}
    MaxShares = 3
    MaxLiveOrders = 2
    MaxTokensPerDay = 2
    LateCrossPeriod = TRUE
    FirstSequence = 1
    HeartbeatInterval = 1
    SilenceTimeout = 2
    Adverse = TRUE
SPECIFICATION Spec
INVARIANT EveryShareAccounted
CHECK_DEADLOCK FALSE
