CONSTANTS
    Tokens = {t1, t2, t3}
    MaxShares = 2
    MaxLiveOrders = 2
    MaxTokensPerDay = 3
    LateCrossPeriod = TRUE
    FirstSequence = 1
    HeartbeatInterval = 1
    SilenceTimeout = 2
    Adverse = FALSE
SPECIFICATION Spec
INVARIANTS SharesAccounted LedgerAgrees ChainExposure AnsweredOnce
PROPERTY SilenceIsBroken
CHECK_DEADLOCK FALSE
