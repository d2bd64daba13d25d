CONSTANTS
    EndOfSession = 9
    Session = 7
    MaxPayload = 4
    HeartbeatInterval = 1
    RetainedPackets = 2
    MaxPerResponse = 3
    Latency = 1
    Staleness = 1
    Permitted = {"drop", "duplicate", "delay", "truncate", "overstate_block_length", "rewrite_sequence", "overstate_block_count", "understate_block_count", "rewrite_session"}
    MinFaults = 1
    MaxFaults = 2
    MinBurst = 1
    MaxBurst = 1
    Warmup = 1
    MaxOperand = 2
    MaxDelayed = 1
    MaxOutstandingGaps = 2
    FeedProtocols = {"moldudp64", "iextp"}
    MaxMessages = 3
    MaxPackets = 3
    BodySizes = {1, 4}
SPECIFICATION Spec
INVARIANTS StreamChains ReportsConcernOnePair NothingVanishes AnswersFromTheWindow BookIsThePrefix SnapshotIsOfTheRequest AnswerClosesTheHole
CHECK_DEADLOCK FALSE
