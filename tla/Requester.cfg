SPECIFICATION FairSpec
CONSTANTS
    MaxOutstandingGaps = 2
    SettleDelay = 1
    FirstTimeout = 1
    MaxTimeout = 2
    BackoffNumerator = 2
    BackoffDenominator = 1
    MaxAttempts = 2
    RetentionWindow = 5
    MaxMessagesPerRequest = 3
    LastSequence = 3
    OldestAge = 6
INVARIANTS EntriesPartitionWanted AsksAreTimely 
PROPERTY NothingWantedForEver
