CONSTANTS
    Depth = 2
    Capacity = 4
    Multiplier = 1
    BidPrices = {1, 2, 3}
    AskPrices = {2, 3}
    Sizes = {0, 1}
    MaxMessages = 4
    References = {1, 2, 5, 6, 9}
    Large = {1, 6}
SPECIFICATION Spec
INVARIANTS BookIsLastWrites SnapshotPlusFeedIsTheBook TableIsTheMap
CHECK_DEADLOCK FALSE
