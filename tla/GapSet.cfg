SPECIFICATION GapSetSpec
CONSTANTS
    MaxOutstandingGaps = 2
    LastHole = 6
PROPERTY ImplementsMissingSet
