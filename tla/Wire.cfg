CONSTANTS
    WordMax = 255
    SequenceTextSize = 3
    EndOfSession = 9
    MaxPacketBytes = 83
    MaxEncoded = 2
    MaxSent = 5
    MaxCells = 4
    MaxRecords = 2
    MaxBlocks = 3
    MaxInterfaces = 2
    LoginSequences = {1, 250}
    Buffers = {40, 80}
SPECIFICATION Spec
INVARIANTS FieldsRoundTrip  
CHECK_DEADLOCK FALSE
