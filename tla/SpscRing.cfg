SPECIFICATION FairSpec
CONSTANTS
    RingCapacity = 2
    Record = {a, b}
    Torn = torn
    MaxBatch = 2
    MaxPushes = 6
INVARIANTS DataRaceFree PoppedInOrder
PROPERTIES ImplementsFifo AcceptedIsTaken
