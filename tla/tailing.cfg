SPECIFICATION FairSpec
CONSTANTS
    p1 = p1
    p2 = p2
    s1 = s1
    Producers = {p1, p2}
    Subscribers = {s1}
    Buffer = 1
    FetchMax = 1
    AskedMax = {0, 3}
    MaxOffset = 2
    MaxNoise = 2
CHECK_DEADLOCK FALSE
INVARIANTS
    ConsumedInOrder
    MissedIsCounted
PROPERTIES
    AnnouncedIsRead
