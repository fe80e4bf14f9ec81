SPECIFICATION FairSpec
CONSTANTS
    c1 = c1
    c2 = c2
    Clients = {c1, c2}
    Topics = {"t1"}
    Keys = {"k"}
    NoKey = "none"
    KeyHash <- MCKeyHash
    AskedPartitions = {0}
    DefaultPartitions = 2
    MaxTopics = 1
    Burst = 2
    MaxRecords = 3
    RetryAttempts = 2
    MaxBatch = 2
    MaxRequests = 3
    MaxFaults = 2
INVARIANTS
    TypeOK
    EventsAreCommitted
    AckedIsPublished
    FailuresAreSilent
    OneCreator
PROPERTIES
    Returns
CHECK_DEADLOCK FALSE
