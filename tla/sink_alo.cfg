SPECIFICATION FairSpec
CONSTANTS
    r1 = r1
    Runners = {r1}
    Observers = {}
    Guarantee = "AtLeastOnce"
    MaxAttempts = 2
    BatchSize = 2
    LostAcks = TRUE
    Retention = TRUE
    DurableCheckpoints = TRUE
    DurableDlq = TRUE
    MaxOffset = 3
    MaxFaults = 1
    MaxCrashes = 1
INVARIANTS
    TypeOK
    NoLoss
    BoundedRedelivery
    ResumesAtCheckpoint
PROPERTIES
    Drains
