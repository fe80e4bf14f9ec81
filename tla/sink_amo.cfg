SPECIFICATION Spec
CONSTANTS
    r1 = r1
    Runners = {r1}
    Observers = {}
    Guarantee = "AtMostOnce"
    MaxAttempts = 2
    BatchSize = 2
    LostAcks = FALSE
    Retention = TRUE
    DurableCheckpoints = TRUE
    DurableDlq = TRUE
    MaxOffset = 4
    MaxFaults = 2
    MaxCrashes = 2
INVARIANTS
    NoDuplicates
    CommitBeforeDelivery
