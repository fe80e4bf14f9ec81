SPECIFICATION Spec
CONSTANTS
    o1 = o1
    r1 = r1
    Runners = {r1}
    Observers = {o1}
    Guarantee = "AtMostOnce"
    MaxAttempts = 2
    BatchSize = 2
    LostAcks = FALSE
    Retention = TRUE
    DurableCheckpoints = TRUE
    DurableDlq = TRUE
    MaxOffset = 3
    MaxFaults = 0
    MaxCrashes = 0
INVARIANTS
    NoDuplicates
