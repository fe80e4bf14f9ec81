SPECIFICATION Spec
CONSTANTS
    o1 = o1
    r1 = r1
    r2 = r2
    Runners = {r1, r2}
    Observers = {o1}
    Guarantee = "AtLeastOnce"
    MaxAttempts = 1
    BatchSize = 2
    LostAcks = FALSE
    Retention = TRUE
    DurableCheckpoints = FALSE
    DurableDlq = TRUE
    MaxOffset = 2
    MaxFaults = 1
    MaxCrashes = 1
SYMMETRY TaskSymmetry
INVARIANTS
    NoLoss
    NoGaps
PROPERTIES
    CaughtUp
