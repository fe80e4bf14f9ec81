SPECIFICATION FairSpec
CONSTANTS
    r1 = r1
    o1 = o1
    Runners = {r1}
    Observers = {o1}
    Savers = {r1, o1}
    Radix = 2
    Guarantee = "AtLeastOnce"
    MaxAttempts = 1
    BatchSize = 2
    LostAcks = FALSE
    Retention = FALSE
    DurableDlq = TRUE
    MaxOffset = 3
    MaxFaults = 1
    MaxCrashes = 1
PROPERTIES
    RefinesSinkRuntime
    Drains
