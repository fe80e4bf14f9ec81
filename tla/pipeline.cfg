SPECIFICATION FairSpec
CONSTANTS
    PollSize = 2
    Total = 3
    FailEvery = 2
    BatchSize = 2
    Bounds = {0, 2, 3}
    MaxClient = 2
    MaxFaults = 1
    MaxCrashes = 1
CHECK_DEADLOCK FALSE
INVARIANTS
    LogFollowsSource
    StatusTruthful
    DeadLettersShown
    DeliveredOnce
    DemoComplete
PROPERTIES
    StoredIsHandled
