SPECIFICATION Spec
CONSTANTS
    v1 = v1
    v2 = v2
    Values = {v1, v2}
    SegmentMax = 2
    MaxRecords = 3
    IoFaults = {"create", "write", "partial", "remove"}
    MaxBatch = 2
    MaxOffset = 6
    MaxFaults = 2
    MaxCrashes = 2
SYMMETRY ValueSymmetry
INVARIANTS
    AckedSurvives
    HighWatermarkSurvives
    FetchAscending
CHECK_DEADLOCK FALSE
