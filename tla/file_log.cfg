SPECIFICATION Spec
CONSTANTS
    v1 = v1
    v2 = v2
    Values = {v1, v2}
    SegmentMax = 2
    MaxRecords = 3
    IoFaults = {"create"}
    MaxBatch = 2
    MaxOffset = 6
    MaxFaults = 1
    MaxCrashes = 2
SYMMETRY ValueSymmetry
INVARIANTS
    FetchCorrect
PROPERTIES
    RefinesCommitLog
    RetentionBounded
CHECK_DEADLOCK FALSE
