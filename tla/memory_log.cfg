SPECIFICATION Spec
CONSTANTS
    v1 = v1
    v2 = v2
    Values = {v1, v2}
    SegmentMax = 2
    MaxRecords = 2
    MaxBatch = 3
    MaxOffset = 7
SYMMETRY ValueSymmetry
INVARIANTS
    FetchCorrect
    CountersAgree
PROPERTIES
    RefinesCommitLog
    RetentionExact
CHECK_DEADLOCK FALSE
