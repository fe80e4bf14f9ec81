SPECIFICATION Spec
CONSTANTS
    t1 = t1
    t2 = t2
    Topics = {t1, t2}
    MaxPartitions = 2
    MaxRecords = 2
    MaxFaults = 2
    MaxCrashes = 2
INVARIANTS
    AckedTopicSurvives
    RecordsReachable
    StatsAgree
