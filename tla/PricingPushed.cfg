SPECIFICATION MCFairSpec
CONSTANTS
    p1 = p1
    Legacy = legacy
    Pushed <- OneKeeper
    Times <- Noon
    HourLength = 2
    PageSize = 2
    QueueSize = 1
    Expired = FALSE
    MaxEvents = 3
    MaxRevision = 2
    MaxTasks = 1
    MaxReads = 1
    MaxQuota = 0
    MaxCrashes = 0
INVARIANTS
    CostsAgree
