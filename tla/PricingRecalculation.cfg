SPECIFICATION MCFairSpec
CONSTANTS
    p1 = p1
    Legacy = legacy
    Pushed <- Nobody
    Times <- Day
    HourLength = 2
    PageSize = 1
    QueueSize = 1
    Expired = TRUE
    MaxEvents = 2
    MaxRevision = 2
    MaxTasks = 1
    MaxReads = 2
    MaxQuota = 1
    MaxCrashes = 1
INVARIANTS
    CostsAgree
    OldPricesGone
PROPERTIES
    ReadersUndisturbed
    TaskEnds
