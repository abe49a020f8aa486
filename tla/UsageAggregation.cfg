CONSTANTS
    Legacy = legacy
    p1 = p1
    Pushed = {p1}
    MaxRows = 2
    MaxIdentities = 2
    Home <- MixedHome
    Author <- Alternating
    PageSize = 1
    NamePage = 1
    Broken = {}
    MaxCrashes = 1
SPECIFICATION MCSpec
CHECK_DEADLOCK FALSE
INVARIANTS
    CountedOnce
    AsleepMeansDone
PROPERTY ArchiveOnlyCounted
