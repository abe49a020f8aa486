SPECIFICATION Spec
CONSTANTS
    None = None
    NoState = NoState
    Auths = {a1, a2}
    Unsupported = {}
    Callers = {"manual", "inspection", "inspection2", "scheduled"}
    WorkerLimit = 2
    MaxGeneration = 1
    MaxRounds = 2
    PendingLimit = 1
    MaxSnapshots = 2
    MaxTime = 2
    Responses <- MCResponses
    Tolerance = 1
    QueueLimit = 2
    WriteBatch = 1
    MaxResponses = 3
    MaxFailures = 1
INVARIANT RefreshSound
PROPERTIES
    HistoryConsistent
    NeverOlder
    RoundsEnd
CHECK_DEADLOCK FALSE
