SPECIFICATION MCSpec
CONSTANTS
    Requests = {r1, r2}
    File = file
    Members = {m1, m2}
    MaxOutside = 1
    Values = {TRUE}
    Throttle = TRUE
    Ids = {1, 2, 4}
    Messages = {u1, u2}
    PageSize = 1
    MaxStops = 3
    DayTicks = 4
    BackupHour = 1
    Intervals = {3, 8}
    Retentions = {0, 1}
    MaxRetries = 1
    MaxClock = 8
    MaxSlow = 1
    MaxFaults = 2
SYMMETRY Symmetric
INVARIANTS NoUndo UpgradeSound BackupsKept
PROPERTY OnlyItsField
