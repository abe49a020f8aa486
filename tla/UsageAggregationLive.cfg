CONSTANTS
    Legacy = legacy
    p1 = p1
    Pushed = {}
    MaxRows = 1
    MaxIdentities = 1
    Home <- LegacyHome
    Author <- Alternating
    PageSize = 1
    NamePage = 1
    Broken = {"activity"}
    MaxCrashes = 0
SPECIFICATION MCFairSpec
CHECK_DEADLOCK FALSE
PROPERTIES
    HealthyRollupsGoOn
