CONSTANTS
    Legacy = legacy
    p1 = p1
    Pushed = {p1}
    MaxRows = 2
    MaxIdentities = 0
    Home <- MixedHome
    Author <- Alternating
    PageSize = 1
    NamePage = 1
    Broken = {"activity"}
    MaxCrashes = 0
SPECIFICATION MCFairSpec
CHECK_DEADLOCK FALSE
PROPERTIES
    HealthyRollupsGoOn
