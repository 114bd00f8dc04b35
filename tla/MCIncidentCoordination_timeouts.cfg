SPECIFICATION FairSpec
CONSTANTS
    i1 = i1
    i2 = i2
    NoIncident = NoIncident
    Incidents = {i1, i2}
    DeviceReports <- EdgeReports
    CallMode = "mock"
    MaxCalls = 1
    Cooldown = 1
    MaxAttempts = 4
    ApiBudget = 2
    MaxTime = 2
    CanRestart = FALSE
INVARIANTS
    CooldownKept
    AwaitingHasDeadline
PROPERTIES
    AwaitingEnds
