SPECIFICATION Spec
CONSTANTS
    i1 = i1
    NoIncident = NoIncident
    Incidents = {i1}
    DeviceReports <- SteadyReports
    CallMode = "elevenlabs"
    MaxCalls = 1
    Cooldown = 1
    MaxAttempts = 2
    ApiBudget = 2
    MaxTime = 1
    CanRestart = FALSE
INVARIANTS
    PlacedWithinLimit
