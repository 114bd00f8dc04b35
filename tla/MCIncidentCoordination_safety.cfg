SPECIFICATION Spec
CONSTANTS
    i1 = i1
    NoIncident = NoIncident
    Incidents = {i1}
    DeviceReports <- EdgeReports
    CallMode = "elevenlabs"
    MaxCalls = 1
    Cooldown = 1
    MaxAttempts = 2
    ApiBudget = 2
    MaxTime = 1
    CanRestart = TRUE
INVARIANTS
    TypeOK
    CallsOnlyConfirmed
    TimerServesEscalation
    EscalatesOnce
    RetryOnlyAfterFailure
    ConnectedOnlyByCallback
PROPERTIES
    AnswerStands
    CancelledUntilProvider
    ImplementsLedger
