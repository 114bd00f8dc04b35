SPECIFICATION Spec
CONSTANTS
    Window = 5
    Required = 4
    ConfirmTime = 5
    ClearTime = 2
    ResetTime = 4
    Gaps = {1, 3}
    MaxTime = 18
INVARIANTS
    TypeOK
    WindowIsOfIncident
    ConfirmedByEvidence
    ReportsVisible
    OpenIncidentIsRecent
PROPERTIES
    ConfirmationStands
    KeepsPromise
CHECK_DEADLOCK FALSE
