SPECIFICATION Spec
CONSTANTS
    Window = 3
    Required = 2
    HighTime = 2
    VisibleTime = 4
    BothTime = 1
    GraceTime = 2
    GrowthTime = 3
    GrowthFrames = 3
    Evidence <- SomeEvidence
    Gaps = {1, 2}
    MaxTime = 7
INVARIANTS
    ShowsHistory
PROPERTIES
    AskedOnce
