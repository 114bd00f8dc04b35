SPECIFICATION FairSpec
CONSTANTS
    MaxConnection = 5
    MaxBoot = 2
    MaxClock = 2
    MaxFaults = 1
INVARIANTS
    TypeOK
    RegistryIsLive
    RowFollowsRegistry
PROPERTIES
    RegressOnlyBuffered
    Reconnects
CHECK_DEADLOCK FALSE
