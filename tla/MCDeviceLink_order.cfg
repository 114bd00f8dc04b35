SPECIFICATION FairSpec
CONSTANTS
    MaxConnection = 3
    MaxBoot = 2
    MaxClock = 2
    MaxFaults = 1
PROPERTIES
    UpdatesInOrder
CHECK_DEADLOCK FALSE
