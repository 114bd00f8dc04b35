SPECIFICATION FairSpec
CONSTANTS
    MaxIncidents = 2
    WireSize = 2
    MaxFaults = 1
INVARIANTS
    LogIsComplete
    EventsAreAnnounced
PROPERTIES
    LoopReturns
    ConfirmedIsServed
