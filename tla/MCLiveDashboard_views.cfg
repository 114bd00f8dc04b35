SPECIFICATION FairSpec
CONSTANTS
    Clients = {c1}
    c1 = c1
    MaxVersion = 2
    MaxSwitches = 2
    Room = 2
INVARIANTS
    ArmedAsShown
    ShownAsStored
PROPERTIES
    BackOnlyByAnnouncement
    CatchesUp
