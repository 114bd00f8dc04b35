SPECIFICATION FairSpec
CONSTANTS
    HeaderSize = 2
    MaxPayload = 3
    ChunkSize = 4
    Packets <- SomePackets
    MaxPackets = 4
INVARIANTS
    TypeOK
    LegalStreamAccepted
PROPERTIES
    ImplementsQueue
CHECK_DEADLOCK FALSE
