SPECIFICATION FairSpec
CONSTANTS
    Session = {s1, s2}
    Nobody = Nobody
    HeaderSize = 2
    MaxLength = 1
    GateSize = 5
    BufferSize = 3
    ListSize = 1
    MaxPackets = 3
    MaxBroadcasts = 1
INVARIANTS
    TypeOK
    InStep
    NothingLost
    InOrder
PROPERTY Arrives
CHECK_DEADLOCK FALSE
