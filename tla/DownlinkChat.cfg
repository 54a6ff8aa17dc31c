SPECIFICATION Spec
CONSTANTS
    Session = {s1, s2}
    Nobody = Nobody
    HeaderSize = 2
    MaxLength = 1
    GateSize = 5
    BufferSize = 3
    ListSize = 1
    MaxPackets = 1
    MaxBroadcasts = 1
INVARIANT ChatReaches
CHECK_DEADLOCK FALSE
