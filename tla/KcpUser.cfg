SPECIFICATION Spec
CONSTANTS
    HeaderSize = 1
    PacketSize = 6
    Sizes = {2, 3}
    MaxDatagrams = 3
INVARIANT
    CountIsData
CHECK_DEADLOCK FALSE
