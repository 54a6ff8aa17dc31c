SPECIFICATION Spec
CONSTANTS
    SlotCount = 2
    UserCount = 2
    MaxClients = 2
    MaxPackets = 1
INVARIANT SenderIndex
CHECK_DEADLOCK FALSE
