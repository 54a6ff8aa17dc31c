SPECIFICATION FairSpec
CONSTANTS
    SlotCount = 1
    UserCount = 2
    MaxClients = 3
    MaxPackets = 1
INVARIANTS
    TypeOK
    OwnIndex
    OneClientPerSlot
PROPERTY HangUpNoticed
CHECK_DEADLOCK FALSE
