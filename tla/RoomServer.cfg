SPECIFICATION Spec
CONSTANTS
    NumUsers = 2
    NumRooms = 1
    MaxPlayers = 2
    AskedSizes = {0, 3}
    AskedPatterns = {"normal", "replay"}
    Gate = {g1}
    NoGate = NoGate
    MaxListed = 1
    MaxNodes = 2
INVARIANTS
    TypeOK
    WorkerInv
    Membership
    CountIsLength
    Capacity
PROPERTY
    CreatesVacantRoom
