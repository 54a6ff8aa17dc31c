SPECIFICATION FairSpec
CONSTANTS
    NumUsers = 1
    NumRooms = 2
    MaxPlayers = 2
    AskedSizes = {1}
    AskedPatterns = {"normal", "replay"}
    Gate = {g1}
    NoGate = NoGate
    MaxNodes = 3
    MaxListed = 0
INVARIANTS
    ScanInv
PROPERTY
    WaitEnds
