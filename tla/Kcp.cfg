SPECIFICATION FairSpec
CONSTANTS
    Messages <- FullWindow
    Window = 3
    Mtu = 2
    FastResend = 1
    MaxAcks = 1
    MaxInFlight = 2
    MaxFaults = 1
INVARIANTS
    TypeOK
    Remembered
PROPERTY
    TransferSpec
    
CHECK_DEADLOCK FALSE
