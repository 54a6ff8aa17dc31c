SPECIFICATION FairSpec
CONSTANTS
    MaxGates = 3
    MaxNodes = 3
INVARIANTS
    TypeOK
    OnlyStrandedDies
    WalkComplete
    CountAgrees
    LostAreGone
PROPERTIES
    RegistrySpec
    Served
CHECK_DEADLOCK FALSE
