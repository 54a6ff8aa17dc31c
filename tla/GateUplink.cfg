SPECIFICATION FairSpec
CONSTANTS
    Session = {s1, s2}
    NoSession = NoSession
    PoolSize = 2
    MaxSent = 2
    MaxAhead = 2
INVARIANTS
    TypeOK
    OneOwner
    OnlyBadLeaks
    NothingLost
PROPERTY
    UplinkSpec
    Delivered
CHECK_DEADLOCK FALSE
