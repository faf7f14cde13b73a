SPECIFICATION FairSpec
CONSTANTS
    Procs = {p1, p2}
    Boots = {b1, b2}
    NoStamp = NoStamp
    Unavailable = Unavailable
INVARIANTS
    TypeOK
    ApprovedBootPassed
    FailedCheckRevokes
PROPERTIES
    GoodGraphicsApprove
    ImplementsGate
CHECK_DEADLOCK FALSE
