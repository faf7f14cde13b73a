SPECIFICATION FairSpec
CONSTANTS
    Procs = {p1, p2}
    NoOne = NoOne
INVARIANTS
    TypeOK
    LockHolderAlone
    SideBySideOnlyAfterKill
    WaitedGameIsOnRecord
    LockedForAReason
PROPERTIES
    NxdlLetsGo
    StopFreesTheLock
    ImplementsGate
CHECK_DEADLOCK FALSE
