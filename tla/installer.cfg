SPECIFICATION FairSpec
CONSTANTS
    Damageable <- AllKinds
    MaxFaults = 5
INVARIANTS
    TypeOK
    InstalledMeansPlayable
    AppOrBackup
PROPERTIES
    StampsOnlyWhole
    ValidIsKept
    
