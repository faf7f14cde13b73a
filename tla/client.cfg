SPECIFICATION Spec
CONSTANTS
    Procs = {p1, p2}
    NoOne = NoOne
    Absent = Absent
    Files <- MCFiles
    RawFiles <- MCRaw
    Required <- MCRequired
    GivenClients <- MCClients
    GivenStages <- MCStages
    MaxRuns = 4
SYMMETRY Symmetry
INVARIANTS
    TypeOK
    InstalledClientComplete
    NoClientTreeLost
PROPERTIES
    StageIsKept
    ImplementsPath
CHECK_DEADLOCK FALSE
