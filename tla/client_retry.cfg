SPECIFICATION Spec
CONSTANTS
    Procs = {p1}
    NoOne = NoOne
    Absent = Absent
    Files <- MCFiles
    RawFiles <- MCRaw
    Required <- MCRequired
    GivenClients <- NoClient
    GivenStages <- NoStage
    MaxRuns = 2
INVARIANTS
    RetryNeverCollides
CHECK_DEADLOCK FALSE
