SPECIFICATION Spec
CONSTANTS
    Procs = {p1, p2}
    Trials = {t1, t2}
    Notes = {n1}
    RunDirs = {d1, d2}
    Capacity = 1
    Repro = Repro
    NoFile = NoFile
    Empty = Empty
    Torn = Torn
SYMMETRY Symmetry
INVARIANTS
    TypeOK
    NothingLostAlone
    ReadableAlone
    TwiceOnlyAfterTrouble
    CandidatesAreWhole
PROPERTIES
    RunsAreFinal
