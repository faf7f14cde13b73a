SPECIFICATION Spec
CONSTANTS
    Procs = {p1, p2}
    NoOne = NoOne
SYMMETRY Symmetry
INVARIANTS
    NoDuplicateClient
CHECK_DEADLOCK FALSE
