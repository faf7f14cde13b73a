SPECIFICATION Spec
CONSTANTS
    Links <- AllLinks
    MaxFields = 4
    MaxTokens = 2
INVARIANTS
    TypeOK
    RequestIsTheLinks
    ReadSoFar
PROPERTIES
    ParseEnds
CHECK_DEADLOCK FALSE
