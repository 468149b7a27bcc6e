CONSTANTS
    Files <- MCFiles
    Words <- MCWords
    TableSize = 8
    PtrSize = 8

SPECIFICATION Spec

INVARIANTS
    TypeOK
    Nests
    ClosesAll
    Siblings
    TableFits
    ParsesBack
    NothingLost

PROPERTY
    ReachesEnd

CHECK_DEADLOCK FALSE
