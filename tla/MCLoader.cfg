CONSTANTS
    Modules <- MCModules
    Base = 32
    Depth = 3
    CodeSize = 48

SPECIFICATION Spec

INVARIANTS
    ReadsInStep
    LoadsWithin
    FailsBeyond

CHECK_DEADLOCK FALSE
