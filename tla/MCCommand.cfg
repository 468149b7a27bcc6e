SPECIFICATION Spec
CONSTANTS
    NULL = NULL
    Procs = {p, q}
    p = p
    q = q
    Paths <- MCPaths
    Lines <- MCLines
    Sources <- MCSources
    Source <- MCSource
    Buf = 2
SYMMETRY Symmetry
INVARIANTS
    RunsOwnBuild
    OutputsWhole
    StatusTold
CHECK_DEADLOCK FALSE
