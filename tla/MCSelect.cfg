SPECIFICATION Spec
CONSTANTS
    x = x
    y = y
    a = a
    Names = {x, y}
    Atoms = {a}
    Depth = 2
    LastReg = 9
    Patterns <- MCPatterns
    Values <- MCValues
    Scopes <- MCScopes
    MaxClauses = 2
INVARIANTS
    ChoosesFirst
    BindsSolution
PROPERTY
    KeepsOthers
CHECK_DEADLOCK FALSE
