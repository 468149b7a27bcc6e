SPECIFICATION Spec
CONSTANTS
    BitRK = 128
    HeaderSlots = 2
    Junk = {0, 3}
    CreditMod = 32
    MaxFrames = 6
    Fuel = 6
    Programs <- MCPrograms
INVARIANTS
    TypeOK
    Correct
    StaysInCode
    LoopsInOneFrame
PROPERTIES
    InFrame
    BoundOnce
    Ends
CHECK_DEADLOCK FALSE
