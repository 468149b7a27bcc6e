SPECIFICATION Spec
CONSTANTS
    BitRK = 128
    HeaderSlots = 2
    Junk = {0, 3}
    CreditMod = 32
    MaxFrames = 6
    Fuel = 6
    Programs <- CallInClause
INVARIANT
    OnlyLastSelectReturns
CHECK_DEADLOCK FALSE
