SPECIFICATION Spec
CONSTANTS
    small = small
    medium = medium
    large = large
    Clauses <- MCClauses
    NLocals <- MCNLocals
    ResultRegs <- MCResultRegs
    ReturnRegs <- MCReturnRegs
    FrameSize = 32
    ValueSize = 16
    MaxDiff = 4096
    Blocks = {b1, b2}
    NoBlock = NoBlock
    NoDelivery = NoDelivery
    MaxDepth = 5
INVARIANT
    CurrentFrame
CHECK_DEADLOCK FALSE
