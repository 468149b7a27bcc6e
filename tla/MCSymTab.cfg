SPECIFICATION CTSpec
CONSTANTS
    x = x
    y = y
    z = z
    none = none
    Names = {x, y, z}
    Size = 2
    Hash <- MCHash
    NRegs = 4
    MaxTaken = 5
    MaxScopes = 3
    Literals <- MCLiterals
    NoText = none
    KSize = 2
    KHash <- MCKHash
    BitRK = 2
    MaxConsts = 3
INVARIANTS
    TypeOK
    LookupSound
    OwnRegister
    LostByCollisionOnly
    OperandsTold
    ConstantSound
