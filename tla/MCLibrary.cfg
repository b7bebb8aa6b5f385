SPECIFICATION Spec
CONSTANTS
    WordBits = 16
    ByteBits = 2
    SqrtPrecision = 1
    MaxLen = 4
    NoCall = NoCall
    NoLoop = NoLoop
    Operands <- TypedOperands
    InPlace <- SafeInPlace
INVARIANTS NormalForm PowerInvariant
PROPERTIES RefinesSailLib EveryCallReturns
