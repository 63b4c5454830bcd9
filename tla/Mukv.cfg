SPECIFICATION Spec
CONSTANTS
    Key = {k1, k2}
    Byte <- MCByte
    Value <- MCValue
    NoValue = NoValue
    MaxSize = 6
INVARIANTS
    TypeOK
    NeverUndefined
PROPERTIES
    ImplementsKVMap
CHECK_DEADLOCK FALSE
