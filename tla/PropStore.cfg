SPECIFICATION Spec
CONSTANTS
    i1 = i1
    i2 = i2
    i3 = i3
    a = a
    b = b
    NoProps = NoProps
    Path = {root, dir, file}
    Root = root
    Id <- MCId
    Props <- MCProps
    Content <- MCContent
    MaxCount = 2
INVARIANTS
    TypeOK
    CountCovers
    NoDangling
    ZeroCollected
PROPERTIES
    ImplementsPropMap
CHECK_DEADLOCK FALSE
