SPECIFICATION Spec
CONSTANTS
    SNAPSHOT_INTERVAL = 2
    CACHE_SIZE = 1
    Path <- MCCopyPath
    First = 1
    MaxRev = 3
    MaxDelta = 1
    Modes = {"full", "mid"}
INVARIANTS
    CacheCoherent
PROPERTIES
    ImplementsVersionedTree
CHECK_DEADLOCK FALSE
