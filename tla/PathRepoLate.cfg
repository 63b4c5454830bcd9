SPECIFICATION Spec
CONSTANTS
    SNAPSHOT_INTERVAL = 2
    CACHE_SIZE = 2
    Path <- MCPath
    First = 1
    MaxRev = 2
    MaxDelta = 1
    Modes = {"late"}
INVARIANT
    LookupsExact
CHECK_DEADLOCK FALSE
