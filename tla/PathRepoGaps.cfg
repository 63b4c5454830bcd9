SPECIFICATION Spec
CONSTANTS
    SNAPSHOT_INTERVAL = 2
    CACHE_SIZE = 2
    Path <- MCPath
    First = 1
    MaxRev = 3
    MaxDelta = 1
    Modes = {"gaps"}
INVARIANT
    TreeTracksHead
CHECK_DEADLOCK FALSE
