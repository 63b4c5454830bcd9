SPECIFICATION Spec
CONSTANTS
    SNAPSHOT_INTERVAL = 2
    CACHE_SIZE = 2
    Path <- MCPath
    First = 2
    MaxRev = 3
    MaxDelta = 2
    Modes = {"full", "late", "mid"}
INVARIANTS
    TypeOK
    TreeTracksHead
    SnapshotsPresent
CHECK_DEADLOCK FALSE
