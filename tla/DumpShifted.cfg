SPECIFICATION Spec
CONSTANTS
    Youngest = 4
    Allowed = {"shifted"}
INVARIANT
    CopySourceExact
CHECK_DEADLOCK FALSE
