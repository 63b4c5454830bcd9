SPECIFICATION Spec
CONSTANTS
    Youngest = 4
    Allowed = {"creation"}
INVARIANT
    RangeDumped
CHECK_DEADLOCK FALSE
