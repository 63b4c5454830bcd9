SPECIFICATION Spec
CONSTANTS
    Path <- MCPath
    Text = {"t1", "t2"}
    NewText = {"t1"}
    Prop = {"p"}
    Imports <- MCImports
    Requests <- MCRequests
    Longer = {}
    Allowed = {"propdel"}
    MaxRev = 3
    MaxOps = 2
INVARIANT
    NoDeletedProps
CHECK_DEADLOCK FALSE
