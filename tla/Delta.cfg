SPECIFICATION Spec
CONSTANTS
    Path <- MCPath
    Text = {"t1", "t2"}
    NewText = {"t1"}
    Prop = {"p"}
    Imports <- MCImports
    Requests <- MCRequests
    Longer = {}
    Allowed = {}
    MaxRev = 3
    MaxOps = 3
INVARIANTS
    TypeOK
    AlwaysLoads
    LoadedMatches
    HistoryMatches
    LocalCopiesRight
    NoCopyLeft
    PropsKept
    CopiesKept
CHECK_DEADLOCK FALSE
