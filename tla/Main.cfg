SPECIFICATION MainSpec
CONSTANTS
    Youngest = 5
    Allowed = {"shifted", "padded"}
    MaxArgs = 2
INVARIANTS
    TypeOK
    NumbersSequential
    NumbersAgree
    RangeDumped
    RepositoryInStep
    DiffBaseKnown
    CopiesExact
    CleanExit
    ExitTells
PROPERTIES
    CommitsInOrder
    Exits
CHECK_DEADLOCK FALSE
