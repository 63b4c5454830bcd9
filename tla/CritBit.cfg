SPECIFICATION Spec
CONSTANTS
    Str <- MCStr
    Prefix <- MCPrefix
    ENOMEM = 12
INVARIANTS
    SplitsAtFirstDifference
PROPERTIES
    ImplementsStringSet
