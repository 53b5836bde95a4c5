CONSTANTS
    Byte <- MCByte
    Wild = "*"
    Patterns <- MCPatterns
    Images <- MCImages
    Headers <- MCHeaders
    PageSize = 2
SPECIFICATION FairSpec
INVARIANTS
    TypeOK
    FindsFirst
    ReadsInsideIfPresent
    FaultsOnlyOnPartialMatch
PROPERTY Terminates
CHECK_DEADLOCK FALSE
