CONSTANTS
    Tries = 100
    Offerings <- MCOfferings
SPECIFICATION FairSpec
INVARIANTS
    TypeOK
    FindsOldest
PROPERTY Terminates
CHECK_DEADLOCK FALSE
