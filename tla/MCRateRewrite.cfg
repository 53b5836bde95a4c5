CONSTANTS
    Distances <- MCDistances
    Others <- MCOthers
SPECIFICATION Spec
INVARIANTS
    TypeOK
    LiftsTheBound
    SavesGameCode
CHECK_DEADLOCK FALSE
