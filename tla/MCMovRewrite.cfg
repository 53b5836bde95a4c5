CONSTANTS
    Pointer <- MCPointer
    ModRMs <- MCModRMs
    Sibs <- MCSibs
    Others <- MCOthers
SPECIFICATION Spec
INVARIANTS
    TypeOK
    ReadsPointer
    KeepsTheRest
CHECK_DEADLOCK FALSE
