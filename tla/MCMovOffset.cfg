CONSTANTS
    Pointer <- MCPointer
    ModRMs <- MCModRMs
    Sibs <- MCSibs
    Others <- MCOthers
SPECIFICATION Spec
INVARIANTS
    OffsetIsOfDisp32
CHECK_DEADLOCK FALSE
