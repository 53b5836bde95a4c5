CONSTANTS
    p1 = p1  p2 = p2  p3 = p3  p4 = p4
    s1 = s1  s2 = s2  s3 = s3
    old = old  new = new  Junk = junk
    Patches <- MCPatches
    Site <- MCSite
    Byte <- MCByte
    Target <- MCTarget
    PatchTimeCopy <- MCPatchTimeCopy
SPECIFICATION BinSpec
INVARIANTS
    BinTypeOK
    UnpatchNeverFaults
    NoUninitialisedCode
PROPERTY ImplementsOneShot
CHECK_DEADLOCK FALSE
