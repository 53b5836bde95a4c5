CONSTANTS
    p1 = p1  p2 = p2  p3 = p3
    s1 = s1  s2 = s2
    old = old  new = new  Junk = junk
    Patches <- MCPatches
    Site <- MCSite
    Byte <- MCByte
    Target <- MCTarget
    PatchTimeCopy <- MCPatchTimeCopy
SPECIFICATION ManagerSpec
INVARIANTS
    ManagerTypeOK
    ListedAlive
    UnpatchAllRestores
CHECK_DEADLOCK FALSE
