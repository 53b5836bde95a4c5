CONSTANTS
    p1 = p1  p2 = p2  p3 = p3
    s1 = s1  s2 = s2
    old = old  new = new  Junk = junk
    Patches <- OnePatch
    Site <- OneSite
    Byte <- MCByte
    Target <- OneTarget
    PatchTimeCopy <- OneCopy
SPECIFICATION ManagerSpec
INVARIANT PatchAllApplies
CHECK_DEADLOCK FALSE
