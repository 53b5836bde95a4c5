CONSTANTS
    MaxLoads = 3
    MaxModules = 2
    BoomerReads <- MCBoomerReads
    RateSites <- MCRateSites
    Cvars <- MCCvars
    Site <- MCSite
    Patches <- MCPatches
    Target <- MCTarget
    PatchTimeCopy <- MCPatchTimeCopy
    Byte <- MCByte
    Junk <- MCJunk
SPECIFICATION Spec
INVARIANT TickRateComesWithVomitPatch
CHECK_DEADLOCK FALSE
