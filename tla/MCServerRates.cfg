CONSTANTS
    MaxLoads = 3
    MaxModules = 2
    BoomerReads <- MCBoomerReads
    RateSites <- MCRateSites
    Cvars <- MCCvars
    Site <- MCSite
    Patches <- MCPatches
    Target <- MCTarget
    PatchTimeCopy <- MCPatchTimeCopy
    Byte <- MCByte
    Junk <- MCJunk
    Tickrates <- MCTickrates
SPECIFICATION RatesSpec
INVARIANTS
    RatesTypeOK
    AppliedAreSound
    LiveAreOwned
    AllOrNothing
    UncappedOnlyIfPatched
    NoDanglingRead
    NoEngineNoPatch
    UpIsComplete
    ExcessIsClamped
PROPERTIES
    KeepsContract
    UnloadUndoesAll
    OwnRateOwnGame
    CallsReturn
CHECK_DEADLOCK FALSE
