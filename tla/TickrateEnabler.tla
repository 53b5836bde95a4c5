-------------------------- MODULE TickrateEnabler ---------------------------
(* The plugin (tickrate_enabler.cpp) with its patches (boomervomitpatch.cpp, *)
(* maxrate_patches.cpp) and its patch manager, driven by the game server:    *)
(* the server maps the module, calls Load and Unload on its main thread, one *)
(* call at a time, and unmaps the module, which runs the static destructors. *)
(*                                                                           *)
(* One object patches one Site: the object that the n-th call of Load builds *)
(* for site s is <<s, n>>.  BoomerVomitFrameTimePatch is a manager of its    *)
(* own inside the plugin's manager; patchList is the list flattened.         *)
EXTENDS PatchManager, Functions

CONSTANTS BoomerReads,   \* g_FrameTimeReadOffsets: the frametime reads, a sequence
          RateSites,     \* CNetChan::SetDataRate and what else the build patches
          Cvars,         \* the rate cvars, in the order Load takes them
          MaxLoads,      \* bound: calls of Load
          MaxModules     \* bound: times the module is mapped

\* What a site holds: the instruction the check byte or opcode promises, another
\* one, the rewritten rate check, a read of module m's g_FakeGlobals.
Expected   == <<"expected", 0>>
Unexpected == <<"unexpected", 0>>
Rewritten  == <<"rewritten", 0>>
Fake(m)    == <<"fake", m>>

BoomerSite == Range(BoomerReads)
RateSite == Range(RateSites)
MovSource == {Expected} \cup {Fake(m) : m \in 1..MaxModules}

ASSUME BoundAssumption == MaxLoads \in Nat /\ MaxModules \in Nat
ASSUME SiteAssumption ==
    /\ BoomerReads \in Seq(Site) /\ RateSites \in Seq(Site)
    /\ Site = BoomerSite \cup RateSite
    /\ BoomerSite \cap RateSite = {}
    /\ IsInjective(BoomerReads) /\ IsInjective(RateSites)
    /\ BoomerReads # <<>> /\ RateSites # <<>>
ASSUME ObjectAssumption ==
    /\ Patches = Site \X (1..MaxLoads)
    /\ Target = [p \in Patches |-> {p[1]}]
    /\ PatchTimeCopy = [p \in Patches |-> FALSE]
ASSUME CodeAssumption == Byte = MovSource \cup {Unexpected, Rewritten}
ASSUME CvarAssumption == Cvars \in Seq(STRING) /\ Cvars # <<>>

VARIABLES host,      \* what this server offers: its interfaces and cvars
          phase,     \* where the plugin is
          module,    \* which mapping of the module this is
          loads,     \* calls of Load so far
          up,        \* Load has returned true and Unload has not been called since
          hooks,     \* GetTickInterval hooks on the game DLL
          inner,     \* BoomerVomitFrameTimePatch::m_patches while it is constructed
          built,     \* rate patches this call of Load has registered
          pCvar,     \* g_pCvar is not NULL
          capped,    \* cvars that have a maximum
          step,      \* the cvar being looked up
          crash      \* the call that went through a NULL pointer, if any

pluginVars == <<host, phase, module, loads, up, hooks, inner, built, pCvar, capped, step, crash>>
vars == <<managerVars, pluginVars>>

Alive == fault = "none" /\ crash = "none"
At(ph) == phase = ph /\ Alive
ObjectFor(s) == <<s, loads>>

\* The interfaces and cvars are those of the server binary: they stay the same.
\* Code: what each site holds before the plugin is first loaded.
Init ==
    /\ ManagerInit
    /\ pristine \in [Site -> {Expected, Unexpected}]
    /\ host \in [gamedll : BOOLEAN, engine : BOOLEAN, icvar : BOOLEAN,
                 missing : {{}} \cup {{c} : c \in Range(Cvars)}]
    /\ phase = "unmapped"
    /\ module = 0 /\ loads = 0
    /\ up = FALSE
    /\ hooks = 0
    /\ inner = <<>> /\ built = 0
    /\ pCvar = FALSE
    /\ capped = Range(Cvars)
    /\ step = 1
    /\ crash = "none"

-----------------------------------------------------------------------------
\* The server's calls.

HostMap ==
    /\ At("unmapped")
    /\ module < MaxModules
    /\ module' = module + 1
    /\ phase' = "idle"
    /\ pCvar' = FALSE
    /\ UNCHANGED <<managerVars, host, loads, up, hooks, inner, built, capped, step, crash>>

\* Also a second Load of a plugin that is up: nothing in Load excludes it.
HostLoad ==
    /\ At("idle")
    /\ loads < MaxLoads
    /\ loads' = loads + 1
    /\ phase' = "interfaces"
    /\ UNCHANGED <<managerVars, host, module, up, hooks, inner, built, pCvar, capped, step, crash>>

\* Also an Unload after a Load that failed.
HostUnload ==
    /\ At("idle")
    /\ loads > 0
    /\ phase' = "recap" /\ step' = 1
    /\ UNCHANGED <<managerVars, host, module, loads, up, hooks, inner, built, pCvar, capped, crash>>

\* The static destructors: ~CSourceHookImpl, which is not in src, is taken to remove
\* the hooks; then ~PatchManager deletes the patches.  The server unmaps no plugin that
\* is up: it calls Unload first.
HostUnmap ==
    /\ At("idle")
    /\ ~up
    /\ Begin("unregisterAll")
    /\ phase' = "teardown"
    /\ hooks' = 0
    /\ UNCHANGED <<host, module, loads, up, inner, built, pCvar, capped, step, crash>>

-----------------------------------------------------------------------------
\* Load

\* Load returns false.
GiveUp == phase' = "idle"

\* Interface search and SH_ADD_HOOK.  engine may be NULL: nobody looks.
FindInterfaces ==
    /\ At("interfaces")
    /\ \/ /\ ~host.gamedll
          /\ GiveUp
          /\ UNCHANGED <<hooks, built>>
       \/ /\ host.gamedll
          /\ hooks' = hooks + 1
          /\ built' = 0
          /\ phase' = "boomer"
    /\ UNCHANGED <<managerVars, host, module, loads, up, inner, pCvar, capped, step, crash>>

\* One turn of InitializeBinPatches' loop: any mov with a known operand will do.
BuildBoomerRead ==
    /\ At("boomer")
    /\ Len(inner) < Len(BoomerReads)
    /\ LET s == BoomerReads[Len(inner) + 1] IN
          /\ code[s] \in MovSource
          /\ Construct(ObjectFor(s), [t \in {s} |-> Fake(module)])
          /\ inner' = Append(inner, ObjectFor(s))
    /\ UNCHANGED <<loopVars, host, phase, module, loads, up, hooks, built, pCvar, capped, step, crash>>

\* An exception that leaves the patches built before it to ~BoomerVomitFrameTimePatch,
\* which does not run for an object whose constructor has thrown.
BoomerThrowsLeaks ==
    /\ At("boomer")
    /\ Len(inner) < Len(BoomerReads)
    /\ \/ inner = <<>>
       \/ code[BoomerReads[Len(inner) + 1]] \notin MovSource
    /\ inner' = <<>>
    /\ GiveUp
    /\ UNCHANGED <<managerVars, host, module, loads, up, hooks, built, pCvar, capped, step, crash>>

\* CVomit::UpdateAbility is not found (a library that cannot be opened is enough)
\* or an offset does not point at a mov: the exception leaves the constructor, and the
\* destructor of its member m_patches deletes what was built.
BoomerThrows ==
    /\ At("boomer")
    /\ Len(inner) < Len(BoomerReads)
    /\ \/ inner = <<>>
       \/ code[BoomerReads[Len(inner) + 1]] \notin MovSource
    /\ life' = [p \in Patches |-> IF p \in Range(inner) THEN "deleted" ELSE life[p]]
    /\ inner' = <<>>
    /\ GiveUp
    /\ UNCHANGED <<memory, replacement, original, firstTime, patched, loopVars,
                   host, module, loads, up, hooks, built, pCvar, capped, step, crash>>

RegisterBoomer ==
    /\ At("boomer")
    /\ Len(inner) = Len(BoomerReads)
    /\ patchList' = patchList \o inner
    /\ inner' = <<>>
    /\ phase' = "rates"
    /\ UNCHANGED <<binVars, op, cursor, host, module, loads, up, hooks, built, pCvar, capped,
                   step, crash>>

\* Rate patches without the check byte, and without the test for NULL.
BuildRateUnchecked ==
    /\ At("rates")
    /\ built < Len(RateSites)
    /\ host.engine
    /\ LET s == RateSites[built + 1] IN
          /\ Construct(ObjectFor(s), [t \in {s} |-> Rewritten])
          /\ patchList' = Append(patchList, ObjectFor(s))
    /\ built' = built + 1
    /\ UNCHANGED <<op, cursor, host, phase, module, loads, up, hooks, inner, pCvar, capped,
                   step, crash>>

BuildRateAnywhere ==
    /\ At("rates")
    /\ built < Len(RateSites)
    /\ LET s == RateSites[built + 1] IN
          /\ code[s] = Expected
          /\ Construct(ObjectFor(s), [t \in {s} |-> Rewritten])
          /\ patchList' = Append(patchList, ObjectFor(s))
    /\ built' = built + 1
    /\ UNCHANGED <<op, cursor, host, phase, module, loads, up, hooks, inner, pCvar, capped,
                   step, crash>>

\* A rate patch: its GeneratePatch looks at the check byte.
BuildRate ==
    /\ At("rates")
    /\ built < Len(RateSites)
    /\ host.engine
    /\ LET s == RateSites[built + 1] IN
          /\ code[s] = Expected
          /\ Construct(ObjectFor(s), [t \in {s} |-> Rewritten])
          /\ patchList' = Append(patchList, ObjectFor(s))
    /\ built' = built + 1
    /\ UNCHANGED <<op, cursor, host, phase, module, loads, up, hooks, inner, pCvar, capped,
                   step, crash>>

\* A handler that applies the patches it has got instead of bailing out.
RateThrowsButPatches ==
    /\ At("rates")
    /\ built < Len(RateSites)
    /\ Begin("patchAll")
    /\ phase' = "patching"
    /\ UNCHANGED <<host, module, loads, up, hooks, inner, built, pCvar, capped, step, crash>>

\* A failing Load that takes the hook back, and with it that of a Load before it.
RateThrowsUnhooks ==
    /\ At("rates")
    /\ built < Len(RateSites)
    /\ GiveUp
    /\ hooks' = 0
    /\ UNCHANGED <<managerVars, host, module, loads, up, inner, built, pCvar, capped, step, crash>>

\* The function is not found, as when engine is NULL, or its check byte differs:
\* what was registered before stays registered.
RateThrows ==
    /\ At("rates")
    /\ built < Len(RateSites)
    /\ GiveUp
    /\ UNCHANGED <<managerVars, host, module, loads, up, hooks, inner, built, pCvar, capped,
                   step, crash>>

CallPatchAll ==
    /\ At("rates")
    /\ built = Len(RateSites)
    /\ Begin("patchAll")
    /\ phase' = "patching"
    /\ UNCHANGED <<host, module, loads, up, hooks, inner, built, pCvar, capped, step, crash>>

\* The manager's loops, one element at a time.
RunLoop ==
    /\ Alive
    /\ PatchEach \/ UnpatchEach \/ DeleteEach
    /\ UNCHANGED pluginVars

PatchAllReturns ==
    /\ At("patching")
    /\ Finish("patchAll")
    /\ phase' = "cvar"
    /\ UNCHANGED <<host, module, loads, up, hooks, inner, built, pCvar, capped, step, crash>>

FindCvarInterface ==
    /\ At("cvar")
    /\ pCvar' = host.icvar
    /\ IF host.icvar THEN phase' = "uncap" /\ step' = 1
                     ELSE GiveUp /\ step' = step
    /\ UNCHANGED <<managerVars, host, module, loads, up, hooks, inner, built, capped, crash>>

\* SetMax(false, 0.0) on one cvar; FindVar may return NULL.
Uncap ==
    /\ At("uncap")
    /\ step <= Len(Cvars)
    /\ IF Cvars[step] \in host.missing
         THEN crash' = "load" /\ UNCHANGED <<capped, step>>
         ELSE capped' = capped \ {Cvars[step]} /\ step' = step + 1 /\ crash' = crash
    /\ UNCHANGED <<managerVars, host, phase, module, loads, up, hooks, inner, built, pCvar>>

\* A Load that leaves the last cvar alone.
LoadReturnsEarly ==
    /\ At("uncap")
    /\ step >= Len(Cvars)
    /\ phase' = "idle"
    /\ up' = TRUE
    /\ UNCHANGED <<managerVars, host, module, loads, hooks, inner, built, pCvar, capped, step, crash>>

LoadReturnsTrue ==
    /\ At("uncap")
    /\ step > Len(Cvars)
    /\ phase' = "idle"
    /\ up' = TRUE
    /\ UNCHANGED <<managerVars, host, module, loads, hooks, inner, built, pCvar, capped, step, crash>>

-----------------------------------------------------------------------------
\* Unload

\* An Unload that forgets the cvars.
RecapNothing ==
    /\ At("recap")
    /\ step <= Len(Cvars)
    /\ step' = Len(Cvars) + 1
    /\ UNCHANGED <<managerVars, host, phase, module, loads, up, hooks, inner, built, pCvar, capped,
                   crash>>

\* SetMax(true, 30000.0) on one cvar, through g_pCvar as the last Load left it.
Recap ==
    /\ At("recap")
    /\ step <= Len(Cvars)
    /\ IF ~pCvar \/ Cvars[step] \in host.missing
         THEN crash' = "unload" /\ UNCHANGED <<capped, step>>
         ELSE capped' = capped \cup {Cvars[step]} /\ step' = step + 1 /\ crash' = crash
    /\ UNCHANGED <<managerVars, host, phase, module, loads, up, hooks, inner, built, pCvar>>

\* An Unload that deletes the patches without undoing them.
CallUnregisterAll ==
    /\ At("recap")
    /\ step > Len(Cvars)
    /\ Begin("unregisterAll")
    /\ phase' = "unregistering"
    /\ UNCHANGED <<host, module, loads, up, hooks, inner, built, pCvar, capped, step, crash>>

CallUnpatchAll ==
    /\ At("recap")
    /\ step > Len(Cvars)
    /\ Begin("unpatchAll")
    /\ phase' = "unpatching"
    /\ UNCHANGED <<host, module, loads, up, hooks, inner, built, pCvar, capped, step, crash>>

\* An Unload without UnregisterAll.
UnloadKeepsList ==
    /\ At("unpatching")
    /\ Finish("unpatchAll")
    /\ hooks' = 0
    /\ phase' = "idle"
    /\ up' = FALSE
    /\ UNCHANGED <<host, module, loads, inner, built, pCvar, capped, step, crash>>

UnpatchAllReturns ==
    /\ At("unpatching")
    /\ AtEnd("unpatchAll")
    /\ op' = "unregisterAll" /\ cursor' = 1
    /\ phase' = "unregistering"
    /\ UNCHANGED <<binVars, patchList, host, module, loads, up, hooks, inner, built, pCvar,
                   capped, step, crash>>

\* One hook removed for every Unload, or none.
UnloadRemovesOne ==
    /\ At("unregistering")
    /\ Clear
    /\ hooks' = hooks - 1
    /\ phase' = "idle"
    /\ up' = FALSE
    /\ UNCHANGED <<host, module, loads, inner, built, pCvar, capped, step, crash>>

UnloadLeavesHook ==
    /\ At("unregistering")
    /\ Clear
    /\ phase' = "idle"
    /\ up' = FALSE
    /\ UNCHANGED <<host, module, loads, hooks, inner, built, pCvar, capped, step, crash>>

\* UnregisterAll returns, SH_REMOVE_HOOK removes every hook, Unload returns.
UnloadReturns ==
    /\ At("unregistering")
    /\ Clear
    /\ hooks' = 0
    /\ phase' = "idle"
    /\ up' = FALSE
    /\ UNCHANGED <<host, module, loads, inner, built, pCvar, capped, step, crash>>

TeardownEnds ==
    /\ At("teardown")
    /\ Clear
    /\ phase' = "unmapped"
    /\ UNCHANGED <<host, module, loads, up, hooks, inner, built, pCvar, capped, step, crash>>

-----------------------------------------------------------------------------
HostStep == HostMap \/ HostLoad \/ HostUnload \/ HostUnmap
LoadStep == \/ FindInterfaces \/ BuildBoomerRead \/ BoomerThrows \/ RegisterBoomer
            \/ BuildRate \/ RateThrows \/ CallPatchAll \/ PatchAllReturns
            \/ FindCvarInterface \/ Uncap \/ LoadReturnsTrue
UnloadStep == Recap \/ CallUnpatchAll \/ UnpatchAllReturns \/ UnloadReturns
PluginStep == RunLoop \/ LoadStep \/ UnloadStep \/ TeardownEnds
Next == HostStep \/ PluginStep

Spec == Init /\ [][Next]_vars

-----------------------------------------------------------------------------
TypeOK ==
    /\ ManagerTypeOK
    /\ host \in [gamedll : BOOLEAN, engine : BOOLEAN, icvar : BOOLEAN,
                 missing : SUBSET Range(Cvars)]
    /\ phase \in {"unmapped", "idle", "interfaces", "boomer", "rates", "patching", "cvar",
                  "uncap", "recap", "unpatching", "unregistering", "teardown"}
    /\ module \in 0..MaxModules /\ loads \in 0..MaxLoads
    /\ up \in BOOLEAN /\ pCvar \in BOOLEAN
    /\ hooks \in 0..MaxLoads
    /\ inner \in Seq(Patches) /\ Len(inner) <= Len(BoomerReads)
    /\ built \in 0..Len(RateSites)
    /\ capped \subseteq Range(Cvars)
    /\ step \in 1..Len(Cvars) + 1
    /\ crash \in {"none", "load", "unload"}

\* The code this mapping of the plugin means to put at a site.
Wanted(s) == IF s \in BoomerSite THEN Fake(module) ELSE Rewritten
AllPatched == \A s \in Site : code[s] = Wanted(s)
BetweenCalls == phase \in {"idle", "unmapped"} /\ Alive

\* Every patch that is in force can be undone: what it saved is what the library
\* came with.  Load may be retried on code an earlier Load has already patched,
\* and then Boomer objects save patched code: the check bytes of the rate patches
\* must stop that Load before PatchAll puts such an object in force.
AppliedAreSound == \A p \in Patches : life[p] = "live" => SoundSnapshot(p)

\* Every object that lives has one owner: the manager's list, or the list of the Boomer
\* patch under construction, whose destructor never runs when its constructor throws
\* (boomervomitpatch.cpp:93).  An object nobody holds is lost, and what it had applied
\* could not be undone; one that is held twice is deleted twice.
LiveAreOwned ==
    /\ \A p \in Patches : life[p] = "live" => p \in Listed \cup Range(inner)
    /\ IsInjective(patchList \o inner)

\* Between the server's calls the game is either untouched or patched at every
\* site; if the server has ICvar it is patched exactly while the plugin is up.
AllOrNothing ==
    BetweenCalls => /\ code = pristine \/ \A s \in Site : code[s] # pristine[s]
                    /\ host.icvar => IF up THEN AllPatched ELSE code = pristine

\* No clamp is left in the code while a cvar has no maximum: Load lifts the caps
\* after the last patch and Unload puts them back before the first restore.
UncappedOnlyIfPatched == capped # Range(Cvars) => AllPatched

\* Boomer code reads a variable of the module.  Unless the server has no ICvar,
\* it never outlives that module.
NoDanglingRead ==
    host.icvar => \A s \in BoomerSite : \A m \in 1..MaxModules :
                     code[s] = Fake(m) => m = module /\ phase # "unmapped"

\* The missing NULL check of engine is made up for by the rate patches: without
\* VEngineServer Load fails and has written no code.  That a search for a function on
\* NULL finds none (dladdr fails, GetLibraryInfo tests for it) is the guard of BuildRate.
NoEngineNoPatch == ~host.engine => code = pristine /\ ~up

\* A plugin that is up has everything in place, whichever calls of Load have failed
\* since, and its Unload cannot go through a NULL pointer (Unload does not check
\* g_pCvar; after a Load that failed before ICvar it does go through one).
UpIsComplete ==
    /\ up => hooks > 0 /\ pCvar /\ host.missing = {} /\ crash # "unload"
    /\ BetweenCalls /\ up => capped = {}

\* Unload undoes whatever any number of Loads before it have done.
UnloadUndoesAll ==
    [][UnloadReturns => hooks' = 0 /\ capped' = Range(Cvars) /\ code' = pristine
                        /\ patchList' = <<>>]_vars

\* What the server sees of the plugin: see PluginContract.
CallNow ==
    IF ~Alive THEN "dead"
    ELSE IF phase \in {"recap", "unpatching", "unregistering"} THEN "unload"
    ELSE IF phase \in {"unmapped", "idle", "teardown"} THEN "none" ELSE "load"

MappedNow == phase \notin {"unmapped", "teardown"}
ChangedNow == {s \in Site : code[s] # pristine[s]}
UncappedNow == Range(Cvars) \ capped
HookedNow == hooks > 0

Contract == INSTANCE PluginContract WITH
    Cvar <- Range(Cvars), icvar <- host.icvar, mapped <- MappedNow, call <- CallNow,
    changed <- ChangedNow, uncapped <- UncappedNow, hooked <- HookedNow

\* Whatever the history of maps, Loads that succeed, fail or are repeated, Unloads
\* and unmaps, each step of the plugin is one the contract allows: in which order
\* caps, code and hook change, what each call leaves behind, and that a plugin that
\* is up takes the server down with none of its calls.
KeepsContract == Contract!ContractSpec

\* Every call of the server comes back, or the process is gone.
CallsReturn == phase \notin {"idle", "unmapped"} ~> BetweenCalls \/ ~Alive

-----------------------------------------------------------------------------
\* README.MD:9, "Patches Boomer Vomit behavior to fix an issue where vomit range
\* scaled inversely with tickrate": a tick rate of the plugin's comes with the
\* vomit patch.
TickRateComesWithVomitPatch ==
    phase = "idle" /\ hooks > 0 => \A s \in BoomerSite : code[s] = Fake(module)

\* patchmanager.h:40, "automatically clean up the patches when the extension is
\* unloaded": once the module is gone the code is what the library came with.
CleanAfterUnmap == phase = "unmapped" => code = pristine
=============================================================================
