# Tickrate-Enabler in TLA+

Tickrate-Enabler is a Valve server plugin for Left 4 Dead 1 and 2. It replaces
the server's tick interval, and because the game was never meant to run at another
one, it rewrites a few instructions of the game's own libraries in memory: the
frametime reads of `CVomit::UpdateAbility()` and the rate clamps of the engine.
What can go wrong is therefore about state that outlives a call: code bytes, page
permissions, hooks, cvar limits and cached symbol tables, left behind by a `Load`
that failed half way, a second `Load`, an `Unload`, or the unmapping of the module.

The project holds eleven modules that model the code, modules `MC...` with `.cfg`
files that give TLC an instance, and eight modules `...Proofs` that TLAPS checks.
Run `tlc -config X.cfg M` on a run of the table below and
`tlapm MProofs.tla` on a proof module. `PROJECT.json` lists components, runs,
mutants, theorems, hazards, and the source lines behind each definition.

## The system

| component | source | state | operations | interacts with |
|---|---|---|---|---|
| Patch objects | `basicbinpatch.h` | target, saved bytes, replacement, `m_bPatched`, `m_bFirstTime`; the code itself | constructor, `Patch`, `Unpatch`, destructor | page protection; owned by a manager |
| Patch interface | `codepatch/icodepatch.h` | none | `Patch`, `Unpatch` | implemented by the patch objects, the Boomer and the rate patches |
| Patch manager | `codepatch/patchmanager.*` | list of pointers | `Register`, `PatchAll`, `UnpatchAll`, `UnregisterAll`, destructor | calls the patches, deletes them |
| Boomer vomit patch | `boomervomitpatch.*` | a manager of its own, `g_FakeGlobals` | constructor (may throw), `Patch`, `Unpatch` | resolver or pattern search, instruction rewriting |
| Rate patches | `maxrate_patches.*` | one patch object each | constructor (may throw on the check byte), `Patch`, `Unpatch` | resolver or pattern search |
| Plugin | `tickrate_enabler.*` | interfaces, `g_pCvar`, the manager, the hook | `Load`, `Unload`, `GetTickInterval` | everything above; called by the server |
| Interface search | `tickrate_enabler.cpp` | digits of a name | `SearchForInterfaceName` | factories of the server |
| Symbol resolver | `memutils.*` | cached tables, `last_pos` | `SimpleResolve`, `ResolveSymbol` | library files, the loader |
| Pattern search | `memutils.*` | none | `FindLibPattern`, `FindPattern`, `GetLibraryInfo` | mapped libraries |
| Instruction rewriting | `misc_asm.h`, `boomervomitpatch.cpp` | a six-byte buffer | `mov_src_operand_offset`, `mov_to_disp32`, the loop body | the patch objects |
| Console variables | `convar_sm_l4d.h` | limits and values of the rate cvars | `SetMax`, `SetValue` (engine) | the plugin, the server |

There are no threads: the server calls the plugin on its main thread, one call at
a time. What makes the code hard is failure and repetition. `Load` can fail at the
game's interface, in each patch's constructor and at `ICvar`, with a different part
of its work done and not undone; the server may call `Load` again, or `Unload`, or
unmap the module, which runs the static destructors. A second `Load` looks at code the
first has patched. Between the calls the server sets cvars and reads its tick rate.
System calls of the resolver fail, the file it reads may not be the one that is
mapped, and its cache lives on. A write to a page that could not be made writable
kills the process between two patches.

What makes each component correct:

* a patch object puts back the bytes the library came with, never bytes nobody
  initialised, and writes only to pages that were made writable;
* the manager calls and deletes each live object once, and undoing in the order of
  application is enough;
* between the server's calls the game is patched everywhere or nowhere, `Unload`
  undoes what any number of `Load`s did, no clamp meets an uncapped cvar, and code
  does not read a module that is gone;
* every patch object has one owner, whichever constructor throws; a server that reads its
  own tick rate has nothing of the plugin in it, and a rate that was raised while the
  plugin was up meets the game's own clamps once it is down;
* a rate patch takes the game where a rate within the bound goes, with the rate still
  in its register, and never into the middle of an instruction;
* the searches return the first match there is and come to an end, the resolver's
  cache hides no symbol, and no path leaks a handle;
* a rewritten instruction loads the register the game goes on to use from the
  plugin's variable, and leaves what follows it alone.

## The modules

    CodePatch                                        PluginContract
        ^ implements                                       ^ implements
    BinPatch <------------- PatchManager <---------- TickrateEnabler <---- ServerRates
    InterfaceSearch    SymbolResolver    PatternScan    MovRewrite    RateRewrite

`TickrateEnabler` extends `PatchManager`, which extends `BinPatch`: the composition
has the real objects and the real list inside, not a summary of them. `ServerRates`
extends it in turn with the server around the plugin. The five modules below take
over what `Load` treats as one step (a found or missing interface or function, a
rewritten instruction or comparison) and look inside that step.

**CodePatch** is the abstract specification of `ICodePatch`: a patch is untouched,
then patched, then restored, and never patched again. The interface's comments do not
say that a patch works once only; it is what the implementation keeps (see `patch_cycle`).

**BinPatch** models `BasicStaticBinPatch`. A *site* is a stretch of code no two
patches split differently, *Byte* is what it can hold. `Construct` takes the snapshot
unless `patchTimeCopy` puts it off to `Patch`, and then leaves `Junk` in
`m_original`. (No caller in the repository asks for `patchTimeCopy`; what is said of it
is said of the class.) `Patch` calls `SetMemPatchable`, whose result the code ignores: the
page becomes writable or does not, and writing then faults. `Unpatch` writes without
asking and does not reset `m_bPatched`; both are in the model as they are in the
code. `BasicBinPatch`, the heap-allocated variant, has the same two functions.

**PatchManager** adds the list. Each loop (`PatchAll`, `UnpatchAll`,
`UnregisterAll`, the destructor's) is a cursor over it, one element a step, so that a
fault stops it half way. `Register` itself has no test; that an object is registered once
is what each of its callers does, with a `new` in the argument.

**PluginContract** is the abstract specification of the plugin, as the server meets it
through `IServerPluginCallbacks`: which sites are changed, which cvars have no maximum,
whether the tick rate is hooked, and which call is running. It has no objects, lists or
snapshots. It says in which order a call may touch these things (the code before the
caps in `Load`, the caps before the code in `Unload`), what a call may leave behind when
it returns, and that the process can only die while the plugin is not up.

**TickrateEnabler** is the plugin. `Init` picks a server: which interfaces it has,
which cvar is missing, and what each site holds before the plugin comes. `HostMap`,
`HostLoad`, `HostUnload` and `HostUnmap` are the server's calls; the rest are the
statements of `Load` and `Unload` in their order, with `phase` as program counter.
What a site holds is told apart as far as the code looks: the expected instruction,
another one, the rewritten rate check, and a read of the `g_FakeGlobals` of the m-th
mapping of the module. The Boomer patch's manager inside the plugin's manager is
flattened: `inner` is its list while it is constructed, and is appended to
`patchList` when it is registered. In the real program `PatchAll` visits the same
objects in the same order. `SetMax` is the flag `capped`. `Contract` at its end is
the refinement mapping: a site counts as changed when its code is not the library's, a
call runs while `phase` is inside it, and a fault or a NULL pointer is death.

Choices about code outside `src/`: `Error()` is modelled as returning, as the
`return false` after it assumes (if it ends the process, the behaviours are prefixes
of the modelled ones and every safety property still holds; the findings of the
`hook_left` and `cleanup` runs, which need Loads that fail at lines 178 and 186 and come
back, then do not arise); `SH_REMOVE_HOOK` removes every hook with that
handler; the static destructors run in reverse order, SourceHook's object, which removes
the hooks, before the manager's; the server unmaps no plugin that is up; the searches for
functions find none on a NULL pointer (`dladdr` fails, `GetLibraryInfo` tests for it).

**ServerRates** has what the server does between its calls of the plugin. It reads
`GetTickInterval`, which is the plugin's while the hook is there and otherwise the
game's own; `asked` is what the command line says, `tick` the ticks per second the
server runs at until it reads again. It sets the rate cvars: a value above 30000 is
clamped if the cvar has a maximum at that moment, and `raised` are those above. Neither
`Load` nor `Unload` touches `tick` or `raised`, since `SetMax` changes a limit and no
value. How a `ConVar` clamps is the engine's code, modelled from its declarations.

**InterfaceSearch** counts `000`, `001`, ... digit by digit as the code does.

**SymbolResolver** has both branches of `ResolveSymbol`. On Linux `SimpleResolve`
opens the library, maps its file and walks the section headers; on Apple the process's
images are opened and closed in turn until one is the wanted one, and the load commands
of the mapped library are walked until both are seen. The scan of the symbol table
behind it is the same, and so are the cache and `last_pos`, which persist. An address is
the position of an entry, `held` counts what the current call has open, and every
system call may fail at any call. `ReplaceFile` puts another file in the place of the
library's, as an update of the game does, at any moment but while the old one is open;
`Remap` is `~MemoryUtils`, after which nothing is cached. No code calls the Apple
branch (`SimpleResolve` is empty there), so its caller is modelled as passing a
handle of one of the libraries. `InternSymbol`, which is not in `src/`, keeps the
address of a name that it has.

**PatternScan** is the way functions are found on Windows: the headers give a
window that starts at the base (the image of a PE file, the first executable segment
of an ELF file, all segments of a Mach-O file together), `Scan` and `Compare` are the two loops of
`FindPattern`. The plugin only takes this way in its Windows builds; the ELF and Mach-O
branches are modelled because the code has them. `FindsFirst` is about the window as the
headers give it, not about where the code lies. A pattern byte `0x2A` is not even compared, so a read behind the
mapped memory happens only for the other bytes. All single sanity checks of the
headers are one flag.

**MovRewrite** follows one frametime read through the body of
`InitializeBinPatches`' loop on eight concrete bytes. The operators at its end are
the processor's view: how long a mov is, which register it loads, where its address
is. Together with `TickrateEnabler` it explains why a second `Load` accepts code the
first one rewrote: the rewritten bytes are again a mov the helpers know, which is why
`MovSource` there holds `Fake(m)`.

**RateRewrite** does the same for the rate patches. A *site* is a function as
`sigs.h` describes it: the bytes around the patch, the checked byte, the replacement
and the place where a rate within the bound goes on. `GeneratePatch`, `PatchCode` and
`UnpatchCode` work on these bytes while the game calls the function and `Execute`
decodes them one instruction at a time. Sites are `CNetChan::SetDataRate` and
`CGameClient::SetRate` of L4D on Windows, both `SetDataRate`s on Linux, and the three
moves of `SetRate` and `ClampClientRate` there. Where `sigs.h` does not tell the
distance of the jump that a patch removes, it is any; where it starts behind the
comparison, so does the model. The signature of the Windows `SetDataRate` covers
the bytes that are patched, so a second `Load` does not even find it (`Findable`). The
offset of `SetRate` on Linux is the defined `0x4D`; the comment above it says `+0x4E`,
and without the binary nobody can tell which is meant. The Windows L4D2 sites
are left out: neither the code from patch to target nor the target is written down.

## What is model-checked

| run | instance | distinct states | expected | what it shows |
|---|---|---|---|---|
| `binpatch` | 4 objects, 2 sharing a site, both snapshot modes, 2 contents | 231 880 | holds | saved bytes and write permission are right in any order of calls; objects with their own code are one-shot patches |
| `patchmanager` | 3 objects with overlapping targets on 2 sites | 299 460 | holds | no dangling pointer; undoing in order of application restores |
| `patch_cycle` | one object | 133 | violated | a second `PatchAll` applies nothing |
| `plugin` | L4D2 Linux build: 2 reads, 2 rate sites, 2 cvars, 4 command lines; 3 Loads, 2 mappings | 505 571 | holds | retries are safe, no object is lost, all or nothing, `Unload` undoes it all, `PluginContract` is implemented, the tick rate tells whether the plugin is there, rates stay clamped, every call returns |
| `hook_left` | the plugin alone, 3 cvars | | violated | a failed `Load` leaves the tick rate without the vomit patch |
| `cleanup` | as `hook_left` | | violated | patched code outlives the module if `ICvar` is missing |
| `interface_search` | 100 tries, sets of versions around the carries | 6 620 | holds | finds the oldest, ends |
| `symbols` | Linux and Apple, tables of up to 3 entries, 2 names, 2 libraries, 2 newer files, 3 image lists | 682 089 | holds | cache and resume position hide nothing, answers stay, nothing leaks |
| `pattern_scan` | patterns of 1-3 bytes, memories of 4-5, PE, ELF and Mach-O headers | 94 882 | holds | first match, controlled over-reads, ends |
| `mov_rewrite` | all 256 modrm bytes, 2 SIB bytes, 4 opcodes | 8 192 | holds | same register, plugin's pointer, rest kept |
| `rate_rewrite` | all sites, jump distances 1 to 127, 5 other checked bytes | 28 163 | holds | the bound is lifted, saved code is the game's |
| `mov_offset` | as `mov_rewrite` | | violated | the offset is taken for a disp32's where there is none |

Why these bounds are enough. Two sharing objects are needed for a snapshot of
another's bytes, and a third for the order of undoing to matter. Three `Load`s give
a failed one, a retry on top of what it left and one after that; two mappings give
code that reads the variable of a module which is gone while a new one is mapped. Two
reads and two rate sites are what the L4D2 Linux build has, and let a
constructor throw with something registered before it. The two cvars of `plugin` are
enough for a `SetMax` that has been done and one that has not (the code takes three,
alike); the command lines are none, no number (0), the bound 10 and one above it.
`rate_rewrite` has the whole range of a short forward jump, and its other bytes include
each replacement's own first one. Three entries of two names
give a duplicate, a skipped and a later entry, and a newer file has its entries fewer
or in another order. A memory one byte longer than the
window, and one of the window's size, separate an over-read from a fault. The interface
search runs with the code's own bound of 100.

Every property has a mutant: a definition changed as a plausible bug would change it,
kept beside the original (`ConstructForgetsCopy`, `UnpatchUnguarded`,
`RateThrowsUnhooks`, `LoopOnceMore`, `ScanKeepsIndex`, ...). None of the mutants is part of a `Next`.

The runs switch deadlock checking off because the modelled programs stop: the server
may be done with its `Load`s, a search returns, a fault ends the process.
`symbols` never stops and keeps the check.

### Fairness

`CallsReturn` (plugin and resolver) and `Terminates` (the two searches) assume weak
fairness of the steps of the call in progress. The code is sequential and runs on the
server's main thread; inside a call nothing waits for anyone, and a thread
that has been scheduled goes on. No fairness is assumed of the server: it need never
call again, read its tick rate or set a cvar.

## Findings

* `patch_cycle` (code bug): `Unpatch` leaves `m_bPatched` set, so an object can be
  applied once only, against the "infinite patch/unpatch cycles" of
  `basicbinpatch.h:101`. The plugin deletes its objects after `UnpatchAll` and is not
  affected.
* `hook_left`: `Load` adds the hook before it builds patches and no failing path
  removes it.
* `cleanup`: the manager's destructor deletes the patches without undoing them.
* `mov_offset`: every `0x8B` is taken for a mov with a disp32 behind its modrm byte.
  In the builds that `sigs.h` describes it is one; on another build
  the exception announced for unexpected instructions is not thrown.

## What is proved

The theorems hold for any sites, objects, files, patterns and bounds that satisfy
the named assumptions of the modules (an object covers known sites, the plugin's
sites are the disjoint ranges of two injective sequences, `Junk` is no byte,
`Tries` is at most 999, and so on). TLC checks each assumption on its instance.

* `BinPatchProofs`: type correctness, `UnpatchNeverFaults`, `NoUninitialisedCode`
  and that objects with their own code implement `CodePatch`. The invariant says
  that a patched object's pages are writable and its saved bytes initialised. For the
  refinement it also ties the code of a private object to its snapshot.
* `PatchManagerProofs`: type correctness, `ListedAlive`, `UnpatchAllRestores`. The
  invariant relates the list, the cursor and the life of what is listed: what
  `UnregisterAll` has passed is deleted, the rest lives, and nothing is there twice.
  In `UnpatchAll` what the cursor has passed is restored; a later object cannot spoil
  it because it restores the same pristine bytes. `ManagerUsesObjects`: every step of the
  manager is a call of one object or none, so `ManagerSpec` implies `BinSpec` and all that
  was proved of the objects, one-shot patching included. `PatchAllOnceOnly` is what is true
  of the claim that `patch_cycle` refutes.
* `TickrateEnablerProofs`: all safety properties of the `plugin` run, from one
  invariant `IInv`. None of the properties is inductive alone. That an applied object
  can be undone (`AppliedAreSound`) needs to know that snapshots taken on patched code
  are never applied, and that is because a rate patch is built only on a site that
  still has its pristine check byte (`SnapshotInv`), so a `Load` on patched code
  throws before `PatchAll`. That in turn needs code to be all clean or all patched
  whenever no loop runs (`RestInv`), which needs every dirty site to be covered by a
  live applied object (`ForceInv`), and the invariants of the phases and of the
  cvars. The proof has one lemma for each action.
  `ServerRunsPlugin` shows that the plugin with the server around it is still the plugin,
  so all of this holds in `ServerRates`. There `RatesInvariant` adds two things: a cvar can
  only have been raised on a server that has `ICvar`, where a plugin that is not up has
  clean code (`ExcessAlwaysClamped`), and the list is empty whenever the hook is gone,
  except inside the destructors (`HookInv`, for `OwnRateMeansOwnGame`).
  `NothingLost`: the list and the list under construction hold each live object, once.
  `PluginKeepsContract` is the refinement of `PluginContract`: one lemma for each kind of
  step shows that, given `IInv`, it is a step of the contract or a stutter. The hard steps are the
  turns of `PatchAll` (a site that is still clean proves that no cap has been lifted)
  and the failing ends of `Load` (all or nothing, and nothing where something is in place).
  `PluginSettles` draws the consequences from the contract alone.
  `UnmapCleansWithCvar` and `UpHasVomitPatch` say exactly where the claims refuted by
  `cleanup` and `hook_left` do hold, and `PluginKeepsManager` that the manager's and the
  objects' properties survive the use the plugin makes of them.
* `InterfaceSearchProofs`: type correctness, `AsksInTurn` and `FindsOldest`, from the weight of the
  digits while a carry is under way.
* `SymbolResolverProofs`: type correctness, `AnswersFirst`, `CacheCoversSkipped`,
  `AnswersAreStable`, `NoLeak`, for any files, images and updates, from an invariant
  that says which resources are open at each point, that the scan starts behind what the
  cache covers, and that a cached address is an eligible entry's as long as the
  file is the one that was loaded.
* `PatternScanProofs`: type correctness, `FindsFirst`, `ReadsInsideIfPresent`,
  `FaultsOnlyOnPartialMatch`. No place before `ptr` matches, and at `ptr` all bytes
  before `i` agree.
* `MovRewriteProofs`: type correctness, `ReadsPointer`, `KeepsTheRest`, from what each
  step has done to the buffer and the arithmetic of a modrm byte. `OffsetIsRightExactly`
  names the movs for which the claim refuted by `mov_offset` holds.
* `RateRewriteProofs`: type correctness, `LiftsTheBound` and `SavesGameCode`, for any
  distances and any other games. `FlowInv` says, site by site and for patched and
  unpatched code, at which bytes an instruction can begin, whether the register holds the
  rate there and what the comparison has said of it; with it `LiftsTheBound` is a
  look at the last instruction. For `SavesGameCode` the code is the game's or, while a patch is applied, the game's with
  the replacement over it; since no replacement begins with the byte that
  `GeneratePatch` looks for, it throws on patched code and so saves the game's.

That the calls come to an end is proved as far as the prover reaches. `SearchRunsOut`,
`ScanRunsOut`, `CallsRunOut` and `PluginCallsRunOut` give each loop and each call a measure
(natural numbers, or pairs of them in lexicographic order) and prove that every step of
the call lowers it, for any bounds: no list grows while a loop runs over it, the cursor
of a scan moves on after every comparison. What is
left to TLC is the step from there to `Terminates` and `CallsReturn`, namely that under
the fairness assumed a call that has not ended takes its next step (`ENABLED`).

Only model-checked, then: these four liveness properties, for the reason given, and,
since they are violations, the four findings (with the theorems above on where the
refuted claims do hold). No module uses a recursive operator.

## What is not modelled

* The rate sites of L4D2 on Windows and the signatures and offsets of
  `CVomit::UpdateAbility()`: facts about game binaries that are not here. How deep
  a pointer the game's code expects (`boomervomitpatch.cpp:102-110`) is one too.
* That `Patch` may die on a page that could not be made writable is in the model, and the
  properties hold on those behaviours; that it does not die is not a property of the code.
* Program headers or load commands with a segment away from the base: the model has
  the window where the code has it and does not claim that the code lies there. No
  build of the plugin searches an ELF or Mach-O library by pattern.
* A property of what `-tickrate` is read as: one comparison decides, in one step. What
  the server reads is related to the rest in `OwnRateOwnGame`.
* An address that is first looked up in a library file newer than the mapped library is
  wrong for it. The model has the replaced file; that the code notices is nowhere said
  and not the case, so `AnswersFirst` excludes such files and `AnswersAreStable` says
  what remains true.
* `autopatch.h`: nothing includes it, and `AutoPatch` cannot be instantiated with a patch
  of this repository, because its constructor default-constructs the patch and each
  of them needs arguments. `BasicBinPatch`, which nobody instantiates, keeps its bytes on
  the heap and has the same `Patch` and `Unpatch` as the modelled class.
* `patchexceptions.h`, a text; the empty handlers of the plugin interface; class layouts
  in `convar_sm_l4d.h`, of which the plugin calls `SetMax` alone; build scripts.

## Plan

Done, in the order of importance: patch objects, manager, plugin life cycle, interface
search, symbol resolver, pattern search, instruction rewriting; then the server around
the plugin, the resolver's Apple branch and replaced files, and the rate patches' bytes;
the safety theorems of each; the abstract contract of the plugin and its refinement; the
measures of every call; and the conditions under which the refuted claims hold. Left:

1. A refinement between `SymbolResolver` and a stateless lookup, with its proof.
2. A per-site composition of `MovRewrite` and `RateRewrite` into the plugin's sites.
