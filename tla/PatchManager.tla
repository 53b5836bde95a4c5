---------------------------- MODULE PatchManager ----------------------------
(* PatchManager of codepatch/patchmanager.cpp: a list of patches, and loops  *)
(* that call Patch, Unpatch or delete on each in the order of registration.  *)
(* A loop is taken one element at a time: a write to a page that could not   *)
(* be made writable kills the process half way through it.                   *)
EXTENDS BinPatch, Integers, Sequences

VARIABLES patchList,   \* patchList
          op,          \* the loop being run, "idle" between calls
          cursor       \* its iterator, an index of patchList

loopVars == <<patchList, op, cursor>>
managerVars == <<binVars, loopVars>>

Listed == {patchList[i] : i \in DOMAIN patchList}
Idle == op = "idle" /\ fault = "none"
AtElement(o) == op = o /\ fault = "none" /\ cursor <= Len(patchList)
AtEnd(o) == op = o /\ fault = "none" /\ cursor > Len(patchList)

ManagerInit ==
    /\ BinInit
    /\ patchList = <<>>
    /\ op = "idle"
    /\ cursor = 1

\* new BasicStaticBinPatch<...>(...) by the manager's user.
New(p, bytes) == Idle /\ Construct(p, bytes) /\ UNCHANGED loopVars

\* Register pushes whatever it is given.  Each of its callers registers an object it has
\* just made with new, so no pointer comes twice.
Register(p) ==
    /\ Idle
    /\ life[p] = "live" /\ p \notin Listed
    /\ patchList' = Append(patchList, p)
    /\ UNCHANGED <<binVars, op, cursor>>

\* A loop that starts before the list.
BeginAtZero(o) ==
    /\ Idle
    /\ op' = o
    /\ cursor' = 0
    /\ UNCHANGED <<binVars, patchList>>

Begin(o) ==
    /\ Idle
    /\ op' = o
    /\ cursor' = 1
    /\ UNCHANGED <<binVars, patchList>>

Finish(o) ==
    /\ AtEnd(o)
    /\ op' = "idle"
    /\ UNCHANGED <<binVars, patchList, cursor>>

\* A loop without the increment of its iterator.
PatchStays ==
    /\ AtElement("patchAll")
    /\ Patch(patchList[cursor])
    /\ UNCHANGED loopVars

\* PatchAll
PatchEach ==
    /\ AtElement("patchAll")
    /\ Patch(patchList[cursor])
    /\ cursor' = cursor + 1
    /\ UNCHANGED <<patchList, op>>

\* An UnpatchAll that passes over every other patch.
UnpatchEverySecond ==
    /\ AtElement("unpatchAll")
    /\ Unpatch(patchList[cursor])
    /\ cursor' = cursor + 2
    /\ UNCHANGED <<patchList, op>>

\* UnpatchAll: in the same order as PatchAll.
UnpatchEach ==
    /\ AtElement("unpatchAll")
    /\ Unpatch(patchList[cursor])
    /\ cursor' = cursor + 1
    /\ UNCHANGED <<patchList, op>>

\* UnregisterAll, which is also all that the destructor does.
DeleteEach ==
    /\ AtElement("unregisterAll")
    /\ Destroy(patchList[cursor])
    /\ cursor' = cursor + 1
    /\ UNCHANGED <<patchList, op>>

\* An UnregisterAll that leaves the deleted pointers in the list.
ClearForgotten ==
    /\ AtEnd("unregisterAll")
    /\ op' = "idle"
    /\ UNCHANGED <<binVars, patchList, cursor>>

Clear ==
    /\ AtEnd("unregisterAll")
    /\ patchList' = <<>>
    /\ op' = "idle"
    /\ UNCHANGED <<binVars, cursor>>

ManagerNext ==
    \/ \E p \in Patches : \E bytes \in Contents(p) : New(p, bytes)
    \/ \E p \in Patches : Register(p)
    \/ \E o \in {"patchAll", "unpatchAll", "unregisterAll"} : Begin(o)
    \/ PatchEach \/ Finish("patchAll")
    \/ UnpatchEach \/ Finish("unpatchAll")
    \/ DeleteEach \/ Clear

ManagerSpec == ManagerInit /\ [][ManagerNext]_managerVars

-----------------------------------------------------------------------------
ManagerTypeOK ==
    /\ BinTypeOK
    /\ patchList \in Seq(Patches)
    /\ op \in {"idle", "patchAll", "unpatchAll", "unregisterAll"}
    /\ cursor \in Nat \ {0}

\* No call through a dangling pointer: what the list holds is alive and held
\* once, except what UnregisterAll has already passed, which is gone from the
\* list before the next call of any kind.
ListedAlive ==
    /\ \A i, j \in DOMAIN patchList : patchList[i] = patchList[j] => i = j
    /\ \A i \in DOMAIN patchList :
          life[patchList[i]] =
             IF op = "unregisterAll" /\ i < cursor THEN "deleted" ELSE "live"

\* The saved bytes are those the library came with.
SoundSnapshot(p) == patched[p] => \A s \in Target[p] : original[p][s] = pristine[s]

\* UnpatchAll gives the library its code back although it undoes the patches in
\* the order they were made, and not in the reverse order: that is right even
\* for overlapping targets, as long as every snapshot was sound.  (That the plugin
\* only ever applies objects with sound snapshots is AppliedAreSound of TickrateEnabler.)
UnpatchAllRestores ==
    op = "unpatchAll" /\ (\A p \in Listed : SoundSnapshot(p)) =>
       \A i \in DOMAIN patchList :
          i < cursor /\ patched[patchList[i]] => HasContents(patchList[i], pristine)

\* "Only needing to store the restore and replacement bytes in order for infinite
\* patch/unpatch cycles" (basicbinpatch.h:101): when PatchAll returns, every
\* registered patch that shares no code with another is in place, also when it
\* has been unpatched before.
PatchAllApplies ==
    AtEnd("patchAll") =>
       \A p \in Listed \cap Private : HasContents(p, replacement[p])
=============================================================================
