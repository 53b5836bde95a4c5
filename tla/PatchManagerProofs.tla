------------------------- MODULE PatchManagerProofs -------------------------
(* Theorems about PatchManager, for any number of patches, overlapping or    *)
(* not, and any order of the calls its user makes.                           *)
EXTENDS PatchManager, BinPatchProofs

\* The inductive invariant: that of the objects, the list, and the loop.
ManagerInv ==
    /\ BinInv
    /\ ManagerTypeOK
    /\ ListedAlive
    /\ UnpatchAllRestores

\* The initial state satisfies the invariant.
LEMMA ManagerInitInv == ManagerInit => ManagerInv
BY BinInitInv DEF ManagerInit, ManagerInv, ManagerTypeOK, ListedAlive, UnpatchAllRestores, BinInv

\* A new object is not in the list, so building it changes nothing there.
LEMMA NewInv ==
    ASSUME ManagerInv, NEW p \in Patches, NEW bytes \in Contents(p), New(p, bytes)
    PROVE  ManagerInv'
<1>1. BinInv'
  BY ConstructInv DEF ManagerInv, New
<1>2. ListedAlive'
  BY DEF ManagerInv, ManagerTypeOK, BinTypeOK, ListedAlive, New, Idle, Construct, loopVars
<1>3. UnpatchAllRestores'
  BY DEF UnpatchAllRestores, New, Idle, loopVars
<1>4. QED
  BY <1>1, <1>2, <1>3 DEF ManagerInv, ManagerTypeOK, BinInv, New, loopVars

\* A registered pointer is alive and was not in the list before.
LEMMA RegisterInv ==
    ASSUME ManagerInv, NEW p \in Patches, Register(p)
    PROVE  ManagerInv'
<1>1. BinInv'
  BY BinStutterInv DEF ManagerInv, Register
<1>2. ListedAlive'
  BY DEF ManagerInv, ManagerTypeOK, ListedAlive, Register, Idle, Listed, binVars, objects
<1>3. UnpatchAllRestores'
  BY DEF UnpatchAllRestores, Register, Idle
<1>4. QED
  BY <1>1, <1>2, <1>3 DEF ManagerInv, ManagerTypeOK, BinInv, Register

\* A loop begins at the head of the list.
LEMMA BeginInv ==
    ASSUME ManagerInv, NEW o \in {"patchAll", "unpatchAll", "unregisterAll"}, Begin(o)
    PROVE  ManagerInv'
<1>1. BinInv'
  BY BinStutterInv DEF ManagerInv, Begin
<1>2. ListedAlive'
  BY DEF ManagerInv, ManagerTypeOK, ListedAlive, Begin, Idle, binVars, objects
<1>3. UnpatchAllRestores'
  BY DEF ManagerInv, ManagerTypeOK, UnpatchAllRestores, Begin
<1>4. QED
  BY <1>1, <1>2, <1>3 DEF ManagerInv, ManagerTypeOK, BinInv, Begin

\* PatchAll and UnpatchAll end with the list as it was.
LEMMA FinishInv ==
    ASSUME ManagerInv, NEW o \in {"patchAll", "unpatchAll"}, Finish(o)
    PROVE  ManagerInv'
<1>1. BinInv'
  BY BinStutterInv DEF ManagerInv, Finish
<1>2. ListedAlive'
  BY DEF ManagerInv, ManagerTypeOK, ListedAlive, Finish, AtEnd, binVars, objects
<1>3. UnpatchAllRestores'
  BY DEF UnpatchAllRestores, Finish
<1>4. QED
  BY <1>1, <1>2, <1>3 DEF ManagerInv, ManagerTypeOK, BinInv, Finish

\* One turn of PatchAll.
LEMMA PatchEachInv ==
    ASSUME ManagerInv, PatchEach
    PROVE  ManagerInv'
<1>1. patchList[cursor] \in Patches
  BY DEF ManagerInv, ManagerTypeOK, PatchEach, AtElement
<1>2. BinInv'
  BY <1>1, PatchInv DEF ManagerInv, PatchEach
<1>3. life' = life
  BY DEF PatchEach, Patch, binVars, objects
<1>4. ListedAlive'
  BY <1>3 DEF ManagerInv, ListedAlive, PatchEach, AtElement
<1>5. UnpatchAllRestores'
  BY DEF UnpatchAllRestores, PatchEach, AtElement
<1>6. QED
  BY <1>2, <1>4, <1>5 DEF ManagerInv, ManagerTypeOK, BinInv, PatchEach

\* One turn of UnpatchAll: if every snapshot is sound the bytes it writes are the
\* library's own, so it cannot undo what the earlier turns have restored.
LEMMA UnpatchEachInv ==
    ASSUME ManagerInv, UnpatchEach
    PROVE  ManagerInv'
<1> DEFINE p == patchList[cursor]
<1>1. p \in Patches /\ cursor \in DOMAIN patchList /\ p \in Listed
  BY DEF ManagerInv, ManagerTypeOK, UnpatchEach, AtElement, Listed
<1>2. BinInv'
  BY <1>1, UnpatchInv DEF ManagerInv, UnpatchEach
<1>3. UNCHANGED <<pristine, objects>>
  BY <1>1 DEF UnpatchEach, Unpatch, binVars, memory
<1>4. ListedAlive'
  BY <1>3 DEF ManagerInv, ListedAlive, UnpatchEach, AtElement, objects
<1>5. UnpatchAllRestores'
  <2> SUFFICES ASSUME \A q \in Listed : SoundSnapshot(q),
                      NEW i \in DOMAIN patchList, i < cursor + 1, patched[patchList[i]],
                      NEW s \in Target[patchList[i]]
               PROVE  code'[s] = pristine[s]
    BY <1>3 DEF UnpatchAllRestores, UnpatchEach, SoundSnapshot, HasContents, Listed, objects
  <2>1. s \in Site
    BY TargetAssumption DEF ManagerInv, ManagerTypeOK
  <2>2. i < cursor => code[s] = pristine[s]
    BY DEF ManagerInv, UnpatchAllRestores, UnpatchEach, AtElement, HasContents
  <2>3. i = cursor \/ i < cursor
    BY DEF ManagerInv, ManagerTypeOK
  <2>4. CASE patched[p]
    <3>1. code' = Overwrite(p, original[p])
      BY <1>1, <2>4 DEF UnpatchEach, Unpatch, ManagerInv, BinInv
    <3>2. \A t \in Target[p] : original[p][t] = pristine[t]
      BY <1>1, <2>4 DEF SoundSnapshot
    <3>3. QED
      BY <2>1, <2>2, <2>3, <3>1, <3>2 DEF Overwrite
  <2>5. CASE ~patched[p]
    BY <2>2, <2>3, <2>5 DEF UnpatchEach, Unpatch, binVars, memory
  <2>6. QED
    BY <2>4, <2>5
<1>6. QED
  BY <1>2, <1>4, <1>5 DEF ManagerInv, ManagerTypeOK, BinInv, UnpatchEach

\* One turn of UnregisterAll.
LEMMA DeleteEachInv ==
    ASSUME ManagerInv, DeleteEach
    PROVE  ManagerInv'
<1>1. patchList[cursor] \in Patches
  BY DEF ManagerInv, ManagerTypeOK, DeleteEach, AtElement
<1>2. BinInv'
  BY <1>1, DestroyInv DEF ManagerInv, DeleteEach
<1>3. ListedAlive'
  BY <1>1 DEF ManagerInv, ManagerTypeOK, BinTypeOK, ListedAlive, DeleteEach, AtElement, Destroy
<1>4. UnpatchAllRestores'
  BY DEF UnpatchAllRestores, DeleteEach, AtElement
<1>5. QED
  BY <1>2, <1>3, <1>4 DEF ManagerInv, ManagerTypeOK, BinInv, DeleteEach

\* UnregisterAll ends with an empty list.
LEMMA ClearInv ==
    ASSUME ManagerInv, Clear
    PROVE  ManagerInv'
<1>1. BinInv'
  BY BinStutterInv DEF ManagerInv, Clear
<1>2. QED
  BY <1>1 DEF ManagerInv, ManagerTypeOK, BinInv, ListedAlive, UnpatchAllRestores, Clear

\* Stuttering preserves the invariant.
LEMMA ManagerStutterInv ==
    ASSUME ManagerInv, UNCHANGED managerVars
    PROVE  ManagerInv'
<1>1. BinInv'
  BY BinStutterInv DEF ManagerInv, managerVars
<1>2. QED
  BY <1>1 DEF ManagerInv, ManagerTypeOK, BinInv, ListedAlive, UnpatchAllRestores, HasContents,
              SoundSnapshot, Listed, managerVars, binVars, memory, objects, loopVars

\* The invariant holds in every reachable state.
THEOREM ManagerInvariant == ManagerSpec => []ManagerInv
<1>1. ManagerInv /\ [ManagerNext]_managerVars => ManagerInv'
  BY NewInv, RegisterInv, BeginInv, FinishInv, PatchEachInv, UnpatchEachInv, DeleteEachInv,
     ClearInv, ManagerStutterInv DEF ManagerNext
<1>2. QED
  BY ManagerInitInv, <1>1, PTL DEF ManagerSpec

\* The list and the loop variables keep their types.
THEOREM ManagerTypeCorrect == ManagerSpec => []ManagerTypeOK
<1>1. ManagerInv => ManagerTypeOK
  BY DEF ManagerInv
<1>2. QED
  BY ManagerInvariant, <1>1, PTL

\* The manager never calls or deletes an object that has been deleted.
THEOREM NoDanglingPatch == ManagerSpec => []ListedAlive
<1>1. ManagerInv => ListedAlive
  BY DEF ManagerInv
<1>2. QED
  BY ManagerInvariant, <1>1, PTL

\* Restoring in the order of registration is right whenever the snapshots are.
THEOREM ForwardRestore == ManagerSpec => []UnpatchAllRestores
<1>1. ManagerInv => UnpatchAllRestores
  BY DEF ManagerInv
<1>2. QED
  BY ManagerInvariant, <1>1, PTL

-----------------------------------------------------------------------------
\* To its objects a manager is just another user.

\* A step of the manager is one call of one object, or none.
LEMMA ManagerStep ==
    ASSUME ManagerInv, [ManagerNext]_managerVars
    PROVE  [BinNext]_binVars
<1>1. ASSUME NEW p \in Patches, NEW bytes \in Contents(p), New(p, bytes) PROVE BinNext
  BY <1>1 DEF New, Idle, BinNext
<1>2. CASE PatchEach \/ UnpatchEach \/ DeleteEach
  <2>1. patchList[cursor] \in Patches /\ fault = "none"
    BY <1>2 DEF ManagerInv, ManagerTypeOK, PatchEach, UnpatchEach, DeleteEach, AtElement
  <2>2. QED
    BY <1>2, <2>1 DEF PatchEach, UnpatchEach, DeleteEach, BinNext
<1>3. CASE \/ \E p \in Patches : Register(p)
           \/ \E o \in {"patchAll", "unpatchAll", "unregisterAll"} : Begin(o)
           \/ Finish("patchAll") \/ Finish("unpatchAll") \/ Clear \/ UNCHANGED managerVars
  BY <1>3 DEF Register, Begin, Finish, Clear, managerVars
<1>4. QED
  BY <1>1, <1>2, <1>3 DEF ManagerNext

\* So all that holds of the objects in any user's hands, one-shot patching included,
\* holds of those a manager runs.
THEOREM ManagerUsesObjects ==
    ManagerSpec => /\ BinSpec
                   /\ ImplementsOneShot
                   /\ [](UnpatchNeverFaults /\ NoUninitialisedCode)
<1>1. ManagerSpec => BinSpec
  BY ManagerInvariant, ManagerStep, PTL DEF ManagerInit, ManagerSpec, BinSpec
<1>2. QED
  BY <1>1, OneShotRefinement, UnpatchSafe, NoJunkInCode, PTL

\* PatchAll has called Patch on every element its iterator has passed, and none of
\* these calls was left out; m_bPatched, which nothing resets, says so.
PassedArePatched ==
    op = "patchAll" /\ fault = "none" =>
       \A i \in DOMAIN patchList : i < cursor => patched[patchList[i]]

\* A turn of PatchAll either marks its object or is the process' last.
LEMMA PassedStep ==
    ASSUME ManagerInv, PassedArePatched, [ManagerNext]_managerVars
    PROVE  PassedArePatched'
<1>1. ASSUME NEW p \in Patches, NEW bytes \in Contents(p), New(p, bytes) PROVE PassedArePatched'
  BY <1>1 DEF New, Idle, PassedArePatched, loopVars
<1>2. CASE PatchEach
  <2>1. /\ cursor \in DOMAIN patchList /\ patchList[cursor] \in Patches /\ cursor' = cursor + 1
        /\ op = "patchAll" /\ fault = "none" /\ UNCHANGED <<patchList, op>>
        /\ cursor \in Nat
    BY <1>2 DEF ManagerInv, ManagerTypeOK, PatchEach, AtElement
  <2>2. fault' = "none" => patched'[patchList[cursor]]
    BY <1>2, <2>1 DEF PatchEach, Patch, ManagerInv, BinInv, BinTypeOK, binVars, memory, objects
  <2>3. \A q \in Patches : patched[q] => patched'[q]
    BY <1>2, <2>1 DEF PatchEach, Patch, ManagerInv, BinInv, BinTypeOK, binVars, objects
  <2>4. \A i \in DOMAIN patchList : i < cursor + 1 => i < cursor \/ i = cursor
    BY <2>1 DEF ManagerInv, ManagerTypeOK
  <2>5. \A i \in DOMAIN patchList : patchList[i] \in Patches
    BY DEF ManagerInv, ManagerTypeOK
  <2>6. QED
    BY <2>1, <2>2, <2>3, <2>4, <2>5 DEF PassedArePatched
<1>3. CASE UnpatchEach \/ DeleteEach \/ Finish("unpatchAll") \/ Finish("patchAll") \/ Clear
  BY <1>3 DEF UnpatchEach, DeleteEach, Finish, Clear, AtElement, PassedArePatched
<1>4. ASSUME NEW p \in Patches, Register(p) PROVE PassedArePatched'
  BY <1>4 DEF Register, Idle, PassedArePatched
<1>5. ASSUME NEW o \in {"patchAll", "unpatchAll", "unregisterAll"}, Begin(o) PROVE PassedArePatched'
  BY <1>5 DEF Begin, PassedArePatched, ManagerInv, ManagerTypeOK
<1>6. CASE UNCHANGED managerVars
  BY <1>6 DEF managerVars, loopVars, binVars, memory, objects, PassedArePatched
<1>7. QED
  BY <1>1, <1>2, <1>3, <1>4, <1>5, <1>6 DEF ManagerNext

\* What is true of PatchAllApplies, the claim of basicbinpatch.h:101: when PatchAll
\* returns every registered patch that shares no code is in place, or its code is the
\* library's own because it had been applied and undone before; it is never anything
\* else, and never a patch that PatchAll has not got round to.
THEOREM PatchAllOnceOnly ==
    ManagerSpec => [](AtEnd("patchAll") =>
                         \A p \in Listed \cap Private :
                            patched[p] /\ Stage(p) \in {"patched", "restored"})
<1>1. ManagerInit => PassedArePatched
  BY DEF ManagerInit, PassedArePatched
<1>2. ManagerInv /\ PrivateInv /\ [ManagerNext]_managerVars => PrivateInv'
  BY ManagerStep, PrivateStep DEF ManagerInv, RefInv
<1>3. ManagerInv /\ PrivateInv /\ PassedArePatched /\ AtEnd("patchAll") =>
         \A p \in Listed \cap Private : patched[p] /\ Stage(p) \in {"patched", "restored"}
  <2> SUFFICES ASSUME ManagerInv, PrivateInv, PassedArePatched, AtEnd("patchAll"),
                      NEW p \in Listed \cap Private
               PROVE  patched[p] /\ Stage(p) \in {"patched", "restored"}
    OBVIOUS
  <2>1. PICK i \in DOMAIN patchList : p = patchList[i]
    BY DEF Listed
  <2>2. i < cursor
    BY DEF AtEnd, ManagerInv, ManagerTypeOK
  <2>3. patched[p]
    BY <2>1, <2>2 DEF PassedArePatched, AtEnd
  <2>4. HasContents(p, replacement[p]) \/ HasContents(p, pristine)
    BY <2>3 DEF PrivateInv
  <2>5. CASE HasContents(p, replacement[p])
    BY <2>3, <2>5 DEF Stage
  <2>6. CASE ~HasContents(p, replacement[p])
    BY <2>3, <2>4, <2>6 DEF Stage
  <2>7. QED
    BY <2>3, <2>5, <2>6
<1>4. ManagerInit => PrivateInv
  BY PrivateInit DEF ManagerInit
<1>5. QED
  BY <1>1, <1>2, <1>3, <1>4, PassedStep, ManagerInvariant, PTL DEF ManagerSpec
=============================================================================
