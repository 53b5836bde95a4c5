--------------------------- MODULE BinPatchProofs ---------------------------
(* Theorems about BinPatch, for any number of objects, any targets and any   *)
(* contents.  Every lemma is about one call, so that the manager's and the   *)
(* plugin's proofs can cite it.                                              *)
EXTENDS BinPatch, TLAPS

\* The inductive invariant: types, and what m_bPatched and patchTimeCopy say of
\* the saved bytes and of the pages.
BinInv ==
    /\ BinTypeOK
    /\ code \in [Site -> Byte]
    /\ fault # "unpatch"
    /\ \A p \in Patches :
          /\ life[p] = "unborn" => ~patched[p]
          /\ patched[p] => original[p] \in Contents(p)
          /\ patched[p] => Target[p] \subseteq writable
          /\ life[p] # "unborn" /\ ~PatchTimeCopy[p] => original[p] \in Contents(p)

\* What Overwrite yields when it is given bytes of the target.
LEMMA OverwriteType ==
    ASSUME code \in [Site -> Byte], NEW p \in Patches, NEW bytes \in Contents(p)
    PROVE  Overwrite(p, bytes) \in [Site -> Byte]
BY TargetAssumption DEF Overwrite, Contents

\* A snapshot taken from the code holds only initialised bytes.
LEMMA SnapshotType ==
    ASSUME code \in [Site -> Byte], NEW p \in Patches
    PROVE  Snapshot(p) \in Contents(p)
BY TargetAssumption DEF Snapshot, Contents

\* The initial state satisfies the invariant.
LEMMA BinInitInv == BinInit => BinInv
BY DEF BinInit, BinInv, BinTypeOK

\* Stuttering preserves the invariant.
LEMMA BinStutterInv ==
    ASSUME BinInv, UNCHANGED binVars
    PROVE  BinInv'
BY DEF BinInv, BinTypeOK, binVars, memory, objects, Contents

\* The constructor preserves the invariant.
LEMMA ConstructInv ==
    ASSUME BinInv, NEW p \in Patches, NEW bytes \in Contents(p), Construct(p, bytes)
    PROVE  BinInv'
<1> DEFINE saved == IF PatchTimeCopy[p] THEN [s \in Target[p] |-> Junk] ELSE Snapshot(p)
<1>1. saved \in [Target[p] -> Byte \cup {Junk}] /\ (~PatchTimeCopy[p] => saved \in Contents(p))
  BY SnapshotType, TargetAssumption DEF BinInv, Contents
<1>2. original' = [original EXCEPT ![p] = saved]
  BY DEF Construct
<1> HIDE DEF saved
<1>3. BinTypeOK'
  BY <1>1, <1>2 DEF BinInv, BinTypeOK, Construct, memory, Contents
<1>4. QED
  BY <1>1, <1>2, <1>3 DEF BinInv, BinTypeOK, Construct, memory, Contents

\* Patch preserves the invariant.
LEMMA PatchInv ==
    ASSUME BinInv, NEW p \in Patches, Patch(p)
    PROVE  BinInv'
<1>1. CASE UNCHANGED binVars
  BY <1>1, BinStutterInv
<1>2. CASE ~patched[p] /\ Target[p] \subseteq writable' /\ patched' # patched
  <2>1. code' \in [Site -> Byte]
    BY <1>2, OverwriteType DEF BinInv, BinTypeOK, Patch
  <2>2. original' = IF PatchTimeCopy[p] THEN [original EXCEPT ![p] = Snapshot(p)] ELSE original
    BY <1>2 DEF Patch
  <2>3. Snapshot(p) \in Contents(p)
    BY SnapshotType DEF BinInv
  <2>4. /\ life[p] = "live"
        /\ patched' = [patched EXCEPT ![p] = TRUE]
        /\ firstTime' = [firstTime EXCEPT ![p] = FALSE]
        /\ writable' \in {writable, writable \cup Target[p]}
        /\ UNCHANGED <<pristine, life, replacement, fault>>
    BY <1>2 DEF Patch, MakePatchable
  <2>5. Target[p] \subseteq Site
    BY TargetAssumption
  <2>6. BinTypeOK'
    BY <2>1, <2>2, <2>3, <2>4, <2>5 DEF BinInv, BinTypeOK, Contents
  <2>7. QED
    BY <1>2, <2>1, <2>2, <2>3, <2>4, <2>6 DEF BinInv, BinTypeOK, Contents
<1>3. CASE /\ fault' = "patch"
           /\ writable' \in {writable, writable \cup Target[p]}
           /\ firstTime' = [firstTime EXCEPT ![p] = FALSE]
           /\ UNCHANGED <<code, original, patched, pristine, life, replacement>>
  BY <1>3, TargetAssumption DEF BinInv, BinTypeOK, Contents
<1>4. QED
  BY <1>1, <1>2, <1>3 DEF Patch, MakePatchable, BinInv, BinTypeOK

\* Unpatch preserves the invariant; in particular it finds its pages writable.
LEMMA UnpatchInv ==
    ASSUME BinInv, NEW p \in Patches, Unpatch(p)
    PROVE  BinInv'
<1>1. CASE UNCHANGED binVars
  BY <1>1, BinStutterInv
<1>2. CASE patched[p]
  <2>1. /\ code' = Overwrite(p, original[p])
        /\ UNCHANGED <<pristine, writable, fault, objects>>
    BY <1>2 DEF Unpatch, BinInv
  <2>2. code' \in [Site -> Byte]
    BY <1>2, <2>1, OverwriteType DEF BinInv
  <2>3. QED
    BY <2>1, <2>2 DEF BinInv, BinTypeOK, objects, Contents
<1>3. QED
  BY <1>1, <1>2 DEF Unpatch

\* delete preserves the invariant.
LEMMA DestroyInv ==
    ASSUME BinInv, NEW p \in Patches, Destroy(p)
    PROVE  BinInv'
BY DEF Destroy, BinInv, BinTypeOK, memory, Contents

\* The invariant holds in every reachable state.
THEOREM BinInvariant == BinSpec => []BinInv
<1>1. BinInv /\ [BinNext]_binVars => BinInv'
  BY ConstructInv, PatchInv, UnpatchInv, DestroyInv, BinStutterInv DEF BinNext
<1>2. QED
  BY BinInitInv, <1>1, PTL DEF BinSpec

\* The variables keep their types.
THEOREM BinTypeCorrect == BinSpec => []BinTypeOK
<1>1. BinInv => BinTypeOK
  BY DEF BinInv
<1>2. QED
  BY BinInvariant, <1>1, PTL

\* Unpatch, which does not make its pages writable, never needs to.
THEOREM UnpatchSafe == BinSpec => []UnpatchNeverFaults
<1>1. BinInv => UnpatchNeverFaults
  BY DEF BinInv, UnpatchNeverFaults
<1>2. QED
  BY BinInvariant, <1>1, PTL

\* No uninitialised byte of a snapshot reaches the library's code.
THEOREM NoJunkInCode == BinSpec => []NoUninitialisedCode
<1>1. BinInv => NoUninitialisedCode
  BY JunkAssumption DEF BinInv, NoUninitialisedCode
<1>2. QED
  BY BinInvariant, <1>1, PTL

-----------------------------------------------------------------------------
\* The refinement of CodePatch.  Its invariant: a private object that has not
\* been applied finds, and has saved, what the library came with.
SavedPristine(p) == \A s \in Target[p] : original[p][s] = pristine[s]
PrivateInv ==
    \A p \in Private :
       /\ ~patched[p] => HasContents(p, pristine)
       /\ life[p] # "unborn" /\ ~PatchTimeCopy[p] => SavedPristine(p)
       /\ patched[p] => /\ SavedPristine(p)
                        /\ HasContents(p, replacement[p]) \/ HasContents(p, pristine)
RefInv == BinInv /\ PrivateInv

\* A call on one object leaves the code of every private other one alone.
LEMMA OthersCode ==
    ASSUME RefInv, NEW p \in Patches, Patch(p) \/ Unpatch(p), NEW q \in Private, q # p
    PROVE  /\ \A s \in Target[q] : code'[s] = code[s]
           /\ UNCHANGED <<pristine, life[q], replacement[q], original[q], patched[q]>>
<1>1. \A s \in Target[q] : s \in Site /\ s \notin Target[p]
  BY TargetAssumption DEF Private
<1>2. q \in Patches
  BY DEF Private
<1>3. QED
  BY <1>1, <1>2 DEF RefInv, BinInv, BinTypeOK, Patch, Unpatch, Overwrite, binVars, memory, objects

\* Applying a private object: it was untouched, or had been applied before.
LEMMA PatchOwn ==
    ASSUME RefInv, NEW p \in Private, Patch(p)
    PROVE  /\ UNCHANGED <<pristine, life, replacement>>
           /\ \/ UNCHANGED <<code, patched, original>>
              \/ /\ ~patched[p] /\ patched'[p]
                 /\ \A s \in Target[p] : code'[s] = replacement[p][s]
                 /\ \A s \in Target[p] : original'[p][s] = pristine[s]
<1>1. p \in Patches /\ Target[p] \subseteq Site
  BY TargetAssumption DEF Private
<1>2. CASE UNCHANGED <<code, patched, original>>
  BY <1>2 DEF Patch, binVars, memory, objects
<1>3. CASE ~patched[p] /\ Target[p] \subseteq writable'
           /\ code' = Overwrite(p, replacement[p])
           /\ original' = (IF PatchTimeCopy[p] THEN [original EXCEPT ![p] = Snapshot(p)] ELSE original)
           /\ patched' = [patched EXCEPT ![p] = TRUE]
  <2>1. \A s \in Target[p] : code'[s] = replacement[p][s]
    BY <1>1, <1>3 DEF Overwrite
  <2>2. \A s \in Target[p] : original'[p][s] = pristine[s]
    BY <1>1, <1>3 DEF RefInv, PrivateInv, SavedPristine, HasContents, Snapshot, BinInv, BinTypeOK,
                      Patch
  <2>3. QED
    BY <1>1, <1>3, <2>1, <2>2 DEF Patch, RefInv, BinInv, BinTypeOK
<1>4. QED
  BY <1>2, <1>3 DEF Patch, binVars, memory, objects

\* Undoing a private object puts the library's own code back.
LEMMA UnpatchOwn ==
    ASSUME RefInv, NEW p \in Private, Unpatch(p)
    PROVE  /\ UNCHANGED <<pristine, objects>>
           /\ patched[p] => \A s \in Target[p] : code'[s] = pristine[s]
           /\ ~patched[p] => code' = code
<1>1. p \in Patches /\ Target[p] \subseteq Site
  BY TargetAssumption DEF Private
<1>2. CASE patched[p]
  <2>1. code' = Overwrite(p, original[p])
    BY <1>1, <1>2 DEF Unpatch, RefInv, BinInv
  <2>2. QED
    BY <1>1, <1>2, <2>1 DEF Unpatch, Overwrite, RefInv, PrivateInv, SavedPristine
<1>3. QED
  BY <1>2 DEF Unpatch, binVars, memory

\* The invariant of the refinement holds initially and is preserved.
LEMMA PrivateInit == BinInit => PrivateInv
BY TargetAssumption DEF BinInit, PrivateInv, HasContents, Private

\* Every call preserves what is known of private objects.
LEMMA PrivateStep == RefInv /\ [BinNext]_binVars => PrivateInv'
<1> SUFFICES ASSUME RefInv, [BinNext]_binVars PROVE PrivateInv'
  OBVIOUS
<1>1. CASE UNCHANGED binVars
  BY <1>1 DEF RefInv, PrivateInv, SavedPristine, HasContents, binVars, memory, objects
<1>2. ASSUME NEW p \in Patches, NEW bytes \in Contents(p), Construct(p, bytes)
      PROVE  PrivateInv'
  <2> SUFFICES ASSUME NEW q \in Private
               PROVE  /\ ~patched'[q] => HasContents(q, pristine)'
                      /\ life'[q] # "unborn" /\ ~PatchTimeCopy[q] => SavedPristine(q)'
                      /\ patched'[q] => /\ SavedPristine(q)'
                                        /\ HasContents(q, replacement[q])' \/ HasContents(q, pristine)'
    BY DEF PrivateInv
  <2>1. q \in Patches
    BY DEF Private
  <2>2. UNCHANGED <<code, pristine>>
    BY <1>2 DEF Construct, memory
  <2>3. CASE q = p
    BY <1>2, <2>1, <2>2, <2>3 DEF Construct, RefInv, BinInv, BinTypeOK, PrivateInv, SavedPristine,
                                  HasContents, Snapshot
  <2>4. CASE q # p
    BY <1>2, <2>1, <2>2, <2>4 DEF Construct, RefInv, BinInv, BinTypeOK, PrivateInv, SavedPristine,
                                  HasContents
  <2>5. QED
    BY <2>3, <2>4
<1>3. ASSUME NEW p \in Patches, Patch(p)
      PROVE  PrivateInv'
  <2> SUFFICES ASSUME NEW q \in Private
               PROVE  /\ ~patched'[q] => HasContents(q, pristine)'
                      /\ life'[q] # "unborn" /\ ~PatchTimeCopy[q] => SavedPristine(q)'
                      /\ patched'[q] => /\ SavedPristine(q)'
                                        /\ HasContents(q, replacement[q])' \/ HasContents(q, pristine)'
    BY DEF PrivateInv
  <2>1. CASE q = p
    BY <1>3, <2>1, PatchOwn DEF RefInv, PrivateInv, SavedPristine, HasContents
  <2>2. CASE q # p
    BY <1>3, <2>2, OthersCode DEF RefInv, PrivateInv, SavedPristine, HasContents
  <2>3. QED
    BY <2>1, <2>2
<1>4. ASSUME NEW p \in Patches, Unpatch(p)
      PROVE  PrivateInv'
  <2> SUFFICES ASSUME NEW q \in Private
               PROVE  /\ ~patched'[q] => HasContents(q, pristine)'
                      /\ life'[q] # "unborn" /\ ~PatchTimeCopy[q] => SavedPristine(q)'
                      /\ patched'[q] => /\ SavedPristine(q)'
                                        /\ HasContents(q, replacement[q])' \/ HasContents(q, pristine)'
    BY DEF PrivateInv
  <2>1. CASE q = p
    BY <1>4, <2>1, UnpatchOwn DEF RefInv, PrivateInv, SavedPristine, HasContents, objects
  <2>2. CASE q # p
    BY <1>4, <2>2, OthersCode DEF RefInv, PrivateInv, SavedPristine, HasContents
  <2>3. QED
    BY <2>1, <2>2
<1>5. ASSUME NEW p \in Patches, Destroy(p)
      PROVE  PrivateInv'
  BY <1>5 DEF Destroy, RefInv, BinInv, BinTypeOK, PrivateInv, SavedPristine, HasContents, Private, memory
<1>6. QED
  BY <1>1, <1>2, <1>3, <1>4, <1>5 DEF BinNext

\* A private object implements the one-shot patch of CodePatch.
THEOREM OneShotRefinement == BinSpec => ImplementsOneShot
<1> DEFINE st == [p \in Private |-> Stage(p)]
<1>1. BinInit => Abstract!Init
  BY TargetAssumption DEF BinInit, Abstract!Init, Stage, HasContents, Private
<1>2. RefInv /\ [BinNext]_binVars => RefInv'
  BY PrivateStep, ConstructInv, PatchInv, UnpatchInv, DestroyInv, BinStutterInv DEF BinNext, RefInv
<1>3. RefInv /\ RefInv' /\ [BinNext]_binVars => [Abstract!OneShotNext]_st
  <2> SUFFICES ASSUME RefInv, RefInv', [BinNext]_binVars
               PROVE  Abstract!OneShotNext \/ st' = st
    OBVIOUS
  <2> DEFINE now(q) == IF ~patched[q] THEN "untouched"
                       ELSE IF HasContents(q, replacement[q]) THEN "patched" ELSE "restored"
  <2>1. \A q \in Private : Stage(q) = now(q)
    <3> SUFFICES ASSUME NEW q \in Private PROVE Stage(q) = now(q)
      OBVIOUS
    <3>1. ~patched[q] => HasContents(q, pristine)
      BY DEF RefInv, PrivateInv
    <3>2. patched[q] => HasContents(q, replacement[q]) \/ HasContents(q, pristine)
      BY DEF RefInv, PrivateInv
    <3>3. CASE ~patched[q]
      BY <3>1, <3>3 DEF Stage
    <3>4. CASE patched[q] /\ HasContents(q, replacement[q])
      BY <3>4 DEF Stage
    <3>5. CASE patched[q] /\ ~HasContents(q, replacement[q])
      BY <3>2, <3>5 DEF Stage
    <3>6. QED
      BY <3>3, <3>4, <3>5
  <2>2. \A q \in Private : Stage(q)' = now(q)'
    <3> SUFFICES ASSUME NEW q \in Private PROVE Stage(q)' = now(q)'
      OBVIOUS
    <3>1. ~patched'[q] => HasContents(q, pristine)'
      BY DEF RefInv, PrivateInv
    <3>2. patched'[q] => HasContents(q, replacement[q])' \/ HasContents(q, pristine)'
      BY DEF RefInv, PrivateInv
    <3>3. CASE ~patched'[q]
      BY <3>1, <3>3 DEF Stage
    <3>4. CASE patched'[q] /\ HasContents(q, replacement[q])'
      BY <3>4 DEF Stage
    <3>5. CASE patched'[q] /\ ~HasContents(q, replacement[q])'
      BY <3>2, <3>5 DEF Stage
    <3>6. QED
      BY <3>3, <3>4, <3>5
  <2>3. ASSUME \A q \in Private : now(q)' = now(q)
        PROVE  st' = st
    BY <2>1, <2>2, <2>3
  <2>4. CASE UNCHANGED binVars
    BY <2>3, <2>4 DEF binVars, memory, objects, HasContents
  <2>5. ASSUME NEW p \in Patches, NEW bytes \in Contents(p), Construct(p, bytes)
        PROVE  st' = st
    <3>1. \A q \in Private : q \in Patches /\ (q = p => ~patched[q] /\ ~patched'[q])
      BY <2>5 DEF Private, Construct, RefInv, BinInv, BinTypeOK
    <3>2. \A q \in Private : q # p => now(q)' = now(q)
      BY <2>5, <3>1 DEF Construct, HasContents, memory, RefInv, BinInv, BinTypeOK
    <3>3. QED
      BY <2>3, <3>1, <3>2
  <2>6. ASSUME NEW p \in Patches, Destroy(p)
        PROVE  st' = st
    BY <2>3, <2>6 DEF Destroy, memory, HasContents
  <2>7. ASSUME NEW p \in Patches, Patch(p) \/ Unpatch(p)
        PROVE  Abstract!OneShotNext \/ st' = st
    <3>1. \A q \in Private : q # p => now(q)' = now(q)
      BY <2>7, OthersCode DEF HasContents
    <3>2. CASE p \in Private /\ Patch(p)
      <4>1. CASE UNCHANGED <<code, patched, original>>
        BY <2>3, <3>1, <3>2, <4>1, PatchOwn DEF HasContents
      <4>2. CASE /\ ~patched[p] /\ patched'[p]
                 /\ \A s \in Target[p] : code'[s] = replacement[p][s]
        <5>1. now(p) = "untouched" /\ now(p)' = "patched"
          BY <3>2, <4>2, PatchOwn DEF HasContents
        <5>2. Abstract!Apply(p)
          BY <2>1, <2>2, <3>1, <3>2, <5>1 DEF Abstract!Apply
        <5>3. QED
          BY <3>2, <5>2 DEF Abstract!OneShotNext
      <4>3. QED
        BY <3>2, <4>1, <4>2, PatchOwn
    <3>3. CASE p \in Private /\ Unpatch(p)
      <4>1. CASE now(p)' = now(p)
        BY <2>3, <3>1, <4>1
      <4>2. CASE now(p)' # now(p)
        <5>1. now(p) = "patched" /\ now(p)' = "restored"
          BY <3>3, <4>2, UnpatchOwn DEF RefInv, PrivateInv, HasContents, objects
        <5>2. Abstract!Restore(p)
          BY <2>1, <2>2, <3>1, <3>3, <5>1 DEF Abstract!Restore
        <5>3. QED
          BY <3>3, <5>2 DEF Abstract!OneShotNext
      <4>3. QED
        BY <4>1, <4>2
    <3>4. CASE p \notin Private
      BY <2>3, <3>1, <3>4
    <3>5. QED
      BY <2>7, <3>2, <3>3, <3>4
  <2>8. QED
    BY <2>4, <2>5, <2>6, <2>7 DEF BinNext
<1>4. QED
  BY <1>1, <1>2, <1>3, BinInitInv, PrivateInit, PTL DEF BinSpec, ImplementsOneShot, RefInv,
     Abstract!OneShotSpec
=============================================================================
