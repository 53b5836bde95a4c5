------------------------------ MODULE BinPatch ------------------------------
(* BasicStaticBinPatch of basicbinpatch.h: objects that overwrite a piece of *)
(* code of a game library and put back the bytes they saved.  BasicBinPatch, *)
(* the heap-allocated variant, has the same Patch and Unpatch.               *)
(*                                                                           *)
(* A Site is a stretch of code no two patches split differently; Byte is     *)
(* what such a stretch can hold.  Junk stands for the contents of memory     *)
(* nobody has initialised.                                                   *)

CONSTANTS Patches,        \* the patch objects, each created at most once
          Site,           \* the patched stretches of code
          Byte,           \* the contents of a stretch
          Junk,           \* uninitialised contents
          Target,         \* m_pTarget and LENGTH: the stretches an object covers
          PatchTimeCopy   \* m_bPatchTimeCopy: snapshot in Patch, not in the constructor
                          \* (the class offers it, no caller here asks for it)

ASSUME TargetAssumption == Target \in [Patches -> SUBSET Site]
ASSUME CopyAssumption == PatchTimeCopy \in [Patches -> BOOLEAN]
ASSUME JunkAssumption == Junk \notin Byte

VARIABLES code,         \* the code the server executes
          pristine,     \* history: that code as the library was mapped
          writable,     \* stretches whose pages mprotect has made writable
          fault,        \* the call that wrote to a read-only page, if any
          life,         \* whether an object is yet to be built, live or deleted
          replacement,  \* m_replacement
          original,     \* m_original
          firstTime,    \* m_bFirstTime
          patched       \* m_bPatched

memory  == <<code, pristine, writable, fault>>
objects == <<life, replacement, original, firstTime, patched>>
binVars == <<memory, objects>>

Contents(p) == [Target[p] -> Byte]
Snapshot(p) == [s \in Target[p] |-> code[s]]
Overwrite(p, bytes) ==
    [s \in Site |-> IF s \in Target[p] THEN bytes[s] ELSE code[s]]
HasContents(p, bytes) == \A s \in Target[p] : code[s] = bytes[s]

BinInit ==
    /\ pristine \in [Site -> Byte]
    /\ code = pristine
    /\ writable = {}
    /\ fault = "none"
    /\ life = [p \in Patches |-> "unborn"]
    /\ replacement = [p \in Patches |-> <<>>]
    /\ original = [p \in Patches |-> <<>>]
    /\ firstTime = [p \in Patches |-> TRUE]
    /\ patched = [p \in Patches |-> FALSE]

\* A constructor that does not save the code.
ConstructForgetsCopy(p, bytes) ==
    /\ life[p] = "unborn"
    /\ life' = [life EXCEPT ![p] = "live"]
    /\ replacement' = [replacement EXCEPT ![p] = bytes]
    /\ UNCHANGED <<memory, original, firstTime, patched>>

\* The constructor.  Without patchTimeCopy the code is saved here, maybe long
\* before Patch; with it m_original stays uninitialised until Patch.
Construct(p, bytes) ==
    /\ life[p] = "unborn"
    /\ life' = [life EXCEPT ![p] = "live"]
    /\ replacement' = [replacement EXCEPT ![p] = bytes]
    /\ original' = [original EXCEPT ![p] =
                        IF PatchTimeCopy[p] THEN [s \in Target[p] |-> Junk] ELSE Snapshot(p)]
    /\ firstTime' = [firstTime EXCEPT ![p] = TRUE]
    /\ patched' = [patched EXCEPT ![p] = FALSE]
    /\ UNCHANGED memory

\* SetMemPatchable, on the first call only.  The result of mprotect is ignored.
MakePatchable(p) ==
    \/ firstTime[p] /\ writable' = writable \cup Target[p]
    \/ writable' = writable

\* A Patch that does not test m_bPatched.
PatchAgain(p) ==
    /\ life[p] = "live"
    /\ MakePatchable(p)
    /\ firstTime' = [firstTime EXCEPT ![p] = FALSE]
    /\ Target[p] \subseteq writable'
    /\ original' = IF PatchTimeCopy[p] THEN [original EXCEPT ![p] = Snapshot(p)] ELSE original
    /\ code' = Overwrite(p, replacement[p])
    /\ patched' = [patched EXCEPT ![p] = TRUE]
    /\ UNCHANGED <<pristine, fault, life, replacement>>

\* A Patch that never takes the snapshot the constructor has left to it.
PatchForgetsCopy(p) ==
    /\ life[p] = "live" /\ ~patched[p]
    /\ MakePatchable(p)
    /\ firstTime' = [firstTime EXCEPT ![p] = FALSE]
    /\ Target[p] \subseteq writable'
    /\ code' = Overwrite(p, replacement[p])
    /\ patched' = [patched EXCEPT ![p] = TRUE]
    /\ UNCHANGED <<pristine, fault, life, replacement, original>>

\* Patch: nothing when m_bPatched is set, otherwise write the replacement.
Patch(p) ==
    /\ life[p] = "live"
    /\ \/ patched[p] /\ UNCHANGED binVars
       \/ /\ ~patched[p]
          /\ MakePatchable(p)
          /\ firstTime' = [firstTime EXCEPT ![p] = FALSE]
          /\ \/ /\ Target[p] \subseteq writable'
                /\ original' = IF PatchTimeCopy[p]
                                 THEN [original EXCEPT ![p] = Snapshot(p)] ELSE original
                /\ code' = Overwrite(p, replacement[p])
                /\ patched' = [patched EXCEPT ![p] = TRUE]
                /\ fault' = fault
             \/ /\ ~(Target[p] \subseteq writable')
                /\ fault' = "patch"
                /\ UNCHANGED <<code, original, patched>>
          /\ UNCHANGED <<pristine, life, replacement>>

\* An Unpatch that does not test m_bPatched.
UnpatchUnguarded(p) ==
    /\ life[p] = "live"
    /\ IF Target[p] \subseteq writable THEN code' = Overwrite(p, original[p]) /\ fault' = fault
                                      ELSE code' = code /\ fault' = "unpatch"
    /\ UNCHANGED <<pristine, writable, objects>>

\* Unpatch: nothing unless m_bPatched is set, otherwise write the saved bytes
\* back.  It neither calls SetMemPatchable nor resets m_bPatched.
Unpatch(p) ==
    /\ life[p] = "live"
    /\ \/ ~patched[p] /\ UNCHANGED binVars
       \/ /\ patched[p]
          /\ \/ /\ Target[p] \subseteq writable
                /\ code' = Overwrite(p, original[p])
                /\ fault' = fault
             \/ /\ ~(Target[p] \subseteq writable)
                /\ code' = code
                /\ fault' = "unpatch"
          /\ UNCHANGED <<pristine, writable, objects>>

\* delete: the destructor frees the object and leaves the code as it is.
Destroy(p) ==
    /\ life[p] = "live"
    /\ life' = [life EXCEPT ![p] = "deleted"]
    /\ UNCHANGED <<memory, replacement, original, firstTime, patched>>

BinNext ==
    /\ fault = "none"
    /\ \E p \in Patches :
          \/ \E bytes \in Contents(p) : Construct(p, bytes)
          \/ Patch(p)
          \/ Unpatch(p)
          \/ Destroy(p)

BinSpec == BinInit /\ [][BinNext]_binVars

-----------------------------------------------------------------------------
\* What the variables hold; bytes are only ever those of Byte or, in a snapshot
\* that has not been taken yet, Junk.
BinTypeOK ==
    /\ code \in [Site -> Byte \cup {Junk}]
    /\ pristine \in [Site -> Byte]
    /\ writable \subseteq Site
    /\ fault \in {"none", "patch", "unpatch"}
    /\ life \in [Patches -> {"unborn", "live", "deleted"}]
    /\ firstTime \in [Patches -> BOOLEAN]
    /\ patched \in [Patches -> BOOLEAN]
    /\ DOMAIN replacement = Patches
    /\ DOMAIN original = Patches
    /\ \A p \in Patches : life[p] # "unborn" =>
          /\ replacement[p] \in Contents(p)
          /\ original[p] \in [Target[p] -> Byte \cup {Junk}]

\* Unpatch writes without calling SetMemPatchable: that is safe only because
\* m_bPatched says an earlier Patch made the pages writable (and nothing takes
\* the permission back), so Unpatch never writes to a read-only page.
UnpatchNeverFaults == fault # "unpatch"

\* With patchTimeCopy the constructor leaves m_original uninitialised.  Whatever
\* the order of the calls, no such byte ever reaches the code of the library.
NoUninitialisedCode == \A s \in Site : code[s] # Junk

\* Code that some other object of the same library does not patch too.
Private == {p \in Patches : \A q \in Patches \ {p} : Target[p] \cap Target[q] = {}}

\* The abstract state of an object's code: see CodePatch.
Stage(p) ==
    CASE ~patched[p] /\ HasContents(p, pristine) -> "untouched"
      [] patched[p] /\ HasContents(p, replacement[p]) -> "patched"
      [] patched[p] /\ HasContents(p, pristine) /\ ~HasContents(p, replacement[p]) -> "restored"
      [] OTHER -> "corrupt"

Abstract == INSTANCE CodePatch WITH Patches <- Private,
                                    stage <- [p \in Private |-> Stage(p)]

\* An object that shares no code with another implements a one-shot patch: its
\* code goes from what the library came with to the replacement, and from there
\* back, whatever the order of Patch, Unpatch and delete calls.
ImplementsOneShot == Abstract!OneShotSpec
=============================================================================
