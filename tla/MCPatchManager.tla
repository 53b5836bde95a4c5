--------------------------- MODULE MCPatchManager ---------------------------
(* A manager with two patches of the same stretch of code and a third one    *)
(* that covers that stretch and another.                                     *)
EXTENDS PatchManager, TLC
CONSTANTS p1, p2, p3, s1, s2, old, new

MCPatches == {p1, p2, p3}
MCSite == {s1, s2}
MCByte == {old, new}
MCTarget == p1 :> {s1} @@ p2 :> {s1, s2} @@ p3 :> {s1}
MCPatchTimeCopy == [p \in MCPatches |-> p = p3]

\* One patch alone, for the patch and unpatch cycles.
OnePatch == {p1}
OneSite == {s1}
OneTarget == p1 :> {s1}
OneCopy == p1 :> FALSE
=============================================================================
