----------------------------- MODULE MCBinPatch -----------------------------
(* BinPatch on two objects whose targets overlap and two that have theirs to *)
(* themselves; in each pair one takes its snapshot in Patch.                 *)
EXTENDS BinPatch, TLC
CONSTANTS p1, p2, p3, p4, s1, s2, s3, old, new

MCPatches == {p1, p2, p3, p4}
MCSite == {s1, s2, s3}
MCByte == {old, new}
MCTarget == p1 :> {s1} @@ p2 :> {s1} @@ p3 :> {s2} @@ p4 :> {s3}
MCPatchTimeCopy == [p \in MCPatches |-> p \in {p2, p4}]
=============================================================================
