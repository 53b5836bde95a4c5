----------------------------- MODULE CodePatch ------------------------------
(* What ICodePatch (codepatch/icodepatch.h) promises of one patch, as far as *)
(* the implementations keep the promise: the code is "untouched", then it is *)
(* "patched", then it is "restored" to its original state, and there it      *)
(* stays: a restored patch is not applied again, although the interface      *)
(* would let it be.                                                          *)
CONSTANT Patches
VARIABLE stage

Init == stage = [p \in Patches |-> "untouched"]

\* Patch(): "patch the code memory".
Apply(p) ==
    /\ stage[p] = "untouched"
    /\ stage' = [stage EXCEPT ![p] = "patched"]

\* Unpatch(): "unpatch the code memory, restoring it to its original state".
Restore(p) ==
    /\ stage[p] = "patched"
    /\ stage' = [stage EXCEPT ![p] = "restored"]

OneShotNext == \E p \in Patches : Apply(p) \/ Restore(p)
OneShotSpec == Init /\ [][OneShotNext]_stage
=============================================================================
