--------------------------- MODULE MCServerRates ----------------------------
(* The Linux L4D2 build with two of the three rate cvars, on servers without *)
(* -tickrate, with no number after it, and with the numbers around the bound.*)
EXTENDS ServerRates

MCBoomerReads == <<"read1", "read2">>
MCRateSites == <<"netchan", "clamp">>
MCSite == Range(MCBoomerReads) \cup Range(MCRateSites)
MCCvars == <<"sv_maxrate", "sv_minrate">>
MCPatches == MCSite \X (1..MaxLoads)
MCTarget == [p \in MCPatches |-> {p[1]}]
MCPatchTimeCopy == [p \in MCPatches |-> FALSE]
MCByte == {Expected, Unexpected, Rewritten} \cup {Fake(m) : m \in 1..MaxModules}
MCJunk == <<"junk", 0>>
MCTickrates == {0, 10, 11}
=============================================================================
