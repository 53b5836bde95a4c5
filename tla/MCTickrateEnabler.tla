------------------------- MODULE MCTickrateEnabler --------------------------
(* The Linux L4D2 build: two frametime reads, CNetChan::SetDataRate and      *)
(* ClampClientRate.                                                          *)
EXTENDS TickrateEnabler

MCBoomerReads == <<"read1", "read2">>
MCRateSites == <<"netchan", "clamp">>
MCSite == Range(MCBoomerReads) \cup Range(MCRateSites)
MCCvars == <<"sv_maxrate", "sv_minrate", "net_splitpacket_maxrate">>
MCPatches == MCSite \X (1..MaxLoads)
MCTarget == [p \in MCPatches |-> {p[1]}]
MCPatchTimeCopy == [p \in MCPatches |-> FALSE]
MCByte == {Expected, Unexpected, Rewritten} \cup {Fake(m) : m \in 1..MaxModules}
MCJunk == <<"junk", 0>>
=============================================================================
