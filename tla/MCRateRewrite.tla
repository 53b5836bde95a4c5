--------------------------- MODULE MCRateRewrite ----------------------------
(* Every site that sigs.h describes to the end, with every distance of the   *)
(* jumps it leaves open, in the right game and in others, whose checked byte *)
(* may be the patch's own.                                                   *)
EXTENDS RateRewrite

MCDistances == 1..127
MCOthers == {0, 102, 139, 144, 235}
=============================================================================
