------------------------- MODULE MCInterfaceSearch --------------------------
(* Every set of versions around the carries and the ends of the range.       *)
EXTENDS InterfaceSearch

MCOfferings == SUBSET {0, 1, 9, 10, 99, 100, 101}
=============================================================================
