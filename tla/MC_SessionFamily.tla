------------------------- MODULE MC_SessionFamily -------------------------
(* Two tabs of one browser; both are alike.                                *)
EXTENDS SessionFamily, TLC

CONSTANTS t1, t2

Symmetry == Permutations(Tabs)
===========================================================================
