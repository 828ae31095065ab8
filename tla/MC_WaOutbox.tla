---------------------------- MODULE MC_WaOutbox ----------------------------
(* Small instances of WaOutbox.                                             *)
EXTENDS WaOutbox, TLC

CONSTANTS p1, p2, h1, t1, t2

\* The messages of a kind are parts of one reply.
MCReply == [m \in Messages |-> IF m \in Bulk THEN "notice" ELSE "reply"]

Symmetry == Permutations(Passes) \cup Permutations(Texts)
=============================================================================
