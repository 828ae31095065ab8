-------------------------- MODULE MC_ChargeIssuing --------------------------
(* Small instances of ChargeIssuing: two processes, two gateway charges.    *)
EXTENDS ChargeIssuing, TLC

CONSTANTS p1, p2, g1, g2

\* Processes and charges are interchangeable; not used by the liveness run.
Symmetry == Permutations(Procs) \cup Permutations(Charges)
=============================================================================
