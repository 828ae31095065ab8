-------------------------- MODULE MC_TenantCredit --------------------------
EXTENDS TenantCredit, TLC
CONSTANTS k1, k2, w1, w2
MCAmount == <<2, 1>>
Symmetry == Permutations({w1, w2}) \cup Permutations({k1, k2})
=============================================================================
