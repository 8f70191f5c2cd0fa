--------------------------- MODULE MC_LockoutScan ----------------------------
EXTENDS LockoutScan, TLC

Symmetry == Permutations(Accounts) \cup Permutations(Scanners)
=============================================================================
