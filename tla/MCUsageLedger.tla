---------------------------- MODULE MCUsageLedger ----------------------------
EXTENDS UsageLedger, TLC
Symmetry == Permutations(Requests)
=============================================================================
