---------------------------- MODULE MCQuotaJournal ----------------------------
EXTENDS QuotaJournal, TLC
Symmetry == Permutations(Deals)
=============================================================================
