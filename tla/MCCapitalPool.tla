---------------------------- MODULE MCCapitalPool ----------------------------
EXTENDS CapitalPool, TLC
Alike == Permutations(AdminRequests) \cup Permutations(Runs)
PremiumAndPayout == {4, -4}
=============================================================================
