----------------------------- MODULE MCTreasury -----------------------------
EXTENDS Treasury, TLC
Alike == Permutations(Passes) \cup Permutations(Protections)
=============================================================================
