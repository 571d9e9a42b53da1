------------------------ MODULE MCLegacyProtection ------------------------
EXTENDS LegacyProtection, TLC
Alike == Permutations(Jobs) \cup Permutations(Protections \ {Root})
=============================================================================
