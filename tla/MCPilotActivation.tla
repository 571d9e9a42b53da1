------------------------- MODULE MCPilotActivation -------------------------
EXTENDS PilotActivation, TLC
Alike == Permutations(Requests) \cup Permutations(OneDayQuotes)
=============================================================================
