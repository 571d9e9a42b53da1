----------------------------- MODULE MCBiweekly -----------------------------
(***************************************************************************)
(* BiweeklySubscription for TLC.                                            *)
(***************************************************************************)
EXTENDS BiweeklyProofs, TLC
Alike == Permutations(Cycles) \cup Permutations(Requests)
=============================================================================
