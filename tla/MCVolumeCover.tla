--------------------------- MODULE MCVolumeCover ---------------------------
EXTENDS VolumeCover, TLC
Alike == Permutations(Cycles) \cup Permutations(Positions) \cup Permutations(Managers)

\* What is followed: two ticks and a failure over one position, and one tick
\* without failures over all positions, legs re-pointed between them.
Scope ==
  \/ Cardinality({p \in Positions : position[p].status # "absent"}) <= 1
  \/ /\ faults = 0
     /\ Cardinality({m \in Managers : tick[m] # IdleTick \/ \E l \in Legs : sellRows[l][m] > 0}) <= 1
=============================================================================
