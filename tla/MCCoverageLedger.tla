-------------------------- MODULE MCCoverageLedger --------------------------
EXTENDS CoverageLedger, TLC
Alike == Permutations(Jobs) \cup Permutations(Coverages)

\* What is followed: without failures coverages that have collected one fee at
\* most or were not credited; with one, those of which both hold, and no
\* activation without end or positions under way; and after a restart one
\* handler at a time.
Scope ==
  /\ \A c \in Coverages :
       IF incidents = 0 THEN entry[c].fee <= 1 \/ granted[c] = 0
       ELSE entry[c].fee <= 1 /\ granted[c] = 0
  /\ \A j \in Jobs :
       job[j].kind = "export" /\ (job[j].till = 0 \/ ~job[j].lists) => incidents = 0
  /\ boot.at # "fresh" => Cardinality({j \in Jobs : job[j] # Idle}) <= 1
=============================================================================
