---------------------------- MODULE MCHedgeBook ----------------------------
EXTENDS HedgeBook, TLC
Alike == Permutations(Jobs)

\* What is followed: two handlers at once on a paper venue, without failures and
\* as long as every fill is booked; otherwise one at a time, and at
\* Deribit itself as much as the attempts of an order can take.
Scope ==
  /\ Abs(held) <= IF live THEN MaxApart ELSE MaxBook
  /\ live \/ incidents > 0 \/ apart # 0 => Cardinality({j \in Jobs : job[j] # Idle}) <= 1
=============================================================================
