------------------------ MODULE MCPositionLifecycle ------------------------
(***************************************************************************)
(* PositionLifecycle for TLC, with the inductive invariant of its handlers   *)
(* among what is checked.                                                   *)
(***************************************************************************)
EXTENDS PositionLifecycleInvariant, TLC
Alike == Permutations(Cycles) \cup Permutations(Positions)

\* What is followed: everything over one position; without failures, the
\* openings and closes of all positions without detector cycles, and, until a
\* position ends, two openings and the handlers that overlap on one of them.
Exists(p) == position[p].status # "absent"

Handled(p) == \E h \in Handlers : task[h].pos = p \/ p \in task[h].todo

Scope ==
  \/ Cardinality({p \in Positions : Exists(p)}) <= 1
  \/ /\ faults = 0
     /\ \A p \in Positions : salvage[p] = <<>>
     /\ \/ \A t \in Cycles : task[t] = IdleTask
        \/ /\ Cardinality({p \in Positions : Exists(p)}) <= 2
           /\ Cardinality({p \in Positions : Handled(p)}) <= 1
           /\ \A p \in Positions : ~Ended(p)
=============================================================================
