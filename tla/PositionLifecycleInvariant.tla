--------------------- MODULE PositionLifecycleInvariant ---------------------
(***************************************************************************)
(* The inductive invariants of PositionLifecycle: what the handlers and the *)
(* openings know of the rows between two of their steps.                    *)
(***************************************************************************)
EXTENDS PositionLifecycle

\* A handler has a position from the moment it lists its legs until its last
\* ledger row, and that position is not in the list it has still to fire.
WellShaped(s) ==
  /\ s.pc \in {"idle", "loop"} <=> s.pos = NoPosition
  /\ s.pc = "idle" => s.todo = {}
  /\ s.pos \notin s.todo

TaskShape == \A h \in Handlers : WellShaped(task[h])

Ended(p) == position[p].status \in {"triggered", "closed"}

\* A row exists only once its opening has begun, and has a direction only once
\* it has left 'active'.
RowsOK ==
  \A p \in Positions :
    /\ opening[p].pc = "none" => position[p].status = "absent"
    /\ position[p].status \in {"absent", "active"} => position[p].direction = "none"

\* What a handler read and wrote: every position it holds has a row; a payout
\* or a premium is written behind the statement that ends the position; a
\* handler that wrote one for p does not come back to p.
HandlerOK(h) ==
  /\ \A p \in Positions :
       (p \in task[h].todo \/ p = task[h].pos) => position[p].status # "absent"
  /\ task[h].pc \in {"pay", "premium"} => Ended(task[h].pos)
  /\ \A p \in Positions :
       premiums[p][h] > 0 =>
         /\ premiums[p][h] = 1
         /\ Ended(p)
         /\ p \notin task[h].todo
         /\ p # task[h].pos
  /\ h \in Cycles =>
       \A p \in Positions :
         payouts[p][h] > 0 =>
           /\ payouts[p][h] = 1
           /\ Ended(p)
           /\ p \notin task[h].todo
           /\ p = task[h].pos => task[h].pc = "premium"

LifecycleInv ==
  /\ TypeOK
  /\ TaskShape
  /\ RowsOK
  /\ \A h \in Handlers : HandlerOK(h)

-----------------------------------------------------------------------------
(* The legs.                                                               *)

\* What an opening holds at each of its steps: it buys for itself, and never a
\* kind it has already bought or taken over,
OpeningShape(p) ==
  LET o == opening[p] IN
  /\ o.pc \in {"none", "list"} => o.netted = {} /\ o.buy = {}
  /\ o.pc \in {"none", "list", "net"} => o.filled = {}
  /\ o.work \subseteq o.filled
  /\ o.filled \subseteq {p} \X Kinds
  /\ o.pc \in {"net", "buy"} => \A k \in o.buy : <<p, k>> \notin o.filled
  /\ o.pc = "net" => \A l \in o.netted : l[2] \notin o.kinds

\* and ends with a leg of each kind.
KindsCovered(p) ==
  LET o == opening[p] IN
  o.pc \in {"net", "buy", "insert", "done"} =>
    \A k \in Kinds :
      \/ o.pc = "net" /\ k \in o.kinds
      \/ o.pc \in {"net", "buy"} /\ k \in o.buy
      \/ \E l \in o.netted \cup o.filled : l[2] = k

OpeningOK(p) == OpeningShape(p) /\ KindsCovered(p)

\* The row of a leg and the contract behind it follow the opening it was bought
\* for.
LegOK(l) ==
  LET o == opening[l[1]] IN
  /\ leg[l].status = "absent" => leg[l].hops = 0 /\ ~leg[l].retained
  /\ leg[l].hops = 0 => leg[l].owner = l[1]
  /\ held[l] <= 1
  /\ l \notin o.filled => leg[l].status = "absent" /\ held[l] = 0
  /\ o.pc \in {"insert", "done"} /\ l \in o.filled =>
       (o.pc = "insert" /\ l \in o.work) \/ leg[l].status # "absent"
  /\ (o.pc = "unwind" /\ l \notin o.work) \/ (o.pc = "failed" /\ faults = 0) =>
       held[l] <= 0 \/ l \in orphans

\* Without failures, an open row is a contract held, and only legs that were
\* filled together have rows.
LegSound(l) ==
  LET o == opening[l[1]] IN
  /\ leg[l].status = "open" => held[l] = 1
  /\ o.pc \in {"buy", "unwind"} => leg[l].status = "absent"
  /\ o.pc \in {"buy", "insert"} /\ l \in o.filled => held[l] = 1
  /\ o.pc = "insert" /\ l \in o.work => leg[l].status = "absent"

HopsOK(l) ==
  LET takers == {p \in Positions : l \in opening[p].netted} IN
  IsFiniteSet(takers) /\ leg[l].hops = Cardinality(takers) /\ leg[l].hops <= MaxHops

LegsInv ==
  /\ LifecycleInv
  /\ \A p \in Positions : OpeningOK(p)
  /\ \A l \in Legs : LegOK(l) /\ HopsOK(l)
  /\ faults = 0 => \A l \in Legs : LegSound(l)

\* Nothing has begun to end p.
Quiet(p) ==
  /\ position[p].status = "active"
  /\ \A h \in Handlers : task[h].pos = p => task[h].pc = "list"

\* A handler lists legs bought for its position or taken over by it.
ListsOK ==
  \A h \in Handlers : task[h].pc = "retain" =>
    \A l \in task[h].legs : l[1] = task[h].pos \/ leg[l].hops > 0

\* An opening owns what it bought, and what it took over unless a handler of
\* another position flagged it once more.
Keeps(p) ==
  /\ \A l \in opening[p].netted : l \in OpenUnretained(p) \/ l \in misflagged
  /\ opening[p].pc \in {"insert", "done"} =>
       \A l \in opening[p].filled :
         (opening[p].pc = "insert" /\ l \in opening[p].work) \/
         (l \in OpenUnretained(p) /\ leg[l].hops = 0)

HedgeInv == faults = 0 => ListsOK /\ \A p \in Positions : Quiet(p) => Keeps(p)

\* A position has no leg open and unflagged but those on the lists of the
\* handlers that end it.
Released(p) ==
  /\ \A h \in Handlers : task[h].pos = p /\ task[h].pc # "list" =>
       /\ opening[p].pc = "done"
       /\ task[h].pc = "retain" => OpenUnretained(p) \subseteq task[h].legs
       /\ task[h].pc # "retain" => OpenUnretained(p) = {}
  /\ Ended(p) => opening[p].pc \in {"done", "failed"}
  /\ Ended(p) /\ opening[p].pc = "done" => OpenUnretained(p) = {}

\* So it is for a position that was fully opened whenever its legs were listed.
ReleaseInv == faults = 0 => \A p \in Positions \ raced : Released(p)

\* The payout of a direction is about to be written or written.
PaidInv ==
  faults = 0 =>
    \A p \in Positions :
      position[p].direction # "none" =>
        \/ \E t \in Cycles : task[t].pos = p /\ task[t].pc = "pay"
        \/ \E t \in Cycles : payouts[p][t] = 1

\* All of it: who may bill, pay and end a position, what an opening holds, what
\* becomes of its legs, and who writes the payout of a trigger.
PositionInv == LegsInv /\ HedgeInv /\ ReleaseInv /\ PaidInv
=============================================================================
