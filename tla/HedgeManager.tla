---------------------------- MODULE HedgeManager ----------------------------
(***************************************************************************)
(* volumeCoverHedgeManager.ts: a tick lists the retained legs, decides leg  *)
(* by leg from that list, and sells.  As with the detector, a tick starts   *)
(* every 60 s whether or not the last one ended, and on demand from an      *)
(* admin route: Managers is how many may be under way.                      *)
(*                                                                          *)
(* Which take-profit rule fires is data here: a leg of the list is sold or  *)
(* kept.                                                                    *)
(***************************************************************************)
EXTENDS VolumeCoverTables, Functions

CONSTANT Managers

\* A tick starts every minute, so finitely many are under way.
ASSUME ManagersAssumption == IsFiniteSet(Managers)

VARIABLES
  tick,       \* local state of runOneHedgeManagerTick
  sellRows,   \* hedge_sell_in ledger rows of a leg, by the tick that wrote them
  soldFor     \* history: venue sales made on behalf of a position

managerVars == <<tick, sellRows, soldFor>>

TickPc == {"idle", "loop", "sold", "book", "find", "final"}

\* What a tick keeps of a leg row: its id and the position it belonged to.
Snapshot == [leg : Legs, pos : Positions]

ManagerTypeOK ==
  /\ tick \in [Managers -> [pc   : TickPc,
                            todo : SUBSET Snapshot,
                            cur  : Snapshot \cup {<<>>},
                            row  : Nat,
                            seen : Nat]]
  /\ sellRows \in [Legs -> [Managers -> Nat]]
  /\ soldFor \in [Positions -> Nat]

IdleTick == [pc |-> "idle", todo |-> {}, cur |-> <<>>, row |-> 0, seen |-> 0]

ManagerInit ==
  /\ tick = [m \in Managers |-> IdleTick]
  /\ sellRows = [l \in Legs |-> [m \in Managers |-> 0]]
  /\ soldFor = [p \in Positions |-> 0]

NextLeg(t) ==
  IF t.todo = {} THEN IdleTick ELSE [IdleTick EXCEPT !.pc = "loop", !.todo = t.todo]

StartTick(m) ==
  /\ tick[m].pc = "idle"
  /\ RetainedLegs # {}
  /\ tick' = [tick EXCEPT ![m].pc = "loop",
                          ![m].todo = {[leg |-> l, pos |-> leg[l].owner] : l \in RetainedLegs}]
  /\ NoFault
  /\ UNCHANGED <<tables, sellRows, soldFor>>

\* No rule fires, a rule holds or defers or re-labels the leg, the manager is
\* in dry run, or the venue rejects the sale: the row stays as it is.
KeepLeg(m) ==
  /\ tick[m].pc = "loop"
  /\ \E s \in tick[m].todo :
       tick' = [tick EXCEPT ![m] = NextLeg([tick[m] EXCEPT !.todo = @ \ {s}])]
  /\ NoFault
  /\ UNCHANGED <<tables, sellRows, soldFor>>

\* Mutant: the row is never marked sold.
SellLegUnmarked(m) ==
  /\ tick[m].pc = "loop"
  /\ \E s \in tick[m].todo :
       /\ tick' = [tick EXCEPT ![m].pc = "book", ![m].todo = @ \ {s}, ![m].cur = s]
       /\ held' = [held EXCEPT ![s.leg] = @ - 1]
       /\ soldFor' = [soldFor EXCEPT ![s.pos] = @ + 1]
  /\ NoFault
  /\ UNCHANGED <<position, leg, salvage, sellRows>>

\* A rule fires on the listed row and the venue fills the sale.
SellLeg(m) ==
  /\ tick[m].pc = "loop"
  /\ \E s \in tick[m].todo :
       /\ tick' = [tick EXCEPT ![m].pc = "sold", ![m].todo = @ \ {s}, ![m].cur = s]
       /\ held' = [held EXCEPT ![s.leg] = @ - 1]
       /\ soldFor' = [soldFor EXCEPT ![s.pos] = @ + 1]
  /\ NoFault
  /\ UNCHANGED <<position, leg, salvage, sellRows>>

\* Mutant: a failed UPDATE is logged and the sale booked all the same.
MarkSoldBestEffort(m) ==
  /\ tick[m].pc = "sold"
  /\ \/ MarkHedgeLegSold(tick[m].cur.leg) /\ NoFault
     \/ UNCHANGED leg /\ Fault
  /\ tick' = [tick EXCEPT ![m].pc = "book"]
  /\ UNCHANGED <<position, salvage, held, sellRows, soldFor>>

\* If the UPDATE throws, the tick logs a failed sale and takes the next leg.
MarkSold(m) ==
  /\ tick[m].pc = "sold"
  /\ \/ /\ MarkHedgeLegSold(tick[m].cur.leg)
        /\ tick' = [tick EXCEPT ![m].pc = "book"]
        /\ NoFault
     \/ /\ tick' = [tick EXCEPT ![m] = NextLeg(@)]
        /\ UNCHANGED leg
        /\ Fault
  /\ UNCHANGED <<position, salvage, held, sellRows, soldFor>>

\* hedge_sell_in, best effort.
BookSale(m) ==
  /\ tick[m].pc = "book"
  /\ tick' = [tick EXCEPT ![m].pc = "find"]
  /\ \/ sellRows' = [sellRows EXCEPT ![tick[m].cur.leg][m] = @ + 1] /\ NoFault
     \/ UNCHANGED sellRows /\ Fault
  /\ UNCHANGED <<tables, soldFor>>

\* finalizeSalvageProceedsForPosition reads the latest event of the position
\* the row named, best effort; a position that never triggered has none.
FindSalvage(m) ==
  LET events == salvage[tick[m].cur.pos] IN
  /\ tick[m].pc = "find"
  /\ \/ /\ tick' = [tick EXCEPT ![m] =
             IF events = <<>> THEN NextLeg(@)
             ELSE [@ EXCEPT !.pc = "final", !.row = Len(events),
                            !.seen = events[Len(events)]]]
        /\ NoFault
     \/ /\ tick' = [tick EXCEPT ![m] = NextLeg(@)]
        /\ Fault
  /\ UNCHANGED <<tables, sellRows, soldFor>>

\* Mutant: an UPDATE whose answer is lost is tried again.
FinalizeSalvageRetried(m) ==
  LET t == tick[m] IN
  /\ t.pc = "final"
  /\ salvage' = [salvage EXCEPT ![t.cur.pos][t.row] = t.seen + 1]
  /\ \/ tick' = [tick EXCEPT ![m] = NextLeg(@)] /\ NoFault
     \/ tick' = [tick EXCEPT ![m].pc = "find"] /\ Fault
  /\ UNCHANGED <<position, leg, held, sellRows, soldFor>>

\* ... and then writes the sum it computed.
FinalizeSalvage(m) ==
  LET t == tick[m] IN
  /\ t.pc = "final"
  /\ tick' = [tick EXCEPT ![m] = NextLeg(@)]
  /\ \/ salvage' = [salvage EXCEPT ![t.cur.pos][t.row] = t.seen + 1] /\ NoFault
     \/ UNCHANGED salvage /\ Fault
  /\ UNCHANGED <<position, leg, held, sellRows, soldFor>>

ManagerStep(m) ==
  \/ StartTick(m)
  \/ KeepLeg(m)
  \/ SellLeg(m)
  \/ MarkSold(m)
  \/ BookSale(m)
  \/ FindSalvage(m)
  \/ FinalizeSalvage(m)

\* A restart forgets every tick under way.
ManagerRestart ==
  /\ tick' = [m \in Managers |-> IdleTick]
  /\ UNCHANGED <<sellRows, soldFor>>

-----------------------------------------------------------------------------
(* Properties.                                                             *)

\* One loop of the manager books at most one hedge_sell_in row per leg, with
\* failures and restarts: a row is booked only behind the 'sold' status.
BookedOncePerTick ==
  \A l \in Legs, m \in Managers : sellRows[l][m] <= 1

\* The salvage proceeds Guards A and B read never exceed the sales made for
\* the position.
SalvageBacked ==
  \A p \in Positions : FoldFunction(+, 0, salvage[p]) <= soldFor[p]

\* Both: the manager's variables are what they are declared to be, and what
\* its ticks booked as salvage was sold.
ManagerInv == ManagerTypeOK /\ SalvageBacked

\* Short of a failed statement, a row that says open stands for a contract the
\* venue account still holds, except between a sale and the UPDATE behind it,
\* also while legs are re-pointed under a tick and when two ticks overlap.
OpenRowIsHeld ==
  faults = 0 =>
    \A l \in Legs :
      (leg[l].status = "open" /\ held[l] <= 0) =>
        \E m \in Managers : tick[m].pc = "sold" /\ tick[m].cur.leg = l

\* The ticks that sold a leg and booked it, or are about to.
Sellers(l) ==
  {m \in Managers : \/ sellRows[l][m] > 0
                    \/ tick[m].pc \in {"sold", "book"} /\ tick[m].cur.leg = l}

\* Short of a failed statement, the account sells a contract it does not hold
\* only when two loops of the manager overlapped on it: one loop sells no leg
\* twice, whatever netting does to the leg after it was listed.
ShortOnlyByOverlap ==
  faults = 0 => \A l \in Legs : held[l] < 0 => Cardinality(Sellers(l)) > 1
=============================================================================
