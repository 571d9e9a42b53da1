------------------------- MODULE VolumeCoverTables -------------------------
(***************************************************************************)
(* The rows the Volume Cover runtime shares, and the SQL statements of      *)
(* volumeCoverDb.ts that write them.  Every statement is one atomic UPDATE  *)
(* or INSERT, and everything between two statements is an await: the        *)
(* modules that extend this one take one statement per step.                *)
(*                                                                          *)
(* A hedge leg is named by the position it was bought for and its option    *)
(* kind, which is what newHedgeLegId makes unique.  A leg can change owner  *)
(* (ladder netting), never name.                                            *)
(***************************************************************************)
EXTENDS Integers, Sequences, FiniteSets

CONSTANTS
  Positions,   \* ids of the positions a behaviour may open
  MaxHops,     \* ladder maxHopCount: how often one leg may be re-pointed
  MaxFaults    \* bound on failed statements and process restarts

ASSUME MaxHopsAssumption == MaxHops \in Nat
ASSUME MaxFaultsAssumption == MaxFaults \in Nat

Kinds      == {"put", "call"}
Directions == {"high", "low"}
Legs       == Positions \X Kinds

VARIABLES
  position,   \* volume_cover_position: status and triggered_direction
  leg,        \* volume_cover_hedge_leg: status, owner, retained, hop count
  salvage,    \* volume_cover_salvage_event: proceeds of each event, oldest first
  held,       \* option contracts the venue account holds for each leg
  faults      \* failed statements and restarts so far

tables == <<position, leg, salvage, held>>

\* the statuses the code writes; the table's CHECK also knows 'cancelled',
\* and 'expired' and 'failed' for a leg
PositionStatus == {"absent", "active", "triggered", "closed"}
LegStatus      == {"absent", "open", "sold"}

PositionRow == [status : PositionStatus, direction : Directions \cup {"none"}]
LegRow == [status : LegStatus, owner : Positions, retained : BOOLEAN, hops : Nat]

TablesTypeOK ==
  /\ position \in [Positions -> PositionRow]
  /\ leg \in [Legs -> LegRow]
  /\ salvage \in [Positions -> Seq(Nat)]
  /\ held \in [Legs -> Int]
  /\ faults \in Nat

TablesInit ==
  /\ position = [p \in Positions |-> [status |-> "absent", direction |-> "none"]]
  /\ leg = [l \in Legs |-> [status |-> "absent", owner |-> l[1],
                            retained |-> FALSE, hops |-> 0]]
  /\ salvage = [p \in Positions |-> <<>>]
  /\ held = [l \in Legs |-> 0]
  /\ faults = 0

\* A statement throws, or the process restarts.
Fault == faults < MaxFaults /\ faults' = faults + 1
NoFault == UNCHANGED faults

-----------------------------------------------------------------------------
(* SELECTs.                                                                *)

\* listActivePositions
ActivePositions == {p \in Positions : position[p].status = "active"}

\* listHedgeLegsForPosition, then the filter both lifecycle handlers apply
OpenUnretained(p) ==
  {l \in Legs : leg[l].owner = p /\ leg[l].status = "open" /\ ~leg[l].retained}

\* Mutant: the status clause is missing.
RetainedLegsAnyStatus == {l \in Legs : leg[l].retained}

\* listRetainedHedgeLegs
RetainedLegs == {l \in Legs : leg[l].retained /\ leg[l].status = "open"}

-----------------------------------------------------------------------------
(* INSERTs and UPDATEs.  The WHERE clause of each is its condition; a       *)
(* statement whose clause no row meets changes nothing and does not fail.   *)

InsertPosition(p) ==
  position' = [position EXCEPT ![p].status = "active"]

\* Mutant: the WHERE clause names the id only.
MarkPositionTriggeredAnyStatus(p, d) ==
  position' = [position EXCEPT ![p] = [status |-> "triggered", direction |-> d]]

MarkPositionTriggered(p, d) ==
  position' = IF position[p].status = "active"
              THEN [position EXCEPT ![p] = [status |-> "triggered", direction |-> d]]
              ELSE position

\* WHERE id = $1 only: a triggered position is overwritten
MarkPositionClosed(p) ==
  position' = [position EXCEPT ![p].status = "closed"]

InsertHedgeLeg(l) ==
  leg' = [leg EXCEPT ![l].status = "open"]

MarkHedgeLegRetained(l) ==
  leg' = IF leg[l].status = "open"
         THEN [leg EXCEPT ![l].retained = TRUE]
         ELSE leg

\* Mutant: the WHERE clause trusts the list the caller read.
CanRepurposeOpen(l) == leg[l].status = "open"

CanRepurpose(l) ==
  leg[l].retained /\ leg[l].status = "open" /\ leg[l].hops < MaxHops

RepurposeHedgeLeg(l, p) ==
  leg' = IF CanRepurpose(l)
         THEN [leg EXCEPT ![l] = [leg[l] EXCEPT !.owner = p, !.retained = FALSE,
                                                !.hops = @ + 1]]
         ELSE leg

\* WHERE id = $1 only: neither the status nor the retention is looked at
MarkHedgeLegSold(l) ==
  leg' = [leg EXCEPT ![l].status = "sold"]

InsertSalvageEvent(p) ==
  salvage' = [salvage EXCEPT ![p] = Append(@, 0)]
=============================================================================
