------------------------- MODULE PositionLifecycle -------------------------
(***************************************************************************)
(* positionLifecycle.ts with the two callers that drive it: the trigger     *)
(* detector's poll loop and the close route.  Handlers run in one Node      *)
(* process and interleave at every await.                                   *)
(*                                                                          *)
(*   opening[p]  the /activate request that opens position p                *)
(*   task[h]     a detector cycle (h \in Cycles) or a close request         *)
(*               (h \in Closers)                                            *)
(*                                                                          *)
(* The detector starts a cycle every 3 s whether or not the last one ended  *)
(* (setTimeout + void tick()), and an admin route starts one on demand, so  *)
(* several cycles may be under way: Cycles is how many.                     *)
(***************************************************************************)
EXTENDS VolumeCoverTables

CONSTANTS
  Cycles,      \* detector cycles that may be under way at once
  Closers      \* close requests that may be under way at once

ASSUME HandlersAssumption == Cycles \cap Closers = {}

\* the pos of a handler that works on no position
NoPosition == "none"

ASSUME PositionsAssumption == NoPosition \notin Positions

VARIABLES
  opening,    \* local state of openPosition, one per position
  task,       \* local state of fireTrigger and closePosition, one per handler
  payouts,    \* payout_out ledger rows of a position, by the cycle that wrote them
  premiums,   \* premium_in ledger rows of a position, by the handler that wrote them
  bought,     \* legs the hedge_buy_out ledger row of a position accounts for
  orphans,    \* venue legs reported with [VC ALERT] ... orphan venue leg
  raced,      \* history: positions whose legs were listed while still opening
  misflagged  \* history: legs flagged by a handler that listed them for another
              \* position than the one they protect by then

handlerVars == <<opening, task, raced, misflagged>>
ledgerVars  == <<payouts, premiums, bought>>
lifecycleVars == <<handlerVars, ledgerVars, orphans>>
vars == <<tables, faults, lifecycleVars>>

Handlers == Cycles \cup Closers

OpeningPc == {"none", "list", "net", "buy", "insert", "unwind",
              "done", "failed"}
TaskPc == {"idle", "loop", "list", "retain", "mark", "pay", "premium"}

IdleTask == [pc |-> "idle", todo |-> {}, pos |-> NoPosition, dir |-> "none", legs |-> {}]

\* What openPosition holds across its awaits: the kinds still to net, the
\* kinds to buy, the retained legs it listed, the legs it took over, the legs
\* it bought, and those among the latter it still has to insert or sell back.
OpeningState == [pc     : OpeningPc,
                 kinds  : SUBSET Kinds,
                 buy    : SUBSET Kinds,
                 cand   : SUBSET Legs,
                 netted : SUBSET Legs,
                 filled : SUBSET Legs,
                 work   : SUBSET Legs]

\* What a handler holds: the touched positions it has still to fire, the one
\* it works on, the direction it fires, and the legs it has still to flag.
TaskState == [pc   : TaskPc,
              todo : SUBSET Positions,
              pos  : Positions \cup {NoPosition},
              dir  : Directions \cup {"none"},
              legs : SUBSET Legs]

TypeOK ==
  /\ TablesTypeOK
  /\ opening \in [Positions -> OpeningState]
  /\ task \in [Handlers -> TaskState]
  /\ payouts \in [Positions -> [Cycles -> Nat]]
  /\ premiums \in [Positions -> [Handlers -> Nat]]
  /\ bought \in [Positions -> SUBSET Legs]
  /\ orphans \subseteq Legs
  /\ raced \subseteq Positions
  /\ misflagged \subseteq Legs

Init ==
  /\ TablesInit
  /\ opening = [p \in Positions |-> [pc |-> "none", kinds |-> {}, buy |-> {},
                                     cand |-> {}, netted |-> {}, filled |-> {}, work |-> {}]]
  /\ task = [h \in Handlers |-> IdleTask]
  /\ payouts = [p \in Positions |-> [t \in Cycles |-> 0]]
  /\ premiums = [p \in Positions |-> [h \in Handlers |-> 0]]
  /\ bought = [p \in Positions |-> {}]
  /\ orphans = {}
  /\ raced = {}
  /\ misflagged = {}

SetOpening(p, o) == opening' = [opening EXCEPT ![p] = o]
SetTask(h, s)    == task' = [task EXCEPT ![h] = s]

\* insertLedgerEntry, for position p by handler h
AddRow(rows, p, h) == [rows EXCEPT ![p][h] = @ + 1]

\* structure.legs lists the put before the call
FirstKind(ks) == IF "put" \in ks THEN "put" ELSE "call"

-----------------------------------------------------------------------------
(* openPosition.  The row is 'active', and so visible to the detector and   *)
(* to the close route, from the first statement on.                         *)

OpenPosition(p) ==
  /\ opening[p].pc = "none"
  /\ InsertPosition(p)
  /\ SetOpening(p, [opening[p] EXCEPT !.pc = "list"])
  /\ NoFault
  /\ UNCHANGED <<leg, salvage, held, task, raced, misflagged, ledgerVars, orphans>>

\* attemptLadderNetting reads the retained legs of this fingerprint and cell.
ListCandidates(p) ==
  /\ opening[p].pc = "list"
  /\ SetOpening(p, [opening[p] EXCEPT !.pc = "net", !.kinds = Kinds,
                                !.cand = {l \in RetainedLegs : leg[l].hops < MaxHops}])
  /\ NoFault
  /\ UNCHANGED <<tables, task, raced, misflagged, ledgerVars, orphans>>

\* Mutant: the claim's empty result is taken for a success.
ClaimLegUnchecked(p) ==
  LET k == FirstKind(opening[p].kinds) IN
  /\ opening[p].pc = "net"
  /\ opening[p].kinds # {}
  /\ \E l \in opening[p].cand :
       /\ l[2] = k
       /\ RepurposeHedgeLeg(l, p)
       /\ SetOpening(p, [opening[p] EXCEPT !.kinds = @ \ {k}, !.netted = @ \cup {l}])
  /\ NoFault
  /\ UNCHANGED <<position, salvage, held, task, raced, misflagged, ledgerVars, orphans>>

\* One turn of the netting loop: claim a listed leg of the wanted kind.  The
\* claim may meet no row any more; then the kind is bought.
ClaimLeg(p) ==
  LET k == FirstKind(opening[p].kinds) IN
  /\ opening[p].pc = "net"
  /\ opening[p].kinds # {}
  /\ \E l \in opening[p].cand :
       /\ l[2] = k
       /\ RepurposeHedgeLeg(l, p)
       /\ SetOpening(p, [opening[p] EXCEPT !.kinds = @ \ {k},
            !.netted = IF CanRepurpose(l) THEN @ \cup {l} ELSE @,
            !.buy    = IF CanRepurpose(l) THEN @ ELSE @ \cup {k}])
  /\ NoFault
  /\ UNCHANGED <<position, salvage, held, task, raced, misflagged, ledgerVars, orphans>>

\* No listed leg is of this kind, recent, large and near enough.
NoCandidate(p) ==
  LET k == FirstKind(opening[p].kinds) IN
  /\ opening[p].pc = "net"
  /\ opening[p].kinds # {}
  /\ SetOpening(p, [opening[p] EXCEPT !.kinds = @ \ {k}, !.buy = @ \cup {k}])
  /\ NoFault
  /\ UNCHANGED <<tables, task, raced, misflagged, ledgerVars, orphans>>

\* What follows the purchases: the rows of the legs filled.
ToInsert(o) == IF o.buy = {} THEN [o EXCEPT !.pc = "insert", !.work = o.filled] ELSE o

\* The loop is over; the audit row is inserted when a leg was re-pointed.
EndNetting(p) ==
  /\ opening[p].pc = "net"
  /\ opening[p].kinds = {}
  /\ SetOpening(p, ToInsert([opening[p] EXCEPT !.pc = "buy", !.cand = {}]))
  /\ NoFault
  /\ UNCHANGED <<tables, task, raced, misflagged, ledgerVars, orphans>>

\* A statement of attemptLadderNetting throws.  Nothing in openPosition
\* catches it: the request fails and the position stays active.
NettingThrows(p) ==
  /\ \/ opening[p].pc = "list"
     \/ /\ opening[p].pc = "net"
        /\ \/ opening[p].kinds = {} /\ opening[p].netted # {}
           \/ \E l \in opening[p].cand :
                opening[p].kinds # {} /\ l[2] = FirstKind(opening[p].kinds)
  /\ SetOpening(p, [opening[p] EXCEPT !.pc = "failed", !.cand = {}])
  /\ Fault
  /\ UNCHANGED <<tables, task, raced, misflagged, ledgerVars, orphans>>

\* executeHedgeStructure, one leg: filled at the primary or the fallback venue.
BuyLeg(p) ==
  LET k == FirstKind(opening[p].buy) IN
  /\ opening[p].pc = "buy"
  /\ opening[p].buy # {}
  /\ held' = [held EXCEPT ![<<p, k>>] = @ + 1]
  /\ SetOpening(p, ToInsert([opening[p] EXCEPT !.buy = @ \ {k}, !.filled = @ \cup {<<p, k>>}]))
  /\ NoFault
  /\ UNCHANGED <<position, leg, salvage, task, raced, misflagged, ledgerVars, orphans>>

\* Mutant: the legs filled before are not sold back.
LegRejectedNoRollback(p) ==
  /\ opening[p].pc = "buy"
  /\ SetOpening(p, [opening[p] EXCEPT !.pc = "unwind", !.work = {}])
  /\ NoFault
  /\ UNCHANGED <<tables, task, raced, misflagged, ledgerVars, orphans>>

\* Neither venue fills the leg: what was filled is sold back.
LegRejected(p) ==
  /\ opening[p].pc = "buy"
  /\ SetOpening(p, [opening[p] EXCEPT !.pc = "unwind", !.work = opening[p].filled])
  /\ NoFault
  /\ UNCHANGED <<tables, task, raced, misflagged, ledgerVars, orphans>>

InsertLegRow(p) ==
  /\ opening[p].pc = "insert"
  /\ \E l \in opening[p].work :
       /\ InsertHedgeLeg(l)
       /\ SetOpening(p, [opening[p] EXCEPT !.work = @ \ {l}])
  /\ NoFault
  /\ UNCHANGED <<position, salvage, held, task, raced, misflagged, ledgerVars, orphans>>

\* insertHedgeLeg throws: every leg this request bought is sold back, those
\* whose row is already in the table included.
InsertLegFails(p) ==
  /\ opening[p].pc = "insert"
  /\ opening[p].work # {}
  /\ SetOpening(p, [opening[p] EXCEPT !.pc = "unwind", !.work = opening[p].filled])
  /\ Fault
  /\ UNCHANGED <<tables, task, raced, misflagged, ledgerVars, orphans>>

\* One compensating sell; a rejected one is alerted as an orphan.
UnwindLeg(p) ==
  /\ opening[p].pc = "unwind"
  /\ \E l \in opening[p].work :
       /\ SetOpening(p, [opening[p] EXCEPT !.work = @ \ {l}])
       /\ \/ held' = [held EXCEPT ![l] = @ - 1] /\ UNCHANGED orphans
          \/ orphans' = orphans \cup {l} /\ UNCHANGED held
  /\ NoFault
  /\ UNCHANGED <<position, leg, salvage, task, raced, misflagged, ledgerVars>>

\* The failed position is closed, unless that statement fails too.
CloseFailedOpening(p) ==
  /\ opening[p].pc = "unwind"
  /\ opening[p].work = {}
  /\ SetOpening(p, [opening[p] EXCEPT !.pc = "failed"])
  /\ \/ MarkPositionClosed(p) /\ NoFault
     \/ UNCHANGED position /\ Fault
  /\ UNCHANGED <<leg, salvage, held, task, raced, misflagged, ledgerVars, orphans>>

\* hedge_buy_out, best effort.
BookHedgeBuy(p) ==
  /\ opening[p].pc = "insert"
  /\ opening[p].work = {}
  /\ SetOpening(p, [opening[p] EXCEPT !.pc = "done"])
  /\ \/ bought' = [bought EXCEPT ![p] = opening[p].filled] /\ NoFault
     \/ UNCHANGED bought /\ Fault
  /\ UNCHANGED <<tables, task, raced, misflagged, payouts, premiums, orphans>>

OpenStep(p) ==
  \/ OpenPosition(p)
  \/ ListCandidates(p)
  \/ ClaimLeg(p)
  \/ NoCandidate(p)
  \/ EndNetting(p)
  \/ NettingThrows(p)
  \/ BuyLeg(p)
  \/ LegRejected(p)
  \/ InsertLegRow(p)
  \/ InsertLegFails(p)
  \/ UnwindLeg(p)
  \/ CloseFailedOpening(p)
  \/ BookHedgeBuy(p)

-----------------------------------------------------------------------------
(* What fireTrigger and closePosition share: list the position's legs, then *)
(* flag them one by one.                                                    *)

\* A handler turns to position p and reads its legs.
ListLegs(h, p, fields) ==
  /\ SetTask(h, [fields EXCEPT !.pc = "retain", !.pos = p,
                                                !.legs = OpenUnretained(p)])
  /\ raced' = IF opening[p].pc = "done" THEN raced ELSE raced \cup {p}

\* The UPDATE of a flag does not look at the owner: the leg h listed for its
\* position may have been flagged by another handler and re-pointed since.
Misflagged(h, l) ==
  IF leg[l].owner # task[h].pos /\ l \in OpenUnretained(leg[l].owner) THEN {l} ELSE {}

\* Mutant: the loop stops after its first leg.
RetainOneLeg(h) ==
  /\ task[h].pc = "retain"
  /\ \E l \in task[h].legs :
       /\ SetTask(h, [task[h] EXCEPT !.legs = {}])
       /\ MarkHedgeLegRetained(l)
       /\ misflagged' = misflagged \cup Misflagged(h, l)
  /\ NoFault
  /\ UNCHANGED <<position, salvage, held, opening, raced, ledgerVars, orphans>>

\* A failed flag is logged and skipped.
RetainLeg(h) ==
  /\ task[h].pc = "retain"
  /\ \E l \in task[h].legs :
       /\ SetTask(h, [task[h] EXCEPT !.legs = @ \ {l}])
       /\ \/ /\ MarkHedgeLegRetained(l)
             /\ misflagged' = misflagged \cup Misflagged(h, l)
             /\ NoFault
          \/ UNCHANGED <<leg, misflagged>> /\ Fault
  /\ UNCHANGED <<position, salvage, held, opening, raced, ledgerVars, orphans>>

\* Where a handler goes after its position: a cycle takes the next one.
Finished(t) ==
  IF t.todo = {} THEN IdleTask ELSE [IdleTask EXCEPT !.pc = "loop", !.todo = t.todo]

\* premium_in, best effort: the last statement of both handlers.
AccruePremium(h) ==
  /\ task[h].pc = "premium"
  /\ SetTask(h, Finished(task[h]))
  /\ \/ premiums' = AddRow(premiums, task[h].pos, h) /\ NoFault
     \/ UNCHANGED premiums /\ Fault
  /\ UNCHANGED <<tables, opening, raced, misflagged, payouts, bought, orphans>>

-----------------------------------------------------------------------------
(* The detector.  A cycle reads the spot once, then the active positions,   *)
(* and fires each one the spot touches from that snapshot.                  *)

StartCycle(t) ==
  /\ task[t].pc = "idle"
  /\ \E touched \in SUBSET ActivePositions \ {{}} :
       SetTask(t, [task[t] EXCEPT !.pc = "loop", !.todo = touched])
  /\ NoFault
  /\ UNCHANGED <<tables, opening, raced, misflagged, ledgerVars, orphans>>

FireTrigger(t) ==
  /\ task[t].pc = "loop"
  /\ \E p \in task[t].todo, d \in Directions :
       ListLegs(t, p, [task[t] EXCEPT !.dir = d, !.todo = @ \ {p}])
  /\ NoFault
  /\ UNCHANGED <<tables, opening, misflagged, ledgerVars, orphans>>

RecordTriggerEvent(t) ==
  /\ task[t].pc = "retain"
  /\ task[t].legs = {}
  /\ InsertSalvageEvent(task[t].pos)
  /\ SetTask(t, [task[t] EXCEPT !.pc = "mark"])
  /\ NoFault
  /\ UNCHANGED <<position, leg, held, opening, raced, misflagged, ledgerVars, orphans>>

\* Mutant: a failed UPDATE is logged and the payout booked all the same.
MarkTriggeredBestEffort(t) ==
  /\ task[t].pc = "mark"
  /\ \/ MarkPositionTriggered(task[t].pos, task[t].dir) /\ NoFault
     \/ UNCHANGED position /\ Fault
  /\ SetTask(t, [task[t] EXCEPT !.pc = "pay"])
  /\ UNCHANGED <<leg, salvage, held, opening, raced, misflagged, ledgerVars, orphans>>

\* The result of the UPDATE is not looked at.
MarkTriggered(t) ==
  /\ task[t].pc = "mark"
  /\ MarkPositionTriggered(task[t].pos, task[t].dir)
  /\ SetTask(t, [task[t] EXCEPT !.pc = "pay"])
  /\ NoFault
  /\ UNCHANGED <<leg, salvage, held, opening, raced, misflagged, ledgerVars, orphans>>

\* Listing the legs, recordTriggerEvent or markPositionTriggered throws: the
\* cycle logs it and takes the next position.
FireThrows(t) ==
  /\ \/ /\ task[t].pc = "loop"
        /\ \E p \in task[t].todo :
             SetTask(t, Finished([task[t] EXCEPT !.todo = @ \ {p}]))
     \/ /\ task[t].pc = "mark" \/ (task[t].pc = "retain" /\ task[t].legs = {})
        /\ SetTask(t, Finished(task[t]))
  /\ Fault
  /\ UNCHANGED <<tables, opening, raced, misflagged, ledgerVars, orphans>>

\* Mutant: the payout is skipped when the row is no longer 'triggered'.
PayOutIfTriggered(t) ==
  /\ task[t].pc = "pay"
  /\ SetTask(t, [task[t] EXCEPT !.pc = "premium"])
  /\ payouts' = IF position[task[t].pos].status = "triggered"
                THEN AddRow(payouts, task[t].pos, t) ELSE payouts
  /\ NoFault
  /\ UNCHANGED <<tables, opening, raced, misflagged, premiums, bought, orphans>>

\* payout_out, best effort.
PayOut(t) ==
  /\ task[t].pc = "pay"
  /\ SetTask(t, [task[t] EXCEPT !.pc = "premium"])
  /\ \/ payouts' = AddRow(payouts, task[t].pos, t) /\ NoFault
     \/ UNCHANGED payouts /\ Fault
  /\ UNCHANGED <<tables, opening, raced, misflagged, premiums, bought, orphans>>

CycleStep(t) ==
  \/ StartCycle(t)
  \/ FireTrigger(t)
  \/ RecordTriggerEvent(t)
  \/ MarkTriggered(t)
  \/ FireThrows(t)
  \/ PayOut(t)

-----------------------------------------------------------------------------
(* The close routes (Foxify and admin): read the row, refuse unless active, *)
(* then closePosition.                                                      *)

RequestClose(c) ==
  /\ task[c].pc = "idle"
  /\ \E p \in ActivePositions :
       SetTask(c, [task[c] EXCEPT !.pc = "list", !.pos = p])
  /\ NoFault
  /\ UNCHANGED <<tables, opening, raced, misflagged, ledgerVars, orphans>>

ListLegsToClose(c) ==
  /\ task[c].pc = "list"
  /\ ListLegs(c, task[c].pos, task[c])
  /\ NoFault
  /\ UNCHANGED <<tables, opening, misflagged, ledgerVars, orphans>>

\* The SELECT throws: the request fails and nothing has changed.
CloseThrows(c) ==
  /\ task[c].pc = "list"
  /\ SetTask(c, IdleTask)
  /\ Fault
  /\ UNCHANGED <<tables, opening, raced, misflagged, ledgerVars, orphans>>

\* Mutant: a failed UPDATE is logged and the premium booked all the same.
MarkClosedBestEffort(c) ==
  /\ task[c].pc = "retain"
  /\ task[c].legs = {}
  /\ \/ MarkPositionClosed(task[c].pos) /\ NoFault
     \/ UNCHANGED position /\ Fault
  /\ SetTask(c, [task[c] EXCEPT !.pc = "premium"])
  /\ UNCHANGED <<leg, salvage, held, opening, raced, misflagged, ledgerVars, orphans>>

\* If the UPDATE throws, so does closePosition.
MarkClosed(c) ==
  /\ task[c].pc = "retain"
  /\ task[c].legs = {}
  /\ \/ /\ MarkPositionClosed(task[c].pos)
        /\ SetTask(c, [task[c] EXCEPT !.pc = "premium"])
        /\ NoFault
     \/ /\ SetTask(c, IdleTask)
        /\ UNCHANGED position
        /\ Fault
  /\ UNCHANGED <<leg, salvage, held, opening, raced, misflagged, ledgerVars, orphans>>

CloseStep(c) ==
  \/ RequestClose(c)
  \/ ListLegsToClose(c)
  \/ CloseThrows(c)
  \/ MarkClosed(c)

-----------------------------------------------------------------------------
\* The process restarts: every handler is gone, the rows and the venue stay.
Restart ==
  /\ task' = [h \in Handlers |-> IdleTask]
  /\ opening' = [p \in Positions |->
       IF opening[p].pc \in {"none", "done", "failed"} THEN opening[p]
       ELSE [opening[p] EXCEPT !.pc = "failed", !.cand = {}, !.work = {}]]
  /\ Fault
  /\ UNCHANGED <<tables, raced, misflagged, ledgerVars, orphans>>

LifecycleStep ==
  \/ \E p \in Positions : OpenStep(p)
  \/ \E h \in Handlers : RetainLeg(h) \/ AccruePremium(h)
  \/ \E t \in Cycles : CycleStep(t)
  \/ \E c \in Closers : CloseStep(c)

Next == LifecycleStep \/ Restart

Spec == Init /\ [][Next]_vars

-----------------------------------------------------------------------------
(* Properties.                                                             *)

\* No handler is working on p (it may still hold p in a list it read).
NoHandlerOn(p) == \A h \in Handlers : task[h].pos # p

\* One loop of the detector, and one close request slot, writes at most one
\* payout_out and one premium_in row for a position in its whole life, however
\* its cycles interleave with other cycles, closes, failures and restarts: a
\* cycle that overlaps no other one pays a position at most once.
OncePerHandler ==
  \A p \in Positions :
    /\ \A t \in Cycles : payouts[p][t] <= 1
    /\ \A h \in Handlers : premiums[p][h] <= 1

\* A position with a payout or a premium on the ledger is not active any more,
\* so no later detector cycle and no later close request can select it.
BilledIsTerminal ==
  \A p \in Positions :
    (\/ \E t \in Cycles : payouts[p][t] > 0
     \/ \E h \in Handlers : premiums[p][h] > 0) => position[p].status # "active"

\* Short of a failed statement, a position that was ever marked triggered has
\* its payout_out row once the cycle that fired it has moved on, even when a
\* close overwrote the status in between.
TriggeredIsPaid ==
  faults = 0 =>
    \A p \in Positions :
      (/\ position[p].direction # "none"
       /\ \A t \in Cycles : ~(task[t].pos = p /\ task[t].pc = "pay"))
      => \E t \in Cycles : payouts[p][t] = 1

\* The direction a position triggered in is never rewritten, whatever
\* direction an overlapping cycle saw.
DirectionFixed ==
  [][\A p \in Positions :
       position[p].direction # "none" =>
         position'[p].direction = position[p].direction]_position

\* Short of a failed statement, ending a position that was fully opened leaves
\* no open leg of it unflagged: the hedge manager sees every one of them.
\* (A leg inserted after the handler listed the legs is missed: raced.)
LegsReleased ==
  faults = 0 =>
    \A p \in Positions \ raced :
      (/\ opening[p].pc = "done"
       /\ position[p].status \in {"triggered", "closed"}
       /\ NoHandlerOn(p))
      => OpenUnretained(p) = {}

\* A contract the venue account holds without a leg row belongs to an opening
\* under way, or was alerted as an orphan, or a failure is on record.
VenueLegAccounted ==
  \A l \in Legs :
    (held[l] > 0 /\ leg[l].status = "absent") =>
      \/ opening[l[1]].pc \in {"buy", "insert", "unwind"}
      \/ l \in orphans
      \/ faults > 0

\* The hop count of a leg is the number of openings that took it over, and
\* stays within the cap, although openings claim from lists read earlier.
HopsCountClaims ==
  \A l \in Legs :
    /\ leg[l].hops = Cardinality({p \in Positions : l \in opening[p].netted})
    /\ leg[l].hops <= MaxHops

\* Short of a failed statement, a position whose opening succeeded and that no
\* handler is ending owns an open, unflagged and held leg of each kind, bought
\* or taken over; the one exception is a leg it took over and that a second
\* handler of the position it came from flagged once more.
ActiveIsHedged ==
  faults = 0 =>
    \A p \in ActivePositions :
      (opening[p].pc = "done" /\ NoHandlerOn(p)) =>
        \A k \in Kinds :
          \/ \E l \in OpenUnretained(p) : l[2] = k /\ held[l] > 0
          \/ \E l \in opening[p].netted \cap misflagged : l[2] = k
=============================================================================
