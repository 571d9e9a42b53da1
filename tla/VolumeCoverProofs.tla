------------------------- MODULE VolumeCoverProofs -------------------------
(***************************************************************************)
(* Proofs about the Volume Cover runtime, for any number of positions,      *)
(* detector cycles, close requests, hedge manager ticks, hops and failures: *)
(* first about PositionLifecycle on its own (Spec), then about it and       *)
(* HedgeManager over the same rows (RuntimeSpec).                           *)
(***************************************************************************)
EXTENDS PositionLifecycleInvariant, VolumeCover, SumTheorems, SequenceTheorems, TLAPS

-----------------------------------------------------------------------------
(* Type correctness.                                                       *)

\* The empty tables are well typed.
LEMMA InitTypeOK == Init => TypeOK
<1> SUFFICES ASSUME Init PROVE TypeOK
  OBVIOUS
<1>1. TablesTypeOK
  BY DEF Init, TablesInit, TablesTypeOK, PositionRow, LegRow, PositionStatus,
         LegStatus, Legs, Kinds, Directions
<1>2. opening \in [Positions -> OpeningState]
  BY DEF Init, OpeningState, OpeningPc
<1>3. task \in [Handlers -> TaskState]
  BY DEF Init, TaskState, TaskPc, IdleTask
<1> QED
  BY <1>1, <1>2, <1>3 DEF Init, TypeOK

\* The statements keep the tables well typed.
LEMMA PositionStatements ==
  ASSUME TablesTypeOK, NEW p \in Positions
  PROVE  /\ InsertPosition(p) => position' \in [Positions -> PositionRow]
         /\ \A d \in Directions \cup {"none"} :
              MarkPositionTriggered(p, d) => position' \in [Positions -> PositionRow]
         /\ MarkPositionClosed(p) => position' \in [Positions -> PositionRow]
         /\ InsertSalvageEvent(p) => salvage' \in [Positions -> Seq(Nat)]
<1>1. InsertPosition(p) => position' \in [Positions -> PositionRow]
  BY DEF InsertPosition, TablesTypeOK, PositionRow, PositionStatus
<1>2. ASSUME NEW d \in Directions \cup {"none"}, MarkPositionTriggered(p, d)
      PROVE  position' \in [Positions -> PositionRow]
  BY <1>2 DEF MarkPositionTriggered, TablesTypeOK, PositionRow, PositionStatus
<1>3. MarkPositionClosed(p) => position' \in [Positions -> PositionRow]
  BY DEF MarkPositionClosed, TablesTypeOK, PositionRow, PositionStatus
<1>4. InsertSalvageEvent(p) => salvage' \in [Positions -> Seq(Nat)]
  BY DEF InsertSalvageEvent, TablesTypeOK
<1> QED
  BY <1>1, <1>2, <1>3, <1>4

\* The UPDATEs of a leg keep it well typed.
LEMMA LegStatements ==
  ASSUME TablesTypeOK, NEW l \in Legs
  PROVE  /\ InsertHedgeLeg(l) => leg' \in [Legs -> LegRow]
         /\ MarkHedgeLegRetained(l) => leg' \in [Legs -> LegRow]
         /\ \A p \in Positions : RepurposeHedgeLeg(l, p) => leg' \in [Legs -> LegRow]
<1>1. InsertHedgeLeg(l) => leg' \in [Legs -> LegRow]
  BY ZenonT(40) DEF InsertHedgeLeg, TablesTypeOK, LegRow, LegStatus
<1>2. MarkHedgeLegRetained(l) => leg' \in [Legs -> LegRow]
  BY ZenonT(40) DEF MarkHedgeLegRetained, TablesTypeOK, LegRow
<1>3. ASSUME NEW p \in Positions, RepurposeHedgeLeg(l, p)
      PROVE  leg' \in [Legs -> LegRow]
  <2>1. leg[l] \in LegRow
    BY DEF TablesTypeOK
  <2>2. leg[l].hops + 1 \in Nat
    BY <2>1 DEF LegRow
  <2>3. ASSUME NEW n \in Nat
        PROVE  [leg[l] EXCEPT !.owner = p, !.retained = FALSE, !.hops = n] \in LegRow
    BY <2>1 DEF LegRow
  <2> QED
    BY <1>3, <2>2, <2>3 DEF RepurposeHedgeLeg, TablesTypeOK
<1> QED
  BY <1>1, <1>2, <1>3

\* ... and the count of failures a number.
LEMMA FaultTypes == faults \in Nat /\ (NoFault \/ Fault) => faults' \in Nat
  BY DEF NoFault, Fault

\* What an opening request can become is well typed.
LEMMA OpeningTypes ==
  ASSUME TypeOK, NEW p \in Positions, NEW o \in OpeningState, SetOpening(p, o)
  PROVE  opening' \in [Positions -> OpeningState]
  BY DEF TypeOK, SetOpening

\* What a close task can become is well typed.
LEMMA TaskTypes ==
  ASSUME TypeOK, NEW h \in Handlers, NEW s \in TaskState, SetTask(h, s)
  PROVE  task' \in [Handlers -> TaskState]
  BY DEF TypeOK, SetTask

\* One more row in a table of counts.
LEMMA AddRowOK ==
  ASSUME NEW S, NEW T, NEW f \in [S -> [T -> Nat]], NEW a \in S, NEW b \in T
  PROVE  /\ AddRow(f, a, b) \in [S -> [T -> Nat]]
         /\ \A x \in S, y \in T :
              AddRow(f, a, b)[x][y] = IF x = a /\ y = b THEN f[x][y] + 1 ELSE f[x][y]
<1>1. f[a] \in [T -> Nat] /\ f[a][b] + 1 \in Nat
  OBVIOUS
<1>2. [f[a] EXCEPT ![b] = f[a][b] + 1] \in [T -> Nat]
  BY <1>1
<1>3. AddRow(f, a, b) = [f EXCEPT ![a] = [f[a] EXCEPT ![b] = f[a][b] + 1]]
  BY DEF AddRow
<1> QED
  BY <1>1, <1>2, <1>3

\* The kind taken next is one of those that are left.
LEMMA FirstKindType == \A ks \in SUBSET Kinds : ks # {} => FirstKind(ks) \in ks
  BY DEF Kinds, FirstKind

\* An opening that goes on to insert is well typed.
LEMMA ToInsertType == \A o \in OpeningState : ToInsert(o) \in OpeningState
  BY DEF ToInsert, OpeningState, OpeningPc

\* The steps of the opening request keep the types.
LEMMA OpenStepTypeOK ==
  ASSUME TypeOK, NEW p \in Positions, OpenStep(p)
  PROVE  TypeOK'
<1> DEFINE o == opening[p]
<1> USE DEF TypeOK
<1>0. /\ TablesTypeOK
      /\ o \in OpeningState
      /\ faults \in Nat
  BY DEF TablesTypeOK
<1>1. CASE OpenPosition(p)
  <2>1. [o EXCEPT !.pc = "list"] \in OpeningState
    BY <1>0 DEF OpeningState, OpeningPc
  <2>2. position' \in [Positions -> PositionRow]
    BY <1>0, <1>1, PositionStatements DEF OpenPosition
  <2> QED
    BY <1>0, <1>1, <2>1, <2>2, OpeningTypes, FaultTypes
    DEF OpenPosition, TablesTypeOK, ledgerVars
<1>2. CASE ListCandidates(p)
  <2>1. [o EXCEPT !.pc = "net", !.kinds = Kinds,
                  !.cand = {l \in RetainedLegs : leg[l].hops < MaxHops}] \in OpeningState
    BY <1>0 DEF OpeningState, OpeningPc, RetainedLegs
  <2> QED
    BY <1>0, <1>2, <2>1, OpeningTypes, FaultTypes
    DEF ListCandidates, TablesTypeOK, tables, ledgerVars
<1>3. CASE ClaimLeg(p)
  <2> DEFINE k == FirstKind(o.kinds)
             n(l) == [o EXCEPT !.kinds = @ \ {k},
                        !.netted = IF CanRepurpose(l) THEN @ \cup {l} ELSE @,
                        !.buy    = IF CanRepurpose(l) THEN @ ELSE @ \cup {k}]
  <2>1. PICK l \in Legs : RepurposeHedgeLeg(l, p) /\ SetOpening(p, n(l))
    BY <1>0, <1>3 DEF ClaimLeg, OpeningState
  <2>2. leg' \in [Legs -> LegRow]
    BY <1>0, <2>1, LegStatements
  <2>3. k \in Kinds
    BY <1>0, <1>3, FirstKindType DEF ClaimLeg, OpeningState
  <2>4. n(l) \in OpeningState
    BY <1>0, <2>3 DEF OpeningState
  <2> QED
    BY <1>0, <1>3, <2>1, <2>2, <2>4, OpeningTypes, FaultTypes
    DEF ClaimLeg, TablesTypeOK, ledgerVars
<1>4. CASE NoCandidate(p)
  <2> DEFINE k == FirstKind(o.kinds)
  <2>1. k \in Kinds
    BY <1>0, <1>4, FirstKindType DEF NoCandidate, OpeningState
  <2>2. [o EXCEPT !.kinds = @ \ {k}, !.buy = @ \cup {k}] \in OpeningState
    BY <1>0, <2>1 DEF OpeningState
  <2> QED
    BY <1>0, <1>4, <2>2, OpeningTypes, FaultTypes
    DEF NoCandidate, TablesTypeOK, tables, ledgerVars
<1>5. CASE EndNetting(p)
  <2>1. [o EXCEPT !.pc = "buy", !.cand = {}] \in OpeningState
    BY <1>0 DEF OpeningState, OpeningPc
  <2> QED
    BY <1>0, <1>5, <2>1, ToInsertType, OpeningTypes, FaultTypes
    DEF EndNetting, TablesTypeOK, tables, ledgerVars
<1>6. CASE NettingThrows(p)
  <2>1. [o EXCEPT !.pc = "failed", !.cand = {}] \in OpeningState
    BY <1>0 DEF OpeningState, OpeningPc
  <2> QED
    BY <1>0, <1>6, <2>1, OpeningTypes, FaultTypes
    DEF NettingThrows, TablesTypeOK, tables, ledgerVars
<1>7. CASE BuyLeg(p)
  <2> DEFINE k == FirstKind(o.buy)
  <2>1. k \in Kinds /\ <<p, k>> \in Legs
    BY <1>0, <1>7, FirstKindType DEF BuyLeg, OpeningState, Legs
  <2>2. [o EXCEPT !.buy = @ \ {k}, !.filled = @ \cup {<<p, k>>}] \in OpeningState
    BY <1>0, <2>1 DEF OpeningState
  <2>3. held' \in [Legs -> Int]
    BY <1>0, <1>7, <2>1 DEF BuyLeg, TablesTypeOK
  <2> QED
    BY <1>0, <1>7, <2>2, <2>3, ToInsertType, OpeningTypes, FaultTypes
    DEF BuyLeg, TablesTypeOK, ledgerVars
<1>8. CASE LegRejected(p)
  <2>1. [o EXCEPT !.pc = "unwind", !.work = o.filled] \in OpeningState
    BY <1>0 DEF OpeningState, OpeningPc
  <2> QED
    BY <1>0, <1>8, <2>1, OpeningTypes, FaultTypes
    DEF LegRejected, TablesTypeOK, tables, ledgerVars
<1>9. CASE InsertLegRow(p)
  <2>1. PICK l \in Legs : /\ InsertHedgeLeg(l)
                          /\ SetOpening(p, [o EXCEPT !.work = @ \ {l}])
    BY <1>0, <1>9 DEF InsertLegRow, OpeningState
  <2>2. leg' \in [Legs -> LegRow]
    BY <1>0, <2>1, LegStatements
  <2>3. [o EXCEPT !.work = @ \ {l}] \in OpeningState
    BY <1>0 DEF OpeningState
  <2> QED
    BY <1>0, <1>9, <2>1, <2>2, <2>3, OpeningTypes, FaultTypes
    DEF InsertLegRow, TablesTypeOK, ledgerVars
<1>10. CASE InsertLegFails(p)
  <2>1. [o EXCEPT !.pc = "unwind", !.work = o.filled] \in OpeningState
    BY <1>0 DEF OpeningState, OpeningPc
  <2> QED
    BY <1>0, <1>10, <2>1, OpeningTypes, FaultTypes
    DEF InsertLegFails, TablesTypeOK, tables, ledgerVars
<1>11. CASE UnwindLeg(p)
  <2>1. PICK l \in Legs :
          /\ SetOpening(p, [o EXCEPT !.work = @ \ {l}])
          /\ \/ held' = [held EXCEPT ![l] = @ - 1] /\ UNCHANGED orphans
             \/ orphans' = orphans \cup {l} /\ UNCHANGED held
    BY <1>0, <1>11 DEF UnwindLeg, OpeningState
  <2>2. held' \in [Legs -> Int] /\ orphans' \subseteq Legs
    BY <1>0, <2>1 DEF TablesTypeOK
  <2>3. [o EXCEPT !.work = @ \ {l}] \in OpeningState
    BY <1>0 DEF OpeningState
  <2> QED
    BY <1>0, <1>11, <2>1, <2>2, <2>3, OpeningTypes, FaultTypes
    DEF UnwindLeg, TablesTypeOK, ledgerVars
<1>12. CASE CloseFailedOpening(p)
  <2>1. [o EXCEPT !.pc = "failed"] \in OpeningState
    BY <1>0 DEF OpeningState, OpeningPc
  <2>2. position' \in [Positions -> PositionRow] /\ faults' \in Nat
    BY <1>0, <1>12, PositionStatements, FaultTypes DEF CloseFailedOpening, TablesTypeOK
  <2> QED
    BY <1>0, <1>12, <2>1, <2>2, OpeningTypes
    DEF CloseFailedOpening, TablesTypeOK, ledgerVars
<1>13. CASE BookHedgeBuy(p)
  <2>1. [o EXCEPT !.pc = "done"] \in OpeningState
    BY <1>0 DEF OpeningState, OpeningPc
  <2>2. bought' \in [Positions -> SUBSET Legs] /\ faults' \in Nat
    BY <1>0, <1>13, FaultTypes DEF BookHedgeBuy, OpeningState
  <2> QED
    BY <1>0, <1>13, <2>1, <2>2, OpeningTypes
    DEF BookHedgeBuy, TablesTypeOK, tables
<1> QED
  BY <1>1, <1>2, <1>3, <1>4, <1>5, <1>6, <1>7, <1>8, <1>9, <1>10, <1>11, <1>12,
     <1>13 DEF OpenStep

-----------------------------------------------------------------------------
(* The inductive invariant.                                                *)

\* The invariant holds before the first opening.
LEMMA InitInv == Init => LifecycleInv
<1> SUFFICES ASSUME Init PROVE LifecycleInv
  OBVIOUS
<1>1. TypeOK
  BY InitTypeOK
<1>2. TaskShape
  BY DEF Init, TaskShape, WellShaped, IdleTask
<1>3. RowsOK
  BY DEF Init, TablesInit, RowsOK
<1>4. \A h \in Handlers : HandlerOK(h)
  BY PositionsAssumption DEF Init, HandlerOK, IdleTask, Handlers
<1> QED
  BY <1>1, <1>2, <1>3, <1>4 DEF LifecycleInv

-----------------------------------------------------------------------------
(* A step of a handler: it replaces the handler's own record.               *)

\* Setting the task of one handler keeps the shape of the others.
LEMMA SetTaskShape ==
  ASSUME TypeOK, TaskShape,
         NEW h \in Handlers, NEW s \in TaskState, WellShaped(s), SetTask(h, s)
  PROVE  task' \in [Handlers -> TaskState] /\ TaskShape'
<1>1. task' \in [Handlers -> TaskState]
  BY TaskTypes
<1>2. \A g \in Handlers : task'[g] = IF g = h THEN s ELSE task[g]
  BY DEF SetTask, TypeOK
<1> QED
  BY <1>1, <1>2 DEF TaskShape, WellShaped

\* An idle task is well typed and well shaped.
LEMMA IdleTaskOK == IdleTask \in TaskState /\ WellShaped(IdleTask)
  BY PositionsAssumption DEF IdleTask, TaskState, TaskPc, WellShaped

\* So is a finished one.
LEMMA FinishedOK ==
  ASSUME NEW s \in TaskState
  PROVE  /\ Finished(s) \in TaskState
         /\ WellShaped(Finished(s))
         /\ Finished(s).todo = s.todo
         /\ Finished(s).pos = NoPosition
         /\ Finished(s).pc \in {"idle", "loop"}
<1>1. CASE s.todo = {}
  BY <1>1, IdleTaskOK DEF Finished, IdleTask
<1>2. CASE s.todo # {}
  BY <1>2, PositionsAssumption DEF Finished, IdleTask, TaskState, TaskPc, WellShaped
<1> QED
  BY <1>1, <1>2

\* Every position a handler holds while it has one is a position.
LEMMA TaskPosition ==
  ASSUME TypeOK, TaskShape, NEW h \in Handlers, task[h].pc \notin {"idle", "loop"}
  PROVE  task[h].pos \in Positions
  BY DEF TypeOK, TaskShape, WellShaped, TaskState

\* What moving on along the statements of one position does to a record.
LEMMA AdvanceOK ==
  ASSUME TypeOK, TaskShape, NEW h \in Handlers, task[h].pc \notin {"idle", "loop"},
         NEW c \in TaskPc \ {"idle", "loop"}
  PROVE  /\ [task[h] EXCEPT !.pc = c] \in TaskState
         /\ WellShaped([task[h] EXCEPT !.pc = c])
<1>1. task[h] \in TaskState /\ WellShaped(task[h])
  BY DEF TypeOK, TaskShape
<1> DEFINE s == task[h]
<1>2. s \in TaskState /\ WellShaped(s) /\ s.pc \notin {"idle", "loop"}
  BY <1>1
<1> HIDE DEF s
<1>3. [s EXCEPT !.pc = c] \in TaskState
  BY <1>2 DEF TaskState
<1>4. WellShaped([s EXCEPT !.pc = c])
  BY <1>2 DEF TaskState, WellShaped
<1> QED
  BY <1>3, <1>4 DEF s

\* The record a handler has after it listed the legs of p.
LEMMA ListingOK ==
  ASSUME TypeOK, NEW p \in Positions, NEW f \in TaskState, p \notin f.todo
  PROVE  LET s == [f EXCEPT !.pc = "retain", !.pos = p, !.legs = OpenUnretained(p)]
         IN  s \in TaskState /\ WellShaped(s) /\ s.todo = f.todo /\ s.pos = p /\ s.pc = "retain"
<1>1. OpenUnretained(p) \in SUBSET Legs
  BY DEF OpenUnretained
<1> QED
  BY <1>1, PositionsAssumption DEF TaskState, TaskPc, WellShaped

\* The steps that cycles and close requests share keep the types.
LEMMA SharedStepTypeOK ==
  ASSUME TypeOK, TaskShape, NEW h \in Handlers, RetainLeg(h) \/ AccruePremium(h)
  PROVE  TypeOK' /\ TaskShape'
<1>0. task[h] \in TaskState /\ WellShaped(task[h]) /\ TablesTypeOK /\ faults \in Nat
  BY DEF TypeOK, TaskShape, TablesTypeOK
<1>1. CASE RetainLeg(h)
  <2> DEFINE s(l) == [task[h] EXCEPT !.legs = @ \ {l}]
  <2>1. PICK l \in Legs : /\ SetTask(h, s(l))
                          /\ \/ MarkHedgeLegRetained(l) /\ NoFault
                             \/ UNCHANGED leg /\ Fault
    BY <1>0, <1>1 DEF RetainLeg, TaskState
  <2>2. s(l) \in TaskState /\ WellShaped(s(l))
    BY <1>0 DEF TaskState, WellShaped
  <2>4. leg' \in [Legs -> LegRow] /\ faults' \in Nat
    BY <1>0, <2>1, LegStatements, FaultTypes DEF TablesTypeOK
  <2>5. task' \in [Handlers -> TaskState] /\ TaskShape'
    BY <2>1, <2>2, SetTaskShape
  <2>6. misflagged' \subseteq Legs
    BY <1>1 DEF RetainLeg, Misflagged, OpenUnretained, TypeOK
  <2> QED
    BY <1>1, <2>4, <2>5, <2>6 DEF RetainLeg, TypeOK, TablesTypeOK, ledgerVars
<1>2. CASE AccruePremium(h)
  <2>1. task' \in [Handlers -> TaskState] /\ TaskShape'
    BY <1>0, <1>2, FinishedOK, SetTaskShape DEF AccruePremium
  <2>2. task[h].pos \in Positions
    BY <1>2, TaskPosition DEF AccruePremium
  <2>3. premiums' \in [Positions -> [Handlers -> Nat]]
    <3>1. AddRow(premiums, task[h].pos, h) \in [Positions -> [Handlers -> Nat]]
      BY <2>2, AddRowOK, Zenon DEF TypeOK
    <3> QED
      BY <1>2, <3>1 DEF AccruePremium, TypeOK
  <2>4. faults' \in Nat
    BY <1>0, <1>2, FaultTypes DEF AccruePremium
  <2> QED
    BY <1>2, <2>1, <2>3, <2>4 DEF AccruePremium, TypeOK, TablesTypeOK, tables
<1> QED
  BY <1>1, <1>2

\* The steps of a trigger cycle keep the types.
LEMMA CycleStepTypeOK ==
  ASSUME TypeOK, TaskShape, NEW t \in Cycles, CycleStep(t)
  PROVE  TypeOK' /\ TaskShape'
<1>0. /\ t \in Handlers
      /\ task[t] \in TaskState
      /\ WellShaped(task[t])
      /\ TablesTypeOK
      /\ faults \in Nat
  BY DEF TypeOK, TaskShape, TablesTypeOK, Handlers
<1>1. CASE StartCycle(t)
  <2> DEFINE s(touched) == [task[t] EXCEPT !.pc = "loop", !.todo = touched]
  <2>1. PICK touched \in SUBSET Positions : SetTask(t, s(touched))
    BY <1>1 DEF StartCycle, ActivePositions
  <2>2. s(touched) \in TaskState /\ WellShaped(s(touched))
    BY <1>0, <1>1, PositionsAssumption DEF StartCycle, TaskState, TaskPc, WellShaped
  <2>3. task' \in [Handlers -> TaskState] /\ TaskShape'
    BY <1>0, <2>1, <2>2, SetTaskShape
  <2> QED
    BY <1>0, <1>1, <2>3, FaultTypes DEF StartCycle, TypeOK, TablesTypeOK, tables, ledgerVars
<1>2. CASE FireTrigger(t)
  <2> DEFINE f(p, d) == [task[t] EXCEPT !.dir = d, !.todo = @ \ {p}]
  <2>1. PICK p \in Positions, d \in Directions : ListLegs(t, p, f(p, d))
    BY <1>0, <1>2 DEF FireTrigger, TaskState
  <2>2. f(p, d) \in TaskState /\ p \notin f(p, d).todo
    BY <1>0 DEF TaskState
  <2>3. task' \in [Handlers -> TaskState] /\ TaskShape'
    BY <1>0, <2>1, <2>2, ListingOK, SetTaskShape DEF ListLegs
  <2>4. raced' \subseteq Positions
    BY <2>1 DEF ListLegs, TypeOK
  <2> QED
    BY <1>0, <1>2, <2>3, <2>4, FaultTypes
    DEF FireTrigger, TypeOK, TablesTypeOK, tables, ledgerVars
<1>3. CASE RecordTriggerEvent(t)
  <2>1. task' \in [Handlers -> TaskState] /\ TaskShape'
    BY <1>0, <1>3, AdvanceOK, SetTaskShape DEF RecordTriggerEvent, TaskPc
  <2>2. task[t].pos \in Positions
    BY <1>0, <1>3, TaskPosition DEF RecordTriggerEvent
  <2>3. salvage' \in [Positions -> Seq(Nat)]
    BY <1>0, <1>3, <2>2, PositionStatements DEF RecordTriggerEvent
  <2> QED
    BY <1>0, <1>3, <2>1, <2>3, FaultTypes
    DEF RecordTriggerEvent, TypeOK, TablesTypeOK, ledgerVars
<1>4. CASE MarkTriggered(t)
  <2>1. task' \in [Handlers -> TaskState] /\ TaskShape'
    BY <1>0, <1>4, AdvanceOK, SetTaskShape DEF MarkTriggered, TaskPc
  <2>2. task[t].pos \in Positions /\ task[t].dir \in Directions \cup {"none"}
    BY <1>0, <1>4, TaskPosition DEF MarkTriggered, TaskState
  <2>3. position' \in [Positions -> PositionRow]
    BY <1>0, <1>4, <2>2, PositionStatements DEF MarkTriggered
  <2> QED
    BY <1>0, <1>4, <2>1, <2>3, FaultTypes
    DEF MarkTriggered, TypeOK, TablesTypeOK, ledgerVars
<1>5. CASE FireThrows(t)
  <2>1. \E s \in TaskState : SetTask(t, Finished(s))
    <3>1. \A p : [task[t] EXCEPT !.todo = @ \ {p}] \in TaskState
      BY <1>0 DEF TaskState
    <3> QED
      BY <1>0, <1>5, <3>1 DEF FireThrows
  <2>2. task' \in [Handlers -> TaskState] /\ TaskShape'
    BY <1>0, <2>1, FinishedOK, SetTaskShape
  <2> QED
    BY <1>0, <1>5, <2>2, FaultTypes DEF FireThrows, TypeOK, TablesTypeOK, tables, ledgerVars
<1>6. CASE PayOut(t)
  <2>1. task' \in [Handlers -> TaskState] /\ TaskShape'
    BY <1>0, <1>6, AdvanceOK, SetTaskShape DEF PayOut, TaskPc
  <2>2. task[t].pos \in Positions
    BY <1>0, <1>6, TaskPosition DEF PayOut
  <2>3. payouts' \in [Positions -> [Cycles -> Nat]]
    <3>1. AddRow(payouts, task[t].pos, t) \in [Positions -> [Cycles -> Nat]]
      BY <2>2, AddRowOK, Zenon DEF TypeOK
    <3> QED
      BY <1>6, <3>1 DEF PayOut, TypeOK
  <2>4. faults' \in Nat
    BY <1>0, <1>6, FaultTypes DEF PayOut
  <2> QED
    BY <1>6, <2>1, <2>3, <2>4 DEF PayOut, TypeOK, TablesTypeOK, tables
<1> QED
  BY <1>1, <1>2, <1>3, <1>4, <1>5, <1>6 DEF CycleStep

\* The steps of a close request keep the types.
LEMMA CloseStepTypeOK ==
  ASSUME TypeOK, TaskShape, NEW c \in Closers, CloseStep(c)
  PROVE  TypeOK' /\ TaskShape'
<1>0. /\ c \in Handlers
      /\ task[c] \in TaskState
      /\ WellShaped(task[c])
      /\ TablesTypeOK
      /\ faults \in Nat
  BY DEF TypeOK, TaskShape, TablesTypeOK, Handlers
<1>1. CASE RequestClose(c)
  <2> DEFINE s(p) == [task[c] EXCEPT !.pc = "list", !.pos = p]
  <2>1. PICK p \in Positions : SetTask(c, s(p))
    BY <1>1 DEF RequestClose, ActivePositions
  <2>2. s(p) \in TaskState /\ WellShaped(s(p))
    BY <1>0, <1>1, PositionsAssumption DEF RequestClose, TaskState, TaskPc, WellShaped
  <2>3. task' \in [Handlers -> TaskState] /\ TaskShape'
    BY <1>0, <2>1, <2>2, SetTaskShape
  <2> QED
    BY <1>0, <1>1, <2>3, FaultTypes DEF RequestClose, TypeOK, TablesTypeOK, tables, ledgerVars
<1>2. CASE ListLegsToClose(c)
  <2>1. task[c].pos \in Positions /\ task[c].pos \notin task[c].todo
    BY <1>0, <1>2, TaskPosition DEF ListLegsToClose, WellShaped
  <2>2. task' \in [Handlers -> TaskState] /\ TaskShape'
    BY <1>0, <1>2, <2>1, ListingOK, SetTaskShape DEF ListLegsToClose, ListLegs
  <2>3. raced' \subseteq Positions
    BY <1>2, <2>1 DEF ListLegsToClose, ListLegs, TypeOK
  <2> QED
    BY <1>0, <1>2, <2>2, <2>3, FaultTypes
    DEF ListLegsToClose, TypeOK, TablesTypeOK, tables, ledgerVars
<1>3. CASE CloseThrows(c)
  <2>1. task' \in [Handlers -> TaskState] /\ TaskShape'
    BY <1>0, <1>3, IdleTaskOK, SetTaskShape DEF CloseThrows
  <2> QED
    BY <1>0, <1>3, <2>1, FaultTypes DEF CloseThrows, TypeOK, TablesTypeOK, tables, ledgerVars
<1>4. CASE MarkClosed(c)
  <2>1. /\ [task[c] EXCEPT !.pc = "premium"] \in TaskState
        /\ WellShaped([task[c] EXCEPT !.pc = "premium"])
    BY <1>0, <1>4, AdvanceOK DEF MarkClosed, TaskPc
  <2>2. task' \in [Handlers -> TaskState] /\ TaskShape'
    BY <1>0, <1>4, <2>1, IdleTaskOK, SetTaskShape DEF MarkClosed
  <2>3. task[c].pos \in Positions
    BY <1>0, <1>4, TaskPosition DEF MarkClosed
  <2>5. position' \in [Positions -> PositionRow] /\ faults' \in Nat
    BY <1>0, <1>4, <2>3, PositionStatements, FaultTypes DEF MarkClosed, TablesTypeOK
  <2> QED
    BY <1>4, <2>2, <2>5 DEF MarkClosed, TypeOK, TablesTypeOK, ledgerVars
<1> QED
  BY <1>1, <1>2, <1>3, <1>4 DEF CloseStep

\* A restart keeps the types.
LEMMA RestartTypeOK ==
  ASSUME TypeOK, Restart
  PROVE  TypeOK' /\ TaskShape'
<1>1. task' \in [Handlers -> TaskState] /\ TaskShape'
  BY IdleTaskOK DEF Restart, TaskShape
<1>2. ASSUME NEW p \in Positions
      PROVE  [opening[p] EXCEPT !.pc = "failed", !.cand = {}, !.work = {}] \in OpeningState
  BY ZenonT(40) DEF TypeOK, OpeningState, OpeningPc
<1>3. opening' \in [Positions -> OpeningState]
  BY <1>2 DEF Restart, TypeOK
<1>4. faults' \in Nat
  BY FaultTypes DEF Restart, TypeOK, TablesTypeOK
<1> QED
  BY <1>1, <1>3, <1>4 DEF Restart, TypeOK, TablesTypeOK, tables, ledgerVars

\* Types and shapes are inductive.
LEMMA NextTypeOK == TypeOK /\ TaskShape /\ [Next]_vars => TypeOK' /\ TaskShape'
<1> SUFFICES ASSUME TypeOK, TaskShape, [Next]_vars PROVE TypeOK' /\ TaskShape'
  OBVIOUS
<1>1. ASSUME NEW p \in Positions, OpenStep(p) PROVE TypeOK' /\ TaskShape'
  <2>1. UNCHANGED task
    BY <1>1 DEF OpenStep, OpenPosition, ListCandidates, ClaimLeg, NoCandidate, EndNetting,
       NettingThrows, BuyLeg, LegRejected, InsertLegRow, InsertLegFails, UnwindLeg,
       CloseFailedOpening, BookHedgeBuy
  <2> QED
    BY <1>1, <2>1, OpenStepTypeOK DEF TaskShape
<1>2. ASSUME NEW h \in Handlers, RetainLeg(h) \/ AccruePremium(h)
      PROVE  TypeOK' /\ TaskShape'
  BY <1>2, SharedStepTypeOK
<1>3. ASSUME NEW t \in Cycles, CycleStep(t) PROVE TypeOK' /\ TaskShape'
  BY <1>3, CycleStepTypeOK
<1>4. ASSUME NEW c \in Closers, CloseStep(c) PROVE TypeOK' /\ TaskShape'
  BY <1>4, CloseStepTypeOK
<1>5. CASE Restart
  BY <1>5, RestartTypeOK
<1>6. CASE UNCHANGED vars
  BY <1>6 DEF vars, tables, lifecycleVars, handlerVars, ledgerVars, TypeOK, TablesTypeOK,
     TaskShape
<1> QED
  BY <1>1, <1>2, <1>3, <1>4, <1>5, <1>6 DEF Next, LifecycleStep

\* Every variable keeps its type, whatever the number of handlers, positions
\* and failures.
THEOREM TypeCorrect == Spec => []TypeOK
<1>1. Init => TypeOK /\ TaskShape
  BY InitInv DEF LifecycleInv
<1> QED
  BY <1>1, NextTypeOK, PTL DEF Spec

-----------------------------------------------------------------------------
(* What a step does to the position rows: an ended position stays ended, a  *)
(* row is never removed, and a direction is never rewritten.                *)

RowsAdvance ==
  \A p \in Positions :
    /\ Ended(p) => position'[p].status \in {"triggered", "closed"}
    /\ position[p].status # "absent" => position'[p].status # "absent"
    /\ position[p].direction # "none" => position'[p].direction = position[p].direction

\* A step that writes no row keeps what the rows say.
LEMMA RowsKept ==
  ASSUME TypeOK, RowsOK, UNCHANGED position,
         \A q \in Positions : opening'[q].pc = "none" => opening[q].pc = "none"
  PROVE  RowsOK' /\ RowsAdvance
  BY DEF RowsOK, RowsAdvance, Ended

\* Closing a position whose opening has begun.
LEMMA RowsClosed ==
  ASSUME TypeOK, RowsOK, NEW p \in Positions, opening'[p].pc # "none",
         MarkPositionClosed(p),
         \A q \in Positions : opening'[q].pc = "none" => opening[q].pc = "none"
  PROVE  RowsOK' /\ RowsAdvance
<1>1. \A q \in Positions :
        /\ position'[q].direction = position[q].direction
        /\ position'[q].status = IF q = p THEN "closed" ELSE position[q].status
  BY DEF MarkPositionClosed, TypeOK, TablesTypeOK, PositionRow
<1> QED
  BY <1>1 DEF RowsOK, RowsAdvance, Ended

\* The opening request only adds rows.
LEMMA OpenStepRows ==
  ASSUME TypeOK, RowsOK, NEW p \in Positions, OpenStep(p)
  PROVE  RowsOK' /\ RowsAdvance
<1> DEFINE o == opening[p]
           Begun == \A q \in Positions : opening'[q].pc = "none" => opening[q].pc = "none"
<1>0. opening \in [Positions -> OpeningState] /\ o \in OpeningState
  BY DEF TypeOK
<1>a. ASSUME NEW n \in OpeningState, SetOpening(p, n), n.pc # "none"
      PROVE  Begun
  BY <1>0, <1>a DEF SetOpening
<1>1. CASE OpenPosition(p)
  <2>1. /\ opening'[p].pc = "list"
        /\ \A q \in Positions \ {p} : opening'[q] = opening[q]
    BY <1>0, <1>1 DEF OpenPosition, SetOpening, OpeningState
  <2>2. \A q \in Positions :
          /\ position'[q].direction = position[q].direction
          /\ position'[q].status = IF q = p THEN "active" ELSE position[q].status
    BY <1>1 DEF OpenPosition, InsertPosition, TypeOK, TablesTypeOK, PositionRow
  <2>3. position[p].status = "absent"
    BY <1>1 DEF OpenPosition, RowsOK
  <2> QED
    BY <2>1, <2>2, <2>3 DEF RowsOK, RowsAdvance, Ended
<1>2. CASE ListCandidates(p) \/ NettingThrows(p) \/ LegRejected(p) \/ InsertLegFails(p)
           \/ BookHedgeBuy(p)
  <2>1. Begun
    BY ZenonT(40), <1>0, <1>2
    DEF ListCandidates, NettingThrows, LegRejected, InsertLegFails, BookHedgeBuy,
        SetOpening, OpeningState
  <2>2. UNCHANGED position
    BY <1>2 DEF ListCandidates, NettingThrows, LegRejected, InsertLegFails, BookHedgeBuy,
        tables
  <2> QED
    BY <2>1, <2>2, RowsKept
<1>3. CASE ClaimLeg(p) \/ NoCandidate(p) \/ InsertLegRow(p) \/ UnwindLeg(p)
  <2>1. opening'[p].pc = opening[p].pc /\ opening[p].pc # "none"
    <3>1. CASE ClaimLeg(p)
      BY <1>0, <3>1 DEF ClaimLeg, SetOpening, OpeningState
    <3>2. CASE NoCandidate(p)
      BY <1>0, <3>2 DEF NoCandidate, SetOpening, OpeningState
    <3>3. CASE InsertLegRow(p)
      BY <1>0, <3>3 DEF InsertLegRow, SetOpening, OpeningState
    <3>4. CASE UnwindLeg(p)
      BY <1>0, <3>4 DEF UnwindLeg, SetOpening, OpeningState
    <3> QED
      BY <1>3, <3>1, <3>2, <3>3, <3>4
  <2>2. \A q \in Positions \ {p} : opening'[q] = opening[q]
    BY <1>0, <1>3
    DEF ClaimLeg, NoCandidate, InsertLegRow, UnwindLeg, SetOpening
  <2>3. UNCHANGED position
    BY <1>3 DEF ClaimLeg, NoCandidate, InsertLegRow, UnwindLeg, tables
  <2> QED
    BY <2>1, <2>2, <2>3, RowsKept
<1>4. CASE EndNetting(p) \/ BuyLeg(p)
  <2>1. \E n \in OpeningState : n.pc = "buy" /\ SetOpening(p, ToInsert(n))
    <3>1. CASE EndNetting(p)
      <4>1. /\ [o EXCEPT !.pc = "buy", !.cand = {}] \in OpeningState
            /\ [o EXCEPT !.pc = "buy", !.cand = {}].pc = "buy"
        BY <1>0 DEF OpeningState, OpeningPc
      <4> QED
        BY <3>1, <4>1 DEF EndNetting
    <3>2. CASE BuyLeg(p)
      <4> DEFINE k == FirstKind(o.buy)
                 n == [o EXCEPT !.buy = @ \ {k}, !.filled = @ \cup {<<p, k>>}]
      <4>1. k \in Kinds /\ <<p, k>> \in Legs
        BY <1>0, <3>2, FirstKindType DEF BuyLeg, OpeningState, Legs
      <4>2. n \in OpeningState /\ n.pc = "buy"
        BY <1>0, <3>2, <4>1 DEF BuyLeg, OpeningState
      <4>3. SetOpening(p, ToInsert(n))
        BY <3>2 DEF BuyLeg
      <4> QED
        BY <4>2, <4>3
    <3> QED
      BY <1>4, <3>1, <3>2
  <2>2. Begun
    <3>1. \A n \in OpeningState : n.pc = "buy" => ToInsert(n).pc # "none"
      BY DEF ToInsert, OpeningState
    <3> QED
      BY <1>0, <2>1, <3>1, ToInsertType DEF SetOpening
  <2>3. UNCHANGED position
    BY <1>4 DEF EndNetting, BuyLeg, tables
  <2> QED
    BY <2>2, <2>3, RowsKept
<1>5. CASE CloseFailedOpening(p)
  <2>1. Begun /\ opening'[p].pc = "failed"
    BY <1>0, <1>5 DEF CloseFailedOpening, SetOpening, OpeningState
  <2>2. CASE UNCHANGED position
    BY <2>1, <2>2, RowsKept
  <2>3. CASE MarkPositionClosed(p)
    BY <2>1, <2>3, RowsClosed
  <2> QED
    BY <1>5, <2>2, <2>3 DEF CloseFailedOpening
<1> QED
  BY <1>1, <1>2, <1>3, <1>4, <1>5 DEF OpenStep

\* A handler only moves rows forward.
LEMMA HandlerStepRows ==
  ASSUME TypeOK, TaskShape, RowsOK, NEW h \in Handlers, HandlerOK(h),
         \/ RetainLeg(h) \/ AccruePremium(h)
         \/ h \in Cycles /\ CycleStep(h)
         \/ h \in Closers /\ CloseStep(h)
  PROVE  RowsOK' /\ RowsAdvance
<1> USE DEF tables
<1>1. UNCHANGED opening
  BY DEF RetainLeg, AccruePremium, CycleStep, StartCycle, FireTrigger, RecordTriggerEvent,
     MarkTriggered, FireThrows, PayOut, CloseStep, RequestClose, ListLegsToClose,
     CloseThrows, MarkClosed
<1>2. CASE MarkTriggered(h)
  <2>1. task[h].pos \in Positions
    BY <1>2, TaskPosition DEF MarkTriggered
  <2>2. position[task[h].pos].status # "absent"
    BY <2>1 DEF HandlerOK
  <2>3. \A q \in Positions :
          \/ position'[q] = position[q]
          \/ /\ q = task[h].pos
             /\ position[q].status = "active"
             /\ position'[q].status = "triggered"
    BY <1>2, <2>1
    DEF MarkTriggered, MarkPositionTriggered, TypeOK, TablesTypeOK, PositionRow
  <2> QED
    BY <1>1, <2>2, <2>3 DEF RowsOK, RowsAdvance, Ended
<1>3. CASE MarkClosed(h)
  <2>1. task[h].pos \in Positions
    BY <1>3, TaskPosition DEF MarkClosed
  <2>2. opening'[task[h].pos].pc # "none"
    BY <1>1, <2>1 DEF HandlerOK, RowsOK
  <2>3. CASE MarkPositionClosed(task[h].pos)
    BY <1>1, <2>1, <2>2, <2>3, RowsClosed
  <2>4. CASE UNCHANGED position
    BY <1>1, <2>4, RowsKept
  <2> QED
    BY <1>3, <2>3, <2>4 DEF MarkClosed
<1>4. CASE ~MarkTriggered(h) /\ ~MarkClosed(h)
  <2>1. UNCHANGED position
    BY <1>4 DEF RetainLeg, AccruePremium, CycleStep, StartCycle, FireTrigger,
       RecordTriggerEvent, FireThrows, PayOut, CloseStep, RequestClose, ListLegsToClose,
       CloseThrows
  <2> QED
    BY <1>1, <2>1, RowsKept
<1> QED
  BY <1>2, <1>3, <1>4

\* Every step keeps the rows consistent and moves them forward.
LEMMA NextRows == LifecycleInv /\ [Next]_vars => RowsOK' /\ RowsAdvance
<1> SUFFICES ASSUME LifecycleInv, [Next]_vars PROVE RowsOK' /\ RowsAdvance
  OBVIOUS
<1> USE DEF LifecycleInv
<1>1. ASSUME NEW p \in Positions, OpenStep(p) PROVE RowsOK' /\ RowsAdvance
  BY <1>1, OpenStepRows
<1>2. ASSUME NEW h \in Handlers, RetainLeg(h) \/ AccruePremium(h)
      PROVE  RowsOK' /\ RowsAdvance
  BY <1>2, HandlerStepRows
<1>3. ASSUME NEW t \in Cycles, CycleStep(t) PROVE RowsOK' /\ RowsAdvance
  BY <1>3, HandlerStepRows DEF Handlers
<1>4. ASSUME NEW c \in Closers, CloseStep(c) PROVE RowsOK' /\ RowsAdvance
  BY <1>4, HandlerStepRows DEF Handlers
<1>5. CASE Restart
  <2>1. \A q \in Positions : opening'[q].pc = "none" => opening[q].pc = "none"
    BY <1>5 DEF Restart, TypeOK, OpeningState
  <2> QED
    BY <1>5, <2>1, RowsKept DEF Restart, tables
<1>6. CASE UNCHANGED vars
  BY <1>6, RowsKept DEF vars, tables, lifecycleVars, handlerVars
<1> QED
  BY <1>1, <1>2, <1>3, <1>4, <1>5, <1>6 DEF Next, LifecycleStep

-----------------------------------------------------------------------------
(* What a step does to the handlers.                                       *)

\* The ledger rows handler g wrote stay as they are.
LedgerKept(g) ==
  /\ \A p \in Positions : premiums'[p][g] = premiums[p][g]
  /\ g \in Cycles => \A p \in Positions : payouts'[p][g] = payouts[p][g]

\* A step of another handler.
LEMMA HandlerFrame ==
  ASSUME TypeOK, TaskShape, RowsAdvance, NEW g \in Handlers, HandlerOK(g),
         task'[g] = task[g], LedgerKept(g)
  PROVE  HandlerOK(g)'
<1>1. task[g].pc \in {"pay", "premium"} => Ended(task[g].pos)'
  BY TaskPosition DEF HandlerOK, RowsAdvance, Ended
<1> QED
  BY <1>1 DEF HandlerOK, RowsAdvance, Ended, LedgerKept

\* A step to the next statement, or to the next position of the list.
LEMMA HandlerContinues ==
  ASSUME TypeOK, TaskShape, RowsAdvance, NEW h \in Handlers, HandlerOK(h), LedgerKept(h),
         NEW s \in TaskState, task'[h] = s,
         s.todo \subseteq task[h].todo,
         s.pos \in task[h].todo \cup {task[h].pos, NoPosition},
         s.pc \in {"pay", "premium"} => Ended(s.pos)',
         s.pos = NoPosition \/ task[h].pc # "premium"
  PROVE  HandlerOK(h)'
<1>1. \A p \in Positions :
        (p \in task'[h].todo \/ p = task'[h].pos) => position'[p].status # "absent"
  BY PositionsAssumption DEF HandlerOK, RowsAdvance
<1>2. task'[h].pc \in {"pay", "premium"} => Ended(task[h].pos)'
  BY DEF Ended
<1>3. \A p \in Positions : Ended(p) => Ended(p)'
  BY DEF RowsAdvance, Ended
<1>4. \A p \in Positions :
        premiums'[p][h] > 0 =>
          /\ premiums'[p][h] = 1
          /\ Ended(p)'
          /\ p \notin task'[h].todo
          /\ p # task'[h].pos
  BY <1>3, PositionsAssumption DEF HandlerOK, LedgerKept
<1>5. ASSUME h \in Cycles, NEW p \in Positions, payouts'[p][h] > 0
      PROVE  /\ payouts'[p][h] = 1
             /\ Ended(p)'
             /\ p \notin task'[h].todo
             /\ p = task'[h].pos => task'[h].pc = "premium"
  <2>1. /\ payouts[p][h] = 1
        /\ Ended(p)
        /\ p \notin task[h].todo
        /\ p = task[h].pos => task[h].pc = "premium"
    BY <1>5 DEF HandlerOK, LedgerKept
  <2> QED
    BY <1>3, <1>5, <2>1, PositionsAssumption DEF LedgerKept
<1> QED
  BY <1>1, <1>2, <1>4, <1>5 DEF HandlerOK

\* A selection: the positions taken were active when they were listed.
LEMMA HandlerSelects ==
  ASSUME TypeOK, NEW h \in Handlers, HandlerOK(h), LedgerKept(h), UNCHANGED position,
         NEW s \in TaskState, task'[h] = s, s.pc \notin {"pay", "premium"},
         \A p \in Positions :
           (p \in s.todo \/ p = s.pos) => position[p].status = "active"
  PROVE  HandlerOK(h)'
  BY DEF HandlerOK, LedgerKept, Ended

\* What every step of handler h leaves alone.
LEMMA OthersKept ==
  ASSUME TypeOK, NEW h \in Handlers, NEW s, SetTask(h, s)
  PROVE  \A g \in Handlers \ {h} : task'[g] = task[g]
  BY DEF TypeOK, SetTask

\* The task a handler sets is the one it has next.
LEMMA SetTaskSelf ==
  ASSUME TypeOK, NEW h \in Handlers, NEW s, SetTask(h, s)
  PROVE  task'[h] = s
  BY DEF TypeOK, SetTask

\* Writing nothing to the ledger keeps what any handler knows of it.
LEMMA UnchangedLedger ==
  ASSUME UNCHANGED <<payouts, premiums>>, NEW g PROVE LedgerKept(g)
  BY DEF LedgerKept

\* A step of handler h that leaves the ledger alone keeps HandlerOK, once it
\* is known to keep it for h.
LEMMA HandlersKept ==
  ASSUME TypeOK, TaskShape, RowsAdvance, \A g \in Handlers : HandlerOK(g),
         NEW h \in Handlers, HandlerOK(h)',
         \A g \in Handlers \ {h} : task'[g] = task[g] /\ LedgerKept(g)
  PROVE  \A g \in Handlers : HandlerOK(g)'
  BY HandlerFrame

\* The shared steps keep what every handler knows of the rows.
LEMMA SharedStepHandlers ==
  ASSUME LifecycleInv, RowsAdvance, NEW h \in Handlers, RetainLeg(h) \/ AccruePremium(h)
  PROVE  \A g \in Handlers : HandlerOK(g)'
<1> USE DEF LifecycleInv
<1>0. task[h] \in TaskState /\ HandlerOK(h)
  BY DEF TypeOK
<1>1. CASE RetainLeg(h)
  <2> DEFINE s(l) == [task[h] EXCEPT !.legs = @ \ {l}]
  <2>1. PICK l \in Legs : SetTask(h, s(l))
    BY <1>0, <1>1 DEF RetainLeg, TaskState
  <2>2. /\ s(l) \in TaskState
        /\ s(l).todo = task[h].todo
        /\ s(l).pos = task[h].pos
        /\ s(l).pc = "retain"
    BY <1>0, <1>1 DEF TaskState, RetainLeg
  <2>3. \A g \in Handlers : LedgerKept(g)
    BY <1>1, UnchangedLedger DEF RetainLeg, ledgerVars
  <2>4. HandlerOK(h)'
    BY <1>0, <1>1, <2>1, <2>2, <2>3, SetTaskSelf, HandlerContinues DEF RetainLeg
  <2> QED
    BY <2>1, <2>3, <2>4, OthersKept, HandlersKept
<1>2. CASE AccruePremium(h)
  <2> DEFINE s == Finished(task[h])
  <2>1. SetTask(h, s) /\ task'[h] = s /\ s \in TaskState
    BY <1>0, <1>2, SetTaskSelf, FinishedOK DEF AccruePremium
  <2>2. s.todo = task[h].todo /\ s.pos = NoPosition /\ s.pc \in {"idle", "loop"}
    BY <1>0, FinishedOK
  <2>3. task[h].pos \in Positions
    BY <1>2, TaskPosition DEF AccruePremium
  <2>4. CASE UNCHANGED premiums
    <3>1. \A g \in Handlers : LedgerKept(g)
      BY <1>2, <2>4, UnchangedLedger DEF AccruePremium
    <3>2. HandlerOK(h)'
      BY <1>0, <2>1, <2>2, <3>1, PositionsAssumption, HandlerContinues
    <3> QED
      BY <2>1, <3>1, <3>2, OthersKept, HandlersKept
  <2>5. CASE premiums' = AddRow(premiums, task[h].pos, h)
    <3> HIDE DEF s
    <3>1. \A p \in Positions, g \in Handlers :
            premiums'[p][g] = IF p = task[h].pos /\ g = h THEN premiums[p][g] + 1
                              ELSE premiums[p][g]
      <4>1. premiums \in [Positions -> [Handlers -> Nat]]
        BY DEF TypeOK
      <4> QED
        BY <2>3, <2>5, <4>1 DEF AddRow
    <3>2. UNCHANGED <<payouts, position>>
      BY <1>2 DEF AccruePremium, tables
    <3>3. \A g \in Handlers \ {h} : LedgerKept(g)
      BY <3>1, <3>2 DEF LedgerKept
    <3>4. HandlerOK(h)'
      <4>1. premiums[task[h].pos][h] = 0
        BY <1>0, <2>3 DEF HandlerOK, TypeOK
      <4>2. Ended(task[h].pos) /\ task[h].pos \notin task[h].todo
        BY <1>2 DEF HandlerOK, AccruePremium, TaskShape, WellShaped
      <4>3. \A p \in Positions :
              premiums'[p][h] > 0 =>
                /\ premiums'[p][h] = 1
                /\ Ended(p)'
                /\ p \notin task'[h].todo
                /\ p # task'[h].pos
        BY <1>0, <2>1, <2>2, <2>3, <3>1, <3>2, <4>1, <4>2, PositionsAssumption
        DEF HandlerOK, Ended
      <4>4. \A p \in Positions :
              (p \in task'[h].todo \/ p = task'[h].pos) => position'[p].status # "absent"
        BY <1>0, <2>1, <2>2, <3>2, PositionsAssumption DEF HandlerOK
      <4>5. h \in Cycles =>
              \A p \in Positions :
                payouts'[p][h] > 0 =>
                  /\ payouts'[p][h] = 1
                  /\ Ended(p)'
                  /\ p \notin task'[h].todo
                  /\ p = task'[h].pos => task'[h].pc = "premium"
        BY <1>0, <2>1, <2>2, <3>2, PositionsAssumption DEF HandlerOK, Ended
      <4> QED
        BY <2>1, <2>2, <4>3, <4>4, <4>5 DEF HandlerOK
    <3> QED
      BY <2>1, <3>3, <3>4, OthersKept, HandlersKept
  <2> QED
    BY <1>2, <2>4, <2>5 DEF AccruePremium
<1> QED
  BY <1>1, <1>2

\* A step along the statements that writes no ledger row, for all handlers.
LEMMA ContinuesAll ==
  ASSUME LifecycleInv, RowsAdvance, UNCHANGED <<payouts, premiums>>,
         NEW h \in Handlers, NEW s \in TaskState, SetTask(h, s),
         s.todo \subseteq task[h].todo,
         s.pos \in task[h].todo \cup {task[h].pos, NoPosition},
         s.pc \in {"pay", "premium"} => Ended(s.pos)',
         s.pos = NoPosition \/ task[h].pc # "premium"
  PROVE  \A g \in Handlers : HandlerOK(g)'
<1> USE DEF LifecycleInv
<1>1. \A g \in Handlers : LedgerKept(g)
  BY UnchangedLedger
<1>2. HandlerOK(h)'
  BY <1>1, SetTaskSelf, HandlerContinues
<1> QED
  BY <1>1, <1>2, OthersKept, HandlersKept

\* The same for a selection of active positions.
LEMMA SelectsAll ==
  ASSUME LifecycleInv, RowsAdvance, UNCHANGED <<position, payouts, premiums>>,
         NEW h \in Handlers, NEW s \in TaskState, SetTask(h, s),
         s.pc \notin {"pay", "premium"},
         \A p \in Positions : (p \in s.todo \/ p = s.pos) => position[p].status = "active"
  PROVE  \A g \in Handlers : HandlerOK(g)'
<1> USE DEF LifecycleInv
<1>1. \A g \in Handlers : LedgerKept(g)
  BY UnchangedLedger
<1>2. HandlerOK(h)'
  BY <1>1, SetTaskSelf, HandlerSelects
<1> QED
  BY <1>1, <1>2, OthersKept, HandlersKept

\* So do the steps of a trigger cycle.
LEMMA CycleStepHandlers ==
  ASSUME LifecycleInv, RowsAdvance, NEW t \in Cycles, CycleStep(t)
  PROVE  \A g \in Handlers : HandlerOK(g)'
<1>0. /\ t \in Handlers
      /\ task[t] \in TaskState
      /\ HandlerOK(t)
      /\ WellShaped(task[t])
      /\ position \in [Positions -> PositionRow]
  BY DEF LifecycleInv, TypeOK, TablesTypeOK, Handlers, TaskShape
<1>p. task[t].pc \notin {"idle", "loop"} => task[t].pos \in Positions
  BY <1>0, TaskPosition DEF LifecycleInv
<1>1. CASE StartCycle(t)
  <2> DEFINE s(touched) == [task[t] EXCEPT !.pc = "loop", !.todo = touched]
  <2>1. PICK touched \in SUBSET ActivePositions : SetTask(t, s(touched))
    BY <1>1 DEF StartCycle
  <2>2. touched \subseteq Positions /\ \A p \in touched : position[p].status = "active"
    BY DEF ActivePositions
  <2>3. /\ s(touched) \in TaskState
        /\ s(touched).todo = touched
        /\ s(touched).pos = NoPosition
        /\ s(touched).pc = "loop"
    BY <1>0, <1>1, <2>2 DEF StartCycle, TaskState, TaskPc, WellShaped
  <2>4. UNCHANGED <<position, payouts, premiums>>
    BY <1>1 DEF StartCycle, tables, ledgerVars
  <2> QED
    BY <1>0, <2>1, <2>2, <2>3, <2>4, PositionsAssumption, SelectsAll
<1>2. CASE FireTrigger(t)
  <2> DEFINE f(p, d) == [task[t] EXCEPT !.dir = d, !.todo = @ \ {p}]
             s(p, d) == [f(p, d) EXCEPT !.pc = "retain", !.pos = p, !.legs = OpenUnretained(p)]
  <2>1. PICK p \in task[t].todo, d \in Directions : SetTask(t, s(p, d))
    BY <1>2 DEF FireTrigger, ListLegs
  <2>2. /\ p \in Positions
        /\ f(p, d) \in TaskState
        /\ f(p, d).todo = task[t].todo \ {p}
        /\ p \notin f(p, d).todo
    BY <1>0, <2>1 DEF TaskState
  <2>3. /\ s(p, d) \in TaskState
        /\ s(p, d).todo = task[t].todo \ {p}
        /\ s(p, d).pos = p
        /\ s(p, d).pc = "retain"
    BY <2>2, ListingOK DEF LifecycleInv
  <2>4. UNCHANGED <<payouts, premiums>> /\ task[t].pc = "loop"
    BY <1>2 DEF FireTrigger, ledgerVars
  <2> HIDE DEF s
  <2> QED
    BY <1>0, <2>1, <2>3, <2>4, ContinuesAll
<1>3. CASE RecordTriggerEvent(t)
  <2> DEFINE s == [task[t] EXCEPT !.pc = "mark"]
  <2>1. SetTask(t, s) /\ UNCHANGED <<payouts, premiums>> /\ task[t].pc = "retain"
    BY <1>3 DEF RecordTriggerEvent, ledgerVars
  <2>2. s \in TaskState /\ s.todo = task[t].todo /\ s.pos = task[t].pos /\ s.pc = "mark"
    BY <1>0 DEF TaskState, TaskPc
  <2> QED
    BY <1>0, <2>1, <2>2, ContinuesAll
<1>4. CASE MarkTriggered(t)
  <2> DEFINE s == [task[t] EXCEPT !.pc = "pay"]
  <2>1. SetTask(t, s) /\ UNCHANGED <<payouts, premiums>> /\ task[t].pc = "mark"
    BY <1>4 DEF MarkTriggered, ledgerVars
  <2>2. s \in TaskState /\ s.todo = task[t].todo /\ s.pos = task[t].pos /\ s.pc = "pay"
    BY <1>0 DEF TaskState, TaskPc
  <2>3. task[t].pos \in Positions /\ position[task[t].pos].status # "absent"
    BY <1>0, <1>p, <2>1 DEF HandlerOK
  <2>4. position'[task[t].pos].status \in {"triggered", "closed"}
    BY <1>0, <1>4, <2>3 DEF MarkTriggered, MarkPositionTriggered, PositionRow, PositionStatus
  <2> QED
    BY <1>0, <2>1, <2>2, <2>4, ContinuesAll DEF Ended
<1>5. CASE FireThrows(t)
  <2>1. PICK s \in TaskState : s.todo \subseteq task[t].todo /\ SetTask(t, Finished(s))
    <3>1. \A p : /\ [task[t] EXCEPT !.todo = @ \ {p}] \in TaskState
                 /\ [task[t] EXCEPT !.todo = @ \ {p}].todo \subseteq task[t].todo
      BY <1>0 DEF TaskState
    <3> QED
      BY <1>0, <1>5, <3>1 DEF FireThrows
  <2>2. UNCHANGED <<payouts, premiums>>
    BY <1>5 DEF FireThrows, ledgerVars
  <2> QED
    BY <1>0, <2>1, <2>2, FinishedOK, ContinuesAll
<1>6. CASE PayOut(t)
  <2> DEFINE s == [task[t] EXCEPT !.pc = "premium"]
  <2>1. SetTask(t, s) /\ task[t].pc = "pay" /\ UNCHANGED <<position, premiums>>
    BY <1>6 DEF PayOut, tables
  <2>2. s \in TaskState /\ s.todo = task[t].todo /\ s.pos = task[t].pos /\ s.pc = "premium"
    BY <1>0 DEF TaskState, TaskPc
  <2>3. task[t].pos \in Positions /\ task[t].pos \notin task[t].todo /\ Ended(task[t].pos)
    BY <1>0, <1>p, <2>1 DEF HandlerOK, WellShaped
  <2>4. CASE UNCHANGED payouts
    BY <1>0, <2>1, <2>2, <2>3, <2>4, ContinuesAll DEF Ended
  <2>5. CASE payouts' = AddRow(payouts, task[t].pos, t)
    <3> HIDE DEF s
    <3>1. \A p \in Positions, u \in Cycles :
            payouts'[p][u] = IF p = task[t].pos /\ u = t THEN payouts[p][u] + 1
                             ELSE payouts[p][u]
      <4>1. payouts \in [Positions -> [Cycles -> Nat]]
        BY DEF LifecycleInv, TypeOK
      <4> QED
        BY <2>3, <2>5, <4>1 DEF AddRow
    <3>2. payouts[task[t].pos][t] = 0
      BY <1>0, <2>1, <2>3 DEF HandlerOK, LifecycleInv, TypeOK
    <3>3. task'[t] = s
      BY <1>0, <2>1, SetTaskSelf DEF LifecycleInv
    <3>4. \A p \in Positions :
            payouts'[p][t] > 0 =>
              /\ payouts'[p][t] = 1
              /\ Ended(p)'
              /\ p \notin task'[t].todo
              /\ p = task'[t].pos => task'[t].pc = "premium"
      BY <1>0, <2>1, <2>2, <2>3, <3>1, <3>2, <3>3 DEF HandlerOK, Ended
    <3>5. /\ \A p \in Positions :
               (p \in task'[t].todo \/ p = task'[t].pos) => position'[p].status # "absent"
          /\ Ended(task[t].pos)'
          /\ \A p \in Positions :
               premiums'[p][t] > 0 =>
                 /\ premiums'[p][t] = 1
                 /\ Ended(p)'
                 /\ p \notin task'[t].todo
                 /\ p # task'[t].pos
      BY <1>0, <2>1, <2>2, <2>3, <3>3 DEF HandlerOK, Ended
    <3>6. HandlerOK(t)'
      BY <2>2, <3>3, <3>4, <3>5 DEF HandlerOK, Ended
    <3>7. \A g \in Handlers \ {t} : LedgerKept(g)
      BY <1>0, <2>1, <2>3, <3>1 DEF LedgerKept
    <3> QED
      BY <1>0, <2>1, <3>6, <3>7, OthersKept, HandlersKept DEF LifecycleInv
  <2> QED
    BY <1>6, <2>4, <2>5 DEF PayOut
<1> QED
  BY <1>1, <1>2, <1>3, <1>4, <1>5, <1>6 DEF CycleStep

\* So do the steps of a close request.
LEMMA CloseStepHandlers ==
  ASSUME LifecycleInv, RowsAdvance, NEW c \in Closers, CloseStep(c)
  PROVE  \A g \in Handlers : HandlerOK(g)'
<1>0. /\ c \in Handlers
      /\ task[c] \in TaskState
      /\ HandlerOK(c)
      /\ WellShaped(task[c])
      /\ position \in [Positions -> PositionRow]
  BY DEF LifecycleInv, TypeOK, TablesTypeOK, Handlers, TaskShape
<1>p. task[c].pc \notin {"idle", "loop"} => task[c].pos \in Positions
  BY <1>0, TaskPosition DEF LifecycleInv
<1>1. CASE RequestClose(c)
  <2> DEFINE s(p) == [task[c] EXCEPT !.pc = "list", !.pos = p]
  <2>1. PICK p \in ActivePositions : SetTask(c, s(p))
    BY <1>1 DEF RequestClose
  <2>2. /\ s(p) \in TaskState
        /\ s(p).todo = {}
        /\ s(p).pos = p
        /\ s(p).pc = "list"
    BY <1>0, <1>1 DEF RequestClose, ActivePositions, TaskState, TaskPc, WellShaped
  <2>3. UNCHANGED <<position, payouts, premiums>> /\ position[p].status = "active"
    BY <1>1 DEF RequestClose, ActivePositions, tables, ledgerVars
  <2> QED
    BY <1>0, <2>1, <2>2, <2>3, SelectsAll
<1>2. CASE ListLegsToClose(c)
  <2> DEFINE p == task[c].pos
             s == [task[c] EXCEPT !.pc = "retain", !.pos = p, !.legs = OpenUnretained(p)]
  <2>1. SetTask(c, s) /\ UNCHANGED <<payouts, premiums>> /\ task[c].pc = "list"
    BY <1>2 DEF ListLegsToClose, ListLegs, ledgerVars
  <2>2. p \in Positions /\ p \notin task[c].todo
    BY <1>0, <1>p, <2>1 DEF WellShaped
  <2>3. s \in TaskState /\ s.todo = task[c].todo /\ s.pos = p /\ s.pc = "retain"
    BY <1>0, <2>2, ListingOK DEF LifecycleInv
  <2> HIDE DEF s
  <2> QED
    BY <1>0, <2>1, <2>3, ContinuesAll
<1>3. CASE CloseThrows(c)
  <2>1. SetTask(c, IdleTask) /\ UNCHANGED <<payouts, premiums>>
    BY <1>3 DEF CloseThrows, ledgerVars
  <2>2. IdleTask \in TaskState /\ IdleTask.todo = {} /\ IdleTask.pos = NoPosition
        /\ IdleTask.pc = "idle"
    BY IdleTaskOK DEF IdleTask
  <2> QED
    BY <1>0, <2>1, <2>2, ContinuesAll
<1>4. CASE MarkClosed(c)
  <2> DEFINE s == [task[c] EXCEPT !.pc = "premium"]
  <2>1. UNCHANGED <<payouts, premiums>> /\ task[c].pc = "retain"
    BY <1>4 DEF MarkClosed, ledgerVars
  <2>2. CASE SetTask(c, s) /\ MarkPositionClosed(task[c].pos)
    <3>1. s \in TaskState /\ s.todo = task[c].todo /\ s.pos = task[c].pos /\ s.pc = "premium"
      BY <1>0 DEF TaskState, TaskPc
    <3>2. position'[task[c].pos].status \in {"triggered", "closed"}
      BY <1>0, <1>p, <2>1, <2>2 DEF MarkPositionClosed, PositionRow
    <3> QED
      BY <1>0, <2>1, <2>2, <3>1, <3>2, ContinuesAll DEF Ended
  <2>3. CASE SetTask(c, IdleTask)
    <3>1. IdleTask \in TaskState /\ IdleTask.todo = {} /\ IdleTask.pos = NoPosition
          /\ IdleTask.pc = "idle"
      BY IdleTaskOK DEF IdleTask
    <3> QED
      BY <1>0, <2>1, <2>3, <3>1, ContinuesAll
  <2> QED
    BY <1>4, <2>2, <2>3 DEF MarkClosed
<1> QED
  BY <1>1, <1>2, <1>3, <1>4 DEF CloseStep

\* So does every step.
LEMMA NextHandlers ==
  ASSUME LifecycleInv, RowsAdvance, [Next]_vars
  PROVE  \A g \in Handlers : HandlerOK(g)'
<1>1. ASSUME NEW p \in Positions, OpenStep(p) PROVE \A g \in Handlers : HandlerOK(g)'
  <2>1. UNCHANGED <<task, payouts, premiums>>
    BY <1>1 DEF OpenStep, OpenPosition, ListCandidates, ClaimLeg, NoCandidate, EndNetting,
       NettingThrows, BuyLeg, LegRejected, InsertLegRow, InsertLegFails, UnwindLeg,
       CloseFailedOpening, BookHedgeBuy, ledgerVars
  <2> QED
    BY <2>1, UnchangedLedger, HandlerFrame DEF LifecycleInv
<1>2. ASSUME NEW h \in Handlers, RetainLeg(h) \/ AccruePremium(h)
      PROVE  \A g \in Handlers : HandlerOK(g)'
  BY <1>2, SharedStepHandlers
<1>3. ASSUME NEW t \in Cycles, CycleStep(t) PROVE \A g \in Handlers : HandlerOK(g)'
  BY <1>3, CycleStepHandlers
<1>4. ASSUME NEW c \in Closers, CloseStep(c) PROVE \A g \in Handlers : HandlerOK(g)'
  BY <1>4, CloseStepHandlers
<1>5. CASE Restart
  <2> SUFFICES ASSUME NEW g \in Handlers PROVE HandlerOK(g)'
    OBVIOUS
  <2>1. task'[g] = IdleTask /\ UNCHANGED <<payouts, premiums>>
    BY <1>5 DEF Restart, ledgerVars
  <2>2. IdleTask \in TaskState /\ IdleTask.todo = {} /\ IdleTask.pos = NoPosition
        /\ IdleTask.pc = "idle"
    BY IdleTaskOK DEF IdleTask
  <2> QED
    BY <2>1, <2>2, UnchangedLedger, HandlerContinues DEF LifecycleInv
<1>6. CASE UNCHANGED vars
  <2>1. UNCHANGED <<task, payouts, premiums>>
    BY <1>6 DEF vars, lifecycleVars, handlerVars, ledgerVars
  <2> QED
    BY <2>1, UnchangedLedger, HandlerFrame DEF LifecycleInv
<1> QED
  BY <1>1, <1>2, <1>3, <1>4, <1>5, <1>6 DEF Next, LifecycleStep

\* The invariant is inductive.
LEMMA NextInv == LifecycleInv /\ [Next]_vars => LifecycleInv'
<1> SUFFICES ASSUME LifecycleInv, [Next]_vars PROVE LifecycleInv'
  OBVIOUS
<1>1. TypeOK' /\ TaskShape'
  BY NextTypeOK DEF LifecycleInv
<1>2. RowsOK' /\ RowsAdvance
  BY NextRows
<1>3. \A h \in Handlers : HandlerOK(h)'
  BY <1>2, NextHandlers
<1> QED
  BY <1>1, <1>2, <1>3 DEF LifecycleInv

-----------------------------------------------------------------------------
(* The theorems.                                                           *)

\* The inductive invariant holds in every behaviour.
THEOREM LifecycleInvariant == Spec => []LifecycleInv
  BY InitInv, NextInv, PTL DEF Spec

\* One loop of the detector, and one slot of the close route, bills a position
\* at most once: a payout and a premium are written behind the statement that
\* ends the position, and a handler only ever selects active positions.
THEOREM BilledOnce == Spec => []OncePerHandler
<1>1. ASSUME LifecycleInv PROVE OncePerHandler
  <2>1. ASSUME NEW p \in Positions, NEW t \in Cycles PROVE payouts[p][t] <= 1
    <3>1. payouts[p][t] \in Nat /\ (payouts[p][t] > 0 => payouts[p][t] = 1)
      BY <1>1 DEF LifecycleInv, TypeOK, HandlerOK, Handlers
    <3> QED
      BY <3>1
  <2>2. ASSUME NEW p \in Positions, NEW h \in Handlers PROVE premiums[p][h] <= 1
    <3>1. premiums[p][h] \in Nat /\ (premiums[p][h] > 0 => premiums[p][h] = 1)
      BY <1>1 DEF LifecycleInv, TypeOK, HandlerOK
    <3> QED
      BY <3>1
  <2> QED
    BY <2>1, <2>2 DEF OncePerHandler
<1> QED
  BY <1>1, LifecycleInvariant, PTL

\* A position with a payout or a premium on the ledger is never active again.
THEOREM BilledEnded == Spec => []BilledIsTerminal
<1>1. LifecycleInv => BilledIsTerminal
  BY DEF LifecycleInv, HandlerOK, BilledIsTerminal, Ended, Handlers
<1> QED
  BY <1>1, LifecycleInvariant, PTL

\* The direction a position triggered in is final.
THEOREM DirectionIsFinal == Spec => DirectionFixed
<1>1. LifecycleInv /\ [Next]_vars =>
        [\A p \in Positions : position[p].direction # "none" =>
           position'[p].direction = position[p].direction]_position
  BY NextRows DEF RowsAdvance
<1> QED
  BY <1>1, LifecycleInvariant, PTL DEF Spec, DirectionFixed

-----------------------------------------------------------------------------
(* The legs.  Without failures, and however handlers and openings           *)
(* interleave: what an opening bought or took over stays with it, and what  *)
(* an ended position had is flagged.                                        *)

-----------------------------------------------------------------------------
(* The steps of an opening, field by field.                                *)

\* The opening of p goes to a record with these fields; the others stay.
Becomes(p, c, ks, b, n, f, w) ==
  /\ opening'[p].pc = c
  /\ opening'[p].kinds = ks
  /\ opening'[p].buy = b
  /\ opening'[p].netted = n
  /\ opening'[p].filled = f
  /\ opening'[p].work = w
  /\ \A q \in Positions \ {p} : opening'[q] = opening[q]

\* Setting the record of one opening.
LEMMA OpeningSet ==
  ASSUME TypeOK, NEW p \in Positions, NEW o, SetOpening(p, o)
  PROVE  opening'[p] = o /\ \A q \in Positions \ {p} : opening'[q] = opening[q]
  BY DEF TypeOK, SetOpening

\* The fields each step of the netting loop sets.
LEMMA NettingFields ==
  ASSUME TypeOK, NEW p \in Positions
  PROVE  LET o == opening[p]
             k == FirstKind(o.kinds)
         IN
         /\ OpenPosition(p) => Becomes(p, "list", o.kinds, o.buy, o.netted, o.filled, o.work)
         /\ ListCandidates(p) => Becomes(p, "net", Kinds, o.buy, o.netted, o.filled, o.work)
         /\ ClaimLeg(p) =>
              \E l \in Legs :
                /\ l[2] = k
                /\ RepurposeHedgeLeg(l, p)
                /\ Becomes(p, o.pc, o.kinds \ {k},
                           IF CanRepurpose(l) THEN o.buy ELSE o.buy \cup {k},
                           IF CanRepurpose(l) THEN o.netted \cup {l} ELSE o.netted,
                           o.filled, o.work)
         /\ NoCandidate(p) =>
              Becomes(p, o.pc, o.kinds \ {k}, o.buy \cup {k}, o.netted, o.filled, o.work)
         /\ EndNetting(p) =>
              IF o.buy = {}
              THEN Becomes(p, "insert", o.kinds, o.buy, o.netted, o.filled, o.filled)
              ELSE Becomes(p, "buy", o.kinds, o.buy, o.netted, o.filled, o.work)
         /\ NettingThrows(p) =>
              Becomes(p, "failed", o.kinds, o.buy, o.netted, o.filled, o.work)
<1> DEFINE o == opening[p]
           k == FirstKind(o.kinds)
<1>0. o \in OpeningState
  BY DEF TypeOK
<1>1. ASSUME OpenPosition(p)
      PROVE  Becomes(p, "list", o.kinds, o.buy, o.netted, o.filled, o.work)
  <2>1. /\ opening'[p] = [o EXCEPT !.pc = "list"]
        /\ \A q \in Positions \ {p} : opening'[q] = opening[q]
    BY <1>1, OpeningSet DEF OpenPosition
  <2> QED
    BY <1>0, <2>1 DEF Becomes, OpeningState
<1>2. ASSUME ListCandidates(p)
      PROVE  Becomes(p, "net", Kinds, o.buy, o.netted, o.filled, o.work)
  <2>1. /\ opening'[p] = [o EXCEPT !.pc = "net", !.kinds = Kinds,
                               !.cand = {l \in RetainedLegs : leg[l].hops < MaxHops}]
        /\ \A q \in Positions \ {p} : opening'[q] = opening[q]
    BY <1>2, OpeningSet DEF ListCandidates
  <2> QED
    BY <1>0, <2>1 DEF Becomes, OpeningState
<1>3. ASSUME ClaimLeg(p)
      PROVE  \E l \in Legs :
                /\ l[2] = k
                /\ RepurposeHedgeLeg(l, p)
                /\ Becomes(p, o.pc, o.kinds \ {k},
                           IF CanRepurpose(l) THEN o.buy ELSE o.buy \cup {k},
                           IF CanRepurpose(l) THEN o.netted \cup {l} ELSE o.netted,
                           o.filled, o.work)
  <2> DEFINE n(l) == [o EXCEPT !.kinds = @ \ {k},
                        !.netted = IF CanRepurpose(l) THEN @ \cup {l} ELSE @,
                        !.buy    = IF CanRepurpose(l) THEN @ ELSE @ \cup {k}]
  <2>1. PICK l \in Legs : l[2] = k /\ RepurposeHedgeLeg(l, p) /\ SetOpening(p, n(l))
    BY <1>0, <1>3 DEF ClaimLeg, OpeningState
  <2>2. opening'[p] = n(l) /\ \A q \in Positions \ {p} : opening'[q] = opening[q]
    BY <2>1, OpeningSet
  <2>3. Becomes(p, o.pc, o.kinds \ {k},
                IF CanRepurpose(l) THEN o.buy ELSE o.buy \cup {k},
                IF CanRepurpose(l) THEN o.netted \cup {l} ELSE o.netted,
                o.filled, o.work)
    BY <1>0, <2>2 DEF Becomes, OpeningState
  <2> QED
    BY <2>1, <2>3
<1>4. ASSUME NoCandidate(p)
      PROVE  Becomes(p, o.pc, o.kinds \ {k}, o.buy \cup {k}, o.netted, o.filled, o.work)
  <2>1. /\ opening'[p] = [o EXCEPT !.kinds = @ \ {k}, !.buy = @ \cup {k}]
        /\ \A q \in Positions \ {p} : opening'[q] = opening[q]
    BY <1>4, OpeningSet DEF NoCandidate
  <2> QED
    BY <1>0, <2>1 DEF Becomes, OpeningState
<1>5. ASSUME EndNetting(p)
      PROVE  IF o.buy = {}
             THEN Becomes(p, "insert", o.kinds, o.buy, o.netted, o.filled, o.filled)
             ELSE Becomes(p, "buy", o.kinds, o.buy, o.netted, o.filled, o.work)
  <2> DEFINE n == [o EXCEPT !.pc = "buy", !.cand = {}]
  <2>1. opening'[p] = ToInsert(n) /\ \A q \in Positions \ {p} : opening'[q] = opening[q]
    BY <1>5, OpeningSet DEF EndNetting
  <2>2. /\ n.pc = "buy" /\ n.kinds = o.kinds /\ n.buy = o.buy
        /\ n.netted = o.netted /\ n.filled = o.filled /\ n.work = o.work
        /\ n \in OpeningState
    BY <1>0 DEF OpeningState, OpeningPc
  <2> HIDE DEF n
  <2>3. CASE o.buy = {}
    <3>1. opening'[p] = [n EXCEPT !.pc = "insert", !.work = n.filled]
      BY <2>1, <2>2, <2>3 DEF ToInsert
    <3> QED
      BY <2>1, <2>2, <2>3, <3>1 DEF Becomes, OpeningState
  <2>4. CASE o.buy # {}
    BY <2>1, <2>2, <2>4 DEF ToInsert, Becomes
  <2> QED
    BY <2>3, <2>4
<1>6. ASSUME NettingThrows(p)
      PROVE  Becomes(p, "failed", o.kinds, o.buy, o.netted, o.filled, o.work)
  <2>1. /\ opening'[p] = [o EXCEPT !.pc = "failed", !.cand = {}]
        /\ \A q \in Positions \ {p} : opening'[q] = opening[q]
    BY <1>6, OpeningSet DEF NettingThrows
  <2> QED
    BY <1>0, <2>1 DEF Becomes, OpeningState
<1> QED
  BY <1>1, <1>2, <1>3, <1>4, <1>5, <1>6

\* The fields each later step of an opening sets.
LEMMA PurchaseFields ==
  ASSUME TypeOK, NEW p \in Positions
  PROVE  LET o == opening[p]
             k == FirstKind(o.buy)
             f == o.filled \cup {<<p, k>>}
         IN
         /\ BuyLeg(p) =>
              IF o.buy \ {k} = {}
              THEN Becomes(p, "insert", o.kinds, {}, o.netted, f, f)
              ELSE Becomes(p, "buy", o.kinds, o.buy \ {k}, o.netted, f, o.work)
         /\ LegRejected(p) \/ InsertLegFails(p) =>
              Becomes(p, "unwind", o.kinds, o.buy, o.netted, o.filled, o.filled)
         /\ InsertLegRow(p) =>
              \E l \in o.work :
                /\ InsertHedgeLeg(l)
                /\ Becomes(p, o.pc, o.kinds, o.buy, o.netted, o.filled, o.work \ {l})
         /\ UnwindLeg(p) =>
              \E l \in o.work :
                /\ \/ held' = [held EXCEPT ![l] = @ - 1] /\ UNCHANGED orphans
                   \/ orphans' = orphans \cup {l} /\ UNCHANGED held
                /\ Becomes(p, o.pc, o.kinds, o.buy, o.netted, o.filled, o.work \ {l})
         /\ CloseFailedOpening(p) =>
              Becomes(p, "failed", o.kinds, o.buy, o.netted, o.filled, o.work)
         /\ BookHedgeBuy(p) =>
              Becomes(p, "done", o.kinds, o.buy, o.netted, o.filled, o.work)
<1> DEFINE o == opening[p]
           k == FirstKind(o.buy)
           f == o.filled \cup {<<p, k>>}
<1>0. o \in OpeningState
  BY DEF TypeOK
<1>1. ASSUME BuyLeg(p)
      PROVE  IF o.buy \ {k} = {}
             THEN Becomes(p, "insert", o.kinds, {}, o.netted, f, f)
             ELSE Becomes(p, "buy", o.kinds, o.buy \ {k}, o.netted, f, o.work)
  <2> DEFINE n == [o EXCEPT !.buy = @ \ {k}, !.filled = @ \cup {<<p, k>>}]
  <2>1. opening'[p] = ToInsert(n) /\ \A q \in Positions \ {p} : opening'[q] = opening[q]
    BY <1>1, OpeningSet DEF BuyLeg
  <2>0. k \in Kinds /\ <<p, k>> \in Legs
    BY <1>0, <1>1, FirstKindType DEF BuyLeg, OpeningState, Legs
  <2>2. /\ n.pc = "buy" /\ n.kinds = o.kinds /\ n.buy = o.buy \ {k}
        /\ n.netted = o.netted /\ n.filled = f /\ n.work = o.work
        /\ n \in OpeningState
    BY <1>0, <1>1, <2>0 DEF BuyLeg, OpeningState
  <2> HIDE DEF n, f
  <2>3. CASE o.buy \ {k} = {}
    <3>1. opening'[p] = [n EXCEPT !.pc = "insert", !.work = n.filled]
      BY <2>1, <2>2, <2>3 DEF ToInsert
    <3> QED
      BY <2>1, <2>2, <2>3, <3>1 DEF Becomes, OpeningState
  <2>4. CASE o.buy \ {k} # {}
    BY <2>1, <2>2, <2>4 DEF ToInsert, Becomes
  <2> QED
    BY <2>3, <2>4
<1>2. ASSUME LegRejected(p) \/ InsertLegFails(p)
      PROVE  Becomes(p, "unwind", o.kinds, o.buy, o.netted, o.filled, o.filled)
  <2>1. /\ opening'[p] = [o EXCEPT !.pc = "unwind", !.work = o.filled]
        /\ \A q \in Positions \ {p} : opening'[q] = opening[q]
    BY <1>2, OpeningSet DEF LegRejected, InsertLegFails
  <2> QED
    BY <1>0, <2>1 DEF Becomes, OpeningState
<1>a. \A l : /\ [o EXCEPT !.work = @ \ {l}].pc = o.pc
             /\ [o EXCEPT !.work = @ \ {l}].kinds = o.kinds
             /\ [o EXCEPT !.work = @ \ {l}].buy = o.buy
             /\ [o EXCEPT !.work = @ \ {l}].netted = o.netted
             /\ [o EXCEPT !.work = @ \ {l}].filled = o.filled
             /\ [o EXCEPT !.work = @ \ {l}].work = o.work \ {l}
  BY <1>0 DEF OpeningState
<1>3. ASSUME InsertLegRow(p)
      PROVE  \E l \in o.work :
                /\ InsertHedgeLeg(l)
                /\ Becomes(p, o.pc, o.kinds, o.buy, o.netted, o.filled, o.work \ {l})
  <2>1. PICK l \in o.work : InsertHedgeLeg(l) /\ SetOpening(p, [o EXCEPT !.work = @ \ {l}])
    BY <1>3 DEF InsertLegRow
  <2>2. /\ opening'[p] = [o EXCEPT !.work = @ \ {l}]
        /\ \A q \in Positions \ {p} : opening'[q] = opening[q]
    BY <2>1, OpeningSet
  <2> QED
    BY <1>a, <2>1, <2>2 DEF Becomes
<1>4. ASSUME UnwindLeg(p)
      PROVE  \E l \in o.work :
                /\ \/ held' = [held EXCEPT ![l] = @ - 1] /\ UNCHANGED orphans
                   \/ orphans' = orphans \cup {l} /\ UNCHANGED held
                /\ Becomes(p, o.pc, o.kinds, o.buy, o.netted, o.filled, o.work \ {l})
  <2>1. PICK l \in o.work :
          /\ SetOpening(p, [o EXCEPT !.work = @ \ {l}])
          /\ \/ held' = [held EXCEPT ![l] = @ - 1] /\ UNCHANGED orphans
             \/ orphans' = orphans \cup {l} /\ UNCHANGED held
    BY <1>4 DEF UnwindLeg
  <2>2. /\ opening'[p] = [o EXCEPT !.work = @ \ {l}]
        /\ \A q \in Positions \ {p} : opening'[q] = opening[q]
    BY <2>1, OpeningSet
  <2>3. Becomes(p, o.pc, o.kinds, o.buy, o.netted, o.filled, o.work \ {l})
    BY <1>a, <2>2 DEF Becomes
  <2> QED
    BY <2>1, <2>3
<1>5. ASSUME CloseFailedOpening(p)
      PROVE  Becomes(p, "failed", o.kinds, o.buy, o.netted, o.filled, o.work)
  <2>1. /\ opening'[p] = [o EXCEPT !.pc = "failed"]
        /\ \A q \in Positions \ {p} : opening'[q] = opening[q]
    BY <1>5, OpeningSet DEF CloseFailedOpening
  <2> QED
    BY <1>0, <2>1 DEF Becomes, OpeningState
<1>6. ASSUME BookHedgeBuy(p)
      PROVE  Becomes(p, "done", o.kinds, o.buy, o.netted, o.filled, o.work)
  <2>1. /\ opening'[p] = [o EXCEPT !.pc = "done"]
        /\ \A q \in Positions \ {p} : opening'[q] = opening[q]
    BY <1>6, OpeningSet DEF BookHedgeBuy
  <2> QED
    BY <1>0, <2>1 DEF Becomes, OpeningState
<1> QED
  BY <1>1, <1>2, <1>3, <1>4, <1>5, <1>6

\* An opening whose record does not change keeps what it holds.
LEMMA OpeningKept ==
  ASSUME NEW q \in Positions, OpeningOK(q), opening'[q] = opening[q]
  PROVE  OpeningOK(q)'
  BY DEF OpeningOK, OpeningShape, KindsCovered

\* A step of one opening leaves the others alone.
LEMMA OtherOpenings ==
  ASSUME TypeOK, NEW p \in Positions, OpenStep(p)
  PROVE  \A q \in Positions \ {p} : opening'[q] = opening[q]
<1>1. CASE OpenPosition(p) \/ ListCandidates(p) \/ ClaimLeg(p) \/ NoCandidate(p)
           \/ EndNetting(p) \/ NettingThrows(p)
  BY <1>1, NettingFields, Zenon DEF Becomes
<1>2. CASE BuyLeg(p) \/ LegRejected(p) \/ InsertLegRow(p) \/ InsertLegFails(p)
           \/ UnwindLeg(p) \/ CloseFailedOpening(p) \/ BookHedgeBuy(p)
  BY <1>2, PurchaseFields, Zenon DEF Becomes
<1> QED
  BY <1>1, <1>2 DEF OpenStep

\* The steps of the netting loop keep what the opening holds.
LEMMA NettingOpening ==
  ASSUME TypeOK, NEW p \in Positions, OpeningOK(p)
  PROVE  /\ OpenPosition(p) => OpeningOK(p)'
         /\ ListCandidates(p) => OpeningOK(p)'
         /\ ClaimLeg(p) => OpeningOK(p)'
         /\ NoCandidate(p) => OpeningOK(p)'
         /\ EndNetting(p) => OpeningOK(p)'
         /\ NettingThrows(p) => OpeningOK(p)'
<1> DEFINE o == opening[p]
           k == FirstKind(o.kinds)
<1>0. OpeningShape(p) /\ KindsCovered(p) /\ o \in OpeningState
  BY DEF TypeOK, OpeningOK
<1>1. ASSUME OpenPosition(p) PROVE OpeningOK(p)'
  <2>1. o.pc = "none" /\ Becomes(p, "list", o.kinds, o.buy, o.netted, o.filled, o.work)
    BY <1>1, NettingFields DEF OpenPosition
  <2> QED
    BY <1>0, <2>1 DEF Becomes, OpeningOK, OpeningShape, KindsCovered
<1>2. ASSUME ListCandidates(p) PROVE OpeningOK(p)'
  <2>1. o.pc = "list" /\ Becomes(p, "net", Kinds, o.buy, o.netted, o.filled, o.work)
    BY <1>2, NettingFields DEF ListCandidates
  <2> QED
    BY <1>0, <2>1 DEF Becomes, OpeningOK, OpeningShape, KindsCovered
<1>3. ASSUME ClaimLeg(p) PROVE OpeningOK(p)'
  <2>1. /\ o.pc = "net"
        /\ \E l \in Legs :
             /\ l[2] = k
             /\ Becomes(p, o.pc, o.kinds \ {k},
                        IF CanRepurpose(l) THEN o.buy ELSE o.buy \cup {k},
                        IF CanRepurpose(l) THEN o.netted \cup {l} ELSE o.netted,
                        o.filled, o.work)
    BY <1>3, NettingFields, Zenon DEF ClaimLeg
  <2>2. PICK l \in Legs :
             /\ l[2] = k
             /\ Becomes(p, "net", o.kinds \ {k},
                        IF CanRepurpose(l) THEN o.buy ELSE o.buy \cup {k},
                        IF CanRepurpose(l) THEN o.netted \cup {l} ELSE o.netted,
                        o.filled, o.work)
    BY <2>1
  <2> HIDE DEF k
  <2>3. OpeningShape(p)'
    BY <1>0, <2>1, <2>2 DEF Becomes, OpeningShape
  <2>4. KindsCovered(p)'
    BY <1>0, <2>1, <2>2 DEF Becomes, KindsCovered
  <2> QED
    BY <2>3, <2>4 DEF OpeningOK
<1>4. ASSUME NoCandidate(p) PROVE OpeningOK(p)'
  <2>1. /\ o.pc = "net"
        /\ Becomes(p, "net", o.kinds \ {k}, o.buy \cup {k}, o.netted, o.filled, o.work)
    BY <1>4, NettingFields DEF NoCandidate
  <2> HIDE DEF k
  <2>3. OpeningShape(p)'
    BY <1>0, <2>1 DEF Becomes, OpeningShape
  <2>4. KindsCovered(p)'
    BY <1>0, <2>1 DEF Becomes, KindsCovered
  <2> QED
    BY <2>3, <2>4 DEF OpeningOK
<1>5. ASSUME EndNetting(p) PROVE OpeningOK(p)'
  <2>1. o.pc = "net" /\ o.kinds = {}
    BY <1>5 DEF EndNetting
  <2>2. \/ /\ o.buy = {}
           /\ Becomes(p, "insert", o.kinds, o.buy, o.netted, o.filled, o.filled)
        \/ Becomes(p, "buy", o.kinds, o.buy, o.netted, o.filled, o.work)
    BY <1>5, NettingFields
  <2>3. OpeningShape(p)'
    BY <1>0, <2>1, <2>2 DEF Becomes, OpeningShape
  <2>4. KindsCovered(p)'
    BY <1>0, <2>1, <2>2 DEF Becomes, KindsCovered
  <2> QED
    BY <2>3, <2>4 DEF OpeningOK
<1>6. ASSUME NettingThrows(p) PROVE OpeningOK(p)'
  <2>1. Becomes(p, "failed", o.kinds, o.buy, o.netted, o.filled, o.work)
    BY <1>6, NettingFields
  <2> QED
    BY <1>0, <2>1 DEF Becomes, OpeningOK, OpeningShape, KindsCovered
<1> QED
  BY <1>1, <1>2, <1>3, <1>4, <1>5, <1>6

\* So do the steps behind it.
LEMMA PurchaseOpening ==
  ASSUME TypeOK, NEW p \in Positions, OpeningOK(p)
  PROVE  /\ BuyLeg(p) => OpeningOK(p)'
         /\ LegRejected(p) \/ InsertLegFails(p) => OpeningOK(p)'
         /\ InsertLegRow(p) \/ UnwindLeg(p) => OpeningOK(p)'
         /\ CloseFailedOpening(p) => OpeningOK(p)'
         /\ BookHedgeBuy(p) => OpeningOK(p)'
<1> DEFINE o == opening[p]
           k == FirstKind(o.buy)
           f == o.filled \cup {<<p, k>>}
<1>0. OpeningShape(p) /\ KindsCovered(p) /\ o \in OpeningState
  BY DEF TypeOK, OpeningOK
<1>1. ASSUME BuyLeg(p) PROVE OpeningOK(p)'
  <2>1. o.pc = "buy" /\ k \in Kinds /\ k \in o.buy
    BY <1>0, <1>1, FirstKindType DEF BuyLeg, OpeningState
  <2>2. \/ /\ o.buy \ {k} = {}
           /\ Becomes(p, "insert", o.kinds, {}, o.netted, f, f)
        \/ Becomes(p, "buy", o.kinds, o.buy \ {k}, o.netted, f, o.work)
    BY <1>1, PurchaseFields
  <2> HIDE DEF k
  <2>3. OpeningShape(p)'
    BY <1>0, <2>1, <2>2 DEF Becomes, OpeningShape
  <2>4. KindsCovered(p)'
    <3>1. \A j \in Kinds : j \in o.buy \/ \E l \in o.netted \cup o.filled : l[2] = j
      BY <1>0, <2>1 DEF KindsCovered
    <3>2. \A j \in Kinds : j \in o.buy \ {k} \/ \E l \in o.netted \cup f : l[2] = j
      <4>1. <<p, k>> \in f /\ <<p, k>>[2] = k
        OBVIOUS
      <4> HIDE DEF f
      <4>2. o.filled \subseteq f
        BY DEF f
      <4> QED
        BY <3>1, <4>1, <4>2
    <3> HIDE DEF f
    <3> QED
      BY <2>2, <3>2 DEF Becomes, KindsCovered
  <2> QED
    BY <2>3, <2>4 DEF OpeningOK
<1>2. ASSUME LegRejected(p) \/ InsertLegFails(p) PROVE OpeningOK(p)'
  <2>1. Becomes(p, "unwind", o.kinds, o.buy, o.netted, o.filled, o.filled)
    BY <1>2, PurchaseFields
  <2> QED
    BY <1>0, <2>1 DEF Becomes, OpeningOK, OpeningShape, KindsCovered
<1>3. ASSUME InsertLegRow(p) \/ UnwindLeg(p) PROVE OpeningOK(p)'
  <2>1. /\ o.pc \in {"insert", "unwind"}
        /\ \E l \in o.work :
             Becomes(p, o.pc, o.kinds, o.buy, o.netted, o.filled, o.work \ {l})
    BY <1>3, PurchaseFields, Zenon DEF InsertLegRow, UnwindLeg
  <2> QED
    BY <1>0, <2>1 DEF Becomes, OpeningOK, OpeningShape, KindsCovered
<1>4. ASSUME CloseFailedOpening(p) PROVE OpeningOK(p)'
  <2>1. Becomes(p, "failed", o.kinds, o.buy, o.netted, o.filled, o.work)
    BY <1>4, PurchaseFields
  <2> QED
    BY <1>0, <2>1 DEF Becomes, OpeningOK, OpeningShape, KindsCovered
<1>5. ASSUME BookHedgeBuy(p) PROVE OpeningOK(p)'
  <2>1. o.pc = "insert" /\ Becomes(p, "done", o.kinds, o.buy, o.netted, o.filled, o.work)
    BY <1>5, PurchaseFields DEF BookHedgeBuy
  <2> QED
    BY <1>0, <2>1 DEF Becomes, OpeningOK, OpeningShape, KindsCovered
<1> QED
  BY <1>1, <1>2, <1>3, <1>4, <1>5

\* Every step of an opening request keeps what openings hold.
LEMMA OpenStepOpening ==
  ASSUME TypeOK, \A q \in Positions : OpeningOK(q), NEW p \in Positions, OpenStep(p)
  PROVE  \A q \in Positions : OpeningOK(q)'
<1>1. OpeningOK(p)'
  BY NettingOpening, PurchaseOpening DEF OpenStep
<1>2. \A q \in Positions \ {p} : OpeningOK(q)'
  BY OtherOpenings, OpeningKept
<1> QED
  BY <1>1, <1>2

\* A failure is never undone.
LEMMA FaultCounted ==
  ASSUME faults \in Nat
  PROVE  /\ Fault => faults' # 0
         /\ NoFault => faults' = faults
  BY DEF Fault, NoFault

\* The row of a leg keeps its status, and its owner until it is re-pointed.
SameRow(l) ==
  /\ leg'[l].status = leg[l].status
  /\ \/ leg'[l] = leg[l]
     \/ /\ leg[l].status # "absent"
        /\ leg'[l].hops # 0 \/ (leg'[l].hops = leg[l].hops /\ leg'[l].owner = leg[l].owner)

\* A step that changes neither the leg's status nor its contract nor what its
\* opening holds.
LEMMA LegKept ==
  ASSUME NEW l \in Legs, LegOK(l), SameRow(l), held'[l] = held[l],
         orphans \subseteq orphans', faults' = 0 => faults = 0,
         opening'[l[1]].pc = opening[l[1]].pc,
         opening'[l[1]].filled = opening[l[1]].filled,
         opening'[l[1]].work = opening[l[1]].work
  PROVE  LegOK(l)' /\ (LegSound(l) => LegSound(l)')
  BY DEF LegOK, LegSound, SameRow

\* The leg an opening re-points.
LEMMA Repurposed ==
  ASSUME TypeOK, NEW m \in Legs, NEW p \in Positions, RepurposeHedgeLeg(m, p)
  PROVE  /\ \A l \in Legs \ {m} : leg'[l] = leg[l]
         /\ ~CanRepurpose(m) => leg'[m] = leg[m]
         /\ CanRepurpose(m) =>
              /\ leg[m].status = "open" /\ leg[m].retained /\ leg[m].hops < MaxHops
              /\ leg'[m].status = "open"
              /\ leg'[m].owner = p
              /\ ~leg'[m].retained
              /\ leg'[m].hops = leg[m].hops + 1
<1>1. leg[m] \in LegRow /\ leg \in [Legs -> LegRow]
  BY DEF TypeOK, TablesTypeOK
<1>2. CASE CanRepurpose(m)
  <2>1. leg' = [leg EXCEPT ![m] = [leg[m] EXCEPT !.owner = p, !.retained = FALSE,
                                                !.hops = @ + 1]]
    BY <1>2 DEF RepurposeHedgeLeg
  <2>2. leg'[m] = [leg[m] EXCEPT !.owner = p, !.retained = FALSE, !.hops = @ + 1]
    BY <1>1, <2>1
  <2>3. \A l \in Legs \ {m} : leg'[l] = leg[l]
    BY <1>1, <2>1
  <2> DEFINE r == leg[m]
  <2>4. r \in LegRow /\ leg'[m] = [r EXCEPT !.owner = p, !.retained = FALSE, !.hops = r.hops + 1]
    BY <1>1, <2>2
  <2> HIDE DEF r
  <2>5. /\ leg'[m].status = r.status /\ leg'[m].owner = p
        /\ leg'[m].retained = FALSE /\ leg'[m].hops = r.hops + 1
    BY <2>4 DEF LegRow
  <2> USE DEF r
  <2> QED
    BY <1>2, <2>3, <2>5 DEF CanRepurpose
<1>3. CASE ~CanRepurpose(m)
  BY <1>3 DEF RepurposeHedgeLeg
<1> QED
  BY <1>2, <1>3

\* The row an opening inserts.
LEMMA Inserted ==
  ASSUME TypeOK, NEW m \in Legs, InsertHedgeLeg(m)
  PROVE  /\ \A l \in Legs \ {m} : leg'[l] = leg[l]
         /\ leg'[m].status = "open"
         /\ leg'[m].owner = leg[m].owner
         /\ leg'[m].retained = leg[m].retained
         /\ leg'[m].hops = leg[m].hops
<1>1. leg[m] \in LegRow /\ leg \in [Legs -> LegRow]
  BY DEF TypeOK, TablesTypeOK
<1> QED
  BY <1>1 DEF InsertHedgeLeg, LegRow

\* The steps of an opening keep the rows and contracts of the others.
LEMMA OthersRow ==
  ASSUME TypeOK, \A q \in Positions : OpeningOK(q), NEW p \in Positions, OpenStep(p),
         NEW l \in Legs, l[1] # p
  PROVE  held'[l] = held[l] /\ SameRow(l)
<1>0. /\ opening[p].work \subseteq Legs
      /\ \A m \in opening[p].work : m[1] = p
      /\ leg \in [Legs -> LegRow] /\ held \in [Legs -> Int]
  BY DEF Legs, TypeOK, TablesTypeOK, OpeningOK, OpeningShape
<1>1. held'[l] = held[l]
  <2>1. CASE BuyLeg(p)
    BY <1>0, <2>1 DEF BuyLeg
  <2>2. CASE UnwindLeg(p)
    BY <1>0, <2>2 DEF UnwindLeg
  <2>3. CASE ~BuyLeg(p) /\ ~UnwindLeg(p)
    BY <2>3 DEF OpenStep, OpenPosition, ListCandidates, ClaimLeg, NoCandidate, EndNetting,
     NettingThrows, LegRejected, InsertLegRow, InsertLegFails,
     CloseFailedOpening, BookHedgeBuy, tables
  <2> QED
    BY <2>1, <2>2, <2>3
<1>2. SameRow(l)
  <2>1. CASE ClaimLeg(p)
    <3>1. PICK m \in Legs : RepurposeHedgeLeg(m, p)
      BY <2>1, NettingFields
    <3>2. leg[m].hops \in Nat
      BY <1>0 DEF LegRow
    <3> QED
      BY <3>1, <3>2, Repurposed DEF SameRow
  <2>2. CASE InsertLegRow(p)
    <3>1. PICK m \in opening[p].work : InsertHedgeLeg(m)
      BY <2>2 DEF InsertLegRow
    <3>2. m # l /\ m \in Legs
      BY <1>0
    <3>3. leg'[l] = leg[l]
      BY <3>1, <3>2, Inserted
    <3> QED
      BY <3>3 DEF SameRow
  <2>3. CASE ~ClaimLeg(p) /\ ~InsertLegRow(p)
    <3>1. UNCHANGED leg
      BY <2>3 DEF OpenStep, OpenPosition, ListCandidates, NoCandidate, EndNetting,
       NettingThrows, BuyLeg, LegRejected, InsertLegFails, UnwindLeg,
       CloseFailedOpening, BookHedgeBuy, tables
    <3> QED
      BY <3>1 DEF SameRow
  <2> QED
    BY <2>1, <2>2, <2>3
<1> QED
  BY <1>1, <1>2

\* The steps of an opening keep the legs of the other openings.
LEMMA OtherLegs ==
  ASSUME TypeOK, \A q \in Positions : OpeningOK(q), NEW p \in Positions, OpenStep(p),
         NEW l \in Legs, LegOK(l), l[1] # p
  PROVE  LegOK(l)' /\ (faults' = 0 /\ LegSound(l) => LegSound(l)')
<1>0. /\ l[1] \in Positions /\ opening'[l[1]] = opening[l[1]]
      /\ faults \in Nat
  BY OtherOpenings DEF Legs, TypeOK, TablesTypeOK
<1>1. orphans \subseteq orphans'
  BY DEF OpenStep, OpenPosition, ListCandidates, ClaimLeg, NoCandidate, EndNetting,
     NettingThrows, BuyLeg, LegRejected, InsertLegRow, InsertLegFails, UnwindLeg,
     CloseFailedOpening, BookHedgeBuy
<1>2. faults' = 0 => faults = 0
  BY <1>0, FaultCounted
  DEF OpenStep, OpenPosition, ListCandidates, ClaimLeg, NoCandidate, EndNetting,
     NettingThrows, BuyLeg, LegRejected, InsertLegRow, InsertLegFails, UnwindLeg,
     CloseFailedOpening, BookHedgeBuy
<1> QED
  BY <1>0, <1>1, <1>2, OthersRow, LegKept

\* The netting steps keep the legs of their own opening: it has bought none.
LEMMA OwnLegsNetting ==
  ASSUME TypeOK, NEW p \in Positions, OpeningOK(p), NEW l \in Legs, l[1] = p, LegOK(l),
         \/ OpenPosition(p) \/ ListCandidates(p) \/ ClaimLeg(p) \/ NoCandidate(p)
         \/ EndNetting(p) \/ NettingThrows(p)
  PROVE  LegOK(l)' /\ (faults' = 0 /\ LegSound(l) => LegSound(l)')
<1> DEFINE o == opening[p]
<1>0. /\ o.pc \in {"none", "list", "net"} /\ o.filled = {} /\ o.work = {}
      /\ leg \in [Legs -> LegRow]
  BY DEF OpenPosition, ListCandidates, ClaimLeg, NoCandidate, EndNetting, NettingThrows,
         OpeningOK, OpeningShape, TypeOK, TablesTypeOK
<1>1. leg[l].status = "absent" /\ held[l] = 0 /\ ~leg[l].retained
  BY <1>0 DEF LegOK
<1>2. leg'[l] = leg[l] /\ UNCHANGED <<held, orphans>>
  <2>1. CASE ClaimLeg(p)
    <3>1. PICK m \in Legs : RepurposeHedgeLeg(m, p)
      BY <2>1, NettingFields
    <3>2. CanRepurpose(m) => m # l
      BY <1>1 DEF CanRepurpose
    <3> QED
      BY <2>1, <3>1, <3>2, Repurposed DEF ClaimLeg
  <2>2. CASE ~ClaimLeg(p)
    BY <2>2 DEF OpenPosition, ListCandidates, NoCandidate, EndNetting, NettingThrows, tables
  <2> QED
    BY <2>1, <2>2
<1>3. /\ opening'[p].filled = {} /\ opening'[p].work = {}
      /\ opening'[p].pc \in {"list", "net", "insert", "buy", "failed"}
  BY <1>0, NettingFields DEF Becomes, ClaimLeg, NoCandidate
<1>4. LegOK(l)'
  BY <1>1, <1>2, <1>3 DEF LegOK
<1>5. LegSound(l)'
  BY <1>1, <1>2, <1>3 DEF LegSound
<1> QED
  BY <1>4, <1>5

\* So does buying, ...
LEMMA OwnLegsBuy ==
  ASSUME TypeOK, NEW p \in Positions, OpeningOK(p), NEW l \in Legs, l[1] = p, LegOK(l),
         BuyLeg(p)
  PROVE  LegOK(l)' /\ (faults' = 0 /\ LegSound(l) => LegSound(l)')
<1> DEFINE o == opening[p]
           k == FirstKind(o.buy)
           m == <<p, k>>
           f == o.filled \cup {m}
<1>0. /\ o.pc = "buy" /\ k \in o.buy /\ m \in Legs /\ m \notin o.filled
      /\ o.work \subseteq o.filled
      /\ held \in [Legs -> Int]
      /\ held' = [held EXCEPT ![m] = @ + 1]
      /\ UNCHANGED <<leg, orphans, faults>>
  BY FirstKindType
  DEF BuyLeg, TypeOK, TablesTypeOK, OpeningState, OpeningOK, OpeningShape, Legs, NoFault
<1>1. \/ opening'[p].pc = "buy" /\ opening'[p].filled = f /\ opening'[p].work = o.work
      \/ opening'[p].pc = "insert" /\ opening'[p].filled = f /\ opening'[p].work = f
  BY PurchaseFields DEF Becomes
<1> HIDE DEF m
<1>2. held[l] \in Int /\ held'[l] = IF l = m THEN held[l] + 1 ELSE held[l]
  BY <1>0
<1>3. l \notin o.filled => leg[l].status = "absent" /\ held[l] = 0
  BY DEF LegOK
<1>4. LegOK(l)'
  BY <1>0, <1>1, <1>2, <1>3 DEF LegOK
<1>5. ASSUME LegSound(l), faults' = 0 PROVE LegSound(l)'
  <2>1. leg[l].status = "absent" /\ leg'[l].status = "absent"
    BY <1>0, <1>5 DEF LegSound
  <2>2. l \in f => held'[l] = 1
    <3>1. CASE l = m
      <4>1. opening'[p].filled = f /\ held[l] = 0
        BY <1>0, <1>1, <1>3, <3>1
      <4> QED
        BY <1>2, <3>1, <4>1
    <3>2. CASE l # m
      BY <1>0, <1>2, <1>5, <3>2 DEF LegSound
    <3> QED
      BY <3>1, <3>2
  <2> HIDE DEF f
  <2> QED
    BY <1>1, <2>1, <2>2 DEF LegSound
<1> QED
  BY <1>4, <1>5

\* ... inserting the rows, ...
LEMMA OwnLegsInsert ==
  ASSUME TypeOK, NEW p \in Positions, OpeningOK(p), NEW l \in Legs, l[1] = p, LegOK(l),
         InsertLegRow(p)
  PROVE  LegOK(l)' /\ (faults' = 0 /\ LegSound(l) => LegSound(l)')
<1> DEFINE o == opening[p]
<1>1. PICK m \in o.work :
        /\ InsertHedgeLeg(m)
        /\ Becomes(p, o.pc, o.kinds, o.buy, o.netted, o.filled, o.work \ {m})
  BY PurchaseFields
<1>2. /\ o.pc = "insert" /\ m \in Legs /\ o.work \subseteq o.filled
      /\ UNCHANGED <<held, orphans, faults>>
      /\ leg[l].status \in LegStatus
  BY DEF InsertLegRow, TypeOK, TablesTypeOK, LegRow, OpeningState, OpeningOK, OpeningShape,
         NoFault
<1>3. /\ opening'[p].pc = "insert"
      /\ opening'[p].filled = o.filled
      /\ opening'[p].work = o.work \ {m}
  BY <1>1, <1>2 DEF Becomes
<1>4. CASE l = m
  <2>1. /\ leg'[l].status = "open"
        /\ leg'[l].owner = leg[l].owner
        /\ leg'[l].retained = leg[l].retained
        /\ leg'[l].hops = leg[l].hops
    BY <1>1, <1>2, <1>4, Inserted
  <2>2. LegOK(l)'
    BY <1>2, <1>3, <1>4, <2>1 DEF LegOK
  <2>3. LegSound(l) => LegSound(l)'
    BY <1>2, <1>3, <1>4, <2>1 DEF LegSound
  <2> QED
    BY <2>2, <2>3
<1>5. CASE l # m
  <2>1. leg'[l] = leg[l]
    BY <1>1, <1>2, <1>5, Inserted
  <2>2. LegOK(l)'
    BY <1>2, <1>3, <1>5, <2>1 DEF LegOK
  <2>3. LegSound(l) => LegSound(l)'
    BY <1>2, <1>3, <1>5, <2>1 DEF LegSound
  <2> QED
    BY <2>2, <2>3
<1> QED
  BY <1>4, <1>5

\* ... selling back, ...
LEMMA OwnLegsUnwind ==
  ASSUME TypeOK, NEW p \in Positions, OpeningOK(p), NEW l \in Legs, l[1] = p, LegOK(l),
         UnwindLeg(p)
  PROVE  LegOK(l)' /\ (faults' = 0 /\ LegSound(l) => LegSound(l)')
<1> DEFINE o == opening[p]
<1>1. PICK m \in o.work :
        /\ \/ held' = [held EXCEPT ![m] = @ - 1] /\ UNCHANGED orphans
           \/ orphans' = orphans \cup {m} /\ UNCHANGED held
        /\ Becomes(p, o.pc, o.kinds, o.buy, o.netted, o.filled, o.work \ {m})
  BY PurchaseFields
<1>2. /\ o.pc = "unwind" /\ m \in Legs /\ o.work \subseteq o.filled
      /\ UNCHANGED <<leg, faults>>
      /\ held \in [Legs -> Int] /\ held[l] \in Int
  BY DEF UnwindLeg, TypeOK, TablesTypeOK, OpeningState, OpeningOK, OpeningShape, NoFault
<1>3. /\ opening'[p].pc = "unwind"
      /\ opening'[p].filled = o.filled
      /\ opening'[p].work = o.work \ {m}
  BY <1>1, <1>2 DEF Becomes
<1>4. /\ held'[l] = held[l] \/ (l = m /\ held'[l] = held[l] - 1)
      /\ l = m => held'[l] = held[l] - 1 \/ l \in orphans'
      /\ orphans \subseteq orphans'
  BY <1>1, <1>2
<1>5. LegOK(l)'
  BY <1>2, <1>3, <1>4 DEF LegOK
<1>6. LegSound(l) => LegSound(l)'
  BY <1>2, <1>3 DEF LegSound
<1> QED
  BY <1>5, <1>6

\* ... and the statements around them.
LEMMA OwnLegsOther ==
  ASSUME TypeOK, NEW p \in Positions, OpeningOK(p), NEW l \in Legs, l[1] = p, LegOK(l),
         LegRejected(p) \/ InsertLegFails(p) \/ CloseFailedOpening(p) \/ BookHedgeBuy(p)
  PROVE  LegOK(l)' /\ (faults' = 0 /\ LegSound(l) => LegSound(l)')
<1> DEFINE o == opening[p]
<1>0. UNCHANGED <<leg, held, orphans>> /\ o.work \subseteq o.filled /\ faults \in Nat
  BY DEF LegRejected, InsertLegFails, CloseFailedOpening, BookHedgeBuy, tables, OpeningOK,
         OpeningShape, TypeOK, TablesTypeOK
<1>1. CASE LegRejected(p) \/ InsertLegFails(p)
  <2>1. /\ opening'[p].pc = "unwind" /\ opening'[p].filled = o.filled
        /\ opening'[p].work = o.filled
    BY <1>1, PurchaseFields DEF Becomes
  <2>2. LegOK(l)'
    BY <1>0, <2>1 DEF LegOK
  <2>3. faults' = 0 => o.pc = "buy"
    BY <1>0, <1>1, FaultCounted DEF LegRejected, InsertLegFails
  <2>4. faults' = 0 /\ LegSound(l) => LegSound(l)'
    BY <1>0, <2>1, <2>3 DEF LegSound
  <2> QED
    BY <2>2, <2>4
<1>2. CASE CloseFailedOpening(p)
  <2>1. /\ o.pc = "unwind" /\ o.work = {}
        /\ opening'[p].pc = "failed" /\ opening'[p].filled = o.filled
        /\ opening'[p].work = {}
    BY <1>2, PurchaseFields DEF Becomes, CloseFailedOpening
  <2>2. LegOK(l)'
    BY <1>0, <2>1 DEF LegOK
  <2>3. LegSound(l) => LegSound(l)'
    BY <1>0, <2>1 DEF LegSound
  <2> QED
    BY <2>2, <2>3
<1>3. CASE BookHedgeBuy(p)
  <2>1. /\ o.pc = "insert" /\ o.work = {}
        /\ opening'[p].pc = "done" /\ opening'[p].filled = o.filled
        /\ opening'[p].work = {}
    BY <1>3, PurchaseFields DEF Becomes, BookHedgeBuy
  <2>2. LegOK(l)'
    BY <1>0, <2>1 DEF LegOK
  <2>3. LegSound(l) => LegSound(l)'
    BY <1>0, <2>1 DEF LegSound
  <2> QED
    BY <2>2, <2>3
<1> QED
  BY <1>1, <1>2, <1>3

\* Every step of an opening request keeps every leg sound.
LEMMA OpenStepLegs ==
  ASSUME TypeOK, \A q \in Positions : OpeningOK(q), NEW p \in Positions, OpenStep(p),
         NEW l \in Legs, LegOK(l)
  PROVE  LegOK(l)' /\ (faults' = 0 /\ LegSound(l) => LegSound(l)')
<1>1. CASE l[1] # p
  BY <1>1, OtherLegs
<1>2. CASE l[1] = p
  BY <1>2, OwnLegsNetting, OwnLegsBuy, OwnLegsInsert, OwnLegsUnwind, OwnLegsOther
  DEF OpenStep
<1> QED
  BY <1>1, <1>2

\* A step that takes no leg over and changes no hop count.
LEMMA HopsKept ==
  ASSUME NEW l \in Legs, HopsOK(l), leg'[l].hops = leg[l].hops,
         \A q \in Positions : l \in opening'[q].netted <=> l \in opening[q].netted
  PROVE  HopsOK(l)'
<1>1. {q \in Positions : l \in opening'[q].netted} = {q \in Positions : l \in opening[q].netted}
  OBVIOUS
<1> QED
  BY <1>1 DEF HopsOK

\* A step of an opening that claims no leg takes none over.
LEMMA NettedKept ==
  ASSUME TypeOK, NEW p \in Positions, OpenStep(p), ~ClaimLeg(p)
  PROVE  \A q \in Positions : opening'[q].netted = opening[q].netted
<1>1. opening'[p].netted = opening[p].netted
  <2>1. CASE OpenPosition(p) \/ ListCandidates(p) \/ NoCandidate(p)
             \/ EndNetting(p) \/ NettingThrows(p)
    BY <2>1, NettingFields, Zenon DEF Becomes
  <2>2. CASE BuyLeg(p) \/ LegRejected(p) \/ InsertLegRow(p) \/ InsertLegFails(p)
             \/ UnwindLeg(p) \/ CloseFailedOpening(p) \/ BookHedgeBuy(p)
    BY <2>2, PurchaseFields, Zenon DEF Becomes
  <2> QED
    BY <2>1, <2>2 DEF OpenStep
<1> QED
  BY <1>1, OtherOpenings

\* The claim counts: the opening that takes the leg over did not hold it, for it
\* takes one leg of each kind.
LEMMA OpenStepHops ==
  ASSUME TypeOK, \A q \in Positions : OpeningOK(q), NEW p \in Positions, OpenStep(p),
         NEW l \in Legs, HopsOK(l)
  PROVE  HopsOK(l)'
<1>0. leg \in [Legs -> LegRow] /\ leg[l] \in LegRow /\ leg[l].hops \in Nat
  BY DEF TypeOK, TablesTypeOK, LegRow
<1>1. CASE ClaimLeg(p)
  <2> DEFINE o == opening[p]
             k == FirstKind(o.kinds)
             takers == {q \in Positions : l \in opening[q].netted}
  <2>1. PICK m \in Legs :
          /\ m[2] = k
          /\ RepurposeHedgeLeg(m, p)
          /\ opening'[p].netted = IF CanRepurpose(m) THEN o.netted \cup {m} ELSE o.netted
    BY <1>1, NettingFields, Zenon DEF Becomes
  <2>2. \A q \in Positions \ {p} : opening'[q].netted = opening[q].netted
    BY OtherOpenings
  <2>3. CASE CanRepurpose(m) /\ m = l
    <3>1. o.pc = "net" /\ k \in o.kinds
      BY <1>1, FirstKindType DEF ClaimLeg, TypeOK, OpeningState
    <3>2. l \notin o.netted
      BY <2>1, <2>3, <3>1 DEF OpeningOK, OpeningShape
    <3>3. {q \in Positions : l \in opening'[q].netted} = takers \cup {p}
      BY <2>1, <2>2, <2>3
    <3>4. IsFiniteSet(takers) /\ p \notin takers
      BY <3>2 DEF HopsOK
    <3>5. /\ IsFiniteSet(takers \cup {p})
          /\ Cardinality(takers \cup {p}) = Cardinality(takers) + 1
      BY <3>4, FS_AddElement
    <3>6. leg[l].hops < MaxHops /\ leg'[l].hops = leg[l].hops + 1
      BY <2>1, <2>3, Repurposed
    <3>7. leg'[l].hops <= MaxHops
      BY <1>0, <3>6, MaxHopsAssumption
    <3> QED
      BY <3>3, <3>5, <3>6, <3>7 DEF HopsOK
  <2>4. CASE ~(CanRepurpose(m) /\ m = l)
    <3>1. leg'[l] = leg[l]
      BY <2>1, <2>4, Repurposed
    <3>2. \A q \in Positions : l \in opening'[q].netted <=> l \in opening[q].netted
      BY <2>1, <2>2, <2>4
    <3> QED
      BY <3>1, <3>2, HopsKept
  <2> QED
    BY <2>3, <2>4
<1>2. CASE InsertLegRow(p)
  <2>1. PICK m \in opening[p].work : InsertHedgeLeg(m)
    BY <1>2 DEF InsertLegRow
  <2>2. m \in Legs
    BY <2>1 DEF TypeOK, OpeningState
  <2>3. leg'[l].hops = leg[l].hops
    BY <2>1, <2>2, Inserted
  <2>4. ~ClaimLeg(p)
    BY <1>2 DEF ClaimLeg, InsertLegRow
  <2> QED
    BY <2>3, <2>4, NettedKept, HopsKept
<1>3. CASE ~ClaimLeg(p) /\ ~InsertLegRow(p)
  <2>1. UNCHANGED leg
    BY <1>3 DEF OpenStep, OpenPosition, ListCandidates, NoCandidate, EndNetting,
     NettingThrows, BuyLeg, LegRejected, InsertLegFails, UnwindLeg,
     CloseFailedOpening, BookHedgeBuy, tables
  <2> QED
    BY <1>3, <2>1, NettedKept, HopsKept
<1> QED
  BY <1>1, <1>2, <1>3

-----------------------------------------------------------------------------
(* The steps of the handlers, and a restart.                               *)

\* The row a handler flags.
LEMMA Flagged ==
  ASSUME TypeOK, NEW m \in Legs, MarkHedgeLegRetained(m)
  PROVE  /\ \A l \in Legs \ {m} : leg'[l] = leg[l]
         /\ leg'[m].status = leg[m].status
         /\ leg'[m].owner = leg[m].owner
         /\ leg'[m].hops = leg[m].hops
         /\ leg[m].status # "open" => leg'[m] = leg[m]
         /\ leg[m].status = "open" => leg'[m].retained
<1>1. leg[m] \in LegRow /\ leg \in [Legs -> LegRow]
  BY DEF TypeOK, TablesTypeOK
<1> QED
  BY <1>1 DEF MarkHedgeLegRetained, LegRow

\* A handler changes a leg only by flagging one it listed.
LEMMA HandlerLegs ==
  ASSUME TypeOK, NEW h \in Handlers,
         \/ RetainLeg(h) \/ AccruePremium(h)
         \/ h \in Cycles /\ CycleStep(h)
         \/ h \in Closers /\ CloseStep(h)
  PROVE  /\ UNCHANGED <<opening, held, orphans>>
         /\ faults' = 0 => faults = 0
         /\ \/ UNCHANGED <<leg, misflagged>>
            \/ /\ task[h].pc = "retain"
               /\ \E m \in task[h].legs :
                    /\ MarkHedgeLegRetained(m)
                    /\ misflagged' = misflagged \cup Misflagged(h, m)
<1>0. faults \in Nat
  BY DEF TypeOK, TablesTypeOK
<1>1. UNCHANGED <<opening, held, orphans>>
  BY DEF RetainLeg, AccruePremium, CycleStep, StartCycle, FireTrigger, RecordTriggerEvent,
     MarkTriggered, FireThrows, PayOut, CloseStep, RequestClose, ListLegsToClose,
     CloseThrows, MarkClosed, tables
<1>2. NoFault \/ Fault
  BY DEF RetainLeg, AccruePremium, CycleStep, StartCycle, FireTrigger, RecordTriggerEvent,
     MarkTriggered, FireThrows, PayOut, CloseStep, RequestClose, ListLegsToClose,
     CloseThrows, MarkClosed
<1>3. \/ UNCHANGED <<leg, misflagged>>
      \/ /\ task[h].pc = "retain"
         /\ \E m \in task[h].legs :
              /\ MarkHedgeLegRetained(m)
              /\ misflagged' = misflagged \cup Misflagged(h, m)
  BY DEF RetainLeg, AccruePremium, CycleStep, StartCycle, FireTrigger, RecordTriggerEvent,
     MarkTriggered, FireThrows, PayOut, CloseStep, RequestClose, ListLegsToClose,
     CloseThrows, MarkClosed, tables
<1> QED
  BY <1>0, <1>1, <1>2, <1>3, FaultCounted

\* What a handler lists are legs.
LEMMA ListedLegs == TypeOK => \A h \in Handlers : task[h].legs \subseteq Legs
  BY DEF TypeOK, TaskState

\* A restart ends every opening under way and touches no leg.
LEMMA RestartFields ==
  ASSUME TypeOK, Restart
  PROVE  /\ UNCHANGED <<leg, held, orphans, misflagged>> /\ faults' # 0
         /\ \A q \in Positions :
              /\ opening'[q].netted = opening[q].netted
              /\ opening'[q].filled = opening[q].filled
              /\ \/ opening'[q] = opening[q]
                 \/ opening'[q].pc = "failed" /\ opening'[q].work = {}
<1>1. \A q \in Positions : opening[q] \in OpeningState
  BY DEF TypeOK
<1> DEFINE n(q) == [opening[q] EXCEPT !.pc = "failed", !.cand = {}, !.work = {}]
<1>2. \A q \in Positions :
        /\ n(q).netted = opening[q].netted
        /\ n(q).filled = opening[q].filled
        /\ n(q).pc = "failed"
        /\ n(q).work = {}
  BY <1>1 DEF OpeningState
<1>3. \A q \in Positions : opening'[q] = opening[q] \/ opening'[q] = n(q)
  BY DEF Restart
<1> HIDE DEF n
<1>4. UNCHANGED <<leg, held, orphans, misflagged>> /\ faults' # 0
  BY FaultCounted DEF Restart, tables, TypeOK, TablesTypeOK
<1> QED
  BY <1>2, <1>3, <1>4

-----------------------------------------------------------------------------
(* The invariant about the legs is inductive.                              *)

LEMMA InitLegs == Init => LegsInv
<1> SUFFICES ASSUME Init PROVE LegsInv
  OBVIOUS
<1>1. LifecycleInv
  BY InitInv
<1>2. \A p \in Positions : OpeningOK(p)
  BY DEF Init, OpeningOK, OpeningShape, KindsCovered
<1>3. ASSUME NEW l \in Legs PROVE LegOK(l) /\ LegSound(l)
  <2>1. l[1] \in Positions
    BY DEF Legs
  <2> QED
    BY <2>1 DEF Init, TablesInit, LegOK, LegSound
<1>4. ASSUME NEW l \in Legs PROVE HopsOK(l)
  <2>1. {p \in Positions : l \in opening[p].netted} = {}
    BY DEF Init
  <2>2. IsFiniteSet({}) /\ Cardinality({}) = 0
    BY FS_EmptySet
  <2> QED
    <3>1. leg[l].hops = 0 /\ 0 <= MaxHops
      BY MaxHopsAssumption DEF Init, TablesInit
    <3> QED
      BY <2>1, <2>2, <3>1 DEF HopsOK
<1> QED
  BY <1>1, <1>2, <1>3, <1>4 DEF LegsInv

\* A handler's step keeps the legs.
LEMMA HandlerKeepsLegs ==
  ASSUME LegsInv, LifecycleInv', NEW h \in Handlers,
         \/ RetainLeg(h) \/ AccruePremium(h)
         \/ h \in Cycles /\ CycleStep(h)
         \/ h \in Closers /\ CloseStep(h)
  PROVE  LegsInv'
<1>0. TypeOK /\ \A l \in Legs : l[1] \in Positions
  BY DEF LegsInv, LifecycleInv, Legs
<1>1. UNCHANGED <<opening, held, orphans>> /\ (faults' = 0 => faults = 0)
  BY <1>0, HandlerLegs
<1>2. \A l \in Legs : SameRow(l) /\ leg'[l].hops = leg[l].hops
  <2>1. CASE UNCHANGED leg
    BY <2>1 DEF SameRow
  <2>2. ASSUME NEW m \in Legs, MarkHedgeLegRetained(m)
        PROVE  \A l \in Legs : SameRow(l) /\ leg'[l].hops = leg[l].hops
    BY <1>0, <2>2, Flagged DEF SameRow
  <2> QED
    BY <1>0, <2>1, <2>2, HandlerLegs, ListedLegs
<1>3. \A p \in Positions : OpeningOK(p)'
  BY <1>1, OpeningKept DEF LegsInv
<1>4. \A l \in Legs : LegOK(l)' /\ HopsOK(l)' /\ (LegSound(l) => LegSound(l)')
  BY <1>0, <1>1, <1>2, LegKept, HopsKept DEF LegsInv
<1> QED
  BY <1>1, <1>3, <1>4 DEF LegsInv

\* So does every step.
LEMMA NextLegs == LegsInv /\ [Next]_vars => LegsInv'
<1> SUFFICES ASSUME LegsInv, [Next]_vars PROVE LegsInv'
  OBVIOUS
<1>0. LifecycleInv' /\ TypeOK /\ faults \in Nat
  BY NextInv DEF LegsInv, LifecycleInv, TypeOK, TablesTypeOK
<1>1. ASSUME NEW p \in Positions, OpenStep(p) PROVE LegsInv'
  <2>1. \A q \in Positions : OpeningOK(q)'
    BY <1>0, <1>1, OpenStepOpening DEF LegsInv
  <2>2. \A l \in Legs : LegOK(l)' /\ (faults' = 0 /\ LegSound(l) => LegSound(l)')
    BY <1>0, <1>1, OpenStepLegs DEF LegsInv
  <2>3. \A l \in Legs : HopsOK(l)'
    BY <1>0, <1>1, OpenStepHops DEF LegsInv
  <2>4. faults' = 0 => faults = 0
    BY <1>0, <1>1, FaultCounted
    DEF OpenStep, OpenPosition, ListCandidates, ClaimLeg, NoCandidate, EndNetting,
       NettingThrows, BuyLeg, LegRejected, InsertLegRow, InsertLegFails, UnwindLeg,
       CloseFailedOpening, BookHedgeBuy
  <2> QED
    BY <1>0, <2>1, <2>2, <2>3, <2>4 DEF LegsInv
<1>2. ASSUME NEW h \in Handlers,
             \/ RetainLeg(h) \/ AccruePremium(h)
             \/ h \in Cycles /\ CycleStep(h)
             \/ h \in Closers /\ CloseStep(h)
      PROVE  LegsInv'
  BY <1>0, <1>2, HandlerKeepsLegs
<1>3. CASE Restart
  <2>1. /\ UNCHANGED <<leg, held, orphans>> /\ faults' # 0
        /\ \A q \in Positions :
              /\ opening'[q].netted = opening[q].netted
              /\ opening'[q].filled = opening[q].filled
              /\ \/ opening'[q] = opening[q]
                 \/ opening'[q].pc = "failed" /\ opening'[q].work = {}
    BY <1>0, <1>3, RestartFields
  <2>2. ASSUME NEW q \in Positions PROVE OpeningOK(q)'
    <3>1. OpeningOK(q) /\ opening[q].filled \subseteq {q} \X Kinds
      BY DEF LegsInv, OpeningOK, OpeningShape
    <3>2. CASE opening'[q] = opening[q]
      BY <3>1, <3>2, OpeningKept
    <3>3. CASE opening'[q].pc = "failed" /\ opening'[q].work = {}
      BY <2>1, <3>1, <3>3 DEF OpeningOK, OpeningShape, KindsCovered
    <3> QED
      BY <2>1, <3>2, <3>3
  <2>3. ASSUME NEW l \in Legs PROVE LegOK(l)'
    <3>0. l[1] \in Positions /\ LegOK(l)
      BY DEF Legs, LegsInv
    <3>1. opening'[l[1]] = opening[l[1]] \/ opening'[l[1]].pc = "failed"
      BY <2>1, <3>0
    <3>2. opening'[l[1]].filled = opening[l[1]].filled
      BY <2>1, <3>0
    <3> QED
      BY <2>1, <3>0, <3>1, <3>2 DEF LegOK
  <2>4. \A l \in Legs : HopsOK(l)'
    BY <2>1, HopsKept DEF LegsInv
  <2> QED
    BY <1>0, <2>1, <2>2, <2>3, <2>4 DEF LegsInv
<1>4. CASE UNCHANGED vars
  <2>1. UNCHANGED <<leg, held, orphans, opening, faults>>
    BY <1>4 DEF vars, tables, lifecycleVars, handlerVars
  <2>2. \A l \in Legs : SameRow(l) /\ leg'[l].hops = leg[l].hops
    BY <2>1 DEF SameRow
  <2>3. \A p \in Positions : OpeningOK(p)'
    BY <2>1, OpeningKept DEF LegsInv
  <2>4. \A l \in Legs : LegOK(l)' /\ HopsOK(l)' /\ (LegSound(l) => LegSound(l)')
    BY <2>1, <2>2, LegKept, HopsKept DEF LegsInv
  <2> QED
    BY <1>0, <2>1, <2>3, <2>4 DEF LegsInv
<1> QED
  BY <1>1, <1>2, <1>3, <1>4 DEF Next, LifecycleStep, Handlers

-----------------------------------------------------------------------------
(* What a handler does with its position, short of a failure.               *)

\* It has none, or lets go of it behind its last row;
LetsGo(h) ==
  /\ task[h].pos = NoPosition \/ task[h].pc = "premium"
  /\ task'[h].pos = NoPosition
  /\ task'[h].pc \in {"idle", "loop"}
  /\ UNCHANGED <<leg, position, raced, misflagged>>

\* a close request has found it active;
Selects(h) ==
  /\ task[h].pos = NoPosition
  /\ task'[h].pc = "list"
  /\ UNCHANGED <<leg, position, raced, misflagged>>

\* its legs are listed;
Lists(h) ==
  LET p == task'[h].pos IN
  /\ task[h].pos = NoPosition \/ (task[h].pc = "list" /\ p = task[h].pos)
  /\ p \in Positions
  /\ task'[h].pc = "retain"
  /\ task'[h].legs = OpenUnretained(p)
  /\ raced' = IF opening[p].pc = "done" THEN raced ELSE raced \cup {p}
  /\ UNCHANGED <<leg, position, misflagged>>

\* one of them is flagged;
Flags(h) ==
  /\ task[h].pc = "retain"
  /\ task'[h].pc = "retain"
  /\ task'[h].pos = task[h].pos
  /\ \E m \in task[h].legs :
       /\ task'[h].legs = task[h].legs \ {m}
       /\ MarkHedgeLegRetained(m)
       /\ misflagged' = misflagged \cup Misflagged(h, m)
  /\ UNCHANGED <<position, raced>>

\* or, with none left to flag, it goes on to end and bill the position.
GoesOn(h) ==
  /\ \/ task[h].pc = "retain" /\ task[h].legs = {}
     \/ task[h].pc \in {"mark", "pay"}
  /\ task'[h].pc \in {"mark", "pay", "premium"}
  /\ task'[h].pos = task[h].pos
  /\ \A q \in Positions : q # task[h].pos => position'[q] = position[q]
  /\ UNCHANGED <<leg, raced, misflagged>>

\* Nothing else happens to a handler while no statement fails.
LEMMA HandlerMoves ==
  ASSUME TypeOK, TaskShape, NEW h \in Handlers, faults' = 0,
         \/ RetainLeg(h) \/ AccruePremium(h)
         \/ h \in Cycles /\ CycleStep(h)
         \/ h \in Closers /\ CloseStep(h)
  PROVE  /\ \A g \in Handlers \ {h} : task'[g] = task[g]
         /\ UNCHANGED <<opening, held, orphans>>
         /\ LetsGo(h) \/ Selects(h) \/ Lists(h) \/ Flags(h) \/ GoesOn(h)
<1> DEFINE s == task[h]
<1>0. /\ s \in TaskState /\ WellShaped(s) /\ ~Fault
      /\ position \in [Positions -> PositionRow]
  BY FaultCounted DEF TypeOK, TaskShape, TablesTypeOK
<1>1. UNCHANGED <<opening, held, orphans>>
  BY HandlerLegs
<1>a. \A c \in TaskPc : /\ [s EXCEPT !.pc = c].pc = c
                        /\ [s EXCEPT !.pc = c].pos = s.pos
                        /\ [s EXCEPT !.pc = c].legs = s.legs
  BY <1>0 DEF TaskState
<1>2. /\ \A g \in Handlers \ {h} : task'[g] = task[g]
      /\ LetsGo(h) \/ Selects(h) \/ Lists(h) \/ Flags(h) \/ GoesOn(h)
  <2>1. CASE RetainLeg(h)
    <3>1. PICK m \in s.legs :
            /\ SetTask(h, [s EXCEPT !.legs = @ \ {m}])
            /\ MarkHedgeLegRetained(m)
            /\ misflagged' = misflagged \cup Misflagged(h, m)
      BY <1>0, <2>1 DEF RetainLeg
    <3>2. /\ task'[h] = [s EXCEPT !.legs = @ \ {m}]
          /\ \A g \in Handlers \ {h} : task'[g] = task[g]
      BY <3>1, SetTaskSelf, OthersKept
    <3>3. task'[h].pc = s.pc /\ task'[h].pos = s.pos /\ task'[h].legs = s.legs \ {m}
      BY <1>0, <3>2 DEF TaskState
    <3>4. Flags(h)
      BY <2>1, <3>1, <3>3 DEF Flags, RetainLeg
    <3> QED
      BY <3>2, <3>4
  <2>2. CASE AccruePremium(h)
    <3>1. /\ task'[h] = Finished(s) /\ s.pc = "premium"
          /\ \A g \in Handlers \ {h} : task'[g] = task[g]
          /\ UNCHANGED <<leg, position, raced, misflagged>>
      BY <2>2, SetTaskSelf, OthersKept DEF AccruePremium, tables
    <3>2. LetsGo(h)
      BY <1>0, <3>1, FinishedOK DEF LetsGo
    <3> QED
      BY <3>1, <3>2
  <2>3. CASE h \in Cycles /\ StartCycle(h)
    <3>1. PICK touched \in SUBSET ActivePositions :
            SetTask(h, [s EXCEPT !.pc = "loop", !.todo = touched])
      BY <2>3 DEF StartCycle
    <3>2. /\ task'[h] = [s EXCEPT !.pc = "loop", !.todo = touched]
          /\ \A g \in Handlers \ {h} : task'[g] = task[g]
      BY <3>1, SetTaskSelf, OthersKept
    <3>3. task'[h].pc = "loop" /\ task'[h].pos = s.pos /\ s.pos = NoPosition
      BY <1>0, <2>3, <3>2 DEF TaskState, StartCycle, WellShaped
    <3>4. LetsGo(h)
      BY <2>3, <3>3 DEF LetsGo, StartCycle, tables
    <3> QED
      BY <3>2, <3>4
  <2>4. CASE h \in Cycles /\ FireTrigger(h)
    <3> DEFINE f(p, d) == [s EXCEPT !.dir = d, !.todo = @ \ {p}]
    <3>1. PICK p \in Positions, d \in Directions : ListLegs(h, p, f(p, d))
      BY <1>0, <2>4 DEF FireTrigger, TaskState
    <3>2. f(p, d) \in TaskState
      BY <1>0 DEF TaskState
    <3> HIDE DEF f
    <3>3. /\ task'[h] = [f(p, d) EXCEPT !.pc = "retain", !.pos = p, !.legs = OpenUnretained(p)]
          /\ \A g \in Handlers \ {h} : task'[g] = task[g]
      BY <3>1, SetTaskSelf, OthersKept DEF ListLegs
    <3>4. /\ task'[h].pc = "retain" /\ task'[h].pos = p
          /\ task'[h].legs = OpenUnretained(p)
      BY <3>2, <3>3 DEF TaskState
    <3>5. s.pos = NoPosition
      BY <1>0, <2>4 DEF FireTrigger, WellShaped
    <3>6. Lists(h)
      BY <2>4, <3>1, <3>4, <3>5 DEF Lists, ListLegs, FireTrigger, tables
    <3> QED
      BY <3>3, <3>6
  <2>5. CASE h \in Cycles /\ RecordTriggerEvent(h)
    <3>1. /\ task'[h] = [s EXCEPT !.pc = "mark"]
          /\ \A g \in Handlers \ {h} : task'[g] = task[g]
      BY <2>5, SetTaskSelf, OthersKept DEF RecordTriggerEvent
    <3>2. task'[h].pc = "mark" /\ task'[h].pos = s.pos
      BY <1>a, <3>1 DEF TaskPc
    <3>3. GoesOn(h)
      BY <2>5, <3>2 DEF GoesOn, RecordTriggerEvent
    <3> QED
      BY <3>1, <3>3
  <2>6. CASE h \in Cycles /\ MarkTriggered(h)
    <3>1. /\ task'[h] = [s EXCEPT !.pc = "pay"]
          /\ \A g \in Handlers \ {h} : task'[g] = task[g]
      BY <2>6, SetTaskSelf, OthersKept DEF MarkTriggered
    <3>2. task'[h].pc = "pay" /\ task'[h].pos = s.pos
      BY <1>a, <3>1 DEF TaskPc
    <3>3. \A q \in Positions : q # s.pos => position'[q] = position[q]
      BY <1>0, <2>6 DEF MarkTriggered, MarkPositionTriggered
    <3>4. GoesOn(h)
      BY <2>6, <3>2, <3>3 DEF GoesOn, MarkTriggered
    <3> QED
      BY <3>1, <3>4
  <2>7. CASE h \in Cycles /\ PayOut(h)
    <3>1. /\ task'[h] = [s EXCEPT !.pc = "premium"]
          /\ \A g \in Handlers \ {h} : task'[g] = task[g]
      BY <2>7, SetTaskSelf, OthersKept DEF PayOut
    <3>2. task'[h].pc = "premium" /\ task'[h].pos = s.pos
      BY <1>a, <3>1 DEF TaskPc
    <3>3. GoesOn(h)
      BY <2>7, <3>2 DEF GoesOn, PayOut, tables
    <3> QED
      BY <3>1, <3>3
  <2>8. CASE h \in Closers /\ RequestClose(h)
    <3>1. PICK p \in ActivePositions : SetTask(h, [s EXCEPT !.pc = "list", !.pos = p])
      BY <2>8 DEF RequestClose
    <3>2. /\ task'[h] = [s EXCEPT !.pc = "list", !.pos = p]
          /\ \A g \in Handlers \ {h} : task'[g] = task[g]
      BY <3>1, SetTaskSelf, OthersKept
    <3>3. task'[h].pc = "list" /\ s.pos = NoPosition
      BY <1>0, <2>8, <3>2 DEF TaskState, RequestClose, WellShaped
    <3>4. Selects(h)
      BY <2>8, <3>3 DEF Selects, RequestClose, tables
    <3> QED
      BY <3>2, <3>4
  <2>9. CASE h \in Closers /\ ListLegsToClose(h)
    <3>0. s.pos \in Positions /\ s.pc = "list"
      BY <2>9, TaskPosition DEF ListLegsToClose
    <3>1. PICK p \in Positions : p = s.pos
      BY <3>0
    <3>2. /\ task'[h] = [s EXCEPT !.pc = "retain", !.pos = p, !.legs = OpenUnretained(p)]
          /\ \A g \in Handlers \ {h} : task'[g] = task[g]
      BY <2>9, <3>1, SetTaskSelf, OthersKept DEF ListLegsToClose, ListLegs
    <3>3. /\ task'[h].pc = "retain" /\ task'[h].pos = p
          /\ task'[h].legs = OpenUnretained(p)
      BY <1>0, <3>2 DEF TaskState
    <3>4. Lists(h)
      BY <2>9, <3>0, <3>1, <3>3 DEF Lists, ListLegsToClose, ListLegs, tables
    <3> QED
      BY <3>2, <3>4
  <2>10. CASE h \in Closers /\ MarkClosed(h)
    <3>1. /\ SetTask(h, [s EXCEPT !.pc = "premium"]) /\ MarkPositionClosed(s.pos)
          /\ s.pc = "retain" /\ s.legs = {}
      BY <1>0, <2>10 DEF MarkClosed
    <3>2. /\ task'[h] = [s EXCEPT !.pc = "premium"]
          /\ \A g \in Handlers \ {h} : task'[g] = task[g]
      BY <3>1, SetTaskSelf, OthersKept
    <3>3. task'[h].pc = "premium" /\ task'[h].pos = s.pos
      BY <1>a, <3>2 DEF TaskPc
    <3>4. \A q \in Positions : q # s.pos => position'[q] = position[q]
      BY <1>0, <3>1 DEF MarkPositionClosed
    <3>5. GoesOn(h)
      BY <2>10, <3>1, <3>3, <3>4 DEF GoesOn, MarkClosed
    <3> QED
      BY <3>2, <3>5
  <2>11. CASE (h \in Cycles /\ FireThrows(h)) \/ (h \in Closers /\ CloseThrows(h))
    BY <1>0, <2>11 DEF FireThrows, CloseThrows
  <2> QED
    BY <2>1, <2>2, <2>3, <2>4, <2>5, <2>6, <2>7, <2>8, <2>9, <2>10, <2>11
    DEF CycleStep, CloseStep
<1> QED
  BY <1>1, <1>2

-----------------------------------------------------------------------------
(* Nothing takes a leg from a position that no handler is ending.           *)

\* No step takes a hop back, and an opening only takes legs that are flagged.
LEMMA OpenStepRow ==
  ASSUME TypeOK, NEW p \in Positions, OpenStep(p), NEW l \in Legs
  PROVE  /\ leg'[l].hops >= leg[l].hops
         /\ \A q \in Positions : l \in OpenUnretained(q) =>
              l \in OpenUnretained(q)' /\ leg'[l].hops = leg[l].hops
<1>0. leg \in [Legs -> LegRow] /\ leg[l].hops \in Nat
  BY DEF TypeOK, TablesTypeOK, LegRow
<1>1. CASE ClaimLeg(p)
  <2>1. PICK m \in Legs : RepurposeHedgeLeg(m, p)
    BY <1>1, NettingFields
  <2>2. CASE leg'[l] = leg[l]
    BY <1>0, <2>2 DEF OpenUnretained
  <2>3. CASE leg'[l] # leg[l]
    <3>1. l = m /\ CanRepurpose(m)
      BY <2>1, <2>3, Repurposed
    <3> QED
      BY <1>0, <2>1, <3>1, Repurposed DEF OpenUnretained
  <2> QED
    BY <2>2, <2>3
<1>2. CASE InsertLegRow(p)
  <2>1. PICK m \in opening[p].work : InsertHedgeLeg(m)
    BY <1>2 DEF InsertLegRow
  <2>2. m \in Legs
    BY <2>1 DEF TypeOK, OpeningState
  <2>3. /\ leg'[l].hops = leg[l].hops
        /\ leg'[l].owner = leg[l].owner
        /\ leg'[l].retained = leg[l].retained
        /\ leg'[l].status \in {"open", leg[l].status}
    BY <2>1, <2>2, Inserted
  <2> QED
    BY <1>0, <2>3 DEF OpenUnretained
<1>3. CASE ~ClaimLeg(p) /\ ~InsertLegRow(p)
  <2>1. UNCHANGED leg
    BY <1>3 DEF OpenStep, OpenPosition, ListCandidates, NoCandidate, EndNetting,
     NettingThrows, BuyLeg, LegRejected, InsertLegFails, UnwindLeg,
     CloseFailedOpening, BookHedgeBuy, tables
  <2> QED
    BY <1>0, <2>1 DEF OpenUnretained
<1> QED
  BY <1>1, <1>2, <1>3

\* A position that nothing ends is one nothing was ending before.
LEMMA HandlerQuiet ==
  ASSUME LifecycleInv, NEW h \in Handlers, NEW p \in Positions, Quiet(p)',
         \A g \in Handlers \ {h} : task'[g] = task[g],
         LetsGo(h) \/ Selects(h) \/ Lists(h) \/ Flags(h) \/ GoesOn(h)
  PROVE  /\ Quiet(p)
         /\ Flags(h) => task[h].pos # p
<1>0. p # NoPosition
  BY PositionsAssumption
<1>1. position'[p] = position[p]
  <2>1. CASE GoesOn(h)
    <3>1. task'[h].pos # p
      BY <2>1 DEF GoesOn, Quiet
    <3> QED
      BY <2>1, <3>1 DEF GoesOn
  <2>2. CASE ~GoesOn(h)
    BY <2>2 DEF LetsGo, Selects, Lists, Flags
  <2> QED
    BY <2>1, <2>2
<1>2. position[p].status = "active"
  BY <1>1 DEF Quiet
<1>3. task[h].pos = p => task[h].pc = "list"
  <2>1. CASE LetsGo(h)
    BY <1>0, <1>2, <2>1 DEF LetsGo, LifecycleInv, HandlerOK, Ended
  <2>2. CASE Selects(h)
    BY <1>0, <2>2 DEF Selects
  <2>3. CASE Lists(h)
    BY <1>0, <2>3 DEF Lists
  <2>4. CASE Flags(h) \/ GoesOn(h)
    BY <2>4 DEF Flags, GoesOn, Quiet
  <2> QED
    BY <2>1, <2>2, <2>3, <2>4
<1>4. Flags(h) => task[h].pos # p
  BY DEF Flags, Quiet
<1> QED
  BY <1>2, <1>3, <1>4 DEF Quiet

\* A handler's step keeps the lists and the legs of the positions nothing ends.
LEMMA HandlerKeepsHedges ==
  ASSUME LegsInv, ListsOK, \A p \in Positions : Quiet(p) => Keeps(p),
         NEW h \in Handlers,
         \A g \in Handlers \ {h} : task'[g] = task[g],
         UNCHANGED opening,
         LetsGo(h) \/ Selects(h) \/ Lists(h) \/ Flags(h) \/ GoesOn(h)
  PROVE  ListsOK' /\ \A p \in Positions : Quiet(p)' => Keeps(p)'
<1>0. /\ TypeOK /\ LifecycleInv /\ leg \in [Legs -> LegRow]
      /\ \A l \in Legs : leg[l].hops \in Nat
  BY DEF LegsInv, LifecycleInv, TypeOK, TablesTypeOK, LegRow
<1>1. \A g \in Handlers : task[g].legs \subseteq Legs
  BY <1>0, ListedLegs
<1>2. UNCHANGED leg \/ Flags(h)
  BY DEF LetsGo, Selects, Lists, GoesOn
<1>3. \A l \in Legs : leg'[l].hops = leg[l].hops
  <2>1. ASSUME Flags(h) PROVE \A l \in Legs : leg'[l].hops = leg[l].hops
    <3>1. PICK m \in Legs : MarkHedgeLegRetained(m)
      BY <1>1, <2>1 DEF Flags
    <3> QED
      BY <1>0, <3>1, Flagged
  <2> QED
    BY <1>2, <2>1
<1>4. ListsOK'
  <2> SUFFICES ASSUME NEW g \in Handlers, task'[g].pc = "retain", NEW l \in task'[g].legs
               PROVE  l[1] = task'[g].pos \/ leg'[l].hops > 0
    BY DEF ListsOK
  <2>1. CASE g # h
    BY <1>1, <1>3, <2>1 DEF ListsOK
  <2>2. CASE g = h /\ Lists(h)
    <3>1. l \in Legs /\ leg[l].owner = task'[h].pos
      BY <2>2 DEF Lists, OpenUnretained
    <3>2. leg[l].hops = 0 => leg[l].owner = l[1]
      BY <3>1 DEF LegsInv, LegOK
    <3> QED
      BY <1>0, <1>3, <2>2, <3>1, <3>2
  <2>3. CASE g = h /\ Flags(h)
    <3>1. l \in task[h].legs /\ task'[h].pos = task[h].pos /\ task[h].pc = "retain"
      BY <2>3 DEF Flags
    <3> QED
      BY <1>1, <1>3, <2>3, <3>1 DEF ListsOK
  <2>4. CASE g = h /\ ~Lists(h) /\ ~Flags(h)
    BY <2>4 DEF LetsGo, Selects, GoesOn
  <2> QED
    BY <2>1, <2>2, <2>3, <2>4
<1>5. ASSUME NEW p \in Positions, Quiet(p)' PROVE Keeps(p)'
  <2>1. Quiet(p) /\ Keeps(p) /\ (Flags(h) => task[h].pos # p)
    BY <1>0, <1>5, HandlerQuiet
  <2>2. CASE ~Flags(h)
    <3>1. UNCHANGED <<leg, misflagged>>
      BY <2>2 DEF LetsGo, Selects, Lists, GoesOn
    <3> QED
      BY <2>1, <3>1 DEF Keeps, OpenUnretained
  <2>3. CASE Flags(h)
    <3>1. PICK m \in task[h].legs :
            /\ MarkHedgeLegRetained(m)
            /\ misflagged' = misflagged \cup Misflagged(h, m)
      BY <2>3 DEF Flags
    <3>2. m \in Legs
      BY <1>1
    <3>3. \A l \in Legs \ {m} : leg'[l] = leg[l]
      BY <1>0, <3>1, <3>2, Flagged
    <3>4. m \in OpenUnretained(p) => m \in misflagged'
      <4>1. m \in OpenUnretained(p) => Misflagged(h, m) = {m}
        BY <2>1, <2>3 DEF Misflagged, OpenUnretained
      <4> QED
        BY <3>1, <4>1
    <3>5. m \in opening[p].filled => leg[m].hops # 0
      <4>1. m[1] = task[h].pos \/ leg[m].hops > 0
        BY <2>3 DEF ListsOK, Flags
      <4>2. m \in opening[p].filled => m[1] = p
        BY DEF LegsInv, OpeningOK, OpeningShape
      <4> QED
        BY <1>0, <2>1, <2>3, <3>2, <4>1, <4>2
    <3>6. \A l \in Legs : l # m /\ l \in OpenUnretained(p) =>
            l \in OpenUnretained(p)' /\ leg'[l].hops = leg[l].hops
      BY <3>3 DEF OpenUnretained
    <3>7. /\ opening[p].netted \subseteq Legs
          /\ opening[p].filled \subseteq Legs
      BY <1>0 DEF TypeOK, OpeningState
    <3>8. misflagged \subseteq misflagged'
      BY <3>1
    <3> QED
      BY <2>1, <3>4, <3>5, <3>6, <3>7, <3>8 DEF Keeps
  <2> QED
    BY <2>2, <2>3
<1> QED
  BY <1>4, <1>5

\* A step of an opening makes no position one that nothing ends, but the one it
\* creates.
LEMMA OpenStepQuiet ==
  ASSUME LifecycleInv, NEW p \in Positions, OpenStep(p), NEW q \in Positions, Quiet(q)'
  PROVE  Quiet(q) \/ (q = p /\ OpenPosition(p))
<1>1. UNCHANGED task
  BY DEF OpenStep, OpenPosition, ListCandidates, ClaimLeg, NoCandidate, EndNetting,
     NettingThrows, BuyLeg, LegRejected, InsertLegRow, InsertLegFails, UnwindLeg,
     CloseFailedOpening, BookHedgeBuy
<1>0. position \in [Positions -> PositionRow]
  BY DEF LifecycleInv, TypeOK, TablesTypeOK
<1>2. CASE OpenPosition(p)
  <2>1. q # p => position'[q] = position[q]
    BY <1>0, <1>2 DEF OpenPosition, InsertPosition
  <2> QED
    BY <1>1, <1>2, <2>1 DEF Quiet
<1>3. CASE CloseFailedOpening(p)
  <2>1. \/ position'[q] = position[q]
        \/ position'[q].status = "closed"
    BY <1>0, <1>3 DEF CloseFailedOpening, MarkPositionClosed, PositionRow
  <2> QED
    BY <1>1, <2>1 DEF Quiet
<1>4. CASE ~OpenPosition(p) /\ ~CloseFailedOpening(p)
  <2>1. UNCHANGED position
    BY <1>4 DEF OpenStep, ListCandidates, ClaimLeg, NoCandidate, EndNetting,
     NettingThrows, BuyLeg, LegRejected, InsertLegRow, InsertLegFails, UnwindLeg,
     BookHedgeBuy, tables
  <2> QED
    BY <1>1, <2>1 DEF Quiet
<1> QED
  BY <1>2, <1>3, <1>4

\* What the other openings keep.
LEMMA OthersKeep ==
  ASSUME TypeOK, NEW p \in Positions, OpenStep(p), NEW q \in Positions, q # p, Keeps(q)
  PROVE  Keeps(q)'
<1>1. opening'[q] = opening[q] /\ UNCHANGED misflagged
  BY OtherOpenings
  DEF OpenStep, OpenPosition, ListCandidates, ClaimLeg, NoCandidate, EndNetting,
     NettingThrows, BuyLeg, LegRejected, InsertLegRow, InsertLegFails, UnwindLeg,
     CloseFailedOpening, BookHedgeBuy
<1>2. \A l \in Legs : l \in OpenUnretained(q) =>
        l \in OpenUnretained(q)' /\ leg'[l].hops = leg[l].hops
  BY OpenStepRow
<1>3. opening[q].netted \subseteq Legs /\ opening[q].filled \subseteq Legs
  BY DEF TypeOK, OpeningState
<1> QED
  BY <1>1, <1>2, <1>3 DEF Keeps

\* What the opening itself keeps.
LEMMA OpeningKeeps ==
  ASSUME LegsInv, faults = 0, NEW p \in Positions, OpenStep(p),
         faults' = 0, Keeps(p) \/ OpenPosition(p)
  PROVE  Keeps(p)'
<1> DEFINE o == opening[p]
<1>0. /\ TypeOK /\ OpeningShape(p)
      /\ o.netted \subseteq Legs /\ o.filled \subseteq Legs /\ o.work \subseteq o.filled
      /\ ~Fault
  BY FaultCounted
  DEF LegsInv, LifecycleInv, TypeOK, TablesTypeOK, OpeningState, OpeningOK, OpeningShape
<1>1. UNCHANGED misflagged
  BY DEF OpenStep, OpenPosition, ListCandidates, ClaimLeg, NoCandidate, EndNetting,
     NettingThrows, BuyLeg, LegRejected, InsertLegRow, InsertLegFails, UnwindLeg,
     CloseFailedOpening, BookHedgeBuy
<1>2. \A l \in Legs : l \in OpenUnretained(p) =>
        l \in OpenUnretained(p)' /\ leg'[l].hops = leg[l].hops
  BY <1>0, OpenStepRow
<1>3. CASE OpenPosition(p)
  <2>1. o.pc = "none" /\ Becomes(p, "list", o.kinds, o.buy, o.netted, o.filled, o.work)
    BY <1>0, <1>3, NettingFields DEF OpenPosition
  <2> QED
    BY <1>0, <2>1 DEF Becomes, Keeps, OpeningShape
<1>4. CASE ClaimLeg(p)
  <2>1. PICK m \in Legs :
          /\ RepurposeHedgeLeg(m, p)
          /\ opening'[p].netted = IF CanRepurpose(m) THEN o.netted \cup {m} ELSE o.netted
          /\ opening'[p].pc = o.pc
    BY <1>0, <1>4, NettingFields, Zenon DEF Becomes
  <2>2. CanRepurpose(m) => m \in OpenUnretained(p)'
    BY <1>0, <2>1, Repurposed DEF OpenUnretained
  <2>3. o.pc = "net" /\ Keeps(p)
    BY <1>4 DEF ClaimLeg, OpenPosition
  <2> QED
    BY <1>0, <1>1, <1>2, <2>1, <2>2, <2>3 DEF Keeps
<1>5. CASE InsertLegRow(p)
  <2>1. PICK m \in o.work :
          /\ InsertHedgeLeg(m)
          /\ Becomes(p, o.pc, o.kinds, o.buy, o.netted, o.filled, o.work \ {m})
    BY <1>0, <1>5, PurchaseFields
  <2>2. o.pc = "insert" /\ Keeps(p) /\ m \in Legs /\ m[1] = p
    BY <1>0, <1>5 DEF InsertLegRow, OpenPosition, OpeningShape
  <2>3. leg[m].status = "absent"
    BY <2>1, <2>2 DEF LegsInv, LegSound
  <2>4. leg[m].hops = 0 /\ ~leg[m].retained /\ leg[m].owner = p
    BY <2>2, <2>3 DEF LegsInv, LegOK
  <2>5. m \in OpenUnretained(p)' /\ leg'[m].hops = 0
    BY <1>0, <2>1, <2>2, <2>4, Inserted DEF OpenUnretained
  <2> QED
    BY <1>0, <1>1, <1>2, <2>1, <2>2, <2>5 DEF Keeps, Becomes
<1>6. CASE ListCandidates(p) \/ NoCandidate(p) \/ EndNetting(p)
  <2>0. o.pc \in {"list", "net"} /\ o.filled = {} /\ Keeps(p)
    BY <1>0, <1>6 DEF ListCandidates, NoCandidate, EndNetting, OpenPosition, OpeningShape
  <2>1. /\ opening'[p].netted = o.netted
        /\ opening'[p].filled = o.filled
    BY <1>0, <1>6, NettingFields, Zenon DEF Becomes
  <2> QED
    BY <1>0, <1>1, <1>2, <2>0, <2>1 DEF Keeps
<1>7. CASE BuyLeg(p)
  <2>0. o.pc = "buy" /\ Keeps(p)
    BY <1>7 DEF BuyLeg, OpenPosition
  <2>1. \/ /\ opening'[p].pc = "insert" /\ opening'[p].netted = o.netted
           /\ opening'[p].work = opening'[p].filled
        \/ opening'[p].pc = "buy" /\ opening'[p].netted = o.netted
    BY <1>0, <1>7, PurchaseFields DEF Becomes
  <2> QED
    BY <1>0, <1>1, <1>2, <2>0, <2>1 DEF Keeps
<1>8. CASE LegRejected(p) \/ UnwindLeg(p) \/ CloseFailedOpening(p)
  <2>0. Keeps(p) /\ (UnwindLeg(p) => o.pc = "unwind")
    BY <1>8 DEF LegRejected, UnwindLeg, CloseFailedOpening, OpenPosition
  <2>1. opening'[p].pc \in {"unwind", "failed"} /\ opening'[p].netted = o.netted
    BY <1>0, <1>8, <2>0, PurchaseFields DEF Becomes
  <2> QED
    BY <1>0, <1>1, <1>2, <2>0, <2>1 DEF Keeps
<1>9. CASE BookHedgeBuy(p)
  <2>0. o.pc = "insert" /\ o.work = {} /\ Keeps(p)
    BY <1>9 DEF BookHedgeBuy, OpenPosition
  <2>1. Becomes(p, "done", o.kinds, o.buy, o.netted, o.filled, o.work)
    BY <1>0, <1>9, PurchaseFields
  <2> QED
    BY <1>0, <1>1, <1>2, <2>0, <2>1 DEF Keeps, Becomes
<1>10. ~NettingThrows(p) /\ ~InsertLegFails(p)
  BY <1>0 DEF NettingThrows, InsertLegFails
<1> QED
  BY <1>3, <1>4, <1>5, <1>6, <1>7, <1>8, <1>9, <1>10 DEF OpenStep

\* The invariant about hedges is inductive.
LEMMA InitHedges == Init => HedgeInv
  BY DEF Init, HedgeInv, ListsOK, Keeps, IdleTask

LEMMA NextHedges == LegsInv /\ HedgeInv /\ [Next]_vars => HedgeInv'
<1> SUFFICES ASSUME LegsInv, HedgeInv, [Next]_vars, faults' = 0
             PROVE  ListsOK' /\ \A p \in Positions : Quiet(p)' => Keeps(p)'
  BY DEF HedgeInv
<1>0. /\ LifecycleInv /\ TypeOK /\ TaskShape /\ faults \in Nat
  BY DEF LegsInv, LifecycleInv, TypeOK, TablesTypeOK
<1>1. ASSUME NEW p \in Positions, OpenStep(p)
      PROVE  ListsOK' /\ \A q \in Positions : Quiet(q)' => Keeps(q)'
  <2>1. faults = 0 /\ UNCHANGED task
    BY <1>0, <1>1, FaultCounted
    DEF OpenStep, OpenPosition, ListCandidates, ClaimLeg, NoCandidate, EndNetting,
       NettingThrows, BuyLeg, LegRejected, InsertLegRow, InsertLegFails, UnwindLeg,
       CloseFailedOpening, BookHedgeBuy
  <2>2. ListsOK /\ \A q \in Positions : Quiet(q) => Keeps(q)
    BY <2>1 DEF HedgeInv
  <2>3. ListsOK'
    <3>1. \A l \in Legs : leg[l].hops \in Nat /\ leg'[l].hops \in Nat
      BY <1>0, NextTypeOK DEF TypeOK, TablesTypeOK, LegRow
    <3>2. \A l \in Legs : leg[l].hops > 0 => leg'[l].hops > 0
      BY <1>0, <1>1, <3>1, OpenStepRow
    <3> QED
      BY <1>0, <2>1, <2>2, <3>2, ListedLegs DEF ListsOK
  <2>4. ASSUME NEW q \in Positions, Quiet(q)' PROVE Keeps(q)'
    <3>1. Quiet(q) \/ (q = p /\ OpenPosition(p))
      BY <1>0, <1>1, <2>4, OpenStepQuiet
    <3>2. CASE q = p
      BY <1>1, <2>1, <2>2, <3>1, <3>2, OpeningKeeps
    <3>3. CASE q # p
      BY <1>0, <1>1, <2>2, <3>1, <3>3, OthersKeep
    <3> QED
      BY <3>2, <3>3
  <2> QED
    BY <2>3, <2>4
<1>2. ASSUME NEW h \in Handlers,
             \/ RetainLeg(h) \/ AccruePremium(h)
             \/ h \in Cycles /\ CycleStep(h)
             \/ h \in Closers /\ CloseStep(h)
      PROVE  ListsOK' /\ \A q \in Positions : Quiet(q)' => Keeps(q)'
  <2>1. faults = 0
    BY <1>0, <1>2, HandlerLegs
  <2>2. ListsOK /\ \A q \in Positions : Quiet(q) => Keeps(q)
    BY <2>1 DEF HedgeInv
  <2>3. /\ \A g \in Handlers \ {h} : task'[g] = task[g]
        /\ UNCHANGED opening
        /\ LetsGo(h) \/ Selects(h) \/ Lists(h) \/ Flags(h) \/ GoesOn(h)
    BY <1>0, <1>2, HandlerMoves
  <2> QED
    BY <2>2, <2>3, HandlerKeepsHedges
<1>3. ~Restart
  BY <1>0, RestartFields
<1>4. CASE UNCHANGED vars
  <2>1. UNCHANGED <<position, leg, opening, task, misflagged, faults>>
    BY <1>4 DEF vars, tables, lifecycleVars, handlerVars
  <2> QED
    BY <2>1 DEF HedgeInv, ListsOK, Quiet, Keeps, OpenUnretained
<1> QED
  BY <1>1, <1>2, <1>3, <1>4 DEF Next, LifecycleStep, Handlers

-----------------------------------------------------------------------------
(* A position that was fully opened when its legs were listed is released.  *)

\* An opening that is over takes no step.
LEMMA OpenStepUnfinished ==
  ASSUME NEW p \in Positions, OpenStep(p)
  PROVE  opening[p].pc \notin {"done", "failed"}
  BY DEF OpenStep, OpenPosition, ListCandidates, ClaimLeg, NoCandidate, EndNetting,
     NettingThrows, BuyLeg, LegRejected, InsertLegRow, InsertLegFails, UnwindLeg,
     CloseFailedOpening, BookHedgeBuy

\* Nor does another opening give its position a leg.
LEMMA OpenStepGivesNone ==
  ASSUME LegsInv, faults = 0, NEW p \in Positions, OpenStep(p),
         NEW q \in Positions, q # p
  PROVE  OpenUnretained(q)' \subseteq OpenUnretained(q)
<1>0. TypeOK /\ OpeningShape(p)
  BY DEF LegsInv, LifecycleInv, OpeningOK
<1>1. CASE ClaimLeg(p)
  <2>1. PICK m \in Legs : RepurposeHedgeLeg(m, p)
    BY <1>0, <1>1, NettingFields
  <2>2. \A l \in Legs \ {m} : leg'[l] = leg[l]
    BY <1>0, <2>1, Repurposed
  <2>3. leg'[m] = leg[m] \/ leg'[m].owner = p
    BY <1>0, <2>1, Repurposed
  <2> QED
    BY <2>2, <2>3 DEF OpenUnretained
<1>2. CASE InsertLegRow(p)
  <2>1. PICK m \in opening[p].work : InsertHedgeLeg(m)
    BY <1>2 DEF InsertLegRow
  <2>2. m \in Legs /\ m[1] = p /\ opening[p].pc = "insert"
    BY <1>0, <1>2, <2>1 DEF TypeOK, OpeningState, OpeningShape, InsertLegRow
  <2>3. leg[m].status = "absent"
    BY <2>2 DEF LegsInv, LegSound
  <2>4. leg[m].owner = p
    BY <2>2, <2>3 DEF LegsInv, LegOK
  <2>5. leg'[m].owner = p /\ \A l \in Legs \ {m} : leg'[l] = leg[l]
    BY <1>0, <2>1, <2>2, <2>4, Inserted
  <2> QED
    BY <2>5 DEF OpenUnretained
<1>3. CASE ~ClaimLeg(p) /\ ~InsertLegRow(p)
  <2>1. UNCHANGED leg
    BY <1>3 DEF OpenStep, OpenPosition, ListCandidates, NoCandidate, EndNetting,
     NettingThrows, BuyLeg, LegRejected, InsertLegFails, UnwindLeg,
     CloseFailedOpening, BookHedgeBuy, tables
  <2> QED
    BY <2>1 DEF OpenUnretained
<1> QED
  BY <1>1, <1>2, <1>3

\* The steps of an opening keep the positions released.
LEMMA OpenStepReleases ==
  ASSUME LegsInv, faults = 0, \A q \in Positions \ raced : Released(q),
         NEW p \in Positions, OpenStep(p)
  PROVE  \A q \in Positions \ raced' : Released(q)'
<1> SUFFICES ASSUME NEW q \in Positions \ raced' PROVE Released(q)'
  OBVIOUS
<1>0. /\ TypeOK /\ position \in [Positions -> PositionRow]
      /\ UNCHANGED <<task, raced>>
  BY DEF LegsInv, LifecycleInv, TypeOK, TablesTypeOK,
     OpenStep, OpenPosition, ListCandidates, ClaimLeg, NoCandidate, EndNetting,
     NettingThrows, BuyLeg, LegRejected, InsertLegRow, InsertLegFails, UnwindLeg,
     CloseFailedOpening, BookHedgeBuy
<1>1. Released(q) /\ q \in Positions
  BY <1>0
<1>2. CASE q # p
  <2>1. opening'[q] = opening[q]
    BY <1>0, <1>1, <1>2, OtherOpenings
  <2>2. OpenUnretained(q)' \subseteq OpenUnretained(q)
    BY <1>1, <1>2, OpenStepGivesNone
  <2>3. Ended(q)' => Ended(q)
    <3>1. CASE OpenPosition(p)
      BY <1>0, <1>2, <3>1 DEF OpenPosition, InsertPosition, Ended
    <3>2. CASE CloseFailedOpening(p)
      BY <1>0, <1>2, <3>2 DEF CloseFailedOpening, MarkPositionClosed, Ended
    <3>3. CASE ~OpenPosition(p) /\ ~CloseFailedOpening(p)
      BY <3>3 DEF OpenStep, ListCandidates, ClaimLeg, NoCandidate, EndNetting,
        NettingThrows, BuyLeg, LegRejected, InsertLegRow, InsertLegFails, UnwindLeg,
        BookHedgeBuy, tables, Ended
    <3> QED
      BY <3>1, <3>2, <3>3
  <2>4. \A h \in Handlers : task'[h] = task[h]
    BY <1>0
  <2> QED
    BY <1>1, <2>1, <2>2, <2>3, <2>4 DEF Released
<1>3. CASE q = p
  <2>1. opening[p].pc \notin {"done", "failed"}
    BY OpenStepUnfinished
  <2>2. /\ ~Ended(p)
        /\ \A h \in Handlers : ~(task[h].pos = p /\ task[h].pc # "list")
    BY <1>1, <1>3, <2>1 DEF Released
  <2>3. Ended(p)' => opening'[p].pc = "failed"
    <3>1. CASE CloseFailedOpening(p)
      BY <1>0, <3>1, PurchaseFields DEF Becomes
    <3>2. CASE OpenPosition(p)
      BY <1>0, <3>2 DEF OpenPosition, InsertPosition, Ended, PositionRow
    <3>3. CASE ~OpenPosition(p) /\ ~CloseFailedOpening(p)
      BY <2>2, <3>3 DEF OpenStep, ListCandidates, ClaimLeg, NoCandidate, EndNetting,
        NettingThrows, BuyLeg, LegRejected, InsertLegRow, InsertLegFails, UnwindLeg,
        BookHedgeBuy, tables, Ended
    <3> QED
      BY <3>1, <3>2, <3>3
  <2> QED
    BY <1>0, <1>3, <2>2, <2>3 DEF Released
<1> QED
  BY <1>2, <1>3

\* So do the handlers.
LEMMA HandlerReleases ==
  ASSUME LegsInv, \A q \in Positions \ raced : Released(q),
         NEW h \in Handlers,
         \A g \in Handlers \ {h} : task'[g] = task[g],
         UNCHANGED opening,
         LetsGo(h) \/ Selects(h) \/ Lists(h) \/ Flags(h) \/ GoesOn(h)
  PROVE  \A q \in Positions \ raced' : Released(q)'
<1> SUFFICES ASSUME NEW q \in Positions \ raced' PROVE Released(q)'
  OBVIOUS
<1>0. TypeOK /\ raced \subseteq raced'
  BY DEF LegsInv, LifecycleInv, LetsGo, Selects, Lists, Flags, GoesOn
<1>1. Released(q) /\ q \in Positions /\ q # NoPosition
  BY <1>0, PositionsAssumption
<1>2. /\ OpenUnretained(q)' \subseteq OpenUnretained(q)
      /\ Flags(h) /\ OpenUnretained(q) \subseteq task[h].legs =>
           OpenUnretained(q)' \subseteq task'[h].legs
  <2>1. CASE ~Flags(h)
    <3>1. UNCHANGED leg
      BY <2>1 DEF LetsGo, Selects, Lists, GoesOn
    <3> QED
      BY <2>1, <3>1 DEF OpenUnretained
  <2>2. CASE Flags(h)
    <3>1. PICK m \in task[h].legs :
            task'[h].legs = task[h].legs \ {m} /\ MarkHedgeLegRetained(m)
      BY <2>2 DEF Flags
    <3>2. m \in Legs
      BY <1>0, ListedLegs
    <3>3. /\ \A l \in Legs \ {m} : leg'[l] = leg[l]
          /\ leg'[m].status = leg[m].status
          /\ leg[m].status = "open" => leg'[m].retained
      BY <1>0, <3>1, <3>2, Flagged
    <3>4. m \notin OpenUnretained(q)'
      BY <3>3 DEF OpenUnretained
    <3>5. \A l \in Legs \ {m} : l \in OpenUnretained(q)' => l \in OpenUnretained(q)
      BY <3>3 DEF OpenUnretained
    <3>6. OpenUnretained(q)' \subseteq Legs
      BY DEF OpenUnretained
    <3> QED
      BY <3>1, <3>4, <3>5, <3>6
  <2> QED
    BY <2>1, <2>2
<1>3. ASSUME NEW g \in Handlers, task'[g].pos = q, task'[g].pc # "list"
      PROVE  /\ opening'[q].pc = "done"
             /\ task'[g].pc = "retain" => OpenUnretained(q)' \subseteq task'[g].legs
             /\ task'[g].pc # "retain" => OpenUnretained(q)' = {}
  <2>1. CASE g # h
    <3>1. task'[g] = task[g]
      BY <2>1
    <3>2. /\ opening[q].pc = "done"
          /\ task[g].pc = "retain" => OpenUnretained(q) \subseteq task[g].legs
          /\ task[g].pc # "retain" => OpenUnretained(q) = {}
      BY <1>1, <1>3, <3>1 DEF Released
    <3> QED
      BY <1>2, <3>1, <3>2
  <2>2. CASE g = h /\ (LetsGo(h) \/ Selects(h))
    BY <1>1, <1>3, <2>2 DEF LetsGo, Selects
  <2>3. CASE g = h /\ Lists(h)
    <3>1. opening[q].pc = "done"
      BY <1>1, <1>3, <2>3 DEF Lists
    <3>2. task'[h].pc = "retain" /\ task'[h].legs = OpenUnretained(q)
      BY <1>3, <2>3 DEF Lists
    <3> QED
      BY <1>2, <2>3, <3>1, <3>2
  <2>4. CASE g = h /\ Flags(h)
    <3>1. task[h].pos = q /\ task[h].pc = "retain" /\ task'[h].pc = "retain"
      BY <1>3, <2>4 DEF Flags
    <3>2. opening[q].pc = "done" /\ OpenUnretained(q) \subseteq task[h].legs
      BY <1>1, <3>1 DEF Released
    <3> QED
      BY <1>2, <2>4, <3>1, <3>2
  <2>5. CASE g = h /\ GoesOn(h)
    <3>1. task[h].pos = q /\ task[h].pc # "list" /\ task'[h].pc # "retain"
          /\ (task[h].pc = "retain" => task[h].legs = {})
      BY <1>3, <2>5 DEF GoesOn
    <3>2. opening[q].pc = "done" /\ OpenUnretained(q) = {}
      BY <1>1, <3>1 DEF Released
    <3> QED
      BY <1>2, <2>5, <3>1, <3>2
  <2> QED
    BY <2>1, <2>2, <2>3, <2>4, <2>5
<1>4. ASSUME Ended(q)'
      PROVE  /\ opening'[q].pc \in {"done", "failed"}
             /\ opening'[q].pc = "done" => OpenUnretained(q)' = {}
  <2>1. CASE Ended(q)
    BY <1>1, <1>2, <2>1 DEF Released
  <2>2. CASE ~Ended(q)
    <3>1. GoesOn(h) /\ task[h].pos = q
      BY <1>1, <1>4, <2>2 DEF LetsGo, Selects, Lists, Flags, GoesOn, Ended
    <3>2. task'[h].pos = q /\ task'[h].pc # "list" /\ task'[h].pc # "retain"
      BY <3>1 DEF GoesOn
    <3> QED
      BY <1>3, <3>2
  <2> QED
    BY <2>1, <2>2
<1> QED
  BY <1>3, <1>4 DEF Released

LEMMA InitReleases == Init => ReleaseInv
  BY PositionsAssumption DEF Init, TablesInit, ReleaseInv, Released, Ended, IdleTask

LEMMA NextReleases == LegsInv /\ ReleaseInv /\ [Next]_vars => ReleaseInv'
<1> SUFFICES ASSUME LegsInv, ReleaseInv, [Next]_vars, faults' = 0
             PROVE  \A q \in Positions \ raced' : Released(q)'
  BY DEF ReleaseInv
<1>0. TypeOK /\ TaskShape /\ faults \in Nat
  BY DEF LegsInv, LifecycleInv, TypeOK, TablesTypeOK
<1>1. ASSUME NEW p \in Positions, OpenStep(p)
      PROVE  \A q \in Positions \ raced' : Released(q)'
  <2>1. faults = 0
    BY <1>0, <1>1, FaultCounted
    DEF OpenStep, OpenPosition, ListCandidates, ClaimLeg, NoCandidate, EndNetting,
       NettingThrows, BuyLeg, LegRejected, InsertLegRow, InsertLegFails, UnwindLeg,
       CloseFailedOpening, BookHedgeBuy
  <2> QED
    BY <1>1, <2>1, OpenStepReleases DEF ReleaseInv
<1>2. ASSUME NEW h \in Handlers,
             \/ RetainLeg(h) \/ AccruePremium(h)
             \/ h \in Cycles /\ CycleStep(h)
             \/ h \in Closers /\ CloseStep(h)
      PROVE  \A q \in Positions \ raced' : Released(q)'
  <2>1. faults = 0
    BY <1>0, <1>2, HandlerLegs
  <2>2. /\ \A g \in Handlers \ {h} : task'[g] = task[g]
        /\ UNCHANGED opening
        /\ LetsGo(h) \/ Selects(h) \/ Lists(h) \/ Flags(h) \/ GoesOn(h)
    BY <1>0, <1>2, HandlerMoves
  <2> QED
    BY <2>1, <2>2, HandlerReleases DEF ReleaseInv
<1>3. ~Restart
  BY <1>0, RestartFields
<1>4. CASE UNCHANGED vars
  <2>1. UNCHANGED <<position, leg, opening, task, raced, faults>>
    BY <1>4 DEF vars, tables, lifecycleVars, handlerVars
  <2> QED
    BY <2>1 DEF ReleaseInv, Released, Ended, OpenUnretained
<1> QED
  BY <1>1, <1>2, <1>3, <1>4 DEF Next, LifecycleStep, Handlers

-----------------------------------------------------------------------------
(* A position that was marked triggered is paid.                            *)

\* What the steps of a handler do to the directions and the payouts, short of a
\* failure.
LEMMA HandlerPays ==
  ASSUME LifecycleInv, NEW h \in Handlers, faults' = 0,
         \/ RetainLeg(h) \/ AccruePremium(h)
         \/ h \in Cycles /\ CycleStep(h)
         \/ h \in Closers /\ CloseStep(h)
  PROVE  \/ /\ task[h].pc # "pay"
            /\ UNCHANGED payouts
            /\ \A q \in Positions : position'[q].direction = position[q].direction
         \/ /\ h \in Cycles /\ task[h].pc = "mark"
            /\ task'[h].pos = task[h].pos /\ task'[h].pc = "pay"
            /\ UNCHANGED payouts
            /\ \A q \in Positions : q # task[h].pos =>
                 position'[q].direction = position[q].direction
         \/ /\ h \in Cycles /\ task[h].pc = "pay" /\ task[h].pos \in Positions
            /\ UNCHANGED position
            /\ payouts'[task[h].pos][h] = 1
            /\ \A q \in Positions, t \in Cycles : payouts[q][t] = 1 => payouts'[q][t] = 1
<1>0. /\ task[h] \in TaskState /\ position \in [Positions -> PositionRow]
      /\ payouts \in [Positions -> [Cycles -> Nat]]
      /\ HandlerOK(h) /\ TypeOK /\ ~Fault
  BY FaultCounted DEF LifecycleInv, TypeOK, TablesTypeOK
<1>1. CASE h \in Cycles /\ MarkTriggered(h)
  <2>1. task'[h] = [task[h] EXCEPT !.pc = "pay"]
    BY <1>0, <1>1, SetTaskSelf DEF MarkTriggered
  <2>2. task'[h].pc = "pay" /\ task'[h].pos = task[h].pos
    BY <1>0, <2>1 DEF TaskState
  <2>3. \A q \in Positions : q # task[h].pos => position'[q] = position[q]
    BY <1>0, <1>1 DEF MarkTriggered, MarkPositionTriggered
  <2> QED
    BY <1>1, <2>2, <2>3 DEF MarkTriggered, ledgerVars
<1>2. CASE h \in Cycles /\ PayOut(h)
  <2>1. task[h].pc = "pay" /\ task[h].pos \in Positions
    BY <1>2, TaskPosition DEF PayOut, LifecycleInv
  <2>2. PICK p \in Positions : p = task[h].pos
    BY <2>1
  <2>3. payouts[p][h] = 0
    BY <1>0, <1>2, <2>1, <2>2 DEF HandlerOK
  <2>4. payouts' = AddRow(payouts, p, h)
    BY <1>0, <1>2, <2>2 DEF PayOut
  <2>5. \A q \in Positions, t \in Cycles :
          payouts'[q][t] = IF q = p /\ t = h THEN payouts[q][t] + 1 ELSE payouts[q][t]
    BY <1>0, <2>4 DEF AddRow
  <2>6. payouts'[p][h] = 1
    BY <1>2, <2>3, <2>5
  <2>7. \A q \in Positions, t \in Cycles : payouts[q][t] = 1 => payouts'[q][t] = 1
    BY <2>3, <2>5
  <2>8. UNCHANGED position
    BY <1>2 DEF PayOut, tables
  <2> QED
    BY <1>2, <2>1, <2>2, <2>6, <2>7, <2>8
<1>3. CASE h \in Closers /\ MarkClosed(h)
  <2>1. MarkPositionClosed(task[h].pos)
    BY <1>0, <1>3 DEF MarkClosed
  <2>2. \A q \in Positions : position'[q].direction = position[q].direction
    BY <1>0, <2>1 DEF MarkPositionClosed, PositionRow
  <2> QED
    BY <1>3, <2>2 DEF MarkClosed, ledgerVars
<1>4. CASE \/ RetainLeg(h) \/ AccruePremium(h)
           \/ h \in Cycles /\ (StartCycle(h) \/ FireTrigger(h) \/ RecordTriggerEvent(h))
           \/ h \in Closers /\ (RequestClose(h) \/ ListLegsToClose(h))
  BY <1>4 DEF RetainLeg, AccruePremium, StartCycle, FireTrigger, RecordTriggerEvent,
     RequestClose, ListLegsToClose, tables, ledgerVars
<1>5. ~(h \in Cycles /\ FireThrows(h)) /\ ~(h \in Closers /\ CloseThrows(h))
  BY <1>0 DEF FireThrows, CloseThrows
<1> QED
  BY <1>1, <1>2, <1>3, <1>4, <1>5 DEF CycleStep, CloseStep

LEMMA InitPaid == Init => PaidInv
  BY DEF Init, TablesInit, PaidInv

LEMMA NextPaid == LifecycleInv /\ PaidInv /\ [Next]_vars => PaidInv'
<1> SUFFICES ASSUME LifecycleInv, PaidInv, [Next]_vars, faults' = 0,
                    NEW p \in Positions, position'[p].direction # "none"
             PROVE  \/ \E t \in Cycles : task'[t].pos = p /\ task'[t].pc = "pay"
                    \/ \E t \in Cycles : payouts'[p][t] = 1
  BY DEF PaidInv
<1> DEFINE Paying == \E t \in Cycles : task[t].pos = p /\ task[t].pc = "pay"
           Paid   == \E t \in Cycles : payouts[p][t] = 1
<1>0. /\ TypeOK /\ TaskShape /\ faults \in Nat
      /\ position \in [Positions -> PositionRow]
  BY DEF LifecycleInv, TypeOK, TablesTypeOK
<1>1. ASSUME NEW q \in Positions, OpenStep(q) PROVE Paying' \/ Paid'
  <2>1. faults = 0 /\ UNCHANGED <<task, payouts>>
    BY <1>0, <1>1, FaultCounted
    DEF OpenStep, OpenPosition, ListCandidates, ClaimLeg, NoCandidate, EndNetting,
       NettingThrows, BuyLeg, LegRejected, InsertLegRow, InsertLegFails, UnwindLeg,
       CloseFailedOpening, BookHedgeBuy, ledgerVars
  <2>2. position'[p].direction = position[p].direction
    <3>1. CASE OpenPosition(q)
      BY <1>0, <3>1 DEF OpenPosition, InsertPosition, PositionRow
    <3>2. CASE CloseFailedOpening(q)
      BY <1>0, <3>2 DEF CloseFailedOpening, MarkPositionClosed, PositionRow
    <3>3. CASE ~OpenPosition(q) /\ ~CloseFailedOpening(q)
      BY <1>1, <3>3 DEF OpenStep, ListCandidates, ClaimLeg, NoCandidate, EndNetting,
        NettingThrows, BuyLeg, LegRejected, InsertLegRow, InsertLegFails, UnwindLeg,
        BookHedgeBuy, tables
    <3> QED
      BY <3>1, <3>2, <3>3
  <2> QED
    BY <2>1, <2>2 DEF PaidInv
<1>2. ASSUME NEW h \in Handlers,
             \/ RetainLeg(h) \/ AccruePremium(h)
             \/ h \in Cycles /\ CycleStep(h)
             \/ h \in Closers /\ CloseStep(h)
      PROVE  Paying' \/ Paid'
  <2>1. faults = 0
    BY <1>0, <1>2, HandlerLegs
  <2>2. position[p].direction # "none" => Paying \/ Paid
    BY <2>1 DEF PaidInv
  <2>3. \A g \in Handlers \ {h} : task'[g] = task[g]
    BY <1>0, <1>2, HandlerMoves
  <2>4. CASE /\ task[h].pc # "pay"
             /\ UNCHANGED payouts
             /\ \A q \in Positions : position'[q].direction = position[q].direction
    BY <2>2, <2>3, <2>4 DEF Handlers
  <2>5. CASE /\ h \in Cycles /\ task[h].pc = "mark"
             /\ task'[h].pos = task[h].pos /\ task'[h].pc = "pay"
             /\ UNCHANGED payouts
             /\ \A q \in Positions : q # task[h].pos =>
                  position'[q].direction = position[q].direction
    <3>1. CASE p = task[h].pos
      BY <2>5, <3>1
    <3>2. CASE p # task[h].pos
      BY <2>2, <2>3, <2>5, <3>2 DEF Handlers
    <3> QED
      BY <3>1, <3>2
  <2>6. CASE /\ h \in Cycles /\ task[h].pc = "pay" /\ task[h].pos \in Positions
             /\ UNCHANGED position
             /\ payouts'[task[h].pos][h] = 1
             /\ \A q \in Positions, t \in Cycles : payouts[q][t] = 1 => payouts'[q][t] = 1
    <3>1. Paying \/ Paid
      BY <2>2, <2>6
    <3>2. CASE Paid
      BY <2>6, <3>2
    <3>3. CASE Paying
      BY <2>3, <2>6, <3>3 DEF Handlers
    <3> QED
      BY <3>1, <3>2, <3>3
  <2> QED
    BY <1>2, <2>4, <2>5, <2>6, HandlerPays
<1>3. ~Restart
  BY <1>0, RestartFields
<1>4. CASE UNCHANGED vars
  <2>1. UNCHANGED <<position, payouts, task, faults>>
    BY <1>4 DEF vars, tables, lifecycleVars, handlerVars, ledgerVars
  <2> QED
    BY <2>1 DEF PaidInv
<1> QED
  BY <1>1, <1>2, <1>3, <1>4 DEF Next, LifecycleStep, Handlers

-----------------------------------------------------------------------------
(* The theorems about the legs.                                            *)

\* The four invariants hold in every behaviour.
LEMMA LegsInvariant == Spec => [](LegsInv /\ HedgeInv /\ ReleaseInv /\ PaidInv)
<1>1. Init => LegsInv /\ HedgeInv /\ ReleaseInv /\ PaidInv
  BY InitLegs, InitHedges, InitReleases, InitPaid
<1>2. LegsInv /\ HedgeInv /\ ReleaseInv /\ PaidInv /\ [Next]_vars
      => (LegsInv /\ HedgeInv /\ ReleaseInv /\ PaidInv)'
  BY NextLegs, NextHedges, NextReleases, NextPaid DEF LegsInv
<1> QED
  BY <1>1, <1>2, PTL DEF Spec

\* The inductive invariant of the positions and their legs, which says of every
\* handler and every opening what it may still assume of rows read earlier.
THEOREM PositionInvariant == Spec => []PositionInv
<1>1. LegsInv /\ HedgeInv /\ ReleaseInv /\ PaidInv => PositionInv
  BY DEF PositionInv
<1> QED
  BY <1>1, LegsInvariant, PTL

\* Without failures, what was marked triggered is paid: the cycle whose UPDATE
\* set the direction goes on to write the payout, whatever happens to the row.
THEOREM TriggerIsPaid == Spec => []TriggeredIsPaid
<1>1. PaidInv => TriggeredIsPaid
  BY DEF PaidInv, TriggeredIsPaid
<1> QED
  BY <1>1, LegsInvariant, PTL

\* Every contract the venue account holds has a row, an opening under way, an
\* orphan alert or a failure behind it.
THEOREM LegsAccounted == Spec => []VenueLegAccounted
<1>1. ASSUME LegsInv, NEW l \in Legs, held[l] > 0, leg[l].status = "absent"
      PROVE  \/ opening[l[1]].pc \in {"buy", "insert", "unwind"}
             \/ l \in orphans
             \/ faults > 0
  <2>1. l[1] \in Positions /\ LegOK(l) /\ held[l] \in Int /\ faults \in Nat
    BY <1>1 DEF Legs, LegsInv, LifecycleInv, TypeOK, TablesTypeOK
  <2>2. opening[l[1]] \in OpeningState /\ OpeningShape(l[1])
    BY <1>1, <2>1 DEF LegsInv, LifecycleInv, TypeOK, OpeningOK
  <2>3. l \in opening[l[1]].filled
    BY <1>1, <2>1 DEF LegOK
  <2>4. opening[l[1]].pc \in {"buy", "insert", "unwind", "done", "failed"}
    BY <2>2, <2>3 DEF OpeningState, OpeningPc, OpeningShape
  <2>5. opening[l[1]].pc # "done"
    BY <1>1, <2>1, <2>3 DEF LegOK
  <2>6. opening[l[1]].pc = "failed" /\ faults = 0 => l \in orphans
    BY <1>1, <2>1 DEF LegOK
  <2> QED
    BY <2>1, <2>4, <2>5, <2>6
<1>2. LegsInv => VenueLegAccounted
  BY <1>1 DEF VenueLegAccounted
<1> QED
  BY <1>2, LegsInvariant, PTL

\* Without failures, a position that was fully opened when its legs were listed
\* ends with every open leg of it flagged, however many handlers end it at once.
THEOREM EndedIsReleased == Spec => []LegsReleased
<1>1. ReleaseInv => LegsReleased
  BY DEF ReleaseInv, Released, LegsReleased, Ended
<1> QED
  BY <1>1, LegsInvariant, PTL

\* The hop count of a leg is the number of openings that took it over, and the
\* cap holds although openings claim from lists read earlier.
THEOREM HopsCounted == Spec => []HopsCountClaims
<1>1. LegsInv => HopsCountClaims
  BY DEF LegsInv, HopsOK, HopsCountClaims
<1> QED
  BY <1>1, LegsInvariant, PTL

\* Without failures, an active position that nothing ends has a leg of each kind
\* that is open, unflagged and held, or took one over that a handler of another
\* position flagged once more.
THEOREM ActiveHedged == Spec => []ActiveIsHedged
<1>1. ASSUME LegsInv, HedgeInv, faults = 0,
             NEW p \in ActivePositions, opening[p].pc = "done", NoHandlerOn(p),
             NEW k \in Kinds
      PROVE  \/ \E l \in OpenUnretained(p) : l[2] = k /\ held[l] > 0
             \/ \E l \in opening[p].netted \cap misflagged : l[2] = k
  <2>1. p \in Positions /\ Quiet(p)
    BY <1>1 DEF ActivePositions, Quiet, NoHandlerOn
  <2>2. Keeps(p) /\ KindsCovered(p)
    BY <1>1, <2>1 DEF HedgeInv, LegsInv, OpeningOK
  <2>3. PICK l \in opening[p].netted \cup opening[p].filled : l[2] = k
    BY <1>1, <2>2 DEF KindsCovered
  <2>4. l \in OpenUnretained(p) \/ l \in opening[p].netted \cap misflagged
    BY <1>1, <2>2, <2>3 DEF Keeps
  <2>5. l \in OpenUnretained(p) => held[l] = 1
    BY <1>1 DEF LegsInv, LegSound, OpenUnretained
  <2> QED
    BY <2>3, <2>4, <2>5
<1>2. LegsInv /\ HedgeInv => ActiveIsHedged
  BY <1>1 DEF ActiveIsHedged
<1> QED
  BY <1>2, LegsInvariant, PTL
-----------------------------------------------------------------------------
(* The runtime: openings, detector cycles, close requests and hedge manager *)
(* ticks interleave over the same rows and the same venue account.          *)

\* A leg that was not filled has no row, and no row is inserted twice.
LegState(l) ==
  LET o == opening[l[1]] IN
  /\ l \notin o.filled => leg[l].status = "absent"
  /\ o.pc = "buy" => leg[l].status = "absent"
  /\ o.pc = "insert" /\ l \in o.work => leg[l].status = "absent"

\* Some tick sold the leg and has not marked its row.
Unmarked(l) == \E m \in Managers : tick[m].pc = "sold" /\ tick[m].cur.leg = l

\* Without failures: the contract behind a row yet to be inserted or sold back
\* is held, and once the row is there each sale has its seller.
LegHeld(l) ==
  LET o == opening[l[1]] IN
  /\ leg[l].status = "absent" =>
       /\ held[l] >= 0
       /\ o.pc \in {"buy", "insert"} /\ l \in o.filled => held[l] >= 1
       /\ o.pc = "unwind" /\ l \in o.work => held[l] >= 1
  /\ o.pc = "unwind" => leg[l].status = "absent"
  /\ leg[l].status # "absent" => held[l] + Cardinality(Sellers(l)) >= 1
  /\ leg[l].status = "open" => held[l] >= 1 \/ Unmarked(l)

\* The legs a tick has still to decide have rows, and this tick has booked no
\* sale of them; what it books is marked sold.
TickOK(m) ==
  LET t == tick[m] IN
  /\ \A s \in t.todo : leg[s.leg].status # "absent" /\ sellRows[s.leg][m] = 0
  /\ \A s, u \in t.todo : s.leg = u.leg => s = u
  /\ t.pc \in {"sold", "book", "find", "final"} => t.cur \in Snapshot
  /\ t.pc \in {"sold", "book"} =>
       /\ leg[t.cur.leg].status # "absent"
       /\ sellRows[t.cur.leg][m] = 0
       /\ \A s \in t.todo : s.leg # t.cur.leg
  /\ t.pc = "book" => leg[t.cur.leg].status = "sold"
  /\ \A l \in Legs : sellRows[l][m] <= 1 /\ (sellRows[l][m] > 0 => leg[l].status = "sold")

\* The ticks with a sale made for p that is not in its salvage event.
Working(p) ==
  {m \in Managers : tick[m].pc \in {"sold", "book", "find", "final"} /\ tick[m].cur.pos = p}

\* h bounds the events of p and what the ticks read of them; its sum and the
\* sales still to be entered stay within the sales made.
BackedBy(p, h) ==
  /\ h \in [Nat -> Nat]
  /\ \A r \in 1..Len(salvage[p]) : salvage[p][r] <= h[r]
  /\ \A m \in Managers :
       tick[m].pc = "final" /\ tick[m].cur.pos = p =>
         tick[m].row \in 1..Len(salvage[p]) /\ tick[m].seen <= h[tick[m].row]
  /\ SumOf(h, 1..Len(salvage[p])) + Cardinality(Working(p)) <= soldFor[p]

RuntimeTyped == TypeOK /\ TaskShape /\ ManagerTypeOK

RuntimeShape ==
  /\ RuntimeTyped
  /\ \A p \in Positions : OpeningOK(p)
  /\ \A l \in Legs : LegState(l)
  /\ \A m \in Managers : TickOK(m)

RuntimeInv ==
  /\ RuntimeShape
  /\ faults = 0 => \A l \in Legs : LegHeld(l)
  /\ \A p \in Positions : \E h : BackedBy(p, h)

-----------------------------------------------------------------------------
(* The steps of a tick, field by field.                                    *)

TickState == [pc   : TickPc,
              todo : SUBSET Snapshot,
              cur  : Snapshot \cup {<<>>},
              row  : Nat,
              seen : Nat]

\* The tick goes to a record with these fields; the others stay.
TickGoes(m, c, td, cu, rw, sn) ==
  /\ tick'[m].pc = c
  /\ tick'[m].todo = td
  /\ tick'[m].cur = cu
  /\ tick'[m].row = rw
  /\ tick'[m].seen = sn
  /\ \A n \in Managers \ {m} : tick'[n] = tick[n]
  /\ tick' \in [Managers -> TickState]

\* It is done with its leg and has these left.
LeavesLeg(m, td) == TickGoes(m, IF td = {} THEN "idle" ELSE "loop", td, <<>>, 0, 0)

\* Setting the record of one tick.
LEMMA TickSet ==
  ASSUME ManagerTypeOK, NEW m \in Managers, NEW s \in TickState,
         tick' = [tick EXCEPT ![m] = s]
  PROVE  TickGoes(m, s.pc, s.todo, s.cur, s.row, s.seen)
<1>1. tick'[m] = s /\ \A n \in Managers \ {m} : tick'[n] = tick[n]
  BY DEF ManagerTypeOK
<1>2. tick' \in [Managers -> TickState]
  BY DEF ManagerTypeOK, TickState
<1> QED
  BY <1>1, <1>2 DEF TickGoes, TickState

\* A tick that is done with its leg.
LEMMA LegLeft ==
  ASSUME ManagerTypeOK, NEW m \in Managers, NEW s \in TickState,
         tick' = [tick EXCEPT ![m] = NextLeg(s)]
  PROVE  LeavesLeg(m, s.todo)
<1> DEFINE n == NextLeg(s)
<1>1. IdleTick \in TickState /\ s.todo \in SUBSET Snapshot
  BY DEF IdleTick, TickState, TickPc
<1>2. CASE s.todo = {}
  <2>1. n = IdleTick
    BY <1>2 DEF NextLeg
  <2>2. TickGoes(m, IdleTick.pc, IdleTick.todo, IdleTick.cur, IdleTick.row, IdleTick.seen)
    BY <1>1, <2>1, TickSet
  <2> QED
    BY <1>2, <2>2 DEF LeavesLeg, IdleTick
<1>3. CASE s.todo # {}
  <2>1. n = [IdleTick EXCEPT !.pc = "loop", !.todo = s.todo]
    BY <1>3 DEF NextLeg
  <2>2. /\ n.pc = "loop" /\ n.todo = s.todo /\ n.cur = <<>> /\ n.row = 0 /\ n.seen = 0
        /\ n \in TickState
    BY <1>1, <2>1 DEF IdleTick, TickState, TickPc
  <2>3. TickGoes(m, n.pc, n.todo, n.cur, n.row, n.seen)
    BY <2>2, TickSet
  <2> HIDE DEF n
  <2> QED
    BY <1>3, <2>2, <2>3 DEF LeavesLeg
<1> QED
  BY <1>2, <1>3

\* The fields each step of a tick sets.
LEMMA ManagerFields ==
  ASSUME TypeOK, ManagerTypeOK, NEW m \in Managers
  PROVE  LET t == tick[m] IN
         /\ StartTick(m) =>
              TickGoes(m, "loop", {[leg |-> l, pos |-> leg[l].owner] : l \in RetainedLegs},
                       t.cur, t.row, t.seen)
         /\ KeepLeg(m) => \E s \in t.todo : LeavesLeg(m, t.todo \ {s})
         /\ SellLeg(m) =>
              \E s \in t.todo :
                /\ held' = [held EXCEPT ![s.leg] = @ - 1]
                /\ soldFor' = [soldFor EXCEPT ![s.pos] = @ + 1]
                /\ TickGoes(m, "sold", t.todo \ {s}, s, t.row, t.seen)
         /\ MarkSold(m) =>
              \/ /\ MarkHedgeLegSold(t.cur.leg)
                 /\ NoFault
                 /\ TickGoes(m, "book", t.todo, t.cur, t.row, t.seen)
              \/ UNCHANGED leg /\ Fault /\ LeavesLeg(m, t.todo)
         /\ BookSale(m) => TickGoes(m, "find", t.todo, t.cur, t.row, t.seen)
         /\ FindSalvage(m) =>
              \/ LeavesLeg(m, t.todo)
              \/ /\ t.cur.pos \in Positions => salvage[t.cur.pos] # <<>>
                 /\ t.cur.pos \in Positions =>
                      TickGoes(m, "final", t.todo, t.cur, Len(salvage[t.cur.pos]),
                               salvage[t.cur.pos][Len(salvage[t.cur.pos])])
         /\ FinalizeSalvage(m) => LeavesLeg(m, t.todo)
<1> DEFINE t == tick[m]
<1>0. t \in TickState
  BY DEF ManagerTypeOK, TickState
<1>1. ASSUME StartTick(m)
      PROVE  TickGoes(m, "loop", {[leg |-> l, pos |-> leg[l].owner] : l \in RetainedLegs},
                      t.cur, t.row, t.seen)
  <2> DEFINE ls == {[leg |-> l, pos |-> leg[l].owner] : l \in RetainedLegs}
             n == [t EXCEPT !.pc = "loop", !.todo = ls]
  <2>1. ls \in SUBSET Snapshot
    BY DEF RetainedLegs, Snapshot, TypeOK, TablesTypeOK, LegRow
  <2>2. tick' = [tick EXCEPT ![m] = n]
    BY <1>1 DEF StartTick, ManagerTypeOK
  <2> HIDE DEF ls
  <2>3. /\ n.pc = "loop" /\ n.todo = ls /\ n.cur = t.cur /\ n.row = t.row /\ n.seen = t.seen
        /\ n \in TickState
    BY <1>0, <2>1 DEF TickState, TickPc
  <2>4. TickGoes(m, n.pc, n.todo, n.cur, n.row, n.seen)
    BY <2>2, <2>3, TickSet
  <2>5. TickGoes(m, "loop", ls, t.cur, t.row, t.seen)
    <3> HIDE DEF n
    <3> QED
      BY <2>3, <2>4
  <2> QED
    BY <2>5 DEF ls
<1>2. ASSUME KeepLeg(m) PROVE \E s \in t.todo : LeavesLeg(m, t.todo \ {s})
  <2>1. PICK s \in t.todo : tick' = [tick EXCEPT ![m] = NextLeg([t EXCEPT !.todo = @ \ {s}])]
    BY <1>2 DEF KeepLeg
  <2> DEFINE n == [t EXCEPT !.todo = @ \ {s}]
  <2>2. n \in TickState /\ n.todo = t.todo \ {s}
    BY <1>0 DEF TickState
  <2>3. LeavesLeg(m, n.todo)
    BY <2>1, <2>2, LegLeft
  <2> HIDE DEF n
  <2>4. LeavesLeg(m, t.todo \ {s})
    BY <2>2, <2>3
  <2> QED
    BY <2>4
<1>3. ASSUME SellLeg(m)
      PROVE  \E s \in t.todo :
                /\ held' = [held EXCEPT ![s.leg] = @ - 1]
                /\ soldFor' = [soldFor EXCEPT ![s.pos] = @ + 1]
                /\ TickGoes(m, "sold", t.todo \ {s}, s, t.row, t.seen)
  <2>1. PICK s \in t.todo :
          /\ tick' = [tick EXCEPT ![m].pc = "sold", ![m].todo = @ \ {s}, ![m].cur = s]
          /\ held' = [held EXCEPT ![s.leg] = @ - 1]
          /\ soldFor' = [soldFor EXCEPT ![s.pos] = @ + 1]
    BY <1>3 DEF SellLeg
  <2> DEFINE n == [t EXCEPT !.pc = "sold", !.todo = @ \ {s}, !.cur = s]
  <2>2. tick' = [tick EXCEPT ![m] = n]
    BY <2>1 DEF ManagerTypeOK
  <2>3. s \in Snapshot
    BY <1>0 DEF TickState
  <2>4. /\ n.pc = "sold" /\ n.todo = t.todo \ {s} /\ n.cur = s /\ n.row = t.row
        /\ n.seen = t.seen
        /\ n \in TickState
    BY <1>0, <2>3 DEF TickState, TickPc
  <2>5. TickGoes(m, n.pc, n.todo, n.cur, n.row, n.seen)
    BY <2>2, <2>4, TickSet
  <2> HIDE DEF n
  <2>6. TickGoes(m, "sold", t.todo \ {s}, s, t.row, t.seen)
    BY <2>4, <2>5
  <2> QED
    BY <2>1, <2>6
<1>4. ASSUME MarkSold(m)
      PROVE  \/ /\ MarkHedgeLegSold(t.cur.leg)
                /\ NoFault
                /\ TickGoes(m, "book", t.todo, t.cur, t.row, t.seen)
             \/ UNCHANGED leg /\ Fault /\ LeavesLeg(m, t.todo)
  <2> DEFINE n == [t EXCEPT !.pc = "book"]
  <2>1. /\ n.pc = "book" /\ n.todo = t.todo /\ n.cur = t.cur /\ n.row = t.row
        /\ n.seen = t.seen
        /\ n \in TickState
    BY <1>0 DEF TickState, TickPc
  <2>2. CASE MarkHedgeLegSold(t.cur.leg) /\ tick' = [tick EXCEPT ![m].pc = "book"] /\ NoFault
    <3>1. tick' = [tick EXCEPT ![m] = n]
      BY <2>2 DEF ManagerTypeOK
    <3>2. TickGoes(m, n.pc, n.todo, n.cur, n.row, n.seen)
      BY <2>1, <3>1, TickSet
    <3> HIDE DEF n
    <3> QED
      BY <2>1, <2>2, <3>2
  <2>3. CASE tick' = [tick EXCEPT ![m] = NextLeg(@)] /\ UNCHANGED leg /\ Fault
    <3>1. tick' = [tick EXCEPT ![m] = NextLeg(t)]
      BY <2>3 DEF ManagerTypeOK
    <3> QED
      BY <1>0, <2>3, <3>1, LegLeft
  <2> QED
    BY <1>4, <2>2, <2>3 DEF MarkSold
<1>5. ASSUME BookSale(m) PROVE TickGoes(m, "find", t.todo, t.cur, t.row, t.seen)
  <2> DEFINE n == [t EXCEPT !.pc = "find"]
  <2>1. /\ n.pc = "find" /\ n.todo = t.todo /\ n.cur = t.cur /\ n.row = t.row
        /\ n.seen = t.seen
        /\ n \in TickState
    BY <1>0 DEF TickState, TickPc
  <2>2. tick' = [tick EXCEPT ![m] = n]
    BY <1>5 DEF BookSale, ManagerTypeOK
  <2>3. TickGoes(m, n.pc, n.todo, n.cur, n.row, n.seen)
    BY <2>1, <2>2, TickSet
  <2> HIDE DEF n
  <2> QED
    BY <2>1, <2>3
<1>6. ASSUME FindSalvage(m)
      PROVE  \/ LeavesLeg(m, t.todo)
             \/ /\ t.cur.pos \in Positions => salvage[t.cur.pos] # <<>>
                /\ t.cur.pos \in Positions =>
                     TickGoes(m, "final", t.todo, t.cur, Len(salvage[t.cur.pos]),
                              salvage[t.cur.pos][Len(salvage[t.cur.pos])])
  <2> DEFINE events == salvage[t.cur.pos]
             n == [t EXCEPT !.pc = "final", !.row = Len(events), !.seen = events[Len(events)]]
  <2>1. CASE tick' = [tick EXCEPT ![m] = NextLeg(@)]
    <3>1. tick' = [tick EXCEPT ![m] = NextLeg(t)]
      BY <2>1 DEF ManagerTypeOK
    <3> QED
      BY <1>0, <3>1, LegLeft
  <2>2. ASSUME events # <<>>, tick' = [tick EXCEPT ![m] = n], t.cur.pos \in Positions
        PROVE  TickGoes(m, "final", t.todo, t.cur, Len(events), events[Len(events)])
    <3>1. events \in Seq(Nat)
      BY <2>2 DEF TypeOK, TablesTypeOK
    <3> HIDE DEF events
    <3>2. Len(events) \in Nat /\ events[Len(events)] \in Nat
      BY <2>2, <3>1
    <3>3. /\ n.pc = "final" /\ n.todo = t.todo /\ n.cur = t.cur /\ n.row = Len(events)
          /\ n.seen = events[Len(events)]
          /\ n \in TickState
      BY <1>0, <3>2 DEF TickState, TickPc
    <3>4. TickGoes(m, n.pc, n.todo, n.cur, n.row, n.seen)
      BY <2>2, <3>3, TickSet
    <3> HIDE DEF n
    <3> QED
      BY <3>3, <3>4
  <2>3. \/ tick' = [tick EXCEPT ![m] = NextLeg(@)]
        \/ events # <<>> /\ tick' = [tick EXCEPT ![m] = n]
    BY <1>6 DEF FindSalvage, ManagerTypeOK
  <2> QED
    BY <2>1, <2>2, <2>3
<1>7. ASSUME FinalizeSalvage(m) PROVE LeavesLeg(m, t.todo)
  <2>1. tick' = [tick EXCEPT ![m] = NextLeg(t)]
    BY <1>7 DEF FinalizeSalvage, ManagerTypeOK
  <2> QED
    BY <1>0, <2>1, LegLeft
<1> QED
  BY <1>1, <1>2, <1>3, <1>4, <1>5, <1>6, <1>7

-----------------------------------------------------------------------------
(* The lifecycle's steps keep the rows and the contracts the ticks rely on. *)

\* The sellers of a leg are counted.
LEMMA SellersFinite == \A l \in Legs : IsFiniteSet(Sellers(l)) /\ Cardinality(Sellers(l)) \in Nat
<1> TAKE l \in Legs
<1>1. Sellers(l) \subseteq Managers
  BY DEF Sellers
<1>2. IsFiniteSet(Sellers(l))
  BY <1>1, ManagersAssumption, FS_Subset
<1> QED
  BY <1>2, FS_CardinalityType

\* A row never becomes absent again, and 'sold' is final.
StatusKept(l) ==
  /\ leg[l].status # "absent" => leg'[l].status # "absent"
  /\ leg[l].status = "sold" => leg'[l].status = "sold"

\* A step that changes neither the leg's status, nor its contract, nor what its
\* opening holds, nor what the ticks do.
LEMMA RowKept ==
  ASSUME NEW l \in Legs, LegState(l), leg'[l].status = leg[l].status, held'[l] = held[l],
         UNCHANGED managerVars,
         opening'[l[1]].pc = opening[l[1]].pc,
         opening'[l[1]].filled = opening[l[1]].filled,
         opening'[l[1]].work = opening[l[1]].work
  PROVE  LegState(l)' /\ StatusKept(l) /\ (LegHeld(l) => LegHeld(l)')
<1>1. Sellers(l)' = Sellers(l) /\ (Unmarked(l) => Unmarked(l)')
  BY DEF Sellers, Unmarked, managerVars
<1>2. LegState(l)' /\ StatusKept(l)
  BY DEF LegState, StatusKept
<1>3. LegHeld(l) => LegHeld(l)'
  BY <1>1 DEF LegHeld
<1> QED
  BY <1>2, <1>3

\* The steps of an opening keep the rows of the other openings' legs.
LEMMA OtherRows ==
  ASSUME TypeOK, \A q \in Positions : OpeningOK(q), NEW p \in Positions, OpenStep(p),
         NEW l \in Legs, LegState(l), l[1] # p, UNCHANGED managerVars
  PROVE  LegState(l)' /\ StatusKept(l) /\ (LegHeld(l) => LegHeld(l)')
<1>1. opening'[l[1]] = opening[l[1]]
  BY OtherOpenings DEF Legs
<1>2. held'[l] = held[l] /\ leg'[l].status = leg[l].status
  BY OthersRow DEF SameRow
<1> QED
  BY <1>1, <1>2, RowKept

\* The netting steps: nothing is bought yet.
LEMMA OwnRowsNetting ==
  ASSUME TypeOK, NEW p \in Positions, OpeningOK(p), NEW l \in Legs, l[1] = p, LegState(l),
         UNCHANGED managerVars,
         \/ OpenPosition(p) \/ ListCandidates(p) \/ ClaimLeg(p) \/ NoCandidate(p)
         \/ EndNetting(p) \/ NettingThrows(p)
  PROVE  LegState(l)' /\ StatusKept(l) /\ (LegHeld(l) => LegHeld(l)')
<1> DEFINE o == opening[p]
<1>0. o.pc \in {"none", "list", "net"} /\ o.filled = {} /\ o.work = {}
  BY DEF OpenPosition, ListCandidates, ClaimLeg, NoCandidate, EndNetting, NettingThrows,
         OpeningOK, OpeningShape
<1>1. leg[l].status = "absent"
  BY <1>0 DEF LegState
<1>2. leg'[l] = leg[l] /\ UNCHANGED held
  <2>1. CASE ClaimLeg(p)
    <3>1. PICK m \in Legs : RepurposeHedgeLeg(m, p)
      BY <2>1, NettingFields
    <3>2. CanRepurpose(m) => m # l
      BY <1>1 DEF CanRepurpose
    <3> QED
      BY <2>1, <3>1, <3>2, Repurposed DEF ClaimLeg
  <2>2. CASE ~ClaimLeg(p)
    BY <2>2 DEF OpenPosition, ListCandidates, NoCandidate, EndNetting, NettingThrows, tables
  <2> QED
    BY <2>1, <2>2
<1>3. /\ opening'[p].filled = {} /\ opening'[p].work = {}
      /\ opening'[p].pc \in {"list", "net", "insert", "buy", "failed"}
  BY <1>0, NettingFields DEF Becomes, ClaimLeg, NoCandidate
<1>4. LegState(l)' /\ StatusKept(l)
  BY <1>1, <1>2, <1>3 DEF LegState, StatusKept
<1>5. LegHeld(l) => LegHeld(l)'
  BY <1>1, <1>2, <1>3 DEF LegHeld
<1> QED
  BY <1>4, <1>5

\* Buying a leg, ...
LEMMA OwnRowsBuy ==
  ASSUME TypeOK, NEW p \in Positions, OpeningOK(p), NEW l \in Legs, l[1] = p, LegState(l),
         UNCHANGED managerVars, BuyLeg(p)
  PROVE  LegState(l)' /\ StatusKept(l) /\ (LegHeld(l) => LegHeld(l)')
<1> DEFINE o == opening[p]
           k == FirstKind(o.buy)
           m == <<p, k>>
           f == o.filled \cup {m}
<1>0. /\ o.pc = "buy" /\ k \in o.buy /\ m \in Legs
      /\ o.work \subseteq o.filled
      /\ held \in [Legs -> Int]
      /\ held' = [held EXCEPT ![m] = @ + 1]
      /\ UNCHANGED leg
  BY FirstKindType
  DEF BuyLeg, TypeOK, TablesTypeOK, OpeningState, OpeningOK, OpeningShape, Legs
<1>1. \/ opening'[p].pc = "buy" /\ opening'[p].filled = f /\ opening'[p].work = o.work
      \/ opening'[p].pc = "insert" /\ opening'[p].filled = f /\ opening'[p].work = f
  BY PurchaseFields DEF Becomes
<1> HIDE DEF m
<1>2. held[l] \in Int /\ held'[l] = IF l = m THEN held[l] + 1 ELSE held[l]
  BY <1>0
<1>3. leg[l].status = "absent" /\ leg'[l].status = "absent"
  BY <1>0 DEF LegState
<1>4. LegState(l)' /\ StatusKept(l)
  BY <1>0, <1>1, <1>3 DEF LegState, StatusKept
<1>5. ASSUME LegHeld(l) PROVE LegHeld(l)'
  <2>1. held[l] >= 0 /\ (l \in o.filled => held[l] >= 1)
    BY <1>0, <1>3, <1>5 DEF LegHeld
  <2>2. held'[l] >= 0 /\ (l \in f => held'[l] >= 1)
    BY <1>2, <2>1
  <2> HIDE DEF f
  <2> QED
    BY <1>1, <1>3, <2>2 DEF LegHeld
<1> QED
  BY <1>4, <1>5

\* ... inserting its row, ...
LEMMA OwnRowsInsert ==
  ASSUME TypeOK, NEW p \in Positions, OpeningOK(p), NEW l \in Legs, l[1] = p, LegState(l),
         UNCHANGED managerVars, InsertLegRow(p)
  PROVE  LegState(l)' /\ StatusKept(l) /\ (LegHeld(l) => LegHeld(l)')
<1> DEFINE o == opening[p]
<1>1. PICK m \in o.work :
        /\ InsertHedgeLeg(m)
        /\ Becomes(p, o.pc, o.kinds, o.buy, o.netted, o.filled, o.work \ {m})
  BY PurchaseFields
<1>2. /\ o.pc = "insert" /\ m \in Legs /\ o.work \subseteq o.filled
      /\ UNCHANGED held
      /\ held[l] \in Int
  BY DEF InsertLegRow, TypeOK, TablesTypeOK, OpeningState, OpeningOK, OpeningShape
<1>3. /\ opening'[p].pc = "insert"
      /\ opening'[p].filled = o.filled
      /\ opening'[p].work = o.work \ {m}
  BY <1>1, <1>2 DEF Becomes
<1>4. Sellers(l)' = Sellers(l) /\ (Unmarked(l) => Unmarked(l)')
  BY DEF Sellers, Unmarked, managerVars
<1>5. CASE l = m
  <2>1. leg'[l].status = "open" /\ leg[l].status = "absent"
    BY <1>1, <1>2, <1>5, Inserted DEF LegState
  <2>2. LegState(l)' /\ StatusKept(l)
    BY <1>2, <1>3, <1>5, <2>1 DEF LegState, StatusKept
  <2>3. ASSUME LegHeld(l) PROVE LegHeld(l)'
    <3>1. held'[l] >= 1
      BY <1>2, <1>5, <2>1, <2>3 DEF LegHeld
    <3>2. held'[l] + Cardinality(Sellers(l)') >= 1
      BY <1>2, <1>4, <3>1, SellersFinite
    <3> QED
      BY <1>3, <2>1, <3>1, <3>2 DEF LegHeld
  <2> QED
    BY <2>2, <2>3
<1>6. CASE l # m
  <2>1. leg'[l] = leg[l]
    BY <1>1, <1>2, <1>6, Inserted
  <2>2. LegState(l)' /\ StatusKept(l)
    BY <1>2, <1>3, <1>6, <2>1 DEF LegState, StatusKept
  <2>3. LegHeld(l) => LegHeld(l)'
    BY <1>2, <1>3, <1>4, <1>6, <2>1 DEF LegHeld
  <2> QED
    BY <2>2, <2>3
<1> QED
  BY <1>5, <1>6

\* ... selling it back, ...
LEMMA OwnRowsUnwind ==
  ASSUME TypeOK, NEW p \in Positions, OpeningOK(p), NEW l \in Legs, l[1] = p, LegState(l),
         UNCHANGED managerVars, UnwindLeg(p)
  PROVE  LegState(l)' /\ StatusKept(l) /\ (LegHeld(l) => LegHeld(l)')
<1> DEFINE o == opening[p]
<1>1. PICK m \in o.work :
        /\ held' = [held EXCEPT ![m] = @ - 1] \/ UNCHANGED held
        /\ Becomes(p, o.pc, o.kinds, o.buy, o.netted, o.filled, o.work \ {m})
  BY PurchaseFields
<1>2. /\ o.pc = "unwind" /\ m \in Legs /\ o.work \subseteq o.filled
      /\ UNCHANGED leg
      /\ held \in [Legs -> Int] /\ held[l] \in Int
  BY DEF UnwindLeg, TypeOK, TablesTypeOK, OpeningState, OpeningOK, OpeningShape
<1>3. /\ opening'[p].pc = "unwind"
      /\ opening'[p].filled = o.filled
      /\ opening'[p].work = o.work \ {m}
  BY <1>1, <1>2 DEF Becomes
<1>4. held'[l] = held[l] \/ (l = m /\ held'[l] = held[l] - 1)
  BY <1>1, <1>2
<1>5. LegState(l)' /\ StatusKept(l)
  BY <1>2, <1>3 DEF LegState, StatusKept
<1>6. ASSUME LegHeld(l) PROVE LegHeld(l)'
  <2>1. leg[l].status = "absent" /\ held[l] >= 0 /\ (l \in o.work => held[l] >= 1)
    BY <1>2, <1>6 DEF LegHeld
  <2>2. held'[l] >= 0 /\ (l \in o.work \ {m} => held'[l] >= 1)
    BY <1>2, <1>4, <2>1
  <2> QED
    BY <1>2, <1>3, <2>1, <2>2 DEF LegHeld
<1> QED
  BY <1>5, <1>6

\* ... and the statements around them.
LEMMA OwnRowsOther ==
  ASSUME TypeOK, NEW p \in Positions, OpeningOK(p), NEW l \in Legs, l[1] = p, LegState(l),
         UNCHANGED managerVars,
         LegRejected(p) \/ InsertLegFails(p) \/ CloseFailedOpening(p) \/ BookHedgeBuy(p)
  PROVE  LegState(l)' /\ StatusKept(l) /\ (faults' = 0 /\ LegHeld(l) => LegHeld(l)')
<1> DEFINE o == opening[p]
<1>0. UNCHANGED <<leg, held>> /\ o.work \subseteq o.filled /\ faults \in Nat
  BY DEF LegRejected, InsertLegFails, CloseFailedOpening, BookHedgeBuy, tables, OpeningOK,
         OpeningShape, TypeOK, TablesTypeOK
<1>1. /\ opening'[p].filled = o.filled /\ opening'[p].pc \in {"unwind", "failed", "done"}
      /\ opening'[p].pc = "unwind" => opening'[p].work = o.filled
  BY PurchaseFields DEF Becomes
<1>2. LegState(l)' /\ StatusKept(l)
  BY <1>0, <1>1 DEF LegState, StatusKept
<1>3. faults' = 0 /\ opening'[p].pc = "unwind" => o.pc = "buy"
  BY <1>0, PurchaseFields, FaultCounted
  DEF LegRejected, InsertLegFails, CloseFailedOpening, BookHedgeBuy, Becomes
<1>4. Sellers(l)' = Sellers(l) /\ (Unmarked(l) => Unmarked(l)')
  BY DEF Sellers, Unmarked, managerVars
<1>5. ASSUME faults' = 0, LegHeld(l) PROVE LegHeld(l)'
  <2>1. o.pc = "buy" => leg[l].status = "absent"
    BY DEF LegState
  <2> QED
    BY <1>0, <1>1, <1>3, <1>4, <1>5, <2>1 DEF LegHeld
<1> QED
  BY <1>2, <1>5

\* Every step of an opening keeps them.
LEMMA OpenStepKeepsRows ==
  ASSUME TypeOK, \A q \in Positions : OpeningOK(q), NEW p \in Positions, OpenStep(p),
         NEW l \in Legs, LegState(l), UNCHANGED managerVars
  PROVE  LegState(l)' /\ StatusKept(l) /\ (faults' = 0 /\ LegHeld(l) => LegHeld(l)')
<1>1. CASE l[1] # p
  BY <1>1, OtherRows
<1>2. CASE l[1] = p
  BY <1>2, OwnRowsNetting, OwnRowsBuy, OwnRowsInsert, OwnRowsUnwind, OwnRowsOther
  DEF OpenStep
<1> QED
  BY <1>1, <1>2

\* A handler's step and a restart keep them, too.
LEMMA HandlerRows ==
  ASSUME TypeOK, NEW h \in Handlers,
         \/ RetainLeg(h) \/ AccruePremium(h)
         \/ h \in Cycles /\ CycleStep(h)
         \/ h \in Closers /\ CloseStep(h),
         UNCHANGED managerVars,
         NEW l \in Legs, LegState(l)
  PROVE  LegState(l)' /\ StatusKept(l) /\ (faults' = 0 /\ LegHeld(l) => LegHeld(l)')
<1>1. UNCHANGED <<opening, held>>
  BY HandlerLegs
<1>2. leg'[l].status = leg[l].status
  <2>1. CASE UNCHANGED leg
    BY <2>1
  <2>2. ASSUME NEW m \in Legs, MarkHedgeLegRetained(m) PROVE leg'[l].status = leg[l].status
    BY <2>2, Flagged
  <2> QED
    BY <2>1, <2>2, HandlerLegs, ListedLegs
<1>3. held'[l] = held[l] /\ opening'[l[1]] = opening[l[1]]
  BY <1>1
<1> QED
  BY <1>2, <1>3, RowKept

LEMMA RestartRows ==
  ASSUME TypeOK, Restart, NEW l \in Legs, LegState(l)
  PROVE  LegState(l)' /\ StatusKept(l) /\ faults' # 0
<1>1. l[1] \in Positions
  BY DEF Legs
<1>2. /\ UNCHANGED leg /\ faults' # 0
      /\ opening'[l[1]].filled = opening[l[1]].filled
      /\ \/ opening'[l[1]] = opening[l[1]]
         \/ opening'[l[1]].pc = "failed" /\ opening'[l[1]].work = {}
  BY <1>1, RestartFields
<1> QED
  BY <1>2 DEF LegState, StatusKept

\* What a tick does not change stays as it is.
LEMMA TickKept ==
  ASSUME ManagerTypeOK, NEW m \in Managers, TickOK(m), tick'[m] = tick[m],
         \A l \in Legs : StatusKept(l) /\ sellRows'[l][m] = sellRows[l][m]
  PROVE  TickOK(m)'
<1>1. /\ \A s \in tick[m].todo : s.leg \in Legs
      /\ tick[m].cur \in Snapshot => tick[m].cur.leg \in Legs
  BY DEF ManagerTypeOK, Snapshot
<1> QED
  BY <1>1 DEF TickOK, StatusKept

\* A tick that goes on to the rest of its list.
LEMMA TickLeft ==
  ASSUME ManagerTypeOK, NEW m \in Managers, TickOK(m), NEW td \in SUBSET tick[m].todo,
         LeavesLeg(m, td),
         \A l \in Legs : StatusKept(l) /\ sellRows'[l][m] = sellRows[l][m]
  PROVE  TickOK(m)'
<1>1. \A s \in tick[m].todo : s.leg \in Legs
  BY DEF ManagerTypeOK, Snapshot
<1>2. tick'[m].pc \in {"idle", "loop"} /\ tick'[m].todo = td
  BY DEF LeavesLeg, TickGoes
<1> QED
  BY <1>1, <1>2 DEF TickOK, StatusKept

-----------------------------------------------------------------------------
(* The steps of a tick.                                                    *)

\* A tick changes no row but the one it sold, which it marks.
LEMMA ManagerRows ==
  ASSUME RuntimeShape, NEW m \in Managers, ManagerStep(m)
  PROVE  /\ ~MarkSold(m) => UNCHANGED leg
         /\ \A l \in Legs :
              \/ leg'[l].status = leg[l].status
              \/ /\ MarkSold(m) /\ NoFault
                 /\ l = tick[m].cur.leg /\ leg'[l].status = "sold"
         /\ \A l \in Legs : StatusKept(l)
<1>1. ~MarkSold(m) => UNCHANGED leg
  BY DEF ManagerStep, StartTick, KeepLeg, SellLeg, BookSale, FindSalvage, FinalizeSalvage, tables
<1>2. \A l \in Legs :
        \/ leg'[l].status = leg[l].status
        \/ /\ MarkSold(m) /\ NoFault
           /\ l = tick[m].cur.leg /\ leg'[l].status = "sold"
  <2>1. CASE UNCHANGED leg
    BY <2>1
  <2>2. CASE MarkSold(m) /\ NoFault /\ MarkHedgeLegSold(tick[m].cur.leg)
    <3>1. leg \in [Legs -> LegRow]
      BY DEF RuntimeShape, RuntimeTyped, TypeOK, TablesTypeOK
    <3>2. \A l \in Legs : l # tick[m].cur.leg => leg'[l] = leg[l]
      BY <2>2, <3>1 DEF MarkHedgeLegSold
    <3>3. tick[m].cur.leg \in Legs => leg'[tick[m].cur.leg].status = "sold"
      BY <2>2, <3>1 DEF MarkHedgeLegSold, LegRow
    <3> QED
      BY <2>2, <3>2, <3>3
  <2> QED
    BY <1>1, <2>1, <2>2 DEF MarkSold
<1>3. \A l \in Legs : StatusKept(l)
  BY <1>2 DEF StatusKept
<1> QED
  BY <1>1, <1>2, <1>3

\* A row marked sold was there.
LEMMA ManagerLegState ==
  ASSUME RuntimeShape, NEW m \in Managers, ManagerStep(m), UNCHANGED opening,
         NEW l \in Legs
  PROVE  LegState(l)'
<1>1. LegState(l) /\ TickOK(m)
  BY DEF RuntimeShape
<1>2. CASE leg'[l].status = leg[l].status
  BY <1>1, <1>2 DEF LegState
<1>3. CASE MarkSold(m) /\ l = tick[m].cur.leg /\ leg'[l].status = "sold"
  <2>1. leg[l].status # "absent"
    BY <1>1, <1>3 DEF TickOK, MarkSold
  <2> QED
    BY <1>1, <1>3, <2>1 DEF LegState
<1> QED
  BY <1>2, <1>3, ManagerRows

\* A step of a tick changes its own record.
LEMMA ManagerGoes ==
  ASSUME RuntimeShape, NEW m \in Managers, ManagerStep(m)
  PROVE  tick' \in [Managers -> TickState] /\ \A n \in Managers \ {m} : tick'[n] = tick[n]
<1> DEFINE t == tick[m]
           Goal == tick' \in [Managers -> TickState] /\ \A n \in Managers \ {m} : tick'[n] = tick[n]
<1>0. TypeOK /\ ManagerTypeOK /\ TickOK(m)
  BY DEF RuntimeShape, RuntimeTyped
<1>1. ASSUME NEW c, NEW td, NEW cu, NEW rw, NEW sn, TickGoes(m, c, td, cu, rw, sn) PROVE Goal
  BY <1>1 DEF TickGoes
<1>2. ASSUME NEW td, LeavesLeg(m, td) PROVE Goal
  BY <1>1, <1>2 DEF LeavesLeg
<1> SUFFICES Goal
  OBVIOUS
<1> HIDE DEF Goal
<1>3. CASE StartTick(m)
  BY <1>0, <1>1, <1>3, ManagerFields
<1>4. CASE KeepLeg(m)
  BY <1>0, <1>2, <1>4, ManagerFields
<1>5. CASE SellLeg(m)
  BY <1>0, <1>1, <1>5, ManagerFields
<1>6. CASE MarkSold(m)
  BY <1>0, <1>1, <1>2, <1>6, ManagerFields
<1>7. CASE BookSale(m)
  BY <1>0, <1>1, <1>7, ManagerFields
<1>8. CASE FindSalvage(m)
  <2>1. t.cur.pos \in Positions
    BY <1>0, <1>8 DEF TickOK, FindSalvage, Snapshot
  <2> QED
    BY <1>0, <1>1, <1>2, <1>8, <2>1, ManagerFields
<1>9. CASE FinalizeSalvage(m)
  BY <1>0, <1>2, <1>9, ManagerFields
<1> QED
  BY <1>3, <1>4, <1>5, <1>6, <1>7, <1>8, <1>9 DEF ManagerStep

\* A tick keeps every variable typed.
LEMMA ManagerTyped ==
  ASSUME RuntimeShape, NEW m \in Managers, ManagerStep(m), UNCHANGED lifecycleVars
  PROVE  RuntimeTyped' /\ UNCHANGED <<opening, position>>
<1>0. /\ TypeOK /\ ManagerTypeOK /\ TaskShape /\ TickOK(m) /\ tick[m] \in TickState
      /\ leg \in [Legs -> LegRow] /\ held \in [Legs -> Int]
      /\ salvage \in [Positions -> Seq(Nat)] /\ faults \in Nat
      /\ sellRows \in [Legs -> [Managers -> Nat]] /\ soldFor \in [Positions -> Nat]
  BY DEF RuntimeShape, RuntimeTyped, TypeOK, TablesTypeOK, ManagerTypeOK, TickState
<1>1. UNCHANGED <<opening, task, payouts, premiums, bought, orphans, raced, misflagged>>
  BY DEF lifecycleVars, handlerVars, ledgerVars
<1>2. UNCHANGED position
  BY DEF ManagerStep, StartTick, KeepLeg, SellLeg, MarkSold, BookSale, FindSalvage,
         FinalizeSalvage, tables
<1>3. leg' \in [Legs -> LegRow]
  <2>1. CASE MarkSold(m)
    <3> DEFINE l == tick[m].cur.leg
    <3>1. l \in Legs
      BY <1>0, <2>1 DEF MarkSold, TickOK, Snapshot
    <3>2. leg' = [leg EXCEPT ![l].status = "sold"] \/ UNCHANGED leg
      BY <2>1 DEF MarkSold, MarkHedgeLegSold
    <3> HIDE DEF l
    <3> QED
      BY <1>0, <3>1, <3>2 DEF LegRow, LegStatus
  <2>2. CASE ~MarkSold(m)
    BY <1>0, <2>2, ManagerRows
  <2> QED
    BY <2>1, <2>2
<1>4. held' \in [Legs -> Int] /\ soldFor' \in [Positions -> Nat]
  <2>1. CASE SellLeg(m)
    <3>1. PICK s \in tick[m].todo :
            /\ held' = [held EXCEPT ![s.leg] = @ - 1]
            /\ soldFor' = [soldFor EXCEPT ![s.pos] = @ + 1]
      BY <2>1 DEF SellLeg
    <3>2. s.leg \in Legs /\ s.pos \in Positions
      BY <1>0 DEF TickState, Snapshot
    <3> QED
      BY <1>0, <3>1, <3>2
  <2>2. CASE ~SellLeg(m)
    BY <1>0, <2>2 DEF ManagerStep, StartTick, KeepLeg, MarkSold, BookSale, FindSalvage,
         FinalizeSalvage, tables
  <2> QED
    BY <2>1, <2>2
<1>5. sellRows' \in [Legs -> [Managers -> Nat]]
  <2>1. CASE BookSale(m)
    <3>1. sellRows' = [sellRows EXCEPT ![tick[m].cur.leg][m] = @ + 1] \/ UNCHANGED sellRows
      BY <2>1 DEF BookSale
    <3>2. tick[m].cur.leg \in Legs
      BY <1>0, <2>1 DEF TickOK, BookSale, Snapshot
    <3> DEFINE l == tick[m].cur.leg
    <3>3. sellRows[l] \in [Managers -> Nat] /\ sellRows[l][m] + 1 \in Nat
      BY <1>0, <3>2
    <3>4. [sellRows[l] EXCEPT ![m] = @ + 1] \in [Managers -> Nat]
      BY <3>3
    <3> HIDE DEF l
    <3> QED
      BY <1>0, <3>1, <3>2, <3>4 DEF l
  <2>2. CASE ~BookSale(m)
    BY <1>0, <2>2 DEF ManagerStep, StartTick, KeepLeg, SellLeg, MarkSold, FindSalvage,
         FinalizeSalvage
  <2> QED
    BY <2>1, <2>2
<1>6. salvage' \in [Positions -> Seq(Nat)]
  <2>1. CASE FinalizeSalvage(m)
    <3> DEFINE t == tick[m]
    <3>1. \/ UNCHANGED salvage
          \/ salvage' = [salvage EXCEPT ![t.cur.pos][t.row] = t.seen + 1]
      BY <2>1 DEF FinalizeSalvage
    <3>2. t.cur.pos \in Positions /\ t.seen + 1 \in Nat
      BY <1>0, <2>1 DEF TickOK, FinalizeSalvage, Snapshot, TickState
    <3>3. salvage[t.cur.pos] \in Seq(Nat)
      BY <1>0, <3>2
    <3>4. [salvage[t.cur.pos] EXCEPT ![t.row] = t.seen + 1] \in Seq(Nat)
      <4> DEFINE e == salvage[t.cur.pos]
                 v == t.seen + 1
                 r == t.row
      <4>1. e \in Seq(Nat) /\ v \in Nat
        BY <3>2, <3>3
      <4> HIDE DEF e, v, r
      <4>2. [e EXCEPT ![r] = v] \in Seq(Nat)
        <5>1. e \in [1..Len(e) -> Nat] /\ Len(e) \in Nat
          BY <4>1, LenProperties
        <5>2. [e EXCEPT ![r] = v] \in [1..Len(e) -> Nat]
          BY <4>1, <5>1
        <5> QED
          BY <5>1, <5>2, SeqDef
      <4> QED
        BY <4>2 DEF e, v, r
    <3> QED
      BY <1>0, <3>1, <3>2, <3>4
  <2>2. CASE ~FinalizeSalvage(m)
    BY <1>0, <2>2 DEF ManagerStep, StartTick, KeepLeg, SellLeg, MarkSold, BookSale, FindSalvage,
         tables
  <2> QED
    BY <2>1, <2>2
<1>7. faults' \in Nat
  BY <1>0, FaultTypes DEF ManagerStep, StartTick, KeepLeg, SellLeg, MarkSold, BookSale,
     FindSalvage, FinalizeSalvage
<1>8. tick' \in [Managers -> TickState]
  BY ManagerGoes
<1>9. TypeOK'
  BY <1>0, <1>1, <1>2, <1>3, <1>4, <1>6, <1>7 DEF TypeOK, TablesTypeOK
<1>10. ManagerTypeOK'
  BY <1>4, <1>5, <1>8 DEF ManagerTypeOK, TickState
<1>11. TaskShape'
  BY <1>0, <1>1 DEF TaskShape
<1> QED
  BY <1>1, <1>2, <1>9, <1>10, <1>11 DEF RuntimeTyped

\* What the step of a tick makes of that tick.
LEMMA ManagerTick ==
  ASSUME RuntimeShape, NEW m \in Managers, ManagerStep(m)
  PROVE  TickOK(m)'
<1> DEFINE t == tick[m]
<1>0. /\ TypeOK /\ ManagerTypeOK /\ TickOK(m) /\ t \in TickState
      /\ leg \in [Legs -> LegRow]
      /\ sellRows \in [Legs -> [Managers -> Nat]]
      /\ \A s \in t.todo : s \in Snapshot /\ s.leg \in Legs /\ s.pos \in Positions
      /\ t.cur \in Snapshot => t.cur.leg \in Legs /\ t.cur.pos \in Positions
  BY DEF RuntimeShape, RuntimeTyped, TypeOK, TablesTypeOK, ManagerTypeOK, TickState, Snapshot
<1>1. \A l \in Legs : StatusKept(l)
  BY ManagerRows
<1>2. CASE StartTick(m)
  <2> DEFINE ls == {[leg |-> l, pos |-> leg[l].owner] : l \in RetainedLegs}
  <2>1. TickGoes(m, "loop", ls, t.cur, t.row, t.seen)
    BY <1>0, <1>2, ManagerFields
  <2>2. /\ \A s \in ls : s.leg \in Legs /\ leg[s.leg].status = "open"
        /\ \A s, u \in ls : s.leg = u.leg => s = u
    BY DEF RetainedLegs
  <2>3. UNCHANGED <<leg, sellRows>>
    BY <1>2 DEF StartTick, tables
  <2> HIDE DEF ls
  <2>4. \A s \in ls : sellRows[s.leg][m] = 0
    BY <1>0, <2>2 DEF TickOK
  <2> QED
    BY <1>0, <2>1, <2>2, <2>3, <2>4 DEF TickOK, TickGoes
<1>3. CASE KeepLeg(m)
  <2>1. PICK s \in t.todo : LeavesLeg(m, t.todo \ {s})
    BY <1>0, <1>3, ManagerFields
  <2>2. UNCHANGED sellRows
    BY <1>3 DEF KeepLeg
  <2> QED
    BY <1>0, <1>1, <2>1, <2>2, TickLeft
<1>4. CASE SellLeg(m)
  <2>1. PICK s \in t.todo : TickGoes(m, "sold", t.todo \ {s}, s, t.row, t.seen)
    BY <1>0, <1>4, ManagerFields
  <2>2. UNCHANGED <<leg, sellRows>>
    BY <1>4 DEF SellLeg
  <2> QED
    BY <1>0, <2>1, <2>2 DEF TickOK, TickGoes
<1>5. CASE MarkSold(m)
  <2>1. UNCHANGED sellRows
    BY <1>5 DEF MarkSold
  <2>2. CASE LeavesLeg(m, t.todo)
    BY <1>0, <1>1, <2>1, <2>2, TickLeft
  <2>3. CASE MarkHedgeLegSold(t.cur.leg) /\ TickGoes(m, "book", t.todo, t.cur, t.row, t.seen)
    <3>1. t.pc = "sold" /\ t.cur \in Snapshot /\ t.cur.leg \in Legs
      BY <1>0, <1>5 DEF MarkSold, TickOK
    <3>2. leg'[t.cur.leg].status = "sold"
      BY <1>0, <2>3, <3>1 DEF MarkHedgeLegSold, LegRow
    <3> QED
      BY <1>0, <1>1, <2>1, <2>3, <3>1, <3>2 DEF TickOK, TickGoes, StatusKept
  <2> QED
    BY <1>0, <1>5, <2>2, <2>3, ManagerFields
<1>6. CASE BookSale(m)
  <2>1. TickGoes(m, "find", t.todo, t.cur, t.row, t.seen)
    BY <1>0, <1>6, ManagerFields
  <2>2. /\ sellRows' = [sellRows EXCEPT ![t.cur.leg][m] = @ + 1] \/ UNCHANGED sellRows
        /\ UNCHANGED leg /\ t.pc = "book" /\ t.cur \in Snapshot /\ t.cur.leg \in Legs
    BY <1>0, <1>6 DEF BookSale, tables, TickOK
  <2>3. /\ \A l \in Legs : l # t.cur.leg => sellRows'[l][m] = sellRows[l][m]
        /\ sellRows'[t.cur.leg][m] <= 1
    BY <1>0, <2>2 DEF TickOK
  <2> QED
    BY <1>0, <2>1, <2>2, <2>3 DEF TickOK, TickGoes
<1>7. CASE FindSalvage(m)
  <2>1. UNCHANGED <<leg, sellRows>> /\ t.pc = "find" /\ t.cur \in Snapshot
    BY <1>0, <1>7 DEF FindSalvage, tables, TickOK
  <2>2. CASE LeavesLeg(m, t.todo)
    BY <1>0, <1>1, <2>1, <2>2, TickLeft
  <2>3. ASSUME NEW r, NEW v, TickGoes(m, "final", t.todo, t.cur, r, v) PROVE TickOK(m)'
    BY <1>0, <2>1, <2>3 DEF TickOK, TickGoes
  <2> QED
    BY <1>0, <1>7, <2>1, <2>2, <2>3, ManagerFields
<1>8. CASE FinalizeSalvage(m)
  <2>1. UNCHANGED sellRows
    BY <1>8 DEF FinalizeSalvage
  <2>2. LeavesLeg(m, t.todo)
    BY <1>0, <1>8, ManagerFields
  <2> QED
    BY <1>0, <1>1, <2>1, <2>2, TickLeft
<1> QED
  BY <1>2, <1>3, <1>4, <1>5, <1>6, <1>7, <1>8 DEF ManagerStep

\* The other ticks stay as they are.
LEMMA OtherTicks ==
  ASSUME RuntimeShape, NEW m \in Managers, ManagerStep(m), NEW n \in Managers, n # m
  PROVE  /\ TickOK(n)' /\ tick'[n] = tick[n]
         /\ \A l \in Legs : sellRows'[l][n] = sellRows[l][n]
<1>0. /\ TypeOK /\ ManagerTypeOK /\ TickOK(n) /\ TickOK(m)
      /\ sellRows \in [Legs -> [Managers -> Nat]]
  BY DEF RuntimeShape, RuntimeTyped, ManagerTypeOK
<1>1. tick'[n] = tick[n]
  BY ManagerGoes
<1>2. \A l \in Legs : sellRows'[l][n] = sellRows[l][n]
  <2>1. CASE BookSale(m)
    BY <1>0, <2>1 DEF BookSale
  <2>2. CASE ~BookSale(m)
    BY <2>2 DEF ManagerStep, StartTick, KeepLeg, SellLeg, MarkSold, FindSalvage, FinalizeSalvage
  <2> QED
    BY <2>1, <2>2
<1> QED
  BY <1>0, <1>1, <1>2, ManagerRows, TickKept

\* Without failures a tick that sold a leg stays among its sellers, and a tick
\* that sells one becomes its seller.
LEMMA ManagerSellers ==
  ASSUME RuntimeShape, NEW m \in Managers, ManagerStep(m), faults' = 0, NEW l \in Legs
  PROVE  /\ Sellers(l) \subseteq Sellers(l)'
         /\ \/ held'[l] = held[l]
            \/ /\ held'[l] = held[l] - 1
               /\ m \notin Sellers(l) /\ m \in Sellers(l)'
               /\ tick'[m].pc = "sold" /\ tick'[m].cur.leg = l
               /\ leg[l].status # "absent"
<1> DEFINE t == tick[m]
<1>0. /\ TypeOK /\ ManagerTypeOK /\ TickOK(m) /\ faults \in Nat
      /\ held \in [Legs -> Int]
      /\ sellRows \in [Legs -> [Managers -> Nat]]
      /\ \A s \in t.todo : s \in Snapshot /\ s.leg \in Legs /\ s.pos \in Positions
      /\ t.cur \in Snapshot => t.cur.leg \in Legs /\ t.cur.pos \in Positions
  BY DEF RuntimeShape, RuntimeTyped, TypeOK, TablesTypeOK, ManagerTypeOK, Snapshot
<1>1. ~Fault
  BY <1>0, FaultCounted
<1>2. \A n \in Managers \ {m} : n \in Sellers(l) <=> n \in Sellers(l)'
  <2>1. \A n \in Managers \ {m} : tick'[n] = tick[n] /\ sellRows'[l][n] = sellRows[l][n]
    BY OtherTicks
  <2> QED
    BY <2>1 DEF Sellers
<1>3. CASE StartTick(m)
  <2>1. t.pc = "idle" /\ UNCHANGED <<held, sellRows>>
    BY <1>3 DEF StartTick, tables
  <2> QED
    BY <1>2, <2>1 DEF Sellers
<1>4. CASE KeepLeg(m)
  <2>1. t.pc = "loop" /\ UNCHANGED <<held, sellRows>>
    BY <1>4 DEF KeepLeg, tables
  <2> QED
    BY <1>2, <2>1 DEF Sellers
<1>5. CASE SellLeg(m)
  <2>1. t.pc = "loop" /\ UNCHANGED sellRows
    BY <1>5 DEF SellLeg
  <2>2. PICK s \in t.todo :
          /\ held' = [held EXCEPT ![s.leg] = @ - 1]
          /\ TickGoes(m, "sold", t.todo \ {s}, s, t.row, t.seen)
    BY <1>0, <1>5, ManagerFields
  <2>3. Sellers(l) \subseteq Sellers(l)'
    BY <1>2, <2>1 DEF Sellers
  <2>4. CASE s.leg = l
    <3>1. held'[l] = held[l] - 1
      BY <1>0, <2>2, <2>4
    <3>2. sellRows[l][m] = 0 /\ leg[l].status # "absent"
      BY <1>0, <2>4 DEF TickOK
    <3>3. tick'[m].pc = "sold" /\ tick'[m].cur.leg = l
      BY <2>2, <2>4 DEF TickGoes
    <3>4. m \notin Sellers(l) /\ m \in Sellers(l)'
      BY <2>1, <3>2, <3>3 DEF Sellers
    <3> QED
      BY <2>3, <3>1, <3>2, <3>3, <3>4
  <2>5. CASE s.leg # l
    BY <1>0, <2>2, <2>3, <2>5
  <2> QED
    BY <2>4, <2>5
<1>6. CASE MarkSold(m)
  <2>1. t.pc = "sold" /\ UNCHANGED <<held, sellRows>>
    BY <1>6 DEF MarkSold
  <2>2. tick'[m].pc = "book" /\ tick'[m].cur = t.cur
    BY <1>0, <1>1, <1>6, ManagerFields DEF TickGoes
  <2> QED
    BY <1>2, <2>1, <2>2 DEF Sellers
<1>7. CASE BookSale(m)
  <2>1. t.pc = "book" /\ UNCHANGED held /\ t.cur.leg \in Legs
    BY <1>0, <1>7 DEF BookSale, tables, TickOK
  <2>2. sellRows' = [sellRows EXCEPT ![t.cur.leg][m] = @ + 1]
    BY <1>1, <1>7 DEF BookSale
  <2>3. /\ sellRows'[t.cur.leg][m] > 0
        /\ sellRows[l][m] > 0 => sellRows'[l][m] > 0
    BY <1>0, <2>1, <2>2
  <2> QED
    BY <1>2, <2>1, <2>3 DEF Sellers
<1>8. CASE FindSalvage(m)
  <2>1. t.pc = "find" /\ UNCHANGED <<held, sellRows>>
    BY <1>8 DEF FindSalvage, tables
  <2> QED
    BY <1>2, <2>1 DEF Sellers
<1>9. CASE FinalizeSalvage(m)
  <2>1. t.pc = "final" /\ UNCHANGED <<held, sellRows>>
    BY <1>9 DEF FinalizeSalvage
  <2> QED
    BY <1>2, <2>1 DEF Sellers
<1> QED
  BY <1>3, <1>4, <1>5, <1>6, <1>7, <1>8, <1>9 DEF ManagerStep

\* A sale is unmarked until its row is marked.
LEMMA ManagerUnmarked ==
  ASSUME RuntimeShape, NEW m \in Managers, ManagerStep(m), faults' = 0, NEW l \in Legs,
         Unmarked(l), leg'[l].status = "open"
  PROVE  Unmarked(l)'
<1>0. TypeOK /\ ManagerTypeOK /\ TickOK(m) /\ faults \in Nat /\ leg \in [Legs -> LegRow]
  BY DEF RuntimeShape, RuntimeTyped, TypeOK, TablesTypeOK
<1>1. PICK n \in Managers : tick[n].pc = "sold" /\ tick[n].cur.leg = l
  BY DEF Unmarked
<1>2. CASE n # m
  <2>1. tick'[n] = tick[n]
    BY <1>2, OtherTicks
  <2> QED
    BY <1>1, <2>1 DEF Unmarked
<1>3. CASE n = m
  <2>1. MarkSold(m)
    BY <1>1, <1>3 DEF ManagerStep, StartTick, KeepLeg, SellLeg, BookSale, FindSalvage,
       FinalizeSalvage
  <2>2. MarkHedgeLegSold(l)
    BY <1>0, <1>1, <1>3, <2>1, FaultCounted DEF MarkSold
  <2>3. leg'[l].status = "sold"
    BY <1>0, <2>2 DEF MarkHedgeLegSold, LegRow
  <2> QED
    BY <2>3
<1> QED
  BY <1>2, <1>3

\* So a leg's row keeps its contract or its sellers.
LEMMA ManagerHeld ==
  ASSUME RuntimeShape, NEW m \in Managers, ManagerStep(m), UNCHANGED opening, faults' = 0,
         NEW l \in Legs, LegHeld(l)
  PROVE  LegHeld(l)'
<1>0. /\ TickOK(m) /\ held[l] \in Int
      /\ IsFiniteSet(Sellers(l)) /\ Cardinality(Sellers(l)) \in Nat
  BY SellersFinite DEF RuntimeShape, RuntimeTyped, TypeOK, TablesTypeOK
<1>1. IsFiniteSet(Sellers(l)') /\ Cardinality(Sellers(l)') \in Nat
  <2>1. Sellers(l)' \subseteq Managers
    BY DEF Sellers
  <2> QED
    BY <2>1, ManagersAssumption, FS_Subset, FS_CardinalityType
<1>2. leg'[l].status # leg[l].status =>
        leg[l].status # "absent" /\ leg'[l].status = "sold"
  BY <1>0, ManagerRows DEF TickOK, MarkSold
<1>3. CASE held'[l] = held[l]
  <2>1. Cardinality(Sellers(l)) <= Cardinality(Sellers(l)')
    BY <1>1, ManagerSellers, FS_Subset
  <2>2. leg'[l].status = "open" /\ Unmarked(l) => Unmarked(l)'
    BY ManagerUnmarked
  <2> QED
    BY <1>0, <1>1, <1>2, <1>3, <2>1, <2>2 DEF LegHeld
<1>4. CASE /\ held'[l] = held[l] - 1
           /\ m \notin Sellers(l) /\ m \in Sellers(l)'
           /\ tick'[m].pc = "sold" /\ tick'[m].cur.leg = l
           /\ leg[l].status # "absent"
  <2>1. Cardinality(Sellers(l)) + 1 <= Cardinality(Sellers(l)')
    <3>1. Cardinality(Sellers(l) \cup {m}) = Cardinality(Sellers(l)) + 1
      BY <1>0, <1>4, FS_AddElement
    <3>2. Sellers(l) \cup {m} \subseteq Sellers(l)'
      BY <1>4, ManagerSellers
    <3>3. Cardinality(Sellers(l) \cup {m}) <= Cardinality(Sellers(l)')
      BY <1>1, <3>2, FS_Subset
    <3> QED
      BY <3>1, <3>3
  <2>2. Unmarked(l)'
    BY <1>4 DEF Unmarked
  <2> QED
    BY <1>0, <1>1, <1>2, <1>4, <2>1, <2>2 DEF LegHeld
<1> QED
  BY <1>3, <1>4, ManagerSellers

-----------------------------------------------------------------------------
(* The salvage proceeds are backed by sales.                               *)

\* The total of the events of a position is a sum over their places.
LEMMA FoldIsSum ==
  ASSUME NEW f
  PROVE  FoldFunction(+, 0, f) = SumOf(f, DOMAIN f)
  BY DEF FoldFunction, FoldFunctionOnSet, SumOf, MapThenSumSet, MapThenFoldSet

\* The places of the events of a position.
LEMMA EventPlaces ==
  ASSUME TypeOK, NEW p \in Positions
  PROVE  /\ Len(salvage[p]) \in Nat
         /\ IsFiniteSet(1..Len(salvage[p]))
         /\ DOMAIN salvage[p] = 1..Len(salvage[p])
         /\ \A r \in 1..Len(salvage[p]) : r \in Nat /\ salvage[p][r] \in Nat
<1>1. salvage[p] \in Seq(Nat)
  BY DEF TypeOK, TablesTypeOK
<1> DEFINE e == salvage[p]
<1> HIDE DEF e
<1>2. Len(e) \in Nat /\ DOMAIN e = 1..Len(e) /\ \A r \in 1..Len(e) : e[r] \in Nat
  BY <1>1 DEF e
<1>3. IsFiniteSet(1..Len(e))
  BY <1>2, FS_Interval
<1>4. \A r \in 1..Len(e) : r \in Nat
  BY <1>2
<1> QED
  BY <1>2, <1>3, <1>4 DEF e

\* Ticks under way are finitely many.
LEMMA WorkingFinite ==
  ASSUME NEW p
  PROVE  /\ Working(p) \in SUBSET Managers
         /\ IsFiniteSet(Working(p))
         /\ Cardinality(Working(p)) \in Nat
<1>1. Working(p) \subseteq Managers
  BY DEF Working
<1> QED
  BY <1>1, ManagersAssumption, FS_Subset, FS_CardinalityType

\* The sum a bound has over the events.
LEMMA BoundSum ==
  ASSUME TypeOK, NEW p \in Positions, NEW h \in [Nat -> Nat]
  PROVE  SumOf(h, 1..Len(salvage[p])) \in Nat
<1> DEFINE S == 1..Len(salvage[p])
<1>1. IsFiniteSet(S) /\ \A r \in S : h[r] \in Nat
  BY EventPlaces
<1> HIDE DEF S
<1>2. SumOf(h, S) \in Nat
  BY <1>1, SumType
<1> QED
  BY <1>2 DEF S

\* A step that writes no event of p, and gives no tick more to enter for p
\* than sales were made, keeps the bound.
LEMMA BackKept ==
  ASSUME TypeOK, ManagerTypeOK, ManagerTypeOK', NEW m, NEW p \in Positions, NEW h, BackedBy(p, h),
         salvage'[p] = salvage[p],
         \A n \in Managers \ {m} : tick'[n] = tick[n],
         m \in Managers /\ tick'[m].pc = "final" /\ tick'[m].cur.pos = p =>
           tick'[m].row \in 1..Len(salvage[p]) /\ tick'[m].seen <= h[tick'[m].row],
         \/ soldFor'[p] = soldFor[p] /\ (m \in Working(p)' => m \in Working(p))
         \/ soldFor'[p] = soldFor[p] + 1
  PROVE  BackedBy(p, h)'
<1> DEFINE W == Working(p)
           V == Working(p)'
           S == SumOf(h, 1..Len(salvage[p]))
<1>1. W \in SUBSET Managers /\ V \in SUBSET Managers
  BY DEF Working
<1>2. W \ {m} = V \ {m}
  BY DEF Working
<1>3. soldFor[p] \in Nat /\ S \in Nat /\ S + Cardinality(W) <= soldFor[p]
  BY BoundSum DEF BackedBy, ManagerTypeOK
<1>4. SumOf(h, 1..Len(salvage'[p])) = S
  OBVIOUS
<1> HIDE DEF W, V, S
<1>5. /\ Cardinality(W) \in Nat /\ Cardinality(V) \in Nat
      /\ Cardinality(V) + (IF m \in W THEN 1 ELSE 0)
           = Cardinality(W) + (IF m \in V THEN 1 ELSE 0)
  BY <1>1, <1>2, ManagersAssumption, OneMoved
<1>6. S + Cardinality(V) <= soldFor'[p]
  BY <1>3, <1>5 DEF V, W
<1> QED
  BY <1>4, <1>6 DEF BackedBy, V

\* A bound with a place more.
LEMMA BoundExtended ==
  ASSUME NEW h \in [Nat -> Nat], NEW k \in Nat
  PROVE  \E g \in [Nat -> Nat] :
           /\ g[k + 1] = 0
           /\ \A r \in 1..k : g[r] = h[r]
           /\ SumOf(g, 1..(k + 1)) = SumOf(h, 1..k)
<1> DEFINE g == [h EXCEPT ![k + 1] = 0]
           A == 1..(k + 1)
           B == 1..k
<1>1. g \in [Nat -> Nat] /\ g[k + 1] = 0 /\ \A r \in B : g[r] = h[r]
  BY DEF g
<1>2. A \ {k + 1} = B /\ k + 1 \in A /\ \A r \in A : r \in Nat
  OBVIOUS
<1>3. IsFiniteSet(A) /\ IsFiniteSet(B)
  BY FS_Interval
<1>4. \A r \in A : g[r] \in Int
  BY <1>1, <1>2
<1>5. \A r \in B : h[r] \in Nat
  BY <1>2
<1> HIDE DEF A, B, g
<1>6. SumOf(g, A) = g[k + 1] + SumOf(g, A \ {k + 1})
  BY <1>2, <1>3, <1>4, SumOut
<1>7. SumOf(g, B) = SumOf(h, B)
  BY <1>1, <1>3, SumSame
<1>8. SumOf(h, B) \in Nat
  BY <1>3, <1>5, SumType
<1>9. SumOf(g, A) = SumOf(h, B)
  BY <1>1, <1>2, <1>6, <1>7, <1>8
<1> QED
  BY <1>1, <1>9 DEF A, B

\* A step that begins an event of p without proceeds.
LEMMA BackBegun ==
  ASSUME TypeOK, ManagerTypeOK, NEW p \in Positions, NEW h, BackedBy(p, h),
         InsertSalvageEvent(p), UNCHANGED managerVars
  PROVE  \E g : BackedBy(p, g)'
<1> DEFINE e == salvage[p]
           k == Len(e)
<1>1. e \in Seq(Nat) /\ salvage'[p] = Append(e, 0)
  BY DEF InsertSalvageEvent, TypeOK, TablesTypeOK
<1>2. /\ h \in [Nat -> Nat]
      /\ \A r \in 1..k : e[r] <= h[r]
      /\ \A m \in Managers :
           tick[m].pc = "final" /\ tick[m].cur.pos = p =>
             tick[m].row \in 1..k /\ tick[m].seen <= h[tick[m].row]
      /\ SumOf(h, 1..k) + Cardinality(Working(p)) <= soldFor[p]
  BY DEF BackedBy
<1>3. Working(p)' = Working(p) /\ soldFor'[p] = soldFor[p] /\ tick' = tick
  BY DEF Working, managerVars
<1> HIDE DEF e
<1>4. /\ k \in Nat
      /\ Len(salvage'[p]) = k + 1
      /\ \A r \in 1..k : salvage'[p][r] = e[r]
      /\ salvage'[p][k + 1] = 0
  BY <1>1
<1> HIDE DEF k
<1>5. PICK g \in [Nat -> Nat] :
        /\ g[k + 1] = 0
        /\ \A r \in 1..k : g[r] = h[r]
        /\ SumOf(g, 1..(k + 1)) = SumOf(h, 1..k)
  BY <1>2, <1>4, BoundExtended
<1>0. k \in Nat
  BY <1>4
<1>6. \A r \in 1..(k + 1) : salvage'[p][r] <= g[r]
  <2> TAKE r \in 1..(k + 1)
  <2>1. r \in 1..k \/ r = k + 1
    BY <1>0
  <2>2. CASE r \in 1..k
    <3>1. salvage'[p][r] = e[r] /\ g[r] = h[r] /\ e[r] <= h[r]
      BY <1>2, <1>4, <1>5, <2>2
    <3> QED
      BY <3>1
  <2>3. CASE r = k + 1
    <3>1. salvage'[p][r] = 0 /\ g[r] = 0
      BY <1>4, <1>5, <2>3
    <3> QED
      BY <3>1
  <2> QED
    BY <2>1, <2>2, <2>3
<1>7. \A m \in Managers :
        tick'[m].pc = "final" /\ tick'[m].cur.pos = p =>
          tick'[m].row \in 1..(k + 1) /\ tick'[m].seen <= g[tick'[m].row]
  <2>1. \A r \in 1..k : r \in 1..(k + 1)
    BY <1>4
  <2> QED
    BY <1>2, <1>3, <1>5, <2>1
<1>8. SumOf(g, 1..(k + 1)) + Cardinality(Working(p)') <= soldFor'[p]
  BY <1>2, <1>3, <1>5
<1>9. BackedBy(p, g)'
  BY <1>4, <1>5, <1>6, <1>7, <1>8 DEF BackedBy
<1> QED
  BY <1>9

\* What the lifecycle does to the events of p: it leaves them, or begins one.
LEMMA LifecycleBacks ==
  ASSUME TypeOK, ManagerTypeOK, ManagerTypeOK', NEW p \in Positions, NEW h, BackedBy(p, h),
         UNCHANGED managerVars,
         UNCHANGED salvage \/ \E q \in Positions : InsertSalvageEvent(q)
  PROVE  \E g : BackedBy(p, g)'
<1>1. CASE salvage'[p] = salvage[p]
  <2>1. tick' = tick /\ soldFor' = soldFor /\ Working(p)' = Working(p)
    BY DEF managerVars, Working
  <2>2. BackedBy(p, h)'
    BY <1>1, <2>1 DEF BackedBy
  <2> QED
    BY <2>2
<1>2. CASE InsertSalvageEvent(p)
  BY <1>2, BackBegun
<1>3. ASSUME NEW q \in Positions, q # p, InsertSalvageEvent(q) PROVE salvage'[p] = salvage[p]
  BY <1>3 DEF InsertSalvageEvent, TypeOK, TablesTypeOK
<1> QED
  BY <1>1, <1>2, <1>3

\* A restart forgets the ticks, and with them the sales they had still to enter.
LEMMA RestartBacks ==
  ASSUME TypeOK, ManagerTypeOK, NEW p \in Positions, NEW h, BackedBy(p, h),
         Restart, ManagerRestart
  PROVE  BackedBy(p, h)'
<1>1. UNCHANGED <<salvage, soldFor>> /\ tick' = [m \in Managers |-> IdleTick]
  BY DEF Restart, ManagerRestart, tables
<1>2. \A m \in Managers : tick'[m].pc = "idle"
  BY <1>1 DEF IdleTick
<1>3. Working(p)' = {}
  BY <1>2 DEF Working
<1>4. SumOf(h, 1..Len(salvage[p])) \in Nat /\ soldFor[p] \in Nat /\ Cardinality(Working(p)) \in Nat
  BY BoundSum, WorkingFinite DEF BackedBy, ManagerTypeOK
<1>5. SumOf(h, 1..Len(salvage[p])) + Cardinality(Working(p)') <= soldFor'[p]
  <2>1. SumOf(h, 1..Len(salvage[p])) + Cardinality(Working(p)) <= soldFor[p]
    BY DEF BackedBy
  <2> QED
    BY <1>1, <1>3, <1>4, <2>1, FS_EmptySet
<1> QED
  BY <1>1, <1>2, <1>5 DEF BackedBy

\* A bound with one more at a place.
LEMMA BoundRaised ==
  ASSUME NEW h \in [Nat -> Nat], NEW k \in Nat, NEW r \in 1..k
  PROVE  \E g \in [Nat -> Nat] :
           /\ g[r] = h[r] + 1
           /\ \A i \in (1..k) \ {r} : g[i] = h[i]
           /\ SumOf(g, 1..k) = SumOf(h, 1..k) + 1
<1> DEFINE g == [h EXCEPT ![r] = h[r] + 1]
           A == 1..k
<1>0. \A i \in A : i \in Nat
  OBVIOUS
<1>1. r \in Nat /\ h[r] \in Nat
  BY <1>0
<1>2. g \in [Nat -> Nat] /\ g[r] = h[r] + 1 /\ \A i \in A \ {r} : g[i] = h[i]
  BY <1>0, <1>1
<1>3. IsFiniteSet(A) /\ r \in A
  BY FS_Interval
<1>4. \A i \in A : h[i] \in Int /\ g[i] \in Int
  <2> HIDE DEF g
  <2> QED
    BY <1>0, <1>2
<1>5. \A i \in A : h[i] \in Nat
  BY <1>0
<1> HIDE DEF A, g
<1>6. SumOf(g, A) = SumOf(h, A) + (g[r] - h[r])
  BY <1>2, <1>3, <1>4, SumUpdate
<1>7. SumOf(h, A) \in Nat
  BY <1>3, <1>5, SumType
<1>8. SumOf(g, A) = SumOf(h, A) + 1
  BY <1>1, <1>2, <1>6, <1>7
<1> QED
  BY <1>2, <1>8 DEF A

\* Entering one sale more in an event of p.
LEMMA BackRaised ==
  ASSUME TypeOK, ManagerTypeOK, NEW m \in Managers, NEW p \in Positions, NEW h, BackedBy(p, h),
         tick[m].pc = "final", tick[m].cur.pos = p,
         salvage' = [salvage EXCEPT ![p][tick[m].row] = tick[m].seen + 1],
         soldFor'[p] = soldFor[p], tick'[m].pc \in {"idle", "loop"},
         \A n \in Managers \ {m} : tick'[n] = tick[n]
  PROVE  \E g : BackedBy(p, g)'
<1> DEFINE e == salvage[p]
           k == Len(e)
           r == tick[m].row
           v == tick[m].seen + 1
<1>1. e \in Seq(Nat) /\ salvage'[p] = [e EXCEPT ![r] = v] /\ v \in Nat
  BY DEF TypeOK, TablesTypeOK, ManagerTypeOK
<1>2. /\ h \in [Nat -> Nat]
      /\ \A i \in 1..k : e[i] <= h[i]
      /\ \A n \in Managers :
           tick[n].pc = "final" /\ tick[n].cur.pos = p =>
             tick[n].row \in 1..k /\ tick[n].seen <= h[tick[n].row]
      /\ SumOf(h, 1..k) + Cardinality(Working(p)) <= soldFor[p]
      /\ soldFor[p] \in Nat
      /\ \A n \in Managers : tick[n].seen \in Nat
  BY DEF BackedBy, ManagerTypeOK
<1>3. r \in 1..k /\ v <= h[r] + 1
  <2>1. r \in 1..k /\ tick[m].seen <= h[r]
    BY <1>2
  <2>2. k \in Nat
    BY <1>1
  <2>3. tick[m].seen \in Nat /\ h \in [Nat -> Nat]
    BY <1>2
  <2> HIDE DEF k, r
  <2>4. r \in Nat
    BY <2>1, <2>2
  <2>5. h[r] \in Nat
    BY <2>3, <2>4
  <2> QED
    BY <2>1, <2>3, <2>5
<1>4. Cardinality(Working(p)') + 1 = Cardinality(Working(p))
  <2>1. Working(p) \in SUBSET Managers /\ Working(p)' \in SUBSET Managers
    BY DEF Working
  <2>2. Working(p) \ {m} = Working(p)' \ {m} /\ m \in Working(p) /\ m \notin Working(p)'
    BY DEF Working
  <2>3. /\ Cardinality(Working(p)) \in Nat /\ Cardinality(Working(p)') \in Nat
        /\ Cardinality(Working(p)') + (IF m \in Working(p) THEN 1 ELSE 0)
             = Cardinality(Working(p)) + (IF m \in Working(p)' THEN 1 ELSE 0)
    BY <2>1, <2>2, ManagersAssumption, OneMoved
  <2> QED
    BY <2>2, <2>3
<1>5. SumOf(h, 1..k) \in Nat /\ Cardinality(Working(p)) \in Nat /\ Cardinality(Working(p)') \in Nat
  <2>1. Working(p)' \in SUBSET Managers
    BY DEF Working
  <2> QED
    BY <1>2, <2>1, BoundSum, WorkingFinite, ManagersAssumption, FS_Subset, FS_CardinalityType
<1> HIDE DEF e, v
<1>6. k \in Nat
  BY <1>1
<1>7. /\ Len(salvage'[p]) = k
      /\ salvage'[p][r] = v
      /\ \A i \in (1..k) \ {r} : salvage'[p][i] = e[i]
  <2> HIDE DEF r
  <2> QED
    BY <1>1, <1>3
<1> HIDE DEF k
<1>8. PICK g \in [Nat -> Nat] :
        /\ g[r] = h[r] + 1
        /\ \A i \in (1..k) \ {r} : g[i] = h[i]
        /\ SumOf(g, 1..k) = SumOf(h, 1..k) + 1
  <2> HIDE DEF r
  <2> QED
    BY <1>2, <1>3, <1>6, BoundRaised
<1>9. \A i \in 1..k : salvage'[p][i] <= g[i]
  <2> TAKE i \in 1..k
  <2>1. CASE i = r
    BY <1>3, <1>7, <1>8, <2>1
  <2>2. CASE i # r
    <3>1. salvage'[p][i] = e[i] /\ g[i] = h[i] /\ e[i] <= h[i]
      BY <1>2, <1>7, <1>8, <2>2
    <3> QED
      BY <3>1
  <2> QED
    BY <2>1, <2>2
<1>10. \A n \in Managers :
        tick'[n].pc = "final" /\ tick'[n].cur.pos = p =>
          tick'[n].row \in 1..k /\ tick'[n].seen <= g[tick'[n].row]
  <2> SUFFICES ASSUME NEW n \in Managers, tick'[n].pc = "final", tick'[n].cur.pos = p
               PROVE  tick'[n].row \in 1..k /\ tick'[n].seen <= g[tick'[n].row]
    OBVIOUS
  <2>1. n # m
    OBVIOUS
  <2>2. tick'[n] = tick[n]
    BY <2>1
  <2> DEFINE i == tick[n].row
             u == tick[n].seen
  <2>3. i \in 1..k /\ u <= h[i] /\ u \in Nat
    BY <1>2, <2>2
  <2> HIDE DEF i, u
  <2>4. h[i] \in Nat
    BY <1>2, <1>6, <2>3
  <2>5. g[i] = h[i] \/ g[i] = h[i] + 1
    BY <1>8, <2>3
  <2>6. u <= g[i]
    BY <2>3, <2>4, <2>5
  <2> QED
    BY <2>2, <2>3, <2>6 DEF i, u
<1>11. SumOf(g, 1..k) + Cardinality(Working(p)') <= soldFor'[p]
  BY <1>2, <1>4, <1>5, <1>8
<1>12. BackedBy(p, g)'
  BY <1>7, <1>8, <1>9, <1>10, <1>11 DEF BackedBy
<1> QED
  BY <1>12

\* Each step of a tick keeps the proceeds of every position backed.
LEMMA ManagerBacks ==
  ASSUME RuntimeShape, RuntimeTyped', NEW m \in Managers, ManagerStep(m),
         NEW p \in Positions, NEW h, BackedBy(p, h)
  PROVE  \E g : BackedBy(p, g)'
<1> DEFINE t == tick[m]
<1>0. /\ TypeOK /\ ManagerTypeOK /\ ManagerTypeOK' /\ TickOK(m)
      /\ soldFor \in [Positions -> Nat] /\ salvage \in [Positions -> Seq(Nat)]
      /\ \A s \in t.todo : s \in Snapshot /\ s.pos \in Positions
      /\ t.cur \in Snapshot => t.cur.pos \in Positions
  BY DEF RuntimeShape, RuntimeTyped, TypeOK, TablesTypeOK, ManagerTypeOK, Snapshot
<1>1. \A n \in Managers \ {m} : tick'[n] = tick[n]
  BY ManagerGoes
<1>2. ASSUME NEW td, LeavesLeg(m, td), salvage'[p] = salvage[p], soldFor'[p] = soldFor[p]
      PROVE  BackedBy(p, h)'
  <2>1. tick'[m].pc \in {"idle", "loop"}
    BY <1>2 DEF LeavesLeg, TickGoes
  <2>2. m \notin Working(p)'
    BY <2>1 DEF Working
  <2> QED
    BY <1>0, <1>1, <1>2, <2>1, <2>2, BackKept
<1>3. CASE StartTick(m)
  <2>1. UNCHANGED <<salvage, soldFor>>
    BY <1>3 DEF StartTick, tables
  <2>2. tick'[m].pc = "loop"
    BY <1>0, <1>3, ManagerFields DEF TickGoes
  <2>3. m \notin Working(p)'
    BY <2>2 DEF Working
  <2>4. BackedBy(p, h)'
    BY <1>0, <1>1, <2>1, <2>2, <2>3, BackKept
  <2> QED
    BY <2>4
<1>4. CASE KeepLeg(m)
  <2>1. UNCHANGED <<salvage, soldFor>>
    BY <1>4 DEF KeepLeg, tables
  <2>2. \E td : LeavesLeg(m, td)
    BY <1>0, <1>4, ManagerFields
  <2> QED
    BY <1>2, <2>1, <2>2
<1>5. CASE SellLeg(m)
  <2>1. UNCHANGED salvage /\ t.pc = "loop"
    BY <1>5 DEF SellLeg
  <2>2. PICK s \in t.todo :
          /\ soldFor' = [soldFor EXCEPT ![s.pos] = @ + 1]
          /\ TickGoes(m, "sold", t.todo \ {s}, s, t.row, t.seen)
    BY <1>0, <1>5, ManagerFields
  <2>3. tick'[m].pc = "sold" /\ tick'[m].cur = s
    BY <2>2 DEF TickGoes
  <2>4. CASE s.pos = p
    <3>1. soldFor'[p] = soldFor[p] + 1
      BY <1>0, <2>2, <2>4
    <3>2. BackedBy(p, h)'
      BY <1>0, <1>1, <2>1, <2>3, <3>1, BackKept
    <3> QED
      BY <3>2
  <2>5. CASE s.pos # p
    <3>1. soldFor'[p] = soldFor[p]
      BY <1>0, <2>2, <2>5
    <3>2. m \notin Working(p)'
      BY <2>3, <2>5 DEF Working
    <3>3. BackedBy(p, h)'
      BY <1>0, <1>1, <2>1, <2>3, <3>1, <3>2, BackKept
    <3> QED
      BY <3>3
  <2> QED
    BY <2>4, <2>5
<1>6. CASE MarkSold(m)
  <2>1. UNCHANGED <<salvage, soldFor>> /\ t.pc = "sold"
    BY <1>6 DEF MarkSold
  <2>2. CASE LeavesLeg(m, t.todo)
    BY <1>2, <2>1, <2>2
  <2>3. CASE TickGoes(m, "book", t.todo, t.cur, t.row, t.seen)
    <3>1. tick'[m].pc = "book" /\ tick'[m].cur = t.cur
      BY <2>3 DEF TickGoes
    <3>2. m \in Working(p)' => m \in Working(p)
      BY <2>1, <3>1 DEF Working
    <3>3. BackedBy(p, h)'
      BY <1>0, <1>1, <2>1, <3>1, <3>2, BackKept
    <3> QED
      BY <3>3
  <2> QED
    BY <1>0, <1>6, <2>2, <2>3, ManagerFields
<1>7. CASE BookSale(m)
  <2>1. UNCHANGED <<salvage, soldFor>> /\ t.pc = "book"
    BY <1>7 DEF BookSale, tables
  <2>2. tick'[m].pc = "find" /\ tick'[m].cur = t.cur
    BY <1>0, <1>7, ManagerFields DEF TickGoes
  <2>3. m \in Working(p)' => m \in Working(p)
    BY <2>1, <2>2 DEF Working
  <2>4. BackedBy(p, h)'
    BY <1>0, <1>1, <2>1, <2>2, <2>3, BackKept
  <2> QED
    BY <2>4
<1>8. CASE FindSalvage(m)
  <2>1. UNCHANGED <<salvage, soldFor>> /\ t.pc = "find" /\ t.cur \in Snapshot
    BY <1>0, <1>8 DEF FindSalvage, tables, TickOK
  <2>2. CASE LeavesLeg(m, t.todo)
    BY <1>2, <2>1, <2>2
  <2>3. ASSUME salvage[t.cur.pos] # <<>>,
               TickGoes(m, "final", t.todo, t.cur, Len(salvage[t.cur.pos]),
                        salvage[t.cur.pos][Len(salvage[t.cur.pos])])
        PROVE  \E g : BackedBy(p, g)'
    <3>1. /\ tick'[m].pc = "final" /\ tick'[m].cur = t.cur
          /\ tick'[m].row = Len(salvage[t.cur.pos])
          /\ tick'[m].seen = salvage[t.cur.pos][Len(salvage[t.cur.pos])]
      BY <2>3 DEF TickGoes
    <3>2. m \in Working(p)' => m \in Working(p)
      BY <2>1, <3>1 DEF Working
    <3>3. t.cur.pos = p =>
            tick'[m].row \in 1..Len(salvage[p]) /\ tick'[m].seen <= h[tick'[m].row]
      <4> SUFFICES ASSUME t.cur.pos = p
                   PROVE  tick'[m].row \in 1..Len(salvage[p]) /\ tick'[m].seen <= h[tick'[m].row]
        OBVIOUS
      <4> DEFINE e == salvage[p]
      <4>1. e \in Seq(Nat) /\ e # <<>> /\ \A r \in 1..Len(e) : e[r] <= h[r]
        BY <1>0, <2>3 DEF BackedBy
      <4>2. tick'[m].row = Len(e) /\ tick'[m].seen = e[Len(e)]
        BY <3>1
      <4> HIDE DEF e
      <4>3. Len(e) \in 1..Len(e)
        BY <4>1
      <4>4. tick'[m].row \in 1..Len(e) /\ tick'[m].seen <= h[tick'[m].row]
        BY <4>1, <4>2, <4>3
      <4> QED
        BY <4>4 DEF e
    <3>4. BackedBy(p, h)'
      BY <1>0, <1>1, <2>1, <3>1, <3>2, <3>3, BackKept
    <3> QED
      BY <3>4
  <2> QED
    BY <1>0, <1>8, <2>1, <2>2, <2>3, ManagerFields
<1>9. CASE FinalizeSalvage(m)
  <2>1. LeavesLeg(m, t.todo) /\ UNCHANGED soldFor /\ t.pc = "final" /\ t.cur.pos \in Positions
    BY <1>0, <1>9, ManagerFields DEF FinalizeSalvage, TickOK
  <2>2. CASE UNCHANGED salvage
    BY <1>2, <2>1, <2>2
  <2>3. CASE salvage' = [salvage EXCEPT ![t.cur.pos][t.row] = t.seen + 1]
    <3>1. CASE t.cur.pos = p
      <4>1. tick'[m].pc \in {"idle", "loop"}
        BY <2>1 DEF LeavesLeg, TickGoes
      <4>2. salvage' = [salvage EXCEPT ![p][tick[m].row] = tick[m].seen + 1]
        BY <2>3, <3>1
      <4> QED
        BY <1>0, <1>1, <2>1, <3>1, <4>1, <4>2, BackRaised
    <3>2. CASE t.cur.pos # p
      <4>1. salvage'[p] = salvage[p]
        BY <1>0, <2>3, <3>2
      <4> QED
        BY <1>2, <2>1, <4>1
    <3> QED
      BY <3>1, <3>2
  <2> QED
    BY <1>9, <2>2, <2>3 DEF FinalizeSalvage
<1> QED
  BY <1>3, <1>4, <1>5, <1>6, <1>7, <1>8, <1>9 DEF ManagerStep

-----------------------------------------------------------------------------
(* The invariant of the runtime.                                           *)

\* The empty tables, no handler and no tick.
LEMMA RuntimeStart == RuntimeInit => RuntimeInv
<1> SUFFICES ASSUME RuntimeInit PROVE RuntimeInv
  OBVIOUS
<1>0. Init /\ ManagerInit
  BY DEF RuntimeInit
<1>1. TypeOK /\ TaskShape
  BY <1>0, InitTypeOK, InitInv DEF LifecycleInv
<1>2. ManagerTypeOK
  BY <1>0 DEF ManagerInit, ManagerTypeOK, IdleTick, TickPc
<1>3. \A p \in Positions : OpeningOK(p)
  BY <1>0, InitLegs DEF LegsInv
<1>4. ASSUME NEW l \in Legs PROVE LegState(l) /\ LegHeld(l)
  <2>1. l[1] \in Positions
    BY DEF Legs
  <2>2. /\ opening[l[1]].pc = "none" /\ opening[l[1]].filled = {}
        /\ leg[l].status = "absent" /\ held[l] = 0
    BY <1>0, <2>1 DEF Init, TablesInit
  <2> QED
    BY <2>2 DEF LegState, LegHeld
<1>5. \A m \in Managers : tick[m].pc = "idle" /\ tick[m].todo = {}
  BY <1>0 DEF ManagerInit, IdleTick
<1>6. \A m \in Managers : TickOK(m)
  BY <1>0, <1>5 DEF TickOK, ManagerInit
<1>7. ASSUME NEW p \in Positions PROVE \E h : BackedBy(p, h)
  <2> DEFINE h == [i \in Nat |-> 0]
  <2>1. Working(p) = {}
    BY <1>5 DEF Working
  <2>2. salvage[p] = <<>> /\ soldFor[p] = 0
    BY <1>0 DEF Init, TablesInit, ManagerInit
  <2>3. Len(salvage[p]) = 0 /\ 1..Len(salvage[p]) = {}
    BY <2>2
  <2>4. SumOf(h, {}) = 0
    BY SumEmpty
  <2>5. Cardinality(Working(p)) = 0
    BY <2>1, FS_EmptySet
  <2>6. SumOf(h, 1..Len(salvage[p])) + Cardinality(Working(p)) <= soldFor[p]
    BY <2>2, <2>3, <2>4, <2>5
  <2>7. h \in [Nat -> Nat]
    OBVIOUS
  <2> HIDE DEF h
  <2>8. BackedBy(p, h)
    BY <1>5, <2>3, <2>6, <2>7 DEF BackedBy
  <2> QED
    BY <2>8
<1> QED
  BY <1>1, <1>2, <1>3, <1>4, <1>6, <1>7 DEF RuntimeInv, RuntimeShape, RuntimeTyped

\* A step of the lifecycle.
LEMMA RuntimeLifecycle ==
  ASSUME RuntimeInv, LifecycleStep, UNCHANGED managerVars
  PROVE  RuntimeInv'
<1>0. TypeOK /\ TaskShape /\ ManagerTypeOK /\ faults \in Nat
  BY DEF RuntimeInv, RuntimeShape, RuntimeTyped, TypeOK, TablesTypeOK
<1>1. TypeOK' /\ TaskShape' /\ ManagerTypeOK'
  BY <1>0, NextTypeOK DEF Next, ManagerTypeOK, managerVars
<1>2. /\ \A p \in Positions : OpeningOK(p)'
      /\ \A l \in Legs : LegState(l)' /\ StatusKept(l) /\ (faults' = 0 /\ LegHeld(l) => LegHeld(l)')
      /\ faults' = 0 => faults = 0
      /\ UNCHANGED salvage \/ \E q \in Positions : InsertSalvageEvent(q)
  <2>1. ASSUME NEW p \in Positions, OpenStep(p)
        PROVE  /\ \A q \in Positions : OpeningOK(q)'
               /\ \A l \in Legs : LegState(l)' /\ StatusKept(l)
                                    /\ (faults' = 0 /\ LegHeld(l) => LegHeld(l)')
               /\ faults' = 0 => faults = 0
               /\ UNCHANGED salvage
    <3>1. \A q \in Positions : OpeningOK(q)'
      BY <1>0, <2>1, OpenStepOpening DEF RuntimeInv, RuntimeShape
    <3>2. \A l \in Legs : LegState(l)' /\ StatusKept(l)
                            /\ (faults' = 0 /\ LegHeld(l) => LegHeld(l)')
      BY <1>0, <2>1, OpenStepKeepsRows DEF RuntimeInv, RuntimeShape
    <3>3. faults' = 0 => faults = 0
      BY <1>0, <2>1, FaultCounted
      DEF OpenStep, OpenPosition, ListCandidates, ClaimLeg, NoCandidate, EndNetting,
         NettingThrows, BuyLeg, LegRejected, InsertLegRow, InsertLegFails, UnwindLeg,
         CloseFailedOpening, BookHedgeBuy
    <3>4. UNCHANGED salvage
      BY <2>1
      DEF OpenStep, OpenPosition, ListCandidates, ClaimLeg, NoCandidate, EndNetting,
         NettingThrows, BuyLeg, LegRejected, InsertLegRow, InsertLegFails, UnwindLeg,
         CloseFailedOpening, BookHedgeBuy, tables
    <3> QED
      BY <3>1, <3>2, <3>3, <3>4
  <2>2. ASSUME NEW h \in Handlers,
               \/ RetainLeg(h) \/ AccruePremium(h)
               \/ h \in Cycles /\ CycleStep(h)
               \/ h \in Closers /\ CloseStep(h)
        PROVE  /\ \A q \in Positions : OpeningOK(q)'
               /\ \A l \in Legs : LegState(l)' /\ StatusKept(l)
                                    /\ (faults' = 0 /\ LegHeld(l) => LegHeld(l)')
               /\ faults' = 0 => faults = 0
               /\ UNCHANGED salvage \/ \E q \in Positions : InsertSalvageEvent(q)
    <3>1. UNCHANGED opening /\ (faults' = 0 => faults = 0)
      BY <1>0, <2>2, HandlerLegs
    <3>2. \A q \in Positions : OpeningOK(q)'
      BY <3>1, OpeningKept DEF RuntimeInv, RuntimeShape
    <3>3. \A l \in Legs : LegState(l)' /\ StatusKept(l)
                            /\ (faults' = 0 /\ LegHeld(l) => LegHeld(l)')
      BY <1>0, <2>2, HandlerRows DEF RuntimeInv, RuntimeShape
    <3>4. UNCHANGED salvage \/ (h \in Cycles /\ RecordTriggerEvent(h))
      BY <2>2 DEF RetainLeg, AccruePremium, CycleStep, StartCycle, FireTrigger,
         MarkTriggered, FireThrows, PayOut, CloseStep, RequestClose, ListLegsToClose,
         CloseThrows, MarkClosed, tables
    <3>5. h \in Cycles /\ RecordTriggerEvent(h) => \E q \in Positions : InsertSalvageEvent(q)
      <4> SUFFICES ASSUME RecordTriggerEvent(h) PROVE \E q \in Positions : InsertSalvageEvent(q)
        OBVIOUS
      <4>1. task[h].pc = "retain" /\ InsertSalvageEvent(task[h].pos)
        BY DEF RecordTriggerEvent
      <4>2. task[h].pos \in Positions
        BY <1>0, <4>1, TaskPosition
      <4> QED
        BY <4>1, <4>2
    <3> QED
      BY <3>1, <3>2, <3>3, <3>4, <3>5
  <2> QED
    BY <2>1, <2>2 DEF LifecycleStep, Handlers
<1>3. ASSUME NEW m \in Managers PROVE TickOK(m)'
  <2>1. TickOK(m) /\ tick'[m] = tick[m] /\ \A l \in Legs : sellRows'[l][m] = sellRows[l][m]
    BY DEF RuntimeInv, RuntimeShape, managerVars
  <2> QED
    BY <1>0, <1>2, <2>1, TickKept
<1>4. ASSUME NEW p \in Positions PROVE \E g : BackedBy(p, g)'
  <2>1. PICK h : BackedBy(p, h)
    BY DEF RuntimeInv
  <2> QED
    BY <1>0, <1>1, <1>2, <2>1, LifecycleBacks
<1>5. ASSUME faults' = 0 PROVE \A l \in Legs : LegHeld(l)'
  BY <1>2, <1>5 DEF RuntimeInv
<1>6. RuntimeShape'
  BY <1>1, <1>2, <1>3 DEF RuntimeShape, RuntimeTyped
<1> QED
  BY <1>4, <1>5, <1>6 DEF RuntimeInv

\* A step of a tick.
LEMMA RuntimeManager ==
  ASSUME RuntimeInv, NEW m \in Managers, ManagerStep(m), UNCHANGED lifecycleVars
  PROVE  RuntimeInv'
<1>0. RuntimeShape /\ faults \in Nat
  BY DEF RuntimeInv, RuntimeShape, RuntimeTyped, TypeOK, TablesTypeOK
<1>1. RuntimeTyped' /\ UNCHANGED opening
  BY <1>0, ManagerTyped
<1>2. \A p \in Positions : OpeningOK(p)'
  BY <1>0, <1>1, OpeningKept DEF RuntimeShape
<1>3. \A l \in Legs : LegState(l)'
  BY <1>0, <1>1, ManagerLegState
<1>4. \A n \in Managers : TickOK(n)'
  BY <1>0, ManagerTick, OtherTicks
<1>5. ASSUME faults' = 0 PROVE \A l \in Legs : LegHeld(l)'
  <2>1. NoFault \/ Fault
    BY DEF ManagerStep, StartTick, KeepLeg, SellLeg, MarkSold, BookSale, FindSalvage,
       FinalizeSalvage
  <2>2. faults = 0
    BY <1>0, <1>5, <2>1, FaultCounted
  <2> QED
    BY <1>0, <1>1, <1>5, <2>2, ManagerHeld DEF RuntimeInv
<1>6. ASSUME NEW p \in Positions PROVE \E g : BackedBy(p, g)'
  <2>1. PICK h : BackedBy(p, h)
    BY DEF RuntimeInv
  <2> QED
    BY <1>0, <1>1, <2>1, ManagerBacks
<1>7. RuntimeShape'
  BY <1>1, <1>2, <1>3, <1>4 DEF RuntimeShape
<1> QED
  BY <1>5, <1>6, <1>7 DEF RuntimeInv

\* A restart.
LEMMA RuntimeRestart ==
  ASSUME RuntimeInv, Restart, ManagerRestart
  PROVE  RuntimeInv'
<1>0. /\ TypeOK /\ TaskShape /\ ManagerTypeOK
      /\ \A p \in Positions : OpeningOK(p)
      /\ \A l \in Legs : LegState(l)
      /\ \A m \in Managers : TickOK(m)
  BY DEF RuntimeInv, RuntimeShape, RuntimeTyped
<1>1. TypeOK' /\ TaskShape'
  BY <1>0, RestartTypeOK
<1>2. tick' = [m \in Managers |-> IdleTick] /\ UNCHANGED <<sellRows, soldFor>>
  BY DEF ManagerRestart
<1>3. ManagerTypeOK'
  BY <1>0, <1>2 DEF ManagerTypeOK, IdleTick, TickPc
<1>4. \A l \in Legs : LegState(l)' /\ StatusKept(l) /\ faults' # 0
  BY <1>0, RestartRows
<1>5. ASSUME NEW m \in Managers PROVE TickOK(m)'
  <2>1. tick'[m].pc = "idle" /\ tick'[m].todo = {}
    BY <1>2 DEF IdleTick
  <2> QED
    BY <1>0, <1>2, <1>4, <2>1 DEF TickOK, StatusKept
<1>6. ASSUME NEW q \in Positions PROVE OpeningOK(q)'
  <2>1. /\ opening'[q].netted = opening[q].netted
        /\ opening'[q].filled = opening[q].filled
        /\ \/ opening'[q] = opening[q]
           \/ opening'[q].pc = "failed" /\ opening'[q].work = {}
    BY <1>0, RestartFields
  <2>2. OpeningOK(q)
    BY <1>0
  <2>3. CASE opening'[q] = opening[q]
    BY <2>2, <2>3, OpeningKept
  <2>4. CASE opening'[q].pc = "failed" /\ opening'[q].work = {}
    BY <2>1, <2>2, <2>4 DEF OpeningOK, OpeningShape, KindsCovered
  <2> QED
    BY <2>1, <2>3, <2>4
<1>7. ASSUME NEW p \in Positions PROVE \E g : BackedBy(p, g)'
  <2>1. PICK h : BackedBy(p, h)
    BY DEF RuntimeInv
  <2>2. BackedBy(p, h)'
    BY <1>0, <2>1, RestartBacks
  <2> QED
    BY <2>2
<1>8. faults' # 0
  BY <1>0, RestartFields
<1>9. RuntimeShape'
  BY <1>1, <1>3, <1>4, <1>5, <1>6 DEF RuntimeShape, RuntimeTyped
<1> QED
  BY <1>7, <1>8, <1>9 DEF RuntimeInv

\* Every step.
LEMMA RuntimeNextInv == RuntimeInv /\ [RuntimeNext]_allVars => RuntimeInv'
<1> SUFFICES ASSUME RuntimeInv, [RuntimeNext]_allVars PROVE RuntimeInv'
  OBVIOUS
<1>1. CASE LifecycleStep /\ UNCHANGED managerVars
  BY <1>1, RuntimeLifecycle
<1>2. CASE (\E m \in Managers : ManagerStep(m)) /\ UNCHANGED lifecycleVars
  BY <1>2, RuntimeManager
<1>3. CASE Restart /\ ManagerRestart
  BY <1>3, RuntimeRestart
<1>4. CASE UNCHANGED allVars
  <2>1. UNCHANGED <<position, leg, salvage, held, faults, opening, task, raced, misflagged,
                    payouts, premiums, bought, orphans, tick, sellRows, soldFor>>
    BY <1>4 DEF allVars, vars, tables, lifecycleVars, handlerVars, ledgerVars, managerVars
  <2>2. RuntimeShape'
    BY <2>1 DEF RuntimeInv, RuntimeShape, RuntimeTyped, TypeOK, TablesTypeOK, ManagerTypeOK,
       TaskShape, OpeningOK, OpeningShape, KindsCovered, LegState, TickOK
  <2>3. faults' = 0 => \A l \in Legs : LegHeld(l)'
    BY <2>1 DEF RuntimeInv, LegHeld, Sellers, Unmarked
  <2>4. \A p \in Positions : \E h : BackedBy(p, h)'
    BY <2>1 DEF RuntimeInv, BackedBy, Working
  <2> QED
    BY <2>2, <2>3, <2>4 DEF RuntimeInv
<1> QED
  BY <1>1, <1>2, <1>3, <1>4 DEF RuntimeNext

\* The invariant of the runtime, whatever interleaves.
THEOREM RuntimeInvariant == RuntimeSpec => []RuntimeInv
<1>1. RuntimeInit => RuntimeInv
  BY RuntimeStart
<1>2. RuntimeInv /\ [RuntimeNext]_allVars => RuntimeInv'
  BY RuntimeNextInv
<1> QED
  BY <1>1, <1>2, PTL DEF RuntimeSpec

\* One loop of the manager books at most one hedge_sell_in row for a leg,
\* whatever overlaps, fails or restarts: it books behind the UPDATE that takes
\* the leg off every later list.
THEOREM SaleBookedOnce == RuntimeSpec => []BookedOncePerTick
<1>1. RuntimeInv => BookedOncePerTick
  BY DEF RuntimeInv, RuntimeShape, TickOK, BookedOncePerTick
<1> QED
  BY <1>1, RuntimeInvariant, PTL

\* Short of a failed statement, an open row stands for a contract that is held,
\* or that a tick has just sold and is about to mark.
THEOREM OpenIsHeld == RuntimeSpec => []OpenRowIsHeld
<1>1. RuntimeInv => OpenRowIsHeld
  <2> SUFFICES ASSUME RuntimeInv, faults = 0, NEW l \in Legs, leg[l].status = "open",
                      held[l] <= 0
               PROVE  \E m \in Managers : tick[m].pc = "sold" /\ tick[m].cur.leg = l
    BY DEF OpenRowIsHeld
  <2>1. LegHeld(l) /\ held[l] \in Int
    BY DEF RuntimeInv, RuntimeShape, RuntimeTyped, TypeOK, TablesTypeOK
  <2> QED
    BY <2>1 DEF LegHeld, Unmarked
<1> QED
  BY <1>1, RuntimeInvariant, PTL

\* Short of a failed statement, a leg is sold short only by two loops of the
\* manager that overlapped on it: each sale of a leg has a seller of its own.
THEOREM ShortByOverlap == RuntimeSpec => []ShortOnlyByOverlap
<1>1. RuntimeInv => ShortOnlyByOverlap
  <2> SUFFICES ASSUME RuntimeInv, faults = 0, NEW l \in Legs, held[l] < 0
               PROVE  Cardinality(Sellers(l)) > 1
    BY DEF ShortOnlyByOverlap
  <2>1. LegHeld(l) /\ held[l] \in Int
    BY DEF RuntimeInv, RuntimeShape, RuntimeTyped, TypeOK, TablesTypeOK
  <2>2. Cardinality(Sellers(l)) \in Nat
    BY SellersFinite
  <2> QED
    BY <2>1, <2>2 DEF LegHeld
<1> QED
  BY <1>1, RuntimeInvariant, PTL

\* The manager's variables are typed, and the salvage proceeds entered for a
\* position never exceed the sales made for it, lost updates and restarts
\* included.
THEOREM ProceedsBacked == RuntimeSpec => []ManagerInv
<1>1. RuntimeInv => ManagerInv
  <2> SUFFICES ASSUME RuntimeInv PROVE ManagerInv
    OBVIOUS
  <2>1. TypeOK /\ ManagerTypeOK
    BY DEF RuntimeInv, RuntimeShape, RuntimeTyped
  <2>2. ASSUME NEW p \in Positions PROVE FoldFunction(+, 0, salvage[p]) <= soldFor[p]
    <3> DEFINE e == salvage[p]
               S == 1..Len(e)
    <3>1. PICK h : BackedBy(p, h)
      BY DEF RuntimeInv
    <3>2. /\ h \in [Nat -> Nat]
          /\ \A r \in S : e[r] <= h[r]
          /\ SumOf(h, S) + Cardinality(Working(p)) <= soldFor[p]
      BY <3>1 DEF BackedBy
    <3>3. /\ IsFiniteSet(S) /\ DOMAIN e = S
          /\ \A r \in S : r \in Nat /\ e[r] \in Nat
      BY <2>1, EventPlaces
    <3>4. FoldFunction(+, 0, e) = SumOf(e, DOMAIN e)
      BY FoldIsSum
    <3>5. soldFor[p] \in Nat /\ Cardinality(Working(p)) \in Nat
      BY <2>1, WorkingFinite DEF ManagerTypeOK
    <3> HIDE DEF e, S
    <3>6. SumOf(e, S) <= SumOf(h, S)
      <4>1. \A r \in S : e[r] \in Int /\ h[r] \in Int /\ e[r] <= h[r]
        BY <3>2, <3>3
      <4> QED
        BY <3>3, <4>1, SumGrows
    <3>7. SumOf(e, S) \in Nat /\ SumOf(h, S) \in Nat
      <4>1. \A r \in S : e[r] \in Nat /\ h[r] \in Nat
        BY <3>2, <3>3
      <4> QED
        BY <3>3, <4>1, SumType
    <3>8. SumOf(e, S) <= soldFor[p]
      BY <3>2, <3>5, <3>6, <3>7
    <3>9. FoldFunction(+, 0, e) <= soldFor[p]
      BY <3>3, <3>4, <3>8, Zenon
    <3> QED
      BY <3>9, Zenon DEF e
  <2> QED
    BY <2>1, <2>2 DEF ManagerInv, SalvageBacked
<1> QED
  BY <1>1, RuntimeInvariant, PTL
=============================================================================
