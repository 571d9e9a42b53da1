---------------------------- MODULE PilotProofs ----------------------------
(***************************************************************************)
(* The pilot's activation, its capital pool and its treasury.               *)
(*                                                                          *)
(* What PilotActivation promises, for any number of requests, quotes,       *)
(* clients of the pool and incidents, and for any caps.  The inductive      *)
(* invariant has five parts.  LocalInv says of each request alone what its  *)
(* place in the handler implies for its order, its row and its books,       *)
(* CapsInv what it knew when a cap was tested, LockInv which locks it holds *)
(* and which quote it consumed; Balanced relates the usage of the day to    *)
(* the rows that hold it, and BuyInv two requests that buy on one quote.    *)
(*                                                                          *)
(* A settlement run is distributed once, for any number of runs, requests   *)
(* and failures, whatever the amounts; and the ledger keeps its type.       *)
(* DistributedOnce says nothing of a request between its read of a draft    *)
(* and its entry, so it is not inductive.  CountInv ties the number of a    *)
(* run's entries to the request that is approving it: short of a dispute    *)
(* there is one such request, and the entry is not there before it has      *)
(* passed its distribute step.                                              *)
(*                                                                          *)
(* The treasury buys a day again only where the first purchase has no row,  *)
(* holds its lock for someone, and keeps its totals, for any number of      *)
(* passes of its two timers.  TreasuryInv is what makes that inductive.     *)
(***************************************************************************)
EXTENDS PilotActivation, CapitalPool, Treasury, SumTheorems, FiniteSetTheorems, TLAPS

-----------------------------------------------------------------------------
(* What a step of the handler of r does to the local state.                *)

\* A step of r leaves the other handlers where they are.  Histories are kept
\* or, with a handler that is over, forgotten.
StepOf(r) ==
  /\ req' \in [Requests -> Handler]
  /\ \A s \in Requests :
       /\ req'[s].quote = req[s].quote
       /\ req'[s].open \subseteq req[s].open
       /\ req'[s].during = req[s].during \/ (s = r /\ req'[s].pc \in OverPc)
       /\ req'[s].spent = req[s].spent \/ (s = r /\ req'[s].pc \in OverPc /\ req'[s].spent = {})
       /\ req'[s].rows = req[s].rows \/ (s = r /\ req'[s].rows = {})
  /\ \A s \in Requests \ {r} :
       /\ req'[s].pc = req[s].pc
       /\ req'[s].released = req[s].released
       /\ req'[s].gaveUp = req[s].gaveUp
       /\ req'[s].late = req[s].late

\* ... and takes r to pc.
StepTo(r, pc, released, gaveUp, late) ==
  /\ StepOf(r)
  /\ req'[r].pc = pc
  /\ req'[r].released = released
  /\ req'[r].gaveUp = gaveUp
  /\ req'[r].late = late

\* The record a handler has that moved on.
LEMMA MovedToOK ==
  ASSUME NEW r \in Requests, req[r] \in Handler, NEW pc \in Pc
  PROVE  LET m == MovedTo(r, pc) IN
         /\ m \in Handler
         /\ m.pc = pc
         /\ m.quote = req[r].quote
         /\ m.released = req[r].released
         /\ m.gaveUp = req[r].gaveUp
         /\ m.late = req[r].late
         /\ m.open \subseteq req[r].open
         /\ m.during = req[r].during \/ pc \in OverPc
         /\ m.spent = req[r].spent \/ (pc \in OverPc /\ m.spent = {})
         /\ m.rows = req[r].rows \/ m.rows = {}
<1>1. CASE pc \in OverPc
  BY <1>1 DEF MovedTo, Handler
<1>2. CASE pc \notin OverPc
  BY <1>2 DEF MovedTo, Handler
<1> QED
  BY <1>1, <1>2

\* A handler that goes on at pc.
LEMMA GoToOK ==
  ASSUME TypeOK, NEW r \in Requests, NEW pc \in Pc, GoTo(r, pc)
  PROVE  StepTo(r, pc, req[r].released, req[r].gaveUp, req[r].late)
<1> DEFINE m == MovedTo(r, pc)
<1>1. req \in [Requests -> Handler] /\ req[r] \in Handler
  BY DEF TypeOK
<1>2. req' = [req EXCEPT ![r] = m]
  BY DEF GoTo
<1>3. /\ m \in Handler
      /\ m.pc = pc
      /\ m.quote = req[r].quote
      /\ m.released = req[r].released
      /\ m.gaveUp = req[r].gaveUp
      /\ m.late = req[r].late
      /\ m.open \subseteq req[r].open
      /\ m.during = req[r].during \/ pc \in OverPc
      /\ m.spent = req[r].spent \/ (pc \in OverPc /\ m.spent = {})
      /\ m.rows = req[r].rows \/ m.rows = {}
  BY <1>1, MovedToOK
<1> HIDE DEF m
<1> QED
  BY <1>1, <1>2, <1>3 DEF StepTo, StepOf

\* The record of a handler that gives up a statement and moves on.
LEMMA GiveUpOK ==
  ASSUME TypeOK, NEW r \in Requests, NEW pc \in Pc, GiveUp(r, pc)
  PROVE  StepTo(r, pc, req[r].released, TRUE, req[r].late)
<1> DEFINE m == MovedTo(r, pc)
           g == [m EXCEPT !.gaveUp = TRUE]
<1>1. req \in [Requests -> Handler] /\ req[r] \in Handler
  BY DEF TypeOK
<1>2. req' = [req EXCEPT ![r] = g]
  BY DEF GiveUp
<1>3. /\ m \in Handler
      /\ m.pc = pc
      /\ m.quote = req[r].quote
      /\ m.released = req[r].released
      /\ m.late = req[r].late
      /\ m.open \subseteq req[r].open
      /\ m.during = req[r].during \/ pc \in OverPc
      /\ m.spent = req[r].spent \/ (pc \in OverPc /\ m.spent = {})
      /\ m.rows = req[r].rows \/ m.rows = {}
  BY <1>1, MovedToOK
<1> HIDE DEF m
<1>4. /\ g \in Handler
      /\ g.gaveUp = TRUE
      /\ g.pc = m.pc /\ g.quote = m.quote /\ g.released = m.released /\ g.late = m.late
      /\ g.open = m.open /\ g.during = m.during /\ g.spent = m.spent /\ g.rows = m.rows
  BY <1>3 DEF Handler
<1> HIDE DEF g
<1> QED
  BY <1>1, <1>2, <1>3, <1>4 DEF StepTo, StepOf

\* A handler whose row leaves the open statuses is over; nobody counts on the
\* row any longer.
LEMMA ClosingOK ==
  ASSUME TypeOK, NEW r \in Requests,
         req' = Closing(r, [req EXCEPT ![r] = MovedTo(r, "done")])
  PROVE  /\ StepTo(r, "done", req[r].released, req[r].gaveUp, req[r].late)
         /\ \A s \in Requests : r \notin req'[s].open
<1> DEFINE m == MovedTo(r, "done")
           n == [req EXCEPT ![r] = m]
<1>1. req \in [Requests -> Handler] /\ req[r] \in Handler /\ "done" \in Pc /\ "done" \in OverPc
  BY DEF TypeOK, Pc, OverPc
<1>3. /\ m \in Handler
      /\ m.pc = "done"
      /\ m.quote = req[r].quote
      /\ m.released = req[r].released
      /\ m.gaveUp = req[r].gaveUp
      /\ m.late = req[r].late
      /\ m.open \subseteq req[r].open
      /\ m.spent = req[r].spent \/ m.spent = {}
      /\ m.rows = req[r].rows \/ m.rows = {}
  BY <1>1, MovedToOK
<1> HIDE DEF m
<1>4. n \in [Requests -> Handler] /\ n[r] = m /\ \A s \in Requests \ {r} : n[s] = req[s]
  BY <1>1, <1>3
<1>5. req' = [s \in Requests |-> [n[s] EXCEPT !.open = @ \ {r}]]
  BY DEF Closing, m
<1> HIDE DEF n
<1>6. ASSUME NEW s \in Requests
      PROVE  /\ req'[s] \in Handler
             /\ req'[s].open = n[s].open \ {r}
             /\ req'[s].pc = n[s].pc /\ req'[s].quote = n[s].quote
             /\ req'[s].released = n[s].released /\ req'[s].gaveUp = n[s].gaveUp
             /\ req'[s].late = n[s].late /\ req'[s].during = n[s].during
             /\ req'[s].spent = n[s].spent /\ req'[s].rows = n[s].rows
  <2> DEFINE t == n[s]
             u == [t EXCEPT !.open = t.open \ {r}]
  <2>1. t \in Handler
    BY <1>4
  <2>2. req'[s] = u
    BY <1>5
  <2> HIDE DEF t
  <2>3. /\ u \in Handler
        /\ u.open = t.open \ {r}
        /\ u.pc = t.pc /\ u.quote = t.quote
        /\ u.released = t.released /\ u.gaveUp = t.gaveUp
        /\ u.late = t.late /\ u.during = t.during
        /\ u.spent = t.spent /\ u.rows = t.rows
    BY <2>1 DEF Handler
  <2> HIDE DEF u
  <2> QED
    BY <2>2, <2>3 DEF t
<1>7. req' \in [Requests -> Handler]
  <2>1. DOMAIN req' = Requests /\ req' = [s \in Requests |-> req'[s]]
    BY <1>5
  <2> QED
    BY <1>6, <2>1
<1>8. /\ req'[r].pc = "done" /\ req'[r].quote = req[r].quote
      /\ req'[r].released = req[r].released /\ req'[r].gaveUp = req[r].gaveUp
      /\ req'[r].late = req[r].late /\ req'[r].open \subseteq req[r].open
      /\ req'[r].spent = req[r].spent \/ req'[r].spent = {}
      /\ req'[r].rows = req[r].rows \/ req'[r].rows = {}
  BY <1>3, <1>4, <1>6
<1>9. ASSUME NEW s \in Requests, s # r
      PROVE  /\ req'[s].pc = req[s].pc /\ req'[s].quote = req[s].quote
             /\ req'[s].released = req[s].released /\ req'[s].gaveUp = req[s].gaveUp
             /\ req'[s].late = req[s].late /\ req'[s].open \subseteq req[s].open
             /\ req'[s].during = req[s].during /\ req'[s].spent = req[s].spent
             /\ req'[s].rows = req[s].rows
  BY <1>4, <1>6, <1>9
<1>10. \A s \in Requests : r \notin req'[s].open
  BY <1>6
<1>11. StepOf(r)
  <2>1. ASSUME NEW s \in Requests
        PROVE  /\ req'[s].quote = req[s].quote
               /\ req'[s].open \subseteq req[s].open
               /\ req'[s].during = req[s].during \/ (s = r /\ req'[s].pc \in OverPc)
               /\ req'[s].spent = req[s].spent
                    \/ (s = r /\ req'[s].pc \in OverPc /\ req'[s].spent = {})
               /\ req'[s].rows = req[s].rows \/ (s = r /\ req'[s].rows = {})
    <3>1. CASE s = r
      BY <1>1, <1>8, <3>1
    <3>2. CASE s # r
      BY <1>9, <3>2
    <3> QED
      BY <3>1, <3>2
  <2> QED
    BY <1>7, <1>9, <2>1 DEF StepOf
<1> QED
  BY <1>8, <1>10, <1>11 DEF StepTo

\* The statements that note something about the capacity, the rows or the order.
LEMMA ReservedOK ==
  ASSUME TypeOK, NEW r \in Requests,
         req' = [req EXCEPT ![r].pc = "insert", ![r].reserved = TRUE]
  PROVE  StepTo(r, "insert", req[r].released, req[r].gaveUp, req[r].late)
<1>1. req \in [Requests -> Handler] /\ req[r] \in Handler /\ "insert" \in Pc
  BY DEF TypeOK, Pc, OneDayPc, TxPc
<1> DEFINE m == [req[r] EXCEPT !.pc = "insert", !.reserved = TRUE]
<1>2. /\ m \in Handler
      /\ m.pc = "insert"
      /\ m.quote = req[r].quote /\ m.released = req[r].released
      /\ m.gaveUp = req[r].gaveUp /\ m.late = req[r].late
      /\ m.open = req[r].open /\ m.during = req[r].during
      /\ m.spent = req[r].spent /\ m.rows = req[r].rows
  BY <1>1 DEF Handler
<1>3. req' = [req EXCEPT ![r] = m]
  BY <1>1
<1> HIDE DEF m
<1> QED
  BY <1>1, <1>2, <1>3 DEF StepTo, StepOf

LEMMA ReleasedOK ==
  ASSUME TypeOK, NEW r \in Requests,
         req' = [req EXCEPT ![r].pc = "fail", ![r].released = TRUE]
  PROVE  StepTo(r, "fail", TRUE, req[r].gaveUp, req[r].late)
<1>1. req \in [Requests -> Handler] /\ req[r] \in Handler /\ "fail" \in Pc
  BY DEF TypeOK, Pc, OneDayPc
<1> DEFINE m == [req[r] EXCEPT !.pc = "fail", !.released = TRUE]
<1>2. /\ m \in Handler
      /\ m.pc = "fail"
      /\ m.quote = req[r].quote /\ m.released = TRUE
      /\ m.gaveUp = req[r].gaveUp /\ m.late = req[r].late
      /\ m.open = req[r].open /\ m.during = req[r].during
      /\ m.spent = req[r].spent /\ m.rows = req[r].rows
  BY <1>1 DEF Handler
<1>3. req' = [req EXCEPT ![r] = m]
  BY <1>1
<1> HIDE DEF m
<1> QED
  BY <1>1, <1>2, <1>3 DEF StepTo, StepOf

LEMMA UncountedOK ==
  ASSUME TypeOK, NEW r \in Requests,
         req' = [req EXCEPT ![r].pc = "bi budget", ![r].rows = {}]
  PROVE  /\ StepTo(r, "bi budget", req[r].released, req[r].gaveUp, req[r].late)
         /\ req'[r].rows = {}
<1>1. req \in [Requests -> Handler] /\ req[r] \in Handler /\ "bi budget" \in Pc
  BY DEF TypeOK, Pc, BiweeklyPc
<1> DEFINE m == [req[r] EXCEPT !.pc = "bi budget", !.rows = {}]
<1>2. /\ m \in Handler
      /\ m.pc = "bi budget"
      /\ m.quote = req[r].quote /\ m.released = req[r].released
      /\ m.gaveUp = req[r].gaveUp /\ m.late = req[r].late
      /\ m.open = req[r].open /\ m.during = req[r].during
      /\ m.spent = req[r].spent /\ m.rows = {}
  BY <1>1 DEF Handler
<1>3. req' = [req EXCEPT ![r] = m]
  BY <1>1
<1> HIDE DEF m
<1> QED
  BY <1>1, <1>2, <1>3 DEF StepTo, StepOf

LEMMA TimedOutOK ==
  ASSUME TypeOK, NEW r \in Requests, NEW pc \in Pc,
         req' = [req EXCEPT ![r] = [MovedTo(r, pc) EXCEPT !.late = TRUE]]
  PROVE  StepTo(r, pc, req[r].released, req[r].gaveUp, TRUE)
<1> DEFINE m == MovedTo(r, pc)
           g == [m EXCEPT !.late = TRUE]
<1>1. req \in [Requests -> Handler] /\ req[r] \in Handler
  BY DEF TypeOK
<1>2. req' = [req EXCEPT ![r] = g]
  OBVIOUS
<1>3. /\ m \in Handler
      /\ m.pc = pc
      /\ m.quote = req[r].quote
      /\ m.released = req[r].released
      /\ m.gaveUp = req[r].gaveUp
      /\ m.open \subseteq req[r].open
      /\ m.during = req[r].during \/ pc \in OverPc
      /\ m.spent = req[r].spent \/ (pc \in OverPc /\ m.spent = {})
      /\ m.rows = req[r].rows \/ m.rows = {}
  BY <1>1, MovedToOK
<1> HIDE DEF m
<1>4. /\ g \in Handler
      /\ g.late = TRUE
      /\ g.pc = m.pc /\ g.quote = m.quote /\ g.released = m.released /\ g.gaveUp = m.gaveUp
      /\ g.open = m.open /\ g.during = m.during /\ g.spent = m.spent /\ g.rows = m.rows
  BY <1>3 DEF Handler
<1> HIDE DEF g
<1>5. /\ req'[r] = g
      /\ req' \in [Requests -> Handler]
      /\ \A s \in Requests \ {r} : req'[s] = req[s]
  BY <1>1, <1>2, <1>4
<1>6. StepOf(r)
  BY <1>3, <1>4, <1>5 DEF StepOf
<1> QED
  BY <1>3, <1>4, <1>5, <1>6 DEF StepTo

-----------------------------------------------------------------------------
(* What every step of a handler leaves alone.                              *)

\* The rows, the orders and the books of the other requests.
OthersKept(r) ==
  /\ \A s \in Requests \ {r} :
       /\ row'[s] = row[s]
       /\ order'[s] = order[s]
       /\ s \in executions' <=> s \in executions
       /\ s \in due' <=> s \in due
  /\ repaired' = repaired

\* A handler that waits for the venue stays where it is.
LEMMA WaitingOK ==
  ASSUME TypeOK, NEW r \in Requests, UNCHANGED req
  PROVE  StepTo(r, req[r].pc, req[r].released, req[r].gaveUp, req[r].late)
  BY DEF TypeOK, StepTo, StepOf

LEMMA HandlerShape ==
  ASSUME TypeOK, NEW r \in Requests, HandlerStep(r)
  PROVE  StepOf(r)
<1>1. CASE LockQuote(r)
  BY <1>1, GoToOK DEF LockQuote, StepTo, Pc, OneDayPc, TxPc, FillPc, BiweeklyPc, OverPc
<1>2. CASE Replay(r)
  BY <1>2, GoToOK DEF Replay, StepTo, Pc, OneDayPc, TxPc, FillPc, BiweeklyPc, OverPc
<1>3. CASE Refuse(r)
  BY <1>3, GoToOK DEF Refuse, StepTo, Pc, OneDayPc, TxPc, FillPc, BiweeklyPc, OverPc
<1>4. CASE ReadBudget(r)
  BY <1>4, GoToOK DEF ReadBudget, StepTo, Pc, OneDayPc, TxPc, FillPc, BiweeklyPc,
      OverPc
<1>5. CASE ReadAggregate(r)
  BY <1>5, GoToOK DEF ReadAggregate, StepTo, Pc, OneDayPc, TxPc, FillPc, BiweeklyPc,
      OverPc
<1>6. CASE ReserveCapacity(r)
  BY <1>6, ReservedOK DEF ReserveCapacity, StepTo, Pc, OneDayPc, TxPc, FillPc,
      BiweeklyPc, OverPc
<1>7. CASE CapacityExceeded(r)
  BY <1>7, GoToOK DEF CapacityExceeded, StepTo, Pc, OneDayPc, TxPc, FillPc, BiweeklyPc,
      OverPc
<1>8. CASE InsertAndConsume(r)
  BY <1>8, GoToOK DEF InsertAndConsume, StepTo, Pc, OneDayPc, TxPc, FillPc, BiweeklyPc,
      OverPc
<1>9. CASE TransactionFails(r)
  BY <1>9, GoToOK DEF TransactionFails, StepTo, Pc, OneDayPc, TxPc, FillPc, BiweeklyPc,
      OverPc
<1>10. CASE ReadPrice(r)
  BY <1>10, GoToOK DEF ReadPrice, StepTo, Pc, OneDayPc, TxPc, FillPc, BiweeklyPc,
      OverPc
<1>11. CASE CheckFill(r)
  BY <1>11, GoToOK DEF CheckFill, StepTo, Pc, OneDayPc, TxPc, FillPc, BiweeklyPc,
      OverPc
<1>12. CASE InsertExecution(r)
  BY <1>12, GoToOK DEF InsertExecution, StepTo, Pc, OneDayPc, TxPc, FillPc, BiweeklyPc,
      OverPc
<1>13. CASE BookPremium(r)
  BY <1>13, GoToOK DEF BookPremium, StepTo, Pc, OneDayPc, TxPc, FillPc, BiweeklyPc,
      OverPc
<1>14. CASE Activate(r)
  BY <1>14, GoToOK DEF Activate, StepTo, Pc, OneDayPc, TxPc, FillPc, BiweeklyPc, OverPc
<1>15. CASE BookPool(r)
  BY <1>15, GoToOK DEF BookPool, StepTo, Pc, OneDayPc, TxPc, FillPc, BiweeklyPc, OverPc
<1>16. CASE MarkReconcilePending(r)
  BY <1>16, ClosingOK, GiveUpOK DEF MarkReconcilePending, StepTo, Pc, OneDayPc, TxPc,
      FillPc, BiweeklyPc, OverPc
<1>17. CASE ReleaseCapacity(r)
  BY <1>17, ReleasedOK, GiveUpOK DEF ReleaseCapacity, StepTo, Pc, OneDayPc, TxPc,
      FillPc, BiweeklyPc, OverPc
<1>18. CASE MarkFailed(r)
  BY <1>18, ClosingOK, GiveUpOK DEF MarkFailed, StepTo, Pc, OneDayPc, TxPc, FillPc,
      BiweeklyPc, OverPc
<1>19. CASE LookupQuote(r)
  BY <1>19, GoToOK DEF LookupQuote, StepTo, Pc, OneDayPc, TxPc, FillPc, BiweeklyPc,
      OverPc
<1>20. CASE CountActivations(r)
  BY <1>20, GoToOK, UncountedOK DEF CountActivations, StepTo, Pc, OneDayPc, TxPc,
      FillPc, BiweeklyPc, OverPc
<1>21. CASE ReadBiweeklyBudget(r)
  BY <1>21, GoToOK DEF ReadBiweeklyBudget, StepTo, Pc, OneDayPc, TxPc, FillPc,
      BiweeklyPc, OverPc
<1>22. CASE InsertBiweekly(r)
  BY <1>22, GoToOK, GiveUpOK DEF InsertBiweekly, StepTo, Pc, OneDayPc, TxPc, FillPc,
      BiweeklyPc, OverPc
<1>23. CASE InsertBiweeklyExecution(r)
  BY <1>23, GoToOK, GiveUpOK DEF InsertBiweeklyExecution, StepTo, Pc, OneDayPc, TxPc,
      FillPc, BiweeklyPc, OverPc
<1>24. CASE HydrateRow(r)
  BY <1>24, GoToOK, GiveUpOK DEF HydrateRow, StepTo, Pc, OneDayPc, TxPc, FillPc,
      BiweeklyPc, OverPc
<1>25. CASE ConsumeAfterwards(r)
  BY <1>25, GoToOK, GiveUpOK DEF ConsumeAfterwards, StepTo, Pc, OneDayPc, TxPc, FillPc,
      BiweeklyPc, OverPc
<1>26. CASE SendOrder(r)
  BY <1>26, WaitingOK DEF SendOrder, StepTo, Pc, OneDayPc, TxPc, FillPc, BiweeklyPc,
      OverPc
<1>27. CASE \E outcome \in {"filled", "rejected"} : OrderAnswered(r, outcome)
  BY <1>27, GoToOK DEF OrderAnswered, AfterOrder, OneDay, Biweekly, StepTo, Pc,
      OneDayPc, TxPc, FillPc, BiweeklyPc, OverPc
<1>28. CASE OrderTimesOut(r)
  BY <1>28, TimedOutOK DEF OrderTimesOut, OneDay, StepTo, Pc, OneDayPc, TxPc, FillPc,
      BiweeklyPc, OverPc
<1> QED
  BY <1>1, <1>2, <1>3, <1>4, <1>5, <1>6, <1>7, <1>8, <1>9, <1>10, <1>11, <1>12, <1>13,
      <1>14, <1>15, <1>16, <1>17, <1>18, <1>19, <1>20, <1>21, <1>22, <1>23, <1>24,
      <1>25, <1>26, <1>27, <1>28 DEF HandlerStep, OneDayStep, BiweeklyStep, VenueStep

LEMMA OthersShape ==
  ASSUME TypeOK, NEW r \in Requests, HandlerStep(r)
  PROVE  OthersKept(r)
<1> USE DEF TypeOK, OthersKept, books
<1>1. CASE LockQuote(r)
  BY <1>1 DEF LockQuote
<1>2. CASE Replay(r)
  BY <1>2 DEF Replay
<1>3. CASE Refuse(r)
  BY <1>3 DEF Refuse
<1>4. CASE ReadBudget(r)
  BY <1>4 DEF ReadBudget
<1>5. CASE ReadAggregate(r)
  BY <1>5 DEF ReadAggregate
<1>6. CASE ReserveCapacity(r)
  BY <1>6 DEF ReserveCapacity
<1>7. CASE CapacityExceeded(r)
  BY <1>7 DEF CapacityExceeded
<1>8. CASE InsertAndConsume(r)
  BY <1>8 DEF InsertAndConsume
<1>9. CASE TransactionFails(r)
  BY <1>9 DEF TransactionFails
<1>10. CASE ReadPrice(r)
  BY <1>10 DEF ReadPrice
<1>11. CASE CheckFill(r)
  BY <1>11 DEF CheckFill
<1>12. CASE InsertExecution(r)
  BY <1>12 DEF InsertExecution
<1>13. CASE BookPremium(r)
  BY <1>13 DEF BookPremium
<1>14. CASE Activate(r)
  BY <1>14 DEF Activate
<1>15. CASE BookPool(r)
  BY <1>15 DEF BookPool
<1>16. CASE MarkReconcilePending(r)
  BY <1>16 DEF MarkReconcilePending
<1>17. CASE ReleaseCapacity(r)
  BY <1>17 DEF ReleaseCapacity
<1>18. CASE MarkFailed(r)
  BY <1>18 DEF MarkFailed
<1>19. CASE LookupQuote(r)
  BY <1>19 DEF LookupQuote
<1>20. CASE CountActivations(r)
  BY <1>20 DEF CountActivations
<1>21. CASE ReadBiweeklyBudget(r)
  BY <1>21 DEF ReadBiweeklyBudget
<1>22. CASE InsertBiweekly(r)
  BY <1>22 DEF InsertBiweekly
<1>23. CASE InsertBiweeklyExecution(r)
  BY <1>23 DEF InsertBiweeklyExecution
<1>24. CASE HydrateRow(r)
  BY <1>24 DEF HydrateRow
<1>25. CASE ConsumeAfterwards(r)
  BY <1>25 DEF ConsumeAfterwards
<1>26. CASE SendOrder(r)
  BY <1>26 DEF SendOrder
<1>27. CASE \E outcome \in {"filled", "rejected"} : OrderAnswered(r, outcome)
  BY <1>27 DEF OrderAnswered, AfterOrder, OneDay, Biweekly
<1>28. CASE OrderTimesOut(r)
  BY <1>28 DEF OrderTimesOut, OneDay
<1> QED
  BY <1>1, <1>2, <1>3, <1>4, <1>5, <1>6, <1>7, <1>8, <1>9, <1>10, <1>11, <1>12, <1>13,
      <1>14, <1>15, <1>16, <1>17, <1>18, <1>19, <1>20, <1>21, <1>22, <1>23, <1>24,
      <1>25, <1>26, <1>27, <1>28 DEF HandlerStep, OneDayStep, BiweeklyStep, VenueStep
-----------------------------------------------------------------------------
(* Type correctness.                                                       *)

\* The types of what the next state keeps in its tables.
TablesTypeOK ==
  /\ row \in [Requests -> RowStatus]
  /\ consumer \in [Quotes -> Requests \cup {NoHolder}]
  /\ used \in Nat
  /\ quoteLock \in [Quotes -> Requests \cup {NoHolder}]
  /\ usageLock \in Requests \cup {NoHolder}
  /\ order \in [Requests -> OrderStatus]
  /\ executions \subseteq Requests
  /\ due \subseteq Requests
  /\ pooled \subseteq Requests
  /\ hydrated \subseteq Requests
  /\ repaired \subseteq Requests
  /\ incidents \in 0..MaxIncidents

LEMMA TypeParts == TypeOK <=> TablesTypeOK /\ req \in [Requests -> Handler]
  BY DEF TypeOK, TablesTypeOK

\* One more incident stays within the bound.
LEMMA IncidentOK ==
  ASSUME incidents \in 0..MaxIncidents, Incident
  PROVE  incidents' \in 0..MaxIncidents
  BY LimitsAssumption DEF Incident

\* What only a transaction's end does to the locks.
LEMMA UnlockedOK ==
  ASSUME TypeOK, NEW r \in Requests, UnlockedBy(r)
  PROVE  /\ quoteLock' \in [Quotes -> Requests \cup {NoHolder}]
         /\ usageLock' \in Requests \cup {NoHolder}
  BY DEF TypeOK, UnlockedBy

LEMMA HandlerTables ==
  ASSUME TypeOK, NEW r \in Requests, HandlerStep(r)
  PROVE  TablesTypeOK'
<1>0. TablesTypeOK
  BY TypeParts
<1>1. CASE LockQuote(r)
  BY <1>1, <1>0, IncidentOK, UnlockedOK DEF LockQuote, TablesTypeOK, RowStatus,
      OrderStatus, books, locks, Served, NotServed
<1>2. CASE Replay(r)
  BY <1>2, <1>0, IncidentOK, UnlockedOK DEF Replay, TablesTypeOK, RowStatus,
      OrderStatus, books, locks, Served, NotServed
<1>3. CASE Refuse(r)
  BY <1>3, <1>0, IncidentOK, UnlockedOK DEF Refuse, TablesTypeOK, RowStatus,
      OrderStatus, books, locks, Served, NotServed
<1>4. CASE ReadBudget(r)
  BY <1>4, <1>0, IncidentOK, UnlockedOK DEF ReadBudget, TablesTypeOK, RowStatus,
      OrderStatus, books, locks, Served, NotServed
<1>5. CASE ReadAggregate(r)
  BY <1>5, <1>0, IncidentOK, UnlockedOK DEF ReadAggregate, TablesTypeOK, RowStatus,
      OrderStatus, books, locks, Served, NotServed
<1>6. CASE ReserveCapacity(r)
  BY <1>6, <1>0, IncidentOK, UnlockedOK DEF ReserveCapacity, TablesTypeOK, RowStatus,
      OrderStatus, books, locks, Served, NotServed
<1>7. CASE CapacityExceeded(r)
  BY <1>7, <1>0, IncidentOK, UnlockedOK DEF CapacityExceeded, TablesTypeOK, RowStatus,
      OrderStatus, books, locks, Served, NotServed
<1>8. CASE InsertAndConsume(r)
  <2>1. row' \in [Requests -> RowStatus] /\ used' \in Nat
    BY <1>8, <1>0 DEF InsertAndConsume, TablesTypeOK, RowStatus
  <2>2. consumer' \in [Quotes -> Requests \cup {NoHolder}]
    BY <1>8, <1>0 DEF InsertAndConsume, TablesTypeOK
  <2> QED
    BY <1>8, <1>0, <2>1, <2>2, UnlockedOK DEF InsertAndConsume, TablesTypeOK, books
<1>9. CASE TransactionFails(r)
  BY <1>9, <1>0, IncidentOK, UnlockedOK DEF TransactionFails, TablesTypeOK, RowStatus,
      OrderStatus, books, locks, Served, NotServed
<1>10. CASE ReadPrice(r)
  BY <1>10, <1>0, IncidentOK, UnlockedOK DEF ReadPrice, TablesTypeOK, RowStatus,
      OrderStatus, books, locks, Served, NotServed
<1>11. CASE CheckFill(r)
  BY <1>11, <1>0, IncidentOK, UnlockedOK DEF CheckFill, TablesTypeOK, RowStatus,
      OrderStatus, books, locks, Served, NotServed
<1>12. CASE InsertExecution(r)
  BY <1>12, <1>0, IncidentOK, UnlockedOK DEF InsertExecution, TablesTypeOK, RowStatus,
      OrderStatus, books, locks, Served, NotServed
<1>13. CASE BookPremium(r)
  BY <1>13, <1>0, IncidentOK, UnlockedOK DEF BookPremium, TablesTypeOK, RowStatus,
      OrderStatus, books, locks, Served, NotServed
<1>14. CASE Activate(r)
  BY <1>14, <1>0, IncidentOK, UnlockedOK DEF Activate, TablesTypeOK, RowStatus,
      OrderStatus, books, locks, Served, NotServed
<1>15. CASE BookPool(r)
  BY <1>15, <1>0, IncidentOK, UnlockedOK DEF BookPool, TablesTypeOK, RowStatus,
      OrderStatus, books, locks, Served, NotServed
<1>16. CASE MarkReconcilePending(r)
  BY <1>16, <1>0, IncidentOK, UnlockedOK DEF MarkReconcilePending, TablesTypeOK,
      RowStatus, OrderStatus, books, locks, Served, NotServed
<1>17. CASE ReleaseCapacity(r)
  BY <1>17, <1>0, IncidentOK, UnlockedOK DEF ReleaseCapacity, TablesTypeOK, RowStatus,
      OrderStatus, books, locks, Served, NotServed
<1>18. CASE MarkFailed(r)
  BY <1>18, <1>0, IncidentOK, UnlockedOK DEF MarkFailed, TablesTypeOK, RowStatus,
      OrderStatus, books, locks, Served, NotServed
<1>19. CASE LookupQuote(r)
  BY <1>19, <1>0, IncidentOK, UnlockedOK DEF LookupQuote, TablesTypeOK, RowStatus,
      OrderStatus, books, locks, Served, NotServed
<1>20. CASE CountActivations(r)
  BY <1>20, <1>0, IncidentOK, UnlockedOK DEF CountActivations, TablesTypeOK, RowStatus,
      OrderStatus, books, locks, Served, NotServed
<1>21. CASE ReadBiweeklyBudget(r)
  BY <1>21, <1>0, IncidentOK, UnlockedOK DEF ReadBiweeklyBudget, TablesTypeOK,
      RowStatus, OrderStatus, books, locks, Served, NotServed
<1>22. CASE InsertBiweekly(r)
  BY <1>22, <1>0, IncidentOK, UnlockedOK DEF InsertBiweekly, TablesTypeOK, RowStatus,
      OrderStatus, books, locks, Served, NotServed
<1>23. CASE InsertBiweeklyExecution(r)
  BY <1>23, <1>0, IncidentOK, UnlockedOK DEF InsertBiweeklyExecution, TablesTypeOK,
      RowStatus, OrderStatus, books, locks, Served, NotServed
<1>24. CASE HydrateRow(r)
  BY <1>24, <1>0, IncidentOK, UnlockedOK DEF HydrateRow, TablesTypeOK, RowStatus,
      OrderStatus, books, locks, Served, NotServed
<1>25. CASE ConsumeAfterwards(r)
  BY <1>25, <1>0, IncidentOK, UnlockedOK DEF ConsumeAfterwards, TablesTypeOK,
      RowStatus, OrderStatus, books, locks, Served, NotServed
<1>26. CASE SendOrder(r)
  BY <1>26, <1>0, IncidentOK, UnlockedOK DEF SendOrder, TablesTypeOK, RowStatus,
      OrderStatus, books, locks, Served, NotServed
<1>27. CASE \E outcome \in {"filled", "rejected"} : OrderAnswered(r, outcome)
  BY <1>27, <1>0 DEF OrderAnswered, TablesTypeOK, OrderStatus, books, locks
<1>28. CASE OrderTimesOut(r)
  BY <1>28, <1>0, IncidentOK, UnlockedOK DEF OrderTimesOut, OneDay, TablesTypeOK,
      RowStatus, OrderStatus, books, locks, Served, NotServed
<1> QED
  BY <1>1, <1>2, <1>3, <1>4, <1>5, <1>6, <1>7, <1>8, <1>9, <1>10, <1>11, <1>12, <1>13,
      <1>14, <1>15, <1>16, <1>17, <1>18, <1>19, <1>20, <1>21, <1>22, <1>23, <1>24,
      <1>25, <1>26, <1>27, <1>28 DEF HandlerStep, OneDayStep, BiweeklyStep, VenueStep

\* A request that arrives: what it notes, and that those under way note it.
LEMMA ArriveOK ==
  ASSUME TypeOK, NEW r \in Requests, NEW q \in Quotes, Arrive(r, q)
  PROVE  /\ req' \in [Requests -> Handler]
         /\ req'[r].pc = IF q \in OneDayQuotes THEN "lock" ELSE "lookup"
         /\ req'[r].quote = q
         /\ ~req'[r].released /\ ~req'[r].gaveUp /\ ~req'[r].late
         /\ req'[r].during = {s \in Requests : UnderWay(s)}
         /\ req'[r].open = Open
         /\ req'[r].spent = executions
         /\ req'[r].rows = Stored
         /\ \A s \in Requests \ {r} :
              /\ req'[s].pc = req[s].pc /\ req'[s].quote = req[s].quote
              /\ req'[s].released = req[s].released
              /\ req'[s].gaveUp = req[s].gaveUp /\ req'[s].late = req[s].late
              /\ UnderWay(s) => req'[s].during = req[s].during \cup {r}
              /\ ~UnderWay(s) => req'[s].during = req[s].during
              /\ req'[s].open = req[s].open
              /\ req'[s].spent = req[s].spent /\ req'[s].rows = req[s].rows
<1> DEFINE others == {s \in Requests : UnderWay(s)}
           pc == IF q \in OneDayQuotes THEN "lock" ELSE "lookup"
           n == [Unsent EXCEPT !.pc = pc, !.quote = q, !.during = others,
                               !.open = Open, !.spent = executions, !.rows = Stored]
<1>1. req \in [Requests -> Handler] /\ executions \subseteq Requests
  BY DEF TypeOK
<1>2. Sent(r, q, pc)
  BY QuotesAssumption DEF Arrive, Quotes
<1>3. req' = [s \in Requests |->
                IF s = r THEN n
                ELSE IF s \in others THEN [req[s] EXCEPT !.during = @ \cup {r}]
                ELSE req[s]]
  BY <1>2 DEF Sent
<1>4. Open \subseteq Requests /\ Stored \subseteq Requests /\ others \subseteq Requests
  BY DEF Open, Stored
<1>5. pc \in Pc
  BY DEF Pc, OneDayPc, TxPc, BiweeklyPc
<1> HIDE DEF others, pc
<1>6. /\ n \in Handler
      /\ n.pc = pc /\ n.quote = q /\ ~n.released /\ ~n.gaveUp /\ ~n.late
      /\ n.during = others /\ n.open = Open /\ n.spent = executions /\ n.rows = Stored
  BY <1>1, <1>4, <1>5 DEF Handler, Unsent
<1> HIDE DEF n
<1>7. ASSUME NEW s \in Requests \ {r}
      PROVE  /\ req'[s] \in Handler
             /\ req'[s].pc = req[s].pc /\ req'[s].quote = req[s].quote
             /\ req'[s].released = req[s].released
             /\ req'[s].gaveUp = req[s].gaveUp /\ req'[s].late = req[s].late
             /\ req'[s].during = IF s \in others THEN req[s].during \cup {r}
                                               ELSE req[s].during
             /\ req'[s].open = req[s].open
             /\ req'[s].spent = req[s].spent /\ req'[s].rows = req[s].rows
  <2> DEFINE t == req[s]
             u == [t EXCEPT !.during = @ \cup {r}]
  <2>1. t \in Handler /\ req'[s] = IF s \in others THEN u ELSE t
    BY <1>1, <1>3
  <2> HIDE DEF t
  <2>2. /\ u \in Handler
        /\ u.pc = t.pc /\ u.quote = t.quote /\ u.released = t.released
        /\ u.gaveUp = t.gaveUp /\ u.late = t.late /\ u.during = t.during \cup {r}
        /\ u.open = t.open /\ u.spent = t.spent /\ u.rows = t.rows
    BY <2>1 DEF Handler
  <2> HIDE DEF u
  <2> QED
    BY <2>1, <2>2 DEF t
<1>8. req'[r] = n
  BY <1>3
<1>9. req' \in [Requests -> Handler]
  <2>1. req' = [s \in Requests |-> req'[s]]
    BY <1>3
  <2>2. \A s \in Requests : req'[s] \in Handler
    BY <1>6, <1>7, <1>8
  <2> QED
    BY <2>1, <2>2
<1> QED
  BY <1>6, <1>7, <1>8, <1>9 DEF others, pc

\* A restart: whoever was under way is lost.
LEMMA RestartOK ==
  ASSUME TypeOK, Restart
  PROVE  /\ req' \in [Requests -> Handler]
         /\ \A r \in Requests :
              /\ req'[r].pc = IF UnderWay(r) THEN "lost" ELSE req[r].pc
              /\ req'[r].quote = req[r].quote
              /\ req'[r].released = req[r].released
              /\ req'[r].gaveUp = req[r].gaveUp /\ req'[r].late = req[r].late
              /\ req'[r].open \subseteq req[r].open
              /\ req'[r].spent = req[r].spent \/ req'[r].spent = {}
              /\ req'[r].rows = req[r].rows \/ req'[r].rows = {}
<1>1. "lost" \in Pc /\ req \in [Requests -> Handler]
  BY DEF Pc, OverPc, TypeOK
<1>2. req' = [r \in Requests |-> IF UnderWay(r) THEN MovedTo(r, "lost") ELSE req[r]]
  BY DEF Restart
<1>3. ASSUME NEW r \in Requests
      PROVE  /\ req'[r] \in Handler
             /\ req'[r].pc = IF UnderWay(r) THEN "lost" ELSE req[r].pc
             /\ req'[r].quote = req[r].quote
             /\ req'[r].released = req[r].released
             /\ req'[r].gaveUp = req[r].gaveUp /\ req'[r].late = req[r].late
             /\ req'[r].open \subseteq req[r].open
             /\ req'[r].spent = req[r].spent \/ req'[r].spent = {}
             /\ req'[r].rows = req[r].rows \/ req'[r].rows = {}
  <2>1. CASE UnderWay(r)
    BY <1>1, <1>2, <2>1, MovedToOK
  <2>2. CASE ~UnderWay(r)
    BY <1>1, <1>2, <2>2
  <2> QED
    BY <2>1, <2>2
<1>4. req' = [r \in Requests |-> req'[r]]
  BY <1>2
<1> QED
  BY <1>3, <1>4

\* A protection that ends: nobody counts on its row any longer.
LEMMA EndOK ==
  ASSUME TypeOK, NEW r \in Requests, req' = Closing(r, req)
  PROVE  /\ req' \in [Requests -> Handler]
         /\ \A s \in Requests :
              /\ req'[s].pc = req[s].pc /\ req'[s].quote = req[s].quote
              /\ req'[s].released = req[s].released
              /\ req'[s].gaveUp = req[s].gaveUp /\ req'[s].late = req[s].late
              /\ req'[s].during = req[s].during
              /\ req'[s].open = req[s].open \ {r}
              /\ req'[s].spent = req[s].spent /\ req'[s].rows = req[s].rows
<1>1. req \in [Requests -> Handler]
  BY DEF TypeOK
<1>2. req' = [s \in Requests |-> [req[s] EXCEPT !.open = @ \ {r}]]
  BY DEF Closing
<1>3. ASSUME NEW s \in Requests
      PROVE  /\ req'[s] \in Handler
             /\ req'[s].pc = req[s].pc /\ req'[s].quote = req[s].quote
             /\ req'[s].released = req[s].released
             /\ req'[s].gaveUp = req[s].gaveUp /\ req'[s].late = req[s].late
             /\ req'[s].during = req[s].during
             /\ req'[s].open = req[s].open \ {r}
             /\ req'[s].spent = req[s].spent /\ req'[s].rows = req[s].rows
  <2> DEFINE t == req[s]
             u == [t EXCEPT !.open = @ \ {r}]
  <2>1. t \in Handler /\ req'[s] = u
    BY <1>1, <1>2
  <2> HIDE DEF t
  <2>2. /\ u \in Handler
        /\ u.pc = t.pc /\ u.quote = t.quote /\ u.released = t.released
        /\ u.gaveUp = t.gaveUp /\ u.late = t.late /\ u.during = t.during
        /\ u.open = t.open \ {r} /\ u.spent = t.spent /\ u.rows = t.rows
    BY <2>1 DEF Handler
  <2> HIDE DEF u
  <2> QED
    BY <2>1, <2>2 DEF t
<1>4. req' = [s \in Requests |-> req'[s]]
  BY <1>2
<1> QED
  BY <1>3, <1>4

LEMMA InitTypeOK == Init => TypeOK
<1> SUFFICES ASSUME Init PROVE TypeOK
  OBVIOUS
<1>1. Unsent \in Handler
  BY DEF Unsent, Handler, Pc
<1>2. req \in [Requests -> Handler]
  BY <1>1 DEF Init
<1>3. TablesTypeOK
  BY LimitsAssumption DEF Init, TablesTypeOK, RowStatus, OrderStatus
<1> QED
  BY <1>2, <1>3, TypeParts

LEMMA StepTypeOK == TypeOK /\ [Next]_vars => TypeOK'
<1> SUFFICES ASSUME TypeOK, [Next]_vars PROVE TypeOK'
  OBVIOUS
<1>0. TablesTypeOK /\ req \in [Requests -> Handler] /\ (TypeOK' <=> TablesTypeOK' /\ req' \in [Requests -> Handler])
  BY TypeParts DEF TypeOK, TablesTypeOK
<1>1. CASE UNCHANGED vars
  BY <1>0, <1>1 DEF vars, locks, books, TablesTypeOK
<1>2. CASE AllOver
  BY <1>1, <1>2 DEF AllOver
<1>3. ASSUME NEW r \in Requests, NEW q \in Quotes, Arrive(r, q) PROVE TypeOK'
  BY <1>0, <1>3, ArriveOK DEF Arrive, TablesTypeOK, locks, books
<1>4. ASSUME NEW r \in Requests, HandlerStep(r) PROVE TypeOK'
  BY <1>0, <1>4, HandlerShape, HandlerTables DEF StepOf
<1>5. ASSUME NEW r \in Requests, NEW outcome \in {"filled", "rejected"},
             OrderSettlesLate(r, outcome)
      PROVE  TypeOK'
  BY <1>0, <1>5 DEF OrderSettlesLate, TablesTypeOK, OrderStatus, locks, books
<1>6. ASSUME NEW r \in Requests, EndProtection(r) PROVE TypeOK'
  BY <1>0, <1>6, EndOK DEF EndProtection, TablesTypeOK, RowStatus, locks, books
<1>7. ASSUME NEW r \in Requests, ReconcileOrphan(r) PROVE TypeOK'
  BY <1>0, <1>7, IncidentOK DEF ReconcileOrphan, TablesTypeOK, RowStatus, locks, books
<1>8. CASE Restart
  BY <1>0, <1>8, RestartOK, IncidentOK DEF Restart, TablesTypeOK, books
<1> QED
  BY <1>1, <1>2, <1>3, <1>4, <1>5, <1>6, <1>7, <1>8 DEF Next

\* Every table, lock and handler keeps its type, for any number of requests and
\* quotes and any caps.
THEOREM TypeCorrect == Spec => []TypeOK
  BY InitTypeOK, StepTypeOK, PTL DEF Spec

-----------------------------------------------------------------------------
(* What its place in the handler says of a request alone.                  *)

\* Which product the quote is of.
QuoteKind(r) ==
  /\ req[r].pc = "idle" => req[r].quote = NoQuote
  /\ req[r].pc \in OneDayPc => req[r].quote \in OneDayQuotes
  /\ req[r].pc \in BiweeklyPc => req[r].quote \in BiweeklyQuotes

\* Nothing is ordered before the order is due, and an order is still working
\* only while it is awaited or once it was given up.
OrderInv(r) ==
  /\ req[r].pc \in {"idle", "price", "lookup", "count", "bi budget"} \cup TxPc =>
       order[r] = "none" /\ ~req[r].late
  /\ req[r].pc \in {"execute", "bi execute"} =>
       order[r] \in {"none", "working"} /\ ~req[r].late
  /\ req[r].pc \in FillPc \cup {"reconcile", "bi insert", "bi execution", "bi hydrate", "bi consume"} =>
       order[r] = "filled" /\ ~req[r].late
  /\ req[r].pc \in {"release", "fail"} => order[r] \in {"none", "rejected"} \/ req[r].late
  /\ req[r].pc = "done" => order[r] # "working" \/ req[r].late

\* The row follows the handler, but for the repairs of an admin.
RowInv(r) ==
  /\ req[r].pc \in {"idle", "lookup", "count", "bi budget", "bi execute", "bi insert"} \cup TxPc =>
       row[r] = "absent"
  /\ req[r].pc \in {"price", "execute", "check", "execution", "due", "activate", "reconcile"} =>
       row[r] = "pending_activation" \/ r \in repaired
  /\ req[r].pc \in {"release", "fail"} =>
       row[r] \in {"absent", "pending_activation"} \/ r \in repaired
  /\ req[r].pc \in {"book", "bi execution", "bi hydrate", "bi consume"} =>
       row[r] \in {"active", "ended"}
  /\ row[r] = "activation_failed" => req[r].pc = "done"

\* Capacity is given back by a handler whose activation fails.
ReleaseInv(r) ==
  req[r].released =>
    /\ req[r].pc \in {"fail"} \cup OverPc
    /\ row[r] \in {"absent", "pending_activation", "activation_failed"} \/ r \in repaired

\* What is on record of an order, and what its row says of it.
BooksInv(r) ==
  /\ r \in due => req[r].pc \in {"activate", "book", "reconcile"} \cup OverPc
  /\ req[r].pc \in {"due", "activate", "book"} => r \in executions
  /\ req[r].pc \in {"activate", "book"} => r \in due
  /\ OneDay(r) /\ row[r] \in {"active", "ended"} /\ r \notin repaired =>
       r \in due \cap executions /\ order[r] = "filled"
  /\ row[r] = "reconcile_pending" => order[r] = "filled"
  /\ row[r] = "activation_failed" => r \notin due /\ (order[r] = "filled" => req[r].late)
  /\ req[r].pc = "done" /\ order[r] = "filled" =>
       row[r] \in {"active", "reconcile_pending", "ended"} \/ req[r].late \/ req[r].gaveUp

LocalInv(r) == QuoteKind(r) /\ OrderInv(r) /\ RowInv(r) /\ ReleaseInv(r) /\ BooksInv(r)

\* It is about nothing else.
LEMMA LocalFrame ==
  ASSUME NEW s \in Requests, LocalInv(s),
         req'[s].pc = req[s].pc, req'[s].quote = req[s].quote,
         req'[s].released = req[s].released, req'[s].gaveUp = req[s].gaveUp,
         req'[s].late = req[s].late, row'[s] = row[s], order'[s] = order[s],
         s \in executions' <=> s \in executions, s \in due' <=> s \in due,
         s \in repaired' <=> s \in repaired
  PROVE  LocalInv(s)'
<1>1. QuoteKind(s)'
  BY DEF LocalInv, QuoteKind
<1>2. OrderInv(s)'
  BY DEF LocalInv, OrderInv
<1>3. RowInv(s)'
  BY DEF LocalInv, RowInv
<1>4. ReleaseInv(s)'
  BY DEF LocalInv, ReleaseInv
<1>5. BooksInv(s)'
  BY DEF LocalInv, BooksInv, OneDay
<1> QED
  BY <1>1, <1>2, <1>3, <1>4, <1>5 DEF LocalInv

LEMMA LocalInit == Init => \A r \in Requests : LocalInv(r)
<1> SUFFICES ASSUME Init, NEW r \in Requests PROVE LocalInv(r)
  OBVIOUS
<1>1. /\ req[r].pc = "idle" /\ req[r].quote = NoQuote /\ ~req[r].released
      /\ ~req[r].gaveUp /\ ~req[r].late
      /\ row[r] = "absent" /\ order[r] = "none" /\ r \notin due
  BY DEF Init, Unsent
<1> QED
  BY <1>1
  DEF LocalInv, QuoteKind, OrderInv, RowInv, ReleaseInv, BooksInv, OneDayPc, TxPc, FillPc,
      BiweeklyPc, OverPc

\* Neither its row nor its order nor its books change.
Quiet(r) ==
  /\ row'[r] = row[r]
  /\ order'[r] = order[r]
  /\ (r \in executions' <=> r \in executions)
  /\ (r \in due' <=> r \in due)

\* A step of the handler keeps it for the request it handles.
LEMMA HandlerLocal ==
  ASSUME TypeOK, NEW r \in Requests, LocalInv(r), HandlerStep(r)
  PROVE  LocalInv(r)'
<1>0. repaired' = repaired
  BY OthersShape DEF OthersKept
<1>a. row \in [Requests -> RowStatus] /\ order \in [Requests -> OrderStatus]
  BY DEF TypeOK
<1>1. CASE LockQuote(r)
  <2>1. /\ req[r].pc = "lock"
        /\ StepTo(r, "budget", req[r].released, req[r].gaveUp, req[r].late)
        /\ Quiet(r)
    BY <1>1, GoToOK DEF LockQuote, At, books, Quiet, Pc, OneDayPc, TxPc, FillPc,
        BiweeklyPc, OverPc
  <2> QED
    BY <1>0, <2>1, QuotesAssumption
    DEF Quiet, StepTo, StepOf, LocalInv, QuoteKind, OrderInv,
        RowInv, ReleaseInv, BooksInv, OneDay, Pc, OneDayPc, TxPc, FillPc, BiweeklyPc,
        OverPc
<1>2. CASE Replay(r)
  <2>1. /\ req[r].pc = "lock"
        /\ StepTo(r, "done", req[r].released, req[r].gaveUp, req[r].late)
        /\ Quiet(r)
    BY <1>2, GoToOK DEF Replay, At, books, Quiet, Pc, OneDayPc, TxPc, FillPc, BiweeklyPc,
        OverPc
  <2> QED
    BY <1>0, <2>1, QuotesAssumption
    DEF Quiet, StepTo, StepOf, LocalInv, QuoteKind, OrderInv,
        RowInv, ReleaseInv, BooksInv, OneDay, Pc, OneDayPc, TxPc, FillPc, BiweeklyPc,
        OverPc
<1>3. CASE Refuse(r)
  <2>1. /\ req[r].pc \in TxPc
        /\ StepTo(r, "done", req[r].released, req[r].gaveUp, req[r].late)
        /\ Quiet(r)
    BY <1>3, GoToOK DEF Refuse, At, books, Quiet, Pc, OneDayPc, TxPc, FillPc, BiweeklyPc,
        OverPc
  <2> QED
    BY <1>0, <2>1, QuotesAssumption
    DEF Quiet, StepTo, StepOf, LocalInv, QuoteKind, OrderInv,
        RowInv, ReleaseInv, BooksInv, OneDay, Pc, OneDayPc, TxPc, FillPc, BiweeklyPc,
        OverPc
<1>4. CASE ReadBudget(r)
  <2>1. /\ req[r].pc = "budget"
        /\ \/ /\ StepTo(r, "aggregate", req[r].released, req[r].gaveUp, req[r].late)
              /\ Quiet(r)
           \/ /\ StepTo(r, "done", req[r].released, req[r].gaveUp, req[r].late)
              /\ Quiet(r)
    BY <1>4, GoToOK DEF ReadBudget, At, books, Quiet, Pc, OneDayPc, TxPc, FillPc,
        BiweeklyPc, OverPc
  <2> QED
    BY <1>0, <2>1, QuotesAssumption
    DEF Quiet, StepTo, StepOf, LocalInv, QuoteKind, OrderInv,
        RowInv, ReleaseInv, BooksInv, OneDay, Pc, OneDayPc, TxPc, FillPc, BiweeklyPc,
        OverPc
<1>5. CASE ReadAggregate(r)
  <2>1. /\ req[r].pc = "aggregate"
        /\ \/ /\ StepTo(r, "reserve", req[r].released, req[r].gaveUp, req[r].late)
              /\ Quiet(r)
           \/ /\ StepTo(r, "done", req[r].released, req[r].gaveUp, req[r].late)
              /\ Quiet(r)
    BY <1>5, GoToOK DEF ReadAggregate, At, books, Quiet, Pc, OneDayPc, TxPc, FillPc,
        BiweeklyPc, OverPc
  <2> QED
    BY <1>0, <2>1, QuotesAssumption
    DEF Quiet, StepTo, StepOf, LocalInv, QuoteKind, OrderInv,
        RowInv, ReleaseInv, BooksInv, OneDay, Pc, OneDayPc, TxPc, FillPc, BiweeklyPc,
        OverPc
<1>6. CASE ReserveCapacity(r)
  <2>1. /\ req[r].pc = "reserve"
        /\ StepTo(r, "insert", req[r].released, req[r].gaveUp, req[r].late)
        /\ Quiet(r)
    BY <1>6, ReservedOK DEF ReserveCapacity, At, books, Quiet, Pc, OneDayPc, TxPc,
        FillPc, BiweeklyPc, OverPc
  <2> QED
    BY <1>0, <2>1, QuotesAssumption
    DEF Quiet, StepTo, StepOf, LocalInv, QuoteKind, OrderInv,
        RowInv, ReleaseInv, BooksInv, OneDay, Pc, OneDayPc, TxPc, FillPc, BiweeklyPc,
        OverPc
<1>7. CASE CapacityExceeded(r)
  <2>1. /\ req[r].pc = "reserve"
        /\ StepTo(r, "done", req[r].released, req[r].gaveUp, req[r].late)
        /\ Quiet(r)
    BY <1>7, GoToOK DEF CapacityExceeded, At, books, Quiet, Pc, OneDayPc, TxPc, FillPc,
        BiweeklyPc, OverPc
  <2> QED
    BY <1>0, <2>1, QuotesAssumption
    DEF Quiet, StepTo, StepOf, LocalInv, QuoteKind, OrderInv,
        RowInv, ReleaseInv, BooksInv, OneDay, Pc, OneDayPc, TxPc, FillPc, BiweeklyPc,
        OverPc
<1>8. CASE InsertAndConsume(r)
  <2>1. /\ req[r].pc = "insert"
        /\ StepTo(r, "price", req[r].released, req[r].gaveUp, req[r].late)
        /\ row'[r] = "pending_activation"
        /\ order'[r] = order[r]
        /\ (r \in executions' <=> r \in executions)
        /\ (r \in due' <=> r \in due)
    BY <1>8, <1>a, GoToOK DEF InsertAndConsume, At, books, Quiet, Pc, OneDayPc, TxPc,
        FillPc, BiweeklyPc, OverPc
  <2> QED
    BY <1>0, <2>1, QuotesAssumption
    DEF Quiet, StepTo, StepOf, LocalInv, QuoteKind, OrderInv,
        RowInv, ReleaseInv, BooksInv, OneDay, Pc, OneDayPc, TxPc, FillPc, BiweeklyPc,
        OverPc
<1>9. CASE TransactionFails(r)
  <2>1. /\ req[r].pc \in TxPc
        /\ \/ /\ StepTo(r, "done", req[r].released, req[r].gaveUp, req[r].late)
              /\ Quiet(r)
           \/ /\ StepTo(r, "release", req[r].released, req[r].gaveUp, req[r].late)
              /\ Quiet(r)
    BY <1>9, GoToOK DEF TransactionFails, At, books, Quiet, Pc, OneDayPc, TxPc, FillPc,
        BiweeklyPc, OverPc
  <2> QED
    BY <1>0, <2>1, QuotesAssumption
    DEF Quiet, StepTo, StepOf, LocalInv, QuoteKind, OrderInv,
        RowInv, ReleaseInv, BooksInv, OneDay, Pc, OneDayPc, TxPc, FillPc, BiweeklyPc,
        OverPc
<1>10. CASE ReadPrice(r)
  <2>1. /\ req[r].pc = "price"
        /\ \/ /\ StepTo(r, "execute", req[r].released, req[r].gaveUp, req[r].late)
              /\ Quiet(r)
           \/ /\ StepTo(r, "release", req[r].released, req[r].gaveUp, req[r].late)
              /\ Quiet(r)
    BY <1>10, GoToOK DEF ReadPrice, At, books, Quiet, Pc, OneDayPc, TxPc, FillPc,
        BiweeklyPc, OverPc
  <2> QED
    BY <1>0, <2>1, QuotesAssumption
    DEF Quiet, StepTo, StepOf, LocalInv, QuoteKind, OrderInv,
        RowInv, ReleaseInv, BooksInv, OneDay, Pc, OneDayPc, TxPc, FillPc, BiweeklyPc,
        OverPc
<1>11. CASE CheckFill(r)
  <2>1. /\ req[r].pc = "check"
        /\ \/ /\ StepTo(r, "execution", req[r].released, req[r].gaveUp, req[r].late)
              /\ Quiet(r)
           \/ /\ StepTo(r, "reconcile", req[r].released, req[r].gaveUp, req[r].late)
              /\ Quiet(r)
    BY <1>11, GoToOK DEF CheckFill, At, books, Quiet, Pc, OneDayPc, TxPc, FillPc,
        BiweeklyPc, OverPc
  <2> QED
    BY <1>0, <2>1, QuotesAssumption
    DEF Quiet, StepTo, StepOf, LocalInv, QuoteKind, OrderInv,
        RowInv, ReleaseInv, BooksInv, OneDay, Pc, OneDayPc, TxPc, FillPc, BiweeklyPc,
        OverPc
<1>12. CASE InsertExecution(r)
  <2>1. /\ req[r].pc = "execution"
        /\ \/ /\ StepTo(r, "due", req[r].released, req[r].gaveUp, req[r].late)
              /\ row'[r] = row[r]
              /\ order'[r] = order[r]
              /\ r \in executions'
              /\ (r \in due' <=> r \in due)
           \/ /\ StepTo(r, "reconcile", req[r].released, req[r].gaveUp, req[r].late)
              /\ Quiet(r)
    BY <1>12, <1>a, GoToOK DEF InsertExecution, At, books, Quiet, Pc, OneDayPc, TxPc,
        FillPc, BiweeklyPc, OverPc
  <2> QED
    BY <1>0, <2>1, QuotesAssumption
    DEF Quiet, StepTo, StepOf, LocalInv, QuoteKind, OrderInv,
        RowInv, ReleaseInv, BooksInv, OneDay, Pc, OneDayPc, TxPc, FillPc, BiweeklyPc,
        OverPc
<1>13. CASE BookPremium(r)
  <2>1. /\ req[r].pc = "due"
        /\ \/ /\ StepTo(r, "activate", req[r].released, req[r].gaveUp, req[r].late)
              /\ row'[r] = row[r]
              /\ order'[r] = order[r]
              /\ (r \in executions' <=> r \in executions)
              /\ r \in due'
           \/ /\ StepTo(r, "reconcile", req[r].released, req[r].gaveUp, req[r].late)
              /\ Quiet(r)
    BY <1>13, <1>a, GoToOK DEF BookPremium, At, books, Quiet, Pc, OneDayPc, TxPc, FillPc,
        BiweeklyPc, OverPc
  <2> QED
    BY <1>0, <2>1, QuotesAssumption
    DEF Quiet, StepTo, StepOf, LocalInv, QuoteKind, OrderInv,
        RowInv, ReleaseInv, BooksInv, OneDay, Pc, OneDayPc, TxPc, FillPc, BiweeklyPc,
        OverPc
<1>14. CASE Activate(r)
  <2>1. /\ req[r].pc = "activate"
        /\ \/ /\ StepTo(r, "book", req[r].released, req[r].gaveUp, req[r].late)
              /\ row'[r] = "active"
              /\ order'[r] = order[r]
              /\ (r \in executions' <=> r \in executions)
              /\ (r \in due' <=> r \in due)
           \/ /\ StepTo(r, "reconcile", req[r].released, req[r].gaveUp, req[r].late)
              /\ Quiet(r)
    BY <1>14, <1>a, GoToOK DEF Activate, At, books, Quiet, Pc, OneDayPc, TxPc, FillPc,
        BiweeklyPc, OverPc
  <2> QED
    BY <1>0, <2>1, QuotesAssumption
    DEF Quiet, StepTo, StepOf, LocalInv, QuoteKind, OrderInv,
        RowInv, ReleaseInv, BooksInv, OneDay, Pc, OneDayPc, TxPc, FillPc, BiweeklyPc,
        OverPc
<1>15. CASE BookPool(r)
  <2>1. /\ req[r].pc = "book"
        /\ StepTo(r, "done", req[r].released, req[r].gaveUp, req[r].late)
        /\ Quiet(r)
    BY <1>15, GoToOK DEF BookPool, At, books, Quiet, Pc, OneDayPc, TxPc, FillPc,
        BiweeklyPc, OverPc
  <2> QED
    BY <1>0, <2>1, QuotesAssumption
    DEF Quiet, StepTo, StepOf, LocalInv, QuoteKind, OrderInv,
        RowInv, ReleaseInv, BooksInv, OneDay, Pc, OneDayPc, TxPc, FillPc, BiweeklyPc,
        OverPc
<1>16. CASE MarkReconcilePending(r)
  <2>1. /\ req[r].pc = "reconcile"
        /\ \/ /\ StepTo(r, "done", req[r].released, req[r].gaveUp, req[r].late)
              /\ row'[r] = "reconcile_pending"
              /\ order'[r] = order[r]
              /\ (r \in executions' <=> r \in executions)
              /\ (r \in due' <=> r \in due)
           \/ /\ StepTo(r, "done", req[r].released, TRUE, req[r].late)
              /\ Quiet(r)
    BY <1>16, <1>a, ClosingOK, GiveUpOK DEF MarkReconcilePending, At, books, Quiet, Pc,
        OneDayPc, TxPc, FillPc, BiweeklyPc, OverPc
  <2> QED
    BY <1>0, <2>1, QuotesAssumption
    DEF Quiet, StepTo, StepOf, LocalInv, QuoteKind, OrderInv,
        RowInv, ReleaseInv, BooksInv, OneDay, Pc, OneDayPc, TxPc, FillPc, BiweeklyPc,
        OverPc
<1>17. CASE ReleaseCapacity(r)
  <2>1. /\ req[r].pc = "release"
        /\ \/ /\ StepTo(r, "fail", TRUE, req[r].gaveUp, req[r].late)
              /\ Quiet(r)
           \/ /\ StepTo(r, "fail", req[r].released, TRUE, req[r].late)
              /\ Quiet(r)
    BY <1>17, ReleasedOK, GiveUpOK DEF ReleaseCapacity, At, books, Quiet, Pc, OneDayPc,
        TxPc, FillPc, BiweeklyPc, OverPc
  <2> QED
    BY <1>0, <2>1, QuotesAssumption
    DEF Quiet, StepTo, StepOf, LocalInv, QuoteKind, OrderInv,
        RowInv, ReleaseInv, BooksInv, OneDay, Pc, OneDayPc, TxPc, FillPc, BiweeklyPc,
        OverPc
<1>18. CASE MarkFailed(r)
  <2>1. /\ req[r].pc = "fail"
        /\ \/ /\ StepTo(r, "done", req[r].released, req[r].gaveUp, req[r].late)
              /\ row'[r] = IF row[r] = "absent" THEN "absent" ELSE "activation_failed"
              /\ order'[r] = order[r]
              /\ (r \in executions' <=> r \in executions)
              /\ (r \in due' <=> r \in due)
           \/ /\ StepTo(r, "done", req[r].released, TRUE, req[r].late)
              /\ Quiet(r)
    BY <1>18, <1>a, ClosingOK, GiveUpOK DEF MarkFailed, At, books, Quiet, Pc, OneDayPc,
        TxPc, FillPc, BiweeklyPc, OverPc
  <2> QED
    BY <1>0, <2>1, QuotesAssumption
    DEF Quiet, StepTo, StepOf, LocalInv, QuoteKind, OrderInv,
        RowInv, ReleaseInv, BooksInv, OneDay, Pc, OneDayPc, TxPc, FillPc, BiweeklyPc,
        OverPc
<1>19. CASE LookupQuote(r)
  <2>1. /\ req[r].pc = "lookup"
        /\ \/ /\ StepTo(r, "count", req[r].released, req[r].gaveUp, req[r].late)
              /\ Quiet(r)
           \/ /\ StepTo(r, "done", req[r].released, req[r].gaveUp, req[r].late)
              /\ Quiet(r)
    BY <1>19, GoToOK DEF LookupQuote, At, books, Quiet, Pc, OneDayPc, TxPc, FillPc,
        BiweeklyPc, OverPc
  <2> QED
    BY <1>0, <2>1, QuotesAssumption
    DEF Quiet, StepTo, StepOf, LocalInv, QuoteKind, OrderInv,
        RowInv, ReleaseInv, BooksInv, OneDay, Pc, OneDayPc, TxPc, FillPc, BiweeklyPc,
        OverPc
<1>20. CASE CountActivations(r)
  <2>1. /\ req[r].pc = "count"
        /\ \/ /\ StepTo(r, "bi budget", req[r].released, req[r].gaveUp, req[r].late)
              /\ Quiet(r)
           \/ /\ StepTo(r, "done", req[r].released, req[r].gaveUp, req[r].late)
              /\ Quiet(r)
    BY <1>20, GoToOK, UncountedOK DEF CountActivations, At, books, Quiet, Pc, OneDayPc,
        TxPc, FillPc, BiweeklyPc, OverPc
  <2> QED
    BY <1>0, <2>1, QuotesAssumption
    DEF Quiet, StepTo, StepOf, LocalInv, QuoteKind, OrderInv,
        RowInv, ReleaseInv, BooksInv, OneDay, Pc, OneDayPc, TxPc, FillPc, BiweeklyPc,
        OverPc
<1>21. CASE ReadBiweeklyBudget(r)
  <2>1. /\ req[r].pc = "bi budget"
        /\ \/ /\ StepTo(r, "bi execute", req[r].released, req[r].gaveUp, req[r].late)
              /\ Quiet(r)
           \/ /\ StepTo(r, "done", req[r].released, req[r].gaveUp, req[r].late)
              /\ Quiet(r)
    BY <1>21, GoToOK DEF ReadBiweeklyBudget, At, books, Quiet, Pc, OneDayPc, TxPc, FillPc,
        BiweeklyPc, OverPc
  <2> QED
    BY <1>0, <2>1, QuotesAssumption
    DEF Quiet, StepTo, StepOf, LocalInv, QuoteKind, OrderInv,
        RowInv, ReleaseInv, BooksInv, OneDay, Pc, OneDayPc, TxPc, FillPc, BiweeklyPc,
        OverPc
<1>22. CASE InsertBiweekly(r)
  <2>1. /\ req[r].pc = "bi insert"
        /\ \/ /\ StepTo(r, "bi execution", req[r].released, req[r].gaveUp, req[r].late)
              /\ row'[r] = "active"
              /\ order'[r] = order[r]
              /\ (r \in executions' <=> r \in executions)
              /\ (r \in due' <=> r \in due)
           \/ /\ StepTo(r, "done", req[r].released, TRUE, req[r].late)
              /\ Quiet(r)
    BY <1>22, <1>a, GoToOK, GiveUpOK DEF InsertBiweekly, At, books, Quiet, Pc, OneDayPc,
        TxPc, FillPc, BiweeklyPc, OverPc
  <2> QED
    BY <1>0, <2>1, QuotesAssumption
    DEF Quiet, StepTo, StepOf, LocalInv, QuoteKind, OrderInv,
        RowInv, ReleaseInv, BooksInv, OneDay, Pc, OneDayPc, TxPc, FillPc, BiweeklyPc,
        OverPc
<1>23. CASE InsertBiweeklyExecution(r)
  <2>1. /\ req[r].pc = "bi execution"
        /\ \/ /\ StepTo(r, "bi hydrate", req[r].released, req[r].gaveUp, req[r].late)
              /\ row'[r] = row[r]
              /\ order'[r] = order[r]
              /\ r \in executions'
              /\ (r \in due' <=> r \in due)
           \/ /\ StepTo(r, "bi hydrate", req[r].released, TRUE, req[r].late)
              /\ Quiet(r)
    BY <1>23, <1>a, GoToOK, GiveUpOK DEF InsertBiweeklyExecution, At, books, Quiet, Pc,
        OneDayPc, TxPc, FillPc, BiweeklyPc, OverPc
  <2> QED
    BY <1>0, <2>1, QuotesAssumption
    DEF Quiet, StepTo, StepOf, LocalInv, QuoteKind, OrderInv,
        RowInv, ReleaseInv, BooksInv, OneDay, Pc, OneDayPc, TxPc, FillPc, BiweeklyPc,
        OverPc
<1>24. CASE HydrateRow(r)
  <2>1. /\ req[r].pc = "bi hydrate"
        /\ \/ /\ StepTo(r, "bi consume", req[r].released, req[r].gaveUp, req[r].late)
              /\ Quiet(r)
           \/ /\ StepTo(r, "bi consume", req[r].released, TRUE, req[r].late)
              /\ Quiet(r)
    BY <1>24, GoToOK, GiveUpOK DEF HydrateRow, At, books, Quiet, Pc, OneDayPc, TxPc,
        FillPc, BiweeklyPc, OverPc
  <2> QED
    BY <1>0, <2>1, QuotesAssumption
    DEF Quiet, StepTo, StepOf, LocalInv, QuoteKind, OrderInv,
        RowInv, ReleaseInv, BooksInv, OneDay, Pc, OneDayPc, TxPc, FillPc, BiweeklyPc,
        OverPc
<1>25. CASE ConsumeAfterwards(r)
  <2>1. /\ req[r].pc = "bi consume"
        /\ \/ /\ StepTo(r, "done", req[r].released, req[r].gaveUp, req[r].late)
              /\ Quiet(r)
           \/ /\ StepTo(r, "done", req[r].released, TRUE, req[r].late)
              /\ Quiet(r)
    BY <1>25, GoToOK, GiveUpOK DEF ConsumeAfterwards, At, books, Quiet, Pc, OneDayPc,
        TxPc, FillPc, BiweeklyPc, OverPc
  <2> QED
    BY <1>0, <2>1, QuotesAssumption
    DEF Quiet, StepTo, StepOf, LocalInv, QuoteKind, OrderInv,
        RowInv, ReleaseInv, BooksInv, OneDay, Pc, OneDayPc, TxPc, FillPc, BiweeklyPc,
        OverPc
<1>26. CASE SendOrder(r)
  <2>1. /\ req[r].pc \in {"execute", "bi execute"}
        /\ StepTo(r, req[r].pc, req[r].released, req[r].gaveUp, req[r].late)
        /\ row'[r] = row[r]
        /\ order'[r] = "working"
        /\ (r \in executions' <=> r \in executions)
        /\ (r \in due' <=> r \in due)
    BY <1>26, <1>a, WaitingOK DEF SendOrder, At, books, Quiet, Pc, OneDayPc, TxPc, FillPc,
        BiweeklyPc, OverPc
  <2> QED
    BY <1>0, <2>1, QuotesAssumption
    DEF Quiet, StepTo, StepOf, LocalInv, QuoteKind, OrderInv,
        RowInv, ReleaseInv, BooksInv, OneDay, Pc, OneDayPc, TxPc, FillPc, BiweeklyPc,
        OverPc
<1>27. CASE \E outcome \in {"filled", "rejected"} : OrderAnswered(r, outcome)
  <2> PICK outcome \in {"filled", "rejected"} : OrderAnswered(r, outcome)
    BY <1>27
  <2>1. req[r].pc \in {"execute", "bi execute"} /\ AfterOrder(r, outcome) \in Pc
    BY DEF OrderAnswered, AfterOrder, Pc, OneDayPc, TxPc, FillPc, BiweeklyPc, OverPc
  <2>2. /\ StepTo(r, AfterOrder(r, outcome), req[r].released, req[r].gaveUp, req[r].late)
        /\ row'[r] = row[r]
        /\ order'[r] = outcome
        /\ (r \in executions' <=> r \in executions)
        /\ (r \in due' <=> r \in due)
    BY <1>a, <2>1, GoToOK DEF OrderAnswered, books
  <2>3. /\ OneDay(r) <=> req[r].pc = "execute"
        /\ Biweekly(r) <=> req[r].pc = "bi execute"
    BY <2>1, QuotesAssumption
    DEF LocalInv, QuoteKind, OneDay, Biweekly, OneDayPc, BiweeklyPc
  <2>4. /\ req[r].pc = "execute" => AfterOrder(r, outcome) = IF outcome = "filled" THEN "check"
                                                           ELSE "release"
        /\ req[r].pc = "bi execute" => AfterOrder(r, outcome) = IF outcome = "filled" THEN "bi insert"
                                                              ELSE "done"
    BY <2>3, QuotesAssumption DEF AfterOrder, OneDay, Biweekly, Quotes
  <2>5. CASE req[r].pc = "execute" /\ outcome = "filled"
    <3>1. StepTo(r, "check", req[r].released, req[r].gaveUp, req[r].late)
      BY <2>2, <2>4, <2>5
    <3> QED
      BY <1>0, <2>2, <2>3, <2>5, <3>1
      DEF StepTo, StepOf, LocalInv, QuoteKind, OrderInv, RowInv, ReleaseInv, BooksInv, OneDay,
          OneDayPc, TxPc, FillPc, BiweeklyPc, OverPc
  <2>6. CASE req[r].pc = "execute" /\ outcome = "rejected"
    <3>1. StepTo(r, "release", req[r].released, req[r].gaveUp, req[r].late)
      BY <2>2, <2>4, <2>6
    <3> QED
      BY <1>0, <2>2, <2>3, <2>6, <3>1
      DEF StepTo, StepOf, LocalInv, QuoteKind, OrderInv, RowInv, ReleaseInv, BooksInv, OneDay,
          OneDayPc, TxPc, FillPc, BiweeklyPc, OverPc
  <2>7. CASE req[r].pc = "bi execute" /\ outcome = "filled"
    <3>1. StepTo(r, "bi insert", req[r].released, req[r].gaveUp, req[r].late)
      BY <2>2, <2>4, <2>7
    <3> QED
      BY <1>0, <2>2, <2>3, <2>7, <3>1
      DEF StepTo, StepOf, LocalInv, QuoteKind, OrderInv, RowInv, ReleaseInv, BooksInv, OneDay,
          OneDayPc, TxPc, FillPc, BiweeklyPc, OverPc
  <2>8. CASE req[r].pc = "bi execute" /\ outcome = "rejected"
    <3>1. StepTo(r, "done", req[r].released, req[r].gaveUp, req[r].late)
      BY <2>2, <2>4, <2>8
    <3> QED
      BY <1>0, <2>2, <2>3, <2>8, <3>1
      DEF StepTo, StepOf, LocalInv, QuoteKind, OrderInv, RowInv, ReleaseInv, BooksInv, OneDay,
          OneDayPc, TxPc, FillPc, BiweeklyPc, OverPc
  <2> QED
    BY <2>1, <2>5, <2>6, <2>7, <2>8
<1>28. CASE OrderTimesOut(r)
  <2>1. /\ req[r].pc \in {"execute", "bi execute"} /\ order[r] = "working"
        /\ Quiet(r)
    BY <1>28 DEF OrderTimesOut, Quiet, books
  <2>2. CASE OneDay(r)
    <3>1. StepTo(r, "release", req[r].released, req[r].gaveUp, TRUE)
      BY <1>28, <2>2, TimedOutOK DEF OrderTimesOut, Pc, OneDayPc
    <3>2. req[r].pc = "execute"
      BY <2>1, <2>2, QuotesAssumption DEF LocalInv, QuoteKind, OneDay, BiweeklyPc
    <3> QED
      BY <1>0, <2>1, <3>1, <3>2
      DEF Quiet, StepTo, StepOf, LocalInv, QuoteKind, OrderInv, RowInv, ReleaseInv, BooksInv,
          OneDay, Pc, OneDayPc, TxPc, FillPc, BiweeklyPc, OverPc
  <2>3. CASE ~OneDay(r)
    <3>1. StepTo(r, "done", req[r].released, req[r].gaveUp, TRUE)
      BY <1>28, <2>3, TimedOutOK DEF OrderTimesOut, Pc, OverPc
    <3>2. req[r].pc = "bi execute"
      BY <2>1, <2>3 DEF LocalInv, QuoteKind, OneDay, OneDayPc
    <3> QED
      BY <1>0, <2>1, <2>3, <3>1, <3>2
      DEF Quiet, StepTo, StepOf, LocalInv, QuoteKind, OrderInv, RowInv, ReleaseInv, BooksInv,
          OneDay, Pc, OneDayPc, TxPc, FillPc, BiweeklyPc, OverPc
  <2> QED
    BY <2>2, <2>3
<1> QED
  BY <1>1, <1>2, <1>3, <1>4, <1>5, <1>6, <1>7, <1>8, <1>9, <1>10, <1>11, <1>12, <1>13,
      <1>14, <1>15, <1>16, <1>17, <1>18, <1>19, <1>20, <1>21, <1>22, <1>23, <1>24,
      <1>25, <1>26, <1>27, <1>28 DEF HandlerStep, OneDayStep, BiweeklyStep, VenueStep

LEMMA LocalStep ==
  ASSUME TypeOK, \A r \in Requests : LocalInv(r), [Next]_vars
  PROVE  \A r \in Requests : LocalInv(r)'
<1>1. CASE UNCHANGED vars
  BY <1>1, LocalFrame DEF vars, books
<1>2. CASE AllOver
  BY <1>1, <1>2 DEF AllOver
<1>3. ASSUME NEW r \in Requests, NEW q \in Quotes, Arrive(r, q)
      PROVE  \A s \in Requests : LocalInv(s)'
  <2>1. UNCHANGED <<row, order, executions, due, repaired>> /\ req[r].pc = "idle"
    BY <1>3 DEF Arrive, At, books
  <2>2. LocalInv(r)'
    <3>1. /\ row[r] = "absent" /\ order[r] = "none" /\ r \notin due
      BY <2>1 DEF LocalInv, RowInv, OrderInv, BooksInv, OverPc
    <3>2. /\ req'[r].pc = IF q \in OneDayQuotes THEN "lock" ELSE "lookup"
          /\ req'[r].quote = q
          /\ ~req'[r].released /\ ~req'[r].late
      BY <1>3, ArriveOK
    <3> QED
      BY <2>1, <3>1, <3>2, QuotesAssumption
      DEF Quotes, LocalInv, QuoteKind, OrderInv, RowInv, ReleaseInv, BooksInv, OneDayPc, TxPc,
          FillPc, BiweeklyPc, OverPc
  <2>3. \A s \in Requests \ {r} : LocalInv(s)'
    BY <1>3, <2>1, ArriveOK, LocalFrame
  <2> QED
    BY <2>2, <2>3
<1>4. ASSUME NEW r \in Requests, HandlerStep(r)
      PROVE  \A s \in Requests : LocalInv(s)'
  <2>1. StepOf(r) /\ OthersKept(r)
    BY <1>4, HandlerShape, OthersShape
  <2>2. \A s \in Requests \ {r} : LocalInv(s)'
    BY <2>1, LocalFrame DEF StepOf, OthersKept
  <2> QED
    BY <1>4, <2>2, HandlerLocal
<1>5. ASSUME NEW r \in Requests, NEW outcome \in {"filled", "rejected"},
             OrderSettlesLate(r, outcome)
      PROVE  \A s \in Requests : LocalInv(s)'
  <2>1. UNCHANGED <<req, row, executions, due, repaired>> /\ order[r] = "working"
        /\ req[r].pc \notin {"execute", "bi execute"}
        /\ order' = [order EXCEPT ![r] = outcome]
    BY <1>5 DEF OrderSettlesLate, books
  <2>2. LocalInv(r)'
    <3>0. /\ req'[r] = req[r] /\ row'[r] = row[r] /\ order'[r] = outcome
          /\ (r \in executions' <=> r \in executions) /\ (r \in due' <=> r \in due)
          /\ (r \in repaired' <=> r \in repaired)
      BY <2>1 DEF TypeOK
    <3>a. req[r].pc \in Pc
      BY DEF TypeOK, Handler
    <3>b. OrderInv(r)
      BY DEF LocalInv
    <3>1. req[r].late \/ req[r].pc = "lost"
      BY <2>1, <3>a, <3>b DEF OrderInv, Pc, OneDayPc, TxPc, FillPc, BiweeklyPc, OverPc
    <3>2. QuoteKind(r)'
      BY <3>0 DEF LocalInv, QuoteKind
    <3>3. OrderInv(r)'
      BY <2>1, <3>0, <3>1 DEF LocalInv, OrderInv, TxPc, FillPc
    <3>4. RowInv(r)'
      BY <3>0 DEF LocalInv, RowInv
    <3>5. ReleaseInv(r)'
      BY <3>0 DEF LocalInv, ReleaseInv
    <3>6. BooksInv(r)'
      BY <2>1, <3>0, <3>1 DEF LocalInv, RowInv, BooksInv, OneDay
    <3> QED
      BY <3>2, <3>3, <3>4, <3>5, <3>6 DEF LocalInv
  <2>3. \A s \in Requests \ {r} : LocalInv(s)'
    BY <2>1, LocalFrame DEF TypeOK
  <2> QED
    BY <2>2, <2>3
<1>6. ASSUME NEW r \in Requests, EndProtection(r)
      PROVE  \A s \in Requests : LocalInv(s)'
  <2>1. UNCHANGED <<order, executions, due, repaired>> /\ row[r] = "active"
        /\ row' = [row EXCEPT ![r] = "ended"]
    BY <1>6 DEF EndProtection, books
  <2>2. \A s \in Requests : /\ req'[s].pc = req[s].pc /\ req'[s].quote = req[s].quote
                            /\ req'[s].released = req[s].released
                            /\ req'[s].gaveUp = req[s].gaveUp /\ req'[s].late = req[s].late
    BY <1>6, EndOK DEF EndProtection
  <2>3. LocalInv(r)'
    <3>1. row'[r] = "ended" /\ order'[r] = order[r]
      BY <2>1 DEF TypeOK
    <3>2. QuoteKind(r)'
      BY <2>2 DEF LocalInv, QuoteKind
    <3>3. OrderInv(r)'
      BY <2>2, <3>1 DEF LocalInv, OrderInv
    <3>4. RowInv(r)'
      BY <2>1, <2>2, <3>1 DEF LocalInv, RowInv
    <3>5. ReleaseInv(r)'
      BY <2>1, <2>2, <3>1 DEF LocalInv, ReleaseInv
    <3>6. BooksInv(r)'
      BY <2>1, <2>2, <3>1 DEF LocalInv, BooksInv, OneDay
    <3> QED
      BY <3>2, <3>3, <3>4, <3>5, <3>6 DEF LocalInv
  <2>4. \A s \in Requests \ {r} : LocalInv(s)'
    BY <2>1, <2>2, LocalFrame DEF TypeOK
  <2> QED
    BY <2>3, <2>4
<1>7. ASSUME NEW r \in Requests, ReconcileOrphan(r)
      PROVE  \A s \in Requests : LocalInv(s)'
  <2>1. UNCHANGED <<req, order, executions, due>> /\ row[r] # "absent" /\ order[r] = "filled"
        /\ row' = [row EXCEPT ![r] = "active"] /\ repaired' = repaired \cup {r}
    BY <1>7 DEF ReconcileOrphan, books
  <2>3. LocalInv(r)'
    <3>1. row'[r] = "active" /\ order'[r] = "filled" /\ r \in repaired' /\ req'[r] = req[r]
      BY <2>1 DEF TypeOK
    <3>2. QuoteKind(r)'
      BY <2>1 DEF LocalInv, QuoteKind
    <3>3. OrderInv(r)'
      BY <2>1 DEF LocalInv, OrderInv
    <3>4. RowInv(r)'
      BY <2>1, <3>1 DEF LocalInv, RowInv, TxPc
    <3>5. ReleaseInv(r)'
      BY <2>1, <3>1 DEF LocalInv, ReleaseInv
    <3>6. BooksInv(r)'
      BY <2>1, <3>1 DEF LocalInv, BooksInv, OneDay
    <3> QED
      BY <3>2, <3>3, <3>4, <3>5, <3>6 DEF LocalInv
  <2>4. \A s \in Requests \ {r} : LocalInv(s)'
    BY <2>1, LocalFrame DEF TypeOK
  <2> QED
    BY <2>3, <2>4
<1>8. CASE Restart
  <2> SUFFICES ASSUME NEW s \in Requests PROVE LocalInv(s)'
    OBVIOUS
  <2>1. UNCHANGED <<row, order, executions, due, repaired>>
    BY <1>8 DEF Restart, books
  <2>2. /\ req'[s].pc = IF UnderWay(s) THEN "lost" ELSE req[s].pc
        /\ req'[s].quote = req[s].quote /\ req'[s].released = req[s].released
        /\ req'[s].gaveUp = req[s].gaveUp /\ req'[s].late = req[s].late
    BY <1>8, RestartOK
  <2>3. CASE UnderWay(s)
    BY <2>1, <2>2, <2>3
    DEF UnderWay, LocalInv, QuoteKind, OrderInv, RowInv, ReleaseInv, BooksInv, OneDay,
        Pc, OneDayPc, TxPc, FillPc, BiweeklyPc, OverPc
  <2>4. CASE ~UnderWay(s)
    BY <2>1, <2>2, <2>4, LocalFrame
  <2> QED
    BY <2>3, <2>4
<1> QED
  BY <1>1, <1>2, <1>3, <1>4, <1>5, <1>6, <1>7, <1>8 DEF Next


LEMMA LocalHedges ==
  ASSUME \A r \in Requests : LocalInv(r)
  PROVE  HedgeAccounted
  BY DEF HedgeAccounted, LocalInv, BooksInv, At

\* Whoever fills an order, fails a statement, restarts or repairs: a filled
\* order belongs to a protection, or a named failure explains why not, a
\* protection has its premium and execution booked, and a failed activation
\* owes nothing.
THEOREM HedgesAccounted == Spec => []HedgeAccounted
<1> DEFINE Inv == TypeOK /\ \A r \in Requests : LocalInv(r)
<1>1. Init => Inv
  BY InitTypeOK, LocalInit
<1>2. Inv /\ [Next]_vars => Inv'
  BY StepTypeOK, LocalStep
<1>3. Inv => HedgeAccounted
  BY LocalHedges
<1> QED
  BY <1>1, <1>2, <1>3, PTL DEF Spec

-----------------------------------------------------------------------------
(* What the caps were tested against.                                      *)

\* Between the test of a cap and the statement it lets through.
AggregatePc == {"reserve", "insert", "price"}
BudgetPc    == AggregatePc \cup {"aggregate", "execute", "bi execute"}
CountPc     == {"bi budget", "bi execute", "bi insert"}

\* What r noted when it was sent is still there, and left room when it was tested.
CapsInv(r) ==
  /\ req[r].open \subseteq Open
  /\ req[r].spent \subseteq executions
  /\ req[r].rows \subseteq Stored
  /\ req[r].pc \in AggregatePc => Cardinality(req[r].open) + 1 <= AggregateCap
  /\ req[r].pc \in BudgetPc => Cardinality(req[r].spent) + 1 <= HedgeCap
  /\ req[r].pc \in CountPc => req[r].rows = {}

\* What a step of r does to what others noted: executions and rows stay, and a
\* row that is closed is taken off the notes.
Grown(r) ==
  /\ executions \subseteq executions'
  /\ row[r] # "absent" => row'[r] # "absent"
  /\ row[r] \in OpenStatus =>
       row'[r] \in OpenStatus \/ \A s \in Requests : r \notin req'[s].open

LEMMA HandlerGrown ==
  ASSUME TypeOK, NEW r \in Requests, HandlerStep(r)
  PROVE  Grown(r)
<1>0. row \in [Requests -> RowStatus]
  BY DEF TypeOK
<1>1. CASE LockQuote(r)
  BY <1>1, <1>0 DEF LockQuote, Grown, OpenStatus, books
<1>2. CASE Replay(r)
  BY <1>2, <1>0 DEF Replay, Grown, OpenStatus, books
<1>3. CASE Refuse(r)
  BY <1>3, <1>0 DEF Refuse, Grown, OpenStatus, books
<1>4. CASE ReadBudget(r)
  BY <1>4, <1>0 DEF ReadBudget, Grown, OpenStatus, books
<1>5. CASE ReadAggregate(r)
  BY <1>5, <1>0 DEF ReadAggregate, Grown, OpenStatus, books
<1>6. CASE ReserveCapacity(r)
  BY <1>6, <1>0 DEF ReserveCapacity, Grown, OpenStatus, books
<1>7. CASE CapacityExceeded(r)
  BY <1>7, <1>0 DEF CapacityExceeded, Grown, OpenStatus, books
<1>8. CASE InsertAndConsume(r)
  BY <1>8, <1>0 DEF InsertAndConsume, Grown, OpenStatus, books
<1>9. CASE TransactionFails(r)
  BY <1>9, <1>0 DEF TransactionFails, Grown, OpenStatus, books
<1>10. CASE ReadPrice(r)
  BY <1>10, <1>0 DEF ReadPrice, Grown, OpenStatus, books
<1>11. CASE CheckFill(r)
  BY <1>11, <1>0 DEF CheckFill, Grown, OpenStatus, books
<1>12. CASE InsertExecution(r)
  BY <1>12, <1>0 DEF InsertExecution, Grown, OpenStatus, books
<1>13. CASE BookPremium(r)
  BY <1>13, <1>0 DEF BookPremium, Grown, OpenStatus, books
<1>14. CASE Activate(r)
  BY <1>14, <1>0 DEF Activate, Grown, OpenStatus, books
<1>15. CASE BookPool(r)
  BY <1>15, <1>0 DEF BookPool, Grown, OpenStatus, books
<1>16. CASE MarkReconcilePending(r)
  BY <1>16, <1>0, ClosingOK DEF MarkReconcilePending, Grown, OpenStatus, books
<1>17. CASE ReleaseCapacity(r)
  BY <1>17, <1>0 DEF ReleaseCapacity, Grown, OpenStatus, books
<1>18. CASE MarkFailed(r)
  BY <1>18, <1>0, ClosingOK DEF MarkFailed, Grown, OpenStatus, books
<1>19. CASE LookupQuote(r)
  BY <1>19, <1>0 DEF LookupQuote, Grown, OpenStatus, books
<1>20. CASE CountActivations(r)
  BY <1>20, <1>0 DEF CountActivations, Grown, OpenStatus, books
<1>21. CASE ReadBiweeklyBudget(r)
  BY <1>21, <1>0 DEF ReadBiweeklyBudget, Grown, OpenStatus, books
<1>22. CASE InsertBiweekly(r)
  BY <1>22, <1>0 DEF InsertBiweekly, Grown, OpenStatus, books
<1>23. CASE InsertBiweeklyExecution(r)
  BY <1>23, <1>0 DEF InsertBiweeklyExecution, Grown, OpenStatus, books
<1>24. CASE HydrateRow(r)
  BY <1>24, <1>0 DEF HydrateRow, Grown, OpenStatus, books
<1>25. CASE ConsumeAfterwards(r)
  BY <1>25, <1>0 DEF ConsumeAfterwards, Grown, OpenStatus, books
<1>26. CASE SendOrder(r)
  BY <1>26, <1>0 DEF SendOrder, Grown, OpenStatus, books
<1>27. CASE \E outcome \in {"filled", "rejected"} : OrderAnswered(r, outcome)
  BY <1>27, <1>0 DEF OrderAnswered, AfterOrder, OneDay, Biweekly, Grown, OpenStatus,
      books
<1>28. CASE OrderTimesOut(r)
  BY <1>28, <1>0 DEF OrderTimesOut, OneDay, Grown, OpenStatus, books
<1> QED
  BY <1>1, <1>2, <1>3, <1>4, <1>5, <1>6, <1>7, <1>8, <1>9, <1>10, <1>11, <1>12, <1>13,
      <1>14, <1>15, <1>16, <1>17, <1>18, <1>19, <1>20, <1>21, <1>22, <1>23, <1>24,
      <1>25, <1>26, <1>27, <1>28 DEF HandlerStep, OneDayStep, BiweeklyStep, VenueStep

\* A handler enters these places only by a test.
TestedStep(r) ==
  /\ req'[r].pc \in AggregatePc =>
         req[r].pc \in AggregatePc \/ Cardinality(Open) + 1 <= AggregateCap
  /\ req'[r].pc \in BudgetPc =>
         req[r].pc \in BudgetPc \/ Cardinality(executions) + 1 <= HedgeCap
  /\ req'[r].pc \in CountPc => req[r].pc \in CountPc \/ Stored = {} \/ req'[r].rows = {}

LEMMA HandlerTested ==
  ASSUME TypeOK, NEW r \in Requests, LocalInv(r), HandlerStep(r)
  PROVE  TestedStep(r)
<1>1. CASE LockQuote(r)
  <2>1. req[r].pc = "lock" /\ req'[r].pc = "budget"
    BY <1>1, GoToOK DEF LockQuote, At, StepTo, Pc, OneDayPc, TxPc, FillPc, BiweeklyPc,
        OverPc
  <2> QED
    BY <2>1 DEF TestedStep, AggregatePc, BudgetPc, CountPc
<1>2. CASE Replay(r)
  <2>1. req[r].pc = "lock" /\ req'[r].pc = "done"
    BY <1>2, GoToOK DEF Replay, At, StepTo, Pc, OneDayPc, TxPc, FillPc, BiweeklyPc,
        OverPc
  <2> QED
    BY <2>1 DEF TestedStep, AggregatePc, BudgetPc, CountPc
<1>3. CASE Refuse(r)
  <2>1. req[r].pc \in TxPc /\ req'[r].pc = "done"
    BY <1>3, GoToOK DEF Refuse, At, StepTo, Pc, OneDayPc, TxPc, FillPc, BiweeklyPc,
        OverPc
  <2> QED
    BY <2>1 DEF TestedStep, AggregatePc, BudgetPc, CountPc, TxPc
<1>4. CASE ReadBudget(r)
  <2>1. req[r].pc = "budget" /\ req'[r].pc \in {"aggregate", "done"}
    BY <1>4, GoToOK DEF ReadBudget, At, StepTo, Pc, OneDayPc, TxPc, FillPc, BiweeklyPc,
        OverPc
  <2>2. ASSUME ~(Cardinality(executions) + 1 <= HedgeCap) PROVE req'[r].pc = "done"
    <3>1. GoTo(r, "done")
      BY <1>4, <2>2 DEF ReadBudget, WithinBudget
    <3> QED
      BY <3>1, GoToOK DEF StepTo, Pc, OverPc
  <2> QED
    BY <2>1, <2>2 DEF TestedStep, AggregatePc, BudgetPc, CountPc
<1>5. CASE ReadAggregate(r)
  <2>1. req[r].pc = "aggregate" /\ req'[r].pc \in {"reserve", "done"}
    BY <1>5, GoToOK DEF ReadAggregate, At, StepTo, Pc, OneDayPc, TxPc, FillPc,
        BiweeklyPc, OverPc
  <2>2. ASSUME ~(Cardinality(Open) + 1 <= AggregateCap) PROVE req'[r].pc = "done"
    <3>1. GoTo(r, "done")
      BY <1>5, <2>2 DEF ReadAggregate, WithinAggregate
    <3> QED
      BY <3>1, GoToOK DEF StepTo, Pc, OverPc
  <2> QED
    BY <2>1, <2>2 DEF TestedStep, AggregatePc, BudgetPc, CountPc
<1>6. CASE ReserveCapacity(r)
  <2>1. req[r].pc = "reserve" /\ req'[r].pc = "insert"
    BY <1>6, ReservedOK DEF ReserveCapacity, At, StepTo, Pc, OneDayPc, TxPc, FillPc,
        BiweeklyPc, OverPc
  <2> QED
    BY <2>1 DEF TestedStep, AggregatePc, BudgetPc, CountPc
<1>7. CASE CapacityExceeded(r)
  <2>1. req[r].pc = "reserve" /\ req'[r].pc = "done"
    BY <1>7, GoToOK DEF CapacityExceeded, At, StepTo, Pc, OneDayPc, TxPc, FillPc,
        BiweeklyPc, OverPc
  <2> QED
    BY <2>1 DEF TestedStep, AggregatePc, BudgetPc, CountPc
<1>8. CASE InsertAndConsume(r)
  <2>1. req[r].pc = "insert" /\ req'[r].pc = "price"
    BY <1>8, GoToOK DEF InsertAndConsume, At, StepTo, Pc, OneDayPc, TxPc, FillPc,
        BiweeklyPc, OverPc
  <2> QED
    BY <2>1 DEF TestedStep, AggregatePc, BudgetPc, CountPc
<1>9. CASE TransactionFails(r)
  <2>1. req[r].pc \in TxPc /\ req'[r].pc \in {"done", "release"}
    BY <1>9, GoToOK DEF TransactionFails, At, StepTo, Pc, OneDayPc, TxPc, FillPc,
        BiweeklyPc, OverPc
  <2> QED
    BY <2>1 DEF TestedStep, AggregatePc, BudgetPc, CountPc, TxPc
<1>10. CASE ReadPrice(r)
  <2>1. req[r].pc = "price" /\ req'[r].pc \in {"execute", "release"}
    BY <1>10, GoToOK DEF ReadPrice, At, StepTo, Pc, OneDayPc, TxPc, FillPc, BiweeklyPc,
        OverPc
  <2> QED
    BY <2>1 DEF TestedStep, AggregatePc, BudgetPc, CountPc
<1>11. CASE CheckFill(r)
  <2>1. req[r].pc = "check" /\ req'[r].pc \in {"execution", "reconcile"}
    BY <1>11, GoToOK DEF CheckFill, At, StepTo, Pc, OneDayPc, TxPc, FillPc, BiweeklyPc,
        OverPc
  <2> QED
    BY <2>1 DEF TestedStep, AggregatePc, BudgetPc, CountPc
<1>12. CASE InsertExecution(r)
  <2>1. req[r].pc = "execution" /\ req'[r].pc \in {"due", "reconcile"}
    BY <1>12, GoToOK DEF InsertExecution, At, StepTo, Pc, OneDayPc, TxPc, FillPc,
        BiweeklyPc, OverPc
  <2> QED
    BY <2>1 DEF TestedStep, AggregatePc, BudgetPc, CountPc
<1>13. CASE BookPremium(r)
  <2>1. req[r].pc = "due" /\ req'[r].pc \in {"activate", "reconcile"}
    BY <1>13, GoToOK DEF BookPremium, At, StepTo, Pc, OneDayPc, TxPc, FillPc, BiweeklyPc,
        OverPc
  <2> QED
    BY <2>1 DEF TestedStep, AggregatePc, BudgetPc, CountPc
<1>14. CASE Activate(r)
  <2>1. req[r].pc = "activate" /\ req'[r].pc \in {"book", "reconcile"}
    BY <1>14, GoToOK DEF Activate, At, StepTo, Pc, OneDayPc, TxPc, FillPc, BiweeklyPc,
        OverPc
  <2> QED
    BY <2>1 DEF TestedStep, AggregatePc, BudgetPc, CountPc
<1>15. CASE BookPool(r)
  <2>1. req[r].pc = "book" /\ req'[r].pc = "done"
    BY <1>15, GoToOK DEF BookPool, At, StepTo, Pc, OneDayPc, TxPc, FillPc, BiweeklyPc,
        OverPc
  <2> QED
    BY <2>1 DEF TestedStep, AggregatePc, BudgetPc, CountPc
<1>16. CASE MarkReconcilePending(r)
  <2>1. req[r].pc = "reconcile" /\ req'[r].pc = "done"
    BY <1>16, ClosingOK, GiveUpOK DEF MarkReconcilePending, At, StepTo, Pc, OneDayPc,
        TxPc, FillPc, BiweeklyPc, OverPc
  <2> QED
    BY <2>1 DEF TestedStep, AggregatePc, BudgetPc, CountPc
<1>17. CASE ReleaseCapacity(r)
  <2>1. req[r].pc = "release" /\ req'[r].pc = "fail"
    BY <1>17, ReleasedOK, GiveUpOK DEF ReleaseCapacity, At, StepTo, Pc, OneDayPc, TxPc,
        FillPc, BiweeklyPc, OverPc
  <2> QED
    BY <2>1 DEF TestedStep, AggregatePc, BudgetPc, CountPc
<1>18. CASE MarkFailed(r)
  <2>1. req[r].pc = "fail" /\ req'[r].pc = "done"
    BY <1>18, ClosingOK, GiveUpOK DEF MarkFailed, At, StepTo, Pc, OneDayPc, TxPc, FillPc,
        BiweeklyPc, OverPc
  <2> QED
    BY <2>1 DEF TestedStep, AggregatePc, BudgetPc, CountPc
<1>19. CASE LookupQuote(r)
  <2>1. req[r].pc = "lookup" /\ req'[r].pc \in {"count", "done"}
    BY <1>19, GoToOK DEF LookupQuote, At, StepTo, Pc, OneDayPc, TxPc, FillPc, BiweeklyPc,
        OverPc
  <2> QED
    BY <2>1 DEF TestedStep, AggregatePc, BudgetPc, CountPc
<1>20. CASE CountActivations(r)
  <2>1. req[r].pc = "count" /\ req'[r].pc \in {"bi budget", "done"}
    BY <1>20, GoToOK, UncountedOK DEF CountActivations, At, StepTo, Pc, OneDayPc, TxPc,
        FillPc, BiweeklyPc, OverPc
  <2>2. ASSUME Stored # {} PROVE req'[r].pc = "done" \/ req'[r].rows = {}
    <3>1. GoTo(r, "done") \/ req' = [req EXCEPT ![r].pc = "bi budget", ![r].rows = {}]
      BY <1>20, <2>2 DEF CountActivations
    <3> QED
      BY <3>1, GoToOK, UncountedOK DEF StepTo, Pc, OverPc
  <2> QED
    BY <2>1, <2>2 DEF TestedStep, AggregatePc, BudgetPc, CountPc
<1>21. CASE ReadBiweeklyBudget(r)
  <2>1. req[r].pc = "bi budget" /\ req'[r].pc \in {"bi execute", "done"}
    BY <1>21, GoToOK DEF ReadBiweeklyBudget, At, StepTo, Pc, OneDayPc, TxPc, FillPc,
        BiweeklyPc, OverPc
  <2>2. ASSUME ~(Cardinality(executions) + 1 <= HedgeCap) PROVE req'[r].pc = "done"
    <3>1. GoTo(r, "done")
      BY <1>21, <2>2 DEF ReadBiweeklyBudget, WithinBudget
    <3> QED
      BY <3>1, GoToOK DEF StepTo, Pc, OverPc
  <2> QED
    BY <2>1, <2>2 DEF TestedStep, AggregatePc, BudgetPc, CountPc
<1>22. CASE InsertBiweekly(r)
  <2>1. req[r].pc = "bi insert" /\ req'[r].pc \in {"bi execution", "done"}
    BY <1>22, GoToOK, GiveUpOK DEF InsertBiweekly, At, StepTo, Pc, OneDayPc, TxPc, FillPc,
        BiweeklyPc, OverPc
  <2> QED
    BY <2>1 DEF TestedStep, AggregatePc, BudgetPc, CountPc
<1>23. CASE InsertBiweeklyExecution(r)
  <2>1. req[r].pc = "bi execution" /\ req'[r].pc = "bi hydrate"
    BY <1>23, GoToOK, GiveUpOK DEF InsertBiweeklyExecution, At, StepTo, Pc, OneDayPc,
        TxPc, FillPc, BiweeklyPc, OverPc
  <2> QED
    BY <2>1 DEF TestedStep, AggregatePc, BudgetPc, CountPc
<1>24. CASE HydrateRow(r)
  <2>1. req[r].pc = "bi hydrate" /\ req'[r].pc = "bi consume"
    BY <1>24, GoToOK, GiveUpOK DEF HydrateRow, At, StepTo, Pc, OneDayPc, TxPc, FillPc,
        BiweeklyPc, OverPc
  <2> QED
    BY <2>1 DEF TestedStep, AggregatePc, BudgetPc, CountPc
<1>25. CASE ConsumeAfterwards(r)
  <2>1. req[r].pc = "bi consume" /\ req'[r].pc = "done"
    BY <1>25, GoToOK, GiveUpOK DEF ConsumeAfterwards, At, StepTo, Pc, OneDayPc, TxPc,
        FillPc, BiweeklyPc, OverPc
  <2> QED
    BY <2>1 DEF TestedStep, AggregatePc, BudgetPc, CountPc
<1>26. CASE SendOrder(r)
  <2>1. req[r].pc \in {"execute", "bi execute"} /\ req'[r].pc = req[r].pc
    BY <1>26, WaitingOK DEF SendOrder, At, StepTo, Pc, OneDayPc, TxPc, FillPc, BiweeklyPc,
        OverPc
  <2> QED
    BY <2>1 DEF TestedStep, AggregatePc, BudgetPc, CountPc
<1>27. CASE \E outcome \in {"filled", "rejected"} : OrderAnswered(r, outcome)
  <2> PICK outcome \in {"filled", "rejected"} : OrderAnswered(r, outcome)
    BY <1>27
  <2>1. req[r].pc \in {"execute", "bi execute"} /\ AfterOrder(r, outcome) \in Pc
    BY DEF OrderAnswered, AfterOrder, Pc, OneDayPc, TxPc, FillPc, BiweeklyPc, OverPc
  <2>2. StepTo(r, AfterOrder(r, outcome), req[r].released, req[r].gaveUp, req[r].late)
    BY <2>1, GoToOK DEF OrderAnswered
  <2>3. Biweekly(r) <=> req[r].pc = "bi execute"
    BY <2>1, QuotesAssumption
    DEF LocalInv, QuoteKind, OneDay, Biweekly, OneDayPc, BiweeklyPc
  <2> QED
    BY <2>1, <2>2, <2>3
    DEF AfterOrder, TestedStep, StepTo, AggregatePc, BudgetPc, CountPc
<1>28. CASE OrderTimesOut(r)
  <2>1. req[r].pc \in {"execute", "bi execute"} /\ req'[r].pc \in {"done", "release"}
    BY <1>28, TimedOutOK DEF OrderTimesOut, At, StepTo, Pc, OneDayPc, TxPc, FillPc,
        BiweeklyPc, OverPc
  <2> QED
    BY <2>1 DEF TestedStep, AggregatePc, BudgetPc, CountPc
<1> QED
  BY <1>1, <1>2, <1>3, <1>4, <1>5, <1>6, <1>7, <1>8, <1>9, <1>10, <1>11, <1>12, <1>13,
      <1>14, <1>15, <1>16, <1>17, <1>18, <1>19, <1>20, <1>21, <1>22, <1>23, <1>24,
      <1>25, <1>26, <1>27, <1>28 DEF HandlerStep, OneDayStep, BiweeklyStep, VenueStep

LEMMA CapsFrame ==
  ASSUME TypeOK, NEW s \in Requests, CapsInv(s),
         req'[s].open \subseteq req[s].open \cap Open',
         req'[s].spent \subseteq req[s].spent, req'[s].rows \subseteq req[s].rows,
         executions \subseteq executions', Stored \subseteq Stored',
         TestedStep(s)
  PROVE  CapsInv(s)'
<1>1. IsFiniteSet(Open) /\ IsFiniteSet(executions) /\ IsFiniteSet(req[s].open)
      /\ IsFiniteSet(req[s].spent)
  BY RequestsAssumption, FS_Subset DEF TypeOK, Handler, Open
<1>2. IsFiniteSet(req'[s].open) /\ IsFiniteSet(req'[s].spent)
  BY <1>1, FS_Subset
<1>3. /\ Cardinality(req'[s].open) <= Cardinality(req[s].open)
      /\ Cardinality(req[s].open) <= Cardinality(Open)
      /\ Cardinality(req'[s].spent) <= Cardinality(req[s].spent)
      /\ Cardinality(req[s].spent) <= Cardinality(executions)
  BY <1>1, FS_Subset DEF CapsInv
<1>4. /\ Cardinality(req'[s].open) \in Nat /\ Cardinality(req[s].open) \in Nat
      /\ Cardinality(req'[s].spent) \in Nat /\ Cardinality(req[s].spent) \in Nat
      /\ Cardinality(Open) \in Nat /\ Cardinality(executions) \in Nat
      /\ AggregateCap \in Nat /\ HedgeCap \in Nat
  BY <1>1, <1>2, FS_CardinalityType, LimitsAssumption
<1>5. /\ req'[s].open \subseteq Open'
      /\ req'[s].spent \subseteq executions'
      /\ req'[s].rows \subseteq Stored'
  BY DEF CapsInv
<1>6. req'[s].pc \in AggregatePc => Cardinality(req'[s].open) + 1 <= AggregateCap
  BY <1>3, <1>4 DEF CapsInv, TestedStep
<1>7. req'[s].pc \in BudgetPc => Cardinality(req'[s].spent) + 1 <= HedgeCap
  BY <1>3, <1>4 DEF CapsInv, TestedStep
<1>8. req'[s].pc \in CountPc => req'[s].rows = {}
  BY DEF CapsInv, TestedStep
<1> QED
  BY <1>5, <1>6, <1>7, <1>8 DEF CapsInv, AggregatePc, BudgetPc, CountPc

LEMMA CapsInit == Init => \A r \in Requests : CapsInv(r)
<1> SUFFICES ASSUME Init, NEW r \in Requests PROVE CapsInv(r)
  OBVIOUS
<1>1. /\ req[r].pc = "idle" /\ req[r].open = {} /\ req[r].spent = {} /\ req[r].rows = {}
  BY DEF Init, Unsent
<1> QED
  BY <1>1 DEF CapsInv, AggregatePc, BudgetPc, CountPc

\* The rows that are open or stored after a step that leaves the others alone.
LEMMA RowsKept ==
  ASSUME TypeOK, NEW r \in Requests, \A s \in Requests \ {r} : row'[s] = row[s], Grown(r)
  PROVE  /\ Stored \subseteq Stored'
         /\ \A t \in Open : t \in Open' \/ \A s \in Requests : t \notin req'[s].open
  BY DEF Stored, Open, Grown

LEMMA CapsStep ==
  ASSUME TypeOK, \A r \in Requests : LocalInv(r), \A r \in Requests : CapsInv(r), [Next]_vars
  PROVE  \A r \in Requests : CapsInv(r)'
<1>1. CASE UNCHANGED vars
  BY <1>1 DEF vars, books, CapsInv, Open, Stored, AggregatePc, BudgetPc, CountPc
<1>2. CASE AllOver
  BY <1>1, <1>2 DEF AllOver
<1>3. ASSUME NEW r \in Requests, NEW q \in Quotes, Arrive(r, q)
      PROVE  \A s \in Requests : CapsInv(s)'
  <2>1. UNCHANGED <<row, executions>> /\ Open' = Open /\ Stored' = Stored
    BY <1>3 DEF Arrive, books, Open, Stored
  <2>2. CapsInv(r)'
    BY <1>3, <2>1, ArriveOK DEF CapsInv, AggregatePc, BudgetPc, CountPc
  <2>a. \A s \in Requests \ {r} :
          /\ req'[s].pc = req[s].pc /\ req'[s].open = req[s].open
          /\ req'[s].spent = req[s].spent /\ req'[s].rows = req[s].rows
    BY <1>3, ArriveOK
  <2>3. ASSUME NEW s \in Requests \ {r} PROVE CapsInv(s)'
    <3>1. /\ req'[s].pc = req[s].pc /\ req'[s].open = req[s].open
          /\ req'[s].spent = req[s].spent /\ req'[s].rows = req[s].rows
      BY <2>a
    <3>2. TestedStep(s)
      BY <3>1 DEF TestedStep
    <3> QED
      BY <2>1, <3>1, <3>2, CapsFrame DEF CapsInv
  <2> QED
    BY <2>2, <2>3
<1>4. ASSUME NEW r \in Requests, HandlerStep(r), NEW s \in Requests
      PROVE  CapsInv(s)'
  <2>1. StepOf(r) /\ OthersKept(r) /\ Grown(r) /\ TestedStep(r)
    BY <1>4, HandlerShape, OthersShape, HandlerGrown, HandlerTested
  <2>2. /\ Stored \subseteq Stored'
        /\ \A t \in Open : t \in Open' \/ t \notin req'[s].open
    BY <2>1, RowsKept DEF OthersKept
  <2>3. /\ req'[s].open \subseteq req[s].open /\ req'[s].spent \subseteq req[s].spent
        /\ req'[s].rows \subseteq req[s].rows
    BY <2>1 DEF StepOf
  <2>4. req'[s].open \subseteq req[s].open \cap Open'
    BY <2>2, <2>3 DEF CapsInv
  <2>5. TestedStep(s)
    BY <2>1 DEF StepOf, TestedStep
  <2>6. executions \subseteq executions'
    BY <2>1 DEF Grown
  <2> QED
    BY <2>2, <2>3, <2>4, <2>5, <2>6, CapsFrame
<1>5. ASSUME NEW r \in Requests, NEW outcome \in {"filled", "rejected"},
             OrderSettlesLate(r, outcome)
      PROVE  \A s \in Requests : CapsInv(s)'
  <2>1. UNCHANGED <<row, req, executions>>
    BY <1>5 DEF OrderSettlesLate, books
  <2> QED
    BY <2>1 DEF CapsInv, Open, Stored, AggregatePc, BudgetPc, CountPc
<1>6. ASSUME NEW r \in Requests, EndProtection(r), NEW s \in Requests
      PROVE  CapsInv(s)'
  <2>1. row' = [row EXCEPT ![r] = "ended"] /\ executions' = executions
    BY <1>6 DEF EndProtection, books
  <2>2. /\ req'[s].pc = req[s].pc /\ req'[s].open = req[s].open \ {r}
        /\ req'[s].spent = req[s].spent /\ req'[s].rows = req[s].rows
    BY <1>6, EndOK DEF EndProtection
  <2>3. Stored \subseteq Stored' /\ Open \ {r} \subseteq Open'
    BY <2>1 DEF TypeOK, Stored, Open
  <2>4. TestedStep(s)
    BY <2>2 DEF TestedStep
  <2> QED
    BY <2>1, <2>2, <2>3, <2>4, CapsFrame DEF CapsInv
<1>7. ASSUME NEW r \in Requests, ReconcileOrphan(r), NEW s \in Requests
      PROVE  CapsInv(s)'
  <2>1. row' = [row EXCEPT ![r] = "active"] /\ UNCHANGED <<executions, req>>
    BY <1>7 DEF ReconcileOrphan, books
  <2>2. Stored \subseteq Stored' /\ Open \subseteq Open'
    BY <2>1 DEF TypeOK, Stored, Open, OpenStatus
  <2>3. TestedStep(s)
    BY <2>1 DEF TestedStep
  <2> QED
    BY <2>1, <2>2, <2>3, CapsFrame DEF CapsInv
<1>8. ASSUME Restart, NEW s \in Requests
      PROVE  CapsInv(s)'
  <2>1. UNCHANGED <<row, executions>> /\ Open' = Open /\ Stored' = Stored
    BY <1>8 DEF Restart, books, Open, Stored
  <2>2. /\ req'[s].pc = req[s].pc \/ req'[s].pc = "lost"
        /\ req'[s].open \subseteq req[s].open /\ req'[s].spent \subseteq req[s].spent
        /\ req'[s].rows \subseteq req[s].rows
    BY <1>8, RestartOK
  <2>3. TestedStep(s)
    BY <2>2 DEF TestedStep, AggregatePc, BudgetPc, CountPc
  <2> QED
    BY <2>1, <2>2, <2>3, CapsFrame DEF CapsInv
<1> QED
  BY <1>1, <1>2, <1>3, <1>4, <1>5, <1>6, <1>7, <1>8 DEF Next

\* However requests overlap, a cap that is exceeded is exceeded by rows,
\* executions and activations that were not there when the request was sent.
THEOREM CapsBounded == Spec => []CapsExceededOnlyByOverlap
<1> DEFINE Inv == /\ TypeOK
                  /\ \A r \in Requests : LocalInv(r)
                  /\ \A r \in Requests : CapsInv(r)
<1>1. Init => Inv
  BY InitTypeOK, LocalInit, CapsInit
<1>2. Inv /\ [Next]_vars => Inv'
  BY StepTypeOK, LocalStep, CapsStep
<1>3. Inv => CapsExceededOnlyByOverlap
  BY DEF CapsInv, CapsExceededOnlyByOverlap, At, AggregatePc, BudgetPc, CountPc
<1> QED
  BY <1>1, <1>2, <1>3, PTL DEF Spec

-----------------------------------------------------------------------------
(* The locks of a transaction, and who consumed a quote.                    *)

\* The transaction holds its quote, which nobody has consumed.
HoldPc == {"budget", "aggregate", "reserve", "insert"}

LockInv(r) ==
  /\ req[r].pc \in HoldPc => quoteLock[req[r].quote] = r /\ consumer[req[r].quote] = NoHolder
  /\ req[r].pc = "insert" => usageLock = r /\ used + 1 <= DailyCap
  /\ OneDay(r) /\ (order[r] # "none" \/ req[r].pc \in {"price", "execute"}) =>
       consumer[req[r].quote] = r

\* What a step of r leaves to the others.
LocksKept(r) ==
  \A s \in Requests \ {r} :
    /\ \A q \in Quotes : quoteLock[q] = s => quoteLock'[q] = s
    /\ usageLock = s => usageLock' = s /\ used' <= used
    /\ \A q \in OneDayQuotes :
         /\ quoteLock[q] = s /\ consumer[q] = NoHolder => consumer'[q] = NoHolder
         /\ consumer[q] = s => consumer'[q] = s

LockTables == consumer' = consumer /\ used' = used /\ quoteLock' = quoteLock /\ usageLock' = usageLock

LEMMA QuietLocks ==
  ASSUME TypeOK, NEW r \in Requests, LockTables
  PROVE  LocksKept(r)
  BY DEF TypeOK, LockTables, LocksKept

\* A step that leaves them alone.
LEMMA LockFrame ==
  ASSUME NEW r \in Requests, LockInv(r), LockTables,
         req'[r].quote = req[r].quote, req'[r].pc \in HoldPc => req'[r].pc = req[r].pc,
         req'[r].pc \in {"price", "execute"} => req[r].pc \in {"price", "execute"},
         order'[r] # "none" => order[r] # "none" \/ req[r].pc = "execute" \/ ~OneDay(r)
  PROVE  LockInv(r)'
<1>1. /\ req'[r].pc \in HoldPc => quoteLock'[req'[r].quote] = r /\ consumer'[req'[r].quote] = NoHolder
      /\ req'[r].pc = "insert" => usageLock' = r /\ used' + 1 <= DailyCap
  BY DEF LockInv, LockTables, HoldPc
<1>2. OneDay(r)' /\ (order'[r] # "none" \/ req'[r].pc \in {"price", "execute"}) =>
        consumer'[req'[r].quote] = r
  BY DEF LockInv, LockTables, OneDay
<1> QED
  BY <1>1, <1>2 DEF LockInv, HoldPc

\* A step of the handler keeps it for the request it handles and for the others.
LEMMA HandlerLocks ==
  ASSUME TypeOK, NEW r \in Requests, LocalInv(r), LockInv(r), used <= DailyCap, HandlerStep(r)
  PROVE  LocksKept(r) /\ LockInv(r)' /\ used' <= DailyCap
<1>0. /\ req'[r].quote = req[r].quote
      /\ req[r].quote \in Quotes \cup {NoQuote}
      /\ order \in [Requests -> OrderStatus]
      /\ consumer \in [Quotes -> Requests \cup {NoHolder}]
      /\ quoteLock \in [Quotes -> Requests \cup {NoHolder}]
      /\ used \in Nat /\ DailyCap \in Nat
  BY HandlerShape, LimitsAssumption DEF StepOf, TypeOK, Handler
<1>a. /\ req[r].pc \in TxPc => req[r].quote \in OneDayQuotes /\ order[r] = "none"
      /\ req[r].pc = "release" => req[r].quote \in OneDayQuotes
      /\ req[r].pc \in {"bi execute", "bi consume"} => req[r].quote \in BiweeklyQuotes /\ ~OneDay(r)
  BY QuotesAssumption DEF LocalInv, QuoteKind, OrderInv, OneDay, OneDayPc, BiweeklyPc
<1>b. OneDayQuotes \subseteq Quotes /\ BiweeklyQuotes \subseteq Quotes
  BY DEF Quotes
<1>c. NoHolder # r
  BY HolderAssumption
<1>1. CASE LockQuote(r)
  <2>1. req[r].pc = "lock" /\ req'[r].pc = "budget"
    BY <1>1, GoToOK DEF LockQuote, At, StepTo, Pc, OneDayPc, TxPc, FillPc, BiweeklyPc,
        OverPc
  <2>3. /\ quoteLock[req[r].quote] = NoHolder /\ consumer[req[r].quote] = NoHolder
        /\ quoteLock' = [quoteLock EXCEPT ![req[r].quote] = r]
        /\ UNCHANGED <<consumer, used, usageLock, order>>
    BY <1>1 DEF LockQuote
  <2>4. req[r].quote \in Quotes /\ order[r] = "none"
    BY <1>a, <1>b, <2>1 DEF TxPc
  <2>5. LocksKept(r)
    BY <1>0, <1>b, <2>3, <2>4, HolderAssumption DEF LocksKept
  <2>6. LockInv(r)'
    BY <1>0, <2>1, <2>3, <2>4 DEF LockInv, HoldPc, OneDay
  <2> QED
    BY <2>3, <2>5, <2>6
<1>2. CASE Replay(r)
  <2>1. req[r].pc = "lock" /\ req'[r].pc = "done"
    BY <1>2, GoToOK DEF Replay, At, StepTo, Pc, OneDayPc, TxPc, FillPc, BiweeklyPc,
        OverPc
  <2>2. LockTables /\ order' = order
    BY <1>2 DEF Replay, LockTables, locks
  <2>3. order'[r] # "none" => order[r] # "none" \/ req[r].pc = "execute" \/ ~OneDay(r)
    BY <2>2
  <2> QED
    BY <1>0, <2>1, <2>2, <2>3, QuietLocks, LockFrame DEF LockTables, HoldPc
<1>3. CASE Refuse(r)
  <2>1. req[r].pc \in TxPc /\ req'[r].pc = "done"
    BY <1>3, GoToOK DEF Refuse, At, StepTo, Pc, OneDayPc, TxPc, FillPc, BiweeklyPc,
        OverPc
  <2>3. /\ quoteLock' = [q \in Quotes |-> IF quoteLock[q] = r THEN NoHolder ELSE quoteLock[q]]
        /\ usageLock' = IF usageLock = r THEN NoHolder ELSE usageLock
        /\ UNCHANGED <<consumer, used, order>>
    BY <1>3 DEF Refuse, UnlockedBy
  <2>4. LocksKept(r)
    BY <1>0, <1>b, <2>3 DEF LocksKept
  <2>5. LockInv(r)'
    BY <1>0, <1>a, <2>1, <2>3 DEF LockInv, HoldPc, OneDay, TxPc
  <2> QED
    BY <2>3, <2>4, <2>5
<1>4. CASE ReadBudget(r)
  <2>1. CASE ~WithinBudget
    <3>1. GoTo(r, "done") /\ UnlockedBy(r) /\ UNCHANGED <<consumer, used, order>> /\ req[r].pc \in TxPc
      BY <1>4, <2>1 DEF ReadBudget, At, TxPc
    <3>2. req'[r].pc = "done"
      BY <3>1, GoToOK DEF StepTo, Pc, OverPc
    <3>3. /\ quoteLock' = [q \in Quotes |-> IF quoteLock[q] = r THEN NoHolder ELSE quoteLock[q]]
          /\ usageLock' = IF usageLock = r THEN NoHolder ELSE usageLock
      BY <3>1 DEF UnlockedBy
    <3>4. LocksKept(r)
      BY <1>0, <1>b, <3>1, <3>3 DEF LocksKept
    <3>5. LockInv(r)'
      BY <1>0, <1>a, <3>1, <3>2 DEF LockInv, HoldPc, OneDay
    <3> QED
      BY <3>1, <3>4, <3>5
  <2>2. CASE WithinBudget
    <3>1. GoTo(r, "aggregate") /\ LockTables /\ order' = order /\ req[r].pc \in TxPc /\ req[r].pc \in HoldPc
      BY <1>4, <2>2 DEF ReadBudget, At, TxPc, HoldPc, LockTables, locks
    <3>2. req'[r].pc = "aggregate"
      BY <3>1, GoToOK DEF StepTo, Pc, OneDayPc, TxPc
    <3>5. LockInv(r)'
      BY <1>0, <1>a, <3>1, <3>2 DEF LockInv, HoldPc, OneDay, LockTables
    <3> QED
      BY <3>1, <3>5, QuietLocks DEF LockTables
  <2> QED
    BY <2>1, <2>2
<1>5. CASE ReadAggregate(r)
  <2>1. CASE ~WithinAggregate
    <3>1. GoTo(r, "done") /\ UnlockedBy(r) /\ UNCHANGED <<consumer, used, order>> /\ req[r].pc \in TxPc
      BY <1>5, <2>1 DEF ReadAggregate, At, TxPc
    <3>2. req'[r].pc = "done"
      BY <3>1, GoToOK DEF StepTo, Pc, OverPc
    <3>3. /\ quoteLock' = [q \in Quotes |-> IF quoteLock[q] = r THEN NoHolder ELSE quoteLock[q]]
          /\ usageLock' = IF usageLock = r THEN NoHolder ELSE usageLock
      BY <3>1 DEF UnlockedBy
    <3>4. LocksKept(r)
      BY <1>0, <1>b, <3>1, <3>3 DEF LocksKept
    <3>5. LockInv(r)'
      BY <1>0, <1>a, <3>1, <3>2 DEF LockInv, HoldPc, OneDay
    <3> QED
      BY <3>1, <3>4, <3>5
  <2>2. CASE WithinAggregate
    <3>1. GoTo(r, "reserve") /\ LockTables /\ order' = order /\ req[r].pc \in TxPc /\ req[r].pc \in HoldPc
      BY <1>5, <2>2 DEF ReadAggregate, At, TxPc, HoldPc, LockTables, locks
    <3>2. req'[r].pc = "reserve"
      BY <3>1, GoToOK DEF StepTo, Pc, OneDayPc, TxPc
    <3>5. LockInv(r)'
      BY <1>0, <1>a, <3>1, <3>2 DEF LockInv, HoldPc, OneDay, LockTables
    <3> QED
      BY <3>1, <3>5, QuietLocks DEF LockTables
  <2> QED
    BY <2>1, <2>2
<1>6. CASE ReserveCapacity(r)
  <2>1. req[r].pc = "reserve" /\ req'[r].pc = "insert"
    BY <1>6, ReservedOK DEF ReserveCapacity, At, StepTo, Pc, OneDayPc, TxPc, FillPc,
        BiweeklyPc, OverPc
  <2>3. /\ usageLock = NoHolder /\ used + 1 <= DailyCap /\ usageLock' = r
        /\ UNCHANGED <<consumer, used, quoteLock, order>>
    BY <1>6 DEF ReserveCapacity
  <2>4. order[r] = "none"
    BY <1>a, <2>1 DEF TxPc
  <2>5. LocksKept(r)
    BY <1>0, <1>b, <2>3, HolderAssumption DEF LocksKept
  <2>6. LockInv(r)'
    BY <1>0, <2>1, <2>3, <2>4 DEF LockInv, HoldPc, OneDay
  <2> QED
    BY <2>3, <2>5, <2>6
<1>7. CASE CapacityExceeded(r)
  <2>1. req[r].pc = "reserve" /\ req'[r].pc = "done"
    BY <1>7, GoToOK DEF CapacityExceeded, At, StepTo, Pc, OneDayPc, TxPc, FillPc,
        BiweeklyPc, OverPc
  <2>3. /\ quoteLock' = [q \in Quotes |-> IF quoteLock[q] = r THEN NoHolder ELSE quoteLock[q]]
        /\ usageLock' = IF usageLock = r THEN NoHolder ELSE usageLock
        /\ UNCHANGED <<consumer, used, order>>
    BY <1>7 DEF CapacityExceeded, UnlockedBy
  <2>4. LocksKept(r)
    BY <1>0, <1>b, <2>3 DEF LocksKept
  <2>5. LockInv(r)'
    BY <1>0, <1>a, <2>1, <2>3 DEF LockInv, HoldPc, OneDay, TxPc
  <2> QED
    BY <2>3, <2>4, <2>5
<1>8. CASE InsertAndConsume(r)
  <2>1. req[r].pc = "insert" /\ req'[r].pc = "price"
    BY <1>8, GoToOK DEF InsertAndConsume, At, StepTo, Pc, OneDayPc, TxPc, FillPc,
        BiweeklyPc, OverPc
  <2>3. /\ consumer' = [consumer EXCEPT ![req[r].quote] = r] /\ used' = used + 1
        /\ quoteLock' = [q \in Quotes |-> IF quoteLock[q] = r THEN NoHolder ELSE quoteLock[q]]
        /\ usageLock' = IF usageLock = r THEN NoHolder ELSE usageLock
        /\ order' = order
    BY <1>8 DEF InsertAndConsume, UnlockedBy
  <2>4. req[r].quote \in Quotes /\ order[r] = "none"
    BY <1>a, <1>b, <2>1 DEF TxPc
  <2>5. /\ quoteLock[req[r].quote] = r /\ consumer[req[r].quote] = NoHolder
        /\ usageLock = r /\ used + 1 <= DailyCap
    BY <2>1 DEF LockInv, HoldPc
  <2>6. LocksKept(r)
    BY <1>0, <1>b, <2>3, <2>4, <2>5, HolderAssumption DEF LocksKept
  <2>7. LockInv(r)'
    BY <1>0, <2>1, <2>3, <2>4 DEF LockInv, HoldPc, OneDay
  <2> QED
    BY <2>3, <2>5, <2>6, <2>7
<1>9. CASE TransactionFails(r)
  <2>1. req[r].pc \in TxPc /\ req'[r].pc \in {"done", "release"}
    BY <1>9, GoToOK DEF TransactionFails, At, StepTo, Pc, OneDayPc, TxPc, FillPc,
        BiweeklyPc, OverPc
  <2>3. /\ quoteLock' = [q \in Quotes |-> IF quoteLock[q] = r THEN NoHolder ELSE quoteLock[q]]
        /\ usageLock' = IF usageLock = r THEN NoHolder ELSE usageLock
        /\ UNCHANGED <<consumer, used, order>>
    BY <1>9 DEF TransactionFails, UnlockedBy
  <2>4. LocksKept(r)
    BY <1>0, <1>b, <2>3 DEF LocksKept
  <2>5. LockInv(r)'
    BY <1>0, <1>a, <2>1, <2>3 DEF LockInv, HoldPc, OneDay, TxPc
  <2> QED
    BY <2>3, <2>4, <2>5
<1>10. CASE ReadPrice(r)
  <2>1. req[r].pc = "price" /\ req'[r].pc \in {"execute", "release"}
    BY <1>10, GoToOK DEF ReadPrice, At, StepTo, Pc, OneDayPc, TxPc, FillPc, BiweeklyPc,
        OverPc
  <2>2. LockTables /\ order' = order
    BY <1>10 DEF ReadPrice, LockTables, locks
  <2>3. order'[r] # "none" => order[r] # "none" \/ req[r].pc = "execute" \/ ~OneDay(r)
    BY <2>2
  <2> QED
    BY <1>0, <2>1, <2>2, <2>3, QuietLocks, LockFrame DEF LockTables, HoldPc
<1>11. CASE CheckFill(r)
  <2>1. req[r].pc = "check" /\ req'[r].pc \in {"execution", "reconcile"}
    BY <1>11, GoToOK DEF CheckFill, At, StepTo, Pc, OneDayPc, TxPc, FillPc, BiweeklyPc,
        OverPc
  <2>2. LockTables /\ order' = order
    BY <1>11 DEF CheckFill, LockTables, locks
  <2>3. order'[r] # "none" => order[r] # "none" \/ req[r].pc = "execute" \/ ~OneDay(r)
    BY <2>2
  <2> QED
    BY <1>0, <2>1, <2>2, <2>3, QuietLocks, LockFrame DEF LockTables, HoldPc
<1>12. CASE InsertExecution(r)
  <2>1. req[r].pc = "execution" /\ req'[r].pc \in {"due", "reconcile"}
    BY <1>12, GoToOK DEF InsertExecution, At, StepTo, Pc, OneDayPc, TxPc, FillPc,
        BiweeklyPc, OverPc
  <2>2. LockTables /\ order' = order
    BY <1>12 DEF InsertExecution, LockTables, locks
  <2>3. order'[r] # "none" => order[r] # "none" \/ req[r].pc = "execute" \/ ~OneDay(r)
    BY <2>2
  <2> QED
    BY <1>0, <2>1, <2>2, <2>3, QuietLocks, LockFrame DEF LockTables, HoldPc
<1>13. CASE BookPremium(r)
  <2>1. req[r].pc = "due" /\ req'[r].pc \in {"activate", "reconcile"}
    BY <1>13, GoToOK DEF BookPremium, At, StepTo, Pc, OneDayPc, TxPc, FillPc, BiweeklyPc,
        OverPc
  <2>2. LockTables /\ order' = order
    BY <1>13 DEF BookPremium, LockTables, locks
  <2>3. order'[r] # "none" => order[r] # "none" \/ req[r].pc = "execute" \/ ~OneDay(r)
    BY <2>2
  <2> QED
    BY <1>0, <2>1, <2>2, <2>3, QuietLocks, LockFrame DEF LockTables, HoldPc
<1>14. CASE Activate(r)
  <2>1. req[r].pc = "activate" /\ req'[r].pc \in {"book", "reconcile"}
    BY <1>14, GoToOK DEF Activate, At, StepTo, Pc, OneDayPc, TxPc, FillPc, BiweeklyPc,
        OverPc
  <2>2. LockTables /\ order' = order
    BY <1>14 DEF Activate, LockTables, locks
  <2>3. order'[r] # "none" => order[r] # "none" \/ req[r].pc = "execute" \/ ~OneDay(r)
    BY <2>2
  <2> QED
    BY <1>0, <2>1, <2>2, <2>3, QuietLocks, LockFrame DEF LockTables, HoldPc
<1>15. CASE BookPool(r)
  <2>1. req[r].pc = "book" /\ req'[r].pc = "done"
    BY <1>15, GoToOK DEF BookPool, At, StepTo, Pc, OneDayPc, TxPc, FillPc, BiweeklyPc,
        OverPc
  <2>2. LockTables /\ order' = order
    BY <1>15 DEF BookPool, LockTables, locks
  <2>3. order'[r] # "none" => order[r] # "none" \/ req[r].pc = "execute" \/ ~OneDay(r)
    BY <2>2
  <2> QED
    BY <1>0, <2>1, <2>2, <2>3, QuietLocks, LockFrame DEF LockTables, HoldPc
<1>16. CASE MarkReconcilePending(r)
  <2>1. req[r].pc = "reconcile" /\ req'[r].pc = "done"
    BY <1>16, ClosingOK, GiveUpOK DEF MarkReconcilePending, At, StepTo, Pc, OneDayPc,
        TxPc, FillPc, BiweeklyPc, OverPc
  <2>2. LockTables /\ order' = order
    BY <1>16 DEF MarkReconcilePending, LockTables, locks
  <2>3. order'[r] # "none" => order[r] # "none" \/ req[r].pc = "execute" \/ ~OneDay(r)
    BY <2>2
  <2> QED
    BY <1>0, <2>1, <2>2, <2>3, QuietLocks, LockFrame DEF LockTables, HoldPc
<1>17. CASE ReleaseCapacity(r)
  <2>1. req[r].pc = "release" /\ req'[r].pc = "fail"
    BY <1>17, ReleasedOK, GiveUpOK DEF ReleaseCapacity, At, StepTo, Pc, OneDayPc, TxPc,
        FillPc, BiweeklyPc, OverPc
  <2>3. /\ UNCHANGED <<consumer, quoteLock, usageLock, order>>
        /\ usageLock = NoHolder
        /\ used' = used \/ used' = IF used = 0 THEN 0 ELSE used - 1
    BY <1>17 DEF ReleaseCapacity, locks
  <2>4. used' <= DailyCap
    BY <1>0, <2>3
  <2>5. LocksKept(r)
    BY <1>0, <1>b, <2>3, HolderAssumption DEF LocksKept
  <2>6. LockInv(r)'
    BY <1>0, <2>1, <2>3 DEF LockInv, HoldPc, OneDay
  <2> QED
    BY <2>4, <2>5, <2>6
<1>18. CASE MarkFailed(r)
  <2>1. req[r].pc = "fail" /\ req'[r].pc = "done"
    BY <1>18, ClosingOK, GiveUpOK DEF MarkFailed, At, StepTo, Pc, OneDayPc, TxPc, FillPc,
        BiweeklyPc, OverPc
  <2>2. LockTables /\ order' = order
    BY <1>18 DEF MarkFailed, LockTables, locks
  <2>3. order'[r] # "none" => order[r] # "none" \/ req[r].pc = "execute" \/ ~OneDay(r)
    BY <2>2
  <2> QED
    BY <1>0, <2>1, <2>2, <2>3, QuietLocks, LockFrame DEF LockTables, HoldPc
<1>19. CASE LookupQuote(r)
  <2>1. req[r].pc = "lookup" /\ req'[r].pc \in {"count", "done"}
    BY <1>19, GoToOK DEF LookupQuote, At, StepTo, Pc, OneDayPc, TxPc, FillPc, BiweeklyPc,
        OverPc
  <2>2. LockTables /\ order' = order
    BY <1>19 DEF LookupQuote, LockTables, locks
  <2>3. order'[r] # "none" => order[r] # "none" \/ req[r].pc = "execute" \/ ~OneDay(r)
    BY <2>2
  <2> QED
    BY <1>0, <2>1, <2>2, <2>3, QuietLocks, LockFrame DEF LockTables, HoldPc
<1>20. CASE CountActivations(r)
  <2>1. req[r].pc = "count" /\ req'[r].pc \in {"bi budget", "done"}
    BY <1>20, GoToOK, UncountedOK DEF CountActivations, At, StepTo, Pc, OneDayPc, TxPc,
        FillPc, BiweeklyPc, OverPc
  <2>2. LockTables /\ order' = order
    BY <1>20 DEF CountActivations, LockTables, locks
  <2>3. order'[r] # "none" => order[r] # "none" \/ req[r].pc = "execute" \/ ~OneDay(r)
    BY <2>2
  <2> QED
    BY <1>0, <2>1, <2>2, <2>3, QuietLocks, LockFrame DEF LockTables, HoldPc
<1>21. CASE ReadBiweeklyBudget(r)
  <2>1. req[r].pc = "bi budget" /\ req'[r].pc \in {"bi execute", "done"}
    BY <1>21, GoToOK DEF ReadBiweeklyBudget, At, StepTo, Pc, OneDayPc, TxPc, FillPc,
        BiweeklyPc, OverPc
  <2>2. LockTables /\ order' = order
    BY <1>21 DEF ReadBiweeklyBudget, LockTables, locks
  <2>3. order'[r] # "none" => order[r] # "none" \/ req[r].pc = "execute" \/ ~OneDay(r)
    BY <2>2
  <2> QED
    BY <1>0, <2>1, <2>2, <2>3, QuietLocks, LockFrame DEF LockTables, HoldPc
<1>22. CASE InsertBiweekly(r)
  <2>1. req[r].pc = "bi insert" /\ req'[r].pc \in {"bi execution", "done"}
    BY <1>22, GoToOK, GiveUpOK DEF InsertBiweekly, At, StepTo, Pc, OneDayPc, TxPc, FillPc,
        BiweeklyPc, OverPc
  <2>2. LockTables /\ order' = order
    BY <1>22 DEF InsertBiweekly, LockTables, locks
  <2>3. order'[r] # "none" => order[r] # "none" \/ req[r].pc = "execute" \/ ~OneDay(r)
    BY <2>2
  <2> QED
    BY <1>0, <2>1, <2>2, <2>3, QuietLocks, LockFrame DEF LockTables, HoldPc
<1>23. CASE InsertBiweeklyExecution(r)
  <2>1. req[r].pc = "bi execution" /\ req'[r].pc = "bi hydrate"
    BY <1>23, GoToOK, GiveUpOK DEF InsertBiweeklyExecution, At, StepTo, Pc, OneDayPc,
        TxPc, FillPc, BiweeklyPc, OverPc
  <2>2. LockTables /\ order' = order
    BY <1>23 DEF InsertBiweeklyExecution, LockTables, locks
  <2>3. order'[r] # "none" => order[r] # "none" \/ req[r].pc = "execute" \/ ~OneDay(r)
    BY <2>2
  <2> QED
    BY <1>0, <2>1, <2>2, <2>3, QuietLocks, LockFrame DEF LockTables, HoldPc
<1>24. CASE HydrateRow(r)
  <2>1. req[r].pc = "bi hydrate" /\ req'[r].pc = "bi consume"
    BY <1>24, GoToOK, GiveUpOK DEF HydrateRow, At, StepTo, Pc, OneDayPc, TxPc, FillPc,
        BiweeklyPc, OverPc
  <2>2. LockTables /\ order' = order
    BY <1>24 DEF HydrateRow, LockTables, locks
  <2>3. order'[r] # "none" => order[r] # "none" \/ req[r].pc = "execute" \/ ~OneDay(r)
    BY <2>2
  <2> QED
    BY <1>0, <2>1, <2>2, <2>3, QuietLocks, LockFrame DEF LockTables, HoldPc
<1>25. CASE ConsumeAfterwards(r)
  <2>1. req[r].pc = "bi consume" /\ req'[r].pc = "done"
    BY <1>25, GoToOK, GiveUpOK DEF ConsumeAfterwards, At, StepTo, Pc, OneDayPc, TxPc,
        FillPc, BiweeklyPc, OverPc
  <2>3. /\ UNCHANGED <<used, quoteLock, usageLock, order>>
        /\ consumer' = consumer \/ consumer' = [consumer EXCEPT ![req[r].quote] = r]
    BY <1>25 DEF ConsumeAfterwards, locks
  <2>4. req[r].quote \in BiweeklyQuotes /\ ~OneDay(r)
    BY <1>a, <2>1
  <2>5. \A q \in OneDayQuotes : consumer'[q] = consumer[q]
    BY <1>0, <1>b, <2>3, <2>4, QuotesAssumption
  <2>6. LocksKept(r)
    BY <1>0, <1>b, <2>3, <2>5 DEF LocksKept
  <2>7. LockInv(r)'
    BY <1>0, <2>1, <2>4 DEF LockInv, HoldPc, OneDay
  <2> QED
    BY <2>3, <2>6, <2>7
<1>26. CASE SendOrder(r)
  <2>1. req[r].pc \in {"execute", "bi execute"} /\ req'[r].pc = req[r].pc
    BY <1>26, WaitingOK DEF SendOrder, At, StepTo, Pc, OneDayPc, TxPc, FillPc, BiweeklyPc,
        OverPc
  <2>2. LockTables
    BY <1>26 DEF SendOrder, LockTables, locks
  <2>3. order'[r] # "none" => order[r] # "none" \/ req[r].pc = "execute" \/ ~OneDay(r)
    BY <1>a, <2>1
  <2> QED
    BY <1>0, <2>1, <2>2, <2>3, QuietLocks, LockFrame DEF LockTables, HoldPc
<1>27. CASE \E outcome \in {"filled", "rejected"} : OrderAnswered(r, outcome)
  <2> PICK outcome \in {"filled", "rejected"} : OrderAnswered(r, outcome)
    BY <1>27
  <2>1. req'[r].pc \in {"check", "release", "bi insert", "done"}
    <3>1. AfterOrder(r, outcome) \in {"check", "release", "bi insert", "done"}
      BY DEF AfterOrder
    <3>2. GoTo(r, AfterOrder(r, outcome)) /\ AfterOrder(r, outcome) \in Pc
      BY <3>1 DEF OrderAnswered, Pc, OneDayPc, FillPc, BiweeklyPc, OverPc
    <3>3. req'[r].pc = AfterOrder(r, outcome)
      BY <3>2, GoToOK DEF StepTo
    <3> QED
      BY <3>1, <3>3
  <2>2. LockTables /\ order[r] = "working"
    BY DEF OrderAnswered, LockTables, locks
  <2> QED
    BY <1>0, <2>1, <2>2, QuietLocks, LockFrame DEF LockTables, HoldPc
<1>28. CASE OrderTimesOut(r)
  <2>1. req[r].pc \in {"execute", "bi execute"} /\ req'[r].pc \in {"done", "release"}
    BY <1>28, TimedOutOK DEF OrderTimesOut, At, StepTo, Pc, OneDayPc, TxPc, FillPc,
        BiweeklyPc, OverPc
  <2>2. LockTables /\ order' = order
    BY <1>28 DEF OrderTimesOut, LockTables, locks
  <2>3. order'[r] # "none" => order[r] # "none" \/ req[r].pc = "execute" \/ ~OneDay(r)
    BY <2>2
  <2> QED
    BY <1>0, <2>1, <2>2, <2>3, QuietLocks, LockFrame DEF LockTables, HoldPc
<1> QED
  BY <1>1, <1>2, <1>3, <1>4, <1>5, <1>6, <1>7, <1>8, <1>9, <1>10, <1>11, <1>12, <1>13,
      <1>14, <1>15, <1>16, <1>17, <1>18, <1>19, <1>20, <1>21, <1>22, <1>23, <1>24,
      <1>25, <1>26, <1>27, <1>28 DEF HandlerStep, OneDayStep, BiweeklyStep, VenueStep

LEMMA StaysBelow ==
  ASSUME NEW a \in Nat, NEW b \in Nat, NEW c \in Nat, a <= b, b + 1 <= c
  PROVE  a + 1 <= c
  OBVIOUS

\* A request whose place, quote and order stay as they are keeps its locks.
LEMMA OthersLocks ==
  ASSUME TypeOK, NEW r \in Requests, NEW s \in Requests \ {r}, LocalInv(s), LockInv(s),
         LocksKept(r), used' \in Nat,
         req'[s].pc = req[s].pc, req'[s].quote = req[s].quote, order'[s] = order[s]
  PROVE  LockInv(s)'
<1>1. used \in Nat /\ DailyCap \in Nat
  BY LimitsAssumption DEF TypeOK
<1>2. req[s].pc \in HoldPc => req[s].quote \in OneDayQuotes /\ req[s].quote \in Quotes
  BY DEF LocalInv, QuoteKind, HoldPc, OneDayPc, TxPc, Quotes
<1>3. req'[s].pc \in HoldPc => quoteLock'[req'[s].quote] = s /\ consumer'[req'[s].quote] = NoHolder
  <2> SUFFICES ASSUME req[s].pc \in HoldPc
               PROVE  quoteLock'[req[s].quote] = s /\ consumer'[req[s].quote] = NoHolder
    OBVIOUS
  <2>1. quoteLock[req[s].quote] = s /\ consumer[req[s].quote] = NoHolder
    BY DEF LockInv
  <2> QED
    BY <1>2, <2>1 DEF LocksKept
<1>4. req'[s].pc = "insert" => usageLock' = s /\ used' + 1 <= DailyCap
  <2> SUFFICES ASSUME req[s].pc = "insert" PROVE usageLock' = s /\ used' + 1 <= DailyCap
    OBVIOUS
  <2>1. usageLock = s /\ used + 1 <= DailyCap
    BY DEF LockInv
  <2>2. usageLock' = s /\ used' <= used
    BY <2>1 DEF LocksKept
  <2>3. used' + 1 <= DailyCap
    <3>1. used' \in Nat /\ used \in Nat /\ DailyCap \in Nat
      BY <1>1
    <3>2. used' <= used /\ used + 1 <= DailyCap
      BY <2>1, <2>2
    <3> QED
      BY <3>1, <3>2, StaysBelow
  <2> QED
    BY <2>2, <2>3
<1>5. OneDay(s)' /\ (order'[s] # "none" \/ req'[s].pc \in {"price", "execute"}) =>
        consumer'[req'[s].quote] = s
  BY DEF LockInv, LocksKept, OneDay
<1> QED
  BY <1>3, <1>4, <1>5 DEF LockInv, HoldPc

LocksInv == used <= DailyCap /\ \A r \in Requests : LockInv(r)

LEMMA LocksInit == Init => LocksInv
<1> SUFFICES ASSUME Init PROVE LocksInv
  OBVIOUS
<1>1. used = 0 /\ DailyCap \in Nat
  BY LimitsAssumption DEF Init
<1>2. ASSUME NEW r \in Requests PROVE LockInv(r)
  <2>1. req[r].pc = "idle" /\ order[r] = "none"
    BY DEF Init, Unsent
  <2> QED
    BY <2>1 DEF LockInv, HoldPc
<1> QED
  BY <1>1, <1>2 DEF LocksInv

LEMMA LocksStep ==
  ASSUME TypeOK, TypeOK', \A r \in Requests : LocalInv(r), LocksInv, [Next]_vars
  PROVE  LocksInv'
<1>0. used' \in Nat /\ \A r \in Requests : LockInv(r)
  BY DEF TypeOK, LocksInv
<1>1. CASE UNCHANGED vars
  <2>1. LockTables /\ UNCHANGED <<req, order>>
    BY <1>1 DEF vars, locks, LockTables
  <2> QED
    BY <2>1 DEF LocksInv, LockInv, LockTables, OneDay, HoldPc
<1>2. CASE AllOver
  BY <1>1, <1>2 DEF AllOver
<1>3. ASSUME NEW r \in Requests, NEW q \in Quotes, Arrive(r, q)
      PROVE  LocksInv'
  <2>1. LockTables /\ order' = order /\ req[r].pc = "idle"
    BY <1>3 DEF Arrive, At, locks, LockTables
  <2>2. LockInv(r)'
    <3>1. order[r] = "none"
      BY <2>1 DEF LocalInv, OrderInv
    <3>2. req'[r].pc \in {"lock", "lookup"}
      BY <1>3, ArriveOK
    <3> QED
      BY <2>1, <3>1, <3>2 DEF LockInv, HoldPc
  <2>3. \A s \in Requests \ {r} : req'[s].pc = req[s].pc /\ req'[s].quote = req[s].quote
    BY <1>3, ArriveOK
  <2>4. \A s \in Requests \ {r} : LockInv(s)'
    BY <1>0, <2>1, <2>3, QuietLocks, OthersLocks
  <2> QED
    BY <2>1, <2>2, <2>4 DEF LocksInv, LockTables
<1>4. ASSUME NEW r \in Requests, HandlerStep(r)
      PROVE  LocksInv'
  <2>1. StepOf(r) /\ OthersKept(r)
    BY <1>4, HandlerShape, OthersShape
  <2>2. LocksKept(r) /\ LockInv(r)' /\ used' <= DailyCap
    BY <1>0, <1>4, HandlerLocks DEF LocksInv
  <2>3. ASSUME NEW s \in Requests \ {r} PROVE LockInv(s)'
    <3>1. req'[s].pc = req[s].pc /\ req'[s].quote = req[s].quote /\ order'[s] = order[s]
      BY <2>1 DEF StepOf, OthersKept
    <3> QED
      BY <1>0, <2>2, <3>1, OthersLocks
  <2> QED
    BY <2>2, <2>3 DEF LocksInv
<1>5. ASSUME NEW r \in Requests, NEW outcome \in {"filled", "rejected"},
             OrderSettlesLate(r, outcome)
      PROVE  LocksInv'
  <2>1. /\ LockTables /\ req' = req /\ order[r] = "working"
        /\ order' = [order EXCEPT ![r] = outcome]
    BY <1>5 DEF OrderSettlesLate, locks, LockTables
  <2>2. \A s \in Requests : order'[s] # "none" => order[s] # "none"
    BY <2>1 DEF TypeOK
  <2>3. \A s \in Requests : LockInv(s)'
    BY <1>0, <2>1, <2>2, LockFrame
  <2> QED
    BY <2>1, <2>3 DEF LocksInv, LockTables
<1>6. ASSUME NEW r \in Requests, EndProtection(r)
      PROVE  LocksInv'
  <2>1. LockTables /\ order' = order
    BY <1>6 DEF EndProtection, locks, LockTables
  <2>2. \A s \in Requests : req'[s].pc = req[s].pc /\ req'[s].quote = req[s].quote
    BY <1>6, EndOK DEF EndProtection
  <2>3. \A s \in Requests : LockInv(s)'
    BY <1>0, <2>1, <2>2, LockFrame
  <2> QED
    BY <2>1, <2>3 DEF LocksInv, LockTables
<1>7. ASSUME NEW r \in Requests, ReconcileOrphan(r)
      PROVE  LocksInv'
  <2>1. LockTables /\ UNCHANGED <<req, order>>
    BY <1>7 DEF ReconcileOrphan, locks, LockTables
  <2>3. \A s \in Requests : LockInv(s)'
    BY <1>0, <2>1, LockFrame
  <2> QED
    BY <2>1, <2>3 DEF LocksInv, LockTables
<1>8. CASE Restart
  <2>1. UNCHANGED <<consumer, used, order>>
    BY <1>8 DEF Restart
  <2>2. ASSUME NEW s \in Requests PROVE LockInv(s)'
    <3>1. /\ req'[s].pc = "lost" \/ (req'[s].pc = req[s].pc /\ req[s].pc \in {"idle"} \cup OverPc)
          /\ req'[s].quote = req[s].quote
      BY <1>8, RestartOK DEF UnderWay
    <3>2. req'[s].pc \notin HoldPc \cup {"price", "execute"}
      BY <3>1 DEF HoldPc, OverPc
    <3> QED
      BY <1>0, <2>1, <3>1, <3>2 DEF LockInv, OneDay, HoldPc
  <2> QED
    BY <2>1, <2>2 DEF LocksInv
<1> QED
  BY <1>1, <1>2, <1>3, <1>4, <1>5, <1>6, <1>7, <1>8 DEF Next

-----------------------------------------------------------------------------
(* The capacity of the day.                                                *)

Balanced ==
  /\ repaired \subseteq Stored
  /\ used <= Cardinality(Charged)
  /\ Cardinality(Charged) <= used + Cardinality(Doubled)

\* A step that inserts no one-day row and gives nothing back.
LEMMA BalancedFrame ==
  ASSUME Balanced, used' = used, repaired' \subseteq repaired \cup Stored,
         \A s \in Requests :
           /\ req'[s].released = req[s].released
           /\ row[s] # "absent" => row'[s] # "absent" /\ req'[s].quote = req[s].quote
           /\ row[s] = "absent" =>
                /\ ~req[s].released \/ row'[s] = "absent"
                /\ row'[s] = "absent" \/ req'[s].quote \notin OneDayQuotes
  PROVE  Balanced'
<1>1. Charged' = Charged
  BY DEF Charged, Stored, OneDay
<1>2. Doubled' = Doubled
  BY DEF Doubled
<1>3. repaired' \subseteq Stored'
  BY DEF Balanced, Stored
<1> QED
  BY <1>1, <1>2, <1>3 DEF Balanced

LEMMA ChargedFinite ==
  /\ IsFiniteSet(Charged) /\ IsFiniteSet(Doubled)
  /\ Cardinality(Charged) \in Nat /\ Cardinality(Doubled) \in Nat
<1>1. IsFiniteSet(Charged) /\ IsFiniteSet(Doubled)
  BY RequestsAssumption, FS_Subset DEF Charged, Doubled, Stored
<1> QED
  BY <1>1, FS_CardinalityType

\* The committed transaction charges its row.
LEMMA InsertBalanced ==
  ASSUME TypeOK, NEW r \in Requests, LocalInv(r), Balanced, InsertAndConsume(r)
  PROVE  Balanced'
<1>1. /\ req[r].pc = "insert" /\ row' = [row EXCEPT ![r] = "pending_activation"]
      /\ used' = used + 1 /\ repaired' = repaired /\ GoTo(r, "price")
  BY DEF InsertAndConsume, At
<1>2. \A s \in Requests : req'[s].quote = req[s].quote /\ req'[s].released = req[s].released
  BY <1>1, GoToOK DEF StepTo, StepOf, Pc, OneDayPc
<1>3. row[r] = "absent" /\ ~req[r].released /\ OneDay(r)
  BY <1>1 DEF LocalInv, RowInv, ReleaseInv, QuoteKind, TxPc, OneDayPc, OverPc, OneDay
<1>4. row \in [Requests -> RowStatus]
  BY DEF TypeOK
<1>5. Charged' = Charged \cup {r} /\ r \notin Charged
  BY <1>1, <1>2, <1>3, <1>4 DEF Charged, Stored, OneDay
<1>6. Doubled' = Doubled /\ repaired' \subseteq Stored'
  BY <1>1, <1>2, <1>3, <1>4 DEF Doubled, Balanced, Stored
<1>7. Cardinality(Charged') = Cardinality(Charged) + 1
  BY <1>5, ChargedFinite, FS_AddElement
<1> QED
  BY <1>1, <1>6, <1>7, ChargedFinite DEF Balanced, TypeOK

\* Capacity that is given back is that of a row, or of a reservation that was
\* rolled back.
LEMMA ReleaseBalanced ==
  ASSUME TypeOK, NEW r \in Requests, LocalInv(r), Balanced, req[r].pc = "release",
         UNCHANGED <<row, repaired>>, used' = IF used = 0 THEN 0 ELSE used - 1,
         StepTo(r, "fail", TRUE, req[r].gaveUp, req[r].late)
  PROVE  Balanced'
<1>1. /\ \A s \in Requests : req'[s].quote = req[s].quote
      /\ \A s \in Requests \ {r} : req'[s].released = req[s].released
      /\ req'[r].released
  BY DEF StepTo, StepOf
<1>2. ~req[r].released /\ OneDay(r)
  BY DEF LocalInv, ReleaseInv, QuoteKind, OneDayPc, OverPc, OneDay
<1>3. repaired' \subseteq Stored'
  BY DEF Balanced, Stored
<1>4. used \in Nat
  BY DEF TypeOK
<1>5. CASE row[r] = "absent"
  <2>1. Charged' = Charged /\ Doubled' = Doubled \cup {r} /\ r \notin Doubled
    BY <1>1, <1>2, <1>5 DEF Charged, Doubled, Stored, OneDay
  <2>2. Cardinality(Doubled') = Cardinality(Doubled) + 1
    BY <2>1, ChargedFinite, FS_AddElement
  <2> QED
    BY <1>3, <1>4, <2>1, <2>2, ChargedFinite DEF Balanced
<1>6. CASE row[r] # "absent"
  <2>1. Charged' = Charged \ {r} /\ Doubled' = Doubled /\ r \in Charged
    BY <1>1, <1>2, <1>6 DEF Charged, Doubled, Stored, OneDay
  <2>2. Cardinality(Charged') = Cardinality(Charged) - 1
    BY <2>1, ChargedFinite, FS_RemoveElement
  <2>3. Cardinality(Charged') \in Nat
    BY <2>1, ChargedFinite, FS_RemoveElement, FS_CardinalityType
  <2> QED
    BY <1>3, <1>4, <2>1, <2>2, <2>3, ChargedFinite DEF Balanced
<1> QED
  BY <1>5, <1>6

\* Of the steps of a handler, these two alone move the balance.
LEMMA HandlerBalanced ==
  ASSUME TypeOK, NEW r \in Requests, LocalInv(r), Balanced, HandlerStep(r)
  PROVE  Balanced'
<1>0. /\ row \in [Requests -> RowStatus]
      /\ StepOf(r) /\ OthersKept(r) /\ Grown(r)
      /\ r \in repaired => row[r] # "absent"
  BY HandlerShape, OthersShape, HandlerGrown DEF TypeOK, Balanced, Stored
<1>a. ASSUME used' = used, req'[r].released = req[r].released,
             row'[r] = row[r] \/ row[r] # "absent" \/ (req[r].quote \notin OneDayQuotes /\ ~req[r].released)
      PROVE  Balanced'
  <2>1. \A s \in Requests :
           /\ req'[s].released = req[s].released
           /\ row[s] # "absent" => row'[s] # "absent" /\ req'[s].quote = req[s].quote
           /\ row[s] = "absent" =>
                /\ ~req[s].released \/ row'[s] = "absent"
                /\ row'[s] = "absent" \/ req'[s].quote \notin OneDayQuotes
    BY <1>0, <1>a DEF StepOf, OthersKept, Grown
  <2>2. repaired' = repaired
    BY <1>0 DEF OthersKept
  <2> QED
    BY <1>a, <2>1, <2>2, BalancedFrame
<1>b. /\ req[r].pc \in {"activate", "reconcile"} => row[r] # "absent"
      /\ req[r].pc = "bi insert" => req[r].quote \notin OneDayQuotes /\ ~req[r].released
  BY <1>0, QuotesAssumption DEF LocalInv, RowInv, ReleaseInv, QuoteKind, BiweeklyPc, OverPc
<1>1. CASE LockQuote(r)
  <2>1. used' = used /\ req'[r].released = req[r].released
    BY <1>1, GoToOK DEF LockQuote, StepTo, Pc, OneDayPc, TxPc, FillPc, BiweeklyPc, OverPc
  <2>2. row' = row
    BY <1>1 DEF LockQuote, At
  <2> QED
    BY <1>a, <2>1, <2>2
<1>2. CASE Replay(r)
  <2>1. used' = used /\ req'[r].released = req[r].released
    BY <1>2, GoToOK DEF Replay, StepTo, Pc, OneDayPc, TxPc, FillPc, BiweeklyPc, OverPc
  <2>2. row' = row
    BY <1>2 DEF Replay, At
  <2> QED
    BY <1>a, <2>1, <2>2
<1>3. CASE Refuse(r)
  <2>1. used' = used /\ req'[r].released = req[r].released
    BY <1>3, GoToOK DEF Refuse, StepTo, Pc, OneDayPc, TxPc, FillPc, BiweeklyPc, OverPc
  <2>2. row' = row
    BY <1>3 DEF Refuse, At
  <2> QED
    BY <1>a, <2>1, <2>2
<1>4. CASE ReadBudget(r)
  <2>1. used' = used /\ req'[r].released = req[r].released
    BY <1>4, GoToOK DEF ReadBudget, StepTo, Pc, OneDayPc, TxPc, FillPc, BiweeklyPc,
        OverPc
  <2>2. row' = row
    BY <1>4 DEF ReadBudget, At
  <2> QED
    BY <1>a, <2>1, <2>2
<1>5. CASE ReadAggregate(r)
  <2>1. used' = used /\ req'[r].released = req[r].released
    BY <1>5, GoToOK DEF ReadAggregate, StepTo, Pc, OneDayPc, TxPc, FillPc, BiweeklyPc,
        OverPc
  <2>2. row' = row
    BY <1>5 DEF ReadAggregate, At
  <2> QED
    BY <1>a, <2>1, <2>2
<1>6. CASE ReserveCapacity(r)
  <2>1. used' = used /\ req'[r].released = req[r].released
    BY <1>6, ReservedOK DEF ReserveCapacity, StepTo, Pc, OneDayPc, TxPc, FillPc,
        BiweeklyPc, OverPc
  <2>2. row' = row
    BY <1>6 DEF ReserveCapacity, At
  <2> QED
    BY <1>a, <2>1, <2>2
<1>7. CASE CapacityExceeded(r)
  <2>1. used' = used /\ req'[r].released = req[r].released
    BY <1>7, GoToOK DEF CapacityExceeded, StepTo, Pc, OneDayPc, TxPc, FillPc, BiweeklyPc,
        OverPc
  <2>2. row' = row
    BY <1>7 DEF CapacityExceeded, At
  <2> QED
    BY <1>a, <2>1, <2>2
<1>8. CASE InsertAndConsume(r)
  BY <1>8, InsertBalanced
<1>9. CASE TransactionFails(r)
  <2>1. used' = used /\ req'[r].released = req[r].released
    BY <1>9, GoToOK DEF TransactionFails, StepTo, Pc, OneDayPc, TxPc, FillPc, BiweeklyPc,
        OverPc
  <2>2. row' = row
    BY <1>9 DEF TransactionFails, At
  <2> QED
    BY <1>a, <2>1, <2>2
<1>10. CASE ReadPrice(r)
  <2>1. used' = used /\ req'[r].released = req[r].released
    BY <1>10, GoToOK DEF ReadPrice, StepTo, Pc, OneDayPc, TxPc, FillPc, BiweeklyPc, OverPc
  <2>2. row' = row
    BY <1>10 DEF ReadPrice, At
  <2> QED
    BY <1>a, <2>1, <2>2
<1>11. CASE CheckFill(r)
  <2>1. used' = used /\ req'[r].released = req[r].released
    BY <1>11, GoToOK DEF CheckFill, StepTo, Pc, OneDayPc, TxPc, FillPc, BiweeklyPc, OverPc
  <2>2. row' = row
    BY <1>11 DEF CheckFill, At
  <2> QED
    BY <1>a, <2>1, <2>2
<1>12. CASE InsertExecution(r)
  <2>1. used' = used /\ req'[r].released = req[r].released
    BY <1>12, GoToOK DEF InsertExecution, StepTo, Pc, OneDayPc, TxPc, FillPc, BiweeklyPc,
        OverPc
  <2>2. row' = row
    BY <1>12 DEF InsertExecution, At
  <2> QED
    BY <1>a, <2>1, <2>2
<1>13. CASE BookPremium(r)
  <2>1. used' = used /\ req'[r].released = req[r].released
    BY <1>13, GoToOK DEF BookPremium, StepTo, Pc, OneDayPc, TxPc, FillPc, BiweeklyPc,
        OverPc
  <2>2. row' = row
    BY <1>13 DEF BookPremium, At
  <2> QED
    BY <1>a, <2>1, <2>2
<1>14. CASE Activate(r)
  <2>1. used' = used /\ req'[r].released = req[r].released
    BY <1>14, GoToOK DEF Activate, StepTo, Pc, OneDayPc, TxPc, FillPc, BiweeklyPc, OverPc
  <2>2. row[r] # "absent"
    BY <1>14, <1>b DEF Activate, At
  <2> QED
    BY <1>a, <2>1, <2>2
<1>15. CASE BookPool(r)
  <2>1. used' = used /\ req'[r].released = req[r].released
    BY <1>15, GoToOK DEF BookPool, StepTo, Pc, OneDayPc, TxPc, FillPc, BiweeklyPc, OverPc
  <2>2. row' = row
    BY <1>15 DEF BookPool, At
  <2> QED
    BY <1>a, <2>1, <2>2
<1>16. CASE MarkReconcilePending(r)
  <2>1. used' = used /\ req'[r].released = req[r].released
    BY <1>16, ClosingOK, GiveUpOK DEF MarkReconcilePending, StepTo, Pc, OneDayPc, TxPc,
        FillPc, BiweeklyPc, OverPc
  <2>2. row[r] # "absent"
    BY <1>16, <1>b DEF MarkReconcilePending, At
  <2> QED
    BY <1>a, <2>1, <2>2
<1>17. CASE ReleaseCapacity(r)
  <2>0. req[r].pc = "release" /\ UNCHANGED <<row, repaired>>
    BY <1>17 DEF ReleaseCapacity, At
  <2>1. CASE GiveUp(r, "fail") /\ used' = used
    BY <1>a, <2>0, <2>1, GiveUpOK DEF StepTo, Pc, OneDayPc
  <2>2. CASE /\ used' = IF used = 0 THEN 0 ELSE used - 1
             /\ req' = [req EXCEPT ![r].pc = "fail", ![r].released = TRUE]
    BY <2>0, <2>2, ReleasedOK, ReleaseBalanced
  <2> QED
    BY <1>17, <2>1, <2>2 DEF ReleaseCapacity
<1>18. CASE MarkFailed(r)
  <2>1. used' = used /\ req'[r].released = req[r].released
    BY <1>18, ClosingOK, GiveUpOK DEF MarkFailed, StepTo, Pc, OneDayPc, TxPc, FillPc,
        BiweeklyPc, OverPc
  <2>2. row'[r] = row[r] \/ row[r] # "absent"
    BY <1>18, <1>0 DEF MarkFailed, At
  <2> QED
    BY <1>a, <2>1, <2>2
<1>19. CASE LookupQuote(r)
  <2>1. used' = used /\ req'[r].released = req[r].released
    BY <1>19, GoToOK DEF LookupQuote, StepTo, Pc, OneDayPc, TxPc, FillPc, BiweeklyPc,
        OverPc
  <2>2. row' = row
    BY <1>19 DEF LookupQuote, At
  <2> QED
    BY <1>a, <2>1, <2>2
<1>20. CASE CountActivations(r)
  <2>1. used' = used /\ req'[r].released = req[r].released
    BY <1>20, GoToOK, UncountedOK DEF CountActivations, StepTo, Pc, OneDayPc, TxPc,
        FillPc, BiweeklyPc, OverPc
  <2>2. row' = row
    BY <1>20 DEF CountActivations, At
  <2> QED
    BY <1>a, <2>1, <2>2
<1>21. CASE ReadBiweeklyBudget(r)
  <2>1. used' = used /\ req'[r].released = req[r].released
    BY <1>21, GoToOK DEF ReadBiweeklyBudget, StepTo, Pc, OneDayPc, TxPc, FillPc,
        BiweeklyPc, OverPc
  <2>2. row' = row
    BY <1>21 DEF ReadBiweeklyBudget, At
  <2> QED
    BY <1>a, <2>1, <2>2
<1>22. CASE InsertBiweekly(r)
  <2>1. used' = used /\ req'[r].released = req[r].released
    BY <1>22, GoToOK, GiveUpOK DEF InsertBiweekly, StepTo, Pc, OneDayPc, TxPc, FillPc,
        BiweeklyPc, OverPc
  <2>2. req[r].quote \notin OneDayQuotes /\ ~req[r].released
    BY <1>22, <1>b DEF InsertBiweekly, At
  <2> QED
    BY <1>a, <2>1, <2>2
<1>23. CASE InsertBiweeklyExecution(r)
  <2>1. used' = used /\ req'[r].released = req[r].released
    BY <1>23, GoToOK, GiveUpOK DEF InsertBiweeklyExecution, StepTo, Pc, OneDayPc, TxPc,
        FillPc, BiweeklyPc, OverPc
  <2>2. row' = row
    BY <1>23 DEF InsertBiweeklyExecution, At
  <2> QED
    BY <1>a, <2>1, <2>2
<1>24. CASE HydrateRow(r)
  <2>1. used' = used /\ req'[r].released = req[r].released
    BY <1>24, GoToOK, GiveUpOK DEF HydrateRow, StepTo, Pc, OneDayPc, TxPc, FillPc,
        BiweeklyPc, OverPc
  <2>2. row' = row
    BY <1>24 DEF HydrateRow, At
  <2> QED
    BY <1>a, <2>1, <2>2
<1>25. CASE ConsumeAfterwards(r)
  <2>1. used' = used /\ req'[r].released = req[r].released
    BY <1>25, GoToOK, GiveUpOK DEF ConsumeAfterwards, StepTo, Pc, OneDayPc, TxPc, FillPc,
        BiweeklyPc, OverPc
  <2>2. row' = row
    BY <1>25 DEF ConsumeAfterwards, At
  <2> QED
    BY <1>a, <2>1, <2>2
<1>26. CASE SendOrder(r)
  <2>1. used' = used /\ req'[r].released = req[r].released
    BY <1>26, WaitingOK DEF SendOrder, StepTo, Pc, OneDayPc, TxPc, FillPc, BiweeklyPc,
        OverPc
  <2>2. row' = row
    BY <1>26 DEF SendOrder, At
  <2> QED
    BY <1>a, <2>1, <2>2
<1>27. CASE \E outcome \in {"filled", "rejected"} : OrderAnswered(r, outcome)
  <2> PICK outcome \in {"filled", "rejected"} : OrderAnswered(r, outcome)
    BY <1>27
  <2>1. AfterOrder(r, outcome) \in Pc
    BY DEF AfterOrder, Pc, OneDayPc, FillPc, BiweeklyPc, OverPc
  <2>2. used' = used /\ row' = row /\ GoTo(r, AfterOrder(r, outcome))
    BY DEF OrderAnswered
  <2> QED
    BY <1>a, <2>1, <2>2, GoToOK DEF StepTo
<1>28. CASE OrderTimesOut(r)
  <2>1. PICK pc \in Pc : req' = [req EXCEPT ![r] = [MovedTo(r, pc) EXCEPT !.late = TRUE]]
    <3>1. CASE OneDay(r)
      BY <1>28, <3>1 DEF OrderTimesOut, Pc, OneDayPc
    <3>2. CASE ~OneDay(r)
      BY <1>28, <3>2 DEF OrderTimesOut, Pc, OverPc
    <3> QED
      BY <3>1, <3>2
  <2>2. used' = used /\ row' = row
    BY <1>28 DEF OrderTimesOut
  <2> QED
    BY <1>a, <2>1, <2>2, TimedOutOK DEF StepTo
<1> QED
  BY <1>1, <1>2, <1>3, <1>4, <1>5, <1>6, <1>7, <1>8, <1>9, <1>10, <1>11, <1>12, <1>13,
      <1>14, <1>15, <1>16, <1>17, <1>18, <1>19, <1>20, <1>21, <1>22, <1>23, <1>24,
      <1>25, <1>26, <1>27, <1>28 DEF HandlerStep, OneDayStep, BiweeklyStep, VenueStep

LEMMA BalancedInit == Init => Balanced
<1> SUFFICES ASSUME Init PROVE Balanced
  OBVIOUS
<1>1. Charged = {} /\ used = 0 /\ repaired = {}
  BY DEF Init, Charged, Stored
<1> QED
  BY <1>1, FS_EmptySet, ChargedFinite DEF Balanced

LEMMA BalancedStep ==
  ASSUME TypeOK, \A r \in Requests : LocalInv(r), Balanced, [Next]_vars
  PROVE  Balanced'
<1>1. CASE UNCHANGED vars
  BY <1>1, BalancedFrame DEF vars
<1>2. CASE AllOver
  BY <1>1, <1>2 DEF AllOver
<1>3. ASSUME NEW r \in Requests, NEW q \in Quotes, Arrive(r, q)
      PROVE  Balanced'
  <2>1. UNCHANGED <<row, used, repaired>> /\ req[r].pc = "idle"
    BY <1>3 DEF Arrive, At
  <2>2. row[r] = "absent" /\ ~req[r].released
    BY <2>1 DEF LocalInv, RowInv, ReleaseInv, OverPc
  <2>3. ~req'[r].released
    BY <1>3, ArriveOK
  <2>4. req'[r].released = req[r].released
    <3>1. req[r].released \in BOOLEAN /\ req'[r].released \in BOOLEAN
      BY <1>3, ArriveOK DEF TypeOK, Handler
    <3> QED
      BY <2>2, <2>3, <3>1
  <2>5. \A s \in Requests \ {r} : req'[s].quote = req[s].quote /\ req'[s].released = req[s].released
    BY <1>3, ArriveOK
  <2> QED
    BY <2>1, <2>2, <2>4, <2>5, BalancedFrame
<1>4. ASSUME NEW r \in Requests, HandlerStep(r)
      PROVE  Balanced'
  BY <1>4, HandlerBalanced
<1>5. ASSUME NEW r \in Requests, NEW outcome \in {"filled", "rejected"},
             OrderSettlesLate(r, outcome)
      PROVE  Balanced'
  <2>1. UNCHANGED <<row, used, repaired, req>>
    BY <1>5 DEF OrderSettlesLate
  <2> QED
    BY <2>1, BalancedFrame
<1>6. ASSUME NEW r \in Requests, EndProtection(r)
      PROVE  Balanced'
  <2>1. row[r] = "active" /\ row' = [row EXCEPT ![r] = "ended"] /\ UNCHANGED <<used, repaired>>
    BY <1>6 DEF EndProtection
  <2>2. \A s \in Requests : req'[s].quote = req[s].quote /\ req'[s].released = req[s].released
    BY <1>6, EndOK DEF EndProtection
  <2>3. \A s \in Requests : row[s] = "absent" <=> row'[s] = "absent"
    BY <2>1 DEF TypeOK
  <2> QED
    BY <2>1, <2>2, <2>3, BalancedFrame
<1>7. ASSUME NEW r \in Requests, ReconcileOrphan(r)
      PROVE  Balanced'
  <2>1. /\ row[r] # "absent" /\ row' = [row EXCEPT ![r] = "active"]
        /\ repaired' = repaired \cup {r} /\ UNCHANGED <<used, req>>
    BY <1>7 DEF ReconcileOrphan
  <2>2. r \in Stored
    BY <2>1 DEF Stored
  <2>3. \A s \in Requests : row[s] = "absent" <=> row'[s] = "absent"
    BY <2>1 DEF TypeOK
  <2> QED
    BY <2>1, <2>2, <2>3, BalancedFrame
<1>8. CASE Restart
  <2>1. UNCHANGED <<row, used, repaired>>
    BY <1>8 DEF Restart
  <2>2. \A s \in Requests : req'[s].quote = req[s].quote /\ req'[s].released = req[s].released
    BY <1>8, RestartOK
  <2> QED
    BY <2>1, <2>2, BalancedFrame
<1> QED
  BY <1>1, <1>2, <1>3, <1>4, <1>5, <1>6, <1>7, <1>8 DEF Next

\* The committed usage never passes the daily cap, and it is the number of rows
\* that hold capacity, less what was given back twice: whatever the requests,
\* however the reservations, releases, failures and restarts interleave.
THEOREM CapacityProtected == Spec => []CapacityAccounted
<1> DEFINE Inv == /\ TypeOK
                  /\ \A r \in Requests : LocalInv(r)
                  /\ LocksInv
                  /\ Balanced
<1>1. Init => Inv
  BY InitTypeOK, LocalInit, LocksInit, BalancedInit
<1>2. Inv /\ [Next]_vars => Inv'
  BY StepTypeOK, LocalStep, LocksStep, BalancedStep
<1>3. Inv => CapacityAccounted
  BY DEF LocksInv, Balanced, CapacityAccounted, LocalInv, ReleaseInv
<1> QED
  BY <1>1, <1>2, <1>3, PTL DEF Spec

-----------------------------------------------------------------------------
(* One quote, one hedge.                                                   *)

\* Between the read of consumed_at and the order of a biweekly request.
BuyPc == {"count", "bi budget", "bi execute"}

\* Requests under way together know of each other.
PairInv(r) ==
  \A s \in Requests \ {r} : UnderWay(r) /\ UnderWay(s) => s \in req[r].during

\* Whoever bought on a biweekly quote and is done consumed it, or failed to.
BoughtInv(r) ==
  Biweekly(r) /\ req[r].pc = "done" /\ order[r] = "filled" /\ ~req[r].gaveUp /\ ~req[r].late =>
    consumer[req[r].quote] # NoHolder

\* Whoever bought before r buys was under way with it, or failed to say so.
BuyerInv(r) ==
  \A s \in Requests \ {r} :
    req[r].pc \in BuyPc /\ req[r].quote = req[s].quote /\ order[s] = "filled" =>
      s \in req[r].during \/ req[s].gaveUp \/ req[s].late \/ req[s].pc = "lost"

BuyInv(r) == PairInv(r) /\ BoughtInv(r) /\ BuyerInv(r)

\* What a step of the handler of r does to these.
Buying(r) ==
  /\ UnderWay(r)
  /\ req[r].gaveUp => req'[r].gaveUp
  /\ req[r].late => req'[r].late
  /\ \A q \in Quotes : consumer[q] # NoHolder => consumer'[q] # NoHolder
  /\ BoughtInv(r)'
  /\ req'[r].pc \in BuyPc =>
       req[r].pc \in BuyPc \/ (req[r].pc = "lookup" /\ consumer[req[r].quote] = NoHolder)

LEMMA HandlerBuying ==
  ASSUME TypeOK, NEW r \in Requests, LocalInv(r), HandlerStep(r)
  PROVE  Buying(r)
<1>0. /\ req'[r].quote = req[r].quote
      /\ consumer \in [Quotes -> Requests \cup {NoHolder}]
      /\ order \in [Requests -> OrderStatus]
      /\ r # NoHolder
  BY HandlerShape, HolderAssumption DEF StepOf, TypeOK
<1>a. /\ req[r].pc \in OneDayPc => ~Biweekly(r)
      /\ req[r].pc \in {"lookup", "count", "bi budget"} => order[r] = "none"
      /\ req[r].pc \in BiweeklyPc => req[r].quote \in Quotes
  BY QuotesAssumption DEF LocalInv, QuoteKind, OrderInv, Biweekly, BiweeklyPc, Quotes
<1>1. CASE LockQuote(r)
  <2>1. req[r].pc = "lock" /\ req'[r].pc = "budget"
    BY <1>1, GoToOK DEF LockQuote, At, StepTo, Pc, OneDayPc, TxPc, FillPc, BiweeklyPc,
        OverPc
  <2>2. (req[r].gaveUp => req'[r].gaveUp) /\ (req[r].late => req'[r].late)
    BY <1>1, GoToOK DEF LockQuote, At, StepTo, Pc, OneDayPc, TxPc, FillPc, BiweeklyPc,
        OverPc
  <2>3. consumer' = consumer
    BY <1>1 DEF LockQuote
  <2>4. req[r].pc \in OneDayPc
    BY <2>1 DEF OneDayPc, TxPc, FillPc
  <2>5. ~Biweekly(r)'
    BY <1>0, <1>a, <2>4 DEF Biweekly
  <2> QED
    BY <1>0, <2>1, <2>2, <2>3, <2>5 DEF Buying, BuyPc, BoughtInv, UnderWay, OverPc
<1>2. CASE Replay(r)
  <2>1. req[r].pc = "lock" /\ req'[r].pc = "done"
    BY <1>2, GoToOK DEF Replay, At, StepTo, Pc, OneDayPc, TxPc, FillPc, BiweeklyPc,
        OverPc
  <2>2. (req[r].gaveUp => req'[r].gaveUp) /\ (req[r].late => req'[r].late)
    BY <1>2, GoToOK DEF Replay, At, StepTo, Pc, OneDayPc, TxPc, FillPc, BiweeklyPc,
        OverPc
  <2>3. consumer' = consumer
    BY <1>2 DEF Replay
  <2>4. req[r].pc \in OneDayPc
    BY <2>1 DEF OneDayPc, TxPc, FillPc
  <2>5. ~Biweekly(r)'
    BY <1>0, <1>a, <2>4 DEF Biweekly
  <2> QED
    BY <1>0, <2>1, <2>2, <2>3, <2>5 DEF Buying, BuyPc, BoughtInv, UnderWay, OverPc
<1>3. CASE Refuse(r)
  <2>1. req[r].pc \in TxPc /\ req'[r].pc = "done"
    BY <1>3, GoToOK DEF Refuse, At, StepTo, Pc, OneDayPc, TxPc, FillPc, BiweeklyPc,
        OverPc
  <2>2. (req[r].gaveUp => req'[r].gaveUp) /\ (req[r].late => req'[r].late)
    BY <1>3, GoToOK DEF Refuse, At, StepTo, Pc, OneDayPc, TxPc, FillPc, BiweeklyPc,
        OverPc
  <2>3. consumer' = consumer
    BY <1>3 DEF Refuse
  <2>4. req[r].pc \in OneDayPc
    BY <2>1 DEF OneDayPc, TxPc, FillPc
  <2>5. ~Biweekly(r)'
    BY <1>0, <1>a, <2>4 DEF Biweekly
  <2> QED
    BY <1>0, <2>1, <2>2, <2>3, <2>5 DEF Buying, BuyPc, BoughtInv, UnderWay, OverPc, TxPc
<1>4. CASE ReadBudget(r)
  <2>1. req[r].pc = "budget" /\ req'[r].pc \in {"aggregate", "done"}
    BY <1>4, GoToOK DEF ReadBudget, At, StepTo, Pc, OneDayPc, TxPc, FillPc, BiweeklyPc,
        OverPc
  <2>2. (req[r].gaveUp => req'[r].gaveUp) /\ (req[r].late => req'[r].late)
    BY <1>4, GoToOK DEF ReadBudget, At, StepTo, Pc, OneDayPc, TxPc, FillPc, BiweeklyPc,
        OverPc
  <2>3. consumer' = consumer
    BY <1>4 DEF ReadBudget
  <2>4. req[r].pc \in OneDayPc
    BY <2>1 DEF OneDayPc, TxPc, FillPc
  <2>5. ~Biweekly(r)'
    BY <1>0, <1>a, <2>4 DEF Biweekly
  <2> QED
    BY <1>0, <2>1, <2>2, <2>3, <2>5 DEF Buying, BuyPc, BoughtInv, UnderWay, OverPc
<1>5. CASE ReadAggregate(r)
  <2>1. req[r].pc = "aggregate" /\ req'[r].pc \in {"reserve", "done"}
    BY <1>5, GoToOK DEF ReadAggregate, At, StepTo, Pc, OneDayPc, TxPc, FillPc,
        BiweeklyPc, OverPc
  <2>2. (req[r].gaveUp => req'[r].gaveUp) /\ (req[r].late => req'[r].late)
    BY <1>5, GoToOK DEF ReadAggregate, At, StepTo, Pc, OneDayPc, TxPc, FillPc,
        BiweeklyPc, OverPc
  <2>3. consumer' = consumer
    BY <1>5 DEF ReadAggregate
  <2>4. req[r].pc \in OneDayPc
    BY <2>1 DEF OneDayPc, TxPc, FillPc
  <2>5. ~Biweekly(r)'
    BY <1>0, <1>a, <2>4 DEF Biweekly
  <2> QED
    BY <1>0, <2>1, <2>2, <2>3, <2>5 DEF Buying, BuyPc, BoughtInv, UnderWay, OverPc
<1>6. CASE ReserveCapacity(r)
  <2>1. req[r].pc = "reserve" /\ req'[r].pc = "insert"
    BY <1>6, ReservedOK DEF ReserveCapacity, At, StepTo, Pc, OneDayPc, TxPc, FillPc,
        BiweeklyPc, OverPc
  <2>2. (req[r].gaveUp => req'[r].gaveUp) /\ (req[r].late => req'[r].late)
    BY <1>6, ReservedOK DEF ReserveCapacity, At, StepTo, Pc, OneDayPc, TxPc, FillPc,
        BiweeklyPc, OverPc
  <2>3. consumer' = consumer
    BY <1>6 DEF ReserveCapacity
  <2>4. req[r].pc \in OneDayPc
    BY <2>1 DEF OneDayPc, TxPc, FillPc
  <2>5. ~Biweekly(r)'
    BY <1>0, <1>a, <2>4 DEF Biweekly
  <2> QED
    BY <1>0, <2>1, <2>2, <2>3, <2>5 DEF Buying, BuyPc, BoughtInv, UnderWay, OverPc
<1>7. CASE CapacityExceeded(r)
  <2>1. req[r].pc = "reserve" /\ req'[r].pc = "done"
    BY <1>7, GoToOK DEF CapacityExceeded, At, StepTo, Pc, OneDayPc, TxPc, FillPc,
        BiweeklyPc, OverPc
  <2>2. (req[r].gaveUp => req'[r].gaveUp) /\ (req[r].late => req'[r].late)
    BY <1>7, GoToOK DEF CapacityExceeded, At, StepTo, Pc, OneDayPc, TxPc, FillPc,
        BiweeklyPc, OverPc
  <2>3. consumer' = consumer
    BY <1>7 DEF CapacityExceeded
  <2>4. req[r].pc \in OneDayPc
    BY <2>1 DEF OneDayPc, TxPc, FillPc
  <2>5. ~Biweekly(r)'
    BY <1>0, <1>a, <2>4 DEF Biweekly
  <2> QED
    BY <1>0, <2>1, <2>2, <2>3, <2>5 DEF Buying, BuyPc, BoughtInv, UnderWay, OverPc
<1>8. CASE InsertAndConsume(r)
  <2>1. req[r].pc = "insert" /\ req'[r].pc = "price"
    BY <1>8, GoToOK DEF InsertAndConsume, At, StepTo, Pc, OneDayPc, TxPc, FillPc,
        BiweeklyPc, OverPc
  <2>2. (req[r].gaveUp => req'[r].gaveUp) /\ (req[r].late => req'[r].late)
    BY <1>8, GoToOK DEF InsertAndConsume, At, StepTo, Pc, OneDayPc, TxPc, FillPc,
        BiweeklyPc, OverPc
  <2>3. consumer' = [consumer EXCEPT ![req[r].quote] = r]
    BY <1>8 DEF InsertAndConsume
  <2>4. req[r].pc \in OneDayPc
    BY <2>1 DEF OneDayPc, TxPc, FillPc
  <2>5. ~Biweekly(r)'
    BY <1>0, <1>a, <2>4 DEF Biweekly
  <2> QED
    BY <1>0, <2>1, <2>2, <2>3, <2>5 DEF Buying, BuyPc, BoughtInv, UnderWay, OverPc
<1>9. CASE TransactionFails(r)
  <2>1. req[r].pc \in TxPc /\ req'[r].pc \in {"done", "release"}
    BY <1>9, GoToOK DEF TransactionFails, At, StepTo, Pc, OneDayPc, TxPc, FillPc,
        BiweeklyPc, OverPc
  <2>2. (req[r].gaveUp => req'[r].gaveUp) /\ (req[r].late => req'[r].late)
    BY <1>9, GoToOK DEF TransactionFails, At, StepTo, Pc, OneDayPc, TxPc, FillPc,
        BiweeklyPc, OverPc
  <2>3. consumer' = consumer
    BY <1>9 DEF TransactionFails
  <2>4. req[r].pc \in OneDayPc
    BY <2>1 DEF OneDayPc, TxPc, FillPc
  <2>5. ~Biweekly(r)'
    BY <1>0, <1>a, <2>4 DEF Biweekly
  <2> QED
    BY <1>0, <2>1, <2>2, <2>3, <2>5 DEF Buying, BuyPc, BoughtInv, UnderWay, OverPc, TxPc
<1>10. CASE ReadPrice(r)
  <2>1. req[r].pc = "price" /\ req'[r].pc \in {"execute", "release"}
    BY <1>10, GoToOK DEF ReadPrice, At, StepTo, Pc, OneDayPc, TxPc, FillPc, BiweeklyPc,
        OverPc
  <2>2. (req[r].gaveUp => req'[r].gaveUp) /\ (req[r].late => req'[r].late)
    BY <1>10, GoToOK DEF ReadPrice, At, StepTo, Pc, OneDayPc, TxPc, FillPc, BiweeklyPc,
        OverPc
  <2>3. consumer' = consumer
    BY <1>10 DEF ReadPrice
  <2>4. req[r].pc \in OneDayPc
    BY <2>1 DEF OneDayPc, TxPc, FillPc
  <2>5. ~Biweekly(r)'
    BY <1>0, <1>a, <2>4 DEF Biweekly
  <2> QED
    BY <1>0, <2>1, <2>2, <2>3, <2>5 DEF Buying, BuyPc, BoughtInv, UnderWay, OverPc
<1>11. CASE CheckFill(r)
  <2>1. req[r].pc = "check" /\ req'[r].pc \in {"execution", "reconcile"}
    BY <1>11, GoToOK DEF CheckFill, At, StepTo, Pc, OneDayPc, TxPc, FillPc, BiweeklyPc,
        OverPc
  <2>2. (req[r].gaveUp => req'[r].gaveUp) /\ (req[r].late => req'[r].late)
    BY <1>11, GoToOK DEF CheckFill, At, StepTo, Pc, OneDayPc, TxPc, FillPc, BiweeklyPc,
        OverPc
  <2>3. consumer' = consumer
    BY <1>11 DEF CheckFill
  <2>4. req[r].pc \in OneDayPc
    BY <2>1 DEF OneDayPc, TxPc, FillPc
  <2>5. ~Biweekly(r)'
    BY <1>0, <1>a, <2>4 DEF Biweekly
  <2> QED
    BY <1>0, <2>1, <2>2, <2>3, <2>5 DEF Buying, BuyPc, BoughtInv, UnderWay, OverPc
<1>12. CASE InsertExecution(r)
  <2>1. req[r].pc = "execution" /\ req'[r].pc \in {"due", "reconcile"}
    BY <1>12, GoToOK DEF InsertExecution, At, StepTo, Pc, OneDayPc, TxPc, FillPc,
        BiweeklyPc, OverPc
  <2>2. (req[r].gaveUp => req'[r].gaveUp) /\ (req[r].late => req'[r].late)
    BY <1>12, GoToOK DEF InsertExecution, At, StepTo, Pc, OneDayPc, TxPc, FillPc,
        BiweeklyPc, OverPc
  <2>3. consumer' = consumer
    BY <1>12 DEF InsertExecution
  <2>4. req[r].pc \in OneDayPc
    BY <2>1 DEF OneDayPc, TxPc, FillPc
  <2>5. ~Biweekly(r)'
    BY <1>0, <1>a, <2>4 DEF Biweekly
  <2> QED
    BY <1>0, <2>1, <2>2, <2>3, <2>5 DEF Buying, BuyPc, BoughtInv, UnderWay, OverPc
<1>13. CASE BookPremium(r)
  <2>1. req[r].pc = "due" /\ req'[r].pc \in {"activate", "reconcile"}
    BY <1>13, GoToOK DEF BookPremium, At, StepTo, Pc, OneDayPc, TxPc, FillPc, BiweeklyPc,
        OverPc
  <2>2. (req[r].gaveUp => req'[r].gaveUp) /\ (req[r].late => req'[r].late)
    BY <1>13, GoToOK DEF BookPremium, At, StepTo, Pc, OneDayPc, TxPc, FillPc, BiweeklyPc,
        OverPc
  <2>3. consumer' = consumer
    BY <1>13 DEF BookPremium
  <2>4. req[r].pc \in OneDayPc
    BY <2>1 DEF OneDayPc, TxPc, FillPc
  <2>5. ~Biweekly(r)'
    BY <1>0, <1>a, <2>4 DEF Biweekly
  <2> QED
    BY <1>0, <2>1, <2>2, <2>3, <2>5 DEF Buying, BuyPc, BoughtInv, UnderWay, OverPc
<1>14. CASE Activate(r)
  <2>1. req[r].pc = "activate" /\ req'[r].pc \in {"book", "reconcile"}
    BY <1>14, GoToOK DEF Activate, At, StepTo, Pc, OneDayPc, TxPc, FillPc, BiweeklyPc,
        OverPc
  <2>2. (req[r].gaveUp => req'[r].gaveUp) /\ (req[r].late => req'[r].late)
    BY <1>14, GoToOK DEF Activate, At, StepTo, Pc, OneDayPc, TxPc, FillPc, BiweeklyPc,
        OverPc
  <2>3. consumer' = consumer
    BY <1>14 DEF Activate
  <2>4. req[r].pc \in OneDayPc
    BY <2>1 DEF OneDayPc, TxPc, FillPc
  <2>5. ~Biweekly(r)'
    BY <1>0, <1>a, <2>4 DEF Biweekly
  <2> QED
    BY <1>0, <2>1, <2>2, <2>3, <2>5 DEF Buying, BuyPc, BoughtInv, UnderWay, OverPc
<1>15. CASE BookPool(r)
  <2>1. req[r].pc = "book" /\ req'[r].pc = "done"
    BY <1>15, GoToOK DEF BookPool, At, StepTo, Pc, OneDayPc, TxPc, FillPc, BiweeklyPc,
        OverPc
  <2>2. (req[r].gaveUp => req'[r].gaveUp) /\ (req[r].late => req'[r].late)
    BY <1>15, GoToOK DEF BookPool, At, StepTo, Pc, OneDayPc, TxPc, FillPc, BiweeklyPc,
        OverPc
  <2>3. consumer' = consumer
    BY <1>15 DEF BookPool
  <2>4. req[r].pc \in OneDayPc
    BY <2>1 DEF OneDayPc, TxPc, FillPc
  <2>5. ~Biweekly(r)'
    BY <1>0, <1>a, <2>4 DEF Biweekly
  <2> QED
    BY <1>0, <2>1, <2>2, <2>3, <2>5 DEF Buying, BuyPc, BoughtInv, UnderWay, OverPc
<1>16. CASE MarkReconcilePending(r)
  <2>1. req[r].pc = "reconcile" /\ req'[r].pc = "done"
    BY <1>16, ClosingOK, GiveUpOK DEF MarkReconcilePending, At, StepTo, Pc, OneDayPc,
        TxPc, FillPc, BiweeklyPc, OverPc
  <2>2. (req[r].gaveUp => req'[r].gaveUp) /\ (req[r].late => req'[r].late)
    BY <1>16, ClosingOK, GiveUpOK DEF MarkReconcilePending, At, StepTo, Pc, OneDayPc,
        TxPc, FillPc, BiweeklyPc, OverPc
  <2>3. consumer' = consumer
    BY <1>16 DEF MarkReconcilePending
  <2>4. req[r].pc \in OneDayPc
    BY <2>1 DEF OneDayPc, TxPc, FillPc
  <2>5. ~Biweekly(r)'
    BY <1>0, <1>a, <2>4 DEF Biweekly
  <2> QED
    BY <1>0, <2>1, <2>2, <2>3, <2>5 DEF Buying, BuyPc, BoughtInv, UnderWay, OverPc
<1>17. CASE ReleaseCapacity(r)
  <2>1. req[r].pc = "release" /\ req'[r].pc = "fail"
    BY <1>17, ReleasedOK, GiveUpOK DEF ReleaseCapacity, At, StepTo, Pc, OneDayPc, TxPc,
        FillPc, BiweeklyPc, OverPc
  <2>2. (req[r].gaveUp => req'[r].gaveUp) /\ (req[r].late => req'[r].late)
    BY <1>17, ReleasedOK, GiveUpOK DEF ReleaseCapacity, At, StepTo, Pc, OneDayPc, TxPc,
        FillPc, BiweeklyPc, OverPc
  <2>3. consumer' = consumer
    BY <1>17 DEF ReleaseCapacity
  <2>4. req[r].pc \in OneDayPc
    BY <2>1 DEF OneDayPc, TxPc, FillPc
  <2>5. ~Biweekly(r)'
    BY <1>0, <1>a, <2>4 DEF Biweekly
  <2> QED
    BY <1>0, <2>1, <2>2, <2>3, <2>5 DEF Buying, BuyPc, BoughtInv, UnderWay, OverPc
<1>18. CASE MarkFailed(r)
  <2>1. req[r].pc = "fail" /\ req'[r].pc = "done"
    BY <1>18, ClosingOK, GiveUpOK DEF MarkFailed, At, StepTo, Pc, OneDayPc, TxPc, FillPc,
        BiweeklyPc, OverPc
  <2>2. (req[r].gaveUp => req'[r].gaveUp) /\ (req[r].late => req'[r].late)
    BY <1>18, ClosingOK, GiveUpOK DEF MarkFailed, At, StepTo, Pc, OneDayPc, TxPc, FillPc,
        BiweeklyPc, OverPc
  <2>3. consumer' = consumer
    BY <1>18 DEF MarkFailed
  <2>4. req[r].pc \in OneDayPc
    BY <2>1 DEF OneDayPc, TxPc, FillPc
  <2>5. ~Biweekly(r)'
    BY <1>0, <1>a, <2>4 DEF Biweekly
  <2> QED
    BY <1>0, <2>1, <2>2, <2>3, <2>5 DEF Buying, BuyPc, BoughtInv, UnderWay, OverPc
<1>19. CASE LookupQuote(r)
  <2>1. req[r].pc = "lookup" /\ req'[r].pc \in {"count", "done"}
    BY <1>19, GoToOK DEF LookupQuote, At, StepTo, Pc, OneDayPc, TxPc, FillPc, BiweeklyPc,
        OverPc
  <2>2. (req[r].gaveUp => req'[r].gaveUp) /\ (req[r].late => req'[r].late)
    BY <1>19, GoToOK DEF LookupQuote, At, StepTo, Pc, OneDayPc, TxPc, FillPc, BiweeklyPc,
        OverPc
  <2>3. consumer' = consumer
    BY <1>19 DEF LookupQuote
  <2>4. order'[r] = "none"
    BY <1>a, <1>19, <2>1 DEF LookupQuote
  <2>5. req'[r].pc = "count" => consumer[req[r].quote] = NoHolder
    <3>1. CASE consumer[req[r].quote] = NoHolder
      BY <3>1
    <3>2. CASE consumer[req[r].quote] # NoHolder
      <4>1. GoTo(r, "done")
        BY <1>19, <3>2 DEF LookupQuote
      <4> QED
        BY <4>1, GoToOK DEF StepTo, Pc, OverPc
    <3> QED
      BY <3>1, <3>2
  <2> QED
    BY <1>0, <2>1, <2>2, <2>3, <2>4, <2>5 DEF Buying, BuyPc, BoughtInv, Biweekly, UnderWay, OverPc
<1>20. CASE CountActivations(r)
  <2>1. req[r].pc = "count" /\ req'[r].pc \in {"bi budget", "done"}
    BY <1>20, GoToOK, UncountedOK DEF CountActivations, At, StepTo, Pc, OneDayPc, TxPc,
        FillPc, BiweeklyPc, OverPc
  <2>2. (req[r].gaveUp => req'[r].gaveUp) /\ (req[r].late => req'[r].late)
    BY <1>20, GoToOK, UncountedOK DEF CountActivations, At, StepTo, Pc, OneDayPc, TxPc,
        FillPc, BiweeklyPc, OverPc
  <2>3. consumer' = consumer
    BY <1>20 DEF CountActivations
  <2>4. order'[r] = "none"
    BY <1>a, <1>20, <2>1 DEF CountActivations
  <2> QED
    BY <1>0, <2>1, <2>2, <2>3, <2>4 DEF Buying, BuyPc, BoughtInv, Biweekly, UnderWay, OverPc
<1>21. CASE ReadBiweeklyBudget(r)
  <2>1. req[r].pc = "bi budget" /\ req'[r].pc \in {"bi execute", "done"}
    BY <1>21, GoToOK DEF ReadBiweeklyBudget, At, StepTo, Pc, OneDayPc, TxPc, FillPc,
        BiweeklyPc, OverPc
  <2>2. (req[r].gaveUp => req'[r].gaveUp) /\ (req[r].late => req'[r].late)
    BY <1>21, GoToOK DEF ReadBiweeklyBudget, At, StepTo, Pc, OneDayPc, TxPc, FillPc,
        BiweeklyPc, OverPc
  <2>3. consumer' = consumer
    BY <1>21 DEF ReadBiweeklyBudget
  <2>4. order'[r] = "none"
    BY <1>a, <1>21, <2>1 DEF ReadBiweeklyBudget
  <2> QED
    BY <1>0, <2>1, <2>2, <2>3, <2>4 DEF Buying, BuyPc, BoughtInv, Biweekly, UnderWay, OverPc
<1>22. CASE InsertBiweekly(r)
  <2>1. req[r].pc = "bi insert" /\ req'[r].pc \in {"bi execution", "done"}
    BY <1>22, GoToOK, GiveUpOK DEF InsertBiweekly, At, StepTo, Pc, OneDayPc, TxPc, FillPc,
        BiweeklyPc, OverPc
  <2>2. (req[r].gaveUp => req'[r].gaveUp) /\ (req[r].late => req'[r].late)
    BY <1>22, GoToOK, GiveUpOK DEF InsertBiweekly, At, StepTo, Pc, OneDayPc, TxPc, FillPc,
        BiweeklyPc, OverPc
  <2>3. consumer' = consumer
    BY <1>22 DEF InsertBiweekly
  <2>4. req'[r].pc = "bi execution" \/ req'[r].gaveUp
    <3>1. CASE GoTo(r, "bi execution")
      BY <3>1, GoToOK DEF StepTo, Pc, BiweeklyPc
    <3>2. CASE GiveUp(r, "done")
      BY <3>2, GiveUpOK DEF StepTo, Pc, OverPc
    <3> QED
      BY <1>22, <3>1, <3>2 DEF InsertBiweekly
  <2> QED
    BY <1>0, <2>1, <2>2, <2>3, <2>4 DEF Buying, BuyPc, BoughtInv, Biweekly, UnderWay, OverPc
<1>23. CASE InsertBiweeklyExecution(r)
  <2>1. req[r].pc = "bi execution" /\ req'[r].pc = "bi hydrate"
    BY <1>23, GoToOK, GiveUpOK DEF InsertBiweeklyExecution, At, StepTo, Pc, OneDayPc,
        TxPc, FillPc, BiweeklyPc, OverPc
  <2>2. (req[r].gaveUp => req'[r].gaveUp) /\ (req[r].late => req'[r].late)
    BY <1>23, GoToOK, GiveUpOK DEF InsertBiweeklyExecution, At, StepTo, Pc, OneDayPc,
        TxPc, FillPc, BiweeklyPc, OverPc
  <2>3. consumer' = consumer
    BY <1>23 DEF InsertBiweeklyExecution
  <2> QED
    BY <1>0, <2>1, <2>2, <2>3 DEF Buying, BuyPc, BoughtInv, Biweekly, UnderWay, OverPc
<1>24. CASE HydrateRow(r)
  <2>1. req[r].pc = "bi hydrate" /\ req'[r].pc = "bi consume"
    BY <1>24, GoToOK, GiveUpOK DEF HydrateRow, At, StepTo, Pc, OneDayPc, TxPc, FillPc,
        BiweeklyPc, OverPc
  <2>2. (req[r].gaveUp => req'[r].gaveUp) /\ (req[r].late => req'[r].late)
    BY <1>24, GoToOK, GiveUpOK DEF HydrateRow, At, StepTo, Pc, OneDayPc, TxPc, FillPc,
        BiweeklyPc, OverPc
  <2>3. consumer' = consumer
    BY <1>24 DEF HydrateRow
  <2> QED
    BY <1>0, <2>1, <2>2, <2>3 DEF Buying, BuyPc, BoughtInv, Biweekly, UnderWay, OverPc
<1>25. CASE ConsumeAfterwards(r)
  <2>1. req[r].pc = "bi consume" /\ req'[r].pc = "done"
    BY <1>25, GoToOK, GiveUpOK DEF ConsumeAfterwards, At, StepTo, Pc, OneDayPc, TxPc,
        FillPc, BiweeklyPc, OverPc
  <2>2. (req[r].gaveUp => req'[r].gaveUp) /\ (req[r].late => req'[r].late)
    BY <1>25, GoToOK, GiveUpOK DEF ConsumeAfterwards, At, StepTo, Pc, OneDayPc, TxPc,
        FillPc, BiweeklyPc, OverPc
  <2>3. consumer' = consumer \/ consumer' = [consumer EXCEPT ![req[r].quote] = r]
    BY <1>25 DEF ConsumeAfterwards
  <2>4. req'[r].gaveUp \/ consumer' = [consumer EXCEPT ![req[r].quote] = r]
    BY <1>25, GoToOK, GiveUpOK DEF ConsumeAfterwards, StepTo, Pc, OneDayPc, TxPc, FillPc,
        BiweeklyPc, OverPc
  <2>5. req[r].quote \in Quotes
    BY <1>a, <2>1 DEF BiweeklyPc
  <2>6. BoughtInv(r)'
    BY <1>0, <2>4, <2>5 DEF BoughtInv
  <2> QED
    BY <1>0, <2>1, <2>2, <2>3, <2>5, <2>6 DEF Buying, BuyPc, UnderWay, OverPc
<1>26. CASE SendOrder(r)
  <2>1. req[r].pc \in {"execute", "bi execute"} /\ req'[r].pc = req[r].pc
    BY <1>26, WaitingOK DEF SendOrder, At, StepTo, Pc, OneDayPc, TxPc, FillPc, BiweeklyPc,
        OverPc
  <2>2. (req[r].gaveUp => req'[r].gaveUp) /\ (req[r].late => req'[r].late)
    BY <1>26, WaitingOK DEF SendOrder, At, StepTo, Pc, OneDayPc, TxPc, FillPc, BiweeklyPc,
        OverPc
  <2>3. consumer' = consumer
    BY <1>26 DEF SendOrder
  <2> QED
    BY <1>0, <2>1, <2>2, <2>3 DEF Buying, BuyPc, BoughtInv, Biweekly, UnderWay, OverPc
<1>27. CASE \E outcome \in {"filled", "rejected"} : OrderAnswered(r, outcome)
  <2> PICK outcome \in {"filled", "rejected"} : OrderAnswered(r, outcome)
    BY <1>27
  <2>1. /\ req[r].pc \in {"execute", "bi execute"} /\ AfterOrder(r, outcome) \in Pc
        /\ AfterOrder(r, outcome) \notin BuyPc
        /\ consumer' = consumer
    BY DEF OrderAnswered, AfterOrder, BuyPc, Pc, OneDayPc, TxPc, FillPc, BiweeklyPc, OverPc
  <2>2. StepTo(r, AfterOrder(r, outcome), req[r].released, req[r].gaveUp, req[r].late)
    BY <2>1, GoToOK DEF OrderAnswered
  <2>3. /\ req'[r].pc = AfterOrder(r, outcome)
        /\ req[r].gaveUp => req'[r].gaveUp
        /\ req[r].late => req'[r].late
    BY <2>2 DEF StepTo
  <2>4. BoughtInv(r)'
    <3> SUFFICES ASSUME Biweekly(r), req'[r].pc = "done", order'[r] = "filled" PROVE FALSE
      BY <1>0 DEF BoughtInv, Biweekly
    <3>1. outcome = "filled"
      BY <1>0 DEF OrderAnswered
    <3>2. ~OneDay(r)
      BY QuotesAssumption DEF OneDay, Biweekly
    <3>3. AfterOrder(r, outcome) = "bi insert"
      BY <3>1, <3>2 DEF AfterOrder
    <3> QED
      BY <2>3, <3>3
  <2> QED
    BY <2>1, <2>3, <2>4 DEF Buying, UnderWay, OverPc
<1>28. CASE OrderTimesOut(r)
  <2>1. req[r].pc \in {"execute", "bi execute"} /\ req'[r].pc \in {"done", "release"}
    BY <1>28, TimedOutOK DEF OrderTimesOut, At, StepTo, Pc, OneDayPc, TxPc, FillPc,
        BiweeklyPc, OverPc
  <2>2. (req[r].gaveUp => req'[r].gaveUp) /\ (req[r].late => req'[r].late)
    BY <1>28, TimedOutOK DEF OrderTimesOut, At, StepTo, Pc, OneDayPc, TxPc, FillPc,
        BiweeklyPc, OverPc
  <2>3. consumer' = consumer
    BY <1>28 DEF OrderTimesOut
  <2>4. req'[r].late
    BY <1>28, TimedOutOK DEF OrderTimesOut, StepTo, Pc, OneDayPc, TxPc, FillPc,
        BiweeklyPc, OverPc
  <2> QED
    BY <1>0, <2>1, <2>2, <2>3, <2>4 DEF Buying, BuyPc, BoughtInv, Biweekly, UnderWay, OverPc
<1> QED
  BY <1>1, <1>2, <1>3, <1>4, <1>5, <1>6, <1>7, <1>8, <1>9, <1>10, <1>11, <1>12, <1>13,
      <1>14, <1>15, <1>16, <1>17, <1>18, <1>19, <1>20, <1>21, <1>22, <1>23, <1>24,
      <1>25, <1>26, <1>27, <1>28 DEF HandlerStep, OneDayStep, BiweeklyStep, VenueStep

\* Where nothing of it changes for r, and what others bought was bought before.
LEMMA BuyFrame ==
  ASSUME NEW r \in Requests, BuyInv(r), req'[r].pc = req[r].pc,
         req[r].during \subseteq req'[r].during, req'[r].quote = req[r].quote,
         req'[r].gaveUp = req[r].gaveUp, req'[r].late = req[r].late,
         order'[r] = order[r] \/ req[r].pc # "done" \/ req[r].late,
         \A q \in Quotes : consumer[q] # NoHolder => consumer'[q] # NoHolder,
         \A s \in Requests \ {r} :
           /\ UnderWay(s)' => UnderWay(s) \/ s \in req'[r].during \/ ~UnderWay(r)
           /\ order'[s] = "filled" =>
                \/ /\ order[s] = "filled" /\ req'[s].quote = req[s].quote
                   /\ (req[s].gaveUp => req'[s].gaveUp) /\ (req[s].late => req'[s].late)
                   /\ (req[s].pc = "lost" => req'[s].pc = "lost")
                \/ UnderWay(s) \/ req'[s].late \/ req'[s].pc = "lost"
  PROVE  BuyInv(r)'
<1>1. PairInv(r)'
  BY DEF BuyInv, PairInv, UnderWay
<1>2. BoughtInv(r)'
  BY DEF BuyInv, BoughtInv, Biweekly, Quotes
<1>3. BuyerInv(r)'
  <2> SUFFICES ASSUME NEW s \in Requests \ {r}, req'[r].pc \in BuyPc,
                      req'[r].quote = req'[s].quote, order'[s] = "filled"
               PROVE  s \in req'[r].during \/ req'[s].gaveUp \/ req'[s].late \/ req'[s].pc = "lost"
    BY DEF BuyerInv, BuyPc
  <2>1. UnderWay(r)
    BY DEF UnderWay, BuyPc, OverPc
  <2>2. UnderWay(s) => s \in req'[r].during
    BY <2>1 DEF BuyInv, PairInv
  <2>3. CASE /\ order[s] = "filled" /\ req'[s].quote = req[s].quote
             /\ (req[s].gaveUp => req'[s].gaveUp) /\ (req[s].late => req'[s].late)
             /\ (req[s].pc = "lost" => req'[s].pc = "lost")
    <3>1. s \in req[r].during \/ req[s].gaveUp \/ req[s].late \/ req[s].pc = "lost"
      BY <2>3 DEF BuyInv, BuyerInv
    <3> QED
      BY <2>3, <3>1
  <2> QED
    BY <2>2, <2>3
<1> QED
  BY <1>1, <1>2, <1>3 DEF BuyInv

LEMMA BuyInit == Init => \A r \in Requests : BuyInv(r)
<1> SUFFICES ASSUME Init, NEW r \in Requests PROVE BuyInv(r)
  OBVIOUS
<1>1. req[r].pc = "idle"
  BY DEF Init, Unsent
<1> QED
  BY <1>1 DEF BuyInv, PairInv, BoughtInv, BuyerInv, UnderWay, BuyPc

LEMMA BuyStep ==
  ASSUME TypeOK, \A r \in Requests : LocalInv(r), \A r \in Requests : BuyInv(r), [Next]_vars
  PROVE  \A r \in Requests : BuyInv(r)'
<1>1. CASE UNCHANGED vars
  BY <1>1 DEF vars, BuyInv, PairInv, BoughtInv, BuyerInv, UnderWay, Biweekly, BuyPc
<1>2. CASE AllOver
  BY <1>1, <1>2 DEF AllOver
<1>3. ASSUME NEW r \in Requests, NEW q \in Quotes, Arrive(r, q), NEW s \in Requests
      PROVE  BuyInv(s)'
  <2>1. /\ order' = order /\ consumer' = consumer /\ req[r].pc = "idle" /\ order[r] = "none"
    BY <1>3 DEF Arrive, At, LocalInv, OrderInv
  <2>2. /\ req'[r].pc \in {"lock", "lookup"}
        /\ req'[r].during = {t \in Requests : UnderWay(t)}
    BY <1>3, ArriveOK
  <2>3. \A t \in Requests \ {r} :
          /\ req'[t].pc = req[t].pc /\ req'[t].quote = req[t].quote
          /\ req'[t].gaveUp = req[t].gaveUp /\ req'[t].late = req[t].late
    BY <1>3, ArriveOK
  <2>4. \A t \in Requests \ {r} :
          /\ req[t].during \subseteq req'[t].during
          /\ UnderWay(t) => r \in req'[t].during
    BY <1>3, ArriveOK
  <2>5. CASE s = r
    <3>1. \A t \in Requests \ {r} : UnderWay(t)' <=> UnderWay(t)
      BY <2>3 DEF UnderWay
    <3>2. PairInv(r)'
      BY <2>2, <3>1 DEF PairInv
    <3> QED
      BY <2>2, <2>5, <3>2 DEF BuyInv, BoughtInv, BuyerInv, BuyPc
  <2>6. CASE s # r
    <3>1. \A t \in Requests \ {s} :
           /\ UnderWay(t)' => UnderWay(t) \/ t \in req'[s].during \/ ~UnderWay(s)
           /\ order'[t] = "filled" =>
                /\ order[t] = "filled" /\ req'[t].quote = req[t].quote
                /\ (req[t].gaveUp => req'[t].gaveUp) /\ (req[t].late => req'[t].late)
                /\ (req[t].pc = "lost" => req'[t].pc = "lost")
      BY <2>1, <2>3, <2>4, <2>6 DEF UnderWay
    <3> QED
      BY <2>1, <2>3, <2>4, <2>6, <3>1, BuyFrame
  <2> QED
    BY <2>5, <2>6
<1>4. ASSUME NEW r \in Requests, HandlerStep(r), NEW s \in Requests
      PROVE  BuyInv(s)'
  <2>1. StepOf(r) /\ OthersKept(r) /\ Buying(r)
    BY <1>4, HandlerShape, OthersShape, HandlerBuying
  <2>2. \A t \in Requests \ {r} :
          /\ req'[t].pc = req[t].pc /\ req'[t].quote = req[t].quote
          /\ req'[t].gaveUp = req[t].gaveUp /\ req'[t].late = req[t].late
          /\ order'[t] = order[t] /\ req'[t].during = req[t].during
    BY <2>1 DEF StepOf, OthersKept
  <2>3. /\ req'[r].quote = req[r].quote
        /\ req'[r].pc \notin OverPc => req'[r].during = req[r].during
    BY <2>1 DEF StepOf
  <2>4. \A t \in Requests \ {r} : UnderWay(t)' <=> UnderWay(t)
    BY <2>2 DEF UnderWay
  <2>5. UnderWay(r)
    BY <2>1 DEF Buying
  <2>6. CASE s = r
    <3>1. PairInv(r)'
      <4> SUFFICES ASSUME NEW t \in Requests \ {r}, UnderWay(r)', UnderWay(t)'
                   PROVE  t \in req'[r].during
        BY DEF PairInv
      <4>1. req'[r].during = req[r].during
        BY <2>3 DEF UnderWay
      <4> QED
        BY <2>4, <2>5, <4>1 DEF BuyInv, PairInv
    <3>2. BuyerInv(r)'
      <4> SUFFICES ASSUME NEW t \in Requests \ {r}, req'[r].pc \in BuyPc,
                          req'[r].quote = req'[t].quote, order'[t] = "filled"
                   PROVE  \/ t \in req'[r].during \/ req'[t].gaveUp \/ req'[t].late
                          \/ req'[t].pc = "lost"
        BY DEF BuyerInv, BuyPc
      <4>1. req'[r].during = req[r].during
        BY <2>3 DEF BuyPc, OverPc
      <4>2. req[r].quote = req[t].quote /\ order[t] = "filled"
        BY <2>2, <2>3
      <4>3. CASE req[r].pc \in BuyPc
        BY <2>2, <4>1, <4>2, <4>3 DEF BuyInv, BuyerInv
      <4>4. CASE req[r].pc = "lookup" /\ consumer[req[r].quote] = NoHolder
        <5>1. Biweekly(t)
          BY <4>2, <4>4 DEF Biweekly, LocalInv, QuoteKind, BiweeklyPc
        <5>2. UnderWay(t) => t \in req[r].during
          BY <2>5 DEF BuyInv, PairInv
        <5>3. ~UnderWay(t) => req[t].pc \in {"done", "lost"}
          BY <4>2 DEF UnderWay, OverPc, LocalInv, OrderInv
        <5>4. req[t].pc = "done" => req[t].gaveUp \/ req[t].late
          BY <4>2, <4>4, <5>1 DEF BuyInv, BoughtInv
        <5> QED
          BY <2>2, <4>1, <5>2, <5>3, <5>4
      <4> QED
        BY <2>1, <4>3, <4>4 DEF Buying
    <3> QED
      BY <2>1, <2>6, <3>1, <3>2 DEF BuyInv, Buying
  <2>7. CASE s # r
    <3>1. \A t \in Requests \ {s} :
           /\ UnderWay(t)' => UnderWay(t)
           /\ order'[t] = "filled" =>
                \/ /\ order[t] = "filled" /\ req'[t].quote = req[t].quote
                   /\ (req[t].gaveUp => req'[t].gaveUp) /\ (req[t].late => req'[t].late)
                   /\ (req[t].pc = "lost" => req'[t].pc = "lost")
                \/ UnderWay(t)
      BY <2>2, <2>4, <2>5
    <3>2. \A q \in Quotes : consumer[q] # NoHolder => consumer'[q] # NoHolder
      BY <2>1 DEF Buying
    <3> QED
      BY <2>2, <2>7, <3>1, <3>2, BuyFrame
  <2> QED
    BY <2>6, <2>7
<1>5. ASSUME NEW r \in Requests, NEW outcome \in {"filled", "rejected"},
             OrderSettlesLate(r, outcome), NEW s \in Requests
      PROVE  BuyInv(s)'
  <2>1. /\ order[r] = "working" /\ order' = [order EXCEPT ![r] = outcome]
        /\ UNCHANGED <<req, consumer>> /\ req[r].pc \notin {"execute", "bi execute"}
    BY <1>5 DEF OrderSettlesLate
  <2>2. req[r].late \/ req[r].pc = "lost"
    BY <2>1 DEF TypeOK, Handler, LocalInv, OrderInv, Pc, OneDayPc, TxPc, FillPc, BiweeklyPc, OverPc
  <2>3. \A t \in Requests \ {r} : order'[t] = order[t]
    BY <2>1 DEF TypeOK
  <2>4. order'[s] = order[s] \/ req[s].pc # "done" \/ req[s].late
    BY <2>2, <2>3
  <2>5. \A t \in Requests \ {s} :
           /\ UnderWay(t)' => UnderWay(t)
           /\ order'[t] = "filled" =>
                \/ /\ order[t] = "filled" /\ req'[t].quote = req[t].quote
                   /\ (req[t].gaveUp => req'[t].gaveUp) /\ (req[t].late => req'[t].late)
                   /\ (req[t].pc = "lost" => req'[t].pc = "lost")
                \/ req'[t].late \/ req'[t].pc = "lost"
    BY <2>1, <2>2, <2>3 DEF UnderWay
  <2> QED
    BY <2>1, <2>4, <2>5, BuyFrame
<1>6. ASSUME NEW r \in Requests, EndProtection(r), NEW s \in Requests
      PROVE  BuyInv(s)'
  <2>1. order' = order /\ consumer' = consumer
    BY <1>6 DEF EndProtection
  <2>2. \A t \in Requests :
          /\ req'[t].pc = req[t].pc /\ req'[t].quote = req[t].quote
          /\ req'[t].gaveUp = req[t].gaveUp /\ req'[t].late = req[t].late
          /\ req'[t].during = req[t].during
    BY <1>6, EndOK DEF EndProtection
  <2>3. \A t \in Requests : UnderWay(t)' => UnderWay(t)
    BY <2>2 DEF UnderWay
  <2> QED
    BY <2>1, <2>2, <2>3, BuyFrame
<1>7. ASSUME NEW r \in Requests, ReconcileOrphan(r), NEW s \in Requests
      PROVE  BuyInv(s)'
  <2>1. UNCHANGED <<order, consumer, req>>
    BY <1>7 DEF ReconcileOrphan
  <2>2. \A t \in Requests : UnderWay(t)' => UnderWay(t)
    BY <2>1 DEF UnderWay
  <2> QED
    BY <2>1, <2>2, BuyFrame
<1>8. ASSUME Restart, NEW s \in Requests
      PROVE  BuyInv(s)'
  <2>1. order' = order /\ consumer' = consumer
    BY <1>8 DEF Restart
  <2>2. /\ req'[s].pc = "lost" \/ (req'[s].pc = req[s].pc /\ req[s].pc \in {"idle"} \cup OverPc)
        /\ req'[s].quote = req[s].quote
        /\ req'[s].gaveUp = req[s].gaveUp /\ req'[s].late = req[s].late
    BY <1>8, RestartOK DEF UnderWay
  <2>3. PairInv(s)' /\ BuyerInv(s)'
    BY <2>2 DEF PairInv, BuyerInv, UnderWay, BuyPc, OverPc
  <2>4. BoughtInv(s)'
    BY <2>1, <2>2 DEF BuyInv, BoughtInv, Biweekly
  <2> QED
    BY <2>3, <2>4 DEF BuyInv
<1> QED
  BY <1>1, <1>2, <1>3, <1>4, <1>5, <1>6, <1>7, <1>8 DEF Next

\* No quote buys two hedges on the one-day path, and on the biweekly path only
\* for requests that overlap or after a failure that is named, whatever else
\* happens around them.
THEOREM QuotesBuyOnce == Spec => []QuoteBuysOnce
<1> DEFINE Inv == /\ TypeOK
                  /\ \A r \in Requests : LocalInv(r)
                  /\ LocksInv
                  /\ \A r \in Requests : BuyInv(r)
<1>1. Init => Inv
  BY InitTypeOK, LocalInit, LocksInit, BuyInit
<1>2. Inv /\ [Next]_vars => Inv'
  BY StepTypeOK, LocalStep, LocksStep, BuyStep
<1>3. Inv => QuoteBuysOnce
  <2> SUFFICES ASSUME Inv, NEW r \in Requests, NEW s \in Requests,
                      r # s, req[r].quote = req[s].quote, order[s] = "filled"
               PROVE  /\ OneDay(r) => order[r] \notin {"working", "filled"}
                      /\ At(r, "bi execute") =>
                           \/ s \in req[r].during \/ req[s].gaveUp \/ req[s].late \/ At(s, "lost")
    BY DEF QuoteBuysOnce
  <2>1. OneDay(r) => order[r] \notin {"working", "filled"}
    <3>1. OneDay(r) => consumer[req[s].quote] = s
      BY DEF LocksInv, LockInv, OneDay
    <3>2. OneDay(r) /\ order[r] \in {"working", "filled"} => consumer[req[r].quote] = r
      BY DEF LocksInv, LockInv
    <3> QED
      BY <3>1, <3>2
  <2>2. At(r, "bi execute") =>
          s \in req[r].during \/ req[s].gaveUp \/ req[s].late \/ At(s, "lost")
    BY DEF BuyInv, BuyerInv, BuyPc, At
  <2> QED
    BY <2>1, <2>2
<1> QED
  BY <1>1, <1>2, <1>3, PTL DEF Spec

-----------------------------------------------------------------------------
(* The capital pool.                                                       *)

\* The rows and the local records have their fields.  Amounts are not looked
\* at: what a draft distributes is positive or it is not.
ShapeInv ==
  /\ DOMAIN run = Runs /\ DOMAIN request = AdminRequests
  /\ \A r \in Runs : run[r] = [status |-> run[r].status, distributable |-> run[r].distributable]
  /\ \A q \in AdminRequests :
       request[q] = [at |-> request[q].at, run |-> request[q].run,
                     amount |-> request[q].amount, balance |-> request[q].balance]
  /\ distributed \in [Runs -> Nat]

\* Where a request stands, and what is stored of the run it is about.
PlaceInv ==
  \A q \in AdminRequests :
    /\ request[q].at \in Stages
    /\ request[q].at \notin {"distribute", "approve"} => request[q].run = NoRun
    /\ request[q].at \in {"distribute", "approve"} =>
         /\ request[q].run \in Runs
         /\ run[request[q].run].status # "absent"
    /\ Is(q, "distribute") => run[request[q].run].distributable > 0
    /\ Is(q, "approve") /\ run[request[q].run].distributable > 0 => distributed[request[q].run] > 0

\* How often an undisputed run was distributed.
CountInv ==
  \A r \in Runs \ disputed :
    /\ distributed[r] <= 1
    /\ \A p, q \in Approving(r) : p = q
    /\ \A q \in Approving(r) : Is(q, "distribute") => distributed[r] = 0
    /\ run[r].status = "draft" /\ Approving(r) = {} => distributed[r] = 0

Inv == ShapeInv /\ PlaceInv /\ CountInv /\ DistributedOnce

\* A record with several fields changed, field by field.
LEMMA OneByOne ==
  ASSUME NEW rec, NEW x, NEW y, NEW z
  PROVE  /\ [rec EXCEPT !.at = x, !.run = y] = [[rec EXCEPT !.at = x] EXCEPT !.run = y]
         /\ [rec EXCEPT !.at = x, !.amount = y] = [[rec EXCEPT !.at = x] EXCEPT !.amount = y]
         /\ [rec EXCEPT !.at = x, !.amount = y, !.balance = z] =
              [[[rec EXCEPT !.at = x] EXCEPT !.amount = y] EXCEPT !.balance = z]
  OBVIOUS

\* The records a request starts from.
LEMMA IdleWith ==
  ASSUME NEW at, NEW r, NEW amount
  PROVE  /\ [Idle EXCEPT !.at = at, !.run = r] =
              [at |-> at, run |-> r, amount |-> 0, balance |-> 0]
         /\ [Idle EXCEPT !.at = at, !.amount = amount] =
              [at |-> at, run |-> NoRun, amount |-> amount, balance |-> 0]
<1> DEFINE rec(n) == [at |-> at, run |-> NoRun, amount |-> n, balance |-> 0]
<1>1. [Idle EXCEPT !.at = at] = rec(0)
  BY DEF Idle
<1>2. [rec(0) EXCEPT !.run = r] = [at |-> at, run |-> r, amount |-> 0, balance |-> 0]
  OBVIOUS
<1>3. [rec(0) EXCEPT !.amount = amount] = rec(amount)
  OBVIOUS
<1> HIDE DEF rec
<1>4. /\ [Idle EXCEPT !.at = at, !.run = r] = [rec(0) EXCEPT !.run = r]
      /\ [Idle EXCEPT !.at = at, !.amount = amount] = [rec(0) EXCEPT !.amount = amount]
  BY <1>1, OneByOne
<1> QED
  BY <1>2, <1>3, <1>4 DEF rec

LEMMA InitInv == PoolInit => Inv
<1> SUFFICES ASSUME PoolInit PROVE Inv
  OBVIOUS
<1>1. ShapeInv
  BY DEF PoolInit, ShapeInv, Absent, Idle
<1>2. PlaceInv
  BY DEF PoolInit, PlaceInv, Idle, Stages, Is
<1>3. CountInv
  BY RunAssumption DEF PoolInit, CountInv, Idle, Approving, Absent
<1>4. DistributedOnce
  BY DEF PoolInit, DistributedOnce, Absent
<1> QED
  BY <1>1, <1>2, <1>3, <1>4 DEF Inv

-----------------------------------------------------------------------------
(* Steps that leave runs and entries alone, and steps of a request that     *)
(* approves nothing.                                                        *)

LEMMA FrameInv ==
  ASSUME Inv, UNCHANGED <<run, request, distributed, disputed>>
  PROVE  Inv'
  BY DEF Inv, ShapeInv, PlaceInv, CountInv, DistributedOnce, Approving, Is

\* a request that approved nothing and approves nothing
LEMMA AsideInv ==
  ASSUME Inv, NEW q \in AdminRequests, NEW next,
         request[q].at \notin {"distribute", "approve"},
         next = [at |-> next.at, run |-> NoRun, amount |-> next.amount, balance |-> next.balance],
         next.at \in Stages \ {"distribute", "approve"},
         Becomes(q, next),
         UNCHANGED <<run, distributed, disputed>>
  PROVE  Inv'
<1>1. \A p \in AdminRequests : request'[p] = IF p = q THEN next ELSE request[p]
  BY DEF Becomes, Inv, ShapeInv
<1>2. next.run = NoRun
  OBVIOUS
<1>3. \A r \in Runs : Approving(r)' = Approving(r)
  BY <1>1, <1>2, RunAssumption DEF Approving, Inv, PlaceInv
<1>4. ShapeInv'
  BY <1>1 DEF Inv, ShapeInv, Becomes
<1>5. PlaceInv'
  BY <1>1, <1>2 DEF Inv, PlaceInv, Is
<1>6. CountInv'
  BY <1>1, <1>2, <1>3, RunAssumption DEF Inv, CountInv, Approving, Is
<1>7. DistributedOnce'
  BY DEF Inv, DistributedOnce
<1> QED
  BY <1>4, <1>5, <1>6, <1>7 DEF Inv

-----------------------------------------------------------------------------
(* The settlement runs.                                                     *)

LEMMA InsertRunInv ==
  ASSUME Inv, NEW q \in AdminRequests, NEW r \in Runs, InsertRun(q, r)
  PROVE  Inv'
<1>1. \A p \in AdminRequests : request'[p] = IF p = q THEN Idle ELSE request[p]
  BY DEF InsertRun, Becomes, Inv, ShapeInv
<1>2. /\ run[r].status = "absent"
      /\ run' = [run EXCEPT ![r] = [status |-> "draft", distributable |-> request[q].amount]]
      /\ UNCHANGED <<distributed, disputed>>
  BY DEF InsertRun
<1>3. \A s \in Runs : run'[s] = IF s = r THEN [status |-> "draft", distributable |-> request[q].amount]
                                          ELSE run[s]
  BY <1>2 DEF Inv, ShapeInv
<1>4. /\ Is(q, "draft")
      /\ Idle.run = NoRun /\ Idle.at = "idle"
  BY DEF InsertRun, Idle
<1>5. \A s \in Runs : Approving(s)' = Approving(s)
  BY <1>1, <1>4, RunAssumption DEF Approving, Inv, PlaceInv, Is
<1>6. Approving(r) = {} /\ distributed[r] = 0
  <2>1. Approving(r) = {}
    BY <1>2, RunAssumption DEF Inv, PlaceInv, Approving
  <2>2. distributed[r] \in Nat /\ ~(distributed[r] > 0)
    BY <1>2 DEF Inv, DistributedOnce, ShapeInv
  <2> QED
    BY <2>1, <2>2
<1>7. ShapeInv'
  BY <1>1, <1>2, <1>3 DEF Inv, ShapeInv, Idle, InsertRun, Becomes
<1>8. PlaceInv'
  BY <1>1, <1>2, <1>3, <1>4, <1>6 DEF Inv, PlaceInv, Is, Stages, Approving
<1>9. CountInv'
  BY <1>1, <1>2, <1>3, <1>4, <1>5, <1>6, RunAssumption DEF Inv, CountInv, Is, Approving
<1>10. DistributedOnce'
  BY <1>2, <1>3, <1>6 DEF Inv, DistributedOnce, ShapeInv
<1> QED
  BY <1>7, <1>8, <1>9, <1>10 DEF Inv

LEMMA ReadRunInv ==
  ASSUME Inv, NEW q \in AdminRequests, NEW r \in Runs, ReadRun(q, r)
  PROVE  Inv'
<1> DEFINE next == [Idle EXCEPT !.at = IF run[r].distributable > 0 THEN "distribute" ELSE "approve",
                                !.run = r]
<1>1. /\ next.run = r
      /\ next.at \in {"distribute", "approve"}
      /\ next.at = "distribute" => run[r].distributable > 0
      /\ next.at = "approve" => ~(run[r].distributable > 0)
      /\ next = [at |-> next.at, run |-> next.run, amount |-> next.amount, balance |-> next.balance]
  <2>1. CASE run[r].distributable > 0
    <3>1. next = [at |-> "distribute", run |-> r, amount |-> 0, balance |-> 0]
      BY <2>1, IdleWith
    <3> QED
      BY <2>1, <3>1
  <2>2. CASE ~(run[r].distributable > 0)
    <3>1. next = [at |-> "approve", run |-> r, amount |-> 0, balance |-> 0]
      BY <2>2, IdleWith
    <3> QED
      BY <2>2, <3>1
  <2> QED
    BY <2>1, <2>2
<1>2. /\ Is(q, "idle") /\ run[r].status = "draft"
      /\ disputed' = IF Approving(r) = {} THEN disputed ELSE disputed \cup {r}
      /\ UNCHANGED <<run, distributed>>
  BY DEF ReadRun
<1> HIDE DEF next
<1>3. /\ \A p \in AdminRequests : request'[p] = IF p = q THEN next ELSE request[p]
      /\ DOMAIN request' = AdminRequests
  BY DEF ReadRun, Becomes, Inv, ShapeInv, next
<1>4. /\ Approving(r)' = Approving(r) \cup {q}
      /\ \A s \in Runs \ {r} : Approving(s)' = Approving(s)
  BY <1>1, <1>2, <1>3, RunAssumption DEF Approving, Inv, PlaceInv, Is
<1>5. ShapeInv'
  BY <1>1, <1>2, <1>3 DEF Inv, ShapeInv
<1>6. PlaceInv'
  BY <1>1, <1>2, <1>3 DEF Inv, PlaceInv, Is, Stages
<1>7. ASSUME NEW s \in Runs, s \notin disputed'
      PROVE  /\ distributed[s] <= 1
             /\ \A p, t \in Approving(s)' : p = t
             /\ \A p \in Approving(s)' : Is(p, "distribute")' => distributed[s] = 0
             /\ run[s].status = "draft" /\ Approving(s)' = {} => distributed[s] = 0
  <2>1. s \notin disputed
    BY <1>2, <1>7
  <2>2. CASE s # r
    BY <1>3, <1>4, <2>1, <2>2, <1>1, RunAssumption DEF Inv, CountInv, Is, Approving
  <2>3. CASE s = r
    <3>1. Approving(r) = {}
      BY <1>2, <1>7, <2>3
    <3>2. distributed[r] = 0
      BY <1>2, <2>1, <2>3, <3>1 DEF Inv, CountInv
    <3> QED
      BY <1>4, <2>3, <3>1, <3>2
  <2> QED
    BY <2>2, <2>3
<1>8. CountInv'
  BY <1>2, <1>7 DEF CountInv
<1>9. DistributedOnce'
  BY <1>2 DEF Inv, DistributedOnce
<1> QED
  BY <1>5, <1>6, <1>8, <1>9 DEF Inv

LEMMA InsertDistributionInv ==
  ASSUME Inv, NEW q \in AdminRequests, InsertDistribution(q)
  PROVE  Inv'
<1> DEFINE r == request[q].run
<1>1. /\ Is(q, "distribute")
      /\ r \in Runs /\ run[r].status # "absent" /\ run[r].distributable > 0
      /\ q \in Approving(r)
  BY DEF InsertDistribution, Inv, PlaceInv, Is, Approving
<1>2. /\ distributed' = [distributed EXCEPT ![r] = @ + 1]
      /\ UNCHANGED <<run, disputed>>
      /\ request' = [request EXCEPT ![q] = [request[q] EXCEPT !.at = "approve"]]
  BY DEF InsertDistribution, Becomes
<1> HIDE DEF r
<1>3. /\ \A s \in Runs : distributed'[s] = IF s = r THEN distributed[s] + 1 ELSE distributed[s]
      /\ distributed' \in [Runs -> Nat]
      /\ distributed[r] \in Nat
  BY <1>1, <1>2 DEF Inv, ShapeInv
<1>4. /\ DOMAIN request' = AdminRequests
      /\ \A p \in AdminRequests \ {q} : request'[p] = request[p]
      /\ request'[q] = [at |-> "approve", run |-> r,
                    amount |-> request[q].amount, balance |-> request[q].balance]
  BY <1>2 DEF Inv, ShapeInv, r
<1>5. \A s \in Runs : Approving(s)' = Approving(s)
  BY <1>4 DEF Approving, r
<1>6. ShapeInv'
  BY <1>2, <1>3, <1>4 DEF Inv, ShapeInv
<1>7. PlaceInv'
  BY <1>1, <1>2, <1>3, <1>4 DEF Inv, PlaceInv, ShapeInv, Is, Stages
<1>8. ASSUME NEW s \in Runs, s \notin disputed
      PROVE  /\ distributed'[s] <= 1
             /\ \A p, t \in Approving(s) : p = t
             /\ \A p \in Approving(s) : Is(p, "distribute")' => distributed'[s] = 0
             /\ run[s].status = "draft" /\ Approving(s) = {} => distributed'[s] = 0
  <2>1. CASE s = r
    <3>1. distributed[r] = 0
      BY <1>1, <1>8, <2>1 DEF Inv, CountInv
    <3>2. \A p, t \in Approving(s) : p = t
      BY <1>8 DEF Inv, CountInv
    <3>3. \A p \in Approving(s) : p = q
      BY <1>1, <2>1, <3>2
    <3> QED
      BY <1>1, <1>3, <1>4, <2>1, <3>1, <3>2, <3>3 DEF Is
  <2>2. CASE s # r
    <3>1. \A p \in Approving(s) : p # q
      BY <2>2 DEF Approving, r
    <3> QED
      BY <1>3, <1>4, <1>8, <2>2, <3>1 DEF Inv, CountInv, Is, Approving
  <2> QED
    BY <2>1, <2>2
<1>9. CountInv'
  BY <1>2, <1>5, <1>8 DEF CountInv
<1>10. DistributedOnce'
  <2>1. ASSUME NEW s \in Runs
        PROVE  /\ run[s].status = "approved" /\ run[s].distributable > 0 => distributed'[s] > 0
               /\ distributed'[s] > 1 => s \in disputed
               /\ distributed'[s] > 0 => run[s].status # "absent" /\ run[s].distributable > 0
    <3>1. distributed'[s] > 1 => s \in disputed
      BY <1>3, <1>8 DEF ShapeInv
    <3> QED
      BY <1>1, <1>3, <3>1 DEF Inv, DistributedOnce, ShapeInv
  <2> QED
    BY <1>2, <2>1 DEF DistributedOnce
<1> QED
  BY <1>6, <1>7, <1>9, <1>10 DEF Inv

LEMMA ApproveInv ==
  ASSUME Inv, NEW q \in AdminRequests, Approve(q)
  PROVE  Inv'
<1> DEFINE r == request[q].run
<1>1. /\ Is(q, "approve")
      /\ r \in Runs /\ run[r].status # "absent"
      /\ run[r].distributable > 0 => distributed[r] > 0
  BY DEF Approve, Inv, PlaceInv, Is
<1>2. /\ run' = [run EXCEPT ![r].status = "approved"]
      /\ request' = [request EXCEPT ![q] = Idle]
      /\ UNCHANGED <<distributed, disputed>>
  BY DEF Approve, Becomes
<1>3. /\ DOMAIN request' = AdminRequests /\ DOMAIN run' = Runs
      /\ \A p \in AdminRequests : request'[p] = IF p = q THEN Idle ELSE request[p]
      /\ \A s \in Runs \ {r} : run'[s] = run[s]
      /\ run'[r] = [status |-> "approved", distributable |-> run[r].distributable]
  <2>1. run[r] = [status |-> run[r].status, distributable |-> run[r].distributable]
    BY <1>1 DEF Inv, ShapeInv
  <2> HIDE DEF r
  <2> QED
    BY <1>1, <1>2, <2>1 DEF Inv, ShapeInv
<1>4. \A s \in Runs : Approving(s)' = Approving(s) \ {q}
  BY <1>3, RunAssumption DEF Approving, Idle
<1> HIDE DEF r
<1>5. ShapeInv'
  BY <1>2, <1>3 DEF Inv, ShapeInv, Idle
<1>6. PlaceInv'
  <2>1. \A s \in Runs : /\ run[s].status # "absent" => run'[s].status # "absent"
                        /\ run'[s].distributable = run[s].distributable
    BY <1>1, <1>3
  <2>2. Idle.at = "idle" /\ Idle.run = NoRun
    BY DEF Idle
  <2> QED
    BY <1>2, <1>3, <2>1, <2>2 DEF Inv, PlaceInv, Is, Stages
<1>7. ASSUME NEW s \in Runs, s \notin disputed
      PROVE  /\ distributed[s] <= 1
             /\ \A p, t \in Approving(s)' : p = t
             /\ \A p \in Approving(s)' : Is(p, "distribute")' => distributed[s] = 0
             /\ run'[s].status = "draft" /\ Approving(s)' = {} => distributed[s] = 0
  <2>1. CASE s = r
    BY <1>3, <1>4, <1>7, <2>1 DEF Inv, CountInv, Is, Approving
  <2>2. CASE s # r
    <3>1. Approving(s)' = Approving(s)
      BY <1>4, <2>2 DEF Approving, r
    <3>2. \A p \in Approving(s) : p # q
      BY <2>2 DEF Approving, r
    <3> QED
      BY <1>3, <1>7, <2>2, <3>1, <3>2 DEF Inv, CountInv, Is, Approving
  <2> QED
    BY <2>1, <2>2
<1>8. CountInv'
  BY <1>2, <1>7 DEF CountInv
<1>9. DistributedOnce'
  <2>1. \A s \in Runs \ {r} : run'[s] = run[s]
    BY <1>3
  <2>2. run'[r].status = "approved" /\ run'[r].distributable = run[r].distributable
    BY <1>3
  <2> QED
    BY <1>1, <1>2, <2>1, <2>2 DEF Inv, DistributedOnce
<1> QED
  BY <1>5, <1>6, <1>8, <1>9 DEF Inv

-----------------------------------------------------------------------------
(* A request that is cut off with its entry written makes its run disputed. *)

LEMMA CutOffInv ==
  ASSUME Inv, NEW qs \in SUBSET AdminRequests,
         request' = [q \in AdminRequests |-> IF q \in qs THEN Idle ELSE request[q]],
         disputed' = disputed \cup CutOff(qs),
         UNCHANGED <<run, distributed>>
  PROVE  Inv'
<1>1. \A r \in Runs : Approving(r)' = Approving(r) \ qs
  BY RunAssumption DEF Approving, Idle
<1>2. ShapeInv'
  BY DEF Inv, ShapeInv, Idle
<1>3. PlaceInv'
  BY DEF Inv, PlaceInv, Is, Stages, Idle
<1>4. ASSUME NEW r \in Runs, r \notin disputed'
      PROVE  /\ distributed[r] <= 1
             /\ \A p, q \in Approving(r)' : p = q
             /\ \A q \in Approving(r)' : Is(q, "distribute")' => distributed[r] = 0
             /\ run[r].status = "draft" /\ Approving(r)' = {} => distributed[r] = 0
  <2>1. r \notin disputed
    BY <1>4
  <2>2. ASSUME NEW q \in Approving(r) \cap qs
        PROVE  Is(q, "distribute")
    <3>1. q \in AdminRequests /\ request[q].run = r
      BY DEF Approving
    <3>2. ~Is(q, "approve")
      BY <1>4, <3>1 DEF CutOff
    <3> QED
      BY <3>1, <3>2, RunAssumption DEF Inv, PlaceInv, Is
  <2>3. CASE Approving(r) \cap qs = {}
    <3>1. Approving(r)' = Approving(r)
      BY <1>1, <2>3
    <3>2. \A q \in Approving(r) : q \in AdminRequests /\ q \notin qs /\ request'[q] = request[q]
      BY <2>3 DEF Approving
    <3> QED
      BY <2>1, <3>1, <3>2 DEF Inv, CountInv, Is
  <2>4. CASE Approving(r) \cap qs # {}
    <3>1. distributed[r] = 0
      BY <2>1, <2>2, <2>4 DEF Inv, CountInv
    <3> QED
      BY <1>1, <2>1, <3>1 DEF Inv, CountInv
  <2> QED
    BY <2>3, <2>4
<1>5. CountInv'
  BY <1>4 DEF CountInv
<1>6. DistributedOnce'
  BY DEF Inv, DistributedOnce
<1> QED
  BY <1>2, <1>3, <1>5, <1>6 DEF Inv

LEMMA RequestStepInv ==
  ASSUME Inv, NEW q \in AdminRequests, RequestStep(q)
  PROVE  Inv'
<1>1. CASE \E n \in Amounts, respectLockup \in BOOLEAN : ReadBalance(q, n, respectLockup)
  <2> PICK n \in Amounts, respectLockup \in BOOLEAN : ReadBalance(q, n, respectLockup)
    BY <1>1
  <2> DEFINE next == [Idle EXCEPT !.at = "withdraw", !.amount = n, !.balance = Balance]
  <2>0. ASSUME NEW b
        PROVE  [Idle EXCEPT !.at = "withdraw", !.amount = n, !.balance = b] =
                 [at |-> "withdraw", run |-> NoRun, amount |-> n, balance |-> b]
    <3> DEFINE rec == [at |-> "withdraw", run |-> NoRun, amount |-> n, balance |-> 0]
    <3>1. [[Idle EXCEPT !.at = "withdraw"] EXCEPT !.amount = n] = rec
      BY IdleWith, OneByOne
    <3>2. [rec EXCEPT !.balance = b] =
            [at |-> "withdraw", run |-> NoRun, amount |-> n, balance |-> b]
      OBVIOUS
    <3> QED
      BY <3>1, <3>2, OneByOne
  <2>2. /\ Becomes(q, next) /\ Is(q, "idle")
        /\ UNCHANGED <<run, distributed, disputed>>
    BY DEF ReadBalance
  <2>3. \E b : next = [at |-> "withdraw", run |-> NoRun, amount |-> n, balance |-> b]
    BY <2>0
  <2> HIDE DEF next
  <2>1. /\ next = [at |-> next.at, run |-> NoRun, amount |-> next.amount, balance |-> next.balance]
        /\ next.at \in Stages \ {"distribute", "approve"}
    BY <2>3 DEF Stages
  <2> QED
    BY <2>1, <2>2, AsideInv DEF Is
<1>2. CASE InsertWithdrawal(q)
  <2>1. /\ Idle = [at |-> Idle.at, run |-> NoRun, amount |-> Idle.amount, balance |-> Idle.balance]
        /\ Idle.at \in Stages \ {"distribute", "approve"}
    BY DEF Idle, Stages
  <2>2. /\ Becomes(q, Idle) /\ Is(q, "withdraw")
        /\ UNCHANGED <<run, distributed, disputed>>
    BY <1>2 DEF InsertWithdrawal
  <2> QED
    BY <2>1, <2>2, AsideInv DEF Is
<1>3. CASE \E first \in Days, end \in 2..LastDay + 1, share \in Shares :
             ComputeTotals(q, first, end, share)
  <2> PICK first \in Days, end \in 2..LastDay + 1, share \in Shares :
             ComputeTotals(q, first, end, share)
    BY <1>3
  <2> DEFINE next == [Idle EXCEPT !.at = "draft",
                                  !.amount = Distributable(NetPnL(first, end), share)]
  <2>0. \A n : [Idle EXCEPT !.at = "draft", !.amount = n] =
                [at |-> "draft", run |-> NoRun, amount |-> n, balance |-> 0]
    BY IdleWith
  <2>2. /\ Becomes(q, next) /\ Is(q, "idle")
        /\ UNCHANGED <<run, distributed, disputed>>
    BY DEF ComputeTotals
  <2>3. \E n : next = [at |-> "draft", run |-> NoRun, amount |-> n, balance |-> 0]
    BY <2>0
  <2> HIDE DEF next
  <2>1. /\ next = [at |-> next.at, run |-> NoRun, amount |-> next.amount, balance |-> next.balance]
        /\ next.at \in Stages \ {"distribute", "approve"}
    BY <2>3 DEF Stages
  <2> QED
    BY <2>1, <2>2, AsideInv DEF Is
<1>4. CASE \E r \in Runs : InsertRun(q, r) \/ ReadRun(q, r)
  BY <1>4, InsertRunInv, ReadRunInv
<1>5. CASE InsertDistribution(q)
  BY <1>5, InsertDistributionInv
<1>6. CASE Approve(q)
  BY <1>6, ApproveInv
<1>7. CASE Fail(q)
  <2>1. request' = [p \in AdminRequests |-> IF p \in {q} THEN Idle ELSE request[p]]
    BY <1>7 DEF Fail, Becomes, Inv, ShapeInv
  <2>2. disputed' = disputed \cup CutOff({q}) /\ UNCHANGED <<run, distributed>>
    BY <1>7 DEF Fail
  <2>3. {q} \in SUBSET AdminRequests
    OBVIOUS
  <2> QED
    BY <2>1, <2>2, <2>3, CutOffInv
<1> QED
  BY <1>1, <1>2, <1>3, <1>4, <1>5, <1>6, <1>7 DEF RequestStep

LEMMA StepInv == Inv /\ [PoolNext]_poolVars => Inv'
<1> SUFFICES ASSUME Inv, [PoolNext]_poolVars PROVE Inv'
  OBVIOUS
<1>1. CASE \E n \in Amounts : Deposit(n)
  BY <1>1, FrameInv DEF Deposit
<1>2. CASE \E n \in Results : Book(n)
  BY <1>2, FrameInv DEF Book
<1>3. CASE \E q \in AdminRequests : RequestStep(q)
  BY <1>3, RequestStepInv
<1>4. CASE RestartPool
  <2>1. request' = [q \in AdminRequests |-> IF q \in AdminRequests THEN Idle ELSE request[q]]
    BY <1>4 DEF RestartPool
  <2>2. disputed' = disputed \cup CutOff(AdminRequests) /\ UNCHANGED <<run, distributed>>
    BY <1>4 DEF RestartPool
  <2> QED
    BY <2>1, <2>2, CutOffInv
<1>5. CASE NextDay
  BY <1>5, FrameInv DEF NextDay
<1>6. CASE UNCHANGED poolVars
  BY <1>6, FrameInv DEF poolVars
<1> QED
  BY <1>1, <1>2, <1>3, <1>4, <1>5, <1>6 DEF PoolNext

\* An approved run was distributed, and distributed once unless two approvals
\* overlapped or one was cut off: for any number of runs, of requests and of
\* failures, and whatever else is booked meanwhile.
THEOREM RunsDistributedOnce == PoolSpec => []DistributedOnce
<1>1. Inv => DistributedOnce
  BY DEF Inv
<1> QED
  BY <1>1, InitInv, StepInv, PTL DEF PoolSpec
-----------------------------------------------------------------------------
(* Types: what is drafted and what is read as a balance are sums over days. *)

LEMMA SomeDays ==
  ASSUME NEW S \in SUBSET Days
  PROVE  IsFiniteSet(S)
<1>1. 1 \in Int /\ LastDay \in Int
  BY BoundAssumption
<1>2. IsFiniteSet(Days)
  BY <1>1, FS_Interval DEF Days
<1> QED
  BY <1>2, FS_Subset

\* What a period earned is an amount.
LEMMA NetIsInt ==
  ASSUME PoolTypeOK, NEW first, NEW end
  PROVE  NetPnL(first, end) \in Int
<1> DEFINE S == {d \in Days : first <= d /\ d < end}
           Plain(g) == [s \in SUBSET S |->
                          IF s = {} THEN 0
                          ELSE result[CHOOSE x \in s : TRUE] + g[s \ {CHOOSE x \in s : TRUE}]]
           h == CHOOSE g : g = Plain(g)
<1>1. NetPnL(first, end) = h[S]
  BY DEF NetPnL, MapThenSumSet, MapThenFoldSet
<1>2. ASSUME NEW g PROVE Plain(g) = Steps(result, g, S)
  BY DEF Steps, Chosen
<1>3. IsFiniteSet(S)
  BY SomeDays
<1>4. \E g : g = Plain(g)
  BY <1>2, <1>3, FoldExists
<1>5. h = Plain(h)
  <2> HIDE DEF Plain
  <2> QED
    BY <1>4
<1>6. h = Steps(result, h, S)
  BY <1>2, <1>5
<1>7. \A d \in S : result[d] \in Int
  BY DEF PoolTypeOK
<1> HIDE DEF h, S
<1>8. h[S] = SumOf(result, S)
  BY <1>3, <1>6, SumIs
<1>9. SumOf(result, S) \in Int
  BY <1>3, <1>7, SumType
<1> QED
  BY <1>1, <1>8, <1>9

\* So is the balance.
LEMMA BalanceIsInt ==
  ASSUME PoolTypeOK
  PROVE  Balance \in Int
<1> DEFINE f == [d \in Days |-> moved[d] + result[d]]
           Plain(g) == [s \in SUBSET Days |->
                          IF s = {} THEN 0
                          ELSE (moved[CHOOSE x \in s : TRUE] + result[CHOOSE x \in s : TRUE])
                                 + g[s \ {CHOOSE x \in s : TRUE}]]
           h == CHOOSE g : g = Plain(g)
<1>1. Balance = h[Days]
  BY DEF Balance, SumOver, MapThenSumSet, MapThenFoldSet
<1>2. ASSUME NEW g PROVE Plain(g) = Steps(f, g, Days)
  <2>1. ASSUME NEW s \in SUBSET Days, s # {}
        PROVE  f[Chosen(s)] = moved[Chosen(s)] + result[Chosen(s)]
    BY <2>1, ChosenIn
  <2> QED
    BY <2>1 DEF Steps, Chosen
<1>3. IsFiniteSet(Days)
  BY SomeDays
<1>4. \E g : g = Plain(g)
  BY <1>2, <1>3, FoldExists
<1>5. h = Plain(h)
  <2> HIDE DEF Plain
  <2> QED
    BY <1>4
<1>6. h = Steps(f, h, Days)
  BY <1>2, <1>5
<1>7. \A d \in Days : f[d] \in Int
  BY DEF PoolTypeOK
<1> HIDE DEF h, f
<1>8. h[Days] = SumOf(f, Days)
  BY <1>3, <1>6, SumIs
<1>9. SumOf(f, Days) \in Int
  BY <1>3, <1>7, SumType
<1> QED
  BY <1>1, <1>8, <1>9

\* A share of what was earned is not negative.
LEMMA ShareIsNat ==
  ASSUME NEW net \in Int, NEW share \in Shares
  PROVE  Distributable(net, share) \in Nat
<1>1. share \in {1, 3, 4}
  BY ShareAssumption
<1>2. \A n \in Nat : n \div 4 \in Nat
  OBVIOUS
<1>3. net > 0 => net * share \in Nat
  BY <1>1
<1> QED
  BY <1>2, <1>3 DEF Distributable

Records == [at : Stages, run : Runs \cup {NoRun}, amount : Nat, balance : Int]

LEMMA IdleTyped == Idle \in Records
  BY DEF Idle, Records, Stages

LEMMA CutOffTyped ==
  ASSUME Inv, NEW qs \in SUBSET AdminRequests
  PROVE  CutOff(qs) \subseteq Runs
  BY DEF CutOff, Inv, PlaceInv, Is

LEMMA RequestStepTyped ==
  ASSUME Inv, PoolTypeOK, NEW q \in AdminRequests, RequestStep(q)
  PROVE  PoolTypeOK'
<1>0. today \in Days /\ entries + 1 \in Nat
  BY DEF PoolTypeOK
<1>1. ASSUME NEW n \in Amounts, NEW respectLockup \in BOOLEAN, ReadBalance(q, n, respectLockup)
      PROVE  PoolTypeOK'
  <2> DEFINE next == [Idle EXCEPT !.at = "withdraw", !.amount = n, !.balance = Balance]
  <2>1. next \in Records
    BY BalanceIsInt, AmountAssumption DEF Idle, Records, Stages
  <2>2. request' = [request EXCEPT ![q] = next]
    BY <1>1 DEF ReadBalance, Becomes
  <2> HIDE DEF next
  <2>3. request' \in [AdminRequests -> Records]
    BY <2>1, <2>2 DEF PoolTypeOK, Records
  <2> QED
    BY <1>0, <1>1, <2>3 DEF PoolTypeOK, ReadBalance, Records
<1>2. CASE InsertWithdrawal(q)
  <2>1. request' \in [AdminRequests -> Records]
    BY <1>2, IdleTyped DEF PoolTypeOK, Records, InsertWithdrawal, Becomes
  <2>2. request[q].amount \in Int /\ moved[today] \in Int
    BY <1>0 DEF PoolTypeOK
  <2>3. moved' \in [Days -> Int]
    BY <1>2, <2>2 DEF PoolTypeOK, InsertWithdrawal
  <2> QED
    BY <1>2, <2>1, <2>3 DEF PoolTypeOK, InsertWithdrawal, Records
<1>3. ASSUME NEW first \in Days, NEW end \in 2..LastDay + 1, NEW share \in Shares,
             ComputeTotals(q, first, end, share)
      PROVE  PoolTypeOK'
  <2> DEFINE amount == Distributable(NetPnL(first, end), share)
             next == [Idle EXCEPT !.at = "draft", !.amount = amount]
  <2>1. amount \in Nat
    BY NetIsInt, ShareIsNat
  <2>2. request' = [request EXCEPT ![q] = next]
    BY <1>3 DEF ComputeTotals, Becomes
  <2> HIDE DEF amount
  <2>3. next = [at |-> "draft", run |-> NoRun, amount |-> amount, balance |-> 0]
    BY IdleWith
  <2> HIDE DEF next
  <2>4. next \in Records
    BY <2>1, <2>3 DEF Records, Stages
  <2>5. request' \in [AdminRequests -> Records]
    BY <2>2, <2>4 DEF PoolTypeOK, Records
  <2> QED
    BY <1>3, <2>5 DEF PoolTypeOK, ComputeTotals, Records
<1>4. ASSUME NEW r \in Runs, InsertRun(q, r) PROVE PoolTypeOK'
  <2>1. request' \in [AdminRequests -> Records]
    BY <1>4, IdleTyped DEF PoolTypeOK, Records, InsertRun, Becomes
  <2>2. [status |-> "draft", distributable |-> request[q].amount]
          \in [status : Status, distributable : Nat]
    BY DEF PoolTypeOK, Status
  <2>3. run' \in [Runs -> [status : Status, distributable : Nat]]
    BY <1>4, <2>2 DEF PoolTypeOK, InsertRun
  <2> QED
    BY <1>4, <2>1, <2>3 DEF PoolTypeOK, InsertRun, Records
<1>5. ASSUME NEW r \in Runs, ReadRun(q, r) PROVE PoolTypeOK'
  <2> DEFINE at == IF run[r].distributable > 0 THEN "distribute" ELSE "approve"
             next == [Idle EXCEPT !.at = at, !.run = r]
  <2>1. at \in Stages
    BY DEF Stages
  <2>2. request' = [request EXCEPT ![q] = next]
    BY <1>5 DEF ReadRun, Becomes
  <2> HIDE DEF at
  <2>3. next = [at |-> at, run |-> r, amount |-> 0, balance |-> 0]
    BY IdleWith
  <2> HIDE DEF next
  <2>4. next \in Records
    BY <2>1, <2>3 DEF Records
  <2>5. request' \in [AdminRequests -> Records]
    BY <2>2, <2>4 DEF PoolTypeOK, Records
  <2> QED
    BY <1>5, <2>5 DEF PoolTypeOK, ReadRun, Records
<1>6. CASE InsertDistribution(q)
  <2> DEFINE r == request[q].run
             next == [request[q] EXCEPT !.at = "approve"]
  <2>1. r \in Runs
    BY <1>6 DEF InsertDistribution, Inv, PlaceInv, Is
  <2>2. next \in Records
    BY DEF PoolTypeOK, Records, Stages
  <2>3. /\ request' = [request EXCEPT ![q] = next]
        /\ moved' = [moved EXCEPT ![today] = @ - run[r].distributable]
        /\ distributed' = [distributed EXCEPT ![r] = @ + 1]
        /\ UNCHANGED <<today, result, run, disputed, entries, faults>>
    BY <1>6 DEF InsertDistribution, Becomes
  <2> HIDE DEF r, next
  <2>4. request' \in [AdminRequests -> Records]
    BY <2>2, <2>3 DEF PoolTypeOK, Records
  <2>5. run[r].distributable \in Int /\ moved[today] \in Int /\ distributed[r] \in Nat
    BY <1>0, <2>1 DEF PoolTypeOK
  <2> DEFINE n == run[r].distributable
  <2>6. moved' \in [Days -> Int]
    <3>1. n \in Int /\ moved' = [moved EXCEPT ![today] = @ - n]
      BY <2>3, <2>5
    <3> HIDE DEF n
    <3> QED
      BY <2>5, <3>1 DEF PoolTypeOK
  <2>7. distributed' \in [Runs -> Nat]
    <3>1. /\ distributed' = [distributed EXCEPT ![r] = distributed[r] + 1]
          /\ distributed \in [Runs -> Nat] /\ distributed[r] + 1 \in Nat
      BY <2>3, <2>5 DEF PoolTypeOK
    <3> QED
      BY <3>1
  <2> QED
    BY <2>3, <2>4, <2>6, <2>7 DEF PoolTypeOK, Records
<1>7. CASE Approve(q)
  <2> DEFINE r == request[q].run
  <2>1. r \in Runs
    BY <1>7 DEF Approve, Inv, PlaceInv, Is
  <2>2. /\ request' = [request EXCEPT ![q] = Idle]
        /\ run' = [run EXCEPT ![r].status = "approved"]
        /\ UNCHANGED <<today, moved, result, distributed, disputed, entries, faults>>
    BY <1>7 DEF Approve, Becomes
  <2> HIDE DEF r
  <2>3. request' \in [AdminRequests -> Records]
    BY <2>2, IdleTyped DEF PoolTypeOK, Records
  <2>4. run' \in [Runs -> [status : Status, distributable : Nat]]
    BY <2>1, <2>2 DEF PoolTypeOK, Status
  <2> QED
    BY <2>2, <2>3, <2>4 DEF PoolTypeOK, Records
<1>8. CASE Fail(q)
  <2>1. request' \in [AdminRequests -> Records]
    BY <1>8, IdleTyped DEF PoolTypeOK, Records, Fail, Becomes
  <2>2. {q} \in SUBSET AdminRequests
    OBVIOUS
  <2>3. CutOff({q}) \subseteq Runs
    BY <2>2, CutOffTyped
  <2>4. disputed' = disputed \cup CutOff({q}) /\ faults' = faults + 1
    BY <1>8 DEF Fail, Fault
  <2>5. disputed' \subseteq Runs /\ faults' \in Nat
    <3>1. disputed \subseteq Runs /\ faults \in Nat
      BY DEF PoolTypeOK
    <3>2. faults' \in Nat
      BY <2>4, <3>1
    <3> QED
      BY <2>3, <2>4, <3>1, <3>2
  <2> QED
    BY <1>8, <2>1, <2>5 DEF PoolTypeOK, Fail, Records
<1> QED
  BY <1>1, <1>2, <1>3, <1>4, <1>5, <1>6, <1>7, <1>8 DEF RequestStep

LEMMA StepTyped == Inv /\ PoolTypeOK /\ [PoolNext]_poolVars => PoolTypeOK'
<1> SUFFICES ASSUME Inv, PoolTypeOK, [PoolNext]_poolVars PROVE PoolTypeOK'
  OBVIOUS
<1>0. today \in Days /\ moved[today] \in Int /\ result[today] \in Int
  BY DEF PoolTypeOK
<1>1. ASSUME NEW n \in Amounts, Deposit(n) PROVE PoolTypeOK'
  <2>1. n \in Int
    BY AmountAssumption
  <2> QED
    BY <1>0, <1>1, <2>1 DEF PoolTypeOK, Deposit
<1>2. ASSUME NEW n \in Results, Book(n) PROVE PoolTypeOK'
  <2>1. n \in Int
    BY AmountAssumption
  <2> QED
    BY <1>0, <1>2, <2>1 DEF PoolTypeOK, Book
<1>3. CASE \E q \in AdminRequests : RequestStep(q)
  BY <1>3, RequestStepTyped
<1>4. CASE RestartPool
  <2>1. request' \in [AdminRequests -> Records]
    BY <1>4, IdleTyped DEF RestartPool
  <2>2. CutOff(AdminRequests) \subseteq Runs
    BY CutOffTyped
  <2> QED
    BY <1>4, <2>1, <2>2 DEF PoolTypeOK, RestartPool, Records, Fault
<1>5. CASE NextDay
  BY <1>5, BoundAssumption DEF NextDay, PoolTypeOK, Days
<1>6. CASE UNCHANGED poolVars
  BY <1>6 DEF poolVars, PoolTypeOK
<1> QED
  BY <1>1, <1>2, <1>3, <1>4, <1>5, <1>6 DEF PoolNext

\* Whatever is deposited, booked, withdrawn and settled, whenever requests are
\* cut off: the ledger and the runs keep their types; no run is drafted that
\* distributes less than nothing.
THEOREM PoolTyped == PoolSpec => []PoolTypeOK
<1>1. PoolInit => PoolTypeOK
  BY BoundAssumption DEF PoolInit, PoolTypeOK, Days, Absent, Status, Idle, Stages
<1> QED
  BY <1>1, InitInv, StepInv, StepTyped, PTL DEF PoolSpec

\* Both: drafts distribute natural numbers, and a run is distributed once but for
\* the approvals that overlap or are cut off.
THEOREM PoolIsSound == PoolSpec => []PoolInv
<1>1. PoolTypeOK /\ DistributedOnce => PoolInv
  BY DEF PoolInv
<1> QED
  BY <1>1, PoolTyped, RunsDistributedOnce, PTL

-----------------------------------------------------------------------------
(* The treasury.                                                           *)
(*                                                                         *)
(* DayBoughtOnce says nothing of the statements before the insert, so it is *)
(* not inductive: a cycle that is to buy a day again has known since it     *)
(* started that the day was bought, and what stopped it from finding the    *)
(* row of that day is named in gone.  DayInv follows a purchase from the    *)
(* order to the row, and a later cycle from its start to its own insert.    *)

RowState == [status : ProtectionStatus, day : Dates \cup {Never}, triggered : BOOLEAN]

Totals == [paused : BOOLEAN, cycles : Nat, payouts : Nat]

PassState == [at   : Places,
              day  : Dates \cup {Never},
              seen : Totals,
              on   : Protections \cup {NoRow},
              next : {"idle", "expiry", "settle"},
              todo : SUBSET Protections,
              trig : SUBSET Protections,
              over : BOOLEAN]

\* A cycle has its day, and a row that is stored has the day it was bought.
Shaped(s) ==
  /\ s.trig \subseteq s.todo
  /\ s.at \in {"read", "dedup", "lock", "buy", "insert", "total"} => s.day \in Dates
  /\ s.over => s.at \in {"read", "dedup", "lock", "buy", "insert", "total"}

TreasuryShape ==
  /\ TreasuryTypeOK
  /\ pass \in [Passes -> PassState]
  /\ \A j \in Passes : Shaped(pass[j])
  /\ \A p \in StoredRows : rows[p].day \in Dates

\* What was bought on d has a row, or is named as having none.
Recorded(d) == d \in gone \/ \E p \in StoredRows : rows[p].day = d

DayInv ==
  /\ \A d \in Dates :
       bought[d] > 0 => Recorded(d) \/ \E j \in Passes : PassAt(j, "insert") /\ pass[j].day = d
  /\ \A j \in Passes :
       /\ PassAt(j, "total") => Recorded(pass[j].day)
       /\ pass[j].over /\ pass[j].at \in {"read", "dedup"} => Recorded(pass[j].day)
       /\ pass[j].over /\ pass[j].at \in {"lock", "buy", "insert", "total"} => pass[j].day \in gone

TreasuryInv == TreasuryShape /\ DayInv /\ LockHasHolder /\ TotalsKept

\* The records a pass goes to.
LEMMA IdlePassTyped == IdlePass \in PassState /\ Shaped(IdlePass)
  BY DEF IdlePass, PassState, Places, Totals, NoTotals, NoRow, Never, Shaped

\* A pass goes on, and the others stay where they are.
PassGoes(j) ==
  /\ pass' \in [Passes -> PassState]
  /\ Shaped(pass'[j])
  /\ \A k \in Passes \ {j} : pass'[k] = pass[k]

LEMMA GoesTo ==
  ASSUME TreasuryShape, NEW j \in Passes, NEW s \in PassState, Shaped(s), Goes(j, s)
  PROVE  PassGoes(j) /\ pass'[j] = s
  BY DEF TreasuryShape, Goes, PassGoes

\* A record with one more place.
LEMMA PassTo ==
  ASSUME NEW s \in PassState, Shaped(s), NEW at \in Places,
         at \in {"read", "dedup", "lock", "buy", "insert", "total"} => s.day \in Dates,
         s.over => at \in {"read", "dedup", "lock", "buy", "insert", "total"}
  PROVE  /\ [s EXCEPT !.at = at] \in PassState
         /\ Shaped([s EXCEPT !.at = at])
         /\ [s EXCEPT !.at = at].at = at
         /\ [s EXCEPT !.at = at].day = s.day
         /\ [s EXCEPT !.at = at].over = s.over
         /\ [s EXCEPT !.at = at].next = s.next
         /\ [s EXCEPT !.at = at].seen = s.seen
<1> DEFINE n == [s EXCEPT !.at = at]
<1>1. n = [at |-> at, day |-> s.day, seen |-> s.seen, on |-> s.on, next |-> s.next,
           todo |-> s.todo, trig |-> s.trig, over |-> s.over]
  BY DEF PassState
<1>2. n \in PassState
  BY <1>1 DEF PassState
<1>3. Shaped(n)
  BY <1>1 DEF Shaped
<1> QED
  BY <1>1, <1>2, <1>3

-----------------------------------------------------------------------------
(* Where each step leaves its pass.                                        *)

\* The pass is at another place of the same cycle.
Advances(j, at) ==
  /\ PassGoes(j)
  /\ pass'[j].at = at
  /\ pass'[j].day = pass[j].day
  /\ pass'[j].over = pass[j].over
  /\ pass'[j].seen \in Totals

\* It is at a place outside the cycle.
Turns(j, at) ==
  /\ PassGoes(j)
  /\ pass'[j].at = at
  /\ ~pass'[j].over

\* A step to the next place, to one outside the cycle, or to the end.
LEMMA Landings ==
  ASSUME TreasuryShape, NEW j \in Passes, NEW at \in Places
  PROVE  /\ Step(j, at) =>
              (pass[j].at \in {"read", "dedup", "lock", "buy", "insert", "total"} =>
                (at \in {"read", "dedup", "lock", "buy", "insert", "total"} =>
                   Advances(j, at) /\ pass'[j].seen = pass[j].seen))
         /\ (Goes(j, IdlePass) => Turns(j, "idle"))
         /\ Goes(j, [IdlePass EXCEPT !.at = at]) =>
              (at \notin {"read", "dedup", "lock", "buy", "insert", "total"} => Turns(j, at))
<1>0. pass[j] \in PassState /\ Shaped(pass[j])
  BY DEF TreasuryShape
<1>1. ASSUME Step(j, at), pass[j].at \in {"read", "dedup", "lock", "buy", "insert", "total"},
             at \in {"read", "dedup", "lock", "buy", "insert", "total"}
      PROVE  Advances(j, at) /\ pass'[j].seen = pass[j].seen
  <2> DEFINE s == [pass[j] EXCEPT !.at = at]
  <2>1. /\ s \in PassState /\ Shaped(s)
        /\ s.at = at /\ s.day = pass[j].day /\ s.over = pass[j].over
        /\ s.seen = pass[j].seen
    BY <1>0, <1>1, PassTo DEF Shaped
  <2>2. Goes(j, s)
    BY <1>1 DEF Step
  <2>3. pass[j].seen \in Totals
    BY <1>0 DEF PassState
  <2> HIDE DEF s
  <2> QED
    BY <2>1, <2>2, <2>3, GoesTo DEF Advances
<1>2. ASSUME Goes(j, IdlePass) PROVE Turns(j, "idle")
  BY <1>2, GoesTo, IdlePassTyped DEF Turns, IdlePass
<1>3. ASSUME Goes(j, [IdlePass EXCEPT !.at = at]),
             at \notin {"read", "dedup", "lock", "buy", "insert", "total"}
      PROVE  Turns(j, at)
  <2> DEFINE s == [IdlePass EXCEPT !.at = at]
  <2>1. ~IdlePass.over
    BY DEF IdlePass
  <2>2. s \in PassState /\ Shaped(s) /\ s.at = at /\ s.over = IdlePass.over
    BY <1>3, <2>1, IdlePassTyped, PassTo
  <2> HIDE DEF s
  <2> QED
    BY <1>3, <2>1, <2>2, GoesTo DEF Turns, s
<1> QED
  BY <1>1, <1>2, <1>3

\* The daily cycle.
LEMMA CycleLands ==
  ASSUME TreasuryShape, NEW j \in Passes
  PROVE  /\ StartCycle(j) =>
              /\ PassGoes(j)
              /\ pass'[j].at = "read" /\ pass'[j].day = date
              /\ pass'[j].over =>
                   bought[date] > 0 /\ ~\E k \in Passes : pass[k].at \in {"insert", "total"}
         /\ ReadState(j) => Turns(j, "idle") \/ Advances(j, "dedup")
         /\ Dedup(j) =>
              Turns(j, "idle") \/ (Advances(j, "lock") /\ ~\E p \in StoredRows : rows[p].day = pass[j].day)
         /\ TakeLock(j) => Turns(j, "idle") \/ Advances(j, "buy")
         /\ NotBought(j) \/ AnswerLost(j) => Turns(j, "idle")
         /\ Buy(j) => Advances(j, "insert")
         /\ \A p \in Protections : InsertProtection(j, p) => Advances(j, "total")
         /\ AddCycle(j) \/ CycleThrows(j) => Turns(j, "idle")
<1>0. pass[j] \in PassState /\ Shaped(pass[j]) /\ state \in Totals /\ date \in Dates
  BY DEF TreasuryShape, TreasuryTypeOK, Totals
<1>1. ASSUME StartCycle(j)
      PROVE  /\ PassGoes(j)
             /\ pass'[j].at = "read" /\ pass'[j].day = date
             /\ pass'[j].over =>
                  bought[date] > 0 /\ ~\E k \in Passes : pass[k].at \in {"insert", "total"}
  <2> DEFINE o == bought[date] > 0 /\ ~\E k \in Passes : pass[k].at \in {"insert", "total"}
             s == [IdlePass EXCEPT !.at = "read", !.day = date, !.over = o]
  <2>1. Goes(j, s)
    BY <1>1 DEF StartCycle
  <2>2. o \in BOOLEAN
    OBVIOUS
  <2> HIDE DEF o
  <2>3. s \in PassState
    BY <1>0, <2>2 DEF IdlePass, PassState, Places, Totals, NoTotals
  <2>4. /\ s.at = "read" /\ s.day = date /\ s.over = o
        /\ s.todo = {} /\ s.trig = {}
    BY DEF IdlePass
  <2> HIDE DEF s
  <2>5. Shaped(s)
    BY <1>0, <2>4 DEF Shaped
  <2>6. PassGoes(j) /\ pass'[j] = s
    BY <2>1, <2>3, <2>5, GoesTo
  <2>7. pass'[j].at = "read" /\ pass'[j].day = date /\ (pass'[j].over => o)
    BY <2>4, <2>6
  <2> QED
    BY <2>6, <2>7 DEF o
<1>2. ASSUME ReadState(j) PROVE Turns(j, "idle") \/ Advances(j, "dedup")
  <2>1. CASE state.paused
    BY <1>2, <2>1, Landings DEF ReadState, Places
  <2>2. CASE ~state.paused
    <3> DEFINE s == [pass[j] EXCEPT !.at = "dedup", !.seen = state]
    <3>1. Goes(j, s) /\ pass[j].at = "read"
      BY <1>2, <2>2 DEF ReadState, PassAt
    <3>2. /\ s.at = "dedup" /\ s.day = pass[j].day /\ s.seen = state
          /\ s.todo = pass[j].todo /\ s.trig = pass[j].trig /\ s.over = pass[j].over
      BY <1>0 DEF PassState
    <3>3. s \in PassState
      BY <1>0 DEF PassState, Places
    <3> HIDE DEF s
    <3>4. Shaped(s)
      BY <1>0, <3>1, <3>2 DEF Shaped
    <3>5. PassGoes(j) /\ pass'[j] = s
      BY <3>1, <3>3, <3>4, GoesTo
    <3> QED
      BY <1>0, <3>2, <3>5 DEF Advances
  <2> QED
    BY <2>1, <2>2
<1>3. ASSUME Dedup(j)
      PROVE  \/ Turns(j, "idle")
             \/ Advances(j, "lock") /\ ~\E p \in StoredRows : rows[p].day = pass[j].day
  BY <1>3, Landings DEF Dedup, Places, PassAt
<1>4. ASSUME TakeLock(j) PROVE Turns(j, "idle") \/ Advances(j, "buy")
  BY <1>4, Landings DEF TakeLock, Places, PassAt
<1>5. NotBought(j) \/ AnswerLost(j) => Turns(j, "idle")
  BY Landings DEF NotBought, AnswerLost, Places
<1>6. Buy(j) => Advances(j, "insert")
  BY Landings DEF Buy, Places, PassAt
<1>7. ASSUME NEW p \in Protections, InsertProtection(j, p) PROVE Advances(j, "total")
  BY <1>7, Landings DEF InsertProtection, Places, PassAt
<1>8. AddCycle(j) \/ CycleThrows(j) => Turns(j, "idle")
  BY Landings DEF AddCycle, CycleThrows, Places
<1> QED
  BY <1>1, <1>2, <1>3, <1>4, <1>5, <1>6, <1>7, <1>8

\* The trigger check and the expiry check.
LEMMA CheckLands ==
  ASSUME TreasuryShape, NEW j \in Passes
  PROVE  /\ \A p \in Protections : ReadActive(j, p) => Turns(j, "trigger")
         /\ NothingTriggers(j) => Turns(j, "expiry")
         /\ Trigger(j) => Turns(j, "check")
         /\ ReadTotals(j) => Turns(j, "add")
         /\ AddPayout(j) => Turns(j, pass[j].next) /\ pass[j].next \notin {"check", "add"}
         /\ CheckThrows(j) => Turns(j, "idle")
         /\ ListExpired(j) => \E at \in {"idle", "settle"} : Turns(j, at)
         /\ \A p \in Protections, inTheMoney \in BOOLEAN :
              Settle(j, p, inTheMoney) =>
                IF inTheMoney /\ p \notin pass[j].trig
                THEN Turns(j, "check")
                ELSE \E at \in {"idle", "settle"} : Turns(j, at)
<1>0. pass[j] \in PassState /\ Shaped(pass[j]) /\ state \in Totals
  BY DEF TreasuryShape, TreasuryTypeOK, Totals
<1>1. ASSUME NEW p \in Protections, ReadActive(j, p) PROVE Turns(j, "trigger")
  <2> DEFINE s == [IdlePass EXCEPT !.at = "trigger", !.on = p]
  <2>1. Goes(j, s)
    BY <1>1 DEF ReadActive
  <2>2. s \in PassState
    BY DEF IdlePass, PassState, Places, Totals, NoTotals
  <2>3. s.at = "trigger" /\ s.todo = {} /\ s.trig = {} /\ s.over = FALSE
    BY DEF IdlePass
  <2> HIDE DEF s
  <2>4. Shaped(s)
    BY <2>3 DEF Shaped
  <2> QED
    BY <2>1, <2>2, <2>3, <2>4, GoesTo DEF Turns
<1>2. NothingTriggers(j) => Turns(j, "expiry")
  BY Landings DEF NothingTriggers, Places
<1>3. ASSUME Trigger(j) PROVE Turns(j, "check")
  <2> DEFINE s == [IdlePass EXCEPT !.at = "check", !.next = "expiry"]
  <2>1. Goes(j, s)
    BY <1>3 DEF Trigger
  <2>2. s \in PassState
    BY DEF IdlePass, PassState, Places, Totals, NoTotals
  <2>3. s.at = "check" /\ s.todo = {} /\ s.trig = {} /\ s.over = FALSE
    BY DEF IdlePass
  <2> HIDE DEF s
  <2>4. Shaped(s)
    BY <2>3 DEF Shaped
  <2> QED
    BY <2>1, <2>2, <2>3, <2>4, GoesTo DEF Turns
<1>4. ASSUME ReadTotals(j) PROVE Turns(j, "add")
  <2> DEFINE s == [pass[j] EXCEPT !.at = "add", !.seen = state]
  <2>0. pass[j].at = "check" /\ Goes(j, s)
    BY <1>4 DEF ReadTotals, PassAt
  <2>1. /\ s.at = "add" /\ s.over = pass[j].over
        /\ s.todo = pass[j].todo /\ s.trig = pass[j].trig
    BY <1>0 DEF PassState
  <2>2. s \in PassState
    BY <1>0 DEF PassState, Places
  <2> HIDE DEF s
  <2>3. ~pass[j].over /\ Shaped(s)
    BY <1>0, <2>0, <2>1 DEF Shaped
  <2> QED
    BY <2>0, <2>1, <2>2, <2>3, GoesTo DEF Turns
<1>5. ASSUME AddPayout(j)
      PROVE  Turns(j, pass[j].next) /\ pass[j].next \notin {"check", "add"}
  <2> DEFINE s == [pass[j] EXCEPT !.at = pass[j].next, !.next = "idle", !.seen = NoTotals]
  <2>0. pass[j].at = "add" /\ Goes(j, s) /\ pass[j].next \in {"idle", "expiry", "settle"}
    BY <1>0, <1>5 DEF AddPayout, PassAt, PassState
  <2>1. /\ s.at = pass[j].next /\ s.over = pass[j].over
        /\ s.todo = pass[j].todo /\ s.trig = pass[j].trig
    BY <1>0 DEF PassState
  <2>2. s \in PassState
    BY <1>0, <2>0 DEF PassState, Places, Totals, NoTotals
  <2> HIDE DEF s
  <2>3. ~pass[j].over /\ Shaped(s)
    BY <1>0, <2>0, <2>1 DEF Shaped
  <2> QED
    BY <2>0, <2>1, <2>2, <2>3, GoesTo DEF Turns
<1>6. CheckThrows(j) => Turns(j, "idle")
  BY Landings DEF CheckThrows, Places
<1>7. ASSUME ListExpired(j) PROVE \E at \in {"idle", "settle"} : Turns(j, at)
  <2>1. PICK ended \in SUBSET ExpiredRows :
          Goes(j, IF ended = {} THEN IdlePass
                  ELSE [IdlePass EXCEPT !.at = "settle", !.todo = ended,
                                        !.trig = {p \in ended : rows[p].triggered}])
    BY <1>7 DEF ListExpired
  <2>2. CASE ended = {}
    BY <2>1, <2>2, Landings DEF Places
  <2>3. CASE ended # {}
    <3> DEFINE t == {p \in ended : rows[p].triggered}
               s == [IdlePass EXCEPT !.at = "settle", !.todo = ended, !.trig = t]
    <3>1. t \subseteq ended /\ ended \subseteq Protections
      BY DEF ExpiredRows
    <3>2. Goes(j, s)
      BY <2>1, <2>3
    <3> HIDE DEF t
    <3>3. s \in PassState
      BY <3>1 DEF IdlePass, PassState, Places, Totals, NoTotals
    <3>4. s.at = "settle" /\ s.todo = ended /\ s.trig = t /\ s.over = FALSE
      BY DEF IdlePass
    <3> HIDE DEF s
    <3>5. Shaped(s)
      BY <3>1, <3>4 DEF Shaped
    <3> QED
      BY <3>2, <3>3, <3>4, <3>5, GoesTo DEF Turns
  <2> QED
    BY <2>2, <2>3
<1>8. ASSUME NEW p \in Protections, NEW inTheMoney \in BOOLEAN, Settle(j, p, inTheMoney)
      PROVE  IF inTheMoney /\ p \notin pass[j].trig
             THEN Turns(j, "check")
             ELSE \E at \in {"idle", "settle"} : Turns(j, at)
  <2> DEFINE added == inTheMoney /\ p \notin pass[j].trig
             left == pass[j].todo \ {p}
             on == IF left = {} THEN "idle" ELSE "settle"
             at == IF added THEN "check" ELSE on
             nx == IF added THEN on ELSE "idle"
             tr == pass[j].trig \ {p}
             s == [pass[j] EXCEPT !.at = at, !.next = nx, !.todo = left, !.trig = @ \ {p}]
  <2>0. pass[j].at = "settle" /\ Goes(j, s)
    BY <1>8 DEF Settle, PassAt
  <2>1. /\ at \in {"idle", "settle", "check"} /\ nx \in {"idle", "settle"}
        /\ left \subseteq Protections /\ tr \subseteq Protections /\ tr \subseteq left
    BY <1>0 DEF PassState, Shaped
  <2> HIDE DEF at, nx, left
  <2>2. s.at = at /\ s.todo = left /\ s.trig = tr /\ s.over = pass[j].over
    BY <1>0 DEF PassState
  <2>3. s \in PassState
    BY <1>0, <2>1 DEF PassState, Places
  <2> HIDE DEF s, tr
  <2>4. ~pass[j].over /\ Shaped(s)
    BY <1>0, <2>0, <2>1, <2>2 DEF Shaped
  <2>5. Turns(j, at)
    BY <2>0, <2>2, <2>3, <2>4, GoesTo DEF Turns
  <2> QED
    BY <2>5 DEF at
<1> QED
  BY <1>1, <1>2, <1>3, <1>4, <1>5, <1>6, <1>7, <1>8

-----------------------------------------------------------------------------
(* The variables keep their types.                                         *)

\* The tables and the history.
TablesTyped ==
  /\ date \in Dates
  /\ rows \in [Protections -> RowState]
  /\ state \in Totals
  /\ lock \in BOOLEAN
  /\ bought \in [Dates -> Nat]
  /\ owed \in Nat
  /\ blurred \subseteq {"cycles", "payouts"}
  /\ unsaid \subseteq {"cycles", "payouts", "lock"}
  /\ gone \subseteq Dates
  /\ failures \in 0..MaxFailures
  /\ \A p \in StoredRows : rows[p].day \in Dates

LEMMA ShapeParts ==
  TreasuryShape <=> /\ TablesTyped
                    /\ pass \in [Passes -> PassState]
                    /\ \A j \in Passes : Shaped(pass[j])
<1>1. ASSUME pass \in [Passes -> PassState], \A j \in Passes : Shaped(pass[j])
      PROVE  \A j \in Passes :
               /\ pass[j].at \in Places
               /\ pass[j].on \in Protections \cup {NoRow}
               /\ pass[j].trig \subseteq pass[j].todo
               /\ pass[j].todo \subseteq Protections
  BY <1>1 DEF PassState, Shaped
<1> QED
  BY <1>1 DEF TreasuryShape, TreasuryTypeOK, TablesTyped, RowState, Totals

\* A pass that goes on leaves every pass shaped.
LEMMA PassesTyped ==
  ASSUME TreasuryShape, NEW j \in Passes, PassGoes(j)
  PROVE  pass' \in [Passes -> PassState] /\ \A k \in Passes : Shaped(pass'[k])
  BY DEF TreasuryShape, PassGoes

\* Turns and Advances are ways to go on.
LEMMA EachGoes ==
  ASSUME TreasuryShape, NEW j \in Passes,
         CycleStep(j) \/ CheckStep(j) \/ Reset(j) \/ ZeroTotals(j)
  PROVE  PassGoes(j)
<1>1. CASE CycleStep(j)
  BY <1>1, CycleLands DEF CycleStep, Turns, Advances
<1>2. CASE CheckStep(j)
  BY <1>2, CheckLands DEF CheckStep, Turns
<1>3. CASE Reset(j)
  <2>1. pass[j] \in PassState /\ Shaped(pass[j]) /\ pass[j].at = "idle"
    BY <1>3 DEF TreasuryShape, Reset, PassAt
  <2> DEFINE s == [pass[j] EXCEPT !.at = "zero"]
  <2>2. s \in PassState /\ Shaped(s)
    BY <2>1, PassTo DEF Places, Shaped
  <2>3. Goes(j, s)
    BY <1>3 DEF Reset, Step
  <2> HIDE DEF s
  <2> QED
    BY <2>2, <2>3, GoesTo
<1>4. CASE ZeroTotals(j)
  BY <1>4, Landings DEF ZeroTotals, Turns, Places
<1> QED
  BY <1>1, <1>2, <1>3, <1>4

LEMMA InitTreasuryShape == TreasuryInit => TreasuryShape
<1> SUFFICES ASSUME TreasuryInit PROVE TreasuryShape
  OBVIOUS
<1>1. pass \in [Passes -> PassState] /\ \A j \in Passes : Shaped(pass[j])
  BY IdlePassTyped DEF TreasuryInit
<1>2. rows \in [Protections -> RowState] /\ StoredRows = {}
  BY DEF TreasuryInit, NotInserted, RowState, ProtectionStatus, StoredRows
<1>3. TablesTyped
  <2>1. date \in Dates /\ bought \in [Dates -> Nat] /\ failures \in 0..MaxFailures
    BY DateAssumption DEF TreasuryInit, Dates
  <2>2. state \in Totals /\ owed \in Nat /\ lock \in BOOLEAN
    BY DEF TreasuryInit, Totals, NoTotals
  <2> QED
    BY <1>2, <2>1, <2>2 DEF TreasuryInit, TablesTyped
<1> QED
  BY <1>1, <1>3, ShapeParts

\* A failed statement and the totals are counted.
LEMMA FailureTyped == TablesTyped /\ Failure => failures' \in 0..MaxFailures
  BY DateAssumption DEF TablesTyped, Failure

LEMMA CycleTyped ==
  ASSUME TreasuryShape, NEW j \in Passes, CycleStep(j)
  PROVE  TablesTyped'
<1>0. /\ pass[j] \in PassState /\ Shaped(pass[j]) /\ TablesTyped
  BY ShapeParts
<1>1. CASE StartCycle(j) \/ ReadState(j) \/ Dedup(j) \/ TakeLock(j) \/ NotBought(j)
  <2>1. UNCHANGED <<date, rows, state, bought, owed, blurred, unsaid, gone, failures>>
    BY <1>1 DEF StartCycle, ReadState, Dedup, TakeLock, NotBought
  <2>2. lock' \in BOOLEAN
    BY <1>0, <1>1 DEF StartCycle, ReadState, Dedup, TakeLock, NotBought, TablesTyped
  <2> QED
    BY <1>0, <2>1, <2>2 DEF TablesTyped, StoredRows
<1>2. CASE AnswerLost(j) \/ Buy(j)
  <2>1. pass[j].day \in Dates
    BY <1>0, <1>2 DEF AnswerLost, Buy, PassAt, Shaped
  <2>2. bought' = [bought EXCEPT ![pass[j].day] = @ + 1] /\ UNCHANGED <<date, rows, state, owed, blurred>>
    BY <1>2 DEF AnswerLost, Buy
  <2>3. bought' \in [Dates -> Nat]
    BY <1>0, <2>1, <2>2 DEF TablesTyped
  <2>4. /\ lock' \in BOOLEAN /\ unsaid' \subseteq {"cycles", "payouts", "lock"}
        /\ gone' \subseteq Dates /\ failures' \in 0..MaxFailures
    BY <1>0, <1>2, <2>1, FailureTyped DEF AnswerLost, Buy, TablesTyped
  <2> QED
    BY <1>0, <2>2, <2>3, <2>4 DEF TablesTyped, StoredRows
<1>3. ASSUME NEW p \in Protections, InsertProtection(j, p) PROVE TablesTyped'
  <2>1. pass[j].day \in Dates
    BY <1>0, <1>3 DEF InsertProtection, PassAt, Shaped
  <2> DEFINE r == [status |-> "active", day |-> pass[j].day, triggered |-> FALSE]
  <2>2. r \in RowState /\ r.day \in Dates
    BY <2>1 DEF RowState, ProtectionStatus
  <2>3. rows' = [rows EXCEPT ![p] = r]
    BY <1>3 DEF InsertProtection
  <2> HIDE DEF r
  <2>4. rows' \in [Protections -> RowState] /\ rows'[p].day \in Dates
        /\ \A q \in Protections \ {p} : rows'[q] = rows[q]
    BY <1>0, <2>2, <2>3 DEF TablesTyped
  <2>5. \A q \in StoredRows' : rows'[q].day \in Dates
    BY <1>0, <2>4 DEF TablesTyped, StoredRows
  <2> QED
    BY <1>0, <1>3, <2>4, <2>5 DEF TablesTyped, InsertProtection
<1>4. CASE AddCycle(j)
  <2> DEFINE n == pass[j].seen.cycles + 1
  <2>1. n \in Nat
    BY <1>0 DEF PassState, Totals
  <2>2. state' = [state EXCEPT !.cycles = n]
    BY <1>4 DEF AddCycle
  <2> HIDE DEF n
  <2>3. state' \in Totals
    BY <1>0, <2>1, <2>2 DEF TablesTyped, Totals
  <2>4. blurred' \subseteq {"cycles", "payouts"} /\ lock' \in BOOLEAN
        /\ UNCHANGED <<date, rows, bought, owed, unsaid, gone, failures>>
    BY <1>0, <1>4 DEF AddCycle, TablesTyped
  <2> QED
    BY <1>0, <2>3, <2>4 DEF TablesTyped, StoredRows
<1>5. CASE CycleThrows(j)
  <2>1. PassAt(j, "insert") => pass[j].day \in Dates
    BY <1>0 DEF PassAt, Shaped
  <2>2. /\ unsaid' \subseteq {"cycles", "payouts", "lock"} /\ gone' \subseteq Dates
        /\ failures' \in 0..MaxFailures
        /\ UNCHANGED <<date, rows, state, lock, bought, owed, blurred>>
    BY <1>0, <1>5, <2>1, FailureTyped DEF CycleThrows, TablesTyped
  <2> QED
    BY <1>0, <2>2 DEF TablesTyped, StoredRows
<1> QED
  BY <1>1, <1>2, <1>3, <1>4, <1>5 DEF CycleStep

\* The status of a row stored is patched, and nothing else of it.
Patched ==
  /\ rows' \in [Protections -> RowState]
  /\ \A q \in Protections : rows'[q].day = rows[q].day
  /\ StoredRows' = StoredRows

LEMMA NotPatched == TablesTyped /\ rows' = rows => Patched
  BY DEF TablesTyped, Patched, StoredRows

LEMMA PatchedTyped ==
  ASSUME TablesTyped, NEW p \in StoredRows, NEW s \in ProtectionStatus \ {"absent", "deleted"},
         \/ rows' = [rows EXCEPT ![p].status = s]
         \/ rows' = [rows EXCEPT ![p].status = s, ![p].triggered = TRUE]
  PROVE  Patched
<1>0. p \in Protections /\ rows \in [Protections -> RowState]
  BY DEF StoredRows, TablesTyped
<1>1. rows' \in [Protections -> RowState]
  BY <1>0 DEF RowState
<1>2. \A q \in Protections : rows'[q].day = rows[q].day
  BY <1>0 DEF RowState
<1>3. rows'[p].status = s /\ \A q \in Protections \ {p} : rows'[q].status = rows[q].status
  BY <1>0 DEF RowState
<1>4. StoredRows' = StoredRows
  BY <1>0, <1>3 DEF StoredRows
<1> QED
  BY <1>1, <1>2, <1>4 DEF Patched

\* A check patches rows and adds to the payouts.
LEMMA CheckTyped ==
  ASSUME TreasuryShape, NEW j \in Passes, CheckStep(j)
  PROVE  TablesTyped' /\ Patched
<1>0. /\ pass[j] \in PassState /\ Shaped(pass[j]) /\ TablesTyped
  BY ShapeParts
<1>1. CASE \/ \E p \in Protections : ReadActive(j, p)
           \/ NothingTriggers(j) \/ ReadTotals(j) \/ ListExpired(j)
  <2>1. UNCHANGED <<date, rows, state, lock, bought, owed, blurred, unsaid, gone, failures>>
    BY <1>1 DEF ReadActive, NothingTriggers, ReadTotals, ListExpired
  <2> QED
    BY <1>0, <2>1, NotPatched DEF TablesTyped, StoredRows
<1>2. ASSUME Patched, owed' \in Nat,
             UNCHANGED <<date, state, lock, bought, blurred, unsaid, gone, failures>>
      PROVE  TablesTyped'
  BY <1>0, <1>2 DEF TablesTyped, Patched, StoredRows
<1>3. CASE Trigger(j)
  <2>1. "triggered" \in ProtectionStatus \ {"absent", "deleted"}
    BY DEF ProtectionStatus
  <2>2. Patched
    <3>1. CASE pass[j].on \in StoredRows
      BY <1>0, <1>3, <2>1, <3>1, PatchedTyped DEF Trigger
    <3>2. CASE pass[j].on \notin StoredRows
      BY <1>0, <1>3, <3>2, NotPatched DEF Trigger
    <3> QED
      BY <3>1, <3>2
  <2>3. /\ owed' \in Nat
        /\ UNCHANGED <<date, state, lock, bought, blurred, unsaid, gone, failures>>
    BY <1>0, <1>3 DEF Trigger, TablesTyped
  <2> QED
    BY <1>2, <2>2, <2>3
<1>4. ASSUME NEW p \in Protections, NEW inTheMoney \in BOOLEAN, Settle(j, p, inTheMoney)
      PROVE  TablesTyped' /\ Patched
  <2> DEFINE s == FinalStatus(p \in pass[j].trig, inTheMoney)
  <2>1. s \in ProtectionStatus \ {"absent", "deleted"}
    BY DEF FinalStatus, ProtectionStatus
  <2>2. rows' = IF p \in StoredRows THEN [rows EXCEPT ![p].status = s] ELSE rows
    BY <1>4 DEF Settle
  <2> HIDE DEF s
  <2>3. Patched
    <3>1. CASE p \in StoredRows
      BY <1>0, <2>1, <2>2, <3>1, PatchedTyped
    <3>2. CASE p \notin StoredRows
      BY <1>0, <2>2, <3>2, NotPatched
    <3> QED
      BY <3>1, <3>2
  <2>4. /\ owed' \in Nat
        /\ UNCHANGED <<date, state, lock, bought, blurred, unsaid, gone, failures>>
    BY <1>0, <1>4 DEF Settle, TablesTyped
  <2> QED
    BY <1>2, <2>3, <2>4
<1>5. CASE AddPayout(j)
  <2> DEFINE n == pass[j].seen.payouts + 1
  <2>1. n \in Nat
    BY <1>0 DEF PassState, Totals
  <2>2. state' = [state EXCEPT !.payouts = n]
    BY <1>5 DEF AddPayout
  <2> HIDE DEF n
  <2>3. state' \in Totals
    BY <1>0, <2>1, <2>2 DEF TablesTyped, Totals
  <2>4. /\ blurred' \subseteq {"cycles", "payouts"}
        /\ UNCHANGED <<date, rows, lock, bought, owed, unsaid, gone, failures>>
    BY <1>0, <1>5 DEF AddPayout, TablesTyped
  <2> QED
    BY <1>0, <2>3, <2>4, NotPatched DEF TablesTyped, StoredRows
<1>6. CASE CheckThrows(j)
  <2>1. /\ unsaid' \subseteq {"cycles", "payouts", "lock"} /\ failures' \in 0..MaxFailures
        /\ UNCHANGED <<date, rows, state, lock, bought, owed, blurred, gone>>
    BY <1>0, <1>6, FailureTyped DEF CheckThrows, TablesTyped
  <2> QED
    BY <1>0, <2>1, NotPatched DEF TablesTyped, StoredRows
<1> QED
  BY <1>1, <1>3, <1>4, <1>5, <1>6 DEF CheckStep

\* The admin, the clock and a restart.
LEMMA OthersTyped ==
  ASSUME TreasuryShape
  PROVE  /\ \A j \in Passes : Reset(j) \/ ZeroTotals(j) => TablesTyped'
         /\ \A b \in BOOLEAN : SetPaused(b) => TablesTyped'
         /\ NextDate \/ RestartScheduler => TablesTyped'
<1>0. TablesTyped /\ \A j \in Passes : pass[j] \in PassState /\ Shaped(pass[j])
  BY ShapeParts
<1>1. ASSUME NEW j \in Passes, Reset(j) PROVE TablesTyped'
  <2> DEFINE r == [NotInserted EXCEPT !.status = "deleted"]
  <2>1. r \in RowState /\ r.status = "deleted"
    BY DEF RowState, NotInserted, ProtectionStatus
  <2>2. rows' = [p \in Protections |-> IF p \in StoredRows THEN r ELSE rows[p]]
    BY <1>1 DEF Reset
  <2> HIDE DEF r
  <2>3. rows' \in [Protections -> RowState]
    BY <1>0, <2>1, <2>2 DEF TablesTyped
  <2>4. StoredRows' = {}
    BY <2>1, <2>2 DEF StoredRows
  <2>5. gone' \subseteq Dates /\ failures' \in 0..MaxFailures
        /\ UNCHANGED <<date, state, lock, bought, owed, blurred, unsaid>>
    BY <1>0, <1>1, FailureTyped DEF Reset, TablesTyped
  <2> QED
    BY <1>0, <2>3, <2>4, <2>5 DEF TablesTyped
<1>2. ASSUME NEW j \in Passes, ZeroTotals(j) PROVE TablesTyped'
  <2>1. \A d \in Dates : Cardinality({k \in Cycling : pass[k].day = d}) \in Nat
    <3> TAKE d \in Dates
    <3>1. {k \in Cycling : pass[k].day = d} \subseteq Passes
      BY DEF Cycling
    <3> QED
      BY <3>1, PassAssumption, FS_Subset, FS_CardinalityType
  <2>2. bought' \in [Dates -> Nat]
    BY <1>2, <2>1 DEF ZeroTotals
  <2>3. PayingIn \subseteq Passes
    BY DEF PayingIn
  <2>4. owed' \in Nat
    BY <1>2, <2>3, PassAssumption, FS_Subset, FS_CardinalityType DEF ZeroTotals
  <2>5. state' \in Totals
    <3>1. state' = [NoTotals EXCEPT !.paused = state.paused] /\ state.paused \in BOOLEAN
      BY <1>0, <1>2 DEF ZeroTotals, TablesTyped, Totals
    <3> QED
      BY <3>1 DEF NoTotals, Totals
  <2>6. /\ blurred' = {} /\ unsaid' \subseteq {"cycles", "payouts", "lock"}
        /\ UNCHANGED <<date, rows, lock, gone, failures>>
    BY <1>0, <1>2 DEF ZeroTotals, TablesTyped
  <2> QED
    BY <1>0, <2>2, <2>4, <2>5, <2>6 DEF TablesTyped, StoredRows
<1>3. ASSUME NEW b \in BOOLEAN, SetPaused(b) PROVE TablesTyped'
  <2>1. state' \in Totals
    BY <1>0, <1>3 DEF SetPaused, TablesTyped, Totals
  <2> QED
    BY <1>0, <1>3, <2>1 DEF SetPaused, TablesTyped, StoredRows
<1>4. NextDate => TablesTyped'
  BY <1>0, DateAssumption DEF NextDate, TablesTyped, Dates, StoredRows
<1>5. CASE RestartScheduler
  <2>1. {pass[j].day : j \in {k \in Cycling : PassAt(k, "insert")}} \subseteq Dates
    BY <1>0 DEF Cycling, PassAt, Shaped
  <2>2. gone' \subseteq Dates /\ unsaid' \subseteq {"cycles", "payouts", "lock"}
    BY <1>0, <1>5, <2>1 DEF RestartScheduler, TablesTyped
  <2> QED
    BY <1>0, <1>5, <2>2, FailureTyped DEF RestartScheduler, TablesTyped, StoredRows
<1> QED
  BY <1>1, <1>2, <1>3, <1>4, <1>5

\* The shape is kept.
LEMMA NextTreasuryShape == TreasuryShape /\ [TreasuryNext]_treasuryVars => TreasuryShape'
<1> SUFFICES ASSUME TreasuryShape, [TreasuryNext]_treasuryVars PROVE TreasuryShape'
  OBVIOUS
<1>0. /\ pass \in [Passes -> PassState] /\ \A j \in Passes : Shaped(pass[j])
      /\ TablesTyped
  BY ShapeParts
<1>1. TablesTyped'
  <2>1. CASE UNCHANGED treasuryVars
    BY <1>0, <2>1 DEF treasuryVars, TablesTyped, StoredRows
  <2> QED
    BY <2>1, CycleTyped, CheckTyped, OthersTyped DEF TreasuryNext
<1>2. pass' \in [Passes -> PassState] /\ \A j \in Passes : Shaped(pass'[j])
  <2>1. ASSUME NEW j \in Passes, CycleStep(j) \/ CheckStep(j) \/ Reset(j) \/ ZeroTotals(j)
        PROVE  pass' \in [Passes -> PassState] /\ \A k \in Passes : Shaped(pass'[k])
    BY <2>1, EachGoes, PassesTyped
  <2>2. RestartScheduler => pass' \in [Passes -> PassState] /\ \A j \in Passes : Shaped(pass'[j])
    BY IdlePassTyped DEF RestartScheduler
  <2>3. UNCHANGED pass => pass' \in [Passes -> PassState] /\ \A j \in Passes : Shaped(pass'[j])
    BY <1>0
  <2> QED
    BY <2>1, <2>2, <2>3 DEF TreasuryNext, treasuryVars, SetPaused, NextDate
<1>3. (/\ TablesTyped
       /\ pass \in [Passes -> PassState]
       /\ \A j \in Passes : Shaped(pass[j]))'
  BY <1>1, <1>2 DEF Shaped
<1> QED
  BY <1>3, ShapeParts, PTL

-----------------------------------------------------------------------------
(* A day is bought once, or named.                                         *)

LEMMA InitDays == TreasuryInit => DayInv
  BY DEF TreasuryInit, DayInv, PassAt, IdlePass

\* What was recorded stays so.
Kept == \A d \in Dates : Recorded(d) => Recorded(d)'

\* A row that keeps its day is a row of that day, and gone only grows.
LEMMA PatchedKept ==
  Patched /\ gone \subseteq gone' => Kept
<1> SUFFICES ASSUME Patched, gone \subseteq gone', NEW d \in Dates, Recorded(d)
             PROVE  Recorded(d)'
  BY DEF Kept
<1>1. CASE d \in gone
  BY <1>1 DEF Recorded
<1>2. ASSUME NEW p \in StoredRows, rows[p].day = d PROVE Recorded(d)'
  <2>1. p \in Protections /\ rows'[p].day = d /\ p \in StoredRows'
    BY <1>2 DEF Patched, StoredRows
  <2> QED
    BY <2>1 DEF Recorded
<1> QED
  BY <1>1, <1>2 DEF Recorded

\* What a cycle knows of its day.
Knows(j) ==
  /\ PassAt(j, "total") => Recorded(pass[j].day)
  /\ pass[j].over /\ pass[j].at \in {"read", "dedup"} => Recorded(pass[j].day)
  /\ pass[j].over /\ pass[j].at \in {"lock", "buy", "insert", "total"} => pass[j].day \in gone

\* The days are kept by a step of one pass that keeps what was recorded, does
\* not leave an insert without a record, and knows what it should.
LEMMA DayFrame ==
  ASSUME TreasuryShape, DayInv, NEW j \in Passes, PassGoes(j), Kept, gone \subseteq gone',
         \A d \in Dates : bought'[d] > 0 =>
           \/ bought[d] > 0
           \/ Recorded(d)' \/ \E k \in Passes : PassAt(k, "insert")' /\ pass'[k].day = d,
         PassAt(j, "insert") =>
           \/ \E d \in Dates : d = pass[j].day /\ Recorded(d)'
           \/ PassAt(j, "insert")' /\ pass'[j].day = pass[j].day,
         Knows(j)'
  PROVE  DayInv'
<1>0. \A k \in Passes : Shaped(pass[k])
  BY DEF TreasuryShape
<1>1. ASSUME NEW d \in Dates, bought'[d] > 0
      PROVE  Recorded(d)' \/ \E k \in Passes : PassAt(k, "insert")' /\ pass'[k].day = d
  <2>1. CASE bought[d] > 0
    <3>1. CASE Recorded(d)
      BY <3>1 DEF Kept
    <3>2. ASSUME NEW k \in Passes, PassAt(k, "insert"), pass[k].day = d
          PROVE  Recorded(d)' \/ \E i \in Passes : PassAt(i, "insert")' /\ pass'[i].day = d
      <4>1. CASE k = j
        BY <3>2, <4>1
      <4>2. CASE k # j
        BY <3>2, <4>2 DEF PassGoes, PassAt
      <4> QED
        BY <4>1, <4>2
    <3> QED
      BY <2>1, <3>1, <3>2 DEF DayInv
  <2> QED
    BY <1>1, <2>1
<1>2. ASSUME NEW k \in Passes, k # j PROVE Knows(k)'
  <2>1. pass'[k] = pass[k] /\ Knows(k)
    BY <1>2 DEF PassGoes, DayInv, Knows
  <2>2. pass[k].at \in {"read", "dedup", "total"} => pass[k].day \in Dates
    BY <1>0, <1>2 DEF Shaped
  <2> QED
    BY <2>1, <2>2 DEF Knows, PassAt, Kept
<1>3. \A k \in Passes : Knows(k)'
  BY <1>2
<1> QED
  BY <1>1, <1>3 DEF DayInv, Knows

\* A pass at no insert and no total knows nothing once it is out of the cycle.
LEMMA TurnsKnows ==
  ASSUME NEW j \in Passes, NEW at, Turns(j, at), at # "total"
  PROVE  Knows(j)'
  BY DEF Turns, Knows, PassAt

LEMMA CycleDays ==
  ASSUME TreasuryShape, DayInv, NEW j \in Passes, CycleStep(j)
  PROVE  DayInv'
<1>0. /\ pass[j] \in PassState /\ Shaped(pass[j]) /\ TablesTyped /\ Knows(j)
  BY ShapeParts DEF DayInv, Knows
<1>1. ASSUME UNCHANGED <<rows, gone>> PROVE Kept
  BY <1>0, <1>1, NotPatched, PatchedKept
<1>2. CASE StartCycle(j)
  <2>1. /\ PassGoes(j) /\ pass'[j].at = "read" /\ pass'[j].day = date
        /\ pass'[j].over =>
             bought[date] > 0 /\ ~\E k \in Passes : pass[k].at \in {"insert", "total"}
    BY <1>2, CycleLands
  <2>2. UNCHANGED <<rows, gone, bought>> /\ ~PassAt(j, "insert")
    BY <1>2 DEF StartCycle, PassAt
  <2>3. pass'[j].over => Recorded(date)
    BY <1>0, <2>1 DEF DayInv, PassAt, TablesTyped
  <2>4. Kept
    BY <1>1, <2>2
  <2>5. Knows(j)'
    BY <1>0, <2>1, <2>3, <2>4 DEF Knows, PassAt, Kept, TablesTyped
  <2> QED
    BY <2>1, <2>2, <2>4, <2>5, DayFrame
<1>3. ASSUME UNCHANGED <<rows, gone, bought>>, ~PassAt(j, "insert"), NEW at, Turns(j, at), at # "total"
      PROVE  DayInv'
  <2>1. PassGoes(j)
    BY <1>3 DEF Turns
  <2> QED
    BY <1>1, <1>3, <2>1, TurnsKnows, DayFrame
<1>4. CASE ReadState(j)
  <2>1. UNCHANGED <<rows, gone, bought>> /\ pass[j].at = "read"
    BY <1>4 DEF ReadState, PassAt
  <2>2. CASE Advances(j, "dedup")
    <3>1. Knows(j)'
      BY <1>0, <1>1, <2>1, <2>2 DEF Advances, Knows, PassAt, Kept, Shaped
    <3> QED
      BY <1>1, <2>1, <2>2, <3>1, DayFrame DEF Advances, PassAt
  <2> QED
    BY <1>3, <1>4, <2>1, <2>2, CycleLands DEF PassAt
<1>5. CASE Dedup(j)
  <2>1. UNCHANGED <<rows, gone, bought>> /\ pass[j].at = "dedup"
    BY <1>5 DEF Dedup, PassAt
  <2>2. CASE Advances(j, "lock") /\ ~\E p \in StoredRows : rows[p].day = pass[j].day
    <3>1. pass[j].over => pass[j].day \in gone
      BY <1>0, <2>1, <2>2 DEF Knows, Recorded
    <3>2. Knows(j)'
      BY <2>1, <2>2, <3>1 DEF Advances, Knows, PassAt
    <3> QED
      BY <1>1, <2>1, <2>2, <3>2, DayFrame DEF Advances, PassAt
  <2> QED
    BY <1>3, <1>5, <2>1, <2>2, CycleLands DEF PassAt
<1>6. CASE TakeLock(j)
  <2>1. UNCHANGED <<rows, gone, bought>> /\ pass[j].at = "lock"
    BY <1>6 DEF TakeLock, PassAt
  <2>2. CASE Advances(j, "buy")
    <3>1. Knows(j)'
      BY <1>0, <2>1, <2>2 DEF Advances, Knows, PassAt
    <3> QED
      BY <1>1, <2>1, <2>2, <3>1, DayFrame DEF Advances, PassAt
  <2> QED
    BY <1>3, <1>6, <2>1, <2>2, CycleLands DEF PassAt
<1>7. CASE NotBought(j)
  <2>1. UNCHANGED <<rows, gone, bought>> /\ pass[j].at = "buy"
    BY <1>7 DEF NotBought, PassAt
  <2> QED
    BY <1>3, <1>7, <2>1, CycleLands DEF PassAt
<1>8. CASE AnswerLost(j)
  <2>1. /\ rows' = rows /\ gone' = gone \cup {pass[j].day} /\ pass[j].at = "buy"
        /\ bought' = [bought EXCEPT ![pass[j].day] = @ + 1]
    BY <1>8 DEF AnswerLost, PassAt
  <2>2. Kept
    BY <1>0, <2>1, NotPatched, PatchedKept
  <2>3. \A d \in Dates : bought'[d] > 0 => bought[d] > 0 \/ Recorded(d)'
    BY <1>0, <2>1 DEF TablesTyped, Recorded
  <2>4. Turns(j, "idle")
    BY <1>8, CycleLands
  <2> QED
    BY <2>1, <2>2, <2>3, <2>4, TurnsKnows, DayFrame DEF Turns, PassAt
<1>9. CASE Buy(j)
  <2>1. /\ UNCHANGED <<rows, gone>> /\ pass[j].at = "buy"
        /\ bought' = [bought EXCEPT ![pass[j].day] = @ + 1]
    BY <1>9 DEF Buy, PassAt
  <2>2. Advances(j, "insert")
    BY <1>9, CycleLands
  <2>3. \A d \in Dates : bought'[d] > 0 =>
          bought[d] > 0 \/ \E k \in Passes : PassAt(k, "insert")' /\ pass'[k].day = d
    BY <1>0, <2>1, <2>2 DEF TablesTyped, Advances, PassAt
  <2>4. Knows(j)'
    BY <1>0, <2>1, <2>2 DEF Advances, Knows, PassAt
  <2> QED
    BY <1>1, <2>1, <2>2, <2>3, <2>4, DayFrame DEF Advances, PassAt
<1>10. ASSUME NEW p \in Protections, InsertProtection(j, p) PROVE DayInv'
  <2>1. /\ p \in Fresh /\ UNCHANGED <<gone, bought>> /\ pass[j].at = "insert"
        /\ rows' = [rows EXCEPT ![p] = [status |-> "active", day |-> pass[j].day,
                                      triggered |-> FALSE]]
    BY <1>10 DEF InsertProtection, PassAt
  <2>2. rows'[p].status = "active" /\ rows'[p].day = pass[j].day
        /\ \A q \in Protections \ {p} : rows'[q] = rows[q]
    BY <1>0, <2>1 DEF TablesTyped
  <2>3. \E d \in Dates : d = pass[j].day /\ Recorded(d)'
    <3>1. pass[j].day \in Dates
      BY <1>0, <2>1 DEF Shaped
    <3>2. p \in StoredRows' /\ rows'[p].day = pass[j].day
      BY <2>2 DEF StoredRows
    <3> QED
      BY <3>1, <3>2 DEF Recorded
  <2>4. p \notin StoredRows /\ StoredRows \subseteq StoredRows' /\ \A q \in StoredRows : rows'[q] = rows[q]
    BY <2>1, <2>2 DEF Fresh, StoredRows
  <2>5. Kept
    BY <2>1, <2>4 DEF Kept, Recorded
  <2>6. Advances(j, "total")
    BY <1>10, CycleLands
  <2>7. Knows(j)'
    BY <1>0, <2>1, <2>3, <2>6 DEF Advances, Knows, PassAt
  <2> QED
    BY <2>1, <2>3, <2>5, <2>6, <2>7, DayFrame DEF Advances
<1>11. CASE AddCycle(j)
  <2>1. UNCHANGED <<rows, gone, bought>> /\ pass[j].at = "total"
    BY <1>11 DEF AddCycle, PassAt
  <2> QED
    BY <1>3, <1>11, <2>1, CycleLands DEF PassAt
<1>12. CASE CycleThrows(j)
  <2>1. /\ UNCHANGED <<rows, bought>> /\ pass[j].at \in {"insert", "total"}
        /\ gone' = IF PassAt(j, "insert") THEN gone \cup {pass[j].day} ELSE gone
    BY <1>12 DEF CycleThrows
  <2>2. gone \subseteq gone' /\ (PassAt(j, "insert") => \E d \in Dates : d = pass[j].day /\ Recorded(d)')
    BY <1>0, <2>1 DEF Recorded, Shaped, PassAt
  <2>3. Kept
    BY <1>0, <2>1, <2>2, NotPatched, PatchedKept
  <2>4. Turns(j, "idle")
    BY <1>12, CycleLands
  <2> QED
    BY <2>1, <2>2, <2>3, <2>4, TurnsKnows, DayFrame DEF Turns
<1> QED
  BY <1>2, <1>4, <1>5, <1>6, <1>7, <1>8, <1>9, <1>10, <1>11, <1>12 DEF CycleStep

LEMMA CheckDays ==
  ASSUME TreasuryShape, DayInv, NEW j \in Passes, CheckStep(j)
  PROVE  DayInv'
<1>1. UNCHANGED <<gone, bought>> /\ pass[j].at \notin {"insert", "total"}
  BY DEF CheckStep, ReadActive, NothingTriggers, Trigger, ReadTotals, AddPayout, CheckThrows,
         ListExpired, Settle, PassAt
<1>2. Kept
  BY <1>1, CheckTyped, PatchedKept
<1>3. \E at : Turns(j, at) /\ at # "total"
  <2>1. pass[j].next \in {"idle", "expiry", "settle"}
    BY DEF TreasuryShape, PassState
  <2>2. CASE \E p \in Protections, inTheMoney \in BOOLEAN : Settle(j, p, inTheMoney)
    BY <2>2, CheckLands
  <2>3. CASE ~\E p \in Protections, inTheMoney \in BOOLEAN : Settle(j, p, inTheMoney)
    BY <2>1, <2>3, CheckLands DEF CheckStep
  <2> QED
    BY <2>2, <2>3
<1>4. PassGoes(j) /\ Knows(j)'
  BY <1>3, TurnsKnows DEF Turns
<1> QED
  BY <1>1, <1>2, <1>4, DayFrame DEF PassAt

LEMMA ResetDays ==
  ASSUME TreasuryShape, DayInv, NEW j \in Passes, Reset(j)
  PROVE  DayInv'
<1>0. pass[j] \in PassState /\ Shaped(pass[j]) /\ pass[j].at = "idle" /\ TablesTyped
  BY ShapeParts DEF Reset, PassAt
<1>1. PassGoes(j)
  BY EachGoes
<1>2. gone' = gone \cup {rows[p].day : p \in StoredRows} /\ bought' = bought
  BY DEF Reset
<1>3. Kept
  BY <1>2 DEF Kept, Recorded
<1>4. pass'[j].at = "zero" /\ ~pass'[j].over
  <2>1. pass' = [pass EXCEPT ![j] = [pass[j] EXCEPT !.at = "zero"]]
    BY DEF Reset, Step, Goes
  <2>2. ~pass[j].over
    BY <1>0 DEF Shaped
  <2>3. pass'[j] = [pass[j] EXCEPT !.at = "zero"]
    BY <2>1 DEF TreasuryShape
  <2> QED
    BY <1>0, <2>2, <2>3 DEF PassState
<1> QED
  BY <1>0, <1>1, <1>2, <1>3, <1>4, DayFrame DEF Knows, PassAt

LEMMA ZeroDays ==
  ASSUME TreasuryShape, DayInv, NEW j \in Passes, ZeroTotals(j)
  PROVE  DayInv'
<1>0. TablesTyped /\ pass[j].at = "zero" /\ UNCHANGED <<rows, gone>>
  BY ShapeParts DEF ZeroTotals, PassAt
<1>1. Turns(j, "idle")
  BY Landings DEF ZeroTotals, Places
<1>2. Kept
  BY <1>0, NotPatched, PatchedKept
<1>3. ASSUME NEW d \in Dates, bought'[d] > 0
      PROVE  Recorded(d)' \/ \E k \in Passes : PassAt(k, "insert")' /\ pass'[k].day = d
  <2>1. bought'[d] = Cardinality({k \in Cycling : pass[k].day = d})
    BY DEF ZeroTotals
  <2>2. {k \in Cycling : pass[k].day = d} # {}
    <3> DEFINE C == {k \in Cycling : pass[k].day = d}
    <3>1. bought'[d] = Cardinality(C)
      BY <2>1
    <3> HIDE DEF C
    <3>2. C # {}
      BY <1>3, <3>1, FS_EmptySet
    <3> QED
      BY <3>2 DEF C
  <2>3. PICK k \in Passes : pass[k].at \in {"insert", "total"} /\ pass[k].day = d
    BY <2>2 DEF Cycling
  <2>4. pass'[k] = pass[k]
    BY <1>0, <1>1, <2>3 DEF Turns, PassGoes
  <2>5. CASE pass[k].at = "total"
    BY <1>2, <2>3, <2>5 DEF DayInv, PassAt, Kept
  <2> QED
    BY <2>3, <2>4, <2>5 DEF PassAt
<1> QED
  BY <1>0, <1>1, <1>2, <1>3, TurnsKnows, DayFrame DEF Turns, PassAt

LEMMA RestartDays ==
  ASSUME TreasuryShape, DayInv, RestartScheduler
  PROVE  DayInv'
<1>0. /\ UNCHANGED <<rows, bought>> /\ TablesTyped
      /\ pass' = [j \in Passes |-> IdlePass]
      /\ gone' = gone \cup {pass[j].day : j \in {k \in Cycling : PassAt(k, "insert")}}
  BY ShapeParts DEF RestartScheduler
<1>1. Kept
  BY <1>0, NotPatched, PatchedKept
<1>2. \A j \in Passes : PassAt(j, "insert") => pass[j].day \in gone'
  BY <1>0 DEF Cycling, PassAt
<1>3. \A d \in Dates : bought'[d] > 0 => Recorded(d)'
  BY <1>0, <1>1, <1>2 DEF DayInv, Kept, Recorded
<1>4. \A j \in Passes : pass'[j].at = "idle" /\ ~pass'[j].over
  BY <1>0 DEF IdlePass
<1> QED
  BY <1>3, <1>4 DEF DayInv, PassAt

LEMMA NextDays == TreasuryShape /\ DayInv /\ [TreasuryNext]_treasuryVars => DayInv'
<1> SUFFICES ASSUME TreasuryShape, DayInv, [TreasuryNext]_treasuryVars PROVE DayInv'
  OBVIOUS
<1>1. CASE UNCHANGED <<rows, pass, bought, gone>>
  BY <1>1 DEF DayInv, Recorded, StoredRows, PassAt
<1>2. (\E b \in BOOLEAN : SetPaused(b)) \/ NextDate => UNCHANGED <<rows, pass, bought, gone>>
  BY DEF SetPaused, NextDate
<1> QED
  BY <1>1, <1>2, CycleDays, CheckDays, ResetDays, ZeroDays, RestartDays
  DEF TreasuryNext, treasuryVars

-----------------------------------------------------------------------------
(* The lock.                                                               *)

LEMMA InitLock == TreasuryInit => LockHasHolder
  BY DEF TreasuryInit, LockHasHolder

Holds(s) == s.at \in {"buy", "insert", "total"}

LEMMA NextLock ==
  TreasuryShape /\ LockHasHolder /\ [TreasuryNext]_treasuryVars => LockHasHolder'
<1> SUFFICES ASSUME TreasuryShape, LockHasHolder, [TreasuryNext]_treasuryVars,
                    lock', "lock" \notin unsaid'
             PROVE  \E k \in Passes : Holds(pass'[k])
  BY DEF LockHasHolder, Holds
<1>1. ASSUME lock, "lock" \notin unsaid PROVE \E k \in Passes : Holds(pass[k])
  BY <1>1 DEF LockHasHolder, Holds
<1>2. ASSUME NEW j \in Passes, PassGoes(j), Holds(pass[j]) => Holds(pass'[j]),
             lock, "lock" \notin unsaid
      PROVE  \E k \in Passes : Holds(pass'[k])
  BY <1>1, <1>2 DEF PassGoes
<1>3. ASSUME NEW j \in Passes, CycleStep(j) PROVE \E k \in Passes : Holds(pass'[k])
  <2>1. CASE StartCycle(j) \/ ReadState(j) \/ Dedup(j)
    <3>1. lock /\ "lock" \notin unsaid /\ ~Holds(pass[j])
      BY <2>1 DEF StartCycle, ReadState, Dedup, PassAt, Holds
    <3> QED
      BY <1>2, <1>3, <3>1, EachGoes
  <2>2. CASE TakeLock(j)
    <3>1. CASE lock
      <4>1. "lock" \notin unsaid /\ ~Holds(pass[j])
        BY <2>2 DEF TakeLock, PassAt, Holds
      <4> QED
        BY <1>2, <1>3, <3>1, <4>1, EachGoes
    <3>2. CASE ~lock
      <4>1. Step(j, "buy") /\ pass[j].at = "lock"
        BY <2>2, <3>2 DEF TakeLock, PassAt
      <4>2. Advances(j, "buy")
        BY <4>1, Landings DEF Places
      <4> QED
        BY <4>2 DEF Advances, Holds
    <3> QED
      BY <3>1, <3>2
  <2>3. CASE Buy(j) \/ \E p \in Protections : InsertProtection(j, p)
    BY <2>3, CycleLands DEF Advances, Holds
  <2>4. CASE NotBought(j) \/ AnswerLost(j) \/ AddCycle(j) \/ CycleThrows(j)
    BY <2>4 DEF NotBought, AnswerLost, AddCycle, CycleThrows
  <2> QED
    BY <1>3, <2>1, <2>2, <2>3, <2>4 DEF CycleStep
<1>4. ASSUME NEW j \in Passes, CheckStep(j) \/ Reset(j) \/ ZeroTotals(j)
      PROVE  \E k \in Passes : Holds(pass'[k])
  <2>1. lock /\ "lock" \notin unsaid
    BY <1>4
    DEF CheckStep, ReadActive, NothingTriggers, Trigger, ReadTotals, AddPayout, CheckThrows,
        ListExpired, Settle, Reset, ZeroTotals
  <2>2. ~Holds(pass[j])
    BY <1>4
    DEF CheckStep, ReadActive, NothingTriggers, Trigger, ReadTotals, AddPayout, CheckThrows,
        ListExpired, Settle, Reset, ZeroTotals, PassAt, Holds
  <2> QED
    BY <1>2, <1>4, <2>1, <2>2, EachGoes
<1>5. CASE UNCHANGED <<pass, lock, unsaid>>
  BY <1>1, <1>5
<1>6. (\E b \in BOOLEAN : SetPaused(b)) \/ NextDate => UNCHANGED <<pass, lock, unsaid>>
  BY DEF SetPaused, NextDate
<1>7. ~RestartScheduler
  BY DEF RestartScheduler
<1> QED
  BY <1>3, <1>4, <1>5, <1>6, <1>7 DEF TreasuryNext, treasuryVars

-----------------------------------------------------------------------------
(* The totals.                                                             *)

\* The passes about to add to a total.
Adding(f)  == {j \in Passes : f[j].at \in {"insert", "total"}}
Booking(f) == {j \in Passes : f[j].at \in {"check", "add"}}

\* The totals of s are what was bought and owed, less what is being added.
CyclesAdd(s, b, f)  == s.cycles + Cardinality(Adding(f)) = SumOf(b, Dates)
PayoutsAdd(s, o, f) == s.payouts + Cardinality(Booking(f)) = o

LEMMA TotalsParts ==
  /\ TotalsKept <=>
       /\ "cycles" \notin blurred \cup unsaid => CyclesAdd(state, bought, pass)
       /\ "payouts" \notin blurred \cup unsaid => PayoutsAdd(state, owed, pass)
  /\ TotalsKept' <=>
       /\ "cycles" \notin blurred' \cup unsaid' => CyclesAdd(state', bought', pass')
       /\ "payouts" \notin blurred' \cup unsaid' => PayoutsAdd(state', owed', pass')
<1>1. /\ Cycling = Adding(pass) /\ PayingIn = Booking(pass)
      /\ Cycling' = Adding(pass') /\ PayingIn' = Booking(pass')
  BY DEF Adding, Booking, Cycling, PayingIn
<1>2. TotalsKept <=>
        /\ "cycles" \notin blurred \cup unsaid => CyclesAdd(state, bought, pass)
        /\ "payouts" \notin blurred \cup unsaid => PayoutsAdd(state, owed, pass)
  BY <1>1, Zenon DEF TotalsKept, CyclesAdd, PayoutsAdd, SumOf
<1>3. SumOf(bought', Dates) = MapThenSumSet(LAMBDA d : bought'[d], Dates)
  BY Zenon DEF SumOf
<1>4. TotalsKept' <=>
        /\ "cycles" \notin blurred' \cup unsaid' =>
             (state'.cycles + Cardinality(Adding(pass'))
                = MapThenSumSet(LAMBDA d : bought'[d], Dates))
        /\ "payouts" \notin blurred' \cup unsaid' =>
             (state'.payouts + Cardinality(Booking(pass')) = owed')
  BY <1>1, Zenon DEF TotalsKept, MapThenSumSet, MapThenFoldSet
<1>5. TotalsKept' <=>
        /\ "cycles" \notin blurred' \cup unsaid' => CyclesAdd(state', bought', pass')
        /\ "payouts" \notin blurred' \cup unsaid' => PayoutsAdd(state', owed', pass')
  BY <1>3, <1>4, Zenon DEF CyclesAdd, PayoutsAdd
<1> QED
  BY <1>2, <1>5

\* One pass joins those that add, or leaves them.
LEMMA AddersMoved ==
  ASSUME NEW j \in Passes, PassGoes(j)
  PROVE  /\ Cardinality(Adding(pass)) \in Nat /\ Cardinality(Adding(pass')) \in Nat
         /\ Cardinality(Booking(pass)) \in Nat /\ Cardinality(Booking(pass')) \in Nat
         /\ Cardinality(Adding(pass')) + (IF pass[j].at \in {"insert", "total"} THEN 1 ELSE 0)
              = Cardinality(Adding(pass)) + (IF pass'[j].at \in {"insert", "total"} THEN 1 ELSE 0)
         /\ Cardinality(Booking(pass')) + (IF pass[j].at \in {"check", "add"} THEN 1 ELSE 0)
              = Cardinality(Booking(pass)) + (IF pass'[j].at \in {"check", "add"} THEN 1 ELSE 0)
<1>1. /\ Adding(pass) \in SUBSET Passes /\ Adding(pass') \in SUBSET Passes
      /\ Booking(pass) \in SUBSET Passes /\ Booking(pass') \in SUBSET Passes
  BY DEF Adding, Booking
<1>2. /\ Adding(pass) \ {j} = Adding(pass') \ {j}
      /\ Booking(pass) \ {j} = Booking(pass') \ {j}
  BY DEF Adding, Booking, PassGoes
<1>3. /\ j \in Adding(pass) <=> pass[j].at \in {"insert", "total"}
      /\ j \in Adding(pass') <=> pass'[j].at \in {"insert", "total"}
      /\ j \in Booking(pass) <=> pass[j].at \in {"check", "add"}
      /\ j \in Booking(pass') <=> pass'[j].at \in {"check", "add"}
  BY DEF Adding, Booking
<1>4. /\ Cardinality(Adding(pass)) \in Nat /\ Cardinality(Adding(pass')) \in Nat
      /\ Cardinality(Adding(pass')) + (IF j \in Adding(pass) THEN 1 ELSE 0)
           = Cardinality(Adding(pass)) + (IF j \in Adding(pass') THEN 1 ELSE 0)
  BY <1>1, <1>2, PassAssumption, OneMoved
<1>5. /\ Cardinality(Booking(pass)) \in Nat /\ Cardinality(Booking(pass')) \in Nat
      /\ Cardinality(Booking(pass')) + (IF j \in Booking(pass) THEN 1 ELSE 0)
           = Cardinality(Booking(pass)) + (IF j \in Booking(pass') THEN 1 ELSE 0)
  BY <1>1, <1>2, PassAssumption, OneMoved
<1> HIDE DEF Adding, Booking
<1> QED
  BY <1>3, <1>4, <1>5

LEMMA DatesFinite == IsFiniteSet(Dates)
  BY FS_Interval, DateAssumption DEF Dates

LEMMA InitTotals == TreasuryInit => TotalsKept
<1> SUFFICES ASSUME TreasuryInit PROVE TotalsKept
  OBVIOUS
<1>1. Adding(pass) = {} /\ Booking(pass) = {}
  BY DEF TreasuryInit, IdlePass, Adding, Booking
<1>2. SumOf(bought, Dates) = 0
  <2>1. \A d \in Dates : bought[d] = 0
    BY DEF TreasuryInit
  <2> QED
    BY <2>1, DatesFinite, SumZero
<1>3. state.cycles = 0 /\ state.payouts = 0 /\ owed = 0
  BY DEF TreasuryInit, NoTotals
<1>4. CyclesAdd(state, bought, pass) /\ PayoutsAdd(state, owed, pass)
  BY <1>1, <1>2, <1>3, FS_EmptySet DEF CyclesAdd, PayoutsAdd
<1> QED
  BY <1>4, TotalsParts

\* One more was bought on the day.
LEMMA OneBought ==
  ASSUME TablesTyped, NEW d \in Dates, bought' = [bought EXCEPT ![d] = @ + 1]
  PROVE  /\ SumOf(bought', Dates) = SumOf(bought, Dates) + 1
         /\ SumOf(bought, Dates) \in Int
<1>1. /\ bought'[d] = bought[d] + 1 /\ \A x \in Dates \ {d} : bought'[x] = bought[x]
      /\ \A x \in Dates : bought[x] \in Int /\ bought'[x] \in Int
  BY DEF TablesTyped
<1>2. SumOf(bought', Dates) = SumOf(bought, Dates) + (bought'[d] - bought[d])
  <2> DEFINE f == bought
             g == bought'
  <2>1. /\ \A x \in Dates : f[x] \in Int /\ g[x] \in Int
        /\ \A x \in Dates \ {d} : g[x] = f[x]
    BY <1>1
  <2> HIDE DEF f, g
  <2>2. SumOf(g, Dates) = SumOf(f, Dates) + (g[d] - f[d])
    BY <2>1, DatesFinite, SumUpdate
  <2> QED
    BY <2>2 DEF f, g
<1>3. SumOf(bought, Dates) \in Int
  BY <1>1, DatesFinite, SumType
<1> QED
  BY <1>1, <1>2, <1>3

\* A pass counts among those that add, or not.
AddsOne(s)  == IF s.at \in {"insert", "total"} THEN 1 ELSE 0
BooksOne(s) == IF s.at \in {"check", "add"} THEN 1 ELSE 0

\* What a step of one pass must balance for each total.
CyclesBalance(j) ==
  "cycles" \notin blurred' \cup unsaid' =>
    /\ "cycles" \notin blurred \cup unsaid
    /\ state'.cycles + AddsOne(pass'[j]) + SumOf(bought, Dates)
         = state.cycles + AddsOne(pass[j]) + SumOf(bought', Dates)

PayoutsBalance(j) ==
  "payouts" \notin blurred' \cup unsaid' =>
    /\ "payouts" \notin blurred \cup unsaid
    /\ state'.payouts + BooksOne(pass'[j]) + owed = state.payouts + BooksOne(pass[j]) + owed'

LEMMA SumOfDays ==
  ASSUME TablesTyped
  PROVE  SumOf(bought, Dates) \in Int
<1> DEFINE f == bought
<1>1. \A x \in Dates : f[x] \in Int
  BY DEF TablesTyped
<1> HIDE DEF f
<1>2. SumOf(f, Dates) \in Int
  BY <1>1, DatesFinite, SumType
<1> QED
  BY <1>2 DEF f

LEMMA DayBalanced ==
  ASSUME TreasuryShape, TablesTyped', TotalsKept, NEW j \in Passes, PassGoes(j),
         CyclesBalance(j), PayoutsBalance(j)
  PROVE  TotalsKept'
<1>1. TablesTyped
  BY ShapeParts
<1>2. /\ state.cycles \in Int /\ state.payouts \in Int /\ owed \in Int
      /\ state'.cycles \in Int /\ state'.payouts \in Int /\ owed' \in Int
  BY <1>1 DEF TablesTyped, Totals
<1>3. SumOf(bought, Dates) \in Int /\ SumOf(bought', Dates) \in Int
  <2>1. (TablesTyped => SumOf(bought, Dates) \in Int)'
    BY SumOfDays, PTL
  <2> QED
    BY <1>1, <2>1, SumOfDays
<1>4. ASSUME "cycles" \notin blurred' \cup unsaid' PROVE CyclesAdd(state', bought', pass')
  <2> DEFINE x == state.cycles
             y == state'.cycles
             a == Cardinality(Adding(pass))
             b == Cardinality(Adding(pass'))
             u == AddsOne(pass[j])
             v == AddsOne(pass'[j])
             s == SumOf(bought, Dates)
             t == SumOf(bought', Dates)
  <2>1. x + a = s
    BY <1>4, TotalsParts DEF CyclesBalance, CyclesAdd
  <2>2. y + v + s = x + u + t
    BY <1>4 DEF CyclesBalance
  <2>3. a \in Int /\ b \in Int /\ u \in Int /\ v \in Int /\ b + u = a + v
    BY AddersMoved DEF AddsOne
  <2>4. x \in Int /\ y \in Int /\ s \in Int /\ t \in Int
    BY <1>2, <1>3
  <2>5. SUFFICES y + b = t
    BY DEF CyclesAdd
  <2> HIDE DEF x, y, a, b, u, v, s, t
  <2> QED
    BY <2>1, <2>2, <2>3, <2>4
<1>5. ASSUME "payouts" \notin blurred' \cup unsaid' PROVE PayoutsAdd(state', owed', pass')
  <2> DEFINE x == state.payouts
             y == state'.payouts
             a == Cardinality(Booking(pass))
             b == Cardinality(Booking(pass'))
             u == BooksOne(pass[j])
             v == BooksOne(pass'[j])
             s == owed
             t == owed'
  <2>1. x + a = s
    BY <1>5, TotalsParts DEF PayoutsBalance, PayoutsAdd
  <2>2. y + v + s = x + u + t
    BY <1>5 DEF PayoutsBalance
  <2>3. a \in Int /\ b \in Int /\ u \in Int /\ v \in Int /\ b + u = a + v
    BY AddersMoved DEF BooksOne
  <2>4. x \in Int /\ y \in Int /\ s \in Int /\ t \in Int
    BY <1>2
  <2>5. SUFFICES y + b = t
    BY DEF PayoutsAdd
  <2> HIDE DEF x, y, a, b, u, v, s, t
  <2> QED
    BY <2>1, <2>2, <2>3, <2>4
<1> QED
  BY <1>4, <1>5, TotalsParts

\* Nothing that counts has changed.
LEMMA NothingAdded ==
  ASSUME TreasuryShape, NEW j \in Passes,
         state'.cycles = state.cycles, state'.payouts = state.payouts,
         UNCHANGED <<bought, owed, blurred, unsaid>>
  PROVE  /\ AddsOne(pass'[j]) = AddsOne(pass[j]) => CyclesBalance(j)
         /\ BooksOne(pass'[j]) = BooksOne(pass[j]) => PayoutsBalance(j)
  BY DEF CyclesBalance, PayoutsBalance

LEMMA CycleTotals ==
  ASSUME TreasuryShape, TotalsKept, NEW j \in Passes, CycleStep(j)
  PROVE  TotalsKept'
<1>0. /\ TablesTyped /\ TablesTyped' /\ PassGoes(j)
      /\ state.cycles \in Int /\ state.payouts \in Int /\ owed \in Int
      /\ pass[j].seen.cycles \in Int
      /\ SumOf(bought, Dates) \in Int
  BY ShapeParts, CycleTyped, EachGoes, SumOfDays DEF TablesTyped, Totals, PassState
<1> SUFFICES CyclesBalance(j) /\ PayoutsBalance(j)
  BY <1>0, DayBalanced
<1>1. CASE StartCycle(j) \/ ReadState(j) \/ Dedup(j) \/ TakeLock(j) \/ NotBought(j)
  <2>1. UNCHANGED <<state, bought, owed, blurred, unsaid>>
    BY <1>1 DEF StartCycle, ReadState, Dedup, TakeLock, NotBought
  <2>2. pass[j].at \in {"idle", "read", "dedup", "lock", "buy"}
    BY <1>1 DEF StartCycle, ReadState, Dedup, TakeLock, NotBought, PassAt
  <2>3. pass'[j].at \in {"idle", "read", "dedup", "lock", "buy"}
    BY <1>1, CycleLands DEF Turns, Advances
  <2>4. /\ AddsOne(pass'[j]) = AddsOne(pass[j])
        /\ BooksOne(pass'[j]) = BooksOne(pass[j])
    BY <2>2, <2>3 DEF AddsOne, BooksOne
  <2> QED
    BY <2>1, <2>4, NothingAdded
<1>2. CASE AnswerLost(j)
  <2>1. /\ "cycles" \in unsaid'
        /\ UNCHANGED <<state, owed, blurred>> /\ ("payouts" \in unsaid' <=> "payouts" \in unsaid)
        /\ pass[j].at = "buy"
    BY <1>2 DEF AnswerLost, PassAt
  <2>2. pass'[j].at = "idle"
    BY <1>2, CycleLands DEF Turns
  <2> QED
    BY <2>1, <2>2 DEF CyclesBalance, PayoutsBalance, BooksOne
<1>3. CASE Buy(j)
  <2>1. /\ UNCHANGED <<state, owed, blurred, unsaid>>
        /\ pass[j].at = "buy" /\ pass[j].day \in Dates
        /\ bought' = [bought EXCEPT ![pass[j].day] = @ + 1]
    BY <1>3 DEF Buy, PassAt, TreasuryShape, Shaped
  <2>2. pass'[j].at = "insert"
    BY <1>3, CycleLands DEF Advances
  <2>3. SumOf(bought', Dates) = SumOf(bought, Dates) + 1
    BY <1>0, <2>1, OneBought
  <2>4. /\ AddsOne(pass[j]) = 0 /\ AddsOne(pass'[j]) = 1
        /\ BooksOne(pass[j]) = 0 /\ BooksOne(pass'[j]) = 0
    BY <2>1, <2>2 DEF AddsOne, BooksOne
  <2>5. CyclesBalance(j)
    BY <1>0, <2>1, <2>3, <2>4 DEF CyclesBalance
  <2>6. PayoutsBalance(j)
    BY <2>1, <2>4 DEF PayoutsBalance
  <2> QED
    BY <2>5, <2>6
<1>4. CASE \E p \in Protections : InsertProtection(j, p)
  <2>1. /\ UNCHANGED <<state, bought, owed, blurred, unsaid>>
        /\ pass[j].at = "insert"
    BY <1>4 DEF InsertProtection, PassAt
  <2>2. pass'[j].at = "total"
    BY <1>4, CycleLands DEF Advances
  <2>3. /\ AddsOne(pass'[j]) = AddsOne(pass[j])
        /\ BooksOne(pass'[j]) = BooksOne(pass[j])
    BY <2>1, <2>2 DEF AddsOne, BooksOne
  <2> QED
    BY <2>1, <2>3, NothingAdded
<1>5. CASE AddCycle(j)
  <2>1. /\ UNCHANGED <<bought, owed, unsaid>> /\ pass[j].at = "total"
        /\ state' = [state EXCEPT !.cycles = pass[j].seen.cycles + 1]
        /\ blurred' = blurred \cup (IF state.cycles = pass[j].seen.cycles THEN {} ELSE {"cycles"})
    BY <1>5 DEF AddCycle, PassAt
  <2>2. /\ state'.cycles = pass[j].seen.cycles + 1 /\ state'.payouts = state.payouts
    BY <1>0, <2>1 DEF TablesTyped, Totals
  <2>3. pass'[j].at = "idle"
    BY <1>5, CycleLands DEF Turns
  <2>4. /\ AddsOne(pass[j]) = 1 /\ AddsOne(pass'[j]) = 0
        /\ BooksOne(pass[j]) = 0 /\ BooksOne(pass'[j]) = 0
    BY <2>1, <2>3 DEF AddsOne, BooksOne
  <2>5. CyclesBalance(j)
    BY <1>0, <2>1, <2>2, <2>4 DEF CyclesBalance
  <2>6. PayoutsBalance(j)
    BY <2>1, <2>2, <2>4 DEF PayoutsBalance
  <2> QED
    BY <2>5, <2>6
<1>6. CASE CycleThrows(j)
  <2>1. /\ "cycles" \in unsaid'
        /\ UNCHANGED <<state, owed, blurred>> /\ ("payouts" \in unsaid' <=> "payouts" \in unsaid)
        /\ pass[j].at \in {"insert", "total"}
    BY <1>6 DEF CycleThrows
  <2>2. pass'[j].at = "idle"
    BY <1>6, CycleLands DEF Turns
  <2> QED
    BY <2>1, <2>2 DEF CyclesBalance, PayoutsBalance, BooksOne
<1> QED
  BY <1>1, <1>2, <1>3, <1>4, <1>5, <1>6 DEF CycleStep

LEMMA CheckTotals ==
  ASSUME TreasuryShape, TotalsKept, NEW j \in Passes, CheckStep(j)
  PROVE  TotalsKept'
<1>0. /\ TablesTyped /\ TablesTyped' /\ PassGoes(j)
      /\ state.cycles \in Int /\ state.payouts \in Int /\ owed \in Int
      /\ pass[j].seen.payouts \in Int
      /\ SumOf(bought, Dates) \in Int
  BY ShapeParts, CheckTyped, EachGoes, SumOfDays DEF TablesTyped, Totals, PassState
<1> SUFFICES CyclesBalance(j) /\ PayoutsBalance(j)
  BY <1>0, DayBalanced
<1>1. ASSUME UNCHANGED <<state, bought, owed, blurred, unsaid>>,
             AddsOne(pass'[j]) = AddsOne(pass[j]), BooksOne(pass'[j]) = BooksOne(pass[j])
      PROVE  CyclesBalance(j) /\ PayoutsBalance(j)
  BY <1>1, NothingAdded
<1>2. ASSUME UNCHANGED <<state, bought, blurred, unsaid>>, owed' = owed + 1,
             AddsOne(pass'[j]) = AddsOne(pass[j]), BooksOne(pass[j]) = 0, BooksOne(pass'[j]) = 1
      PROVE  CyclesBalance(j) /\ PayoutsBalance(j)
  BY <1>0, <1>2 DEF CyclesBalance, PayoutsBalance
<1>3. CASE (\E p \in Protections : ReadActive(j, p)) \/ NothingTriggers(j) \/ ListExpired(j)
  <2>1. UNCHANGED <<state, bought, owed, blurred, unsaid>>
    BY <1>3 DEF ReadActive, NothingTriggers, ListExpired
  <2>2. pass[j].at \in {"idle", "trigger", "expiry"}
    BY <1>3 DEF ReadActive, NothingTriggers, ListExpired, PassAt
  <2>3. pass'[j].at \in {"idle", "trigger", "expiry", "settle"}
    BY <1>3, CheckLands DEF Turns
  <2>4. AddsOne(pass'[j]) = AddsOne(pass[j]) /\ BooksOne(pass'[j]) = BooksOne(pass[j])
    BY <2>2, <2>3 DEF AddsOne, BooksOne
  <2> QED
    BY <1>1, <2>1, <2>4
<1>4. CASE Trigger(j)
  <2>1. UNCHANGED <<state, bought, blurred, unsaid>> /\ owed' = owed + 1 /\ pass[j].at = "trigger"
    BY <1>4 DEF Trigger, PassAt
  <2>2. pass'[j].at = "check"
    BY <1>4, CheckLands DEF Turns
  <2>3. /\ AddsOne(pass'[j]) = AddsOne(pass[j])
        /\ BooksOne(pass[j]) = 0 /\ BooksOne(pass'[j]) = 1
    BY <2>1, <2>2 DEF AddsOne, BooksOne
  <2> QED
    BY <1>2, <2>1, <2>3
<1>5. CASE ReadTotals(j)
  <2>1. UNCHANGED <<state, bought, owed, blurred, unsaid>> /\ pass[j].at = "check"
    BY <1>5 DEF ReadTotals, PassAt
  <2>2. pass'[j].at = "add"
    BY <1>5, CheckLands DEF Turns
  <2>3. AddsOne(pass'[j]) = AddsOne(pass[j]) /\ BooksOne(pass'[j]) = BooksOne(pass[j])
    BY <2>1, <2>2 DEF AddsOne, BooksOne
  <2> QED
    BY <1>1, <2>1, <2>3
<1>6. CASE AddPayout(j)
  <2>1. /\ UNCHANGED <<bought, owed, unsaid>> /\ pass[j].at = "add"
        /\ state' = [state EXCEPT !.payouts = pass[j].seen.payouts + 1]
        /\ blurred' = blurred \cup
             (IF state.payouts = pass[j].seen.payouts THEN {} ELSE {"payouts"})
    BY <1>6 DEF AddPayout, PassAt
  <2>2. state'.payouts = pass[j].seen.payouts + 1 /\ state'.cycles = state.cycles
    BY <1>0, <2>1 DEF TablesTyped, Totals
  <2>3. pass'[j].at \in {"idle", "expiry", "settle"}
    <3>1. Turns(j, pass[j].next) /\ pass[j].next \in {"idle", "expiry", "settle"}
      BY <1>6, CheckLands DEF TreasuryShape, PassState
    <3> QED
      BY <3>1 DEF Turns
  <2>4. /\ AddsOne(pass[j]) = 0 /\ AddsOne(pass'[j]) = 0
        /\ BooksOne(pass[j]) = 1 /\ BooksOne(pass'[j]) = 0
    BY <2>1, <2>3 DEF AddsOne, BooksOne
  <2>5. CyclesBalance(j)
    BY <2>1, <2>2, <2>4 DEF CyclesBalance
  <2>6. PayoutsBalance(j)
    BY <1>0, <2>1, <2>2, <2>4 DEF PayoutsBalance
  <2> QED
    BY <2>5, <2>6
<1>7. CASE CheckThrows(j)
  <2>1. /\ "payouts" \in unsaid'
        /\ UNCHANGED <<state, bought, blurred>> /\ ("cycles" \in unsaid' <=> "cycles" \in unsaid)
        /\ pass[j].at \in {"check", "add"}
    BY <1>7 DEF CheckThrows
  <2>2. pass'[j].at = "idle"
    BY <1>7, CheckLands DEF Turns
  <2> QED
    BY <2>1, <2>2 DEF CyclesBalance, PayoutsBalance, AddsOne
<1>8. ASSUME NEW p \in Protections, NEW b \in BOOLEAN, Settle(j, p, b)
      PROVE  CyclesBalance(j) /\ PayoutsBalance(j)
  <2>1. UNCHANGED <<state, bought, blurred, unsaid>> /\ pass[j].at = "settle"
    BY <1>8 DEF Settle, PassAt
  <2>2. CASE b /\ p \notin pass[j].trig
    <3>1. owed' = owed + 1
      BY <1>8, <2>2 DEF Settle
    <3>2. pass'[j].at = "check"
      BY <1>8, <2>2, CheckLands DEF Turns
    <3>3. /\ AddsOne(pass'[j]) = AddsOne(pass[j])
          /\ BooksOne(pass[j]) = 0 /\ BooksOne(pass'[j]) = 1
      BY <2>1, <3>2 DEF AddsOne, BooksOne
    <3> QED
      BY <1>2, <2>1, <3>1, <3>3
  <2>3. CASE ~(b /\ p \notin pass[j].trig)
    <3>1. owed' = owed
      BY <1>8, <2>3 DEF Settle
    <3>2. pass'[j].at \in {"idle", "settle"}
      BY <1>8, <2>3, CheckLands DEF Turns
    <3>3. AddsOne(pass'[j]) = AddsOne(pass[j]) /\ BooksOne(pass'[j]) = BooksOne(pass[j])
      BY <2>1, <3>2 DEF AddsOne, BooksOne
    <3> QED
      BY <1>1, <2>1, <3>1, <3>3
  <2> QED
    BY <2>2, <2>3
<1> QED
  BY <1>3, <1>4, <1>5, <1>6, <1>7, <1>8 DEF CheckStep

LEMMA ResetTotals ==
  ASSUME TreasuryShape, TotalsKept, NEW j \in Passes, Reset(j)
  PROVE  TotalsKept'
<1>1. /\ TablesTyped' /\ PassGoes(j)
      /\ UNCHANGED <<state, bought, owed, blurred, unsaid>> /\ pass[j].at = "idle"
  BY OthersTyped, EachGoes DEF Reset, PassAt
<1>2. pass'[j].at = "zero"
  <2>1. Step(j, "zero")
    BY DEF Reset
  <2>2. pass' = [pass EXCEPT ![j] = [pass[j] EXCEPT !.at = "zero"]]
    BY <2>1 DEF Step, Goes
  <2> QED
    BY <2>2 DEF TreasuryShape, PassState
<1>3. AddsOne(pass'[j]) = AddsOne(pass[j]) /\ BooksOne(pass'[j]) = BooksOne(pass[j])
  BY <1>1, <1>2 DEF AddsOne, BooksOne
<1> QED
  BY <1>1, <1>3, NothingAdded, DayBalanced

\* The days of the passes that add are all their days.
LEMMA AddersByDay ==
  ASSUME TreasuryShape
  PROVE  SumOf([d \in Dates |-> Cardinality({k \in Cycling : pass[k].day = d})], Dates)
           = Cardinality(Cycling)
<1> DEFINE C == Cycling
           f == [k \in C |-> pass[k].day]
<1>1. C \subseteq Passes /\ \A k \in C : f[k] \in Dates
  BY DEF Cycling, TreasuryShape, Shaped
<1>2. [d \in Dates |-> Cardinality({k \in C : pass[k].day = d})]
        = [d \in Dates |-> Cardinality({x \in C : f[x] = d})]
  <2>1. \A d \in Dates : {k \in C : pass[k].day = d} = {x \in C : f[x] = d}
    OBVIOUS
  <2> QED
    BY <2>1
<1> HIDE DEF f, C
<1>3. IsFiniteSet(C)
  BY <1>1, PassAssumption, FS_Subset
<1>4. SumOf([d \in Dates |-> Cardinality({x \in C : f[x] = d})], Dates) = Cardinality(C)
  BY <1>1, <1>3, DatesFinite, SumOfParts
<1> QED
  BY <1>2, <1>4 DEF C

LEMMA ZeroTotalsKept ==
  ASSUME TreasuryShape, TotalsKept, NEW j \in Passes, ZeroTotals(j)
  PROVE  TotalsKept'
<1>1. /\ state' = [NoTotals EXCEPT !.paused = state.paused]
      /\ bought' = [d \in Dates |-> Cardinality({k \in Cycling : pass[k].day = d})]
      /\ owed' = Cardinality(PayingIn) /\ Goes(j, IdlePass) /\ pass[j].at = "zero"
  BY DEF ZeroTotals, PassAt
<1>2. state'.cycles = 0 /\ state'.payouts = 0
  BY <1>1 DEF NoTotals
<1>3. Adding(pass') = Cycling /\ Booking(pass') = PayingIn
  <2>1. pass'[j].at = "idle" /\ \A k \in Passes \ {j} : pass'[k] = pass[k]
    BY <1>1 DEF Goes, IdlePass, TreasuryShape
  <2> QED
    BY <1>1, <2>1 DEF Adding, Booking, Cycling, PayingIn
<1>4. SumOf(bought', Dates) = Cardinality(Cycling)
  BY <1>1, AddersByDay
<1>5. Cardinality(Cycling) \in Int /\ Cardinality(PayingIn) \in Int
  <2>1. Cycling \in SUBSET Passes /\ PayingIn \in SUBSET Passes
    BY DEF Cycling, PayingIn
  <2> QED
    BY <2>1, PassAssumption, FS_Subset, FS_CardinalityType
<1>6. CyclesAdd(state', bought', pass')
  BY <1>2, <1>3, <1>4, <1>5 DEF CyclesAdd
<1>7. PayoutsAdd(state', owed', pass')
  BY <1>1, <1>2, <1>3, <1>5 DEF PayoutsAdd
<1> QED
  BY <1>6, <1>7, TotalsParts

LEMMA RestartTotals ==
  ASSUME TreasuryShape, TotalsKept, RestartScheduler
  PROVE  TotalsKept'
<1>1. /\ pass' = [j \in Passes |-> IdlePass]
      /\ unsaid' = (unsaid \ {"lock"})
           \cup (IF PayingIn = {} THEN {} ELSE {"payouts"})
           \cup (IF Cycling = {} THEN {} ELSE {"cycles"})
      /\ UNCHANGED <<state, bought, owed, blurred>>
  BY DEF RestartScheduler
<1>2. Adding(pass') = {} /\ Booking(pass') = {}
  BY <1>1 DEF Adding, Booking, IdlePass
<1>3. ASSUME "cycles" \notin blurred' \cup unsaid' PROVE CyclesAdd(state', bought', pass')
  <2>1. Cycling = {} /\ "cycles" \notin blurred \cup unsaid
    BY <1>1, <1>3
  <2>2. Adding(pass) = Adding(pass')
    BY <1>2, <2>1 DEF Cycling, Adding
  <2> QED
    BY <1>1, <2>1, <2>2, TotalsParts DEF CyclesAdd
<1>4. ASSUME "payouts" \notin blurred' \cup unsaid' PROVE PayoutsAdd(state', owed', pass')
  <2>1. PayingIn = {} /\ "payouts" \notin blurred \cup unsaid
    BY <1>1, <1>4
  <2>2. Booking(pass) = Booking(pass')
    BY <1>2, <2>1 DEF PayingIn, Booking
  <2> QED
    BY <1>1, <2>1, <2>2, TotalsParts DEF PayoutsAdd
<1> QED
  BY <1>3, <1>4, TotalsParts

LEMMA NextTotals ==
  TreasuryShape /\ TotalsKept /\ [TreasuryNext]_treasuryVars => TotalsKept'
<1> SUFFICES ASSUME TreasuryShape, TotalsKept, [TreasuryNext]_treasuryVars PROVE TotalsKept'
  OBVIOUS
<1>1. ASSUME UNCHANGED <<bought, owed, blurred, unsaid, pass>>,
             state'.cycles = state.cycles, state'.payouts = state.payouts
      PROVE  TotalsKept'
  BY <1>1, TotalsParts DEF CyclesAdd, PayoutsAdd
<1>2. ASSUME NEW b \in BOOLEAN, SetPaused(b) PROVE TotalsKept'
  <2>1. state'.cycles = state.cycles /\ state'.payouts = state.payouts
    BY <1>2, ShapeParts DEF SetPaused, TablesTyped, Totals
  <2> QED
    BY <1>1, <1>2, <2>1 DEF SetPaused
<1>3. CASE NextDate \/ UNCHANGED treasuryVars
  BY <1>1, <1>3 DEF NextDate, treasuryVars
<1> QED
  BY <1>2, <1>3, CycleTotals, CheckTotals, ResetTotals, ZeroTotalsKept, RestartTotals
  DEF TreasuryNext

-----------------------------------------------------------------------------
\* Whatever the passes of the two timers interleave with, a day is bought again
\* only where its first purchase has no row, the lock is held for someone, and
\* the totals are those of the orders and payouts (treasuryScheduler.ts).
THEOREM TreasuryIsAccounted == TreasurySpec => []TreasuryAccounted
<1>1. TreasuryInit => TreasuryInv
  BY InitTreasuryShape, InitDays, InitLock, InitTotals DEF TreasuryInv
<1>2. TreasuryInv /\ [TreasuryNext]_treasuryVars => TreasuryInv'
  BY NextTreasuryShape, NextDays, NextLock, NextTotals DEF TreasuryInv
<1>3. TreasuryInv => TreasuryAccounted
  BY DEF TreasuryInv, TreasuryShape, DayInv, TreasuryAccounted, DayBoughtOnce, PassAt
<1> QED
  BY <1>1, <1>2, <1>3, PTL DEF TreasurySpec
=============================================================================
