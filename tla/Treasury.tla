------------------------------- MODULE Treasury -------------------------------
(***************************************************************************)
(* The treasury's scheduler (treasuryScheduler.ts), its tables              *)
(* (treasuryDb.ts) and the routes of its admin (treasuryRoutes.ts).         *)
(*                                                                          *)
(* Once a day a cycle buys one protection; a faster timer checks the active *)
(* protection for its trigger and settles what has expired.  Both timers    *)
(* are a setInterval that does not wait for the pass before, and            *)
(* execute-now runs a cycle on request.  treasury_config_state is one row   *)
(* of totals that every pass reads, adds to and writes back.                *)
(*                                                                          *)
(* A protection costs one unit of premium and a payout is one unit.  Hours  *)
(* are left out: a day's execution time has come or it has not.             *)
(***************************************************************************)
EXTENDS Integers, FiniteSetsExt

CONSTANTS
  Protections,   \* ids of treasury_protections
  Passes,        \* passes of either timer, and execute-now, under way together
  LastDate,      \* bound on the days that are followed
  MaxFailures    \* bound on failed statements and restarts

NoRow == "no row"
Never == 0       \* the day of no cycle
Dates == 1..LastDate

ASSUME RowAssumption == NoRow \notin Protections
ASSUME PassAssumption == IsFiniteSet(Passes)
ASSUME DateAssumption == LastDate \in Nat \ {0} /\ MaxFailures \in Nat

VARIABLES
  date,
  rows,      \* treasury_protections
  state,     \* treasury_config_state
  lock,      \* executionLock, in memory
  pass,      \* local state of the passes
  bought,    \* history: orders filled at the venue since the last reset, by day
  owed,      \* history: triggers and settlements in the money since then
  blurred,   \* history: a total was written by a pass that read another value
  unsaid,    \* history: what a failure left wrong: a total, or the lock
  gone,      \* history: days of which an order may have no row
  failures

treasuryVars == <<date, rows, state, lock, pass, bought, owed, blurred, unsaid, gone, failures>>

ProtectionStatus == {"absent", "active", "triggered", "settled_triggered",
                     "settled_itm", "expired_otm", "deleted"}

NotInserted == [status |-> "absent", day |-> Never, triggered |-> FALSE]

\* last_cycle_date is left out: a DATE column read back and cut to ten characters
\* is "Thu Jan 01", never today's ISO day, so no cycle is ever skipped for it.
NoTotals == [paused |-> FALSE, cycles |-> 0, payouts |-> 0]

Places == {"idle", "read", "dedup", "lock", "buy", "insert", "total",
       "check", "trigger", "add", "expiry", "settle", "zero"}

IdlePass ==
  [at   |-> "idle",
   day  |-> Never,      \* the day of the cycle
   seen |-> NoTotals,   \* treasury_config_state as read
   on   |-> NoRow,      \* the protection at hand
   next |-> "idle",     \* where a pass goes once its payout is added
   todo |-> {},         \* expired protections still to be settled
   trig |-> {},         \* those of them that were listed as triggered
   over |-> FALSE]      \* history: the day was bought and recorded before

TreasuryInit ==
  /\ date = 1
  /\ rows = [p \in Protections |-> NotInserted]
  /\ state = NoTotals
  /\ lock = FALSE
  /\ pass = [j \in Passes |-> IdlePass]
  /\ bought = [d \in Dates |-> 0]
  /\ owed = 0
  /\ blurred = {}
  /\ unsaid = {}
  /\ gone = {}
  /\ failures = 0

Fresh  == {p \in Protections : rows[p].status = "absent"}
StoredRows == {p \in Protections : rows[p].status \notin {"absent", "deleted"}}

Failure == /\ failures < MaxFailures
            /\ failures' = failures + 1

Goes(j, next) == pass' = [pass EXCEPT ![j] = next]
Step(j, at)   == Goes(j, [pass[j] EXCEPT !.at = at])
PassAt(j, at) == pass[j].at = at

(***************************************************************************)
(* The daily cycle.                                                         *)
(***************************************************************************)
\* The lock is tested, and taken only after three statements have been awaited.
StartCycle(j) ==
  /\ PassAt(j, "idle")
  /\ ~lock
  /\ Goes(j, [IdlePass EXCEPT !.at = "read", !.day = date, !.over = bought[date] > 0
                /\ ~\E k \in Passes : pass[k].at \in {"insert", "total"}])
  /\ UNCHANGED <<date, rows, state, lock, bought, owed, blurred, unsaid, gone, failures>>

ReadState(j) ==
  /\ PassAt(j, "read")
  /\ Goes(j, IF state.paused THEN IdlePass ELSE [pass[j] EXCEPT !.at = "dedup", !.seen = state])
  /\ UNCHANGED <<date, rows, state, lock, bought, owed, blurred, unsaid, gone, failures>>

\* (fault) a day counts as done only while its protection is active
DedupOfActive(j) ==
  /\ PassAt(j, "dedup")
  /\ IF \E p \in StoredRows : rows[p].day = pass[j].day /\ rows[p].status = "active"
     THEN Goes(j, IdlePass)
     ELSE Step(j, "lock")
  /\ UNCHANGED <<date, rows, state, lock, bought, owed, blurred, unsaid, gone, failures>>

\* A protection of the day, in whatever status, stands for a cycle that ran.
Dedup(j) ==
  /\ PassAt(j, "dedup")
  /\ IF \E p \in StoredRows : rows[p].day = pass[j].day
     THEN Goes(j, IdlePass)
     ELSE Step(j, "lock")
  /\ UNCHANGED <<date, rows, state, lock, bought, owed, blurred, unsaid, gone, failures>>

\* The time of day may not have come.
TakeLock(j) ==
  /\ PassAt(j, "lock")
  /\ \/ lock' = TRUE /\ Step(j, "buy")
     \/ Goes(j, IdlePass) /\ UNCHANGED lock
  /\ UNCHANGED <<date, rows, state, bought, owed, blurred, unsaid, gone, failures>>

\* No spot price, no quote, or an order that fails: the lock is given back.
NotBought(j) ==
  /\ PassAt(j, "buy")
  /\ lock' = FALSE
  /\ Goes(j, IdlePass)
  /\ UNCHANGED <<date, rows, state, bought, owed, blurred, unsaid, gone, failures>>

\* The order is filled, and the answer is lost: the cycle takes it for a failure.
AnswerLost(j) ==
  /\ PassAt(j, "buy")
  /\ Failure
  /\ bought' = [bought EXCEPT ![pass[j].day] = @ + 1]
  /\ unsaid' = unsaid \cup {"cycles"}
  /\ gone' = gone \cup {pass[j].day}
  /\ lock' = FALSE
  /\ Goes(j, IdlePass)
  /\ UNCHANGED <<date, rows, state, owed, blurred>>

Buy(j) ==
  /\ PassAt(j, "buy")
  /\ bought' = [bought EXCEPT ![pass[j].day] = @ + 1]
  /\ Step(j, "insert")
  /\ UNCHANGED <<date, rows, state, lock, owed, blurred, unsaid, gone, failures>>

\* With no id left the pass stops here: the bound on Protections.
InsertProtection(j, p) ==
  /\ PassAt(j, "insert")
  /\ p \in Fresh
  /\ rows' = [rows EXCEPT ![p] = [status |-> "active", day |-> pass[j].day, triggered |-> FALSE]]
  /\ Step(j, "total")
  /\ UNCHANGED <<date, state, lock, bought, owed, blurred, unsaid, gone, failures>>

\* The totals written are those read before the purchase, plus one.
AddCycle(j) ==
  /\ PassAt(j, "total")
  /\ state' = [state EXCEPT !.cycles = pass[j].seen.cycles + 1]
  /\ blurred' = blurred \cup
       (IF state.cycles = pass[j].seen.cycles THEN {} ELSE {"cycles"})
  /\ lock' = FALSE
  /\ Goes(j, IdlePass)
  /\ UNCHANGED <<date, rows, bought, owed, unsaid, gone, failures>>

\* A statement after the purchase throws: no catch gives the lock back.
CycleThrows(j) ==
  /\ pass[j].at \in {"insert", "total"}
  /\ Failure
  /\ unsaid' = unsaid \cup {"cycles", "lock"}
  /\ gone' = IF PassAt(j, "insert") THEN gone \cup {pass[j].day} ELSE gone
  /\ Goes(j, IdlePass)
  /\ UNCHANGED <<date, rows, state, lock, bought, owed, blurred>>

(***************************************************************************)
(* The trigger check, and the expiry check that follows it.                 *)
(***************************************************************************)
\* the newest active protection
ReadActive(j, p) ==
  /\ PassAt(j, "idle")
  /\ rows[p].status = "active"
  /\ \A q \in Protections : rows[q].status = "active" => rows[q].day <= rows[p].day
  /\ Goes(j, [IdlePass EXCEPT !.at = "trigger", !.on = p])
  /\ UNCHANGED <<date, rows, state, lock, bought, owed, blurred, unsaid, gone, failures>>

\* No protection is active, or the spot price is missing or above the floor.
NothingTriggers(j) ==
  /\ \/ PassAt(j, "idle") /\ \A p \in Protections : rows[p].status # "active"
     \/ PassAt(j, "trigger")
  /\ Goes(j, [IdlePass EXCEPT !.at = "expiry"])
  /\ UNCHANGED <<date, rows, state, lock, bought, owed, blurred, unsaid, gone, failures>>

\* The floor is reached.  The patch has no guard on the status; that of a row
\* deleted meanwhile changes nothing.
Trigger(j) ==
  LET p == pass[j].on IN
  /\ PassAt(j, "trigger")
  /\ rows' = IF p \in StoredRows
             THEN [rows EXCEPT ![p].status = "triggered", ![p].triggered = TRUE]
             ELSE rows
  /\ owed' = owed + 1
  /\ Goes(j, [IdlePass EXCEPT !.at = "check", !.next = "expiry"])
  /\ UNCHANGED <<date, state, lock, bought, blurred, unsaid, gone, failures>>

ReadTotals(j) ==
  /\ PassAt(j, "check")
  /\ Goes(j, [pass[j] EXCEPT !.at = "add", !.seen = state])
  /\ UNCHANGED <<date, rows, state, lock, bought, owed, blurred, unsaid, gone, failures>>

\* The total read before, plus the payout; then the expiry check, or the next
\* expired protection.
AddPayout(j) ==
  /\ PassAt(j, "add")
  /\ state' = [state EXCEPT !.payouts = pass[j].seen.payouts + 1]
  /\ blurred' = blurred \cup
       (IF state.payouts = pass[j].seen.payouts THEN {} ELSE {"payouts"})
  /\ Goes(j, [pass[j] EXCEPT !.at = pass[j].next, !.next = "idle", !.seen = NoTotals])
  /\ UNCHANGED <<date, rows, lock, bought, owed, unsaid, gone, failures>>

\* A statement of the pass throws, and the pass is over.
CheckThrows(j) ==
  /\ pass[j].at \in {"check", "add"}
  /\ Failure
  /\ unsaid' = unsaid \cup {"payouts"}
  /\ Goes(j, IdlePass)
  /\ UNCHANGED <<date, rows, state, lock, bought, owed, blurred, gone>>

\* open protections whose day is over
ExpiredRows ==
  {p \in Protections : rows[p].status \in {"active", "triggered"} /\ rows[p].day < date}

\* Those whose hour has come.
ListExpired(j) ==
  /\ PassAt(j, "expiry")
  /\ \E due \in SUBSET ExpiredRows :
       Goes(j, IF due = {} THEN IdlePass
               ELSE [IdlePass EXCEPT !.at = "settle", !.todo = due,
                                 !.trig = {p \in due : rows[p].triggered}])
  /\ UNCHANGED <<date, rows, state, lock, bought, owed, blurred, unsaid, gone, failures>>

FinalStatus(triggered, inTheMoney) ==
  CASE triggered  -> "settled_triggered"
    [] inTheMoney -> "settled_itm"
    [] OTHER      -> "expired_otm"

\* The final status follows from the row as it was listed, and the patch has no
\* guard.  What expires in the money without a trigger adds to the payouts.
Settle(j, p, inTheMoney) ==
  LET added == inTheMoney /\ p \notin pass[j].trig
      left  == pass[j].todo \ {p}
      on    == IF left = {} THEN "idle" ELSE "settle"
  IN /\ PassAt(j, "settle")
     /\ p \in pass[j].todo
     /\ rows' = IF p \in StoredRows
                THEN [rows EXCEPT ![p].status = FinalStatus(p \in pass[j].trig, inTheMoney)]
                ELSE rows
     /\ owed' = IF added THEN owed + 1 ELSE owed
     /\ Goes(j, [pass[j] EXCEPT !.at = IF added THEN "check" ELSE on,
                   !.next = IF added THEN on ELSE "idle",
                   !.todo = left, !.trig = @ \ {p}])
     /\ UNCHANGED <<date, state, lock, bought, blurred, unsaid, gone, failures>>

(***************************************************************************)
(* The admin, the clock and a restart.                                      *)
(***************************************************************************)
SetPaused(b) ==
  /\ state' = [state EXCEPT !.paused = b]
  /\ UNCHANGED <<date, rows, lock, pass, bought, owed, blurred, unsaid, gone, failures>>

Cycling  == {j \in Passes : pass[j].at \in {"insert", "total"}}
PayingIn == {j \in Passes : pass[j].at \in {"check", "add"}}

\* resetTreasuryData deletes the rows, whatever is under way ...
Reset(j) ==
  /\ PassAt(j, "idle")
  /\ Failure
  /\ rows' = [p \in Protections |->
                IF p \in StoredRows THEN [NotInserted EXCEPT !.status = "deleted"] ELSE rows[p]]
  /\ gone' = gone \cup {rows[p].day : p \in StoredRows}
  /\ Step(j, "zero")
  /\ UNCHANGED <<date, state, lock, bought, owed, blurred, unsaid>>

\* ... and zeroes the totals, but not paused.
ZeroTotals(j) ==
  /\ PassAt(j, "zero")
  /\ state' = [NoTotals EXCEPT !.paused = state.paused]
  /\ bought' = [d \in Dates |-> Cardinality({k \in Cycling : pass[k].day = d})]
  /\ owed' = Cardinality(PayingIn)
  /\ blurred' = {}
  /\ unsaid' = unsaid \cap {"lock"}
  /\ Goes(j, IdlePass)
  /\ UNCHANGED <<date, rows, lock, gone, failures>>

NextDate ==
  /\ date < LastDate
  /\ date' = date + 1
  /\ UNCHANGED <<rows, state, lock, pass, bought, owed, blurred, unsaid, gone, failures>>

RestartScheduler ==
  /\ Failure
  /\ pass' = [j \in Passes |-> IdlePass]
  /\ lock' = FALSE
  /\ unsaid' = (unsaid \ {"lock"})
       \cup (IF PayingIn = {} THEN {} ELSE {"payouts"})
       \cup (IF Cycling = {} THEN {} ELSE {"cycles"})
  /\ gone' = gone \cup {pass[j].day : j \in {k \in Cycling : PassAt(k, "insert")}}
  /\ UNCHANGED <<date, rows, state, bought, owed, blurred>>

CycleStep(j) ==
  \/ StartCycle(j) \/ ReadState(j) \/ Dedup(j) \/ TakeLock(j) \/ NotBought(j) \/ AnswerLost(j)
  \/ Buy(j)
  \/ \E p \in Protections : InsertProtection(j, p)
  \/ AddCycle(j) \/ CycleThrows(j)

CheckStep(j) ==
  \/ \E p \in Protections : ReadActive(j, p)
  \/ NothingTriggers(j) \/ Trigger(j) \/ ReadTotals(j) \/ AddPayout(j) \/ CheckThrows(j)
  \/ ListExpired(j)
  \/ \E p \in Protections, inTheMoney \in BOOLEAN : Settle(j, p, inTheMoney)

TreasuryNext ==
  \/ \E j \in Passes : CycleStep(j) \/ CheckStep(j) \/ Reset(j) \/ ZeroTotals(j)
  \/ \E b \in BOOLEAN : SetPaused(b)
  \/ NextDate \/ RestartScheduler

TreasurySpec == TreasuryInit /\ [][TreasuryNext]_treasuryVars

-----------------------------------------------------------------------------
TreasuryTypeOK ==
  /\ date \in Dates
  /\ rows \in [Protections -> [status    : ProtectionStatus,
                              day       : Dates \cup {Never},
                              triggered : BOOLEAN]]
  /\ state \in [paused : BOOLEAN, cycles : Nat, payouts : Nat]
  /\ lock \in BOOLEAN
  /\ \A j \in Passes :
       /\ pass[j].at \in Places
       /\ pass[j].on \in Protections \cup {NoRow}
       /\ pass[j].trig \subseteq pass[j].todo
       /\ pass[j].todo \subseteq Protections
  /\ bought \in [Dates -> Nat]
  /\ owed \in Nat
  /\ blurred \subseteq {"cycles", "payouts"}
  /\ unsaid \subseteq {"cycles", "payouts", "lock"}
  /\ gone \subseteq Dates
  /\ failures \in 0..MaxFailures

(***************************************************************************)
(* Safety.                                                                  *)
(***************************************************************************)
\* A day is bought again only by a cycle that was under way with the first one,
\* or because the first one has no row: the insert failed, the answer of the
\* venue was lost, or the rows were reset.
DayBoughtOnce ==
  \A j \in Passes : PassAt(j, "insert") /\ pass[j].over => pass[j].day \in gone

\* The lock is held by a cycle that is at the venue or recording, unless a
\* statement threw and left it taken.
LockHasHolder ==
  lock => (\E j \in Passes : pass[j].at \in {"buy", "insert", "total"}) \/ "lock" \in unsaid

\* The totals of the state are what was bought and what became payable, less
\* what is being added, unless a failure lost an addition or a total was
\* written by a pass that had read another value.
TotalsKept ==
  /\ "cycles" \notin blurred \cup unsaid =>
       state.cycles + Cardinality(Cycling) = MapThenSumSet(LAMBDA d : bought[d], Dates)
  /\ "payouts" \notin blurred \cup unsaid =>
       state.payouts + Cardinality(PayingIn) = owed

\* What the scheduler's day, lock and totals promise, in variables that are
\* what they are declared to be.
TreasuryAccounted == TreasuryTypeOK /\ DayBoughtOnce /\ LockHasHolder /\ TotalsKept
=============================================================================
