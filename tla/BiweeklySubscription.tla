------------------------ MODULE BiweeklySubscription ------------------------
(***************************************************************************)
(* The biweekly protection of the pilot: a row of pilot_protections that    *)
(* is opened by the activate route and ended by whichever comes first of    *)
(*   - the trigger monitor (triggerMonitor.ts), every few seconds: it fires *)
(*     breached protections, then sweeps those at their maximum tenor, then *)
(*     those whose scheduled close is due;                                  *)
(*   - the trader, at once or at the next day boundary (biweeklyClose.ts);  *)
(*   - an admin's courtesy close, and the expiry resolver (routes.ts).      *)
(*                                                                          *)
(* Both timers are setInterval callbacks that nobody awaits, so passes      *)
(* overlap: Cycles and Resolvers are how many may be under way, Requests is *)
(* how many HTTP requests.  A handler runs one SQL statement per step.      *)
(*                                                                          *)
(* Time is counted in ticks, DayTicks to the billing day.                   *)
(***************************************************************************)
EXTENDS Integers, Sequences, FiniteSets

CONSTANTS
  Protections,
  Cycles,        \* trigger monitor cycles that may be under way at once
  Requests,      \* activate and close requests that may be under way at once
  Resolvers,     \* expiry resolver passes that may be under way at once
  MaxTenorDays,  \* BIWEEKLY_MAX_TENOR_DAYS
  DayTicks,      \* ticks of a day
  GraceTicks,    \* day-boundary grace window
  Horizon,       \* bound on the clock
  MaxFaults      \* bound on failed statements and restarts

ASSUME TimeAssumption ==
  /\ MaxTenorDays \in Nat \ {0}
  /\ DayTicks \in Nat \ {0}
  /\ GraceTicks \in 0..DayTicks
  /\ Horizon \in Nat
ASSUME FaultsAssumption == MaxFaults \in Nat
ASSUME RolesAssumption ==
  /\ Cycles \cap Requests = {}
  /\ Cycles \cap Resolvers = {}
  /\ Requests \cap Resolvers = {}

\* the pos of a handler that works on no protection
NoProtection == "none"
ASSUME ProtectionsAssumption == NoProtection \notin Protections

VARIABLES
  row,           \* pilot_protections
  settlements,   \* subscription_close_settlement rows: days of each, oldest first
  triggerDue,    \* trigger_payout_due rows of a protection
  poolPayouts,   \* payout_out rows of the capital pool
  expiryDue,     \* payout_due rows of a protection
  job,           \* local state of each handler
  clock,
  faults

vars == <<row, settlements, triggerDue, poolPayouts, expiryDue, job, clock, faults>>

Handlers == Cycles \cup Requests \cup Resolvers
Tenor    == MaxTenorDays * DayTicks

Status   == {"absent", "active", "triggered", "awaiting_expiry_price",
             "cancelled", "expired_otm", "expired_itm"}
ClosedBy == {"user_close", "trigger", "natural_expiry", "admin"}
JobPc    == {"idle", "price", "loop", "accrue", "due", "read", "write",
             "settle", "schedule", "clear", "resolve", "payout"}

\* by is "none" until closed_at is set; effective is 0 while no close is
\* scheduled; priced says entry_price is set, resolved that expiry_price is.
Row == [status    : Status,
        created   : Nat,
        by        : ClosedBy \cup {"none"},
        days      : 0..MaxTenorDays,
        effective : Nat,
        priced    : BOOLEAN,
        resolved  : BOOLEAN]

\* What a handler holds: the listed protections it has still to visit, the
\* one it works on, why it closes, the instant it bills at, the instant it
\* started, and the days it will write.  In a monitor cycle, by also tells
\* the pass: trigger, then natural_expiry, then user_close.
Job == [pc     : JobPc,
        todo   : SUBSET Protections,
        pos    : Protections \cup {NoProtection},
        by     : ClosedBy,
        at     : Nat,
        now    : Nat,
        days   : 0..MaxTenorDays]

BiweeklyTypeOK ==
  /\ row \in [Protections -> Row]
  /\ settlements \in [Protections -> Seq(1..MaxTenorDays)]
  /\ triggerDue \in [Protections -> Nat]
  /\ poolPayouts \in [Protections -> Nat]
  /\ expiryDue \in [Protections -> Nat]
  /\ job \in [Handlers -> Job]
  /\ clock \in Nat
  /\ faults \in Nat

NoRow == [status |-> "absent", created |-> 0, by |-> "none", days |-> 0, effective |-> 0,
          priced |-> FALSE, resolved |-> FALSE]
IdleJob == [pc |-> "idle", todo |-> {}, pos |-> NoProtection, by |-> "trigger",
            at |-> 0, now |-> 0, days |-> 0]

Init ==
  /\ row = [p \in Protections |-> NoRow]
  /\ settlements = [p \in Protections |-> <<>>]
  /\ triggerDue = [p \in Protections |-> 0]
  /\ poolPayouts = [p \in Protections |-> 0]
  /\ expiryDue = [p \in Protections |-> 0]
  /\ job = [h \in Handlers |-> IdleJob]
  /\ clock = 0
  /\ faults = 0

\* A statement throws, the resolver gets no price, or the process restarts.
Fault   == faults < MaxFaults /\ faults' = faults + 1
NoFault == UNCHANGED faults

SetRow(p, r) == row' = [row EXCEPT ![p] = r]
SetJob(h, j) == job' = [job EXCEPT ![h] = j]

ledgers == <<settlements, triggerDue, poolPayouts, expiryDue>>
tables  == <<row, ledgers>>

\* A handler goes on to j without writing.
Proceed(h, j) == SetJob(h, j) /\ NoFault /\ UNCHANGED <<tables, clock>>

\* Its statement throws and it goes on to j.
Throws(h, j) == SetJob(h, j) /\ Fault /\ UNCHANGED <<tables, clock>>

\* Its UPDATE makes p's row r and it goes on to j.
Update(h, j, p, r) ==
  SetRow(p, r) /\ SetJob(h, j) /\ NoFault /\ UNCHANGED <<ledgers, clock>>

Exists(p) == row[p].status # "absent"
Closed(p) == row[p].by # "none"

-----------------------------------------------------------------------------
(* Billing arithmetic (biweeklyPricing.ts).                                *)

Clamp(lo, x, hi) == IF x < lo THEN lo ELSE IF x > hi THEN hi ELSE x
CeilDiv(a, b)    == (a + b - 1) \div b

\* Mutant: the grace window is forgotten.
DaysBilledNoGrace(created, at) == Clamp(1, CeilDiv(at - created, DayTicks), MaxTenorDays)

\* computeDaysHeld, rounded up and clamped to [1, max]: both subtractions
\* stop at zero
DaysBilled(created, at) ==
  LET held == at - created - GraceTicks IN
  Clamp(1, IF held > 0 THEN CeilDiv(held, DayTicks) ELSE 0, MaxTenorDays)

\* computeNextBoundary: the end of the last day a close now would bill
Boundary(created, at) == created + DaysBilled(created, at) * DayTicks

StatusFor(by) ==
  CASE by = "trigger"        -> "triggered"
    [] by = "natural_expiry" -> "expired_otm"
    [] OTHER                 -> "cancelled"

-----------------------------------------------------------------------------
(* handleBiweeklyClose, for whoever runs it.                               *)

\* Where a handler goes when a close has ended, well or not.
Return(h) ==
  IF h \in Cycles
  THEN [IdleJob EXCEPT !.pc = "loop", !.todo = job[h].todo, !.by = job[h].by, !.now = job[h].now]
  ELSE IdleJob

\* getProtectionSubscriptionState, and the days to bill from what it read.
ReadState(h) ==
  LET j == job[h] IN
  /\ j.pc = "read"
  /\ \/ /\ Closed(j.pos)
        /\ Proceed(h, Return(h))
     \/ /\ ~Closed(j.pos)
        /\ Proceed(h, [j EXCEPT !.pc = "write",
                          !.days = IF j.by = "natural_expiry" THEN MaxTenorDays
                                   ELSE DaysBilled(row[j.pos].created, j.at)])
     \/ Throws(h, Return(h))

\* The columns a close sets.  hedge_retained_for_platform, which goes with by,
\* is left out: nothing here reads it.
ClosedRow(j) ==
  [row[j.pos] EXCEPT !.status = StatusFor(j.by), !.by = j.by, !.days = j.days]

\* Mutant: the WHERE clause names the id only.
WriteCloseAlways(h) ==
  LET j == job[h] IN
  /\ j.pc = "write"
  /\ \/ Update(h, [j EXCEPT !.pc = "settle"], j.pos, ClosedRow(j))
     \/ Throws(h, Return(h))

\* markProtectionClosed: WHERE closed_at IS NULL.
WriteClose(h) ==
  LET j == job[h] IN
  /\ j.pc = "write"
  /\ \/ /\ ~Closed(j.pos)
        /\ Update(h, [j EXCEPT !.pc = "settle"], j.pos, ClosedRow(j))
     \/ /\ Closed(j.pos)
        /\ Proceed(h, Return(h))
     \/ Throws(h, Return(h))

\* The subscription_close_settlement row, best effort.
Settle(h) ==
  LET j == job[h] IN
  /\ j.pc = "settle"
  /\ \/ /\ settlements' = [settlements EXCEPT ![j.pos] = Append(@, j.days)]
        /\ SetJob(h, Return(h))
        /\ NoFault
        /\ UNCHANGED <<row, triggerDue, poolPayouts, expiryDue, clock>>
     \/ Throws(h, Return(h))

CloseStep(h) == ReadState(h) \/ WriteClose(h) \/ Settle(h)

-----------------------------------------------------------------------------
(* The trigger monitor.                                                    *)

\* listActiveProtectionsForTriggerMonitor
StartCycle(t) ==
  /\ job[t].pc = "idle"
  /\ Proceed(t, [IdleJob EXCEPT !.pc = "loop", !.by = "trigger", !.now = clock,
                   !.todo = {p \in Protections : row[p].status = "active" /\ row[p].priced}])

\* The rest of a cycle once p has been taken from the list.
Without(t, p) == [job[t] EXCEPT !.todo = @ \ {p}]

\* The floor is not breached, or no price is to be had.
SkipCandidate(t) ==
  /\ job[t].pc = "loop"
  /\ job[t].by = "trigger"
  /\ \E p \in job[t].todo : Proceed(t, Without(t, p))

\* Mutant: patchProtection, which looks at no status.
FireTriggerUnguarded(t) ==
  /\ job[t].pc = "loop"
  /\ job[t].by = "trigger"
  /\ \E p \in job[t].todo :
       \/ Update(t, [Without(t, p) EXCEPT !.pc = "accrue", !.pos = p],
                 p, [row[p] EXCEPT !.status = "triggered"])
       \/ Throws(t, IdleJob)

\* patchProtectionForStatus, WHERE status = 'active': another handler may
\* have moved the protection on since it was listed.
FireTrigger(t) ==
  /\ job[t].pc = "loop"
  /\ job[t].by = "trigger"
  /\ \E p \in job[t].todo :
       \/ /\ row[p].status = "active"
          /\ Update(t, [Without(t, p) EXCEPT !.pc = "accrue", !.pos = p],
                    p, [row[p] EXCEPT !.status = "triggered"])
       \/ /\ row[p].status # "active"
          /\ Proceed(t, Without(t, p))
       \/ Throws(t, IdleJob)

\* recordTriggerLedgerWrite, best effort.
AccruePayout(t) ==
  LET j == job[t] IN
  /\ j.pc = "accrue"
  /\ \/ /\ poolPayouts' = [poolPayouts EXCEPT ![j.pos] = @ + 1]
        /\ SetJob(t, [j EXCEPT !.pc = "due"])
        /\ NoFault
        /\ UNCHANGED <<row, settlements, triggerDue, expiryDue, clock>>
     \/ Throws(t, [j EXCEPT !.pc = "due"])

\* Mutant: the ledger row is best effort, like the other ones.
BookTriggerDueBestEffort(t) ==
  LET j == job[t] IN
  /\ j.pc = "due"
  /\ \/ /\ triggerDue' = [triggerDue EXCEPT ![j.pos] = @ + 1]
        /\ NoFault
     \/ UNCHANGED triggerDue /\ Fault
  /\ SetJob(t, [j EXCEPT !.pc = "read", !.at = j.now])
  /\ UNCHANGED <<row, settlements, poolPayouts, expiryDue, clock>>

\* The price snapshot and the trigger_payout_due row.  If either throws the
\* whole cycle ends: the protection is not closed, the sweeps do not run.
BookTriggerDue(t) ==
  LET j == job[t] IN
  /\ j.pc = "due"
  /\ \/ /\ triggerDue' = [triggerDue EXCEPT ![j.pos] = @ + 1]
        /\ SetJob(t, [j EXCEPT !.pc = "read", !.at = j.now])
        /\ NoFault
        /\ UNCHANGED <<row, settlements, poolPayouts, expiryDue, clock>>
     \/ Throws(t, IdleJob)

\* Mutant: only 'active' rows are swept.
ExpiredActiveBy(at) ==
  {p \in Protections : /\ row[p].status = "active" /\ ~Closed(p)
                       /\ row[p].created + Tenor <= at}

ExpiredBy(at) ==
  {p \in Protections : Exists(p) /\ ~Closed(p) /\ row[p].created + Tenor <= at}

\* Mutant: a schedule is due once its instant has passed.
ScheduledBefore(at) ==
  {p \in Protections : /\ row[p].effective \in 1..(at - 1)
                       /\ row[p].status = "active" /\ ~Closed(p)}

ScheduledBy(at) ==
  {p \in Protections : /\ row[p].effective \in 1..at
                       /\ row[p].status = "active" /\ ~Closed(p)}

\* The cycle's next pass lists what it has to visit; a list that cannot be
\* read is empty.
StartPass(t, from, to, listed) ==
  /\ job[t].pc = "loop" /\ job[t].by = from /\ job[t].todo = {}
  /\ \/ Proceed(t, [job[t] EXCEPT !.by = to, !.todo = listed])
     \/ Throws(t, [job[t] EXCEPT !.by = to])

StartNaturalSweep(t) ==
  StartPass(t, "trigger", "natural_expiry", ExpiredBy(job[t].now))

StartScheduledSweep(t) ==
  StartPass(t, "natural_expiry", "user_close", ScheduledBy(job[t].now))

EndCycle(t) ==
  /\ job[t].pc = "loop" /\ job[t].by = "user_close" /\ job[t].todo = {}
  /\ Proceed(t, IdleJob)

SweepExpired(t) ==
  /\ job[t].pc = "loop" /\ job[t].by = "natural_expiry"
  /\ \E p \in job[t].todo :
       Proceed(t, [Without(t, p) EXCEPT !.pc = "read", !.pos = p, !.at = job[t].now])

\* The sweep reads close_effective_at again and bills at it, or at its own
\* start when there is none any more.
SweepScheduled(t) ==
  /\ job[t].pc = "loop" /\ job[t].by = "user_close"
  /\ \E p \in job[t].todo :
       \/ Proceed(t, [Without(t, p) EXCEPT !.pc = "read", !.pos = p,
            !.at = IF row[p].effective # 0 THEN row[p].effective ELSE job[t].now])
       \/ Throws(t, Without(t, p))

CycleStep(t) ==
  \/ StartCycle(t)
  \/ SkipCandidate(t)
  \/ FireTrigger(t)
  \/ AccruePayout(t)
  \/ BookTriggerDue(t)
  \/ StartNaturalSweep(t)
  \/ StartScheduledSweep(t)
  \/ SweepExpired(t)
  \/ SweepScheduled(t)
  \/ EndCycle(t)
  \/ CloseStep(t)

-----------------------------------------------------------------------------
(* HTTP requests.                                                          *)

\* The activate route inserts the row with no entry price ...
Activate(r) ==
  /\ job[r].pc = "idle"
  /\ \E p \in Protections :
       /\ ~Exists(p)
       /\ Update(r, [IdleJob EXCEPT !.pc = "price", !.pos = p],
                 p, [NoRow EXCEPT !.status = "active", !.created = clock])

\* ... and patches it in a second statement, best effort.
PriceRow(r) ==
  /\ job[r].pc = "price"
  /\ LET p == job[r].pos IN
       \/ Update(r, IdleJob, p, [row[p] EXCEPT !.priced = TRUE])
       \/ Throws(r, IdleJob)

\* POST .../close: requestBiweeklyClose reads the row and computes the
\* boundary it quotes ...
RequestClose(r) ==
  /\ job[r].pc = "idle"
  /\ \E p \in Protections :
       /\ Exists(p) /\ ~Closed(p)
       /\ Proceed(r, [IdleJob EXCEPT !.pc = "schedule", !.pos = p,
                                     !.at = Boundary(row[p].created, clock)])

\* ... and requestProtectionClose writes it, unless a close is scheduled or
\* the protection has ended in the meantime.
WriteSchedule(r) ==
  LET p == job[r].pos
      open == row[p].effective = 0 /\ row[p].status = "active" /\ ~Closed(p)
  IN
  /\ job[r].pc = "schedule"
  /\ \/ /\ open
        /\ Update(r, IdleJob, p, [row[p] EXCEPT !.effective = job[r].at])
     \/ /\ ~open
        /\ Proceed(r, IdleJob)
     \/ Throws(r, IdleJob)

CanUnschedule(p) == row[p].effective # 0 /\ row[p].status = "active" /\ ~Closed(p)

\* DELETE .../close-request
UndoClose(r) ==
  /\ job[r].pc = "idle"
  /\ \E p \in Protections :
       /\ CanUnschedule(p)
       /\ Update(r, IdleJob, p, [row[p] EXCEPT !.effective = 0])

\* POST .../close?immediate=true
CloseNow(r) ==
  /\ job[r].pc = "idle"
  /\ \E p \in Protections :
       /\ Exists(p)
       /\ Proceed(r, [IdleJob EXCEPT !.pc = "read", !.pos = p, !.by = "user_close", !.at = clock])

\* POST .../courtesy-close: the admin names the days.
CourtesyClose(r) ==
  /\ job[r].pc = "idle"
  /\ \E p \in Protections, d \in 1..MaxTenorDays :
       /\ Exists(p) /\ ~Closed(p)
       /\ Proceed(r, [IdleJob EXCEPT !.pc = "clear", !.pos = p, !.by = "admin", !.days = d])

\* It first drops the scheduled close, best effort.
ClearSchedule(r) ==
  LET p == job[r].pos
      next == [job[r] EXCEPT !.pc = "write"]
  IN
  /\ job[r].pc = "clear"
  /\ \/ CanUnschedule(p) /\ Update(r, next, p, [row[p] EXCEPT !.effective = 0])
     \/ ~CanUnschedule(p) /\ Proceed(r, next)
     \/ Throws(r, next)

RequestStep(r) ==
  \/ Activate(r)
  \/ PriceRow(r)
  \/ RequestClose(r)
  \/ WriteSchedule(r)
  \/ UndoClose(r)
  \/ CloseNow(r)
  \/ CourtesyClose(r)
  \/ ClearSchedule(r)
  \/ CloseStep(r)

-----------------------------------------------------------------------------
(* The expiry resolver.                                                    *)

Unresolved == {"active", "awaiting_expiry_price"}

StartResolver(x) ==
  /\ job[x].pc = "idle"
  /\ Proceed(x, [IdleJob EXCEPT !.pc = "loop", !.todo =
       {p \in Protections : /\ row[p].status \in Unresolved /\ ~row[p].resolved
                            /\ row[p].created + Tenor <= clock}])

\* resolveAndPersistExpiry reads the status, then waits for a price.
ReadUnresolved(x) ==
  /\ job[x].pc = "loop"
  /\ \E p \in job[x].todo :
       \/ /\ row[p].status \in Unresolved
          /\ Proceed(x, [Without(x, p) EXCEPT !.pc = "resolve", !.pos = p])
       \/ /\ row[p].status \notin Unresolved
          /\ Proceed(x, Without(x, p))
       \/ Throws(x, IdleJob)

EndResolver(x) ==
  /\ job[x].pc = "loop" /\ job[x].todo = {}
  /\ Proceed(x, IdleJob)

Resumed(x) == [IdleJob EXCEPT !.pc = "loop", !.todo = job[x].todo]

\* Anything that throws, the ledger row included, leaves the protection
\* waiting for a price; if that UPDATE throws too, the pass ends.
AwaitPrice(x) ==
  LET p == job[x].pos IN
  /\ SetRow(p, [row[p] EXCEPT !.status = "awaiting_expiry_price"])
  /\ SetJob(x, Resumed(x))
  /\ Fault
  /\ UNCHANGED <<ledgers, clock>>

\* The patch names the id only: whatever the status is by now is overwritten.
\* In or out of the money is data here.
ResolveExpiry(x) ==
  LET p == job[x].pos IN
  /\ job[x].pc = "resolve"
  /\ \/ Update(x, Resumed(x), p,
               [row[p] EXCEPT !.status = "expired_otm", !.resolved = TRUE])
     \/ Update(x, [job[x] EXCEPT !.pc = "payout"], p,
               [row[p] EXCEPT !.status = "expired_itm", !.resolved = TRUE])
     \/ AwaitPrice(x)
     \/ Throws(x, IdleJob)

BookExpiryDue(x) ==
  /\ job[x].pc = "payout"
  /\ \/ /\ expiryDue' = [expiryDue EXCEPT ![job[x].pos] = @ + 1]
        /\ SetJob(x, Resumed(x))
        /\ NoFault
        /\ UNCHANGED <<row, settlements, triggerDue, poolPayouts, clock>>
     \/ AwaitPrice(x)
     \/ Throws(x, IdleJob)

ResolverStep(x) ==
  \/ StartResolver(x)
  \/ ReadUnresolved(x)
  \/ ResolveExpiry(x)
  \/ BookExpiryDue(x)
  \/ EndResolver(x)

-----------------------------------------------------------------------------

Restart ==
  /\ job' = [h \in Handlers |-> IdleJob]
  /\ Fault
  /\ UNCHANGED <<tables, clock>>

Tick ==
  /\ clock < Horizon
  /\ clock' = clock + 1
  /\ NoFault
  /\ UNCHANGED <<tables, job>>

Next ==
  \/ \E t \in Cycles : CycleStep(t)
  \/ \E r \in Requests : RequestStep(r)
  \/ \E x \in Resolvers : ResolverStep(x)
  \/ Restart
  \/ Tick

Spec == Init /\ [][Next]_vars

\* The monitor's timer fires for as long as the process lives, its statements
\* return, and time passes.  Nothing is asked of traders or of the resolver.
FairSpec ==
  /\ Spec
  /\ \A t \in Cycles : WF_vars(CycleStep(t))
  /\ WF_vars(Tick)
=============================================================================
