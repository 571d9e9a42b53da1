# Foxify Collar in TLA+

The repository is the back end of a derivatives protection desk. Traders buy a
protection on a perpetual position for a premium; the desk buys option legs at
a venue to hedge it, watches the price, pays out when a barrier or floor is
touched, ends the protection on request or at its tenor, and sells what is left
of the hedge. Two products are live: **Volume Cover** (two-sided barriers,
`services/api/src/volumeCover/`) and the **pilot's biweekly protection** (a
subscription billed by the day, `services/api/src/pilot/`). Both run in one
Node process over PostgreSQL, without transactions around their multi-statement
handlers and without awaiting the timers they start. The process also serves the
**collar API** the pilot grew out of (`services/api/src/server.ts`), whose
coverages and hedges are maps in memory, saved to JSON files.

These modules describe those handlers one SQL statement or venue order per
step, let them interleave at every `await`, fail at any statement and restart
at any point. TLC checks small instances; TLAPS proves the main invariants for
instances of any size.

Paths below are relative to `src/services/api/src/`.

## 1. Inventory

### Volume Cover

| Part | State | Operations | Hard behaviour | What makes it correct |
|---|---|---|---|---|
| Position lifecycle (`positionLifecycle.ts`, `volumeCoverDb.ts`) | `volume_cover_position`, `_hedge_leg`, `_salvage_event`, `_ledger` | `openPosition`, `fireTrigger`, `closePosition` | the row is visible before it is hedged; the UPDATEs that end a position do not look at each other; best-effort ledger rows | a position is paid and billed once per actor; a billed position is over; every leg of an ended position is handed to the manager; every venue leg is accounted for |
| Trigger detector (`triggerDetector.ts`) | none but the rows | a cycle every 3 s, never awaited; one on demand | overlapping cycles over one snapshot | a position fires once |
| Ladder netting (`ladderNetting.ts`) | `retained`, `owner`, hop count of a leg | list retained legs, claim one | two openings claim from lists read earlier; a close flags a leg that was re-pointed in between | one owner at a time, hops within the cap |
| Hedge execution (`tightHedge.ts`, `hedgeExecutorAdapter.ts`) | venue account | buy the legs in turn, sell back on rejection | half-filled structures | no contract without a row, an alert or a failure |
| Hedge manager (`volumeCoverHedgeManager.ts`) | `sold` status, `hedge_sell_in` rows, salvage proceeds | a tick every 60 s, never awaited; one on demand | sells from a snapshot; read-add-write of the proceeds | a leg is sold once, an open row is a held contract, proceeds are backed by sales |
| Routes and admission (`volumeCoverRoutes.ts`, `antiBot.ts`, `volumeCoverGuardrails.ts`) | fingerprint rows, daily counts, halt and surge pause in memory | activate, test-activate, admin halt, cell and cap changes | six reads, each behind an await, before one insert; what the guards hold lives in memory | one open position per pair; the cap is exceeded only by requests that overlap; who is under a cooldown stays out; a cell is reopened early only behind another |
| Pricing, cells, strike grids; reports and reconciler; market-data caches | tables and caches | pure functions, read-only queries | rounding | not modelled, see section 8 |

Timers and routes meet only in the tables and the venue account: the detector
and the routes call the lifecycle; the lifecycle retains legs; netting and the
manager both consume retained legs. Admission stands before the lifecycle: it
ends where `openPosition` inserts its row.

### Pilot

| Part | State | Operations | Hard behaviour | What makes it correct |
|---|---|---|---|---|
| Activation (`routes.ts`, `biweeklyActivate.ts`, `db.ts`) | quotes, daily usage, protections, venue executions, pool of connections | one-day path (transaction, then execution) and biweekly path (no transaction) | a handler holds one connection and asks for others; the quote is consumed last on the biweekly path; rollback of a reservation | a quote buys once; caps overrun only by overlap; a filled order has its records or a named cause; capacity is given back once |
| Close (`biweeklyClose.ts`, `db.ts`) | `pilot_protections`, `pilot_ledger_entries` | close now, schedule, withdraw, sweeps, courtesy close | five actors may end one subscription | it is closed once, invoiced once, for the days it records |
| Billing (`biweeklyPricing.ts`) | none | days held, boundary, charge | grace, ceiling, clamp at boundaries; late sweeps | no day is billed before it began |
| Trigger monitor (`triggerMonitor.ts`) | none but the rows | a cycle of three passes every few seconds, never awaited | overlap; a failed ledger row aborts the cycle half-way | one payout per trigger, a triggered close is paid, whatever reaches its tenor is closed |
| One-day protection after activation: monitor, auto-renew (`autoRenew.ts`), expiry resolver (`routes.ts`), hedge manager (`hedgeManager.ts`), admin settlement | `pilot_protections`, ledger, hedge status | trigger, renew, resolve, settle, sell | five timers and routes patch one row from what they read before a price, an order or an insert | one renewal per row, one sale per hedge, one payout entry per settlement, short of a named overlap or failure |
| Treasury (`treasuryScheduler.ts`, `treasuryDb.ts`, `treasuryRoutes.ts`) | `executionLock`, daily protections, row of totals | buy the day's protection, trigger, settle, reset | the lock is tested, then taken after awaits; totals are read, added to and written back | a day is bought once, the totals are what happened, short of a named overlap or failure |
| Capital pool and settlement (`capitalPoolLedger.ts`, `capitalPoolSchema.ts`, `settlementRunner.ts`) | pool ledger, settlement runs | deposit, withdraw, draft, approve | check-then-insert approvals; a lockup computed by a view | a run is distributed once; a withdrawal is covered |
| Circuit breaker, throttles | in memory | | state lost at a restart | not modelled, see section 8 |
| Pricing, regimes, venue adapters, broker bridge, web apps | | | real-number pricing or I/O | not modelled, see section 8 |

### Collar API

| Part | State | Operations | Hard behaviour | What makes it correct |
|---|---|---|---|---|
| Coverages (`server.ts`) | `activeCoverages`, `coverageLedger`, their two files, the audit log, booked revenue | export (activates), order, auto-renew, listing, mark-to-market pass, reset | a repeated activation is told by the last 200 log entries, read behind which four awaits pass before it is logged; a pass adds credits to a total it read earlier; two records of one end; files written from copies, in any order | collected once; what is collected is booked; credits add up; an end is honoured; a restart finds what was there: each short of a named overlap or failure |
| Hedge book (`server.ts`, `deribitConnector.ts`) | `hedgeLedger`, its file, cooldowns in memory, the venue account | order, loop tick, net exposure, reset | ticks overlap and act on sizes and cooldowns read before orders; a private request is sent again after a timeout; a failed order is replaced by a simulated fill | account and book differ only by what nobody books; a reduction reduces; orders of the loop are spaced |
| Quoting, risk summary, loop analytics | caches | | | not modelled, see section 8 |

The two meet in the order handler, which writes the ledger of coverages and then
the hedge book; each module keeps the half that is its own.

`PROJECT.json` lists every part with its status, and every hazard at its line.

## 2. Modules

    Volume Cover
      Admission                requests up to the insert
        AdmissionProofs
      VolumeCoverTables        rows, SQL statements, faults
        PositionLifecycle      openings, detector cycles, close requests
          PositionLifecycleInvariant   its inductive invariants
        HedgeManager           manager ticks
        VolumeCover            PositionLifecycle + HedgeManager + one Restart
          VolumeCoverProofs    of the lifecycle and of the whole

    Pilot
      PilotActivation          activate requests, both products
      CapitalPool              pool ledger and settlement runs
      Treasury                 the daily purchase and its settlement
        PilotProofs            of these three
      SubscriptionContract     abstract: opened, closed once, invoiced once
      BiweeklySubscription     monitor cycles, requests, resolver
        BiweeklyProperties     properties; SubscriptionContract by refinement
          BiweeklyProofs
      LegacyProtection         a one-day protection after activation
        LegacyProtectionProofs

    Collar API
      CoverageLedger           coverages, their ledger, files and audit log
        CoverageLedgerProofs
      HedgeBook                hedge ledger, file, cooldowns, venue account
        HedgeBookProofs

    SumTheorems                sums over finite sets, for the proofs
    MC<module>                 for TLC

`MCPositionLifecycle` extends the invariant's module and `MCBiweekly` the proofs
module, so that the invariant that is proved is the one that is model-checked.
Every module with an ASSUME is extended by an MC module, and TLC evaluates it.

### How the modules correspond to the code

*A handler is a record.* `opening[p]` is the request that opens `p`,
`task[h]` a detector cycle or a close request, `tick[m]` a manager tick,
`job[h]` a monitor cycle, an HTTP request or a timer's pass, `req[q]` an
activate or admin request, `pass[j]` a treasury pass. Its `pc` (or `at`) says
which statement comes next, the other fields are the local variables that
survive an `await`. A snapshot the code reads and uses later (`todo`, `legs`,
`cand`, `seen`) is a field too: that is where the stale reads live.

*A step is one statement.* SQL statements are operators with the statement's
name (`MarkPositionTriggered`, `RepurposeHedgeLeg`) and the WHERE clause as
their condition; a statement that matches no row changes nothing. Where the
code ignores the row count, so does the model. A throw is the disjunct with
`Fault`, which goes where the code's `catch` goes; best-effort statements go
on. A purely local computation is part of the step that consumes it.

*A process is any number of handlers.* `setInterval` and `setTimeout` start a
cycle whether or not the last one ended, so `Cycles`, `Managers` and
`Resolvers` are sets: how many may be under way at once. `Restart` forgets all
local state and no row.

*Data is abstracted.* A leg is named by the position it was bought for and its
kind. Which barrier a price touches, which listed leg is near enough to be
netted, which take-profit rule fires, whether an expiry is in the money: each
is a choice the model leaves open. A premium, a hedge, a payout cost one unit;
the pool counts in quarters of one, since it pays out quarters. Time in the
biweekly model is in ticks, `DayTicks` to the day; `Treasury` and `CapitalPool`
count days; `LegacyProtection` tells live, about to expire and past.

*History variables* (`raced`, `misflagged`, `soldFor`, `orphans`, `quiet`, `openedAt`,
`underHalt`,
`crossed`, `unsaid`, `blurred`, `gone`, `disputed`, `repaired`, `distributed`,
`shortened`, `paidTo`, `granted`, `uncharged`, `apart`, `orderedAt`)
record what the code only logs or what a property has to remember. No guard of
the program reads them. Several properties have the form "the books agree, or
one of these named things has happened": `crossed` and its like say which
overlap, `unsaid` and its like which failure, so that the property fails as
soon as the books disagree for any other reason.

What is particular to one module:

- `Admission`: a request reads cell, today's positions, the pair's last one,
  fingerprint and metrics, each in a step of its own, and decides in the step of
  the insert. Halt and surge pause are variables a restart resets; the tables
  are not. The database's connections are not counted. A request names no
  fingerprint if it likes to (`volumeCoverRoutes.ts:184`), and the layers are then
  not asked (`:437`); nor of one with the bypass header, whose opening is recorded
  all the same (`:555`).
- `PilotActivation`: the one-day request holds a client of the pool while its
  later statements each take another; `quoteLock` and `usageLock` are the row
  locks of its transaction, and a rollback undoes exactly its writes. The
  biweekly request has no transaction.
- `LegacyProtection`: the monitor's list has no expiry filter, a triggered row
  never gets an expiry price, a renewal overwrites whatever status the row has
  by then, and a row `awaiting_expiry_price` whose price is already set is listed by
  nobody: all as in the code. `metadata` is left out.
- `Treasury`: `last_cycle_date` is a DATE read back as a JavaScript `Date` and
  cut to ten characters ("Thu Jan 01"), which never equals an ISO day: the check
  on it never holds, so only the row of the day and the lock protect a day.
- `CapitalPool`: the ledger is kept as its daily sums, the only thing read.
- `CoverageLedger`: there is no database, so a handler runs undisturbed from one
  `await` to the next and a step is what it does in between. A write takes its
  copy when it is asked for and lands later (`SavesLedger`, `EndSaveLedger`);
  one that is cut off by a stop leaves a file that cannot be parsed and is not
  loaded. A process serves requests before it has read its files, and lays what
  it read over what they left (`TakeActive`, `TakeLedger`). An export may name no
  end, or one that has passed, and list no positions; an order may name no tier.
- `HedgeBook`: `held` is the account, `book` what the program believes. Whether
  orders go to Deribit itself or to its paper mode is chosen once, in `Init`. An
  order that timed out is sent again, at most `Attempts` times, whether or not
  the venue took it.

## 3. What the runs check

Every bound is a constant of a `.cfg`: `Horizon`, `LastDay` and `MaxTime` cap
the clock, `MaxFaults` and `MaxIncidents` the failures and restarts, `MaxHops`
is the cap the code itself has; each set of handlers bounds how many are in
flight, not how many ever run (an idle one starts again), except the activate
requests, which are sent once each.

| Run | Instance | Shows |
|---|---|---|
| `VC_overlap` | 3 positions, 2 cycles, 1 close, 1 fault, within `Scope` | billing per handler, terminality, direction, payout; legs re-pointed between positions: one active owner, hops counted and capped, release and accounting; the inductive invariant |
| `VC_managers` | 2 positions, 1 cycle, 2 ticks, 1 fault, within `Scope` | an open row is a held contract, nothing is sold short by one loop, each loop books a leg once, proceeds are backed by sales |
| `AD_overlap` | 3 requests, at most 2 under way, 2 cells, 2 pairs, 1 fingerprint, time up to 2, 1 trigger, 1 incident, within `Scope` | one open position per pair, the daily cap, the cooldowns and the surcharge, the repeat window of a cell, the halt and the pause |
| `BW_overlap` | 1 subscription, 2 cycles, 1 request, 2 days, 1 fault | refinement of the contract, one payout, a triggered close is paid; the inductive invariant |
| `BW_settles` | 1 subscription, 1 cycle, 1 request, 1 resolver, 2 days of 2 ticks, grace 1, 1 fault | no day billed ahead; tenor and schedule are honoured in the end |
| `PA_overlap` | 3 requests, 3 one-day and 1 biweekly quotes, 2 connections, caps 2, 1 and 1, 1 incident | a quote buys once, capacity and hedges are accounted for, by how much caps are overrun |
| `LP_overlap` | 2 rows, 2 passes or requests, 1 incident | renewals, sales of the hedge and payout entries of a one-day protection |
| `TR_overlap` | 2 protections, 2 passes, 2 days, 1 incident | the day's purchase, the lock and the totals |
| `CL_overlap` | 1 coverage with 2 positions, 2 requests or passes, time up to 2, 2 fees, 2 credits, an end at 2 or none named, 1 incident, within `Scope` | activation, revenue and credits, the end of a coverage, the files |
| `HB_overlap` | 1 option, 2 requests or ticks, size 2, 2 attempts, cooldown 1, time up to 1, 1 incident, within `Scope` | account, book and file, reductions, the cooldown |
| `SE_overlap` | 2 runs, 2 requests, lockup 1, 2 days, 3 entries, 1 incident | a run is distributed once |
| `SE_withdraw` | 1 request, lockup 2, 3 days, no incident | expects a violation: section 7 |

Why the bounds are enough. Handlers meet only on the rows of one position or
subscription, so one of each, worked on by every kind of actor, shows each
race between two actors; what crosses positions is netting, and needs one
position to give up a leg, one to take it and one to compete: `VC_overlap` has
three. The `CONSTRAINT Scope` of the two volume-cover runs keeps them small by
following families of behaviours from one initial state: everything
(cycles, failures, restarts) over a single position; without failures, the
openings and closes of all positions (in `VC_managers`, with one tick at a
time); and in `VC_overlap`, until a position ends, two openings with every
handler on one of them. What is cut is a failure or a second loop in the middle
of a ladder of positions; the theorems of section 5 hold there as well. Two overlapping cycles are the least that overlap; three add
interleavings of the same pairs. Three activate requests are what it takes to
exceed an aggregate cap of one by overlap, roll one reservation back and leave a
third to be admitted on what is left; two connections are the least with which
a request that holds one can proceed at all, and with which two requests can hold
them all, so that each one's next statement times out.
Coverages do not meet, so `CL_overlap` has one; two positions are what it takes
for a pass to overwrite its own credit, two fees for an activation to be
collected twice. Its `Scope` follows, without failures, coverages that collect a
second fee or are credited, not both; with one, those that do neither and name
end and positions; and after a restart one handler at a time. That of `HB_overlap` follows two handlers on a
paper venue, without failures and as long as every fill is booked, and one at a
time otherwise. Size 2 lets a fill be partial; `MaxApart` is what the two
attempts of one order can take of that size. Only Layer 1 looks at a cell: the
`Scope` of `AD_overlap` follows two requests for one cell beside triggers, closes,
the operator and a restart, and without these two cells and the three requests it
takes to open one, the other and the first again, until a repeat is refused.
A second row of a one-day protection is its renewal; a second treasury day
shows a lock or a total left over from the first. One fault separates every
pair of consecutive statements, which is where partial failures bite; what
several do together is left to the theorems. Two days with two ticks and one tick of grace
put a request before, in and after the grace of a boundary and past the tenor.
`Alike` permutes handlers of one kind and, where they have no order, positions;
no liveness run uses it.

`CHECK_DEADLOCK FALSE` in the `VC`, `AD`, `LP`, `TR`, `SE`, `CL` and `HB` runs: with the
incidents spent and the clock at its bound there is nothing left to do. The
biweekly and activation runs check it: there, a state without a successor is
one in which `AllOver` does not hold, a handler that waits for ever.

Properties are stated next to the model they are about (`BiweeklyProperties`
for the biweekly one). Where a property holds only short of failures it says
`faults = 0 =>`, and the hazards in `PROJECT.json` note what the
code does with one.

### Reachability of the interesting cases

Every property has a mutant: a definition of the model changed as a plausible
bug would change the code (a WHERE clause dropped, a best-effort statement
where the code aborts, an off-by-one at a boundary), under which TLC finds the
property violated in the same instance. Mutants stand beside the definitions
they change, marked `Mutant:` (or `(fault)`); no specification uses them.

## 4. Fairness

Only `BiweeklySubscription!FairSpec` has any: weak fairness of each monitor
cycle's steps and of `Tick`. The timer is armed once when the process starts
and stays so for its life, a cycle has no step that waits for another handler,
and a statement returns or throws; a faulty one throws at most `MaxFaults`
times. Nothing is asked of traders, of admins or of the resolver, which may
stop half-way for good. Fairness is on a cycle's whole next-state, never on
one branch of it, so it forces neither a trigger nor a successful statement.

## 5. What is proved

Every safety property of every passing run is a theorem: it holds for any
number of positions, subscriptions, handlers, days, failures and restarts, not
only in the instance TLC explores. The theorems rest on the ASSUMEs of the
modules and on nothing else: sets of handlers of different kinds are disjoint,
the marker for "no position" is not a position, there are cells and pairs, the
numeric constants are naturals with at least one tick to a day and one day to a
tenor, and, where something is counted or summed over handlers, that they are
finitely many (`Managers`, `Jobs`, `Passes`, `Requests`). No theorem has a
hypothesis of its own.

No property is inductive as it stands: it speaks of the rows and not of the
handlers about to write them. Each proof has an invariant that says, for every
place of a handler, what its reads still mean there; layers of lemmas give the
shapes a step can have, and every action is an instance of one or a few.

**VolumeCoverProofs.** Invariants in `PositionLifecycleInvariant`.

- `LifecycleInvariant` (`LifecycleInv`) says where each handler stands relative
  to the row: one behind the statement that ended a position works on an ended
  one, holds no count for it yet, and has it in no list; rows move only forward
  (`RowsAdvance`). From it follow `BilledOnce` (`OncePerHandler`), `BilledEnded`
  (`BilledIsTerminal`) and `DirectionIsFinal` (`DirectionFixed`).
- `PositionInvariant` (`PositionInv`) adds the legs. An opening's lists are
  disjoint and together cover each kind (`OpeningOK`); a leg's row and contract
  follow the opening it was bought for (`LegOK`, `LegSound`); its hops are the
  number of openings that took it over (`HopsOK`); a position nobody has begun
  to end keeps what it owns (`Keeps`), one that is ending has no leg open but
  those on its handlers' lists (`Released`); the payout of a direction is written
  or has a writer (`PaidInv`). From it follow `LegsAccounted`
  (`VenueLegAccounted`), `EndedIsReleased` (`LegsReleased`), `HopsCounted`
  (`HopsCountClaims`), `ActiveHedged` (`ActiveIsHedged`) and `TriggerIsPaid`
  (`TriggeredIsPaid`).
- `RuntimeInvariant` (`RuntimeInv`) is about everything interleaved with the
  manager's ticks (`RuntimeSpec`): once a leg has a row, each sale of it has its
  seller (`LegHeld`); rows never reappear, so a tick books each leg once
  (`TickOK`). `SalvageBacked` is the hard one: ticks overwrite each other's sum,
  so neither the sum in the row nor what a tick read of it only grows. `BackedBy`
  has a bound h that both stay below, row by row, and whose total with the sales
  still to be entered stays within the sales made. From it follow
  `SaleBookedOnce` (`BookedOncePerTick`), `OpenIsHeld` (`OpenRowIsHeld`),
  `ShortByOverlap` (`ShortOnlyByOverlap`) and `ProceedsBacked` (`ManagerInv`).

**AdmissionProofs.** `IAdmission` follows six reads, each behind an await, to the
insert that rests on them. What a request read of a pair, of a day's count, of a
fingerprint or of a pause is bounded by what the tables say when it inserts,
because tables and clock only move on (`WorldMoves`). From it follow
`OneOpeningPerPair` (`OpenedOncePerPair`), `CapHoldsForArrivals`
(`ThrottleExceededOnlyByOverlap`), `StopsAreHeld` (`AdmissionInv`),
`CooldownsAreHeld` (`CooldownsHold`) and `RepeatsAreSpaced` (`RepeatsSpaced`). The
row of a fingerprint is overwritten while requests that read it are under way:
`PrintInv` says that what is in it now bars at least as long as all that was ever
written to it, for the layers that look at no cell, and that it names the cell the
fingerprint was last recorded opening; `BotInv` and `RepeatInv` carry both through
the awaits of a request, so that a cell is out of the row only behind a later
opening of another.

**BiweeklyProofs.** `BiweeklyInv` relates three things: what a row says of its
ledgers (`RowInv`), what the rows say when a handler is at a given statement
(`JobInv`), and that no two handlers are owed the same ledger row (`Claim`). A
handler gets a claim by winning a guarded UPDATE and loses it by writing the
row or by failing; the guard (`closed_at IS NULL`, `status = 'active'`) is
false from then on. That is why the best-effort inserts behind it need no guard
of their own. From the invariant follow `BiweeklyTypeCorrect`, `PaidOnce`
(`TriggerPaidOnce`), `TriggerPaid` (`TriggerCloseIsPaid`) and the refinement
`ClosesImplementContract` (`Spec => BilledOnce`): activation opens, the closing
UPDATE closes, the settlement insert invoices, every other step of every handler
is a stutter. `BilledBehind` (`NotBilledAhead`) has `BillInv`: a close that counts
days bills an instant that has passed or the end of a day that has begun; the
lemmas on `CeilDiv`, grace and clamp say that rounding up adds less than a day.

**PilotProofs.** Three modules that share the sums.

- Activation. `LocalInv` says, request by request, what its place implies about
  its row, its quote, its order and its books; `LocksInv` that a lock names the
  one request whose transaction is under way; `CapsInv` bounds reservations. From
  them follow `HedgesAccounted` and `CapsBounded`. `CapacityProtected` rests on
  `Balanced`: the committed use of the day is the number of requests that
  reserved and have not released. `QuotesBuyOnce` rests on `BuyInv`: of two
  requests on one one-day quote at most one is past the lock.
- Pool. `PoolIsSound` (`PoolInv`) counts entries written plus requests about to
  set the status (`CountInv`), and shows that whatever the days of a period come
  to, a draft distributes a natural number.
- Treasury. `TreasuryIsAccounted` follows a purchase from the order to the row
  of the day, and a later cycle from its start to its own insert (`DayInv`); the
  totals are the numbers of rows and of triggers unless an overlap or a failure
  is named (`TotalsKept`).

**LegacyProtectionProofs.** Three invariants over one shape of handlers
(`ShapeInv`). `RenewalsAccounted` (`ProtectionInv`): no two handlers have inserted
the same row, and a renewed row is not listed again unless its renewal is under
way or failed. `HedgesSoldOnce` (`HedgeSoldOnce`): a handler that lists a hedge
again does so after a failure that is named. `PayoutsAccounted`
(`PayoutAccounted`): a row no handler crossed has one claim, in the ledger or
about to be entered (`ClaimedOnce`).

**CoverageLedgerProofs.** `CoverageSound` (`CoverageInv`). `EndHonoured` says of
the entry in memory that an expired coverage is over, but a restart replaces the
entry by the file, and the file is what some handler had copied. `LedgerInv`
says the same of the file, of what is being loaded and of every copy under way
(`BooksSound`, `Sound`), and that an entry carries the latest end the coverage
was given once the files are loaded (`EndInv`). `LedgerIsAccounted`
(`LedgerAccounted`) and `FilesAreKept` (`FilesKept`) have `BooksInv`: which step
follows which save (`FlowInv`), what is in the file while the maps are not yet
loaded (`LivesInv`, `EntriesInv`), and the sum over handlers of what is collected
and not yet booked.

**HedgeBookProofs.** `IInv`: the account is the book, what nobody books and the
sum over handlers of what is about to be booked (`Accounted`); a decreasing tick
has no more in hand than is booked (`AllInHand`); the cooldown is as late as the
last order or a tick is about to start it (`Cooled`). From it follow `BookAgrees`
(`BookInv`) and `OrdersAreSpaced` (`SpacedByCooldown`).

**SumTheorems.** What a sum over a finite set does when a term or a member
changes. The library's induction theorems cannot be used (their hypothesis is
an operator), so the lemmas take a minimal counterexample among the subsets of
the set (`MinimalSubset`) instead.

## 6. Only model-checked

- Liveness (`ExpiredIsClosed`, `ScheduleIsSettled`): the prover has no fairness
  and no ENABLED.
- The counterexample of `SE_withdraw` is TLC's by nature.

TLC checks `LifecycleInv` and `BiweeklyInv` in their runs. `PositionInv`,
`RuntimeInv`, `IAdmission`, `BillInv`, `TreasuryInv`, `BooksInv`, `IInv` and the three of
`LegacyProtection` hold on the instances of their modules' runs too, but no run
lists them: beside the properties that follow from them they ask nothing new
of the code.

## 7. Where code and comments disagree

`SE_withdraw` expects a violation. The view in `capitalPoolSchema.ts:149` calls
withdrawable what is older than the lockup and does not subtract what has been
withdrawn since. The route compares an amount with that limit alone, and with the
current balance only when the lockup is waived (`routes.ts:2236-2239`), so until a
withdrawal is itself older than the lockup the same deposit is withdrawn again,
also when nothing is left in the pool. The column `withdrawal_lockup_days` (`:38`),
which a comment above it calls tunable, is not read by the view.

Other comments the code does not keep, which the models show and the properties
are worded around:

- `triggerDetector.ts:14`, "Only fires once per position". Two overlapping
  cycles both pay: the poll loop does not await a cycle, and `fireTrigger`
  ignores the row count of `markPositionTriggered`. What holds is
  `OncePerHandler`.
- `positionLifecycle.ts:165`, the hedge manager will dispose of the legs of a
  failed opening. A re-pointed leg is left open and unretained, and the manager
  lists retained legs only.
- `volumeCoverHedgeManager.ts:4`, it manages retained legs. A leg re-pointed
  after the tick listed it is sold from the list.
- `volumeCoverDb.ts:1028`, there is no race between the SELECT and the UPDATE.
  Two ticks lose an increment. What holds is `SalvageBacked` (in `ManagerInv`).
- `db.ts:869`, a withdrawn close leaves the protection active. A sweep that
  listed it before closes it.
- `volumeCoverDb.ts:648`, `markHedgeLegRetained` looks at the leg's status, not at
  its owner: a handler flags from its list a leg that another position has taken
  over since. `ActiveIsHedged` names these legs (`misflagged`).
- `antiBot.ts:6-8`: "same fingerprint may not open the same cell more
  than once within VC_ANTIBOT_LAYER1_WINDOW_MIN minutes". The row of a fingerprint
  remembers the last cell only (`:155`), so cell A, cell B and A again is let
  through once the cooldown of B is over; the shipped matrix has six cells, the
  default window is an hour and the cooldown one to six minutes (`:44-49`). Any
  opening of B will do, also one with the bypass header. What holds for any number
  of cells is `RepeatsSpaced`, and of the layers that look at no cell
  `CooldownsHold`.
- `routes.ts:4418-4420`, two concurrent activations cannot both pass the
  budget check. They can: `CapsExceededOnlyByOverlap` says by how much. The
  aggregate cap does not count `reconcile_pending` rows (`db.ts:1221`), and the
  guard's `catch` (`routes.ts:4498-4511`) lets the request through.
- `settlementRunner.ts:156`, approval is idempotent. Two approvals that both
  read `draft` both write a distribution; and two drafts of one period can both
  be paid.
- `hedgeManager.ts:509-510`, a "single-writer guarantee" because a cycle holds the
  active rows exclusively. Nothing holds them: a pass that overlaps it reads and
  writes them meanwhile, and `HedgeSoldOnce` names the overlap.
- `volumeCoverGuardrails.ts:35-37` does say that a restart resets the halt;
  `StopsHold` (in `AdmissionInv`) is worded so.

What the collar API does that no comment speaks of, and that its properties name
as the exceptions:

- An export that names no end, or one that has passed, is not told from a first
  one, whether or not the coverage is live: the log is asked only when an end is
  named, and heard only when that end is to come (`server.ts:7723`, `:7735-7736`),
  while the fee is collected in any case (`:7776`). One that overlaps the first is
  collected too, the entry that would tell is behind four awaits (`:7724`). An
  export without an end or without positions is in the ledger and not in the map
  of live coverages (`:7768`). An activation of an expired coverage leaves the entry
  `expired`.
- A renewal moves the end in the ledger and not in the map of live coverages, so
  a listing expires the renewed coverage by its old end (`:1925`).
- The fee of an order goes into the ledger whatever the venue answered
  (`:3579-3583`), and into revenue only when it was executed and the order names
  its tier (`:3681`).
- A pass writes a credit from the total it read before its awaits, also from
  before its own credit for another position (`:1070`).
- A live answer from Deribit carries no status at the level the callers read, so
  no live fill is booked; nor are those of renewals; and an order that failed is
  replaced by a simulated fill, which is (`BookAccounted` names them all).

## 8. What the models leave out

Of the modelled parts: take-profit labels (`tp_state`) and telemetry written
by a tick, dollar amounts, activation and audit events, the biweekly
`hedge_retained_for_platform` flag, the choice of
strikes, expiries and venues, and ends of coverages that are no dates. The snapshot row of a price is one statement with
the ledger row behind it: both abort the cycle alike. A failed-over venue order
is one step.

Not modelled at all:

- **Pricing, regimes, cells and quantiles**: real-number arithmetic without
  state of its own.
- **Venue adapters and the broker bridge**: the models take an order to fill, be
  rejected, throw, or fill after the caller has given up; how a venue comes to
  one of these is I/O against a third party.
- **The rest of the collar API** (`server.ts`): quoting and its caches, locks of
  quotes (which nothing consumes), the risk summary, the choice among the plans
  of a tick and its analytics, the legs of a coverage and its mark-to-market
  figures: prices and margins, in real numbers, over state the modelled handlers
  own. The hedging library computes what a tick then does, `scheduler.ts` whether
  a renewal is due.
- **Circuit breaker and throttle store**: in memory. After its cooldown the
  breaker resets without clearing the history it judges by
  (`circuitBreaker.ts`), so it trips again while the peak is in the window.
- **Reports, market-data caches, web applications, scripts**: no protocol of
  their own.

## 9. Plan

1. Composition of `PilotActivation` with `LegacyProtection` and
   `BiweeklySubscription` over one table of protections, and its theorems: what
   one module assumes of a row the other has inserted.
2. An abstract ledger (charged, then booked, each once) that the hedge manager
   and the one-day protection implement short of the named overlaps, as
   `SubscriptionContract` is for the biweekly one.
3. The weekly reconciler: days per week as a pure function against the days of
   the whole span.
