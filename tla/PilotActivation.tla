--------------------------- MODULE PilotActivation ---------------------------
(***************************************************************************)
(* POST /pilot/protections/activate (pilot/routes.ts) with the biweekly     *)
(* branch it dispatches to (biweeklyActivate.ts) and the SQL they share     *)
(* (pilot/db.ts): how a quote becomes a hedge bought at the venue, a row of *)
(* pilot_protections and what the trader owes for it.                       *)
(*                                                                          *)
(* The one-day path takes a database client for the whole request.  On it,  *)
(* it runs a transaction that locks the quote, checks the caps, reserves    *)
(* capacity of the day, inserts the row and consumes the quote; after the   *)
(* commit it executes at the venue and records the outcome with statements  *)
(* that each take another client of the same pool.  The biweekly path has   *)
(* no transaction: it checks, executes, then inserts and consumes.          *)
(*                                                                          *)
(* A request protects one unit of notional and its hedge costs one unit.    *)
(* All of it happens within one day, so the daily windows never roll.       *)
(***************************************************************************)
EXTENDS Integers, FiniteSets

CONSTANTS
  Requests,        \* activate requests, each of them sent once
  OneDayQuotes,    \* stored quotes of the one-day product
  BiweeklyQuotes,  \* stored quotes of the biweekly product
  Connections,     \* max of the database pool
  DailyCap,        \* maxDailyProtectedNotionalUsdc
  AggregateCap,    \* maxAggregateActiveNotionalUsdc
  HedgeCap,        \* hedge budget of the pilot day
  MaxIncidents     \* bound on failed statements, restarts and repairs

NoQuote  == "no quote"
NoHolder == "nobody"

ASSUME QuotesAssumption ==
  /\ OneDayQuotes \cap BiweeklyQuotes = {}
  /\ NoQuote \notin OneDayQuotes \cup BiweeklyQuotes
ASSUME HolderAssumption == NoHolder \notin Requests
ASSUME LimitsAssumption ==
  /\ {DailyCap, AggregateCap, HedgeCap, MaxIncidents} \subseteq Nat
  /\ Connections \in Nat \ {0}
ASSUME RequestsAssumption == IsFiniteSet(Requests)

VARIABLES
  row,        \* status of the protection a request inserted
  consumer,   \* consumed_by_protection_id of a quote
  used,       \* used_notional of pilot_daily_usage, as committed
  quoteLock,  \* request whose transaction locks a quote row
  usageLock,  \* request whose transaction locks the usage row
  req,        \* local state of the handlers
  order,      \* what the venue did with the order of a request
  executions, \* protections with a pilot_venue_executions row
  due,        \* protections with a premium_due ledger row
  pooled,     \* protections with premium_in and hedge_buy_out pool rows
  hydrated,   \* protections whose instrument_id is set
  repaired,   \* history: protections an admin reconciled
  incidents

books == <<executions, due, pooled>>
locks == <<quoteLock, usageLock>>
vars  == <<row, consumer, used, locks, req, order, books, hydrated, repaired, incidents>>

Quotes == OneDayQuotes \cup BiweeklyQuotes

RowStatus == {"absent", "pending_activation", "active", "reconcile_pending",
              "activation_failed", "ended"}

\* statuses sumActiveProtectionNotional adds up
OpenStatus == {"pending_activation", "active"}

OrderStatus == {"none", "working", "filled", "rejected"}

TxPc   == {"lock", "budget", "aggregate", "reserve", "insert"}
FillPc == {"check", "execution", "due", "activate", "book"}
OneDayPc   == TxPc \cup FillPc \cup {"price", "execute", "release", "fail", "reconcile"}
BiweeklyPc == {"lookup", "count", "bi budget", "bi execute", "bi insert",
               "bi execution", "bi hydrate", "bi consume"}
OverPc == {"done", "lost"}
Pc     == {"idle"} \cup OneDayPc \cup BiweeklyPc \cup OverPc

Unsent == [pc       |-> "idle",
           quote    |-> NoQuote,
           reserved |-> FALSE,  \* capReserved
           released |-> FALSE,  \* capReleased
           gaveUp   |-> FALSE,  \* history: a statement failed that nothing makes up for
           late     |-> FALSE,  \* history: answered while its order was working
           during   |-> {},     \* history: requests under way with it
           open     |-> {},     \* history: rows open ever since it was sent
           spent    |-> {},     \* history: executions recorded when it was sent
           rows     |-> {}]     \* history: rows there when it was sent, if counted

Handler == [pc : Pc, quote : Quotes \cup {NoQuote}, reserved : BOOLEAN, released : BOOLEAN,
            gaveUp : BOOLEAN, late : BOOLEAN,
            during : SUBSET Requests, open : SUBSET Requests,
            spent : SUBSET Requests, rows : SUBSET Requests]

Init ==
  /\ row = [r \in Requests |-> "absent"]
  /\ consumer = [q \in Quotes |-> NoHolder]
  /\ used = 0
  /\ quoteLock = [q \in Quotes |-> NoHolder]
  /\ usageLock = NoHolder
  /\ req = [r \in Requests |-> Unsent]
  /\ order = [r \in Requests |-> "none"]
  /\ executions = {}
  /\ due = {}
  /\ pooled = {}
  /\ hydrated = {}
  /\ repaired = {}
  /\ incidents = 0

OneDay(r)   == req[r].quote \in OneDayQuotes
Biweekly(r) == req[r].quote \in BiweeklyQuotes
UnderWay(r) == req[r].pc \notin {"idle"} \cup OverPc
Open        == {r \in Requests : row[r] \in OpenStatus}
Stored      == {r \in Requests : row[r] # "absent"}

At(r, pc)   == req[r].pc = pc

\* The handler of r goes on at pc; what it noted when it was sent is kept
\* only while it can still matter.
MovedTo(r, pc) ==
  IF pc \in OverPc
  THEN [req[r] EXCEPT !.pc = pc, !.during = {}, !.open = {}, !.spent = {}, !.rows = {}]
  ELSE [req[r] EXCEPT !.pc = pc]

GoTo(r, pc) == req' = [req EXCEPT ![r] = MovedTo(r, pc)]

\* A statement of r fails that the handler only logs: it goes on at pc.
GiveUp(r, pc) ==
  req' = [req EXCEPT ![r] = [MovedTo(r, pc) EXCEPT !.gaveUp = TRUE]]

\* rows that leave the open statuses were not open ever since
Closing(r, next) ==
  [s \in Requests |-> [next[s] EXCEPT !.open = @ \ {r}]]

(***************************************************************************)
(* The database pool.  A one-day request holds a client from pool.connect() *)
(* to the finally of its handler.                                           *)
(***************************************************************************)
Clients   == {r \in Requests : UnderWay(r) /\ OneDay(r)}
Exhausted == Cardinality(Clients) >= Connections

Incident == /\ incidents < MaxIncidents
            /\ incidents' = incidents + 1

\* A statement on the pool gets a client, or runs into connectionTimeoutMillis
\* because handlers hold them all, or fails.
Served    == ~Exhausted /\ UNCHANGED incidents
NotServed == (Exhausted /\ UNCHANGED incidents) \/ Incident

(***************************************************************************)
(* A request arrives.                                                       *)
(***************************************************************************)
Sent(r, q, pc) ==
  LET others == {s \in Requests : UnderWay(s)} IN
  req' = [s \in Requests |->
            IF s = r
            THEN [Unsent EXCEPT !.pc = pc, !.quote = q, !.during = others,
                                !.open = Open, !.spent = executions, !.rows = Stored]
            ELSE IF s \in others
                 THEN [req[s] EXCEPT !.during = @ \cup {r}]
                 ELSE req[s]]

Arrive(r, q) ==
  /\ At(r, "idle")
  /\ \/ /\ q \in OneDayQuotes
        /\ ~Exhausted
        /\ Sent(r, q, "lock")
     \/ /\ q \in BiweeklyQuotes
        /\ Sent(r, q, "lookup")
  /\ UNCHANGED <<row, consumer, used, locks, order, books, hydrated, repaired, incidents>>

(***************************************************************************)
(* The transaction of the one-day path.  Its statements run on the client   *)
(* the request holds; other transactions see them at its commit.            *)
(***************************************************************************)
UnlockedBy(r) ==
  /\ quoteLock' = [q \in Quotes |-> IF quoteLock[q] = r THEN NoHolder ELSE quoteLock[q]]
  /\ usageLock' = IF usageLock = r THEN NoHolder ELSE usageLock

\* the quote row as it is once its lock is granted
LockQuote(r) ==
  LET q == req[r].quote IN
  /\ At(r, "lock")
  /\ quoteLock[q] = NoHolder
  /\ consumer[q] = NoHolder
  /\ quoteLock' = [quoteLock EXCEPT ![q] = r]
  /\ GoTo(r, "budget")
  /\ UNCHANGED <<row, consumer, used, usageLock, order, books, hydrated, repaired, incidents>>

\* An idempotent replay, quote_not_activatable or quote_already_consumed: the
\* request is answered from the row that consumed the quote.
Replay(r) ==
  LET q == req[r].quote IN
  /\ At(r, "lock")
  /\ quoteLock[q] = NoHolder
  /\ consumer[q] # NoHolder
  /\ GoTo(r, "done")
  /\ UNCHANGED <<row, consumer, used, locks, order, books, hydrated, repaired, incidents>>

\* The quote has expired or does not match the request, or a wave 1 guard or
\* the cap of the tier refuses it: the transaction is rolled back.
Refuse(r) ==
  /\ req[r].pc \in {"lock", "budget", "reserve"}
  /\ At(r, "lock") => quoteLock[req[r].quote] = NoHolder
  /\ GoTo(r, "done")
  /\ UnlockedBy(r)
  /\ UNCHANGED <<row, consumer, used, order, books, hydrated, repaired, incidents>>

\* sumLiveHedgeCostUsdSince counts the executions recorded so far.
WithinBudget == Cardinality(executions) + 1 <= HedgeCap

ReadBudget(r) ==
  /\ At(r, "budget")
  /\ GoTo(r, IF WithinBudget THEN "aggregate" ELSE "done")
  /\ IF WithinBudget THEN UNCHANGED locks ELSE UnlockedBy(r)
  /\ UNCHANGED <<row, consumer, used, order, books, hydrated, repaired, incidents>>

\* (fault) the sum leaves out the rows still to be activated
WithinAggregateOfActive == Cardinality({r \in Requests : row[r] = "active"}) + 1 <= AggregateCap

\* sumActiveProtectionNotional: a plain SELECT under READ COMMITTED, it sees
\* the rows committed so far and locks nothing.
WithinAggregate == Cardinality(Open) + 1 <= AggregateCap

ReadAggregate(r) ==
  /\ At(r, "aggregate")
  /\ GoTo(r, IF WithinAggregate THEN "reserve" ELSE "done")
  /\ IF WithinAggregate THEN UNCHANGED locks ELSE UnlockedBy(r)
  /\ UNCHANGED <<row, consumer, used, order, books, hydrated, repaired, incidents>>

\* (fault) the usage is read, compared and written back by two statements
ReserveByReading(r) ==
  /\ At(r, "reserve")
  /\ used + 1 <= DailyCap
  /\ req' = [req EXCEPT ![r].pc = "insert", ![r].reserved = TRUE]
  /\ UNCHANGED <<row, consumer, used, locks, order, books, hydrated, repaired, incidents>>

\* reserveDailyActivationCapacity: one UPDATE that waits for the usage row and
\* tests the cap on what it then holds.
ReserveCapacity(r) ==
  /\ At(r, "reserve")
  /\ usageLock = NoHolder
  /\ used + 1 <= DailyCap
  /\ usageLock' = r
  /\ req' = [req EXCEPT ![r].pc = "insert", ![r].reserved = TRUE]
  /\ UNCHANGED <<row, consumer, used, quoteLock, order, books, hydrated, repaired, incidents>>

CapacityExceeded(r) ==
  /\ At(r, "reserve")
  /\ usageLock = NoHolder
  /\ used + 1 > DailyCap
  /\ GoTo(r, "done")
  /\ UnlockedBy(r)
  /\ UNCHANGED <<row, consumer, used, order, books, hydrated, repaired, incidents>>

\* (fault) the quote is not marked consumed with the insert
InsertOnly(r) ==
  /\ At(r, "insert")
  /\ row' = [row EXCEPT ![r] = "pending_activation"]
  /\ used' = used + 1
  /\ UnlockedBy(r)
  /\ GoTo(r, "price")
  /\ UNCHANGED <<consumer, order, books, hydrated, repaired, incidents>>

\* insertProtection, consumeVenueQuote and COMMIT.  The lock on the quote is
\* what makes consumeVenueQuote find it unconsumed.
InsertAndConsume(r) ==
  /\ At(r, "insert")
  /\ consumer[req[r].quote] = NoHolder
  /\ row' = [row EXCEPT ![r] = "pending_activation"]
  /\ consumer' = [consumer EXCEPT ![req[r].quote] = r]
  /\ used' = used + 1
  /\ UnlockedBy(r)
  /\ GoTo(r, "price")
  /\ UNCHANGED <<order, books, hydrated, repaired, incidents>>

\* A statement of the transaction fails: ROLLBACK, and the catch block gives
\* back what capReserved says was reserved.
TransactionFails(r) ==
  /\ req[r].pc \in TxPc
  /\ Incident
  /\ GoTo(r, IF req[r].reserved THEN "release" ELSE "done")
  /\ UnlockedBy(r)
  /\ UNCHANGED <<row, consumer, used, order, books, hydrated, repaired>>

(***************************************************************************)
(* After the commit.                                                        *)
(***************************************************************************)
\* resolvePriceSnapshot
ReadPrice(r) ==
  /\ At(r, "price")
  /\ \/ GoTo(r, "execute") /\ UNCHANGED incidents
     \/ GoTo(r, "release") /\ Incident
  /\ UNCHANGED <<row, consumer, used, locks, order, books, hydrated, repaired>>

SendOrder(r) ==
  /\ req[r].pc \in {"execute", "bi execute"}
  /\ order[r] = "none"
  /\ order' = [order EXCEPT ![r] = "working"]
  /\ UNCHANGED <<row, consumer, used, locks, req, books, hydrated, repaired, incidents>>

\* venue.execute answers.
AfterOrder(r, outcome) ==
  CASE OneDay(r) /\ outcome = "filled"   -> "check"
    [] OneDay(r) /\ outcome = "rejected" -> "release"
    [] Biweekly(r) /\ outcome = "filled" -> "bi insert"
    [] OTHER                             -> "done"

OrderAnswered(r, outcome) ==
  /\ req[r].pc \in {"execute", "bi execute"}
  /\ order[r] = "working"
  /\ order' = [order EXCEPT ![r] = outcome]
  /\ GoTo(r, AfterOrder(r, outcome))
  /\ UNCHANGED <<row, consumer, used, locks, books, hydrated, repaired, incidents>>

\* withTimeout gives up on the order, or the adapter throws, while the order
\* may still be filled.
OrderTimesOut(r) ==
  /\ req[r].pc \in {"execute", "bi execute"}
  /\ order[r] = "working"
  /\ Incident
  /\ req' = [req EXCEPT ![r] =
       [MovedTo(r, IF OneDay(r) THEN "release" ELSE "done") EXCEPT !.late = TRUE]]
  /\ UNCHANGED <<row, consumer, used, locks, order, books, hydrated, repaired>>

OrderSettlesLate(r, outcome) ==
  /\ req[r].pc \notin {"execute", "bi execute"}
  /\ order[r] = "working"
  /\ order' = [order EXCEPT ![r] = outcome]
  /\ UNCHANGED <<row, consumer, used, locks, req, books, hydrated, repaired, incidents>>

\* full_coverage_not_met, premium_cap_exceeded_post_fill, or the price snapshot
\* that cannot be inserted; else the request goes on.
CheckFill(r) ==
  /\ At(r, "check")
  /\ \/ Served /\ GoTo(r, "execution")
     \/ UNCHANGED incidents /\ GoTo(r, "reconcile")
  /\ UNCHANGED <<row, consumer, used, locks, order, books, hydrated, repaired>>

\* (fault) the catch block treats a filled order it could not record as a failed one
InsertExecutionOrFail(r) ==
  /\ At(r, "execution")
  /\ \/ Served /\ GoTo(r, "due") /\ executions' = executions \cup {r}
     \/ NotServed /\ GoTo(r, "release") /\ UNCHANGED executions
  /\ UNCHANGED <<row, consumer, used, locks, order, due, pooled, hydrated, repaired>>

InsertExecution(r) ==
  /\ At(r, "execution")
  /\ \/ Served /\ GoTo(r, "due") /\ executions' = executions \cup {r}
     \/ NotServed /\ GoTo(r, "reconcile") /\ UNCHANGED executions
  /\ UNCHANGED <<row, consumer, used, locks, order, due, pooled, hydrated, repaired>>

BookPremium(r) ==
  /\ At(r, "due")
  /\ \/ Served /\ GoTo(r, "activate") /\ due' = due \cup {r}
     \/ NotServed /\ GoTo(r, "reconcile") /\ UNCHANGED due
  /\ UNCHANGED <<row, consumer, used, locks, order, executions, pooled, hydrated, repaired>>

\* patchProtection writes the status and the venue fields, whatever the row holds.
Activate(r) ==
  /\ At(r, "activate")
  /\ \/ /\ Served
        /\ GoTo(r, "book")
        /\ row' = [row EXCEPT ![r] = "active"]
        /\ hydrated' = hydrated \cup {r}
     \/ /\ NotServed
        /\ GoTo(r, "reconcile")
        /\ UNCHANGED <<row, hydrated>>
  /\ UNCHANGED <<consumer, used, locks, order, books, repaired>>

\* recordActivationLedgerWrites and recordActivate, both best effort.
BookPool(r) ==
  /\ At(r, "book")
  /\ \/ Served /\ pooled' = pooled \cup {r}
     \/ NotServed /\ UNCHANGED pooled
  /\ GoTo(r, "done")
  /\ UNCHANGED <<row, consumer, used, locks, order, executions, due, hydrated, repaired>>

(***************************************************************************)
(* The catch block, after the order was filled and before.                  *)
(***************************************************************************)
MarkReconcilePending(r) ==
  /\ At(r, "reconcile")
  /\ \/ /\ Served
        /\ row' = [row EXCEPT ![r] = "reconcile_pending"]
        /\ req' = Closing(r, [req EXCEPT ![r] = MovedTo(r, "done")])
     \/ /\ NotServed
        /\ GiveUp(r, "done")
        /\ UNCHANGED row
  /\ UNCHANGED <<consumer, used, locks, order, books, hydrated, repaired>>

\* (fault) the release may take the usage below zero
ReleaseBelowZero(r) ==
  /\ At(r, "release")
  /\ usageLock = NoHolder
  /\ Served
  /\ used' = used - 1
  /\ req' = [req EXCEPT ![r].pc = "fail", ![r].released = TRUE]
  /\ UNCHANGED <<row, consumer, locks, order, books, hydrated, repaired>>

\* releaseDailyActivationCapacity: GREATEST(0, used_notional - 1), which waits
\* for the usage row.
ReleaseCapacity(r) ==
  /\ At(r, "release")
  /\ usageLock = NoHolder
  /\ \/ /\ Served
        /\ used' = IF used = 0 THEN 0 ELSE used - 1
        /\ req' = [req EXCEPT ![r].pc = "fail", ![r].released = TRUE]
     \/ /\ NotServed
        /\ GiveUp(r, "fail")
        /\ UNCHANGED used
  /\ UNCHANGED <<row, consumer, locks, order, books, hydrated, repaired>>

\* The patch names a row that is not there when the insert was rolled back.
MarkFailed(r) ==
  /\ At(r, "fail")
  /\ \/ /\ Served
        /\ row' = [row EXCEPT ![r] = IF @ = "absent" THEN @ ELSE "activation_failed"]
        /\ req' = Closing(r, [req EXCEPT ![r] = MovedTo(r, "done")])
     \/ /\ NotServed
        /\ GiveUp(r, "done")
        /\ UNCHANGED row
  /\ UNCHANGED <<consumer, used, locks, order, books, hydrated, repaired>>

(***************************************************************************)
(* handleBiweeklyActivate: every statement on the pool, no transaction.     *)
(***************************************************************************)
\* lookupBiweeklyQuote reads consumed_at without a lock; an expired or
\* mismatched quote is refused as well.
LookupQuote(r) ==
  /\ At(r, "lookup")
  /\ \/ Served /\ consumer[req[r].quote] = NoHolder /\ GoTo(r, "count")
     \/ UNCHANGED incidents /\ GoTo(r, "done")
  /\ UNCHANGED <<row, consumer, used, locks, order, books, hydrated, repaired>>

\* countActivationsInLast24h counts rows of any status; a query that fails
\* counts as none.
CountActivations(r) ==
  /\ At(r, "count")
  /\ \/ Served /\ GoTo(r, IF Stored = {} THEN "bi budget" ELSE "done")
     \/ NotServed /\ req' = [req EXCEPT ![r].pc = "bi budget", ![r].rows = {}]
  /\ UNCHANGED <<row, consumer, used, locks, order, books, hydrated, repaired>>

ReadBiweeklyBudget(r) ==
  /\ At(r, "bi budget")
  /\ \/ Served /\ GoTo(r, IF WithinBudget THEN "bi execute" ELSE "done")
     \/ NotServed /\ GoTo(r, "done")
  /\ UNCHANGED <<row, consumer, used, locks, order, books, hydrated, repaired>>

InsertBiweekly(r) ==
  /\ At(r, "bi insert")
  /\ \/ Served /\ GoTo(r, "bi execution") /\ row' = [row EXCEPT ![r] = "active"]
     \/ NotServed /\ GiveUp(r, "done") /\ UNCHANGED row
  /\ UNCHANGED <<consumer, used, locks, order, books, hydrated, repaired>>

InsertBiweeklyExecution(r) ==
  /\ At(r, "bi execution")
  /\ \/ Served /\ GoTo(r, "bi hydrate") /\ executions' = executions \cup {r}
     \/ NotServed /\ GiveUp(r, "bi hydrate") /\ UNCHANGED executions
  /\ UNCHANGED <<row, consumer, used, locks, order, due, pooled, hydrated, repaired>>

\* the venue fields, then the subscription_started ledger row of amount 0
HydrateRow(r) ==
  /\ At(r, "bi hydrate")
  /\ \/ Served /\ GoTo(r, "bi consume") /\ hydrated' = hydrated \cup {r}
     \/ NotServed /\ GiveUp(r, "bi consume") /\ UNCHANGED hydrated
  /\ UNCHANGED <<row, consumer, used, locks, order, books, repaired>>

\* an UPDATE that does not ask whether the quote is consumed already
ConsumeAfterwards(r) ==
  /\ At(r, "bi consume")
  /\ \/ Served /\ GoTo(r, "done") /\ consumer' = [consumer EXCEPT ![req[r].quote] = r]
     \/ NotServed /\ GiveUp(r, "done") /\ UNCHANGED consumer
  /\ UNCHANGED <<row, used, locks, order, books, hydrated, repaired>>

(***************************************************************************)
(* Around the handlers.                                                     *)
(***************************************************************************)
\* The protection is over, whoever ends it.  A triggered one still counts as
\* open: "active" stands for triggered, too.
EndProtection(r) ==
  /\ row[r] = "active"
  /\ row' = [row EXCEPT ![r] = "ended"]
  /\ req' = Closing(r, req)
  /\ UNCHANGED <<consumer, used, locks, order, books, hydrated, repaired, incidents>>

\* reconcile-orphan-hedge: an admin who finds a filled order at the venue writes
\* its fields to a row that has none, which makes the row active.
ReconcileOrphan(r) ==
  /\ Incident
  /\ order[r] = "filled"
  /\ row[r] # "absent"
  /\ r \notin hydrated
  /\ row' = [row EXCEPT ![r] = "active"]
  /\ hydrated' = hydrated \cup {r}
  /\ repaired' = repaired \cup {r}
  /\ UNCHANGED <<consumer, used, locks, req, order, books>>

\* The process restarts: handlers are gone, open transactions roll back, and
\* nothing looks for rows left in pending_activation.
Restart ==
  /\ \E r \in Requests : UnderWay(r)
  /\ Incident
  /\ req' = [r \in Requests |-> IF UnderWay(r) THEN MovedTo(r, "lost") ELSE req[r]]
  /\ quoteLock' = [q \in Quotes |-> NoHolder]
  /\ usageLock' = NoHolder
  /\ UNCHANGED <<row, consumer, used, order, books, hydrated, repaired>>

OneDayStep(r) ==
  \/ LockQuote(r) \/ Replay(r) \/ Refuse(r) \/ ReadBudget(r) \/ ReadAggregate(r)
  \/ ReserveCapacity(r) \/ CapacityExceeded(r) \/ InsertAndConsume(r)
  \/ TransactionFails(r) \/ ReadPrice(r)
  \/ CheckFill(r) \/ InsertExecution(r) \/ BookPremium(r) \/ Activate(r)
  \/ BookPool(r) \/ MarkReconcilePending(r) \/ ReleaseCapacity(r) \/ MarkFailed(r)

BiweeklyStep(r) ==
  \/ LookupQuote(r) \/ CountActivations(r) \/ ReadBiweeklyBudget(r)
  \/ InsertBiweekly(r) \/ InsertBiweeklyExecution(r) \/ HydrateRow(r)
  \/ ConsumeAfterwards(r)

VenueStep(r) ==
  \/ SendOrder(r)
  \/ \E outcome \in {"filled", "rejected"} : OrderAnswered(r, outcome)
  \/ OrderTimesOut(r)

HandlerStep(r) == OneDayStep(r) \/ BiweeklyStep(r) \/ VenueStep(r)

\* Every request is answered: nothing else is left without a step, so TLC's
\* search for deadlocks shows that no request waits for ever for a lock.
AllOver ==
  /\ \A r \in Requests : req[r].pc \in OverPc
  /\ UNCHANGED vars

Next ==
  \/ AllOver
  \/ \E r \in Requests, q \in Quotes : Arrive(r, q)
  \/ \E r \in Requests : HandlerStep(r)
  \/ \E r \in Requests, outcome \in {"filled", "rejected"} : OrderSettlesLate(r, outcome)
  \/ \E r \in Requests : EndProtection(r) \/ ReconcileOrphan(r)
  \/ Restart

Spec == Init /\ [][Next]_vars

-----------------------------------------------------------------------------
TypeOK ==
  /\ row \in [Requests -> RowStatus]
  /\ consumer \in [Quotes -> Requests \cup {NoHolder}]
  /\ used \in Nat
  /\ quoteLock \in [Quotes -> Requests \cup {NoHolder}]
  /\ usageLock \in Requests \cup {NoHolder}
  /\ req \in [Requests -> Handler]
  /\ order \in [Requests -> OrderStatus]
  /\ executions \subseteq Requests
  /\ due \subseteq Requests
  /\ pooled \subseteq Requests
  /\ hydrated \subseteq Requests
  /\ repaired \subseteq Requests
  /\ incidents \in 0..MaxIncidents

(***************************************************************************)
(* Safety.                                                                  *)
(***************************************************************************)
\* One quote buys one hedge.  On the one-day path that is the lock and the
\* consumption in one transaction; a biweekly request may buy again only on a
\* quote whose first buyer was still under way when it was sent, or could not
\* record what it bought.
QuoteBuysOnce ==
  \A r, s \in Requests :
    r # s /\ req[r].quote = req[s].quote /\ order[s] = "filled" =>
      /\ OneDay(r) => order[r] \notin {"working", "filled"}
      /\ At(r, "bi execute") =>
           \/ s \in req[r].during
           \/ req[s].gaveUp
           \/ req[s].late
           \/ At(s, "lost")

\* rows that hold a unit of the day's capacity, and requests that gave a unit
\* back although their reservation had been rolled back
Charged == {r \in Stored : OneDay(r) /\ ~req[r].released}
Doubled == {r \in Requests : req[r].released /\ row[r] = "absent"}

\* The committed usage never passes the daily cap, however requests overlap,
\* and it is the number of the rows that still hold capacity, less the units
\* given back twice.  No protection lives on capacity that was given back,
\* unless an admin revived it.
CapacityAccounted ==
  /\ used <= DailyCap
  /\ used <= Cardinality(Charged)
  /\ Cardinality(Charged) <= used + Cardinality(Doubled)
  /\ \A r \in Requests \ repaired :
       row[r] \in {"active", "reconcile_pending", "ended"} => ~req[r].released

\* The aggregate cap and the hedge budget are read before the row is inserted
\* and the execution recorded: they can be exceeded, but only by what was not
\* there yet when the request was sent.  So can the biweekly limit of one
\* activation a day, which a failed count also waives.
CapsExceededOnlyByOverlap ==
  \A r \in Requests :
    /\ At(r, "price") => Cardinality(req[r].open) + 1 <= AggregateCap
    /\ req[r].pc \in {"execute", "bi execute"} => Cardinality(req[r].spent) + 1 <= HedgeCap
    /\ At(r, "bi insert") => req[r].rows = {}

\* A filled order belongs to a live or reconcilable protection, unless it is
\* filled after its request was answered, or the statement fails that would
\* have said so: on the one-day path the marker of the catch block (no failure
\* before it is enough), on the biweekly one the insert.  Who has a one-day
\* protection owes its premium and has its execution on record, and whose
\* activation failed owes nothing.
HedgeAccounted ==
  \A r \in Requests :
    /\ At(r, "done") /\ order[r] = "filled" =>
         \/ row[r] \in {"active", "reconcile_pending", "ended"}
         \/ req[r].late
         \/ req[r].gaveUp
    /\ OneDay(r) /\ row[r] \in {"active", "ended"} /\ r \notin repaired =>
         r \in due \cap executions /\ order[r] = "filled"
    /\ row[r] = "reconcile_pending" => order[r] = "filled"
    /\ row[r] = "activation_failed" => r \notin due /\ (order[r] = "filled" => req[r].late)

=============================================================================
