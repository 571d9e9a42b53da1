--------------------------- MODULE LegacyProtection ---------------------------
(***************************************************************************)
(* The life of a one-day protection of the pilot, once it is active: the    *)
(* trigger monitor (triggerMonitor.ts), auto-renew (autoRenew.ts), the      *)
(* expiry resolver and the routes that cancel, toggle and settle            *)
(* (routes.ts), and the hedge manager (hedgeManager.ts), which all write    *)
(* the same rows of pilot_protections.                                      *)
(*                                                                          *)
(* Every timer is a setInterval whose passes are not awaited, so two of one *)
(* kind may be under way.  A pass lists its rows once and works through the *)
(* list with what it read then.  A job below is one such pass, or one       *)
(* request of an admin.  Prices are choices: whether a floor is breached,   *)
(* how an expiry ends, whether the hedge is worth selling.  metadata is     *)
(* left out: the one guard that reads it, renewedTo, never holds for a row  *)
(* auto-renew lists, since it is written together with the status.          *)
(***************************************************************************)
EXTENDS Integers

CONSTANTS
  Protections,   \* ids of rows, those of renewals and clones included
  Root,          \* the protection that is active at the start
  Ageing,        \* rows whose clock runs: a bound on the days that are followed
  Jobs,          \* passes and requests that may be under way together
  MaxIncidents   \* bound on failures, restarts and decisions of the trader

NoRow == "no row"

ASSUME RootAssumption == Root \in Protections /\ NoRow \notin Protections
ASSUME AgeingAssumption == Ageing \subseteq Protections
ASSUME BoundAssumption == MaxIncidents \in Nat

VARIABLES
  row,      \* pilot_protections
  ledger,   \* number of pilot_ledger_entries of a protection, by kind
  sold,     \* orders filled at the venue that sold the hedge of a row
  job,      \* local state of the passes and requests
  renewed,  \* history: protections a renewal was bought for
  crossed,  \* history: rows written by a job that read another status, or
            \* settled twice by requests that both found no settlement
  unsaid,   \* history: what a failure or a restart left unrecorded
  incidents

vars == <<row, ledger, sold, job, renewed, crossed, unsaid, incidents>>

Status == {"absent", "active", "triggered", "awaiting_expiry_price", "expired_otm",
           "expired_itm", "cancelled", "awaiting_renew_decision"}

HedgeStatus == {"none", "active", "tp_sold", "expired_settled"}

\* payout_due_amount: not set, zero, the credit of a trigger or that of an expiry
Payout == {"none", "zero", "trigger", "itm"}

\* before, within the last half hour and in the two hours after expiry_at: a row
\* is followed until auto-renew no longer looks for it
Phase == {"live", "closing", "past"}

Older(phase) == IF phase = "live" THEN "closing" ELSE "past"

Expired(p) == row[p].phase = "past"

NewRow(status, hedge, hydrated, autoRenew) ==
  [status |-> status, hedge |-> hedge, hydrated |-> hydrated, autoRenew |-> autoRenew,
   payout |-> "none", priced |-> FALSE, phase |-> "live"]

Kinds == {"none", "monitor", "renew", "resolve", "manage", "settle"}

Places == {"idle", "next", "owe", "insert", "hydrate", "premium", "mark",
       "price", "due", "await", "record", "settle"}

Idle == [kind |-> "none",
         at   |-> "idle",
         todo |-> {},        \* rows of the list still to be done
         on   |-> NoRow,     \* the row at hand
         new  |-> NoRow,     \* the row a renewal inserted
         seen |-> "absent",  \* the status the resolver read
         paid |-> 0,         \* settlements the admin request found
         over |-> {}]        \* history: rows done with when the list was read

Init ==
  /\ row = [p \in Protections |->
              IF p = Root THEN NewRow("active", "active", TRUE, TRUE)
                          ELSE NewRow("absent", "none", FALSE, FALSE)]
  /\ ledger = [p \in Protections |->
                 [premium |-> IF p = Root THEN 1 ELSE 0, trigger |-> 0, due |-> 0, settled |-> 0]]
  /\ sold = [p \in Protections |-> 0]
  /\ job = [j \in Jobs |-> Idle]
  /\ renewed = {}
  /\ crossed = {}
  /\ unsaid = {}
  /\ incidents = 0

Fresh == {p \in Protections : row[p].status = "absent"}

Busy(kind, at, p) == \E j \in Jobs : job[j].kind = kind /\ job[j].at \in at /\ job[j].on = p

Incident == /\ incidents < MaxIncidents
            /\ incidents' = incidents + 1

Served == UNCHANGED incidents

(***************************************************************************)
(* A pass starts with its query, and goes from row to row.                  *)
(***************************************************************************)
Start(j, kind, rows, over) ==
  /\ job[j].at = "idle"
  /\ rows # {}
  /\ job' = [job EXCEPT ![j] = [Idle EXCEPT !.kind = kind, !.at = "next",
                                            !.todo = rows, !.over = over \cap rows]]
  /\ UNCHANGED <<row, ledger, sold, renewed, crossed, unsaid, incidents>>

IsAt(j, kind, at) == job[j].kind = kind /\ job[j].at = at

\* j is done with p
Onward(j, p) ==
  IF job[j].todo \subseteq {p}
  THEN Idle
  ELSE [Idle EXCEPT !.kind = job[j].kind, !.at = "next",
                    !.todo = job[j].todo \ {p}, !.over = job[j].over \ {p}]

Goes(j, next) == job' = [job EXCEPT ![j] = next]

\* j works on p and is about to take the step called at
Works(j, p, at) == [job[j] EXCEPT !.on = p, !.at = at]

(***************************************************************************)
(* Trigger monitor.                                                         *)
(***************************************************************************)
\* Nothing asks for the expiry of the row.
ListForTrigger(j) ==
  Start(j, "monitor",
        {p \in Protections : row[p].status = "active" /\ row[p].hydrated}, {})

\* The floor is breached: the row becomes triggered if it still is active.
\* The pool entry and the throttle stamp that follow are best effort.
Trigger(j, p) ==
  /\ IsAt(j, "monitor", "next")
  /\ p \in job[j].todo
  /\ IF row[p].status = "active"
     THEN /\ row' = [row EXCEPT ![p].status = "triggered", ![p].payout = "trigger"]
          /\ Goes(j, Works(j, p, "owe"))
     ELSE /\ Goes(j, Onward(j, p))
          /\ UNCHANGED row
  /\ UNCHANGED <<ledger, sold, renewed, crossed, unsaid, incidents>>

\* The snapshot and the trigger_payout_due entry; an insert that throws ends
\* the whole cycle.
OweTrigger(j) ==
  LET p == job[j].on IN
  /\ IsAt(j, "monitor", "owe")
  /\ \/ /\ Served
        /\ ledger' = [ledger EXCEPT ![p].trigger = @ + 1]
        /\ Goes(j, Onward(j, p))
        /\ UNCHANGED unsaid
     \/ /\ Incident
        /\ Goes(j, Idle)
        /\ unsaid' = unsaid \cup {<<p, "payout">>}
        /\ UNCHANGED ledger
  /\ UNCHANGED <<row, sold, renewed, crossed>>

(***************************************************************************)
(* Auto-renew.                                                              *)
(***************************************************************************)
Renewable(p) ==
  /\ row[p].autoRenew
  /\ \/ row[p].status = "active" /\ row[p].phase \in {"closing", "past"}
     \/ row[p].status = "triggered"

ListForRenewal(j) ==
  Start(j, "renew", {p \in Protections : Renewable(p)},
        {p \in Protections :
           \/ ~row[p].autoRenew
           \/ p \in renewed /\ ~Busy("renew", Places, p)})

\* The hedge of the renewal is bought at today's price.
BuyRenewal(j, p) ==
  /\ IsAt(j, "renew", "next")
  /\ p \in job[j].todo
  /\ renewed' = renewed \cup {p}
  /\ Goes(j, Works(j, p, "insert"))
  /\ UNCHANGED <<row, ledger, sold, crossed, unsaid, incidents>>

\* A statement of a renewal throws: the next row is taken, and nothing says
\* that a hedge was bought.
RenewalThrows(j) ==
  /\ job[j].kind = "renew"
  /\ job[j].at \in {"insert", "hydrate", "premium", "mark"}
  /\ Incident
  /\ unsaid' = unsaid \cup {<<p, "renewal">> : p \in {job[j].on, job[j].new}}
  /\ Goes(j, Onward(j, job[j].on))
  /\ UNCHANGED <<row, ledger, sold, renewed, crossed>>

\* A renewal that finds no id left stops here: the bound on Protections.
InsertRenewal(j, n) ==
  /\ IsAt(j, "renew", "insert")
  /\ n \in Fresh
  /\ row' = [row EXCEPT ![n] = NewRow("active", "active", FALSE, TRUE)]
  /\ Goes(j, [job[j] EXCEPT !.at = "hydrate", !.new = n])
  /\ UNCHANGED <<ledger, sold, renewed, crossed, unsaid, incidents>>

\* entry price, instrument and size: before, neither the monitor nor the hedge
\* manager lists the row
HydrateRenewal(j) ==
  /\ IsAt(j, "renew", "hydrate")
  /\ row' = [row EXCEPT ![job[j].new].hydrated = TRUE]
  /\ Goes(j, [job[j] EXCEPT !.at = "premium"])
  /\ UNCHANGED <<ledger, sold, renewed, crossed, unsaid, incidents>>

\* snapshot, venue execution and premium_due
OwePremium(j) ==
  /\ IsAt(j, "renew", "premium")
  /\ ledger' = [ledger EXCEPT ![job[j].new].premium = @ + 1]
  /\ Goes(j, [job[j] EXCEPT !.at = "mark"])
  /\ UNCHANGED <<row, sold, renewed, crossed, unsaid, incidents>>

\* (fault) the old row is closed only if it still is active
MarkRenewedIfActive(j) ==
  LET p == job[j].on IN
  /\ IsAt(j, "renew", "mark")
  /\ row' = [row EXCEPT ![p].status = IF @ = "active" THEN "expired_otm" ELSE @]
  /\ Goes(j, Onward(j, p))
  /\ UNCHANGED <<ledger, sold, renewed, crossed, unsaid, incidents>>

\* The old row becomes expired_otm whatever it has become meanwhile.
MarkRenewed(j) ==
  LET p == job[j].on IN
  /\ IsAt(j, "renew", "mark")
  /\ row' = [row EXCEPT ![p].status = "expired_otm"]
  /\ Goes(j, Onward(j, p))
  /\ UNCHANGED <<ledger, sold, renewed, crossed, unsaid, incidents>>

(***************************************************************************)
(* Expiry resolver, from its timer and from the admin route.                *)
(***************************************************************************)
ListForExpiry(j) ==
  Start(j, "resolve",
        {p \in Protections : /\ row[p].status \in {"active", "awaiting_expiry_price"}
                             /\ Expired(p)
                             /\ ~row[p].priced}, {})

ResolveByAdmin(j, p) == p \notin Fresh /\ Start(j, "resolve", {p}, {})

\* (fault) whatever has expired is resolved
ReadExpired(j, p) ==
  /\ IsAt(j, "resolve", "next")
  /\ p \in job[j].todo
  /\ Goes(j, IF Expired(p)
             THEN [Works(j, p, "price") EXCEPT !.seen = row[p].status]
             ELSE Onward(j, p))
  /\ UNCHANGED <<row, ledger, sold, renewed, crossed, unsaid, incidents>>

ReadForExpiry(j, p) ==
  /\ IsAt(j, "resolve", "next")
  /\ p \in job[j].todo
  /\ Goes(j, IF row[p].status \in {"active", "awaiting_expiry_price"} /\ Expired(p)
             THEN [Works(j, p, "price") EXCEPT !.seen = row[p].status]
             ELSE Onward(j, p))
  /\ UNCHANGED <<row, ledger, sold, renewed, crossed, unsaid, incidents>>

\* a row written by a job that saw another status in it
CrossedBy(j) == IF row[job[j].on].status = job[j].seen THEN {} ELSE {job[j].on}

\* An expiry price is there and the row is patched, with no guard.
Resolve(j, payout) ==
  LET p == job[j].on
      next == IF payout = "itm" THEN "expired_itm" ELSE "expired_otm"
  IN /\ IsAt(j, "resolve", "price")
     /\ row' = [row EXCEPT ![p].status = next, ![p].priced = TRUE, ![p].payout = payout]
     /\ crossed' = crossed \cup CrossedBy(j)
     /\ Goes(j, IF payout = "itm" THEN [job[j] EXCEPT !.at = "due", !.seen = next]
                                  ELSE Onward(j, p))
     /\ UNCHANGED <<ledger, sold, renewed, unsaid, incidents>>

\* No price, or the ledger insert throws: the catch block comes next.
PriceFails(j) ==
  /\ IsAt(j, "resolve", "price")
  /\ Incident
  /\ Goes(j, Works(j, job[j].on, "await"))
  /\ UNCHANGED <<row, ledger, sold, renewed, crossed, unsaid>>

OweExpiry(j) ==
  LET p == job[j].on IN
  /\ IsAt(j, "resolve", "due")
  /\ \/ Served /\ Goes(j, Onward(j, p)) /\ ledger' = [ledger EXCEPT ![p].due = @ + 1]
     \/ Incident /\ Goes(j, Works(j, p, "await")) /\ UNCHANGED ledger
  /\ UNCHANGED <<row, sold, renewed, crossed, unsaid>>

\* The catch block patches the row too, and its own failure ends the pass.
AwaitPrice(j) ==
  LET p == job[j].on IN
  /\ IsAt(j, "resolve", "await")
  /\ \/ /\ Served
        /\ row' = [row EXCEPT ![p].status = "awaiting_expiry_price"]
        /\ crossed' = crossed \cup CrossedBy(j)
        /\ Goes(j, Onward(j, p))
        /\ UNCHANGED unsaid
     \/ /\ Incident
        /\ unsaid' = unsaid \cup {<<p, "payout">>}
        /\ Goes(j, Idle)
        /\ UNCHANGED <<row, crossed>>
  /\ UNCHANGED <<ledger, sold, renewed>>

(***************************************************************************)
(* Hedge manager.  What it does with a row depends on the status it listed, *)
(* on the clock and on the value of the option.                             *)
(***************************************************************************)
\* rows the pass does something with: one that is expired_otm before its hour, as
\* auto-renew leaves it, is listed and passed over
Managed(p) ==
  \/ row[p].status \in {"triggered", "active"}
  \/ row[p].status \in {"expired_otm", "expired_itm"} /\ Expired(p)

ListHedges(j) ==
  Start(j, "manage",
        {p \in Protections : /\ row[p].hedge = "active"
                             /\ row[p].hydrated
                             /\ Managed(p)},
        {p \in Protections : sold[p] > 0 /\ ~Busy("manage", {"record"}, p)})

\* active_salvage or a take-profit rule: the venue buys the hedge.
SellHedge(j, p) ==
  /\ IsAt(j, "manage", "next")
  /\ p \in job[j].todo
  /\ ~Expired(p)
  /\ sold' = [sold EXCEPT ![p] = @ + 1]
  /\ Goes(j, Works(j, p, "record"))
  /\ UNCHANGED <<row, ledger, renewed, crossed, unsaid, incidents>>

\* (fault) the sale is stamped on the metadata alone
StampSale(j) ==
  /\ IsAt(j, "manage", "record")
  /\ Goes(j, Onward(j, job[j].on))
  /\ UNCHANGED <<row, ledger, sold, renewed, crossed, unsaid, incidents>>

\* updateHedgeStatus.  Its failure, like an answer of the venue that is lost, is
\* taken for a sale that failed.  The pool entry that follows is best effort.
RecordSale(j) ==
  LET p == job[j].on IN
  /\ IsAt(j, "manage", "record")
  /\ Goes(j, Onward(j, p))
  /\ \/ Served /\ row' = [row EXCEPT ![p].hedge = "tp_sold"] /\ UNCHANGED unsaid
     \/ Incident /\ unsaid' = unsaid \cup {<<p, "sale">>} /\ UNCHANGED row
  /\ UNCHANGED <<ledger, sold, renewed, crossed>>

\* markExpiredWithAutopsy
SettleExpiredHedge(j, p) ==
  /\ IsAt(j, "manage", "next")
  /\ p \in job[j].todo
  /\ Expired(p)
  /\ row' = [row EXCEPT ![p].hedge = "expired_settled"]
  /\ Goes(j, Onward(j, p))
  /\ UNCHANGED <<ledger, sold, renewed, crossed, unsaid, incidents>>

\* No price, no breach, no quote, an order that is not filled, no bid, a value
\* not worth a sale, a statement that throws: the row is left as it is.
PassOver(j, p) ==
  /\ job[j].at = "next"
  /\ p \in job[j].todo
  /\ job[j].kind \in {"monitor", "renew", "manage"}
  /\ job[j].kind = "manage" => ~Expired(p)
  /\ Goes(j, Onward(j, p))
  /\ UNCHANGED <<row, ledger, sold, renewed, crossed, unsaid, incidents>>

(***************************************************************************)
(* Requests.                                                                *)
(***************************************************************************)
\* payout-settled: the row has an expiry price and no settlement is found
ReadForSettling(j, p) ==
  /\ job[j].at = "idle"
  /\ row[p].priced
  /\ ledger[p].settled = 0
  /\ Goes(j, [Idle EXCEPT !.kind = "settle", !.at = "settle", !.on = p,
                          !.paid = ledger[p].settled])
  /\ UNCHANGED <<row, ledger, sold, renewed, crossed, unsaid, incidents>>

\* The payout_settled entry.  The columns patched afterwards repeat it.
SettlePayout(j) ==
  LET p == job[j].on IN
  /\ IsAt(j, "settle", "settle")
  /\ Goes(j, Idle)
  /\ \/ /\ Served
        /\ ledger' = [ledger EXCEPT ![p].settled = @ + 1]
        /\ crossed' = crossed \cup (IF ledger[p].settled = job[j].paid THEN {} ELSE {p})
     \/ Incident /\ UNCHANGED <<ledger, crossed>>
  /\ UNCHANGED <<row, sold, renewed, unsaid>>

\* POST auto-renew, guarded by the status in its UPDATE
ToggleAutoRenew(p) ==
  /\ row[p].status = "active"
  /\ Incident
  /\ row' = [row EXCEPT ![p].autoRenew = ~@]
  /\ UNCHANGED <<ledger, sold, job, renewed, crossed, unsaid>>

\* renewal-decision "expire", whatever the status, and "renew"
DecideExpire(p) ==
  /\ p \notin Fresh
  /\ Incident
  /\ row' = [row EXCEPT ![p].status = "cancelled"]
  /\ UNCHANGED <<ledger, sold, job, renewed, crossed, unsaid>>

DecideRenew(p, n) ==
  /\ p \notin Fresh
  /\ n \in Fresh
  /\ Incident
  /\ row' = [row EXCEPT ![n] =
       NewRow("awaiting_renew_decision", "none", FALSE, row[p].autoRenew)]
  /\ UNCHANGED <<ledger, sold, job, renewed, crossed, unsaid>>

(***************************************************************************)
(* The clock, and a restart of the process.                                 *)
(***************************************************************************)
Age(p) ==
  /\ p \in Ageing
  /\ p \notin Fresh
  /\ row[p].phase # "past"
  /\ row' = [row EXCEPT ![p].phase = Older(@)]
  /\ UNCHANGED <<ledger, sold, job, renewed, crossed, unsaid, incidents>>

\* what a job leaves unrecorded when it is gone
Unfinished(j) ==
  CASE job[j].at \in {"insert", "hydrate", "premium", "mark"} ->
         {<<p, "renewal">> : p \in {job[j].on, job[j].new}}
    [] job[j].at = "record" -> {<<job[j].on, "sale">>}
    [] job[j].at \in {"owe", "due", "await"} -> {<<job[j].on, "payout">>}
    [] OTHER -> {}

Restart ==
  /\ \E j \in Jobs : job[j].at # "idle"
  /\ Incident
  /\ job' = [j \in Jobs |-> Idle]
  /\ unsaid' = unsaid \cup UNION {Unfinished(j) : j \in Jobs}
  /\ UNCHANGED <<row, ledger, sold, renewed, crossed>>

PassStarts(j) ==
  \/ ListForTrigger(j) \/ ListForRenewal(j) \/ ListForExpiry(j) \/ ListHedges(j)
  \/ \E p \in Protections : ResolveByAdmin(j, p) \/ ReadForSettling(j, p)

RowStep(j, p) ==
  \/ Trigger(j, p) \/ BuyRenewal(j, p) \/ InsertRenewal(j, p) \/ ReadForExpiry(j, p)
  \/ SellHedge(j, p) \/ SettleExpiredHedge(j, p) \/ PassOver(j, p)

JobStep(j) ==
  \/ OweTrigger(j) \/ RenewalThrows(j) \/ HydrateRenewal(j) \/ OwePremium(j)
  \/ MarkRenewed(j) \/ PriceFails(j) \/ OweExpiry(j) \/ AwaitPrice(j)
  \/ RecordSale(j) \/ SettlePayout(j)
  \/ \E payout \in {"itm", "zero"} : Resolve(j, payout)

Next ==
  \/ \E j \in Jobs : PassStarts(j) \/ JobStep(j) \/ \E p \in Protections : RowStep(j, p)
  \/ \E p \in Protections : ToggleAutoRenew(p) \/ DecideExpire(p) \/ Age(p)
  \/ \E p, n \in Protections : DecideRenew(p, n)
  \/ Restart

Spec == Init /\ [][Next]_vars

-----------------------------------------------------------------------------
TypeOK ==
  /\ row \in [Protections -> [status : Status, hedge : HedgeStatus, hydrated : BOOLEAN,
                              autoRenew : BOOLEAN, payout : Payout, priced : BOOLEAN,
                              phase : Phase]]
  /\ ledger \in [Protections -> [premium : Nat, trigger : Nat, due : Nat, settled : Nat]]
  /\ sold \in [Protections -> Nat]
  /\ job \in [Jobs -> [kind : Kinds, at : Places, todo : SUBSET Protections,
                       on : Protections \cup {NoRow}, new : Protections \cup {NoRow},
                       seen : Status, paid : Nat, over : SUBSET Protections]]
  /\ renewed \subseteq Protections
  /\ crossed \subseteq Protections
  /\ unsaid \subseteq (Protections \cup {NoRow}) \X {"renewal", "sale", "payout"}
  /\ incidents \in 0..MaxIncidents

(***************************************************************************)
(* Safety.                                                                  *)
(***************************************************************************)
\* A renewal is bought for a row whose trader wanted it when the rows were
\* listed, and again for the same row only while the first renewal was under
\* way or after it failed; and the row of a renewal is priced, hedged and owes
\* its premium unless its renewal is under way or failed.
RenewalAccounted ==
  /\ \A j \in Jobs :
       IsAt(j, "renew", "insert") /\ job[j].on \in job[j].over =>
         <<job[j].on, "renewal">> \in unsaid
  /\ \A n \in Protections :
       row[n].hedge # "none" =>
         \/ row[n].hydrated /\ ledger[n].premium = 1
         \/ \E j \in Jobs : job[j].new = n
         \/ <<n, "renewal">> \in unsaid

\* Both: every variable has its shape and renewals are accounted for.
ProtectionInv == TypeOK /\ RenewalAccounted

\* The hedge of a row is sold again only by a pass that listed it before the
\* first sale was recorded, or because recording it failed; what is marked sold
\* was sold.
HedgeSoldOnce ==
  /\ \A j \in Jobs :
       IsAt(j, "manage", "record") /\ job[j].on \in job[j].over =>
         <<job[j].on, "sale">> \in unsaid
  /\ \A p \in Protections :
       /\ row[p].hedge = "tp_sold" => sold[p] > 0
       /\ row[p].hedge = "active" /\ sold[p] > 0 =>
            Busy("manage", {"record"}, p) \/ <<p, "sale">> \in unsaid

\* A triggered row and one that expired in the money owe their payout, and the
\* ledger says so unless the statement failed or is still to come.  A row owes
\* one payout, keeps the amount of its trigger and is settled once, unless a
\* job wrote it after it had changed since it was read.
PayoutAccounted ==
  \A p \in Protections :
    /\ row[p].status = "triggered" =>
         /\ row[p].payout = "trigger"
         /\ \/ ledger[p].trigger = 1
            \/ Busy("monitor", {"owe"}, p)
            \/ <<p, "payout">> \in unsaid
    /\ row[p].status = "expired_itm" =>
         /\ row[p].payout = "itm"
         /\ \/ ledger[p].due > 0
            \/ Busy("resolve", {"due", "await"}, p)
            \/ <<p, "payout">> \in unsaid
    /\ p \notin crossed =>
         /\ ledger[p].trigger + ledger[p].due <= 1
         /\ ledger[p].trigger = 1 => row[p].payout = "trigger"
         /\ ledger[p].settled <= 1

=============================================================================
