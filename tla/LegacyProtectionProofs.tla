----------------------- MODULE LegacyProtectionProofs -----------------------
(***************************************************************************)
(* A one-day protection is renewed, its hedge sold and its payout owed and  *)
(* settled once, or again only where overlap or a failure explains it: for  *)
(* any number of rows, passes and requests, failures and restarts.          *)
(*                                                                          *)
(* The properties speak of the jobs that work on a row and of what is       *)
(* unsaid.  The invariants below add what a job knows of its rows: they     *)
(* exist, what its list said is excused by what is unsaid, and a claim it   *)
(* is about to enter into the ledger is the only one.                       *)
(***************************************************************************)
EXTENDS LegacyProtection, TLAPS

Rows    == [status : Status, hedge : HedgeStatus, hydrated : BOOLEAN, autoRenew : BOOLEAN,
            payout : Payout, priced : BOOLEAN, phase : Phase]
Entries == [premium : Nat, trigger : Nat, due : Nat, settled : Nat]
Passes  == [kind : Kinds, at : Places, todo : SUBSET Protections,
            on : Protections \cup {NoRow}, new : Protections \cup {NoRow},
            seen : Status, paid : Nat, over : SUBSET Protections]

\* What a job is at each of its steps, whatever the rows are.
Shaped(r) ==
  /\ r.at = "idle" <=> r.kind = "none"
  /\ r.at = "owe" => r.kind = "monitor"
  /\ r.at \in {"insert", "hydrate", "premium", "mark"} => r.kind = "renew"
  /\ r.at \in {"price", "due", "await"} => r.kind = "resolve"
  /\ r.at = "record" => r.kind = "manage"
  /\ r.at = "settle" => r.kind = "settle" /\ r.paid = 0
  /\ r.at \in {"idle", "next"} => r.on = NoRow
  /\ r.at \notin {"idle", "next"} => r.on \in Protections
  /\ r.at \in {"hydrate", "premium", "mark"} => r.new \in Protections
  /\ r.at \notin {"hydrate", "premium", "mark"} => r.new = NoRow
  /\ r.at = "price" => r.seen \in {"active", "awaiting_expiry_price"}
  /\ r.at = "due" => r.seen = "expired_itm"
  /\ r.at = "await" => r.seen \in {"active", "awaiting_expiry_price", "expired_itm"}

\* The rows a job has to do with.
Touched(r) == r.todo \cup ({r.on, r.new} \cap Protections)

\* Nothing is said yet of a row that is not there.
FreshIsBlank ==
  \A p \in Fresh :
    /\ row[p].hedge = "none" /\ ~row[p].priced
    /\ ledger[p].premium = 0 /\ ledger[p].trigger = 0
    /\ ledger[p].due = 0 /\ ledger[p].settled = 0
    /\ sold[p] = 0 /\ p \notin renewed

ShapeInv ==
  /\ TypeOK
  /\ \A j \in Jobs : Shaped(job[j]) /\ \A p \in Touched(job[j]) : p \notin Fresh
  /\ FreshIsBlank

-----------------------------------------------------------------------------
(* Renewals. *)
\* A job that renews has listed for a second time only what a failure excuses,
\* and the row it inserted has what its steps so far gave it, and no more.
Renewing(r) ==
  /\ r.kind = "renew" => \A p \in r.over : <<p, "renewal">> \in unsaid
  /\ r.at \in {"hydrate", "premium"} => ledger[r.new].premium = 0
  /\ r.at \in {"premium", "mark"} => row[r.new].hydrated
  /\ r.at = "mark" => ledger[r.new].premium = 1

\* A row that was renewed is not listed again, unless its renewal is under way
\* or failed.
RenewedIsClosed ==
  \A p \in renewed :
    \/ row[p].status \notin {"active", "triggered"}
    \/ \E j \in Jobs : job[j].kind = "renew" /\ job[j].on = p
    \/ <<p, "renewal">> \in unsaid

RenewalInv ==
  /\ ShapeInv
  /\ \A j \in Jobs : Renewing(job[j])
  /\ \A i, j \in Jobs : i # j /\ job[i].new = job[j].new => job[i].new = NoRow
  /\ RenewedIsClosed
  /\ RenewalAccounted

-----------------------------------------------------------------------------
(* Sales. *)
Selling(r) ==
  /\ r.kind = "manage" =>
       /\ \A p \in r.over : <<p, "sale">> \in unsaid
       /\ \A p \in Touched(r) : row[p].hedge # "none"
  /\ r.at = "record" => sold[r.on] > 0

SaleInv == ShapeInv /\ (\A j \in Jobs : Selling(job[j])) /\ HedgeSoldOnce

-----------------------------------------------------------------------------
(* Payouts. *)
OwesTrigger(r, p) == r.at = "owe" /\ r.on = p
OwesExpiry(r, p)  == r.at \in {"due", "await"} /\ r.seen = "expired_itm" /\ r.on = p
Owes(r, p)        == OwesTrigger(r, p) \/ OwesExpiry(r, p)

\* A row is triggered once, by one job.
TriggeredOnce(p) ==
  /\ row[p].status = "active" =>
       ledger[p].trigger = 0 /\ \A j \in Jobs : ~OwesTrigger(job[j], p)
  /\ \A j \in Jobs : OwesTrigger(job[j], p) =>
       ledger[p].trigger = 0 /\ \A i \in Jobs : OwesTrigger(job[i], p) => i = j

\* A row no job crossed has one claim, in the ledger or about to be entered.
ClaimedOnce(p) ==
  p \notin crossed =>
    /\ row[p].status \in {"active", "awaiting_expiry_price"} =>
         /\ ledger[p].trigger = 0 /\ ledger[p].due = 0
         /\ \A j \in Jobs : ~Owes(job[j], p)
    /\ \A j \in Jobs : Owes(job[j], p) =>
         /\ ledger[p].trigger = 0 /\ ledger[p].due = 0
         /\ \A i \in Jobs : Owes(job[i], p) => i = j
    /\ \A j \in Jobs : OwesTrigger(job[j], p) => row[p].payout = "trigger"

PayoutInv ==
  /\ ShapeInv
  /\ \A p \in Protections : TriggeredOnce(p) /\ ClaimedOnce(p)
  /\ PayoutAccounted

-----------------------------------------------------------------------------
(* Shapes. *)

LEMMA IdleOK ==
  /\ Idle \in Passes /\ Shaped(Idle) /\ Touched(Idle) = {}
  /\ Idle.kind = "none" /\ Idle.at = "idle" /\ Idle.on = NoRow /\ Idle.new = NoRow
  /\ Idle.over = {} /\ Idle.todo = {}
  BY RootAssumption DEF Idle, Passes, Kinds, Places, Status, Shaped, Touched, NoRow

\* What a job that is done with a row looks like.
LEMMA OnwardOK ==
  ASSUME NEW j \in Jobs, job[j] \in Passes, Shaped(job[j]), job[j].at # "idle", NEW p
  PROVE  LET r == Onward(j, p) IN
         /\ r \in Passes /\ Shaped(r) /\ Touched(r) \subseteq Touched(job[j])
         /\ r.at \in {"idle", "next"} /\ r.on = NoRow /\ r.new = NoRow
         /\ r.kind \in {"none", job[j].kind} /\ r.over \subseteq job[j].over
<1>1. CASE job[j].todo \subseteq {p}
  BY <1>1, IdleOK DEF Onward
<1>2. CASE ~(job[j].todo \subseteq {p})
  <2>1. /\ job[j].kind \in Kinds \ {"none"} /\ job[j].todo \ {p} \in SUBSET Protections
        /\ job[j].over \ {p} \in SUBSET Protections
    BY DEF Passes, Shaped
  <2>2. job[j].todo \ {p} \subseteq Touched(job[j]) /\ job[j].over \ {p} \subseteq job[j].over
    BY DEF Touched
  <2> DEFINE r == Onward(j, p)
  <2>3. /\ r \in Passes /\ r.kind = job[j].kind /\ r.at = "next" /\ r.on = NoRow
        /\ r.new = NoRow /\ r.todo = job[j].todo \ {p} /\ r.over = job[j].over \ {p}
    BY <1>2, <2>1 DEF Onward, Idle, Passes, Places, Status
  <2> HIDE DEF r
  <2>4. Shaped(r) /\ Touched(r) = r.todo
    BY <2>1, <2>3, RootAssumption DEF Shaped, Touched
  <2> QED
    BY <2>2, <2>3, <2>4 DEF r
<1> QED
  BY <1>1, <1>2

\* What a job that goes on with a row looks like.
LEMMA WorksOK ==
  ASSUME NEW j \in Jobs, job[j] \in Passes, NEW p \in Protections, NEW at \in Places
  PROVE  LET r == Works(j, p, at) IN
         /\ r \in Passes
         /\ r.on = p /\ r.at = at
         /\ r.kind = job[j].kind /\ r.todo = job[j].todo /\ r.new = job[j].new
         /\ r.seen = job[j].seen /\ r.paid = job[j].paid /\ r.over = job[j].over
  BY DEF Works, Passes

\* A step of job j that leaves it with r.
LEMMA GoesOK ==
  ASSUME TypeOK, NEW j \in Jobs, NEW r \in Passes, Goes(j, r)
  PROVE  /\ job' \in [Jobs -> Passes]
         /\ job'[j] = r
         /\ \A i \in Jobs : i # j => job'[i] = job[i]
  BY DEF TypeOK, Goes, Passes

LEMMA TypesOf ==
  ASSUME TypeOK
  PROVE  /\ row \in [Protections -> Rows] /\ ledger \in [Protections -> Entries]
         /\ sold \in [Protections -> Nat] /\ job \in [Jobs -> Passes]
         /\ renewed \subseteq Protections /\ crossed \subseteq Protections
         /\ incidents \in 0 .. MaxIncidents
  BY DEF TypeOK, Rows, Entries, Passes

LEMMA TypedIf ==
  ASSUME /\ row' \in [Protections -> Rows] /\ ledger' \in [Protections -> Entries]
         /\ sold' \in [Protections -> Nat] /\ job' \in [Jobs -> Passes]
         /\ renewed' \subseteq Protections /\ crossed' \subseteq Protections
         /\ unsaid' \subseteq (Protections \cup {NoRow}) \X {"renewal", "sale", "payout"}
         /\ incidents' \in 0 .. MaxIncidents
  PROVE  TypeOK'
  BY DEF TypeOK, Rows, Entries, Passes

-----------------------------------------------------------------------------
(* The shape of the jobs is kept by every step. *)

\* What a step of the rows has to show: none vanishes, and what is not there
\* still is blank.
RowsKept == /\ Fresh' \subseteq Fresh
            /\ FreshIsBlank'

\* A step of job j.
LEMMA JobInv ==
  ASSUME ShapeInv, NEW j \in Jobs, NEW r \in Passes, Goes(j, r),
         Shaped(r), \A p \in Touched(r) : p \notin Fresh',
         RowsKept,
         row' \in [Protections -> Rows], ledger' \in [Protections -> Entries],
         sold' \in [Protections -> Nat],
         renewed' \subseteq Protections, crossed' \subseteq Protections,
         unsaid' \subseteq (Protections \cup {NoRow}) \X {"renewal", "sale", "payout"},
         Incident \/ Served
  PROVE  ShapeInv'
<1>1. /\ job' \in [Jobs -> Passes] /\ job'[j] = r
      /\ \A i \in Jobs : i # j => job'[i] = job[i]
  BY GoesOK DEF ShapeInv
<1>2. incidents' \in 0 .. MaxIncidents
  BY BoundAssumption DEF ShapeInv, TypeOK, Incident, Served
<1>3. TypeOK'
  BY <1>1, <1>2, TypedIf
<1>4. ASSUME NEW i \in Jobs PROVE Shaped(job'[i]) /\ \A p \in Touched(job'[i]) : p \notin Fresh'
  BY <1>1 DEF ShapeInv, RowsKept
<1>5. \A i \in Jobs : Shaped(job[i])' /\ \A p \in Touched(job[i])' : p \notin Fresh'
  BY <1>4 DEF Shaped, Touched
<1> QED
  BY <1>3, <1>5 DEF ShapeInv, RowsKept

\* A step of job j that leaves rows, ledger and sales alone, and touches no other row.
LEMMA QuietInv ==
  ASSUME ShapeInv, NEW j \in Jobs, NEW r \in Passes, Goes(j, r),
         Shaped(r), \A p \in Touched(r) : p \notin Fresh,
         UNCHANGED <<row, ledger, sold>>, renewed' \subseteq renewed,
         crossed' \subseteq Protections,
         unsaid' \subseteq (Protections \cup {NoRow}) \X {"renewal", "sale", "payout"},
         Incident \/ Served
  PROVE  ShapeInv'
<1>1. Fresh' = Fresh /\ RowsKept
  BY DEF Fresh, RowsKept, ShapeInv, FreshIsBlank
<1> QED
  BY <1>1, JobInv, TypesOf DEF ShapeInv

LEMMA StartInv ==
  ASSUME ShapeInv, NEW j \in Jobs, NEW kind \in Kinds \ {"none"},
         NEW rows \in SUBSET Protections, \A p \in rows : p \notin Fresh,
         NEW over, Start(j, kind, rows, over)
  PROVE  ShapeInv'
<1> DEFINE r == [Idle EXCEPT !.kind = kind, !.at = "next", !.todo = rows, !.over = over \cap rows]
<1>1. over \cap rows \in SUBSET Protections
  OBVIOUS
<1>2. /\ r \in Passes /\ r.kind = kind /\ r.at = "next" /\ r.todo = rows
      /\ r.on = NoRow /\ r.new = NoRow
  BY <1>1 DEF Idle, Passes, Kinds, Places, Status
<1>3. Goes(j, r) /\ Served /\ UNCHANGED <<row, ledger, sold, renewed, crossed, unsaid>>
  BY DEF Start, Goes, Served
<1> HIDE DEF r
<1>4. Shaped(r) /\ Touched(r) = rows
  BY <1>2, RootAssumption DEF Shaped, Touched
<1> QED
  BY <1>2, <1>3, <1>4, QuietInv DEF ShapeInv, TypeOK

LEMMA PassStartsShape == ASSUME ShapeInv, NEW j \in Jobs, PassStarts(j) PROVE ShapeInv'
<1>1. CASE ListForTrigger(j)
  <2> DEFINE rows == {p \in Protections : row[p].status = "active" /\ row[p].hydrated}
  <2>1. \A p \in rows : p \notin Fresh
    BY DEF Fresh
  <2>2. Start(j, "monitor", rows, {})
    BY <1>1 DEF ListForTrigger
  <2> HIDE DEF rows
  <2> QED
    BY <2>1, <2>2, StartInv DEF Kinds, rows
<1>2. CASE ListForRenewal(j)
  <2> DEFINE rows == {p \in Protections : Renewable(p)}
  <2>1. \A p \in rows : p \notin Fresh
    BY DEF Fresh, Renewable
  <2>2. PICK over : Start(j, "renew", rows, over)
    BY <1>2 DEF ListForRenewal
  <2> HIDE DEF rows
  <2> QED
    BY <2>1, <2>2, StartInv DEF Kinds, rows
<1>3. CASE ListForExpiry(j)
  <2> DEFINE rows == {p \in Protections : /\ row[p].status \in {"active", "awaiting_expiry_price"}
                                          /\ Expired(p)
                                          /\ ~row[p].priced}
  <2>1. \A p \in rows : p \notin Fresh
    BY DEF Fresh
  <2>2. Start(j, "resolve", rows, {})
    BY <1>3 DEF ListForExpiry
  <2> HIDE DEF rows
  <2> QED
    BY <2>1, <2>2, StartInv DEF Kinds, rows
<1>4. CASE ListHedges(j)
  <2> DEFINE rows == {p \in Protections : /\ row[p].hedge = "active"
                                          /\ row[p].hydrated
                                          /\ Managed(p)}
  <2>1. \A p \in rows : p \notin Fresh
    BY DEF Fresh, Managed
  <2>2. PICK over : Start(j, "manage", rows, over)
    BY <1>4 DEF ListHedges
  <2> HIDE DEF rows
  <2> QED
    BY <2>1, <2>2, StartInv DEF Kinds, rows
<1>5. CASE \E p \in Protections : ResolveByAdmin(j, p)
  <2>1. PICK p \in Protections : p \notin Fresh /\ Start(j, "resolve", {p}, {})
    BY <1>5 DEF ResolveByAdmin
  <2> QED
    BY <2>1, StartInv DEF Kinds
<1>6. CASE \E p \in Protections : ReadForSettling(j, p)
  <2>1. PICK p \in Protections : ReadForSettling(j, p)
    BY <1>6
  <2> DEFINE m == [Idle EXCEPT !.kind = "settle", !.at = "settle", !.on = p]
             r == [m EXCEPT !.paid = 0]
  <2>2. /\ Goes(j, r) /\ Served /\ row[p].priced
        /\ UNCHANGED <<row, ledger, sold, renewed, crossed, unsaid>>
    BY <2>1 DEF ReadForSettling, Served
  <2>3. /\ r \in Passes /\ r.kind = "settle" /\ r.at = "settle" /\ r.todo = {}
        /\ r.on = p /\ r.new = NoRow /\ r.paid = 0
    BY DEF Idle, Passes, Kinds, Places, Status
  <2>4. p \notin Fresh
    BY <2>2 DEF ShapeInv, FreshIsBlank
  <2> HIDE DEF r
  <2>5. Shaped(r) /\ Touched(r) = {p}
    BY <2>3, RootAssumption DEF Shaped, Touched
  <2> QED
    BY <2>2, <2>3, <2>4, <2>5, QuietInv DEF ShapeInv, TypeOK
<1> QED
  BY <1>1, <1>2, <1>3, <1>4, <1>5, <1>6 DEF PassStarts

LEMMA KeptIf ==
  ASSUME ShapeInv,
         \A q \in Fresh' : /\ row'[q] = row[q] /\ ledger'[q] = ledger[q] /\ sold'[q] = sold[q]
                           /\ q \in renewed' => q \in renewed
  PROVE  RowsKept
  BY DEF RowsKept, ShapeInv, FreshIsBlank, Fresh

LEMMA TriggeredOK ==
  ASSUME NEW p \in Protections, row \in [Protections -> Rows],
         row' = [row EXCEPT ![p].status = "triggered", ![p].payout = "trigger"]
  PROVE  /\ row' \in [Protections -> Rows] /\ \A q \in Protections \ {p} : row'[q] = row[q]
         /\ row'[p].status = "triggered" /\ row'[p].payout = "trigger"
         /\ row'[p].hedge = row[p].hedge /\ row'[p].hydrated = row[p].hydrated
<1> DEFINE y == [row[p] EXCEPT !.status = "triggered"]
           z == [y EXCEPT !.payout = "trigger"]
<1>1. row[p] \in Rows
  OBVIOUS
<1>2. row' = [row EXCEPT ![p] = z]
  OBVIOUS
<1>3. /\ y \in Rows /\ y.status = "triggered"
      /\ y.hedge = row[p].hedge /\ y.hydrated = row[p].hydrated
  BY <1>1 DEF Rows, Status
<1> HIDE DEF y
<1>4. /\ z \in Rows /\ z.status = y.status /\ z.payout = "trigger"
      /\ z.hedge = y.hedge /\ z.hydrated = y.hydrated
  BY <1>3 DEF Rows, Payout
<1> HIDE DEF z
<1> QED
  BY <1>2, <1>3, <1>4

LEMMA RowStepShape ==
  ASSUME ShapeInv, NEW j \in Jobs, NEW p \in Protections, RowStep(j, p)
  PROVE  ShapeInv'
<1>1. TypeOK /\ job[j] \in Passes /\ Shaped(job[j]) /\ \A q \in Touched(job[j]) : q \notin Fresh
  BY TypesOf DEF ShapeInv
<1>2. /\ row \in [Protections -> Rows] /\ ledger \in [Protections -> Entries]
      /\ sold \in [Protections -> Nat] /\ renewed \subseteq Protections
      /\ crossed \subseteq Protections
      /\ unsaid \subseteq (Protections \cup {NoRow}) \X {"renewal", "sale", "payout"}
  BY <1>1, TypesOf DEF TypeOK
<1>3. /\ job[j].at = "next" => job[j].new = NoRow /\ job[j].on = NoRow /\ job[j].at # "idle"
      /\ p \in job[j].todo => p \notin Fresh
      /\ \A q \in job[j].todo : q \notin Fresh
  BY <1>1 DEF Shaped, Touched
<1>4. job[j].at # "idle" =>
        /\ Onward(j, p) \in Passes /\ Shaped(Onward(j, p))
        /\ \A q \in Touched(Onward(j, p)) : q \in Touched(job[j])
  BY <1>1, OnwardOK
\* a pass that goes on with p
<1>5. ASSUME NEW at \in Places \ {"idle", "next", "price", "due", "await", "settle",
                                  "hydrate", "premium", "mark"},
             job[j].at = "next", p \in job[j].todo,
             at = "owe" => job[j].kind = "monitor",
             at = "insert" => job[j].kind = "renew",
             at = "record" => job[j].kind = "manage"
      PROVE  /\ Works(j, p, at) \in Passes /\ Shaped(Works(j, p, at))
             /\ \A q \in Touched(Works(j, p, at)) : q \in job[j].todo
  <2> DEFINE r == Works(j, p, at)
  <2>1. /\ r \in Passes /\ r.on = p /\ r.at = at /\ r.kind = job[j].kind
        /\ r.todo = job[j].todo /\ r.new = job[j].new
    BY <1>1, <1>5, WorksOK
  <2> HIDE DEF r
  <2>2. job[j].kind # "none"
    BY <1>1, <1>5 DEF Shaped
  <2>3. Shaped(r) /\ \A q \in Touched(r) : q \in job[j].todo
    BY <1>3, <1>5, <2>1, <2>2, RootAssumption DEF Shaped, Touched, Places
  <2> QED
    BY <2>1, <2>3 DEF r
<1>6. CASE Trigger(j, p)
  <2>1. CASE row[p].status = "active"
    <3>1. /\ row' = [row EXCEPT ![p].status = "triggered", ![p].payout = "trigger"]
          /\ Goes(j, Works(j, p, "owe")) /\ IsAt(j, "monitor", "next") /\ p \in job[j].todo
          /\ Served /\ UNCHANGED <<ledger, sold, renewed, crossed, unsaid>>
      BY <1>6, <2>1 DEF Trigger, Served
    <3>2. row' \in [Protections -> Rows] /\ (\A q \in Protections \ {p} : row'[q] = row[q])
          /\ row'[p].status = "triggered"
      BY <1>2, <3>1, TriggeredOK
    <3>3. RowsKept /\ p \notin Fresh' /\ Fresh' \subseteq Fresh
      BY <3>1, <3>2, KeptIf DEF Fresh
    <3>4. /\ Works(j, p, "owe") \in Passes /\ Shaped(Works(j, p, "owe"))
          /\ \A q \in Touched(Works(j, p, "owe")) : q \in job[j].todo
      BY <1>5, <3>1 DEF IsAt, Places
    <3> QED
      BY <1>2, <1>3, <3>1, <3>2, <3>3, <3>4, JobInv
  <2>2. CASE row[p].status # "active"
    BY <1>1, <1>2, <1>4, <1>6, <2>2, QuietInv DEF Trigger, Served, IsAt
  <2> QED
    BY <2>1, <2>2
<1>7. CASE BuyRenewal(j, p)
  <2>1. /\ Goes(j, Works(j, p, "insert")) /\ IsAt(j, "renew", "next") /\ p \in job[j].todo
        /\ renewed' = renewed \cup {p}
        /\ Served /\ UNCHANGED <<row, ledger, sold, crossed, unsaid>>
    BY <1>7 DEF BuyRenewal, Served
  <2>2. RowsKept /\ Fresh' = Fresh
    BY <1>3, <2>1, KeptIf DEF Fresh
  <2>3. /\ Works(j, p, "insert") \in Passes /\ Shaped(Works(j, p, "insert"))
        /\ \A q \in Touched(Works(j, p, "insert")) : q \in job[j].todo
    BY <1>5, <2>1 DEF IsAt, Places
  <2> QED
    BY <1>2, <1>3, <2>1, <2>2, <2>3, JobInv
<1>8. CASE InsertRenewal(j, p)
  <2> DEFINE r == [job[j] EXCEPT !.at = "hydrate", !.new = p]
  <2>1. /\ Goes(j, r) /\ IsAt(j, "renew", "insert") /\ p \in Fresh
        /\ row' = [row EXCEPT ![p] = NewRow("active", "active", FALSE, TRUE)]
        /\ Served /\ UNCHANGED <<ledger, sold, renewed, crossed, unsaid>>
    BY <1>8 DEF InsertRenewal, Served
  <2>2. row' \in [Protections -> Rows] /\ (\A q \in Protections \ {p} : row'[q] = row[q])
        /\ row'[p].status = "active"
    BY <1>2, <2>1 DEF Rows, Status, Payout, NewRow, HedgeStatus, Phase
  <2>3. RowsKept /\ p \notin Fresh' /\ Fresh' \subseteq Fresh
    BY <2>1, <2>2, KeptIf DEF Fresh
  <2>4. /\ r \in Passes /\ r.at = "hydrate" /\ r.new = p /\ r.kind = "renew"
        /\ r.on = job[j].on /\ r.todo = job[j].todo
    BY <1>1, <2>1 DEF Passes, IsAt, Places
  <2> HIDE DEF r
  <2>5. job[j].on \in Protections
    BY <1>1, <2>1 DEF IsAt, Shaped
  <2>6. Shaped(r) /\ \A q \in Touched(r) : q \in Touched(job[j]) \cup {p}
    BY <2>4, <2>5 DEF Shaped, Touched
  <2> QED
    BY <1>1, <1>2, <2>1, <2>2, <2>3, <2>4, <2>6, JobInv
<1>9. CASE ReadForExpiry(j, p)
  <2>1. CASE row[p].status \in {"active", "awaiting_expiry_price"} /\ Expired(p)
    <3> DEFINE r == [Works(j, p, "price") EXCEPT !.seen = row[p].status]
    <3>1. /\ Goes(j, r) /\ IsAt(j, "resolve", "next") /\ p \in job[j].todo
          /\ Served /\ UNCHANGED <<row, ledger, sold, renewed, crossed, unsaid>>
      BY <1>9, <2>1 DEF ReadForExpiry, Served
    <3>2. /\ r \in Passes /\ r.at = "price" /\ r.new = NoRow /\ r.kind = "resolve"
          /\ r.on = p /\ r.todo = job[j].todo /\ r.seen = row[p].status
      BY <1>1, <1>3, <2>1, <3>1 DEF Works, Passes, IsAt, Places, Status
    <3> HIDE DEF r
    <3>3. Shaped(r) /\ \A q \in Touched(r) : q \in job[j].todo
      BY <2>1, <3>1, <3>2, RootAssumption DEF Shaped, Touched
    <3> QED
      BY <1>2, <1>3, <3>1, <3>2, <3>3, QuietInv
  <2>2. CASE ~(row[p].status \in {"active", "awaiting_expiry_price"} /\ Expired(p))
    <3>1. /\ Goes(j, Onward(j, p)) /\ IsAt(j, "resolve", "next")
          /\ Served /\ UNCHANGED <<row, ledger, sold, renewed, crossed, unsaid>>
      BY <1>9, <2>2 DEF ReadForExpiry, Served
    <3> QED
      BY <1>1, <1>2, <1>4, <3>1, QuietInv DEF IsAt
  <2> QED
    BY <2>1, <2>2
<1>10. CASE SellHedge(j, p)
  <2>1. /\ Goes(j, Works(j, p, "record")) /\ IsAt(j, "manage", "next") /\ p \in job[j].todo
        /\ sold' = [sold EXCEPT ![p] = @ + 1]
        /\ Served /\ UNCHANGED <<row, ledger, renewed, crossed, unsaid>>
    BY <1>10 DEF SellHedge, Served
  <2>2. sold' \in [Protections -> Nat] /\ \A q \in Protections \ {p} : sold'[q] = sold[q]
    BY <1>2, <2>1
  <2>3. RowsKept /\ Fresh' = Fresh
    BY <1>3, <2>1, <2>2, KeptIf DEF Fresh
  <2>4. /\ Works(j, p, "record") \in Passes /\ Shaped(Works(j, p, "record"))
        /\ \A q \in Touched(Works(j, p, "record")) : q \in job[j].todo
    BY <1>5, <2>1 DEF IsAt, Places
  <2> QED
    BY <1>2, <1>3, <2>1, <2>2, <2>3, <2>4, JobInv
<1>11. CASE SettleExpiredHedge(j, p)
  <2>1. /\ Goes(j, Onward(j, p)) /\ IsAt(j, "manage", "next") /\ p \in job[j].todo
        /\ row' = [row EXCEPT ![p].hedge = "expired_settled"]
        /\ Served /\ UNCHANGED <<ledger, sold, renewed, crossed, unsaid>>
    BY <1>11 DEF SettleExpiredHedge, Served
  <2>2. row' \in [Protections -> Rows] /\ (\A q \in Protections \ {p} : row'[q] = row[q])
        /\ row'[p].status = row[p].status
    BY <1>2, <2>1 DEF Rows, HedgeStatus
  <2>3. RowsKept /\ Fresh' \subseteq Fresh
    BY <1>3, <2>1, <2>2, KeptIf DEF Fresh
  <2> QED
    BY <1>1, <1>2, <1>4, <2>1, <2>2, <2>3, JobInv DEF IsAt
<1>12. CASE PassOver(j, p)
  BY <1>1, <1>2, <1>3, <1>4, <1>12, QuietInv DEF PassOver, Served
<1> QED
  BY <1>6, <1>7, <1>8, <1>9, <1>10, <1>11, <1>12 DEF RowStep

\* What a step of the ledger leaves.
LEMMA EnteredOK ==
  ASSUME NEW p \in Protections, ledger \in [Protections -> Entries],
         \/ ledger' = [ledger EXCEPT ![p].premium = @ + 1]
         \/ ledger' = [ledger EXCEPT ![p].trigger = @ + 1]
         \/ ledger' = [ledger EXCEPT ![p].due = @ + 1]
         \/ ledger' = [ledger EXCEPT ![p].settled = @ + 1]
  PROVE  ledger' \in [Protections -> Entries] /\ \A q \in Protections \ {p} : ledger'[q] = ledger[q]
<1>1. ledger[p] \in Entries
  OBVIOUS
<1>2. /\ [ledger[p] EXCEPT !.premium = @ + 1] \in Entries
      /\ [ledger[p] EXCEPT !.trigger = @ + 1] \in Entries
      /\ [ledger[p] EXCEPT !.due = @ + 1] \in Entries
      /\ [ledger[p] EXCEPT !.settled = @ + 1] \in Entries
  BY <1>1 DEF Entries
<1>3. PICK e \in Entries : ledger' = [ledger EXCEPT ![p] = e]
  BY <1>2
<1> QED
  BY <1>3

\* What the resolver leaves of a row that expired in the money, and of another.
LEMMA InTheMoneyOK ==
  ASSUME NEW p \in Protections, row \in [Protections -> Rows],
         row' = [row EXCEPT ![p].status = "expired_itm", ![p].priced = TRUE, ![p].payout = "itm"]
  PROVE  /\ row' \in [Protections -> Rows] /\ \A q \in Protections \ {p} : row'[q] = row[q]
         /\ row'[p].status = "expired_itm" /\ row'[p].payout = "itm"
         /\ row'[p].hedge = row[p].hedge /\ row'[p].hydrated = row[p].hydrated
<1> DEFINE x == [row[p] EXCEPT !.status = "expired_itm"]
           y == [x EXCEPT !.priced = TRUE]
           z == [y EXCEPT !.payout = "itm"]
<1>1. row[p] \in Rows
  OBVIOUS
<1>2. row' = [row EXCEPT ![p] = z]
  OBVIOUS
<1>3. /\ x \in Rows /\ x.status = "expired_itm"
      /\ x.hedge = row[p].hedge /\ x.hydrated = row[p].hydrated
  BY <1>1 DEF Rows, Status
<1> HIDE DEF x
<1>4. y \in Rows /\ y.status = x.status /\ y.hedge = x.hedge /\ y.hydrated = x.hydrated
  BY <1>3 DEF Rows
<1> HIDE DEF y
<1>5. /\ z \in Rows /\ z.status = y.status /\ z.payout = "itm"
      /\ z.hedge = y.hedge /\ z.hydrated = y.hydrated
  BY <1>4 DEF Rows, Payout
<1> HIDE DEF z
<1> QED
  BY <1>2, <1>3, <1>4, <1>5

LEMMA OutOfTheMoneyOK ==
  ASSUME NEW p \in Protections, row \in [Protections -> Rows],
         row' = [row EXCEPT ![p].status = "expired_otm", ![p].priced = TRUE, ![p].payout = "zero"]
  PROVE  /\ row' \in [Protections -> Rows] /\ \A q \in Protections \ {p} : row'[q] = row[q]
         /\ row'[p].status = "expired_otm" /\ row'[p].payout = "zero"
         /\ row'[p].hedge = row[p].hedge /\ row'[p].hydrated = row[p].hydrated
<1> DEFINE x == [row[p] EXCEPT !.status = "expired_otm"]
           y == [x EXCEPT !.priced = TRUE]
           z == [y EXCEPT !.payout = "zero"]
<1>1. row[p] \in Rows
  OBVIOUS
<1>2. row' = [row EXCEPT ![p] = z]
  OBVIOUS
<1>3. /\ x \in Rows /\ x.status = "expired_otm"
      /\ x.hedge = row[p].hedge /\ x.hydrated = row[p].hydrated
  BY <1>1 DEF Rows, Status
<1> HIDE DEF x
<1>4. y \in Rows /\ y.status = x.status /\ y.hedge = x.hedge /\ y.hydrated = x.hydrated
  BY <1>3 DEF Rows
<1> HIDE DEF y
<1>5. /\ z \in Rows /\ z.status = y.status /\ z.payout = "zero"
      /\ z.hedge = y.hedge /\ z.hydrated = y.hydrated
  BY <1>4 DEF Rows, Payout
<1> HIDE DEF z
<1> QED
  BY <1>2, <1>3, <1>4, <1>5

LEMMA JobStepShape ==
  ASSUME ShapeInv, NEW j \in Jobs, JobStep(j)
  PROVE  ShapeInv'
<1> DEFINE p == job[j].on
<1>1. TypeOK /\ job[j] \in Passes /\ Shaped(job[j]) /\ \A q \in Touched(job[j]) : q \notin Fresh
  BY TypesOf DEF ShapeInv
<1>2. /\ row \in [Protections -> Rows] /\ ledger \in [Protections -> Entries]
      /\ sold \in [Protections -> Nat] /\ renewed \subseteq Protections
      /\ crossed \subseteq Protections
      /\ unsaid \subseteq (Protections \cup {NoRow}) \X {"renewal", "sale", "payout"}
  BY <1>1, TypesOf DEF TypeOK
<1>3. job[j].at \notin {"idle", "next"} => p \in Protections /\ p \notin Fresh
  BY <1>1 DEF Shaped, Touched
<1>4. job[j].at \in {"hydrate", "premium", "mark"} =>
        job[j].new \in Protections /\ job[j].new \notin Fresh
  BY <1>1 DEF Shaped, Touched
<1>5. job[j].at # "idle" =>
        /\ Onward(j, p) \in Passes /\ Shaped(Onward(j, p))
        /\ \A q \in Touched(Onward(j, p)) : q \in Touched(job[j])
  BY <1>1, OnwardOK
<1>6. Idle \in Passes /\ Shaped(Idle) /\ Touched(Idle) = {}
  BY IdleOK
<1>7. CrossedBy(j) \subseteq {p}
  BY DEF CrossedBy
\* the catch block of the resolver comes next
<1>8. job[j].at \in {"price", "due"} =>
        /\ Works(j, p, "await") \in Passes /\ Shaped(Works(j, p, "await"))
        /\ \A q \in Touched(Works(j, p, "await")) : q \in Touched(job[j])
  <2> DEFINE r == Works(j, p, "await")
  <2> SUFFICES ASSUME job[j].at \in {"price", "due"}
               PROVE  r \in Passes /\ Shaped(r) /\ \A q \in Touched(r) : q \in Touched(job[j])
    OBVIOUS
  <2>1. /\ r \in Passes /\ r.on = p /\ r.at = "await" /\ r.kind = job[j].kind
        /\ r.todo = job[j].todo /\ r.new = job[j].new /\ r.seen = job[j].seen
    BY <1>1, <1>3 DEF Works, Passes, Places
  <2> HIDE DEF r
  <2> QED
    BY <1>1, <1>3, <2>1 DEF Shaped, Touched
<1> HIDE DEF p
<1>9. CASE OweTrigger(j)
  <2>0. IsAt(j, "monitor", "owe") /\ p \in Protections /\ p \notin Fresh
    BY <1>3, <1>9 DEF OweTrigger, IsAt
  <2>1. CASE Served
    <3>1. /\ ledger' = [ledger EXCEPT ![p].trigger = @ + 1] /\ Goes(j, Onward(j, p))
          /\ UNCHANGED <<row, sold, renewed, crossed, unsaid>>
      BY <1>9, <2>1, <1>1, BoundAssumption DEF OweTrigger, p, Incident, Served, TypeOK
    <3>2. ledger' \in [Protections -> Entries] /\ \A q \in Protections \ {p} : ledger'[q] = ledger[q]
      BY <1>2, <2>0, <3>1, EnteredOK
    <3>3. RowsKept /\ Fresh' = Fresh
      BY <2>0, <3>1, <3>2, KeptIf DEF Fresh
    <3> QED
      BY <1>1, <1>2, <1>5, <2>0, <2>1, <3>1, <3>2, <3>3, JobInv DEF IsAt
  <2>2. CASE Incident
    <3>1. /\ Goes(j, Idle) /\ unsaid' = unsaid \cup {<<p, "payout">>}
          /\ UNCHANGED <<row, ledger, sold, renewed, crossed>>
      BY <1>9, <2>2, <1>1, BoundAssumption DEF OweTrigger, p, Incident, Served, TypeOK
    <3> QED
      BY <1>2, <1>6, <2>0, <2>2, <3>1, QuietInv
  <2> QED
    BY <1>9, <2>1, <2>2 DEF OweTrigger
<1>10. CASE RenewalThrows(j)
  <2>1. /\ Goes(j, Onward(j, p)) /\ Incident /\ job[j].at # "idle"
        /\ unsaid' = unsaid \cup {<<q, "renewal">> : q \in {job[j].on, job[j].new}}
        /\ UNCHANGED <<row, ledger, sold, renewed, crossed>>
    BY <1>10 DEF RenewalThrows, p
  <2>2. {job[j].on, job[j].new} \subseteq Protections \cup {NoRow}
    BY <1>1 DEF Passes
  <2>3. unsaid' \subseteq (Protections \cup {NoRow}) \X {"renewal", "sale", "payout"}
    BY <1>2, <2>1, <2>2
  <2> QED
    BY <1>1, <1>2, <1>5, <2>1, <2>3, QuietInv
<1>11. CASE HydrateRenewal(j)
  <2> DEFINE r == [job[j] EXCEPT !.at = "premium"]
             n == job[j].new
  <2>1. /\ Goes(j, r) /\ IsAt(j, "renew", "hydrate")
        /\ row' = [row EXCEPT ![n].hydrated = TRUE]
        /\ Served /\ UNCHANGED <<ledger, sold, renewed, crossed, unsaid>>
    BY <1>11 DEF HydrateRenewal, Served
  <2>2. /\ r \in Passes /\ r.at = "premium" /\ r.kind = job[j].kind
        /\ r.todo = job[j].todo /\ r.on = job[j].on /\ r.new = job[j].new
    BY <1>1 DEF Passes, Places
  <2> HIDE DEF r
  <2>3. Shaped(r) /\ Touched(r) = Touched(job[j])
    BY <1>1, <2>1, <2>2 DEF Shaped, Touched, IsAt
  <2>4. n \in Protections /\ n \notin Fresh
    BY <1>4, <2>1 DEF IsAt
  <2> HIDE DEF n
  <2>5. /\ row' \in [Protections -> Rows] /\ \A q \in Protections \ {n} : row'[q] = row[q]
        /\ row'[n].status = row[n].status
    BY <1>2, <2>1, <2>4 DEF Rows
  <2>6. RowsKept /\ Fresh' \subseteq Fresh
    BY <2>1, <2>4, <2>5, KeptIf DEF Fresh
  <2> QED
    BY <1>1, <1>2, <2>1, <2>2, <2>3, <2>5, <2>6, JobInv
<1>12. CASE OwePremium(j)
  <2> DEFINE r == [job[j] EXCEPT !.at = "mark"]
             n == job[j].new
  <2>1. /\ Goes(j, r) /\ IsAt(j, "renew", "premium")
        /\ ledger' = [ledger EXCEPT ![n].premium = @ + 1]
        /\ Served /\ UNCHANGED <<row, sold, renewed, crossed, unsaid>>
    BY <1>12 DEF OwePremium, Served
  <2>2. /\ r \in Passes /\ r.at = "mark" /\ r.kind = job[j].kind
        /\ r.todo = job[j].todo /\ r.on = job[j].on /\ r.new = job[j].new
    BY <1>1 DEF Passes, Places
  <2> HIDE DEF r
  <2>3. Shaped(r) /\ Touched(r) = Touched(job[j])
    BY <1>1, <2>1, <2>2 DEF Shaped, Touched, IsAt
  <2>4. n \in Protections /\ n \notin Fresh
    BY <1>4, <2>1 DEF IsAt
  <2> HIDE DEF n
  <2>5. ledger' \in [Protections -> Entries] /\ \A q \in Protections \ {n} : ledger'[q] = ledger[q]
    BY <1>2, <2>1, <2>4, EnteredOK
  <2>6. RowsKept /\ Fresh' = Fresh
    BY <2>1, <2>4, <2>5, KeptIf DEF Fresh
  <2> QED
    BY <1>1, <1>2, <2>1, <2>2, <2>3, <2>5, <2>6, JobInv
<1>13. CASE MarkRenewed(j)
  <2>1. /\ Goes(j, Onward(j, p)) /\ IsAt(j, "renew", "mark")
        /\ row' = [row EXCEPT ![p].status = "expired_otm"]
        /\ Served /\ UNCHANGED <<ledger, sold, renewed, crossed, unsaid>>
    BY <1>13 DEF MarkRenewed, Served, p
  <2>2. p \in Protections /\ p \notin Fresh
    BY <1>3, <2>1 DEF IsAt
  <2>3. /\ row' \in [Protections -> Rows] /\ \A q \in Protections \ {p} : row'[q] = row[q]
        /\ row'[p].status = "expired_otm"
    BY <1>2, <2>1, <2>2 DEF Rows, Status
  <2>4. RowsKept /\ Fresh' \subseteq Fresh
    BY <2>1, <2>2, <2>3, KeptIf DEF Fresh
  <2> QED
    BY <1>1, <1>2, <1>5, <2>1, <2>3, <2>4, JobInv DEF IsAt
<1>14. CASE PriceFails(j)
  <2>1. /\ Goes(j, Works(j, p, "await")) /\ IsAt(j, "resolve", "price") /\ Incident
        /\ UNCHANGED <<row, ledger, sold, renewed, crossed, unsaid>>
    BY <1>14 DEF PriceFails, p
  <2> QED
    BY <1>1, <1>2, <1>8, <2>1, QuietInv DEF IsAt
<1>15. CASE OweExpiry(j)
  <2>0. IsAt(j, "resolve", "due") /\ p \in Protections /\ p \notin Fresh
    BY <1>3, <1>15 DEF OweExpiry, IsAt
  <2>1. CASE Served
    <3>1. /\ ledger' = [ledger EXCEPT ![p].due = @ + 1] /\ Goes(j, Onward(j, p))
          /\ UNCHANGED <<row, sold, renewed, crossed, unsaid>>
      BY <1>15, <2>1, <1>1, BoundAssumption DEF OweExpiry, p, Incident, Served, TypeOK
    <3>2. ledger' \in [Protections -> Entries] /\ \A q \in Protections \ {p} : ledger'[q] = ledger[q]
      BY <1>2, <2>0, <3>1, EnteredOK
    <3>3. RowsKept /\ Fresh' = Fresh
      BY <2>0, <3>1, <3>2, KeptIf DEF Fresh
    <3> QED
      BY <1>1, <1>2, <1>5, <2>0, <2>1, <3>1, <3>2, <3>3, JobInv DEF IsAt
  <2>2. CASE Incident
    <3>1. /\ Goes(j, Works(j, p, "await"))
          /\ UNCHANGED <<row, ledger, sold, renewed, crossed, unsaid>>
      BY <1>15, <2>2, <1>1, BoundAssumption DEF OweExpiry, p, Incident, Served, TypeOK
    <3> QED
      BY <1>1, <1>2, <1>8, <2>0, <2>2, <3>1, QuietInv DEF IsAt
  <2> QED
    BY <1>15, <2>1, <2>2 DEF OweExpiry
<1>16. CASE AwaitPrice(j)
  <2>0. IsAt(j, "resolve", "await") /\ p \in Protections /\ p \notin Fresh
    BY <1>3, <1>16 DEF AwaitPrice, IsAt
  <2>1. CASE Served
    <3>1. /\ row' = [row EXCEPT ![p].status = "awaiting_expiry_price"]
          /\ crossed' = crossed \cup CrossedBy(j) /\ Goes(j, Onward(j, p))
          /\ UNCHANGED <<ledger, sold, renewed, unsaid>>
      BY <1>16, <2>1, <1>1, BoundAssumption DEF AwaitPrice, p, Incident, Served, TypeOK
    <3>2. /\ row' \in [Protections -> Rows] /\ \A q \in Protections \ {p} : row'[q] = row[q]
          /\ row'[p].status = "awaiting_expiry_price"
      BY <1>2, <2>0, <3>1 DEF Rows, Status
    <3>3. RowsKept /\ Fresh' \subseteq Fresh
      BY <2>0, <3>1, <3>2, KeptIf DEF Fresh
    <3> QED
      BY <1>1, <1>2, <1>5, <1>7, <2>0, <2>1, <3>1, <3>2, <3>3, JobInv DEF IsAt
  <2>2. CASE Incident
    <3>1. /\ Goes(j, Idle) /\ unsaid' = unsaid \cup {<<p, "payout">>}
          /\ UNCHANGED <<row, ledger, sold, renewed, crossed>>
      BY <1>16, <2>2, <1>1, BoundAssumption DEF AwaitPrice, p, Incident, Served, TypeOK
    <3> QED
      BY <1>2, <1>6, <2>0, <2>2, <3>1, QuietInv
  <2> QED
    BY <1>16, <2>1, <2>2 DEF AwaitPrice
<1>17. CASE RecordSale(j)
  <2>0. /\ IsAt(j, "manage", "record") /\ p \in Protections /\ p \notin Fresh
        /\ Goes(j, Onward(j, p)) /\ UNCHANGED <<ledger, sold, renewed, crossed>>
    BY <1>3, <1>17 DEF RecordSale, IsAt, p
  <2>1. CASE Served /\ row' = [row EXCEPT ![p].hedge = "tp_sold"] /\ UNCHANGED unsaid
    <3>1. /\ row' \in [Protections -> Rows] /\ \A q \in Protections \ {p} : row'[q] = row[q]
          /\ row'[p].status = row[p].status
      BY <1>2, <2>0, <2>1 DEF Rows, HedgeStatus
    <3>2. RowsKept /\ Fresh' \subseteq Fresh
      BY <2>0, <2>1, <3>1, KeptIf DEF Fresh
    <3> QED
      BY <1>1, <1>2, <1>5, <2>0, <2>1, <3>1, <3>2, JobInv DEF IsAt
  <2>2. CASE Incident /\ unsaid' = unsaid \cup {<<p, "sale">>} /\ UNCHANGED row
    BY <1>1, <1>2, <1>5, <2>0, <2>2, QuietInv DEF IsAt
  <2> QED
    BY <1>17, <2>1, <2>2 DEF RecordSale, p
<1>18. CASE SettlePayout(j)
  <2>0. /\ IsAt(j, "settle", "settle") /\ p \in Protections /\ p \notin Fresh
        /\ Goes(j, Idle) /\ UNCHANGED <<row, sold, renewed, unsaid>>
    BY <1>3, <1>18 DEF SettlePayout, IsAt, p
  <2>1. CASE /\ Served
             /\ ledger' = [ledger EXCEPT ![p].settled = @ + 1]
             /\ crossed' = crossed \cup (IF ledger[p].settled = job[j].paid THEN {} ELSE {p})
    <3>1. ledger' \in [Protections -> Entries] /\ \A q \in Protections \ {p} : ledger'[q] = ledger[q]
      BY <1>2, <2>0, <2>1, EnteredOK
    <3>2. RowsKept /\ Fresh' = Fresh
      BY <2>0, <2>1, <3>1, KeptIf DEF Fresh
    <3> QED
      BY <1>2, <1>6, <2>0, <2>1, <3>1, <3>2, JobInv
  <2>2. CASE Incident /\ UNCHANGED <<ledger, crossed>>
    BY <1>2, <1>6, <2>0, <2>2, QuietInv
  <2> QED
    BY <1>18, <2>1, <2>2 DEF SettlePayout, p
<1>19. CASE \E payout \in {"itm", "zero"} : Resolve(j, payout)
  <2>1. PICK payout \in {"itm", "zero"} : Resolve(j, payout)
    BY <1>19
  <2>2. /\ IsAt(j, "resolve", "price") /\ p \in Protections /\ p \notin Fresh
        /\ crossed' = crossed \cup CrossedBy(j)
        /\ Served /\ UNCHANGED <<ledger, sold, renewed, unsaid>>
    BY <1>3, <2>1 DEF Resolve, IsAt, Served
  <2>3. /\ row' \in [Protections -> Rows] /\ \A q \in Protections \ {p} : row'[q] = row[q]
        /\ row'[p].status # "absent"
    <3>1. CASE payout = "itm"
      <4>1. row' = [row EXCEPT ![p].status = "expired_itm", ![p].priced = TRUE, ![p].payout = "itm"]
        BY <2>1, <3>1 DEF Resolve, p
      <4> QED
        BY <1>2, <2>2, <4>1, InTheMoneyOK
    <3>2. CASE payout = "zero"
      <4>1. row' = [row EXCEPT ![p].status = "expired_otm", ![p].priced = TRUE, ![p].payout = "zero"]
        BY <2>1, <3>2 DEF Resolve, p
      <4> QED
        BY <1>2, <2>2, <4>1, OutOfTheMoneyOK
    <3> QED
      BY <3>1, <3>2
  <2>4. RowsKept /\ Fresh' \subseteq Fresh
    BY <2>2, <2>3, KeptIf DEF Fresh
  <2>5. CASE payout = "zero"
    <3>1. Goes(j, Onward(j, p))
      BY <2>1, <2>5 DEF Resolve, p
    <3> QED
      BY <1>1, <1>2, <1>5, <1>7, <2>2, <2>3, <2>4, <3>1, JobInv DEF IsAt
  <2>6. CASE payout = "itm"
    <3> DEFINE m == [job[j] EXCEPT !.at = "due"]
               r == [m EXCEPT !.seen = "expired_itm"]
    <3>1. Goes(j, r)
      BY <2>1, <2>6 DEF Resolve
    <3>2. /\ m \in Passes /\ m.at = "due" /\ m.kind = job[j].kind
          /\ m.todo = job[j].todo /\ m.on = job[j].on /\ m.new = job[j].new
      BY <1>1 DEF Passes, Places
    <3> HIDE DEF m
    <3>3. /\ r \in Passes /\ r.at = "due" /\ r.kind = job[j].kind /\ r.seen = "expired_itm"
          /\ r.todo = job[j].todo /\ r.on = job[j].on /\ r.new = job[j].new
      BY <3>2 DEF Passes, Status
    <3> HIDE DEF r
    <3>4. Shaped(r) /\ Touched(r) = Touched(job[j])
      BY <1>1, <2>2, <3>3 DEF Shaped, Touched, IsAt
    <3> QED
      BY <1>1, <1>2, <1>7, <2>2, <2>3, <2>4, <3>1, <3>3, <3>4, JobInv
  <2> QED
    BY <2>5, <2>6
<1> QED
  BY <1>9, <1>10, <1>11, <1>12, <1>13, <1>14, <1>15, <1>16, <1>17, <1>18, <1>19 DEF JobStep

\* A step of no job.
LEMMA AsideInv ==
  ASSUME ShapeInv, UNCHANGED <<ledger, sold, job, renewed, crossed, unsaid>>,
         row' \in [Protections -> Rows], RowsKept, Incident \/ Served
  PROVE  ShapeInv'
<1>1. incidents' \in 0 .. MaxIncidents
  BY BoundAssumption DEF ShapeInv, TypeOK, Incident, Served
<1>2. TypeOK'
  BY <1>1, TypesOf, TypedIf DEF ShapeInv, TypeOK
<1> QED
  BY <1>2 DEF ShapeInv, RowsKept, Shaped, Touched

\* What a request or the clock leaves of the rows.
LEMMA AsideOK ==
  ASSUME NEW p \in Protections, row \in [Protections -> Rows],
         \/ row' = [row EXCEPT ![p].autoRenew = ~@]
         \/ row' = [row EXCEPT ![p].status = "cancelled"]
         \/ row' = [row EXCEPT ![p].phase = Older(@)]
  PROVE  /\ row' \in [Protections -> Rows] /\ \A q \in Protections \ {p} : row'[q] = row[q]
         /\ row'[p].status \in {row[p].status, "cancelled"}
         /\ row'[p].hedge = row[p].hedge /\ row'[p].hydrated = row[p].hydrated
         /\ row'[p].payout = row[p].payout
<1>1. row[p] \in Rows
  OBVIOUS
<1>2. CASE row' = [row EXCEPT ![p].autoRenew = ~@]
  BY <1>1, <1>2 DEF Rows
<1>3. CASE row' = [row EXCEPT ![p].status = "cancelled"]
  BY <1>1, <1>3 DEF Rows, Status
<1>4. CASE row' = [row EXCEPT ![p].phase = Older(@)]
  BY <1>1, <1>4 DEF Rows, Phase, Older
<1> QED
  BY <1>2, <1>3, <1>4

LEMMA DecideRenewOK ==
  ASSUME ShapeInv, NEW p \in Protections, NEW n \in Protections, DecideRenew(p, n)
  PROVE  /\ row' \in [Protections -> Rows] /\ \A q \in Protections \ {n} : row'[q] = row[q]
         /\ row'[n].status = "awaiting_renew_decision" /\ row'[n].hedge = "none"
<1> DEFINE m == NewRow("awaiting_renew_decision", "none", FALSE, row[p].autoRenew)
<1>1. row \in [Protections -> Rows] /\ row[p] \in Rows
  BY TypesOf DEF ShapeInv
<1>2. m \in Rows /\ m.status = "awaiting_renew_decision" /\ m.hedge = "none"
  BY <1>1 DEF NewRow, Rows, Status, HedgeStatus, Payout, Phase
<1>3. row' = [row EXCEPT ![n] = m]
  BY DEF DecideRenew
<1> HIDE DEF m
<1> QED
  BY <1>1, <1>2, <1>3

LEMMA RestartShape == ASSUME ShapeInv, Restart PROVE ShapeInv'
<1>1. TypeOK /\ \A j \in Jobs : job[j] \in Passes /\ Shaped(job[j])
  BY TypesOf DEF ShapeInv
<1>2. ASSUME NEW j \in Jobs
      PROVE  Unfinished(j) \subseteq (Protections \cup {NoRow}) \X {"renewal", "sale", "payout"}
  <2>1. {job[j].on, job[j].new} \subseteq Protections \cup {NoRow}
    BY <1>1 DEF Passes
  <2> QED
    BY <2>1 DEF Unfinished
<1>3. unsaid' \subseteq (Protections \cup {NoRow}) \X {"renewal", "sale", "payout"}
  BY <1>1, <1>2 DEF Restart, TypeOK
<1>4. job' = [j \in Jobs |-> Idle] /\ UNCHANGED <<row, ledger, sold, renewed, crossed>>
  BY DEF Restart
<1>5. incidents' \in 0 .. MaxIncidents
  BY <1>1, BoundAssumption DEF TypeOK, Incident, Restart
<1>6. job' \in [Jobs -> Passes] /\ \A j \in Jobs : job'[j] = Idle
  BY <1>4, IdleOK
<1>7. TypeOK'
  BY <1>1, <1>3, <1>4, <1>5, <1>6, TypesOf, TypedIf
<1>8. \A j \in Jobs : Shaped(job[j])' /\ Touched(job[j])' = {}
  BY <1>6, IdleOK DEF Shaped, Touched
<1>9. FreshIsBlank'
  BY <1>4 DEF ShapeInv, FreshIsBlank, Fresh
<1> QED
  BY <1>7, <1>8, <1>9 DEF ShapeInv

LEMMA AsideShape ==
  ASSUME ShapeInv,
         \/ \E p \in Protections : ToggleAutoRenew(p) \/ DecideExpire(p) \/ Age(p)
         \/ \E p, n \in Protections : DecideRenew(p, n)
  PROVE  ShapeInv'
<1>1. row \in [Protections -> Rows]
  BY TypesOf DEF ShapeInv
<1>2. CASE \E p \in Protections : ToggleAutoRenew(p) \/ DecideExpire(p) \/ Age(p)
  <2>1. PICK p \in Protections : ToggleAutoRenew(p) \/ DecideExpire(p) \/ Age(p)
    BY <1>2
  <2>2. /\ \/ row' = [row EXCEPT ![p].autoRenew = ~@]
           \/ row' = [row EXCEPT ![p].status = "cancelled"]
           \/ row' = [row EXCEPT ![p].phase = Older(@)]
        /\ Incident \/ Served
        /\ UNCHANGED <<ledger, sold, job, renewed, crossed, unsaid>>
        /\ p \notin Fresh
    BY <2>1 DEF ToggleAutoRenew, DecideExpire, Age, Served, Fresh
  <2>3. RowsKept
    BY <1>1, <2>2, AsideOK, KeptIf DEF Fresh
  <2> QED
    BY <1>1, <2>2, <2>3, AsideOK, AsideInv
<1>3. CASE \E p, n \in Protections : DecideRenew(p, n)
  <2>1. PICK p \in Protections, n \in Protections : DecideRenew(p, n)
    BY <1>3
  <2>2. RowsKept
    BY <2>1, DecideRenewOK, KeptIf DEF Fresh, DecideRenew
  <2> QED
    BY <2>1, <2>2, DecideRenewOK, AsideInv DEF DecideRenew
<1> QED
  BY <1>2, <1>3

LEMMA InitShape == ASSUME Init PROVE ShapeInv
<1> DEFINE first == NewRow("active", "active", TRUE, TRUE)
           blank == NewRow("absent", "none", FALSE, FALSE)
<1>1. /\ first \in Rows /\ first.status = "active"
      /\ blank \in Rows /\ blank.hedge = "none" /\ blank.priced = FALSE
  BY DEF NewRow, Rows, Status, HedgeStatus, Payout, Phase
<1>2. \A p \in Protections : row[p] = IF p = Root THEN first ELSE blank
  BY DEF Init
<1>3. row \in [Protections -> Rows]
  BY <1>1 DEF Init
<1>4. ledger \in [Protections -> Entries]
  BY DEF Init, Entries
<1>5. job \in [Jobs -> Passes] /\ \A j \in Jobs : job[j] = Idle
  BY IdleOK DEF Init
<1> HIDE DEF first, blank
<1>6. /\ sold \in [Protections -> Nat] /\ renewed = {} /\ crossed = {} /\ unsaid = {}
      /\ incidents \in 0 .. MaxIncidents
  BY BoundAssumption DEF Init
<1>7. TypeOK
  BY <1>3, <1>4, <1>5, <1>6 DEF TypeOK, Rows, Entries, Passes
<1>8. FreshIsBlank
  BY <1>1, <1>2 DEF Init, FreshIsBlank, Fresh
<1> QED
  BY <1>5, <1>7, <1>8, IdleOK DEF ShapeInv

LEMMA StutterShape == ASSUME ShapeInv, UNCHANGED vars PROVE ShapeInv'
  BY DEF ShapeInv, TypeOK, Shaped, Touched, FreshIsBlank, Fresh, vars

LEMMA NextShape == ASSUME ShapeInv, [Next]_vars PROVE ShapeInv'
<1>1. CASE \E j \in Jobs : PassStarts(j)
  BY <1>1, PassStartsShape
<1>2. CASE \E j \in Jobs : JobStep(j)
  BY <1>2, JobStepShape
<1>3. CASE \E j \in Jobs, p \in Protections : RowStep(j, p)
  BY <1>3, RowStepShape
<1>4. CASE \/ \E p \in Protections : ToggleAutoRenew(p) \/ DecideExpire(p) \/ Age(p)
           \/ \E p, n \in Protections : DecideRenew(p, n)
  BY <1>4, AsideShape
<1>5. CASE Restart
  BY <1>5, RestartShape
<1>6. CASE UNCHANGED vars
  BY <1>6, StutterShape
<1> QED
  BY <1>1, <1>2, <1>3, <1>4, <1>5, <1>6 DEF Next

-----------------------------------------------------------------------------
(* Sales. *)

\* What the steps have in common: job j goes from one pass to another, and what
\* is unsaid stays so.
LEMMA JobsOf ==
  ASSUME ShapeInv, NEW j \in Jobs
  PROVE  /\ job \in [Jobs -> Passes] /\ job[j] \in Passes /\ Shaped(job[j])
         /\ row \in [Protections -> Rows] /\ ledger \in [Protections -> Entries]
         /\ sold \in [Protections -> Nat]
         /\ \A q \in Touched(job[j]) : q \notin Fresh
         /\ job[j].todo \subseteq Touched(job[j])
         /\ job[j].on \in Protections => job[j].on \in Touched(job[j])
         /\ \A p : job[j].at # "idle" =>
              /\ Onward(j, p) \in Passes
              /\ Touched(Onward(j, p)) \subseteq Touched(job[j])
              /\ Onward(j, p).at \in {"idle", "next"}
              /\ Onward(j, p).on = NoRow /\ Onward(j, p).new = NoRow
              /\ Onward(j, p).kind \in {"none", job[j].kind}
              /\ Onward(j, p).over \subseteq job[j].over
  BY TypesOf, OnwardOK DEF ShapeInv, Touched

\* A step of job j that sells nothing and records no sale: it goes on with what
\* it had listed, or with another list.
Unsold(j) ==
  /\ \A i \in Jobs : i # j => job'[i] = job[i]
  /\ job'[j].kind = "manage" =>
       /\ job[j].kind = "manage" /\ job'[j].over \subseteq job[j].over
       /\ Touched(job'[j]) \subseteq Touched(job[j])
  /\ job[j].at # "record" /\ job'[j].at # "record"
  /\ \A p \in Protections : row'[p].hedge = row[p].hedge
  /\ UNCHANGED sold /\ unsaid \subseteq unsaid'

LEMMA SaleQuiet ==
  ASSUME SaleInv, ShapeInv', NEW j \in Jobs, Unsold(j)
  PROVE  SaleInv'
<1> DEFINE r == job'[j]
<1>0. r \in Passes
  BY DEF ShapeInv, TypeOK, Passes
<1>1. /\ r \in Passes /\ (\A i \in Jobs : i # j => job'[i] = job[i])
      /\ r.kind = "manage" => /\ job[j].kind = "manage" /\ r.over \subseteq job[j].over
                               /\ Touched(r) \subseteq Touched(job[j])
      /\ job[j].at # "record" /\ r.at # "record"
      /\ \A p \in Protections : row'[p].hedge = row[p].hedge
      /\ UNCHANGED sold /\ unsaid \subseteq unsaid'
  BY <1>0 DEF Unsold
<1> HIDE DEF r
<1>2. job[j].todo \cup ({job[j].on, job[j].new} \cap Protections) \subseteq Protections
  BY JobsOf DEF SaleInv, Passes
<1>3. ASSUME NEW i \in Jobs PROVE Selling(job[i])'
  <2>1. CASE i = j
    <3>1. \A p \in Touched(r) : p \in Protections
      BY <1>1 DEF Passes, Touched
    <3>2. r.kind = "manage" =>
            /\ \A p \in r.over : <<p, "sale">> \in unsaid'
            /\ \A p \in Touched(r) : row'[p].hedge # "none"
      BY <1>1, <3>1 DEF SaleInv, Selling
    <3> QED
      BY <1>1, <2>1, <3>2 DEF Selling, Touched, r
  <2>2. CASE i # j
    <3>1. \A p \in Touched(job[i]) : p \in Protections
      BY JobsOf DEF SaleInv, Passes, Touched
    <3> QED
      BY <1>1, <2>2, <3>1 DEF SaleInv, Selling, Touched
  <2> QED
    BY <2>1, <2>2
<1>4. HedgeSoldOnce'
  <2>1. \A i \in Jobs : IsAt(i, "manage", "record")' /\ job'[i].on \in job'[i].over =>
                          <<job'[i].on, "sale">> \in unsaid'
    BY <1>3 DEF Selling, IsAt
  <2>2. ASSUME NEW p \in Protections, Busy("manage", {"record"}, p)
        PROVE  Busy("manage", {"record"}, p)'
    BY <1>1, <2>2 DEF Busy
  <2> QED
    BY <1>1, <2>1, <2>2 DEF SaleInv, HedgeSoldOnce
<1> QED
  BY <1>3, <1>4 DEF SaleInv


At(r, at) == [r EXCEPT !.at = at]

LEMMA UnsoldStep ==
  ASSUME ShapeInv, NEW j \in Jobs,
         \/ \E p \in Protections : RowStep(j, p) /\ ~InsertRenewal(j, p)
                                     /\ ~SellHedge(j, p) /\ ~SettleExpiredHedge(j, p)
         \/ JobStep(j) /\ ~RecordSale(j)
         \/ PassStarts(j) /\ ~ListHedges(j)
  PROVE  Unsold(j)
<1>1. /\ job \in [Jobs -> Passes] /\ job[j] \in Passes /\ Shaped(job[j])
      /\ row \in [Protections -> Rows]
  BY JobsOf
<1>2. \A p : job[j].at # "idle" =>
         /\ Touched(Onward(j, p)) \subseteq Touched(job[j])
         /\ Onward(j, p).at \in {"idle", "next"}
         /\ Onward(j, p).kind \in {"none", job[j].kind}
         /\ Onward(j, p).over \subseteq job[j].over
  BY JobsOf
<1>3. \A r : Goes(j, r) => job'[j] = r /\ \A i \in Jobs : i # j => job'[i] = job[i]
  BY <1>1 DEF Goes
<1>4. /\ Idle.kind = "none" /\ Idle.at = "idle"
      /\ \A p, at : Works(j, p, at).kind = job[j].kind /\ Works(j, p, at).at = at
      /\ \A at : At(job[j], at).kind = job[j].kind /\ At(job[j], at).at = at
  BY <1>1, IdleOK DEF Works, At, Passes
<1>5. ASSUME NEW p \in Protections, Trigger(j, p) PROVE Unsold(j)
  <2>1. \A q \in Protections : row'[q].hedge = row[q].hedge
    BY <1>1, <1>5, TriggeredOK DEF Trigger
  <2>2. CASE row[p].status = "active"
    BY <1>1, <1>3, <1>4, <1>5, <2>1, <2>2 DEF Unsold, Trigger, IsAt
  <2>3. CASE row[p].status # "active"
    BY <1>2, <1>3, <1>5, <2>1, <2>3 DEF Unsold, Trigger, IsAt
  <2> QED
    BY <2>2, <2>3
<1>6. ASSUME NEW p \in Protections, BuyRenewal(j, p) PROVE Unsold(j)
  BY <1>1, <1>3, <1>4, <1>6 DEF Unsold, BuyRenewal, IsAt
<1>7. ASSUME NEW p \in Protections, ReadForExpiry(j, p) PROVE Unsold(j)
  <2>1. CASE row[p].status \in {"active", "awaiting_expiry_price"} /\ Expired(p)
    <3> DEFINE r == [Works(j, p, "price") EXCEPT !.seen = row[p].status]
    <3>1. r.kind = job[j].kind /\ r.at = "price"
      BY <1>1 DEF Works, Passes
    <3>2. Goes(j, r) /\ IsAt(j, "resolve", "next") /\ UNCHANGED <<row, sold, unsaid>>
      BY <1>7, <2>1 DEF ReadForExpiry
    <3> HIDE DEF r
    <3> QED
      BY <1>1, <1>3, <3>1, <3>2 DEF Unsold, IsAt
  <2>2. CASE ~(row[p].status \in {"active", "awaiting_expiry_price"} /\ Expired(p))
    BY <1>1, <1>2, <1>3, <1>7, <2>2 DEF Unsold, ReadForExpiry, IsAt
  <2> QED
    BY <2>1, <2>2
<1>8. ASSUME NEW p \in Protections, PassOver(j, p) PROVE Unsold(j)
  BY <1>1, <1>2, <1>3, <1>8 DEF Unsold, PassOver
<1>9. CASE OweTrigger(j)
  BY <1>1, <1>2, <1>3, <1>4, <1>9 DEF Unsold, OweTrigger, IsAt
<1>10. CASE RenewalThrows(j)
  BY <1>1, <1>2, <1>3, <1>10 DEF Unsold, RenewalThrows
<1>11. CASE HydrateRenewal(j)
  <2>1. \A q \in Protections : row'[q].hedge = row[q].hedge
    BY <1>1, <1>11 DEF HydrateRenewal, Rows
  <2>2. Goes(j, At(job[j], "premium")) /\ IsAt(j, "renew", "hydrate") /\ UNCHANGED <<sold, unsaid>>
    BY <1>11 DEF HydrateRenewal, At
  <2> QED
    BY <1>1, <1>3, <1>4, <2>1, <2>2 DEF Unsold, IsAt
<1>12. CASE OwePremium(j)
  <2>1. Goes(j, At(job[j], "mark")) /\ IsAt(j, "renew", "premium") /\ UNCHANGED <<row, sold, unsaid>>
    BY <1>12 DEF OwePremium, At
  <2> QED
    BY <1>1, <1>3, <1>4, <2>1 DEF Unsold, IsAt
<1>13. CASE MarkRenewed(j)
  <2>1. \A q \in Protections : row'[q].hedge = row[q].hedge
    BY <1>1, <1>13 DEF MarkRenewed, Rows
  <2> QED
    BY <1>1, <1>2, <1>3, <1>13, <2>1 DEF Unsold, MarkRenewed, IsAt
<1>14. CASE PriceFails(j)
  BY <1>1, <1>3, <1>4, <1>14 DEF Unsold, PriceFails, IsAt
<1>15. CASE OweExpiry(j)
  BY <1>1, <1>2, <1>3, <1>4, <1>15 DEF Unsold, OweExpiry, IsAt
<1>16. CASE AwaitPrice(j)
  <2>1. \A q \in Protections : row'[q].hedge = row[q].hedge
    BY <1>1, <1>16 DEF AwaitPrice, Rows
  <2> QED
    BY <1>1, <1>2, <1>3, <1>4, <1>16, <2>1 DEF Unsold, AwaitPrice, IsAt
<1>17. CASE SettlePayout(j)
  BY <1>1, <1>3, <1>4, <1>17 DEF Unsold, SettlePayout, IsAt
<1>18. CASE \E payout \in {"itm", "zero"} : Resolve(j, payout)
  <2>0. job[j].on \in Protections
    BY <1>1, <1>18 DEF Resolve, IsAt, Shaped
  <2>1. CASE Resolve(j, "itm")
    <3>1. \A q \in Protections : row'[q].hedge = row[q].hedge
      BY <1>1, <2>0, <2>1, InTheMoneyOK DEF Resolve
    <3> DEFINE r == [At(job[j], "due") EXCEPT !.seen = "expired_itm"]
    <3>2. r.kind = job[j].kind /\ r.at = "due"
      BY <1>1 DEF At, Passes
    <3>3. Goes(j, r) /\ IsAt(j, "resolve", "price") /\ UNCHANGED <<sold, unsaid>>
      BY <2>1 DEF Resolve, At
    <3> HIDE DEF r
    <3> QED
      BY <1>1, <1>3, <3>1, <3>2, <3>3 DEF Unsold, IsAt
  <2>2. CASE Resolve(j, "zero")
    <3>1. \A q \in Protections : row'[q].hedge = row[q].hedge
      BY <1>1, <2>0, <2>2, OutOfTheMoneyOK DEF Resolve
    <3> QED
      BY <1>1, <1>2, <1>3, <2>2, <3>1 DEF Unsold, Resolve, IsAt
  <2> QED
    BY <1>18, <2>1, <2>2
<1>19. ASSUME NEW kind \in {"monitor", "renew", "resolve"}, NEW rows, NEW over,
              Start(j, kind, rows, over)
       PROVE  Unsold(j)
  <2> DEFINE r == [Idle EXCEPT !.kind = kind, !.at = "next", !.todo = rows, !.over = over \cap rows]
  <2>1. r.kind = kind /\ r.at = "next"
    BY DEF Idle
  <2>2. Goes(j, r) /\ job[j].at = "idle" /\ UNCHANGED <<row, sold, unsaid>>
    BY <1>19 DEF Start, Goes
  <2> HIDE DEF r
  <2> QED
    BY <1>1, <1>3, <2>1, <2>2 DEF Unsold
<1>20. ASSUME NEW p \in Protections, ReadForSettling(j, p) PROVE Unsold(j)
  <2> DEFINE m == [Idle EXCEPT !.kind = "settle", !.at = "settle", !.on = p]
             r == [m EXCEPT !.paid = ledger[p].settled]
  <2>1. r.kind = "settle" /\ r.at = "settle"
    BY DEF Idle
  <2>2. Goes(j, r) /\ job[j].at = "idle" /\ UNCHANGED <<row, sold, unsaid>>
    BY <1>20 DEF ReadForSettling
  <2> HIDE DEF r
  <2> QED
    BY <1>1, <1>3, <2>1, <2>2 DEF Unsold
<1>21. CASE PassStarts(j) /\ ~ListHedges(j)
  BY <1>19, <1>20, <1>21
  DEF PassStarts, ListForTrigger, ListForRenewal, ListForExpiry, ResolveByAdmin
<1> QED
  BY <1>5, <1>6, <1>7, <1>8, <1>9, <1>10, <1>11, <1>12, <1>13, <1>14, <1>15, <1>16, <1>17,
     <1>18, <1>21 DEF RowStep, JobStep

\* A step of job j that sells a hedge, records a sale, or changes a hedge.
LEMMA SaleStep ==
  ASSUME SaleInv, ShapeInv', NEW j \in Jobs, NEW p \in Protections,
         \A i \in Jobs : i # j => job'[i] = job[i],
         \A q \in Protections \ {p} : row'[q].hedge = row[q].hedge /\ sold'[q] = sold[q],
         row'[p].hedge = "none" => row[p].hedge = "none",
         sold[p] <= sold'[p],
         unsaid \subseteq unsaid',
         Selling(job[j])',
         \A q \in Protections \ {p} : job[j].at = "record" => job[j].on # q,
         row'[p].hedge = "tp_sold" => sold'[p] > 0,
         row'[p].hedge = "active" /\ sold'[p] > 0 =>
           Busy("manage", {"record"}, p)' \/ <<p, "sale">> \in unsaid'
  PROVE  SaleInv'
<1>1. ASSUME NEW i \in Jobs PROVE Selling(job[i])'
  <2>1. CASE i = j
    BY <2>1
  <2>2. CASE i # j
    <3>1. /\ \A q \in Touched(job[i]) : q \in Protections
          /\ job[i].at = "record" => job[i].on \in Protections
          /\ sold \in [Protections -> Nat] /\ sold' \in [Protections -> Nat]
      BY JobsOf DEF SaleInv, ShapeInv, TypeOK, Passes, Touched, Shaped
    <3> QED
      BY <2>2, <3>1 DEF SaleInv, Selling, Touched
  <2> QED
    BY <2>1, <2>2
<1>2. HedgeSoldOnce'
  <2>1. \A i \in Jobs : IsAt(i, "manage", "record")' /\ job'[i].on \in job'[i].over =>
                          <<job'[i].on, "sale">> \in unsaid'
    BY <1>1 DEF Selling, IsAt
  <2>2. ASSUME NEW q \in Protections \ {p}, Busy("manage", {"record"}, q)
        PROVE  Busy("manage", {"record"}, q)'
    BY <2>2 DEF Busy
  <2> QED
    BY <2>1, <2>2 DEF SaleInv, HedgeSoldOnce
<1> QED
  BY <1>1, <1>2 DEF SaleInv

LEMMA NextSale == ASSUME SaleInv, ShapeInv', [Next]_vars PROVE SaleInv'
<1> USE DEF SaleInv
<1>1. /\ row \in [Protections -> Rows] /\ sold \in [Protections -> Nat]
      /\ \A j \in Jobs : job[j] \in Passes /\ job'[j] \in Passes /\ Shaped(job[j])
      /\ job \in [Jobs -> Passes]
  BY TypesOf DEF ShapeInv, TypeOK, Passes
<1>2. ASSUME NEW j \in Jobs, NEW p \in Protections, InsertRenewal(j, p) PROVE SaleInv'
  <2> DEFINE m == NewRow("active", "active", FALSE, TRUE)
             r == [At(job[j], "hydrate") EXCEPT !.new = p]
  <2>1. /\ Goes(j, r) /\ p \in Fresh /\ IsAt(j, "renew", "insert")
        /\ row' = [row EXCEPT ![p] = m]
        /\ UNCHANGED <<sold, unsaid>>
    BY <1>2 DEF InsertRenewal, At
  <2>2. m.hedge = "active"
    BY DEF NewRow
  <2>3. r.kind = job[j].kind /\ r.at = "hydrate"
    BY <1>1 DEF At, Passes
  <2> HIDE DEF m, r
  <2>4. job'[j] = r /\ \A i \in Jobs : i # j => job'[i] = job[i]
    BY <1>1, <2>1 DEF Goes
  <2>5. Selling(job[j])'
    BY <2>1, <2>3, <2>4 DEF Selling, IsAt
  <2>6. sold[p] = 0 /\ row[p].hedge = "none"
    BY <2>1 DEF ShapeInv, FreshIsBlank
  <2> QED
    <3>1. /\ \A q \in Protections \ {p} : row'[q].hedge = row[q].hedge /\ sold'[q] = sold[q]
          /\ row'[p].hedge = "active" /\ sold[p] <= sold'[p] /\ ~(sold'[p] > 0)
          /\ unsaid \subseteq unsaid' /\ job[j].at # "record"
      BY <1>1, <2>1, <2>2, <2>6 DEF IsAt
    <3> QED
      BY <2>4, <2>5, <3>1, SaleStep
<1>3. ASSUME NEW j \in Jobs, NEW p \in Protections, SellHedge(j, p) PROVE SaleInv'
  <2>1. /\ Goes(j, Works(j, p, "record")) /\ IsAt(j, "manage", "next") /\ p \in job[j].todo
        /\ sold' = [sold EXCEPT ![p] = @ + 1] /\ UNCHANGED <<row, unsaid>>
    BY <1>3 DEF SellHedge
  <2> DEFINE r == Works(j, p, "record")
  <2>2. /\ r.kind = job[j].kind /\ r.at = "record" /\ r.on = p /\ r.over = job[j].over
        /\ r.todo = job[j].todo /\ r.new = job[j].new
    BY <1>1 DEF Works, Passes
  <2> HIDE DEF r
  <2>3. job'[j] = r /\ \A i \in Jobs : i # j => job'[i] = job[i]
    BY <1>1, <2>1 DEF Goes, r
  <2>4. Touched(r) = Touched(job[j])
    BY <2>1, <2>2, <1>1 DEF Touched, Passes, Shaped, IsAt
  <2>5. sold'[p] > 0 /\ sold[p] <= sold'[p] /\ \A q \in Protections \ {p} : sold'[q] = sold[q]
    BY <1>1, <2>1
  <2>6. Selling(job[j])'
    BY <2>1, <2>2, <2>3, <2>4, <2>5 DEF Selling, IsAt, Touched
  <2>7. Busy("manage", {"record"}, p)'
    BY <2>1, <2>2, <2>3 DEF Busy, IsAt
  <2> QED
    BY <1>1, <2>1, <2>3, <2>5, <2>6, <2>7, SaleStep DEF IsAt, HedgeSoldOnce
<1>4. ASSUME NEW j \in Jobs, RecordSale(j) PROVE SaleInv'
  <2> DEFINE p == job[j].on
             r == Onward(j, p)
  <2>1. /\ IsAt(j, "manage", "record") /\ Goes(j, r) /\ UNCHANGED sold
        /\ \/ row' = [row EXCEPT ![p].hedge = "tp_sold"] /\ UNCHANGED unsaid
           \/ unsaid' = unsaid \cup {<<p, "sale">>} /\ UNCHANGED row
    BY <1>4 DEF RecordSale
  <2>2. p \in Protections /\ sold[p] > 0 /\ job[j].at # "idle"
    BY <1>1, <2>1 DEF Shaped, IsAt, Selling
  <2>3. /\ Touched(r) \subseteq Touched(job[j]) /\ r.at \in {"idle", "next"}
        /\ r.kind \in {"none", job[j].kind} /\ r.over \subseteq job[j].over
    BY <2>2, JobsOf
  <2> HIDE DEF p, r
  <2>4. job'[j] = r /\ \A i \in Jobs : i # j => job'[i] = job[i]
    BY <1>1, <2>1 DEF Goes
  <2>5. \A q \in Touched(job[j]) : q \in Protections
    BY <1>1 DEF Passes, Touched
  <2>6. /\ \A q \in Protections \ {p} : row'[q].hedge = row[q].hedge
        /\ row'[p].hedge \in {row[p].hedge, "tp_sold"}
        /\ row'[p].hedge = "tp_sold" \/ <<p, "sale">> \in unsaid'
    BY <1>1, <2>1, <2>2 DEF Rows
  <2>7. Selling(job[j])'
    <3>1. \A q \in Touched(r) : row'[q].hedge # "none"
      BY <2>1, <2>3, <2>5, <2>6 DEF Selling, IsAt
    <3> QED
      BY <2>1, <2>3, <2>4, <3>1 DEF Selling, IsAt, Touched
  <2>8. sold[p] <= sold'[p] /\ sold'[p] > 0
    BY <1>1, <2>1, <2>2
  <2> QED
    BY <2>1, <2>2, <2>4, <2>6, <2>7, <2>8, SaleStep DEF p, IsAt
<1>5. ASSUME NEW j \in Jobs, NEW p \in Protections, SettleExpiredHedge(j, p) PROVE SaleInv'
  <2> DEFINE r == Onward(j, p)
  <2>1. /\ IsAt(j, "manage", "next") /\ Goes(j, r) /\ UNCHANGED <<sold, unsaid>>
        /\ row' = [row EXCEPT ![p].hedge = "expired_settled"]
    BY <1>5 DEF SettleExpiredHedge
  <2>2. /\ Touched(r) \subseteq Touched(job[j]) /\ r.at \in {"idle", "next"}
        /\ r.kind \in {"none", job[j].kind} /\ r.over \subseteq job[j].over
    BY <2>1, JobsOf DEF IsAt
  <2> HIDE DEF r
  <2>3. job'[j] = r /\ \A i \in Jobs : i # j => job'[i] = job[i]
    BY <1>1, <2>1 DEF Goes
  <2>4. \A q \in Touched(job[j]) : q \in Protections
    BY <1>1 DEF Passes, Touched
  <2>5. /\ \A q \in Protections \ {p} : row'[q].hedge = row[q].hedge
        /\ row'[p].hedge = "expired_settled"
    BY <1>1, <2>1 DEF Rows
  <2>6. Selling(job[j])'
    <3>1. \A q \in Touched(r) : row'[q].hedge # "none"
      BY <2>1, <2>2, <2>4, <2>5 DEF Selling, IsAt
    <3> QED
      BY <2>1, <2>2, <2>3, <3>1 DEF Selling, IsAt, Touched
  <2> QED
    <3>1. /\ \A q \in Protections \ {p} : row'[q].hedge = row[q].hedge /\ sold'[q] = sold[q]
          /\ row'[p].hedge = "expired_settled" /\ sold[p] <= sold'[p]
          /\ unsaid \subseteq unsaid' /\ job[j].at # "record"
      BY <1>1, <2>1, <2>5 DEF IsAt
    <3> QED
      BY <2>3, <2>6, <3>1, SaleStep
<1>6. ASSUME NEW j \in Jobs, ListHedges(j) PROVE SaleInv'
  <2> DEFINE rows == {p \in Protections : /\ row[p].hedge = "active"
                                          /\ row[p].hydrated
                                          /\ Managed(p)}
             over == {p \in Protections : sold[p] > 0 /\ ~Busy("manage", {"record"}, p)}
             r == [Idle EXCEPT !.kind = "manage", !.at = "next", !.todo = rows,
                               !.over = over \cap rows]
  <2>1. Start(j, "manage", rows, over)
    BY <1>6 DEF ListHedges
  <2>2. Goes(j, r) /\ job[j].at = "idle" /\ UNCHANGED <<row, sold, unsaid>>
    BY <2>1 DEF Start, Goes
  <2>3. /\ r.kind = "manage" /\ r.at = "next" /\ r.todo = rows /\ r.over = over \cap rows
        /\ r.on = NoRow /\ r.new = NoRow
    BY DEF Idle
  <2> HIDE DEF r
  <2>4. job'[j] = r /\ \A i \in Jobs : i # j => job'[i] = job[i]
    BY <1>1, <2>2 DEF Goes
  <2>5. Touched(r) = rows
    BY <2>3, RootAssumption DEF Touched
  <2>6. \A p \in r.over : <<p, "sale">> \in unsaid
    BY <2>3 DEF HedgeSoldOnce
  <2>7. Selling(job[j])'
    BY <2>2, <2>3, <2>4, <2>5, <2>6 DEF Selling, Touched
  <2>8. \A p : Busy("manage", {"record"}, p) => Busy("manage", {"record"}, p)'
    BY <2>2, <2>4 DEF Busy
  <2> QED
    <3>1. /\ Root \in Protections /\ \A q \in Protections : row'[q] = row[q] /\ sold'[q] = sold[q]
          /\ sold[Root] <= sold'[Root] /\ unsaid \subseteq unsaid'
      BY <1>1, <2>2, RootAssumption
    <3>2. /\ row'[Root].hedge = "tp_sold" => sold'[Root] > 0
          /\ row'[Root].hedge = "active" /\ sold'[Root] > 0 =>
               Busy("manage", {"record"}, Root)' \/ <<Root, "sale">> \in unsaid'
      BY <2>8, <3>1 DEF HedgeSoldOnce
    <3> QED
      BY <2>2, <2>4, <2>7, <3>1, <3>2, SaleStep
<1>7. ASSUME NEW j \in Jobs, PassStarts(j) \/ JobStep(j) \/ \E p \in Protections : RowStep(j, p)
      PROVE  SaleInv'
  BY <1>2, <1>3, <1>4, <1>5, <1>6, <1>7, UnsoldStep, SaleQuiet
<1>8. CASE \/ \E p \in Protections : ToggleAutoRenew(p) \/ DecideExpire(p) \/ Age(p)
           \/ \E p, n \in Protections : DecideRenew(p, n)
  <2>1. UNCHANGED <<sold, job, unsaid>>
    BY <1>8 DEF ToggleAutoRenew, DecideExpire, Age, DecideRenew
  <2>2. \A q \in Protections : row'[q].hedge = row[q].hedge
    <3>1. CASE \E p \in Protections : ToggleAutoRenew(p) \/ DecideExpire(p) \/ Age(p)
      BY <1>1, <3>1, AsideOK DEF ToggleAutoRenew, DecideExpire, Age
    <3>2. CASE \E p, n \in Protections : DecideRenew(p, n)
      <4>1. PICK p \in Protections, n \in Protections : DecideRenew(p, n)
        BY <3>2
      <4>2. /\ \A q \in Protections \ {n} : row'[q] = row[q]
            /\ row'[n].hedge = "none"
        BY <4>1, DecideRenewOK
      <4>3. n \in Fresh
        BY <4>1 DEF DecideRenew
      <4> QED
        BY <4>2, <4>3 DEF ShapeInv, FreshIsBlank
    <3> QED
      BY <1>8, <3>1, <3>2
  <2>3. \A j \in Jobs : \A q \in Touched(job[j]) : q \in Protections
    BY <1>1 DEF Passes, Touched
  <2> QED
    BY <2>1, <2>2, <2>3 DEF Selling, HedgeSoldOnce, Busy, IsAt, Touched
<1>9. CASE Restart
  <2>1. /\ UNCHANGED <<row, sold>> /\ unsaid' = unsaid \cup UNION {Unfinished(j) : j \in Jobs}
        /\ \A j \in Jobs : job'[j] = Idle
    BY <1>9 DEF Restart
  <2>2. \A j \in Jobs : Selling(job[j])' /\ ~IsAt(j, "manage", "record")'
    BY <2>1, IdleOK DEF Selling, IsAt
  <2>3. ASSUME NEW p \in Protections, Busy("manage", {"record"}, p) PROVE <<p, "sale">> \in unsaid'
    <3>1. PICK j \in Jobs : job[j].at = "record" /\ job[j].on = p
      BY <2>3 DEF Busy
    <3>2. <<p, "sale">> \in Unfinished(j)
      BY <3>1 DEF Unfinished
    <3> QED
      BY <2>1, <3>2
  <2> QED
    BY <2>1, <2>2, <2>3 DEF HedgeSoldOnce
<1>10. CASE UNCHANGED vars
  BY <1>10 DEF vars, Selling, HedgeSoldOnce, Busy, IsAt, Touched
<1> QED
  BY <1>7, <1>8, <1>9, <1>10 DEF Next

-----------------------------------------------------------------------------
(* Renewals. *)

RowAccounted(n) ==
  row[n].hedge # "none" =>
    \/ row[n].hydrated /\ ledger[n].premium = 1
    \/ \E j \in Jobs : job[j].new = n
    \/ <<n, "renewal">> \in unsaid

\* What a step of job j has to show.
LEMMA RenewalStep ==
  ASSUME RenewalInv, ShapeInv', NEW j \in Jobs,
         \A i \in Jobs : i # j => job'[i] = job[i],
         unsaid \subseteq unsaid',
         Renewing(job[j])',
         \A i \in Jobs : i # j /\ job[i].new # NoRow => job'[j].new # job[i].new,
         \A q \in Protections \ Fresh : q # job[j].new =>
           ledger'[q].premium = ledger[q].premium /\ (row[q].hydrated => row'[q].hydrated),
         RenewedIsClosed',
         \A n \in Protections : RowAccounted(n)'
  PROVE  RenewalInv'
<1>1. ASSUME NEW i \in Jobs PROVE Renewing(job[i])'
  <2>1. CASE i = j
    BY <2>1
  <2>2. CASE i # j
    <3>1. job[i] \in Passes /\ Shaped(job[i]) /\ \A q \in Touched(job[i]) : q \notin Fresh
      BY JobsOf DEF RenewalInv
    <3>2. job[i].at \in {"hydrate", "premium", "mark"} =>
            job[i].new \in Protections \ Fresh /\ job[i].new # job[j].new
      BY <2>2, <3>1, RootAssumption DEF RenewalInv, Shaped, Touched
    <3> QED
      BY <2>2, <3>1, <3>2 DEF RenewalInv, Renewing
  <2> QED
    BY <2>1, <2>2
<1>2. \A i, k \in Jobs : i # k /\ job'[i].new = job'[k].new => job'[i].new = NoRow
  BY DEF RenewalInv
<1>3. RenewalAccounted'
  BY <1>1 DEF Renewing, RenewalAccounted, RowAccounted, IsAt
<1> QED
  BY <1>1, <1>2, <1>3 DEF RenewalInv

\* A step of job j that buys no renewal, records none and is not within one.
Unrenewed(j) ==
  /\ \A i \in Jobs : i # j => job'[i] = job[i]
  /\ job[j].kind = "renew" => job[j].at = "next"
  /\ job'[j].new = NoRow
  /\ job'[j].at \notin {"hydrate", "premium", "mark"}
  /\ job'[j].kind = "renew" => job[j].kind = "renew" /\ job'[j].over \subseteq job[j].over
  /\ renewed' = renewed /\ unsaid \subseteq unsaid'
  /\ \A p \in Protections :
       /\ ledger'[p].premium = ledger[p].premium
       /\ row'[p].hydrated = row[p].hydrated
       /\ row'[p].hedge = "none" <=> row[p].hedge = "none"
       /\ row'[p].status \in {"active", "triggered"} => row[p].status \in {"active", "triggered"}

LEMMA RenewalQuiet ==
  ASSUME RenewalInv, ShapeInv', NEW j \in Jobs, Unrenewed(j)
  PROVE  RenewalInv'
<1>1. job[j] \in Passes /\ Shaped(job[j])
  BY JobsOf DEF RenewalInv
<1>2. job[j].new = NoRow
  BY <1>1 DEF Shaped, Unrenewed
<1>3. Renewing(job[j])'
  BY DEF RenewalInv, Renewing, Unrenewed
<1>4. RenewedIsClosed'
  <2>1. job[j].kind = "renew" => job[j].on = NoRow
    BY <1>1 DEF Shaped, Unrenewed
  <2>2. \A p \in renewed : p # NoRow
    BY RootAssumption DEF RenewalInv, ShapeInv, TypeOK
  <2>3. renewed \subseteq Protections
    BY DEF RenewalInv, ShapeInv, TypeOK
  <2>4. ASSUME NEW p \in renewed, NEW i \in Jobs, job[i].kind = "renew", job[i].on = p
        PROVE  job'[i].kind = "renew" /\ job'[i].on = p
    BY <2>1, <2>2, <2>4 DEF Unrenewed
  <2>5. \A p \in renewed :
          row'[p].status \in {"active", "triggered"} => row[p].status \in {"active", "triggered"}
    BY <2>3 DEF Unrenewed
  <2>6. renewed' = renewed /\ unsaid \subseteq unsaid'
    BY DEF Unrenewed
  <2> QED
    BY <2>4, <2>5, <2>6 DEF RenewalInv, RenewedIsClosed
<1>5. ASSUME NEW n \in Protections PROVE RowAccounted(n)'
  <2>1. n # NoRow
    BY RootAssumption
  <2>2. (\E i \in Jobs : job[i].new = n) => \E i \in Jobs : job'[i].new = n
    BY <1>2, <2>1 DEF Unrenewed
  <2> QED
    BY <2>2 DEF RenewalInv, RenewalAccounted, RowAccounted, Unrenewed
<1> QED
  BY <1>3, <1>4, <1>5, RenewalStep DEF Unrenewed

LEMMA UnrenewedStep ==
  ASSUME SaleInv, NEW j \in Jobs,
         \/ \E p \in Protections : RowStep(j, p) /\ ~InsertRenewal(j, p) /\ ~BuyRenewal(j, p)
         \/ /\ JobStep(j) /\ ~RenewalThrows(j) /\ ~HydrateRenewal(j)
            /\ ~OwePremium(j) /\ ~MarkRenewed(j)
         \/ PassStarts(j) /\ ~ListForRenewal(j)
  PROVE  Unrenewed(j)
<1>1. /\ job \in [Jobs -> Passes] /\ job[j] \in Passes /\ Shaped(job[j])
      /\ row \in [Protections -> Rows] /\ ledger \in [Protections -> Entries]
  BY JobsOf DEF SaleInv
<1>2. \A p : job[j].at # "idle" =>
         /\ Onward(j, p).at \in {"idle", "next"} /\ Onward(j, p).new = NoRow
         /\ Onward(j, p).kind \in {"none", job[j].kind}
         /\ Onward(j, p).over \subseteq job[j].over
  BY JobsOf DEF SaleInv
<1>3. \A r : Goes(j, r) => job'[j] = r /\ \A i \in Jobs : i # j => job'[i] = job[i]
  BY <1>1 DEF Goes
<1>4. /\ Idle.kind = "none" /\ Idle.at = "idle" /\ Idle.new = NoRow
      /\ \A p, at : /\ Works(j, p, at).kind = job[j].kind /\ Works(j, p, at).at = at
                    /\ Works(j, p, at).new = job[j].new
      /\ \A at : /\ At(job[j], at).kind = job[j].kind /\ At(job[j], at).at = at
                 /\ At(job[j], at).new = job[j].new
  BY <1>1, IdleOK DEF Works, At, Passes
<1>5. job[j].at \notin {"hydrate", "premium", "mark"} => job[j].new = NoRow
  BY <1>1 DEF Shaped
<1>6. ASSUME row' = row PROVE \A q \in Protections :
        /\ row'[q].hydrated = row[q].hydrated
        /\ row'[q].hedge = "none" <=> row[q].hedge = "none"
        /\ row'[q].status \in {"active", "triggered"} => row[q].status \in {"active", "triggered"}
  BY <1>6
<1>7. ASSUME NEW p \in Protections, \A q \in Protections \ {p} : row'[q] = row[q],
             row'[p].hedge = row[p].hedge, row'[p].hydrated = row[p].hydrated,
             row'[p].status \in {"active", "triggered"} => row[p].status \in {"active", "triggered"}
      PROVE  \A q \in Protections :
        /\ row'[q].hydrated = row[q].hydrated
        /\ row'[q].hedge = "none" <=> row[q].hedge = "none"
        /\ row'[q].status \in {"active", "triggered"} => row[q].status \in {"active", "triggered"}
  BY <1>7
<1>8. ASSUME NEW p \in Protections, Trigger(j, p) PROVE Unrenewed(j)
  <2>1. CASE row[p].status = "active"
    <3>1. /\ \A q \in Protections \ {p} : row'[q] = row[q]
          /\ row'[p].hedge = row[p].hedge /\ row'[p].hydrated = row[p].hydrated
      BY <1>1, <1>8, <2>1, TriggeredOK DEF Trigger
    <3> QED
      BY <1>1, <1>3, <1>4, <1>5, <1>7, <1>8, <2>1, <3>1 DEF Unrenewed, Trigger, IsAt
  <2>2. CASE row[p].status # "active"
    BY <1>2, <1>3, <1>6, <1>8, <2>2 DEF Unrenewed, Trigger, IsAt
  <2> QED
    BY <2>1, <2>2
<1>9. ASSUME NEW p \in Protections, ReadForExpiry(j, p) PROVE Unrenewed(j)
  <2>1. CASE row[p].status \in {"active", "awaiting_expiry_price"} /\ Expired(p)
    <3> DEFINE r == [Works(j, p, "price") EXCEPT !.seen = row[p].status]
    <3>1. r.kind = job[j].kind /\ r.at = "price" /\ r.new = job[j].new
      BY <1>1 DEF Works, Passes
    <3>2. /\ Goes(j, r) /\ IsAt(j, "resolve", "next")
          /\ UNCHANGED <<row, ledger, renewed, unsaid>>
      BY <1>9, <2>1 DEF ReadForExpiry
    <3> HIDE DEF r
    <3> QED
      BY <1>3, <1>5, <1>6, <3>1, <3>2 DEF Unrenewed, IsAt
  <2>2. CASE ~(row[p].status \in {"active", "awaiting_expiry_price"} /\ Expired(p))
    BY <1>2, <1>3, <1>6, <1>9, <2>2 DEF Unrenewed, ReadForExpiry, IsAt
  <2> QED
    BY <2>1, <2>2
<1>10. ASSUME NEW p \in Protections, PassOver(j, p) PROVE Unrenewed(j)
  BY <1>2, <1>3, <1>6, <1>10 DEF Unrenewed, PassOver
<1>11. ASSUME NEW p \in Protections, SellHedge(j, p) PROVE Unrenewed(j)
  BY <1>3, <1>4, <1>5, <1>6, <1>11 DEF Unrenewed, SellHedge, IsAt
<1>12. ASSUME NEW p \in Protections, SettleExpiredHedge(j, p) PROVE Unrenewed(j)
  <2>1. row[p].hedge # "none"
    BY <1>12 DEF SettleExpiredHedge, IsAt, SaleInv, Selling, Touched
  <2>2. \A q \in Protections :
          /\ row'[q].hydrated = row[q].hydrated /\ row'[q].status = row[q].status
          /\ row'[q].hedge = "none" <=> row[q].hedge = "none"
    BY <1>1, <1>12, <2>1 DEF SettleExpiredHedge, Rows
  <2> QED
    BY <1>2, <1>3, <1>12, <2>2 DEF Unrenewed, SettleExpiredHedge, IsAt
<1>13. CASE OweTrigger(j)
  <2>1. \A q \in Protections : ledger'[q].premium = ledger[q].premium
    BY <1>1, <1>13 DEF OweTrigger, Entries
  <2> QED
    BY <1>2, <1>3, <1>4, <1>6, <1>13, <2>1 DEF Unrenewed, OweTrigger, IsAt
<1>14. CASE PriceFails(j)
  BY <1>3, <1>4, <1>5, <1>6, <1>14 DEF Unrenewed, PriceFails, IsAt
<1>15. CASE OweExpiry(j)
  <2>1. \A q \in Protections : ledger'[q].premium = ledger[q].premium
    BY <1>1, <1>15 DEF OweExpiry, Entries
  <2> QED
    BY <1>2, <1>3, <1>4, <1>5, <1>6, <1>15, <2>1 DEF Unrenewed, OweExpiry, IsAt
<1>16. CASE AwaitPrice(j)
  <2>1. \A q \in Protections :
          /\ row'[q].hydrated = row[q].hydrated /\ row'[q].hedge = row[q].hedge
          /\ row'[q].status \in {row[q].status, "awaiting_expiry_price"}
    BY <1>1, <1>16 DEF AwaitPrice, Rows
  <2> QED
    BY <1>2, <1>3, <1>4, <1>16, <2>1 DEF Unrenewed, AwaitPrice, IsAt
<1>17. CASE RecordSale(j)
  <2>1. row[job[j].on].hedge # "none" /\ job[j].on \in Protections
    BY <1>1, <1>17 DEF RecordSale, IsAt, SaleInv, Selling, Touched, Shaped
  <2>2. \A q \in Protections :
          /\ row'[q].hydrated = row[q].hydrated /\ row'[q].status = row[q].status
          /\ row'[q].hedge = "none" <=> row[q].hedge = "none"
    BY <1>1, <1>17, <2>1 DEF RecordSale, Rows
  <2> QED
    BY <1>2, <1>3, <1>17, <2>2 DEF Unrenewed, RecordSale, IsAt
<1>18. CASE SettlePayout(j)
  <2>1. \A q \in Protections : ledger'[q].premium = ledger[q].premium
    BY <1>1, <1>18 DEF SettlePayout, Entries
  <2> QED
    BY <1>3, <1>4, <1>6, <1>18, <2>1 DEF Unrenewed, SettlePayout, IsAt
<1>19. CASE \E payout \in {"itm", "zero"} : Resolve(j, payout)
  <2>0. job[j].on \in Protections
    BY <1>1, <1>19 DEF Resolve, IsAt, Shaped
  <2>1. CASE Resolve(j, "itm")
    <3>1. /\ \A q \in Protections \ {job[j].on} : row'[q] = row[q]
          /\ row'[job[j].on].hedge = row[job[j].on].hedge
          /\ row'[job[j].on].hydrated = row[job[j].on].hydrated
          /\ row'[job[j].on].status = "expired_itm"
      BY <1>1, <2>0, <2>1, InTheMoneyOK DEF Resolve
    <3> DEFINE r == [At(job[j], "due") EXCEPT !.seen = "expired_itm"]
    <3>2. r.kind = job[j].kind /\ r.at = "due" /\ r.new = job[j].new
      BY <1>1 DEF At, Passes
    <3>3. Goes(j, r) /\ IsAt(j, "resolve", "price") /\ UNCHANGED <<ledger, renewed, unsaid>>
      BY <2>1 DEF Resolve, At
    <3> HIDE DEF r
    <3> QED
      BY <1>3, <1>5, <1>7, <2>0, <3>1, <3>2, <3>3 DEF Unrenewed, IsAt
  <2>2. CASE Resolve(j, "zero")
    <3>1. /\ \A q \in Protections \ {job[j].on} : row'[q] = row[q]
          /\ row'[job[j].on].hedge = row[job[j].on].hedge
          /\ row'[job[j].on].hydrated = row[job[j].on].hydrated
          /\ row'[job[j].on].status = "expired_otm"
      BY <1>1, <2>0, <2>2, OutOfTheMoneyOK DEF Resolve
    <3>2. /\ Goes(j, Onward(j, job[j].on)) /\ IsAt(j, "resolve", "price")
          /\ UNCHANGED <<ledger, renewed, unsaid>>
      BY <2>2 DEF Resolve
    <3> QED
      BY <1>2, <1>3, <1>7, <2>0, <3>1, <3>2 DEF Unrenewed, IsAt
  <2> QED
    BY <1>19, <2>1, <2>2
<1>20. ASSUME NEW kind \in {"monitor", "resolve", "manage"}, NEW rows, NEW over,
              Start(j, kind, rows, over)
       PROVE  Unrenewed(j)
  <2> DEFINE r == [Idle EXCEPT !.kind = kind, !.at = "next", !.todo = rows, !.over = over \cap rows]
  <2>1. r.kind = kind /\ r.at = "next" /\ r.new = NoRow
    BY DEF Idle
  <2>2. Goes(j, r) /\ job[j].at = "idle" /\ UNCHANGED <<row, ledger, renewed, unsaid>>
    BY <1>20 DEF Start, Goes
  <2> HIDE DEF r
  <2> QED
    BY <1>1, <1>3, <1>6, <2>1, <2>2 DEF Unrenewed, Shaped
<1>21. ASSUME NEW p \in Protections, ReadForSettling(j, p) PROVE Unrenewed(j)
  <2> DEFINE m == [Idle EXCEPT !.kind = "settle", !.at = "settle", !.on = p]
             r == [m EXCEPT !.paid = ledger[p].settled]
  <2>1. r.kind = "settle" /\ r.at = "settle" /\ r.new = NoRow
    BY DEF Idle
  <2>2. Goes(j, r) /\ job[j].at = "idle" /\ UNCHANGED <<row, ledger, renewed, unsaid>>
    BY <1>21 DEF ReadForSettling
  <2> HIDE DEF r
  <2> QED
    BY <1>1, <1>3, <1>6, <2>1, <2>2 DEF Unrenewed, Shaped
<1>22. CASE PassStarts(j) /\ ~ListForRenewal(j)
  BY <1>20, <1>21, <1>22
  DEF PassStarts, ListForTrigger, ListHedges, ListForExpiry, ResolveByAdmin
<1> QED
  BY <1>8, <1>9, <1>10, <1>11, <1>12, <1>13, <1>14, <1>15, <1>16, <1>17, <1>18, <1>19, <1>22
  DEF RowStep, JobStep

\* A row that is accounted for stays so when job j changes no row, or only another.
LEMMA RowKeeps ==
  ASSUME RenewalInv, NEW j \in Jobs, NEW n \in Protections,
         \A i \in Jobs : i # j => job'[i] = job[i],
         unsaid \subseteq unsaid',
         row'[n].hedge = row[n].hedge, row[n].hydrated => row'[n].hydrated,
         ledger'[n].premium = ledger[n].premium,
         job[j].new = n => job'[j].new = n \/ <<n, "renewal">> \in unsaid'
                            \/ (row'[n].hydrated /\ ledger'[n].premium = 1)
  PROVE  RowAccounted(n)'
  BY DEF RenewalInv, RenewalAccounted, RowAccounted

\* So does a row that is renewed, unless it is opened again.
LEMMA ClosedKeeps ==
  ASSUME RenewalInv, NEW j \in Jobs, NEW p \in renewed,
         \A i \in Jobs : i # j => job'[i] = job[i],
         unsaid \subseteq unsaid',
         row'[p].status \in {"active", "triggered"} => row[p].status \in {"active", "triggered"},
         job[j].kind = "renew" /\ job[j].on = p =>
           \/ job'[j].kind = "renew" /\ job'[j].on = p
           \/ <<p, "renewal">> \in unsaid'
           \/ row'[p].status \notin {"active", "triggered"}
  PROVE  \/ row'[p].status \notin {"active", "triggered"}
         \/ \E i \in Jobs : job'[i].kind = "renew" /\ job'[i].on = p
         \/ <<p, "renewal">> \in unsaid'
  BY DEF RenewalInv, RenewedIsClosed

LEMMA NextRenewal == ASSUME RenewalInv, SaleInv, ShapeInv', [Next]_vars PROVE RenewalInv'
<1>1. /\ row \in [Protections -> Rows] /\ ledger \in [Protections -> Entries]
      /\ \A j \in Jobs : job[j] \in Passes /\ Shaped(job[j])
      /\ job \in [Jobs -> Passes] /\ renewed \subseteq Protections
  BY TypesOf DEF RenewalInv, ShapeInv
<1>2. \A j \in Jobs : \A r : Goes(j, r) => job'[j] = r /\ \A i \in Jobs : i # j => job'[i] = job[i]
  BY <1>1 DEF Goes
<1>3. ASSUME NEW j \in Jobs, ListForRenewal(j) PROVE RenewalInv'
  <2> DEFINE rows == {p \in Protections : Renewable(p)}
             over == {p \in Protections : \/ ~row[p].autoRenew
                                          \/ p \in renewed /\ ~Busy("renew", Places, p)}
             r == [Idle EXCEPT !.kind = "renew", !.at = "next", !.todo = rows,
                               !.over = over \cap rows]
  <2>1. Start(j, "renew", rows, over)
    BY <1>3 DEF ListForRenewal
  <2>2. Goes(j, r) /\ job[j].at = "idle" /\ UNCHANGED <<row, ledger, renewed, unsaid>>
    BY <2>1 DEF Start, Goes
  <2>3. r.kind = "renew" /\ r.at = "next" /\ r.over = over \cap rows /\ r.on = NoRow /\ r.new = NoRow
    BY DEF Idle
  <2>4. \A p \in r.over : <<p, "renewal">> \in unsaid
    <3>1. ASSUME NEW p \in over \cap rows PROVE <<p, "renewal">> \in unsaid
      <4>1. p \in renewed /\ row[p].status \in {"active", "triggered"} /\ ~Busy("renew", Places, p)
        BY <3>1 DEF Renewable
      <4>2. \A i \in Jobs : job[i].kind = "renew" => job[i].on # p
        BY <1>1, <4>1 DEF Busy, Passes
      <4> QED
        BY <4>1, <4>2 DEF RenewalInv, RenewedIsClosed
    <3> QED
      BY <2>3, <3>1
  <2> HIDE DEF r
  <2>5. job'[j] = r /\ \A i \in Jobs : i # j => job'[i] = job[i]
    BY <1>2, <2>2
  <2>6. Renewing(job[j])'
    BY <2>2, <2>3, <2>4, <2>5 DEF Renewing
  <2>7. job[j].kind = "none" /\ job[j].new = NoRow
    BY <1>1, <2>2 DEF Shaped
  <2>8. \A n \in Protections : RowAccounted(n)'
    BY <2>2, <2>5, <2>7, RowKeeps, RootAssumption
  <2>9. RenewedIsClosed'
    BY <2>2, <2>5, <2>7, ClosedKeeps DEF RenewedIsClosed
  <2> QED
    BY <2>2, <2>3, <2>5, <2>6, <2>8, <2>9, RenewalStep
<1>4. ASSUME NEW j \in Jobs, NEW p \in Protections, BuyRenewal(j, p) PROVE RenewalInv'
  <2> DEFINE r == Works(j, p, "insert")
  <2>1. /\ Goes(j, r) /\ IsAt(j, "renew", "next") /\ renewed' = renewed \cup {p}
        /\ UNCHANGED <<row, ledger, unsaid>>
    BY <1>4 DEF BuyRenewal
  <2>2. /\ r.kind = job[j].kind /\ r.at = "insert" /\ r.on = p /\ r.over = job[j].over
        /\ r.new = job[j].new
    BY <1>1 DEF Works, Passes
  <2> HIDE DEF r
  <2>3. job'[j] = r /\ \A i \in Jobs : i # j => job'[i] = job[i]
    BY <1>2, <2>1
  <2>4. job[j].on = NoRow /\ job[j].new = NoRow
    BY <1>1, <2>1 DEF Shaped, IsAt
  <2>5. Renewing(job[j])'
    BY <2>1, <2>2, <2>3 DEF Renewing, RenewalInv, IsAt
  <2>6. \A n \in Protections : RowAccounted(n)'
    BY <2>1, <2>3, <2>4, RowKeeps, RootAssumption
  <2>7. \A q \in renewed : q # NoRow
    BY <1>1, RootAssumption
  <2>8. RenewedIsClosed'
    BY <2>1, <2>2, <2>3, <2>4, <2>7, ClosedKeeps DEF RenewedIsClosed, IsAt
  <2> QED
    BY <2>1, <2>2, <2>3, <2>4, <2>5, <2>6, <2>8, RenewalStep
<1>5. ASSUME NEW j \in Jobs, NEW n \in Protections, InsertRenewal(j, n) PROVE RenewalInv'
  <2> DEFINE m == NewRow("active", "active", FALSE, TRUE)
             r == [At(job[j], "hydrate") EXCEPT !.new = n]
  <2>1. /\ Goes(j, r) /\ n \in Fresh /\ IsAt(j, "renew", "insert")
        /\ row' = [row EXCEPT ![n] = m]
        /\ UNCHANGED <<ledger, renewed, unsaid>>
    BY <1>5 DEF InsertRenewal, At
  <2>2. /\ r.kind = job[j].kind /\ r.at = "hydrate" /\ r.new = n /\ r.over = job[j].over
        /\ r.on = job[j].on
    BY <1>1 DEF At, Passes
  <2> HIDE DEF m, r
  <2>3. job'[j] = r /\ \A i \in Jobs : i # j => job'[i] = job[i]
    BY <1>2, <2>1
  <2>4. ledger[n].premium = 0 /\ n \notin renewed
    BY <2>1 DEF RenewalInv, ShapeInv, FreshIsBlank
  <2>5. Renewing(job[j])'
    BY <2>1, <2>2, <2>3, <2>4 DEF Renewing, RenewalInv, IsAt
  <2>6. job[j].new = NoRow
    BY <1>1, <2>1 DEF Shaped, IsAt
  <2>7. \A q \in Protections \ {n} : row'[q] = row[q]
    BY <1>1, <2>1
  <2>8. \A q \in Protections : RowAccounted(q)'
    <3>1. ASSUME NEW q \in Protections \ {n} PROVE RowAccounted(q)'
      BY <2>1, <2>3, <2>6, <2>7, RowKeeps, RootAssumption
    <3>2. RowAccounted(n)'
      BY <2>2, <2>3 DEF RowAccounted
    <3> QED
      BY <3>1, <3>2
  <2>9. RenewedIsClosed'
    BY <1>1, <2>1, <2>2, <2>3, <2>4, <2>7, ClosedKeeps DEF RenewedIsClosed
  <2>10. \A i \in Jobs : job[i].new # n
    BY <1>1, <2>1 DEF RenewalInv, ShapeInv, Touched
  <2> QED
    BY <2>1, <2>2, <2>3, <2>5, <2>7, <2>8, <2>9, <2>10, RenewalStep
<1>6. ASSUME NEW j \in Jobs, HydrateRenewal(j) PROVE RenewalInv'
  <2> DEFINE n == job[j].new
             r == At(job[j], "premium")
  <2>1. /\ Goes(j, r) /\ IsAt(j, "renew", "hydrate") /\ row' = [row EXCEPT ![n].hydrated = TRUE]
        /\ UNCHANGED <<ledger, renewed, unsaid>>
    BY <1>6 DEF HydrateRenewal, At
  <2>2. /\ r.kind = job[j].kind /\ r.at = "premium" /\ r.new = n /\ r.over = job[j].over
        /\ r.on = job[j].on
    BY <1>1 DEF At, Passes
  <2>3. n \in Protections /\ ledger[n].premium = 0
    BY <1>1, <2>1 DEF Shaped, IsAt, RenewalInv, Renewing
  <2>4. \A i \in Jobs : i # j => job[i].new # n
    BY <2>3, RootAssumption DEF RenewalInv
  <2> HIDE DEF n, r
  <2>5. job'[j] = r /\ \A i \in Jobs : i # j => job'[i] = job[i]
    BY <1>2, <2>1
  <2>6. /\ \A q \in Protections : row'[q].hedge = row[q].hedge /\ row'[q].status = row[q].status
                                    /\ (row[q].hydrated => row'[q].hydrated)
        /\ row'[n].hydrated
    BY <1>1, <2>1, <2>3 DEF Rows
  <2>7. Renewing(job[j])'
    BY <2>1, <2>2, <2>3, <2>5, <2>6 DEF Renewing, RenewalInv, IsAt
  <2>8. \A q \in Protections : RowAccounted(q)'
    BY <2>1, <2>2, <2>5, <2>6, RowKeeps DEF n
  <2>9. RenewedIsClosed'
    <3>1. renewed' = renewed /\ job'[j].kind = job[j].kind /\ job'[j].on = job[j].on
            /\ unsaid \subseteq unsaid'
      BY <2>1, <2>2, <2>5
    <3>2. \A q \in renewed : row'[q].status = row[q].status
      BY <1>1, <2>6
    <3> QED
      BY <2>5, <3>1, <3>2, ClosedKeeps DEF RenewedIsClosed
  <2> QED
    BY <2>1, <2>2, <2>4, <2>5, <2>6, <2>7, <2>8, <2>9, RenewalStep
<1>7. ASSUME NEW j \in Jobs, OwePremium(j) PROVE RenewalInv'
  <2> DEFINE n == job[j].new
             r == At(job[j], "mark")
  <2>1. /\ Goes(j, r) /\ IsAt(j, "renew", "premium")
        /\ ledger' = [ledger EXCEPT ![n].premium = @ + 1]
        /\ UNCHANGED <<row, renewed, unsaid>>
    BY <1>7 DEF OwePremium, At
  <2>2. /\ r.kind = job[j].kind /\ r.at = "mark" /\ r.new = n /\ r.over = job[j].over
        /\ r.on = job[j].on
    BY <1>1 DEF At, Passes
  <2>3. n \in Protections /\ ledger[n].premium = 0 /\ row[n].hydrated
    BY <1>1, <2>1 DEF Shaped, IsAt, RenewalInv, Renewing
  <2>4. \A i \in Jobs : i # j => job[i].new # n
    BY <2>3, RootAssumption DEF RenewalInv
  <2> HIDE DEF n, r
  <2>5. job'[j] = r /\ \A i \in Jobs : i # j => job'[i] = job[i]
    BY <1>2, <2>1
  <2>6. ledger'[n].premium = 1 /\ \A q \in Protections \ {n} : ledger'[q] = ledger[q]
    BY <1>1, <2>1, <2>3 DEF Entries
  <2>7. Renewing(job[j])'
    BY <2>1, <2>2, <2>3, <2>5, <2>6 DEF Renewing, RenewalInv, IsAt
  <2>8. \A q \in Protections : RowAccounted(q)'
    <3>1. ASSUME NEW q \in Protections \ {n} PROVE RowAccounted(q)'
      BY <2>1, <2>5, <2>6, RowKeeps DEF n
    <3>2. ASSUME NEW q \in Protections, q = n PROVE RowAccounted(q)'
      BY <2>2, <2>5, <3>2 DEF RowAccounted
    <3> QED
      BY <3>1, <3>2
  <2>9. RenewedIsClosed'
    BY <1>1, <2>1, <2>2, <2>5, ClosedKeeps DEF RenewedIsClosed, IsAt
  <2> QED
    BY <2>1, <2>2, <2>4, <2>5, <2>6, <2>7, <2>8, <2>9, RenewalStep DEF n
<1>8. ASSUME NEW j \in Jobs, MarkRenewed(j) PROVE RenewalInv'
  <2> DEFINE p == job[j].on
             n == job[j].new
             r == Onward(j, p)
  <2>1. /\ Goes(j, r) /\ IsAt(j, "renew", "mark")
        /\ row' = [row EXCEPT ![p].status = "expired_otm"]
        /\ UNCHANGED <<ledger, renewed, unsaid>>
    BY <1>8 DEF MarkRenewed
  <2>2. /\ r.at \in {"idle", "next"} /\ r.new = NoRow /\ r.on = NoRow
        /\ r.kind \in {"none", job[j].kind} /\ r.over \subseteq job[j].over
    BY <2>1, JobsOf DEF RenewalInv, IsAt
  <2>3. /\ p \in Protections /\ n \in Protections
        /\ ledger[n].premium = 1 /\ row[n].hydrated
    BY <1>1, <2>1 DEF Shaped, IsAt, RenewalInv, Renewing
  <2>4. \A i \in Jobs : i # j => job[i].new # n
    BY <2>3, RootAssumption DEF RenewalInv
  <2> HIDE DEF r
  <2>5. job'[j] = r /\ \A i \in Jobs : i # j => job'[i] = job[i]
    BY <1>2, <2>1
  <2>6. /\ \A q \in Protections : row'[q].hedge = row[q].hedge /\ row'[q].hydrated = row[q].hydrated
        /\ \A q \in Protections : row'[q].status \in {row[q].status, "expired_otm"}
        /\ row'[p].status = "expired_otm"
    BY <1>1, <2>1, <2>3 DEF Rows
  <2>7. Renewing(job[j])'
    BY <2>1, <2>2, <2>5 DEF Renewing, RenewalInv, IsAt
  <2>8. \A q \in Protections : RowAccounted(q)'
    BY <2>1, <2>3, <2>5, <2>6, RowKeeps
  <2>9. RenewedIsClosed'
    BY <1>1, <2>1, <2>5, <2>6, ClosedKeeps DEF RenewedIsClosed
  <2> QED
    BY <2>1, <2>2, <2>5, <2>6, <2>7, <2>8, <2>9, RenewalStep
<1>9. ASSUME NEW j \in Jobs, RenewalThrows(j) PROVE RenewalInv'
  <2> DEFINE p == job[j].on
             r == Onward(j, p)
  <2>1. /\ Goes(j, r) /\ job[j].kind = "renew"
        /\ job[j].at \in {"insert", "hydrate", "premium", "mark"}
        /\ unsaid' = unsaid \cup {<<q, "renewal">> : q \in {job[j].on, job[j].new}}
        /\ UNCHANGED <<row, ledger, renewed>>
    BY <1>9 DEF RenewalThrows
  <2>2. /\ r.at \in {"idle", "next"} /\ r.new = NoRow /\ r.on = NoRow
        /\ r.kind \in {"none", job[j].kind} /\ r.over \subseteq job[j].over
    BY <2>1, JobsOf DEF RenewalInv
  <2>3. <<job[j].on, "renewal">> \in unsaid' /\ <<job[j].new, "renewal">> \in unsaid'
        /\ unsaid \subseteq unsaid'
    BY <2>1
  <2> HIDE DEF r
  <2>4. job'[j] = r /\ \A i \in Jobs : i # j => job'[i] = job[i]
    BY <1>2, <2>1
  <2>5. Renewing(job[j])'
    BY <2>1, <2>2, <2>3, <2>4 DEF Renewing, RenewalInv
  <2>6. \A q \in Protections : RowAccounted(q)'
    BY <2>1, <2>3, <2>4, RowKeeps
  <2>7. RenewedIsClosed'
    BY <1>1, <2>1, <2>3, <2>4, ClosedKeeps DEF RenewedIsClosed
  <2> QED
    BY <2>1, <2>2, <2>3, <2>4, <2>5, <2>6, <2>7, RenewalStep
<1>10. ASSUME NEW j \in Jobs, PassStarts(j) \/ JobStep(j) \/ \E p \in Protections : RowStep(j, p)
      PROVE  RenewalInv'
  BY <1>3, <1>4, <1>5, <1>6, <1>7, <1>8, <1>9, <1>10, UnrenewedStep, RenewalQuiet
<1>11. CASE \/ \E p \in Protections : ToggleAutoRenew(p) \/ DecideExpire(p) \/ Age(p)
            \/ \E p, n \in Protections : DecideRenew(p, n)
  <2>1. UNCHANGED <<ledger, job, unsaid, renewed>>
    BY <1>11 DEF ToggleAutoRenew, DecideExpire, Age, DecideRenew
  <2>2. \A q \in Protections :
          /\ row'[q].hedge = row[q].hedge
          /\ q \notin Fresh => row[q].hydrated = row'[q].hydrated
          /\ row'[q].status \in {"active", "triggered"} => row[q].status \in {"active", "triggered"}
    <3>1. CASE \E p \in Protections : ToggleAutoRenew(p) \/ DecideExpire(p) \/ Age(p)
      BY <1>1, <3>1, AsideOK DEF ToggleAutoRenew, DecideExpire, Age
    <3>2. CASE \E p, n \in Protections : DecideRenew(p, n)
      <4>1. PICK p \in Protections, n \in Protections : DecideRenew(p, n)
        BY <3>2
      <4>2. /\ \A q \in Protections \ {n} : row'[q] = row[q]
            /\ row'[n].hedge = "none" /\ row'[n].status = "awaiting_renew_decision"
        BY <4>1, DecideRenewOK DEF RenewalInv
      <4>3. n \in Fresh
        BY <4>1 DEF DecideRenew
      <4> QED
        BY <4>2, <4>3 DEF RenewalInv, ShapeInv, FreshIsBlank
    <3> QED
      BY <1>11, <3>1, <3>2
  <2>3. \A j \in Jobs : Renewing(job[j])'
    <3>1. \A j \in Jobs : job[j].at \in {"hydrate", "premium", "mark"} =>
                            job[j].new \in Protections /\ job[j].new \notin Fresh
      BY <1>1 DEF RenewalInv, ShapeInv, Shaped, Touched
    <3> QED
      BY <2>1, <2>2, <3>1 DEF RenewalInv, Renewing
  <2>4. RenewedIsClosed'
    BY <1>1, <2>1, <2>2 DEF RenewalInv, RenewedIsClosed
  <2>5. RenewalAccounted'
    BY <2>1, <2>2 DEF RenewalInv, RenewalAccounted, IsAt, ShapeInv, FreshIsBlank
  <2> QED
    BY <2>1, <2>3, <2>4, <2>5 DEF RenewalInv
<1>12. CASE Restart
  <2>1. /\ UNCHANGED <<row, ledger, renewed>>
        /\ unsaid' = unsaid \cup UNION {Unfinished(j) : j \in Jobs}
        /\ \A j \in Jobs : job'[j] = Idle
    BY <1>12 DEF Restart
  <2>2. \A j \in Jobs : Renewing(job[j])' /\ job'[j].new = NoRow /\ ~IsAt(j, "renew", "insert")'
    BY <2>1, IdleOK DEF Renewing, IsAt
  <2>3. ASSUME NEW j \in Jobs, job[j].at \in {"insert", "hydrate", "premium", "mark"}
        PROVE  <<job[j].on, "renewal">> \in unsaid' /\ <<job[j].new, "renewal">> \in unsaid'
    <3>1. Unfinished(j) = {<<p, "renewal">> : p \in {job[j].on, job[j].new}}
      BY <2>3 DEF Unfinished
    <3> QED
      BY <2>1, <3>1
  <2>4. RenewedIsClosed'
    <3>1. ASSUME NEW p \in renewed, NEW j \in Jobs, job[j].kind = "renew", job[j].on = p
          PROVE  <<p, "renewal">> \in unsaid'
      <4>1. p # NoRow
        BY <1>1, RootAssumption
      <4>2. job[j].at \in {"insert", "hydrate", "premium", "mark"}
        BY <1>1, <3>1, <4>1 DEF Shaped, Passes, Places
      <4> QED
        BY <2>3, <3>1, <4>2
    <3> QED
      BY <2>1, <3>1 DEF RenewalInv, RenewedIsClosed
  <2>5. \A n \in Protections, j \in Jobs : job[j].new = n => <<n, "renewal">> \in unsaid'
    BY <1>1, <2>3, RootAssumption DEF Shaped
  <2>6. RenewalAccounted'
    BY <2>1, <2>2, <2>5 DEF RenewalInv, RenewalAccounted
  <2> QED
    BY <2>2, <2>4, <2>6 DEF RenewalInv
<1>13. CASE UNCHANGED vars
  BY <1>13 DEF vars, RenewalInv, Renewing, RenewedIsClosed, RenewalAccounted, IsAt
<1> QED
  BY <1>10, <1>11, <1>12, <1>13 DEF Next

-----------------------------------------------------------------------------
(* Payouts. *)

PaidInFull(p) ==
  /\ row[p].status = "triggered" =>
       /\ row[p].payout = "trigger"
       /\ \/ ledger[p].trigger = 1
          \/ Busy("monitor", {"owe"}, p)
          \/ <<p, "payout">> \in unsaid
  /\ row[p].status = "expired_itm" =>
       /\ row[p].payout = "itm"
       /\ \/ ledger[p].due > 0
          \/ Busy("resolve", {"due", "await"}, p)
          \/ <<p, "payout">> \in unsaid
  /\ p \notin crossed =>
       /\ ledger[p].trigger + ledger[p].due <= 1
       /\ ledger[p].trigger = 1 => row[p].payout = "trigger"
       /\ ledger[p].settled <= 1

Paid(p) == TriggeredOnce(p) /\ ClaimedOnce(p) /\ PaidInFull(p)

LEMMA PaidIs == PayoutInv <=> ShapeInv /\ \A p \in Protections : Paid(p)
  BY DEF PayoutInv, Paid, PaidInFull, PayoutAccounted

\* A step of job j that enters no payout and is not about to: rows are closed
\* at most.
Unpaid(j) ==
  /\ \A i \in Jobs : i # j => job'[i] = job[i]
  /\ job[j].at \notin {"owe", "due", "await"}
  /\ job'[j].at \notin {"owe", "due"}
  /\ job'[j].at = "await" => job'[j].seen # "expired_itm"
  /\ crossed' = crossed /\ unsaid \subseteq unsaid'
  /\ \A p \in Protections :
       /\ row'[p].payout = row[p].payout
       /\ row'[p].status \in {row[p].status, "expired_otm", "cancelled"}
       /\ ledger'[p].trigger = ledger[p].trigger /\ ledger'[p].due = ledger[p].due
       /\ ledger'[p].settled = ledger[p].settled

LEMMA PayoutQuiet ==
  ASSUME PayoutInv, ShapeInv', NEW j \in Jobs, Unpaid(j)
  PROVE  PayoutInv'
<1>1. ASSUME NEW p \in Protections PROVE Paid(p)'
  <2>1. Paid(p)
    BY PaidIs
  <2>2. \A i \in Jobs : /\ OwesTrigger(job'[i], p) <=> OwesTrigger(job[i], p)
                        /\ OwesExpiry(job'[i], p) <=> OwesExpiry(job[i], p)
    BY DEF Unpaid, OwesTrigger, OwesExpiry
  <2>3. /\ Busy("monitor", {"owe"}, p) => Busy("monitor", {"owe"}, p)'
        /\ Busy("resolve", {"due", "await"}, p) => Busy("resolve", {"due", "await"}, p)'
    BY DEF Unpaid, Busy
  <2>4. TriggeredOnce(p)'
    BY <2>1, <2>2 DEF Paid, TriggeredOnce, Unpaid, OwesTrigger
  <2>5. ClaimedOnce(p)'
    BY <2>1, <2>2 DEF Paid, ClaimedOnce, Unpaid, Owes, OwesTrigger, OwesExpiry
  <2>6. PaidInFull(p)'
    BY <2>1, <2>3 DEF Paid, PaidInFull, Unpaid
  <2> QED
    BY <2>4, <2>5, <2>6 DEF Paid
<1> QED
  BY <1>1, PaidIs DEF PayoutInv, Paid, PaidInFull, PayoutAccounted

\* A step of job j on row p leaves every other row paid as it was.
LEMMA PayoutStep ==
  ASSUME PayoutInv, ShapeInv', NEW j \in Jobs, NEW p \in Protections,
         \A i \in Jobs : i # j => job'[i] = job[i],
         job[j].at \in {"owe", "due", "await"} => job[j].on = p,
         job'[j].at \in {"owe", "due", "await"} => job'[j].on = p,
         \A q \in Protections \ {p} : row'[q] = row[q] /\ ledger'[q] = ledger[q],
         crossed \subseteq crossed', unsaid \subseteq unsaid',
         Paid(p)'
  PROVE  PayoutInv'
<1>1. ASSUME NEW q \in Protections \ {p} PROVE Paid(q)'
  <2>1. Paid(q)
    BY PaidIs
  <2>2. q # NoRow
    BY RootAssumption
  <2>3. \A i \in Jobs : /\ OwesTrigger(job'[i], q) <=> OwesTrigger(job[i], q)
                        /\ OwesExpiry(job'[i], q) <=> OwesExpiry(job[i], q)
    BY <2>2 DEF OwesTrigger, OwesExpiry
  <2>4. /\ Busy("monitor", {"owe"}, q) => Busy("monitor", {"owe"}, q)'
        /\ Busy("resolve", {"due", "await"}, q) => Busy("resolve", {"due", "await"}, q)'
    BY <2>2 DEF Busy
  <2>5. row'[q] = row[q] /\ ledger'[q] = ledger[q]
    OBVIOUS
  <2>6. TriggeredOnce(q)'
    BY <2>1, <2>3, <2>5 DEF Paid, TriggeredOnce, OwesTrigger
  <2>7. ClaimedOnce(q)'
    BY <2>1, <2>3, <2>5 DEF Paid, ClaimedOnce, Owes, OwesTrigger, OwesExpiry
  <2>8. PaidInFull(q)'
    BY <2>1, <2>4, <2>5 DEF Paid, PaidInFull
  <2> QED
    BY <2>6, <2>7, <2>8 DEF Paid
<1> QED
  BY <1>1, PaidIs DEF PayoutInv, Paid, PaidInFull, PayoutAccounted

LEMMA UnpaidStep ==
  ASSUME ShapeInv, NEW j \in Jobs,
         \/ \E p \in Protections : /\ RowStep(j, p) /\ ~InsertRenewal(j, p)
                                   /\ Trigger(j, p) => row[p].status # "active"
         \/ /\ JobStep(j) /\ ~OweTrigger(j) /\ ~OweExpiry(j) /\ ~AwaitPrice(j)
            /\ ~SettlePayout(j) /\ \A payout \in {"itm", "zero"} : ~Resolve(j, payout)
         \/ PassStarts(j)
  PROVE  Unpaid(j)
<1>1. /\ job \in [Jobs -> Passes] /\ job[j] \in Passes /\ Shaped(job[j])
      /\ row \in [Protections -> Rows] /\ ledger \in [Protections -> Entries]
  BY JobsOf
<1>2. \A p : job[j].at # "idle" => Onward(j, p).at \in {"idle", "next"}
  BY JobsOf
<1>3. \A r : Goes(j, r) => job'[j] = r /\ \A i \in Jobs : i # j => job'[i] = job[i]
  BY <1>1 DEF Goes
<1>4. /\ \A p, at : Works(j, p, at).at = at /\ Works(j, p, at).seen = job[j].seen
      /\ \A at : At(job[j], at).at = at
  BY <1>1 DEF Works, At, Passes
<1>5. ASSUME NEW p \in Protections, Trigger(j, p), row[p].status # "active" PROVE Unpaid(j)
  BY <1>2, <1>3, <1>5 DEF Unpaid, Trigger, IsAt
<1>6. ASSUME NEW p \in Protections, BuyRenewal(j, p) PROVE Unpaid(j)
  BY <1>3, <1>4, <1>6 DEF Unpaid, BuyRenewal, IsAt
<1>7. ASSUME NEW p \in Protections, ReadForExpiry(j, p) PROVE Unpaid(j)
  <2>1. CASE row[p].status \in {"active", "awaiting_expiry_price"} /\ Expired(p)
    <3> DEFINE r == [Works(j, p, "price") EXCEPT !.seen = row[p].status]
    <3>1. r.at = "price"
      BY <1>1 DEF Works, Passes
    <3>2. /\ Goes(j, r) /\ IsAt(j, "resolve", "next")
          /\ UNCHANGED <<row, ledger, crossed, unsaid>>
      BY <1>7, <2>1 DEF ReadForExpiry
    <3> HIDE DEF r
    <3> QED
      BY <1>3, <3>1, <3>2 DEF Unpaid, IsAt
  <2>2. CASE ~(row[p].status \in {"active", "awaiting_expiry_price"} /\ Expired(p))
    BY <1>2, <1>3, <1>7, <2>2 DEF Unpaid, ReadForExpiry, IsAt
  <2> QED
    BY <2>1, <2>2
<1>8. ASSUME NEW p \in Protections, SellHedge(j, p) PROVE Unpaid(j)
  BY <1>3, <1>4, <1>8 DEF Unpaid, SellHedge, IsAt
<1>9. ASSUME NEW p \in Protections, SettleExpiredHedge(j, p) PROVE Unpaid(j)
  <2>1. \A q \in Protections : row'[q].payout = row[q].payout /\ row'[q].status = row[q].status
    BY <1>1, <1>9 DEF SettleExpiredHedge, Rows
  <2> QED
    BY <1>2, <1>3, <1>9, <2>1 DEF Unpaid, SettleExpiredHedge, IsAt
<1>10. ASSUME NEW p \in Protections, PassOver(j, p) PROVE Unpaid(j)
  BY <1>2, <1>3, <1>10 DEF Unpaid, PassOver
<1>11. CASE RenewalThrows(j)
  BY <1>2, <1>3, <1>11 DEF Unpaid, RenewalThrows
<1>12. CASE HydrateRenewal(j)
  <2>1. \A q \in Protections : row'[q].payout = row[q].payout /\ row'[q].status = row[q].status
    BY <1>1, <1>12 DEF HydrateRenewal, Rows
  <2>2. /\ Goes(j, At(job[j], "premium")) /\ IsAt(j, "renew", "hydrate")
        /\ UNCHANGED <<ledger, crossed, unsaid>>
    BY <1>12 DEF HydrateRenewal, At
  <2> QED
    BY <1>3, <1>4, <2>1, <2>2 DEF Unpaid, IsAt
<1>13. CASE OwePremium(j)
  <2>1. \A q \in Protections :
          /\ ledger'[q].trigger = ledger[q].trigger /\ ledger'[q].due = ledger[q].due
          /\ ledger'[q].settled = ledger[q].settled
    BY <1>1, <1>13 DEF OwePremium, Entries
  <2>2. /\ Goes(j, At(job[j], "mark")) /\ IsAt(j, "renew", "premium")
        /\ UNCHANGED <<row, crossed, unsaid>>
    BY <1>13 DEF OwePremium, At
  <2> QED
    BY <1>3, <1>4, <2>1, <2>2 DEF Unpaid, IsAt
<1>14. CASE MarkRenewed(j)
  <2>1. \A q \in Protections : /\ row'[q].payout = row[q].payout
                               /\ row'[q].status \in {row[q].status, "expired_otm"}
    BY <1>1, <1>14 DEF MarkRenewed, Rows
  <2> QED
    BY <1>2, <1>3, <1>14, <2>1 DEF Unpaid, MarkRenewed, IsAt
<1>15. CASE PriceFails(j)
  BY <1>1, <1>3, <1>4, <1>15 DEF Unpaid, PriceFails, IsAt, Shaped
<1>16. CASE RecordSale(j)
  <2>1. \A q \in Protections : row'[q].payout = row[q].payout /\ row'[q].status = row[q].status
    BY <1>1, <1>16 DEF RecordSale, Rows
  <2> QED
    BY <1>2, <1>3, <1>16, <2>1 DEF Unpaid, RecordSale, IsAt
<1>17. ASSUME NEW kind, NEW rows, NEW over, Start(j, kind, rows, over) PROVE Unpaid(j)
  <2> DEFINE r == [Idle EXCEPT !.kind = kind, !.at = "next", !.todo = rows, !.over = over \cap rows]
  <2>1. r.at = "next"
    BY DEF Idle
  <2>2. Goes(j, r) /\ job[j].at = "idle" /\ UNCHANGED <<row, ledger, crossed, unsaid>>
    BY <1>17 DEF Start, Goes
  <2> HIDE DEF r
  <2> QED
    BY <1>3, <2>1, <2>2 DEF Unpaid
<1>18. ASSUME NEW p \in Protections, ReadForSettling(j, p) PROVE Unpaid(j)
  <2> DEFINE m == [Idle EXCEPT !.kind = "settle", !.at = "settle", !.on = p]
             r == [m EXCEPT !.paid = ledger[p].settled]
  <2>1. r.at = "settle"
    BY DEF Idle
  <2>2. Goes(j, r) /\ job[j].at = "idle" /\ UNCHANGED <<row, ledger, crossed, unsaid>>
    BY <1>18 DEF ReadForSettling
  <2> HIDE DEF r
  <2> QED
    BY <1>3, <2>1, <2>2 DEF Unpaid
<1>19. CASE PassStarts(j)
  BY <1>17, <1>18, <1>19
  DEF PassStarts, ListForTrigger, ListForRenewal, ListHedges, ListForExpiry, ResolveByAdmin
<1> QED
  BY <1>5, <1>6, <1>7, <1>8, <1>9, <1>10, <1>11, <1>12, <1>13, <1>14, <1>15, <1>16, <1>19
  DEF RowStep, JobStep

LEMMA NextPayout == ASSUME PayoutInv, ShapeInv', [Next]_vars PROVE PayoutInv'
<1>1. /\ row \in [Protections -> Rows] /\ ledger \in [Protections -> Entries]
      /\ job \in [Jobs -> Passes] /\ TypeOK
      /\ \A j \in Jobs : job[j] \in Passes /\ Shaped(job[j])
      /\ \A j \in Jobs : \A q \in Touched(job[j]) : q \notin Fresh
  BY TypesOf DEF PayoutInv, ShapeInv
<1>2. \A j \in Jobs : \A r : Goes(j, r) => job'[j] = r /\ \A i \in Jobs : i # j => job'[i] = job[i]
  BY <1>1 DEF Goes
<1>3. \A j \in Jobs : \A p : job[j].at # "idle" => Onward(j, p).at \in {"idle", "next"}
  BY JobsOf DEF PayoutInv
<1>4. \A j \in Jobs : \A p, at :
        /\ Works(j, p, at).at = at /\ Works(j, p, at).on = p
        /\ Works(j, p, at).kind = job[j].kind /\ Works(j, p, at).seen = job[j].seen
  BY <1>1 DEF Works, Passes
<1>5. \A p \in Protections : Paid(p)
  BY PaidIs
<1>6. \A p \in Protections : /\ ledger[p].trigger \in Nat /\ ledger[p].due \in Nat
                             /\ ledger[p].settled \in Nat
  BY <1>1 DEF Entries
<1>7. ~(Served /\ Incident)
  BY <1>1, BoundAssumption DEF Served, Incident, TypeOK
<1>8. ASSUME NEW j \in Jobs, NEW p \in Protections, Trigger(j, p), row[p].status = "active"
      PROVE  PayoutInv'
  <2>1. /\ row' = [row EXCEPT ![p].status = "triggered", ![p].payout = "trigger"]
        /\ IsAt(j, "monitor", "next") /\ Goes(j, Works(j, p, "owe"))
        /\ UNCHANGED <<ledger, crossed, unsaid>>
    BY <1>8 DEF Trigger
  <2>2. /\ \A q \in Protections \ {p} : row'[q] = row[q]
        /\ row'[p].status = "triggered" /\ row'[p].payout = "trigger"
    BY <1>1, <2>1, TriggeredOK
  <2>3. /\ job'[j].at = "owe" /\ job'[j].on = p /\ job'[j].kind = "monitor"
        /\ \A i \in Jobs : i # j => job'[i] = job[i]
    BY <1>2, <1>4, <2>1 DEF IsAt
  <2>4. /\ ledger[p].trigger = 0 /\ \A i \in Jobs : ~OwesTrigger(job[i], p)
        /\ p \notin crossed => ledger[p].due = 0 /\ \A i \in Jobs : ~Owes(job[i], p)
        /\ p \notin crossed => ledger[p].settled <= 1
    BY <1>5, <1>8 DEF Paid, TriggeredOnce, ClaimedOnce, PaidInFull
  <2>5. \A i \in Jobs : OwesTrigger(job'[i], p) => i = j
    BY <2>3, <2>4
  <2>6. p \notin crossed => \A i \in Jobs : Owes(job'[i], p) => i = j
    BY <2>3, <2>4
  <2>7. TriggeredOnce(p)'
    BY <2>1, <2>2, <2>4, <2>5 DEF TriggeredOnce, OwesTrigger
  <2>8. ClaimedOnce(p)'
    BY <2>1, <2>2, <2>4, <2>6 DEF ClaimedOnce, Owes, OwesTrigger, OwesExpiry
  <2>9. PaidInFull(p)'
    BY <2>1, <2>2, <2>3, <2>4 DEF PaidInFull, Busy
  <2>10. job[j].at = "next"
    BY <2>1 DEF IsAt
  <2> QED
    BY <2>1, <2>2, <2>3, <2>7, <2>8, <2>9, <2>10, PayoutStep DEF Paid
<1>9. ASSUME NEW j \in Jobs, NEW p \in Protections, InsertRenewal(j, p) PROVE PayoutInv'
  <2> DEFINE m == NewRow("active", "active", FALSE, TRUE)
             r == [At(job[j], "hydrate") EXCEPT !.new = p]
  <2>1. /\ Goes(j, r) /\ p \in Fresh /\ IsAt(j, "renew", "insert")
        /\ row' = [row EXCEPT ![p] = m]
        /\ UNCHANGED <<ledger, crossed, unsaid>>
    BY <1>9 DEF InsertRenewal, At
  <2>2. m.status = "active" /\ r.at = "hydrate" /\ r.on = job[j].on
    BY <1>1 DEF NewRow, At, Passes
  <2> HIDE DEF m, r
  <2>3. job'[j] = r /\ \A i \in Jobs : i # j => job'[i] = job[i]
    BY <1>2, <2>1
  <2>4. row'[p].status = "active" /\ \A q \in Protections \ {p} : row'[q] = row[q]
    BY <1>1, <2>1, <2>2
  <2>5. ledger[p].trigger = 0 /\ ledger[p].due = 0 /\ ledger[p].settled = 0
    BY <2>1 DEF PayoutInv, ShapeInv, FreshIsBlank
  <2>6. \A i \in Jobs : job[i].on # p
    BY <1>1, <2>1 DEF Touched
  <2>7. \A i \in Jobs : job'[i].on # p
    BY <2>2, <2>3, <2>6
  <2>8. Paid(p)'
    BY <2>1, <2>4, <2>5, <2>7
    DEF Paid, TriggeredOnce, ClaimedOnce, PaidInFull, Owes, OwesTrigger, OwesExpiry
  <2> QED
    BY <2>1, <2>2, <2>3, <2>4, <2>8, PayoutStep DEF IsAt
<1>10. ASSUME NEW j \in Jobs, OweTrigger(j) PROVE PayoutInv'
  <2>0. IsAt(j, "monitor", "owe") /\ job[j].on \in Protections
    BY <1>1, <1>10 DEF OweTrigger, IsAt, Shaped
  <2>1. PICK p \in Protections : p = job[j].on
    BY <2>0
  <2>2. UNCHANGED <<row, crossed>> /\ unsaid \subseteq unsaid'
    BY <1>10 DEF OweTrigger
  <2>3. /\ ledger[p].trigger = 0 /\ row[p].status # "active"
        /\ \A i \in Jobs : OwesTrigger(job[i], p) => i = j
        /\ p \notin crossed =>
             /\ ledger[p].due = 0 /\ row[p].status # "awaiting_expiry_price"
             /\ row[p].payout = "trigger"
             /\ \A i \in Jobs : Owes(job[i], p) => i = j
    <3>1. OwesTrigger(job[j], p) /\ Owes(job[j], p)
      BY <2>0, <2>1 DEF OwesTrigger, Owes, IsAt
    <3>2. TriggeredOnce(p) /\ ClaimedOnce(p)
      BY <1>5 DEF Paid
    <3> QED
      BY <3>1, <3>2 DEF TriggeredOnce, ClaimedOnce
  <2>4. /\ job'[j].at \in {"idle", "next"} /\ \A i \in Jobs : i # j => job'[i] = job[i]
        /\ \A q \in Protections \ {p} : ledger'[q] = ledger[q]
        /\ ledger'[p].due = ledger[p].due /\ ledger'[p].settled = ledger[p].settled
        /\ \/ ledger'[p].trigger = 1
           \/ ledger'[p].trigger = 0 /\ <<p, "payout">> \in unsaid'
    <3>1. CASE Served
      <4>1. ledger' = [ledger EXCEPT ![p].trigger = @ + 1] /\ Goes(j, Onward(j, p))
        BY <1>7, <1>10, <2>1, <3>1 DEF OweTrigger
      <4>2. ledger'[p].trigger = ledger[p].trigger + 1
        BY <1>1, <4>1 DEF Entries
      <4>3. /\ \A q \in Protections \ {p} : ledger'[q] = ledger[q]
            /\ ledger'[p].due = ledger[p].due /\ ledger'[p].settled = ledger[p].settled
        BY <1>1, <4>1 DEF Entries
      <4> QED
        BY <1>2, <1>3, <2>0, <2>3, <4>1, <4>2, <4>3 DEF IsAt
    <3>2. CASE Incident
      BY <1>2, <1>7, <1>10, <2>1, <2>3, <3>2, IdleOK DEF OweTrigger
    <3> QED
      BY <1>10, <3>1, <3>2 DEF OweTrigger
  <2>5. \A i \in Jobs : /\ ~OwesTrigger(job'[i], p)
                        /\ p \notin crossed => ~Owes(job'[i], p)
    BY <2>3, <2>4 DEF Owes, OwesTrigger, OwesExpiry
  <2>6. TriggeredOnce(p)'
    BY <2>2, <2>3, <2>5 DEF TriggeredOnce, OwesTrigger
  <2>7. ClaimedOnce(p)'
    BY <2>2, <2>3, <2>5 DEF ClaimedOnce, Owes, OwesTrigger, OwesExpiry
  <2>8. Busy("resolve", {"due", "await"}, p) => Busy("resolve", {"due", "await"}, p)'
    BY <2>0, <2>4 DEF Busy, IsAt
  <2>9. PaidInFull(p)'
    <3>1. PaidInFull(p)
      BY <1>5 DEF Paid
    <3> QED
      BY <2>2, <2>3, <2>4, <2>8, <3>1 DEF PaidInFull
  <2> QED
    BY <2>1, <2>2, <2>4, <2>6, <2>7, <2>9, PayoutStep DEF Paid
<1>11. ASSUME NEW j \in Jobs, NEW payout \in {"itm", "zero"}, Resolve(j, payout) PROVE PayoutInv'
  <2>0. /\ IsAt(j, "resolve", "price") /\ job[j].on \in Protections
        /\ job[j].seen \in {"active", "awaiting_expiry_price"}
    BY <1>1, <1>11 DEF Resolve, IsAt, Shaped
  <2>1. PICK p \in Protections : p = job[j].on
    BY <2>0
  <2>2. UNCHANGED <<ledger, unsaid>> /\ crossed' = crossed \cup CrossedBy(j)
    BY <1>11 DEF Resolve
  <2>3. p \notin crossed' => p \notin crossed /\ row[p].status = job[j].seen
    BY <2>1, <2>2 DEF CrossedBy
  <2>4. p \notin crossed' => /\ ledger[p].trigger = 0 /\ ledger[p].due = 0
                             /\ \A i \in Jobs : ~Owes(job[i], p)
                             /\ ledger[p].settled <= 1
    <3>1. ClaimedOnce(p) /\ PaidInFull(p)
      BY <1>5 DEF Paid
    <3> QED
      BY <2>0, <2>3, <3>1 DEF ClaimedOnce, PaidInFull
  <2>5. /\ \A q \in Protections \ {p} : row'[q] = row[q]
        /\ \A i \in Jobs : i # j => job'[i] = job[i]
        /\ \/ /\ row'[p].status = "expired_itm" /\ row'[p].payout = "itm"
              /\ job'[j].at = "due" /\ job'[j].on = p /\ job'[j].kind = "resolve"
           \/ /\ row'[p].status = "expired_otm"
              /\ job'[j].at \in {"idle", "next"}
    <3>1. CASE payout = "itm"
      <4> DEFINE r == [At(job[j], "due") EXCEPT !.seen = "expired_itm"]
      <4>1. /\ row' = [row EXCEPT ![p].status = "expired_itm", ![p].priced = TRUE,
                                  ![p].payout = "itm"]
            /\ Goes(j, r)
        BY <1>11, <2>1, <3>1 DEF Resolve, At
      <4>2. r.at = "due" /\ r.on = job[j].on /\ r.kind = job[j].kind
        BY <1>1 DEF At, Passes
      <4> HIDE DEF r
      <4>3. job'[j] = r /\ \A i \in Jobs : i # j => job'[i] = job[i]
        BY <1>2, <4>1
      <4>4. /\ \A q \in Protections \ {p} : row'[q] = row[q]
            /\ row'[p].status = "expired_itm" /\ row'[p].payout = "itm"
        BY <1>1, <4>1, InTheMoneyOK
      <4> QED
        BY <2>0, <2>1, <4>2, <4>3, <4>4 DEF IsAt
    <3>2. CASE payout = "zero"
      <4>1. /\ row' = [row EXCEPT ![p].status = "expired_otm", ![p].priced = TRUE,
                                  ![p].payout = "zero"]
            /\ Goes(j, Onward(j, p))
        BY <1>11, <2>1, <3>2 DEF Resolve
      <4>2. job'[j].at \in {"idle", "next"} /\ \A i \in Jobs : i # j => job'[i] = job[i]
        BY <1>2, <1>3, <2>0, <4>1 DEF IsAt
      <4>3. /\ \A q \in Protections \ {p} : row'[q] = row[q]
            /\ row'[p].status = "expired_otm"
        BY <1>1, <4>1, OutOfTheMoneyOK
      <4> QED
        BY <4>2, <4>3
    <3> QED
      BY <3>1, <3>2
  <2>6. /\ \A i \in Jobs : OwesTrigger(job'[i], p) => OwesTrigger(job[i], p)
        /\ p \notin crossed' => \A i \in Jobs : Owes(job'[i], p) => i = j
        /\ ~OwesTrigger(job'[j], p)
    BY <2>4, <2>5 DEF Owes, OwesTrigger
  <2>7. TriggeredOnce(p)'
    <3>1. \A i, k \in Jobs : OwesTrigger(job[i], p) =>
            ledger[p].trigger = 0 /\ (OwesTrigger(job[k], p) => k = i)
      BY <1>5 DEF Paid, TriggeredOnce
    <3>2. \A i, k \in Jobs : OwesTrigger(job'[i], p) =>
            ledger'[p].trigger = 0 /\ (OwesTrigger(job'[k], p) => k = i)
      BY <2>2, <2>6, <3>1
    <3> QED
      BY <2>5, <3>2 DEF TriggeredOnce, OwesTrigger
  <2>8. ClaimedOnce(p)'
    <3>1. p \notin crossed' => \A i \in Jobs : ~OwesTrigger(job'[i], p)
      BY <2>4, <2>6 DEF Owes
    <3> QED
      BY <2>2, <2>4, <2>5, <2>6, <3>1 DEF ClaimedOnce, Owes, OwesTrigger, OwesExpiry
  <2>9. PaidInFull(p)'
    BY <2>2, <2>4, <2>5 DEF PaidInFull, Busy
  <2> QED
    BY <2>0, <2>1, <2>2, <2>5, <2>7, <2>8, <2>9, PayoutStep DEF Paid, IsAt
<1>12. ASSUME NEW j \in Jobs, OweExpiry(j) PROVE PayoutInv'
  <2>0. IsAt(j, "resolve", "due") /\ job[j].on \in Protections /\ job[j].seen = "expired_itm"
    BY <1>1, <1>12 DEF OweExpiry, IsAt, Shaped
  <2>1. PICK p \in Protections : p = job[j].on
    BY <2>0
  <2>2. UNCHANGED <<row, crossed, unsaid>>
    BY <1>12 DEF OweExpiry
  <2>3. Paid(p) /\ OwesExpiry(job[j], p) /\ Owes(job[j], p)
    BY <1>5, <2>0, <2>1 DEF OwesExpiry, Owes, IsAt
  <2>4. p \notin crossed =>
          /\ ledger[p].trigger = 0 /\ ledger[p].due = 0
          /\ row[p].status \notin {"active", "awaiting_expiry_price"}
          /\ \A i \in Jobs : Owes(job[i], p) => i = j
    BY <2>3 DEF Paid, ClaimedOnce
  <2>5. CASE Served
    <3>1. ledger' = [ledger EXCEPT ![p].due = @ + 1] /\ Goes(j, Onward(j, p))
      BY <1>7, <1>12, <2>1, <2>5 DEF OweExpiry
    <3>2. ledger'[p].due = ledger[p].due + 1
      BY <1>1, <3>1 DEF Entries
    <3>3. /\ \A q \in Protections \ {p} : ledger'[q] = ledger[q]
          /\ ledger'[p].trigger = ledger[p].trigger /\ ledger'[p].settled = ledger[p].settled
      BY <1>1, <3>1 DEF Entries
    <3>4. job'[j].at \in {"idle", "next"} /\ \A i \in Jobs : i # j => job'[i] = job[i]
      BY <1>2, <1>3, <2>0, <3>1 DEF IsAt
    <3>5. /\ \A i \in Jobs : OwesTrigger(job'[i], p) <=> OwesTrigger(job[i], p)
          /\ p \notin crossed => \A i \in Jobs : ~Owes(job'[i], p)
      BY <2>0, <2>4, <3>4 DEF Owes, OwesTrigger, OwesExpiry, IsAt
    <3>6. TriggeredOnce(p)'
      BY <2>2, <2>3, <3>3, <3>5 DEF Paid, TriggeredOnce, OwesTrigger
    <3>7. ClaimedOnce(p)'
      BY <2>2, <2>4, <3>5 DEF ClaimedOnce, Owes, OwesTrigger, OwesExpiry
    <3>8. Busy("monitor", {"owe"}, p) => Busy("monitor", {"owe"}, p)'
      BY <2>0, <3>4 DEF Busy, IsAt
    <3>9. PaidInFull(p)'
      BY <1>6, <2>2, <2>3, <2>4, <3>2, <3>3, <3>8 DEF Paid, PaidInFull
    <3> QED
      BY <2>1, <2>2, <3>3, <3>4, <3>6, <3>7, <3>9, PayoutStep DEF Paid
  <2>6. CASE Incident
    <3>1. Goes(j, Works(j, p, "await")) /\ UNCHANGED ledger
      BY <1>7, <1>12, <2>1, <2>6 DEF OweExpiry
    <3>2. /\ job'[j].at = "await" /\ job'[j].on = p /\ job'[j].kind = "resolve"
          /\ job'[j].seen = "expired_itm"
          /\ \A i \in Jobs : i # j => job'[i] = job[i]
      BY <1>2, <1>4, <2>0, <3>1 DEF IsAt
    <3>3. \A i \in Jobs : /\ OwesTrigger(job'[i], p) <=> OwesTrigger(job[i], p)
                          /\ OwesExpiry(job'[i], p) <=> OwesExpiry(job[i], p)
      BY <2>0, <2>3, <3>2 DEF OwesTrigger, OwesExpiry, IsAt
    <3>4. TriggeredOnce(p)'
      BY <2>2, <2>3, <3>1, <3>3 DEF Paid, TriggeredOnce, OwesTrigger
    <3>5. ClaimedOnce(p)'
      BY <2>2, <2>3, <3>1, <3>3 DEF Paid, ClaimedOnce, Owes, OwesTrigger, OwesExpiry
    <3>6. /\ Busy("monitor", {"owe"}, p) => Busy("monitor", {"owe"}, p)'
          /\ Busy("resolve", {"due", "await"}, p)'
      BY <2>0, <3>2 DEF Busy, IsAt
    <3>7. PaidInFull(p)'
      BY <2>2, <2>3, <3>1, <3>6 DEF Paid, PaidInFull
    <3> QED
      BY <2>1, <2>2, <3>1, <3>2, <3>4, <3>5, <3>7, PayoutStep DEF Paid
  <2> QED
    BY <1>12, <2>5, <2>6 DEF OweExpiry
<1>13. ASSUME NEW j \in Jobs, AwaitPrice(j) PROVE PayoutInv'
  <2>0. /\ IsAt(j, "resolve", "await") /\ job[j].on \in Protections
        /\ job[j].seen \in {"active", "awaiting_expiry_price", "expired_itm"}
    BY <1>1, <1>13 DEF AwaitPrice, IsAt, Shaped
  <2>1. PICK p \in Protections : p = job[j].on
    BY <2>0
  <2>2. UNCHANGED ledger /\ Paid(p)
    BY <1>5, <1>13 DEF AwaitPrice
  <2>3. CASE Served
    <3>1. /\ row' = [row EXCEPT ![p].status = "awaiting_expiry_price"]
          /\ crossed' = crossed \cup CrossedBy(j) /\ Goes(j, Onward(j, p))
          /\ UNCHANGED unsaid
      BY <1>7, <1>13, <2>1, <2>3 DEF AwaitPrice
    <3>2. /\ \A q \in Protections \ {p} : row'[q] = row[q]
          /\ row'[p].status = "awaiting_expiry_price"
      BY <1>1, <3>1 DEF Rows
    <3>3. job'[j].at \in {"idle", "next"} /\ \A i \in Jobs : i # j => job'[i] = job[i]
      BY <1>2, <1>3, <2>0, <3>1 DEF IsAt
    <3>4. p \notin crossed' => p \notin crossed /\ row[p].status = job[j].seen
      BY <2>1, <3>1 DEF CrossedBy
    <3>5. p \notin crossed' => /\ ledger[p].trigger = 0 /\ ledger[p].due = 0
                               /\ \A i \in Jobs : Owes(job[i], p) => i = j
      <4>1. CASE job[j].seen = "expired_itm"
        BY <2>0, <2>1, <2>2, <3>4, <4>1 DEF Paid, ClaimedOnce, Owes, OwesExpiry, IsAt
      <4>2. CASE job[j].seen # "expired_itm"
        BY <2>0, <2>2, <3>4, <4>2 DEF Paid, ClaimedOnce
      <4> QED
        BY <4>1, <4>2
    <3>6. /\ \A i \in Jobs : OwesTrigger(job'[i], p) <=> OwesTrigger(job[i], p)
          /\ p \notin crossed' => \A i \in Jobs : ~Owes(job'[i], p)
      BY <2>0, <3>3, <3>5 DEF Owes, OwesTrigger, OwesExpiry, IsAt
    <3>7. TriggeredOnce(p)'
      BY <2>2, <3>2, <3>6 DEF Paid, TriggeredOnce, OwesTrigger
    <3>8. ClaimedOnce(p)'
      BY <2>2, <3>5, <3>6 DEF ClaimedOnce, Owes, OwesTrigger, OwesExpiry
    <3>9. PaidInFull(p)'
      BY <2>2, <3>2, <3>4, <3>5 DEF Paid, PaidInFull
    <3> QED
      BY <2>1, <2>2, <3>1, <3>2, <3>3, <3>7, <3>8, <3>9, PayoutStep DEF Paid
  <2>4. CASE Incident
    <3>1. /\ unsaid' = unsaid \cup {<<p, "payout">>} /\ Goes(j, Idle)
          /\ UNCHANGED <<row, crossed>>
      BY <1>7, <1>13, <2>1, <2>4 DEF AwaitPrice
    <3>2. job'[j].at = "idle" /\ \A i \in Jobs : i # j => job'[i] = job[i]
      BY <1>2, <3>1, IdleOK
    <3>3. \A i \in Jobs : /\ OwesTrigger(job'[i], p) <=> OwesTrigger(job[i], p)
                          /\ Owes(job'[i], p) => Owes(job[i], p)
      BY <2>0, <3>2 DEF Owes, OwesTrigger, OwesExpiry, IsAt
    <3>4. TriggeredOnce(p)'
      BY <2>2, <3>1, <3>3 DEF Paid, TriggeredOnce, OwesTrigger
    <3>5. ClaimedOnce(p)'
      <4>1. \A i \in Jobs : OwesTrigger(job'[i], p) => OwesTrigger(job[i], p) /\ Owes(job[i], p)
        BY <3>3 DEF Owes
      <4> QED
        BY <2>2, <3>1, <3>3, <4>1 DEF Paid, ClaimedOnce, Owes, OwesTrigger, OwesExpiry
    <3>6. Busy("monitor", {"owe"}, p) => Busy("monitor", {"owe"}, p)'
      BY <2>0, <3>2 DEF Busy, IsAt
    <3>7. PaidInFull(p)'
      BY <2>2, <3>1, <3>6 DEF Paid, PaidInFull
    <3> QED
      BY <2>1, <2>2, <3>1, <3>2, <3>4, <3>5, <3>7, PayoutStep DEF Paid
  <2> QED
    BY <1>13, <2>3, <2>4 DEF AwaitPrice
<1>14. ASSUME NEW j \in Jobs, SettlePayout(j) PROVE PayoutInv'
  <2>0. /\ IsAt(j, "settle", "settle") /\ job[j].on \in Protections /\ job[j].paid = 0
    BY <1>1, <1>14 DEF SettlePayout, IsAt, Shaped
  <2>1. PICK p \in Protections : p = job[j].on
    BY <2>0
  <2>2. UNCHANGED <<row, unsaid>> /\ Paid(p)
    BY <1>5, <1>14 DEF SettlePayout
  <2>3. job'[j].at = "idle" /\ \A i \in Jobs : i # j => job'[i] = job[i]
    BY <1>2, <1>14, IdleOK DEF SettlePayout
  <2>4. /\ \A q \in Protections \ {p} : ledger'[q] = ledger[q]
        /\ ledger'[p].trigger = ledger[p].trigger /\ ledger'[p].due = ledger[p].due
        /\ crossed \subseteq crossed'
        /\ p \notin crossed' /\ p \notin crossed /\ ledger[p].settled <= 1 => ledger'[p].settled <= 1
    <3>1. CASE Served
      <4>1. /\ ledger' = [ledger EXCEPT ![p].settled = @ + 1]
            /\ crossed' = crossed \cup (IF ledger[p].settled = 0 THEN {} ELSE {p})
        BY <1>7, <1>14, <2>0, <2>1, <3>1 DEF SettlePayout
      <4>2. ledger'[p].settled = ledger[p].settled + 1
        BY <1>1, <4>1 DEF Entries
      <4>3. /\ \A q \in Protections \ {p} : ledger'[q] = ledger[q]
            /\ ledger'[p].trigger = ledger[p].trigger /\ ledger'[p].due = ledger[p].due
        BY <1>1, <4>1 DEF Entries
      <4> QED
        BY <4>1, <4>2, <4>3
    <3>2. CASE Incident
      BY <1>7, <1>14, <3>2 DEF SettlePayout
    <3> QED
      BY <1>14, <3>1, <3>2 DEF SettlePayout
  <2>5. \A i \in Jobs : /\ OwesTrigger(job'[i], p) <=> OwesTrigger(job[i], p)
                        /\ OwesExpiry(job'[i], p) <=> OwesExpiry(job[i], p)
    BY <2>0, <2>3 DEF OwesTrigger, OwesExpiry, IsAt
  <2>6. TriggeredOnce(p)'
    BY <2>2, <2>4, <2>5 DEF Paid, TriggeredOnce, OwesTrigger
  <2>7. ClaimedOnce(p)'
    BY <2>2, <2>4, <2>5 DEF Paid, ClaimedOnce, Owes, OwesTrigger, OwesExpiry
  <2>8. /\ Busy("monitor", {"owe"}, p) => Busy("monitor", {"owe"}, p)'
        /\ Busy("resolve", {"due", "await"}, p) => Busy("resolve", {"due", "await"}, p)'
    BY <2>0, <2>3 DEF Busy, IsAt
  <2>9. PaidInFull(p)'
    BY <2>2, <2>4, <2>8 DEF Paid, PaidInFull
  <2> QED
    BY <2>0, <2>1, <2>2, <2>3, <2>4, <2>6, <2>7, <2>9, PayoutStep DEF Paid, IsAt
<1>15. ASSUME NEW j \in Jobs, PassStarts(j) \/ JobStep(j) \/ \E p \in Protections : RowStep(j, p)
       PROVE  PayoutInv'
  <2>1. ShapeInv
    BY DEF PayoutInv
  <2> QED
    BY <1>8, <1>9, <1>10, <1>11, <1>12, <1>13, <1>14, <1>15, <2>1, UnpaidStep, PayoutQuiet
<1>16. CASE \/ \E p \in Protections : ToggleAutoRenew(p) \/ DecideExpire(p) \/ Age(p)
            \/ \E p, n \in Protections : DecideRenew(p, n)
  <2>1. UNCHANGED <<ledger, job, crossed, unsaid>>
    BY <1>16 DEF ToggleAutoRenew, DecideExpire, Age, DecideRenew
  <2>2. \A q \in Protections :
          \/ row'[q].payout = row[q].payout /\ row'[q].status \in {row[q].status, "cancelled"}
          \/ q \in Fresh /\ row'[q].status = "awaiting_renew_decision"
    <3>1. CASE \E p \in Protections : ToggleAutoRenew(p) \/ DecideExpire(p) \/ Age(p)
      BY <1>1, <3>1, AsideOK DEF ToggleAutoRenew, DecideExpire, Age
    <3>2. CASE \E p, n \in Protections : DecideRenew(p, n)
      <4>1. PICK p \in Protections, n \in Protections : DecideRenew(p, n)
        BY <3>2
      <4> QED
        BY <4>1, DecideRenewOK DEF DecideRenew, PayoutInv
    <3> QED
      BY <1>16, <3>1, <3>2
  <2>3. \A q \in Fresh : ledger[q].trigger = 0 /\ ledger[q].due = 0 /\ ledger[q].settled = 0
    BY DEF PayoutInv, ShapeInv, FreshIsBlank
  <2>4. ASSUME NEW p \in Protections PROVE Paid(p)'
    <3>1. Paid(p)
      BY <1>5
    <3>2. TriggeredOnce(p)'
      BY <2>1, <2>2, <3>1 DEF Paid, TriggeredOnce, OwesTrigger
    <3>3. ClaimedOnce(p)'
      <4>1. CASE p \in Fresh /\ row'[p].status = "awaiting_renew_decision"
        <5>1. \A i \in Jobs : ~Owes(job[i], p)
          BY <1>1, <4>1 DEF Owes, OwesTrigger, OwesExpiry, Touched
        <5> QED
          BY <2>1, <4>1, <5>1 DEF ClaimedOnce, Owes, OwesTrigger, OwesExpiry
      <4>2. CASE row'[p].payout = row[p].payout /\ row'[p].status \in {row[p].status, "cancelled"}
        BY <2>1, <3>1, <4>2 DEF Paid, ClaimedOnce, Owes, OwesTrigger, OwesExpiry
      <4> QED
        BY <2>2, <4>1, <4>2
    <3>4. PaidInFull(p)'
      BY <2>1, <2>2, <2>3, <3>1 DEF Paid, PaidInFull, Busy
    <3> QED
      BY <3>2, <3>3, <3>4 DEF Paid
  <2> QED
    BY <2>4, PaidIs DEF PayoutInv, Paid, PaidInFull, PayoutAccounted
<1>17. CASE Restart
  <2>1. /\ UNCHANGED <<row, ledger, crossed>>
        /\ unsaid' = unsaid \cup UNION {Unfinished(j) : j \in Jobs}
        /\ \A j \in Jobs : job'[j].at = "idle"
    BY <1>17, IdleOK DEF Restart
  <2>2. ASSUME NEW p, NEW j \in Jobs, job[j].at \in {"owe", "due", "await"}, job[j].on = p
        PROVE  <<p, "payout">> \in unsaid'
    <3>1. Unfinished(j) = {<<p, "payout">>}
      BY <2>2 DEF Unfinished
    <3> QED
      BY <2>1, <3>1
  <2>3. ASSUME NEW p \in Protections PROVE Paid(p)'
    <3>1. Paid(p)
      BY <1>5
    <3>2. /\ Busy("monitor", {"owe"}, p) => <<p, "payout">> \in unsaid'
          /\ Busy("resolve", {"due", "await"}, p) => <<p, "payout">> \in unsaid'
      BY <2>2 DEF Busy
    <3>3. PaidInFull(p)'
      BY <2>1, <3>1, <3>2 DEF Paid, PaidInFull
    <3>4. TriggeredOnce(p)' /\ ClaimedOnce(p)'
      BY <2>1, <3>1 DEF Paid, TriggeredOnce, ClaimedOnce, Owes, OwesTrigger, OwesExpiry
    <3> QED
      BY <3>3, <3>4 DEF Paid
  <2> QED
    BY <2>3, PaidIs DEF PayoutInv, Paid, PaidInFull, PayoutAccounted
<1>18. CASE UNCHANGED vars
  BY <1>18 DEF vars, PayoutInv, TriggeredOnce, ClaimedOnce, PayoutAccounted, Owes, OwesTrigger,
               OwesExpiry, Busy
<1> QED
  BY <1>15, <1>16, <1>17, <1>18 DEF Next

-----------------------------------------------------------------------------
(* The theorems. *)

LEMMA InitPaid == ASSUME Init PROVE SaleInv /\ RenewalInv /\ PayoutInv
<1>1. ShapeInv
  BY InitShape
<1>2. \A j \in Jobs : job[j] = Idle
  BY DEF Init
<1>3. \A p \in Protections :
        /\ sold[p] = 0 /\ row[p].hedge \in {"none", "active"}
        /\ ledger[p].trigger = 0 /\ ledger[p].due = 0 /\ ledger[p].settled = 0
        /\ row[p].status \in {"active", "absent"}
        /\ row[p].hedge # "none" => row[p].hydrated /\ ledger[p].premium = 1
  BY DEF Init, NewRow
<1>4. SaleInv
  BY <1>1, <1>2, <1>3, IdleOK DEF SaleInv, Selling, HedgeSoldOnce, IsAt
<1>5. RenewalInv
  <2>1. renewed = {}
    BY DEF Init
  <2> QED
    BY <1>1, <1>2, <1>3, <2>1, IdleOK
    DEF RenewalInv, Renewing, RenewedIsClosed, RenewalAccounted, IsAt
<1>6. PayoutInv
  BY <1>1, <1>2, <1>3, IdleOK
  DEF PayoutInv, TriggeredOnce, ClaimedOnce, PayoutAccounted, Owes, OwesTrigger, OwesExpiry
<1> QED
  BY <1>4, <1>5, <1>6

\* Of every job, row and entry of the ledger: the shape, and what the three
\* properties below need to be inductive.
LEMMA Invariant == Spec => []SaleInv /\ []RenewalInv /\ []PayoutInv
<1>1. Init => SaleInv /\ RenewalInv /\ PayoutInv
  BY InitPaid
<1>2. SaleInv /\ RenewalInv /\ PayoutInv /\ [Next]_vars => (SaleInv /\ RenewalInv /\ PayoutInv)'
  BY NextShape, NextSale, NextRenewal, NextPayout DEF SaleInv
<1> QED
  BY <1>1, <1>2, PTL DEF Spec

\* A renewal is bought again for a row only while the first is under way or
\* after it failed, and the row it inserts is priced and owes its premium
\* unless its renewal is under way or failed (runAutoRenewCycle, and the status
\* it sets last).
THEOREM RenewalsAccounted == Spec => []ProtectionInv
<1>1. RenewalInv => ProtectionInv
  BY DEF RenewalInv, ShapeInv, ProtectionInv
<1> QED
  BY <1>1, Invariant, PTL

\* The hedge of a row is sold again only by a pass that listed it before the
\* first sale was recorded, or because recording it failed
\* (runHedgeManagementCycle, and updateHedgeStatus after the venue's answer).
THEOREM HedgesSoldOnce == Spec => []HedgeSoldOnce
<1>1. SaleInv => HedgeSoldOnce
  BY DEF SaleInv
<1> QED
  BY <1>1, Invariant, PTL

\* A triggered row and one that expired in the money owe their payout in the
\* ledger, and owe one and settle it once, unless a failure or a row written
\* after it had changed explains it (the trigger monitor's guarded UPDATE, the
\* resolver's unguarded patch and its catch block, and the settle route).
THEOREM PayoutsAccounted == Spec => []PayoutAccounted
<1>1. PayoutInv => PayoutAccounted
  BY DEF PayoutInv
<1> QED
  BY <1>1, Invariant, PTL

=============================================================================
