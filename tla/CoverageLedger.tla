--------------------------- MODULE CoverageLedger ---------------------------
(***************************************************************************)
(* The coverages of the collar API (services/api/src/server.ts): the map of *)
(* live coverages, the coverage ledger, the two files they are saved to and *)
(* the audit log, which is also what tells a repeated activation from a     *)
(* first one.                                                               *)
(*                                                                          *)
(* Everything is in the memory of one process.  A handler runs undisturbed  *)
(* up to its next await; an action is what it does from one await to the    *)
(* next.  A file is written from a copy taken when the write was asked for. *)
(*                                                                          *)
(* Amounts are counted in units: an activation, an order or a renewal       *)
(* collects one fee, a credit is one unit.  Left out: hedge sizes and legs, *)
(* the mark-to-market figures of an entry and the save behind them, and     *)
(* ends that are no dates.                                                  *)
(***************************************************************************)
EXTENDS Integers, FiniteSets, FiniteSetsExt

CONSTANTS
  Coverages,     \* coverage ids
  NoCoverage,    \* marker, not a coverage
  Jobs,          \* handlers and timer callbacks under way at once
  Quoted,        \* ends a request to activate may name; 0 when it names none
  Positions,     \* positions a coverage protects
  MaxTime, MaxFee, MaxCredit, MaxIncidents   \* bounds

ASSUME LedgerConstants ==
  /\ NoCoverage \notin Coverages
  /\ {Positions, MaxTime, MaxFee, MaxCredit, MaxIncidents} \subseteq Nat
  /\ Quoted \subseteq 0 .. MaxTime + 1
  /\ IsFiniteSet(Coverages) /\ IsFiniteSet(Jobs)

VARIABLES
  now,
  active,      \* activeCoverages: the end of a live coverage, 0 without one
  entry,       \* coverageLedger
  file,        \* what a process that starts would read of both
  boot,        \* bootstrapState: which file is read or taken over next
  activated,   \* coverages activated in the last 200 audit entries
  revenue,     \* liquidityState.revenueUsdc
  job,         \* local state of the handlers
  incidents,   \* failures, restarts and resets so far
  paidTo,      \* history: the latest end a coverage was given
  granted,     \* history: demo_credit entries of the audit log
  uncharged,   \* history: fees of orders that were not executed or named no tier
  gone,        \* history: coverages whose activation left the log
  shortened,   \* history: coverages given an earlier end, or activated when expired
  blurred,     \* history: credits written over another one, or lost
  unsaid       \* history: what a failure or a late write left apart

books   == <<active, entry, file, boot, activated, revenue>>
history == <<paidTo, granted, uncharged, gone, shortened, blurred, unsaid>>
vars    == <<now, books, job, incidents, history>>

Ends == 0 .. MaxTime + 1

NoEntry == [status |-> "none", end |-> 0, positions |-> FALSE, fee |-> 0, credit |-> 0]

NoLives   == [c \in Coverages |-> 0]
NoEntries == [c \in Coverages |-> NoEntry]
Nothing   == [active |-> NoLives, entry |-> NoEntries]

Idle == [kind |-> "none", at |-> "idle", on |-> NoCoverage, then |-> "idle", shot |-> Nothing,
         clock |-> 0, seen |-> {}, base |-> 0, left |-> 0, till |-> 0,
         lists |-> FALSE, tier |-> FALSE, fee |-> 0, filled |-> FALSE, over |-> FALSE]

Init ==
  /\ now = 0
  /\ active = NoLives
  /\ entry = NoEntries
  /\ file = [active |-> active, entry |-> entry]
  /\ boot = [at |-> "fresh", shot |-> Nothing]
  /\ activated = {}
  /\ revenue = 0
  /\ job = [j \in Jobs |-> Idle]
  /\ incidents = 0
  /\ paidTo = [c \in Coverages |-> 0]
  /\ granted = [c \in Coverages |-> 0]
  /\ uncharged = 0
  /\ gone = {}
  /\ shortened = {}
  /\ blurred = {}
  /\ unsaid = {}

-----------------------------------------------------------------------------
(* Steps of a handler.                                                      *)

Incident == incidents < MaxIncidents /\ incidents' = incidents + 1
Served   == UNCHANGED incidents

IsAt(j, kind, at) == job[j].kind = kind /\ job[j].at = at
Becomes(j, r)     == job' = [job EXCEPT ![j] = r]
Goes(j, at)       == Becomes(j, [job[j] EXCEPT !.at = at])
Stops(j)          == Becomes(j, Idle)

Starts(kind, at, c) == [Idle EXCEPT !.kind = kind, !.at = at, !.on = c]

\* The handler awaits the write of a file, and goes on at "then".
Saving(r, where, what, then) == [r EXCEPT !.at = where, !.shot = what, !.then = then]
SavesLedger(r, then) == Saving(r, "saveLedger", [Nothing EXCEPT !.entry = entry'], then)
SavesActive(r, then) == Saving(r, "saveActive", [Nothing EXCEPT !.active = active'], then)

Live == {c \in Coverages : active[c] # 0}

\* What a restart would read of the live coverages is what is in memory; of
\* the rest it would drop everything.
Covers(saved) ==
  \A c \in Coverages :
    IF active[c] # 0 THEN saved[c] = active[c] ELSE saved[c] <= now

Apart(what, isApart) == unsaid' = IF isApart THEN unsaid \cup {what} ELSE unsaid \ {what}

Resumes(j) ==
  Becomes(j, IF job[j].then = "idle" THEN Idle
             ELSE [job[j] EXCEPT !.at = job[j].then, !.then = "idle", !.shot = Nothing])

\* saveCoverageLedger: an error is swallowed.  A write that ends after a later
\* one leaves the older copy.
EndSaveLedger(j) ==
  /\ job[j].at = "saveLedger"
  /\ \/ /\ file' = [file EXCEPT !.entry = job[j].shot.entry]
        /\ Apart("entry", job[j].shot.entry # entry)
        /\ Served
     \/ /\ Incident
        /\ Apart("entry", TRUE)
        /\ UNCHANGED file
  /\ Resumes(j)
  /\ UNCHANGED <<now, active, entry, boot, activated, revenue, paidTo, granted,
                 uncharged, gone, shortened, blurred>>

\* saveCoverages, likewise.
EndSaveActive(j) ==
  /\ job[j].at = "saveActive"
  /\ \/ /\ file' = [file EXCEPT !.active = job[j].shot.active]
        /\ Apart("active", ~Covers(job[j].shot.active))
        /\ Served
     \/ /\ Incident
        /\ Apart("active", TRUE)
        /\ UNCHANGED file
  /\ Resumes(j)
  /\ UNCHANGED <<now, active, entry, boot, activated, revenue, paidTo, granted,
                 uncharged, gone, shortened, blurred>>

\* upsertCoverageLedger: a field that is not given keeps its value; a new
\* entry is active.
Upsert(c, r) ==
  entry' = [entry EXCEPT ![c] = [r EXCEPT !.status = IF @ = "none" THEN "active" ELSE @]]

-----------------------------------------------------------------------------
(* POST /audit/export: a coverage is activated.                             *)

\* A request that names an end has the log read, and waits for it.  It may
\* name one that has passed, or list no positions.
StartExport(j, c) ==
  /\ job[j] = Idle
  /\ entry[c].fee < MaxFee
  /\ \E till \in Quoted, lists \in BOOLEAN :
       Becomes(j, [Starts("export", IF till = 0 THEN "activate" ELSE "check", c) EXCEPT
                     !.till = till, !.lists = lists, !.over = c \in activated \cup gone])
  /\ Served
  /\ UNCHANGED <<now, books, history>>

\* A repeated activation is refused when the end it names is to come.
Duplicate(j) == job[j].on \in activated /\ job[j].till > now

CheckLog(j) ==
  /\ IsAt(j, "export", "check")
  /\ IF Duplicate(j) THEN Stops(j) ELSE Goes(j, "activate")
  /\ Served
  /\ UNCHANGED <<now, books, history>>

Latest(c, end) == paidTo' = [paidTo EXCEPT ![c] = IF end > @ THEN end ELSE @]

\* The fee is collected; without an end of its own the entry keeps the one it has.
\* What the request named is not looked at again.
CollectFee(j) ==
  LET c    == job[j].on
      till == job[j].till
  IN /\ Upsert(c, [entry[c] EXCEPT !.end = IF till = 0 THEN @ ELSE till,
                                   !.positions = job[j].lists, !.fee = @ + 1])
     /\ Becomes(j, SavesLedger(Starts("export", "saveLedger", c), "book"))
     /\ Latest(c, till)
     /\ shortened' = IF till # 0 /\ (till < entry[c].end \/ entry[c].status = "expired")
                     THEN shortened \cup {c} ELSE shortened

\* Behind the write of the exported file, which may throw: a coverage with an
\* end and positions is live.
Activate(j) ==
  /\ IsAt(j, "export", "activate")
  /\ \/ /\ job[j].till # 0 /\ job[j].lists
        /\ active' = [active EXCEPT ![job[j].on] = job[j].till]
        /\ Becomes(j, SavesActive(job[j], "collect"))
        /\ Served
        /\ UNCHANGED <<entry, paidTo, shortened>>
     \/ /\ job[j].till = 0 \/ ~job[j].lists
        /\ CollectFee(j)
        /\ Served
        /\ UNCHANGED active
     \/ /\ Incident
        /\ Stops(j)
        /\ UNCHANGED <<active, entry, paidTo, shortened>>
  /\ UNCHANGED <<now, file, boot, activated, revenue, granted, uncharged, gone, blurred, unsaid>>

Collect(j) ==
  /\ IsAt(j, "export", "collect")
  /\ CollectFee(j)
  /\ Served
  /\ UNCHANGED <<now, active, file, boot, activated, revenue, granted, uncharged,
                 gone, blurred, unsaid>>

BookRevenue(j) ==
  /\ IsAt(j, "export", "book")
  /\ revenue' = revenue + 1
  /\ Goes(j, "log")
  /\ Served
  /\ UNCHANGED <<now, active, entry, file, boot, activated, history>>

\* coverage_activated is the last entry a request appends, and may throw.
LogActivation(j) ==
  /\ IsAt(j, "export", "log")
  /\ \/ /\ activated' = activated \cup {job[j].on}
        /\ Served
     \/ Incident /\ UNCHANGED activated
  /\ Stops(j)
  /\ UNCHANGED <<now, active, entry, file, boot, revenue, paidTo, granted, uncharged,
                 gone, shortened, blurred, unsaid>>

-----------------------------------------------------------------------------
(* POST /deribit/order: a hedge is bought for a coverage.                   *)

\* The quote's lock, if any, is read and stays: nothing is consumed.  A client
\* that exports the coverage itself says that its fee is recognized; of an
\* order without a fee it makes no difference whether it names its tier.
StartOrder(j, c) ==
  /\ job[j] = Idle
  /\ entry[c].fee < MaxFee
  /\ \E fee \in {0, 1}, tier \in BOOLEAN :
       /\ fee = 0 => tier
       /\ Becomes(j, [Starts("order", "venue", c) EXCEPT !.fee = fee, !.tier = tier])
  /\ Served
  /\ UNCHANGED <<now, books, history>>

\* Only an order that was executed and names its tier is accounted for.
Charged(r) == r.filled /\ r.tier

\* The fee goes into the ledger whatever the venue answered.
RecordOrder(j) ==
  LET c == job[j].on IN
  /\ IsAt(j, "order", "venue")
  /\ \/ \E filled \in BOOLEAN :
          /\ Upsert(c, [entry[c] EXCEPT !.fee = @ + job[j].fee])
          /\ Becomes(j, SavesLedger([job[j] EXCEPT !.filled = filled], "charge"))
          /\ uncharged' = uncharged + IF filled /\ job[j].tier THEN 0 ELSE job[j].fee
     \/ Stops(j) /\ UNCHANGED <<entry, uncharged>>
  /\ Served
  /\ UNCHANGED <<now, active, file, boot, activated, revenue, paidTo, granted, gone,
                 shortened, blurred, unsaid>>

\* Mutant: an order is accounted for whatever became of it.
ChargeAnyOrder(j) ==
  /\ IsAt(j, "order", "charge")
  /\ revenue' = revenue + job[j].fee
  /\ Stops(j)
  /\ Served
  /\ UNCHANGED <<now, active, entry, file, boot, activated, history>>

\* hedge_order is appended; then the order is accounted for.
ChargeOrder(j) ==
  /\ IsAt(j, "order", "charge")
  /\ \/ /\ revenue' = revenue + IF Charged(job[j]) THEN job[j].fee ELSE 0
        /\ Served
        /\ UNCHANGED unsaid
     \/ /\ Incident
        /\ Apart("revenue", TRUE)
        /\ UNCHANGED revenue
  /\ Stops(j)
  /\ UNCHANGED <<now, active, entry, file, boot, activated, paidTo, granted, uncharged,
                 gone, shortened, blurred>>

-----------------------------------------------------------------------------
(* POST /put/auto-renew.                                                    *)

StartRenewal(j, c) ==
  /\ job[j] = Idle
  /\ entry[c].status # "none"
  /\ entry[c].fee < MaxFee
  /\ \E till \in now + 1 .. MaxTime + 1 :
       Becomes(j, [Starts("renew", "buy", c) EXCEPT !.till = till])
  /\ Served
  /\ UNCHANGED <<now, books, history>>

\* No quote, no fill or a throw ends it; a fill is logged and accounted for.
BuyRenewal(j) ==
  /\ IsAt(j, "renew", "buy")
  /\ \/ revenue' = revenue + 1 /\ Goes(j, "record")
     \/ Stops(j) /\ UNCHANGED revenue
  /\ Served
  /\ UNCHANGED <<now, active, entry, file, boot, activated, history>>

\* Mutant: a renewal is not saved.
RecordRenewalInMemory(j) ==
  LET c == job[j].on IN
  /\ IsAt(j, "renew", "record")
  /\ entry' = [entry EXCEPT ![c].end = job[j].till, ![c].status = "active", ![c].fee = @ + 1]
  /\ Stops(j)
  /\ Latest(c, job[j].till)
  /\ shortened' = IF job[j].till < entry[c].end THEN shortened \cup {c} ELSE shortened
  /\ Served
  /\ UNCHANGED <<now, active, file, boot, activated, revenue, granted, uncharged,
                 gone, blurred, unsaid>>

\* The ledger gets the new end, the map of live coverages keeps the old one.
RecordRenewal(j) ==
  LET c == job[j].on IN
  /\ IsAt(j, "renew", "record")
  /\ \/ /\ entry' = [entry EXCEPT ![c].end = job[j].till, ![c].status = "active",
                                  ![c].fee = @ + 1]
        /\ Becomes(j, SavesLedger(job[j], "idle"))
        /\ Latest(c, job[j].till)
        /\ shortened' = IF job[j].till < entry[c].end THEN shortened \cup {c} ELSE shortened
        /\ Served
        /\ UNCHANGED unsaid
     \/ /\ Incident
        /\ Apart("revenue", TRUE)
        /\ Stops(j)
        /\ UNCHANGED <<entry, paidTo, shortened>>
  /\ UNCHANGED <<now, active, file, boot, activated, revenue, granted, uncharged,
                 gone, blurred>>

-----------------------------------------------------------------------------
(* The end of a coverage.                                                   *)

\* getCombinedExposureBook drops what is over and saves nothing.
DropEnded ==
  /\ \E c \in Live : active[c] <= now
  /\ active' = [c \in Coverages |-> IF active[c] <= now THEN 0 ELSE active[c]]
  /\ UNCHANGED <<now, entry, file, boot, activated, revenue, job, incidents, history>>

\* markCoverageExpired: the entry gets the end its caller knows.
MarkExpired(j, r, c, end) ==
  IF entry[c].status = "expired"
  THEN Becomes(j, r) /\ UNCHANGED entry
  ELSE /\ Upsert(c, [entry[c] EXCEPT !.status = "expired", !.end = end])
       /\ Becomes(j, SavesLedger(r, "walk"))

\* GET /coverage/active; one that finds nothing over changes nothing.
StartList(j) ==
  /\ job[j] = Idle
  /\ \E c \in Live : active[c] <= now
  /\ Becomes(j, [Starts("list", "walk", NoCoverage) EXCEPT !.clock = now])
  /\ Served
  /\ UNCHANGED <<now, books, history>>

\* The records before it in the map are seen on the way.
ListEnded(j, c) ==
  /\ IsAt(j, "list", "walk")
  /\ c \in Live /\ active[c] <= job[j].clock
  /\ active' = [active EXCEPT ![c] = 0]
  /\ \E before \in SUBSET {d \in Live : active[d] > job[j].clock} :
       MarkExpired(j, [job[j] EXCEPT !.seen = @ \cup before], c, active[c])
  /\ shortened' = IF entry[c].status # "expired" /\ active[c] < entry[c].end
                  THEN shortened \cup {c} ELSE shortened
  /\ Served
  /\ UNCHANGED <<now, file, boot, activated, revenue, paidTo, granted, uncharged,
                 gone, blurred, unsaid>>

\* The map is saved when its size is not that of the list.
EndList(j) ==
  LET listed == job[j].seen \cup {c \in Live : active[c] > job[j].clock} IN
  /\ IsAt(j, "list", "walk")
  /\ \A c \in Live : active[c] > job[j].clock
  /\ UNCHANGED active
  /\ Becomes(j, IF Cardinality(listed) # Cardinality(Live)
                THEN SavesActive(job[j], "idle") ELSE Idle)
  /\ Served
  /\ UNCHANGED <<now, entry, file, boot, activated, revenue, history>>

\* An audit entry that cannot be appended ends a listing or a pass.
WalkThrows(j) ==
  /\ job[j].kind \in {"list", "mtm"}
  /\ job[j].at \in {"walk", "position"}
  /\ Incident
  /\ Stops(j)
  /\ UNCHANGED <<now, books, history>>

-----------------------------------------------------------------------------
(* computeCoverageMtmSnapshots: the timer does not wait for the last pass.  *)

StartPass(j) ==
  /\ job[j] = Idle
  /\ \E c \in Coverages : entry[c].positions
  /\ Becomes(j, [Starts("mtm", "walk", NoCoverage) EXCEPT !.clock = now])
  /\ Served
  /\ UNCHANGED <<now, books, history>>

\* An entry without an end is never over.
Over(c, clock) == entry[c].end \in 1 .. clock

Unvisited(j) == {c \in Coverages \ job[j].seen : entry[c].positions}

\* Mutant: the end that counts is that of the live coverage.
PassExpiresDropped(j, c) ==
  /\ IsAt(j, "mtm", "walk")
  /\ c \in Unvisited(j) /\ active[c] <= job[j].clock
  /\ MarkExpired(j, [job[j] EXCEPT !.seen = @ \cup {c}], c, entry[c].end)
  /\ Served
  /\ UNCHANGED <<now, active, file, boot, activated, revenue, history>>

PassExpires(j, c) ==
  /\ IsAt(j, "mtm", "walk")
  /\ c \in Unvisited(j) /\ Over(c, job[j].clock)
  /\ MarkExpired(j, [job[j] EXCEPT !.seen = @ \cup {c}], c, entry[c].end)
  /\ Served
  /\ UNCHANGED <<now, active, file, boot, activated, revenue, history>>

\* The entry is taken as it is now, and marks are awaited; without a spot price
\* it is passed over.
PassValues(j, c) ==
  /\ IsAt(j, "mtm", "walk")
  /\ c \in Unvisited(j) /\ ~Over(c, job[j].clock)
  /\ \E left \in {0, Positions} :
       Becomes(j, [job[j] EXCEPT !.seen = @ \cup {c}, !.on = c, !.at = "position",
                                 !.base = entry[c].credit, !.left = left])
  /\ Served
  /\ UNCHANGED <<now, books, history>>

\* A position within its drawdown limit gets nothing.
PassSkips(j) ==
  /\ IsAt(j, "mtm", "position")
  /\ job[j].left > 0
  /\ Becomes(j, [job[j] EXCEPT !.left = @ - 1])
  /\ Served
  /\ UNCHANGED <<now, books, history>>

\* What a position is short of is credited: first the log ...
PassGrants(j) ==
  /\ IsAt(j, "mtm", "position")
  /\ job[j].left > 0
  /\ granted[job[j].on] < MaxCredit
  /\ granted' = [granted EXCEPT ![job[j].on] = @ + 1]
  /\ Becomes(j, [job[j] EXCEPT !.at = "grant", !.left = @ - 1])
  /\ Served
  /\ UNCHANGED <<now, books, paidTo, uncharged, gone, shortened, blurred, unsaid>>

\* ... then the ledger, from the total the pass had read.
PassRecords(j) ==
  LET c == job[j].on IN
  /\ IsAt(j, "mtm", "grant")
  /\ Upsert(c, [entry[c] EXCEPT !.credit = job[j].base + 1])
  /\ Becomes(j, SavesLedger(job[j], "position"))
  /\ blurred' = IF entry[c].credit # job[j].base THEN blurred \cup {c} ELSE blurred
  /\ Served
  /\ UNCHANGED <<now, active, file, boot, activated, revenue, paidTo, granted,
                 uncharged, gone, shortened, unsaid>>

PassOn(j) ==
  /\ IsAt(j, "mtm", "position")
  /\ job[j].left = 0
  /\ Becomes(j, [job[j] EXCEPT !.at = "walk", !.on = NoCoverage, !.base = 0])
  /\ Served
  /\ UNCHANGED <<now, books, history>>

EndPass(j) ==
  /\ IsAt(j, "mtm", "walk")
  /\ Unvisited(j) = {}
  /\ Stops(j)
  /\ Served
  /\ UNCHANGED <<now, books, history>>

-----------------------------------------------------------------------------
(* The process and its surroundings.                                        *)

Tick ==
  /\ now < MaxTime
  /\ now' = now + 1
  /\ UNCHANGED <<books, job, incidents, history>>

\* 200 later entries push an activation out of what is read of the log.
ScrollLog ==
  /\ \E c \in activated : activated' = activated \ {c} /\ gone' = gone \cup {c}
  /\ UNCHANGED <<now, active, entry, file, boot, revenue, job, incidents, paidTo, granted,
                 uncharged, shortened, blurred, unsaid>>

Saves(where) == \E j \in Jobs : job[j].at = where

\* What a write that is cut off leaves cannot be parsed, and is not loaded.
TornActive == [file EXCEPT !.active = NoLives]
TornLedger == [file EXCEPT !.entry = NoEntries]

\* A process starts, and serves requests before it has read the files.
Restart ==
  /\ Incident
  /\ \/ UNCHANGED file
     \/ Saves("saveActive") /\ file' = TornActive
     \/ Saves("saveLedger") /\ file' = TornLedger
  /\ active' = NoLives
  /\ entry' = NoEntries
  /\ boot' = [at |-> "readActive", shot |-> Nothing]
  /\ revenue' = 0
  /\ job' = [j \in Jobs |-> Idle]
  /\ blurred' = Coverages
  /\ unsaid' = {"revenue"}
  /\ UNCHANGED <<now, activated, paidTo, granted, uncharged, gone, shortened>>

\* loadCoverages and loadCoverageLedger read, then put what they read over
\* what the requests served meanwhile have left; a write of theirs that failed,
\* or that ended behind the read, leaves it out of what is read next.
ReadFile ==
  /\ \/ /\ boot.at = "readActive"
        /\ boot' = [at |-> "takeActive", shot |-> [Nothing EXCEPT !.active = file.active]]
     \/ /\ boot.at = "readLedger"
        /\ boot' = [at |-> "takeLedger", shot |-> [Nothing EXCEPT !.entry = file.entry]]
  /\ UNCHANGED <<now, active, entry, file, activated, revenue, job, incidents, history>>

TakeActive ==
  /\ boot.at = "takeActive"
  /\ active' = [c \in Coverages |->
                  IF boot.shot.active[c] > now THEN boot.shot.active[c] ELSE active[c]]
  /\ boot' = [at |-> "readLedger", shot |-> Nothing]
  /\ Apart("active", "active" \in unsaid \/ file.active # boot.shot.active)
  /\ UNCHANGED <<now, entry, file, activated, revenue, job, incidents, paidTo, granted,
                 uncharged, gone, shortened, blurred>>

TakeLedger ==
  /\ boot.at = "takeLedger"
  /\ entry' = [c \in Coverages |->
                 IF boot.shot.entry[c].status # "none" THEN boot.shot.entry[c] ELSE entry[c]]
  /\ boot' = [at |-> "ready", shot |-> Nothing]
  /\ Apart("entry", "entry" \in unsaid \/ file.entry # boot.shot.entry)
  /\ shortened' = shortened \cup {c \in Coverages : entry'[c].end < paidTo[c]}
  /\ UNCHANGED <<now, active, file, activated, revenue, job, incidents, paidTo, granted,
                 uncharged, gone, blurred>>

\* POST /admin/reset, in demo mode.
StartReset(j) ==
  /\ job[j] = Idle
  /\ Incident
  /\ activated' = {}
  /\ gone' = gone \cup activated
  /\ Becomes(j, Starts("reset", "clear", NoCoverage))
  /\ UNCHANGED <<now, active, entry, file, boot, revenue, paidTo, granted, uncharged,
                 shortened, blurred, unsaid>>

Busy(kinds) == \E j \in Jobs : job[j].kind \in kinds

ResetMemory(j) ==
  /\ IsAt(j, "reset", "clear")
  /\ active' = NoLives
  /\ entry' = NoEntries
  /\ revenue' = 0
  /\ Goes(j, "remove")
  /\ paidTo' = [c \in Coverages |-> 0]
  /\ granted' = [c \in Coverages |-> 0]
  /\ uncharged' = 0
  /\ blurred' = IF Busy({"mtm"}) \/ boot.at \notin {"fresh", "ready"} THEN Coverages ELSE {}
  /\ unsaid' = unsaid \cup {"active", "entry"}
                      \cup (IF Busy({"export", "order", "renew"}) THEN {"revenue"} ELSE {})
  /\ Served
  /\ UNCHANGED <<now, file, boot, activated, gone, shortened>>

\* The files are removed behind the maps, whatever was saved since.
RemoveFiles(j) ==
  /\ IsAt(j, "reset", "remove")
  /\ file' = Nothing
  /\ unsaid' = (unsaid \ {"active", "entry"})
                 \cup (IF Live = {} THEN {} ELSE {"active"})
                 \cup (IF \A c \in Coverages : entry[c] = NoEntry THEN {} ELSE {"entry"})
  /\ Stops(j)
  /\ Served
  /\ UNCHANGED <<now, active, entry, boot, activated, revenue, paidTo, granted,
                 uncharged, gone, shortened, blurred>>

ExportStep(j) ==
  \/ \E c \in Coverages : StartExport(j, c)
  \/ CheckLog(j) \/ Activate(j) \/ Collect(j) \/ BookRevenue(j) \/ LogActivation(j)
OrderStep(j) ==
  \/ \E c \in Coverages : StartOrder(j, c)
  \/ RecordOrder(j) \/ ChargeOrder(j)
RenewStep(j) ==
  \/ \E c \in Coverages : StartRenewal(j, c)
  \/ BuyRenewal(j) \/ RecordRenewal(j)
ListStep(j) ==
  \/ StartList(j) \/ EndList(j)
  \/ \E c \in Coverages : ListEnded(j, c)
PassStep(j) ==
  \/ StartPass(j) \/ PassSkips(j) \/ PassGrants(j) \/ PassRecords(j) \/ PassOn(j) \/ EndPass(j)
  \/ \E c \in Coverages : PassExpires(j, c) \/ PassValues(j, c)

Next ==
  \/ \E j \in Jobs :
       \/ ExportStep(j) \/ OrderStep(j) \/ RenewStep(j) \/ ListStep(j) \/ PassStep(j)
       \/ EndSaveLedger(j) \/ EndSaveActive(j) \/ WalkThrows(j)
       \/ StartReset(j) \/ ResetMemory(j) \/ RemoveFiles(j)
  \/ DropEnded \/ Tick \/ ScrollLog
  \/ Restart \/ ReadFile \/ TakeActive \/ TakeLedger

\* Nothing has to happen: requests may not come, and the timers may be off.
Spec == Init /\ [][Next]_vars

-----------------------------------------------------------------------------
(* Properties.                                                              *)
Entries == [status : {"none", "active", "expired"}, end : Ends, positions : BOOLEAN,
            fee : Nat, credit : Nat]
Saved   == [active : [Coverages -> Ends], entry : [Coverages -> Entries]]

Kinds   == {"none", "export", "order", "renew", "list", "mtm", "reset"}
Places  == {"idle", "check", "activate", "collect", "book", "log", "venue", "charge", "buy",
            "record", "walk", "position", "grant", "clear", "remove", "saveLedger", "saveActive"}
Handlers ==
  [kind : Kinds, at : Places,
   on : Coverages \cup {NoCoverage}, then : Places, shot : Saved, clock : 0 .. MaxTime,
   seen : SUBSET Coverages, base : Nat, left : Nat, till : Ends, lists : BOOLEAN, tier : BOOLEAN,
   fee : {0, 1}, filled : BOOLEAN, over : BOOLEAN]

TypeOK ==
  /\ now \in 0 .. MaxTime
  /\ active \in [Coverages -> Ends]
  /\ entry \in [Coverages -> Entries]
  /\ file \in Saved
  /\ boot \in [at : {"fresh", "readActive", "takeActive", "readLedger", "takeLedger", "ready"},
              shot : Saved]
  /\ activated \subseteq Coverages
  /\ revenue \in Nat
  /\ job \in [Jobs -> Handlers]
  /\ incidents \in 0 .. MaxIncidents
  /\ paidTo \in [Coverages -> Ends]
  /\ granted \in [Coverages -> Nat]

\* An activation is collected again only by a request that arrived before the
\* first was logged, after 200 entries or a reset took it out of the log, or
\* that names no end to come: of such a request the log is not asked, or not
\* heard, though the coverage is live.  The log is read before the awaits of
\* the handler and written behind them.
CollectedOnce ==
  \A j \in Jobs :
    job[j].kind = "export" /\ job[j].over /\ job[j].at # "check"
      => job[j].on \in gone \/ job[j].till <= now

\* What the ledger of coverages says was collected is what was booked as
\* revenue, while no fee is between the two, except the fees of orders that the
\* venue did not execute or that name no tier, which are collected and never
\* booked.
RevenueAccounted ==
  "revenue" \notin unsaid =>
    revenue + uncharged
      + Cardinality({j \in Jobs : job[j].kind = "export" /\
                       (job[j].at = "book" \/ job[j].at = "saveLedger")})
      + Cardinality({j \in Jobs : job[j].kind = "order" /\ Charged(job[j]) /\ job[j].fee = 1})
    = MapThenSumSet(LAMBDA c : entry[c].fee, Coverages)
      + Cardinality({j \in Jobs : IsAt(j, "renew", "record")})

\* The credit of a coverage is the sum of the credits the log says were given,
\* unless a pass wrote it from a total it had read before another credit: that
\* of an overlapping pass, or its own for another position of the coverage.
CreditsAccounted ==
  \A c \in Coverages \ blurred :
    granted[c] = entry[c].credit
                   + Cardinality({j \in Jobs : IsAt(j, "mtm", "grant") /\ job[j].on = c})

\* A coverage is over before the latest end it was given only when the map of
\* live coverages still had the end before a renewal, when it was activated or
\* renewed anew with an earlier one, or when it was activated although expired:
\* its entry keeps that status.
EndHonoured ==
  boot.at \in {"fresh", "ready"} =>
    \A c \in Coverages \ shortened : entry[c].status = "expired" => paidTo[c] <= now

\* Once it has started, a process that stops and starts again finds the
\* coverages and the ledger it had, unless it stops within a write, one failed,
\* or one ended after a later one.
FilesKept ==
  boot.at \in {"fresh", "ready"} =>
    /\ "active" \notin unsaid /\ ~Saves("saveActive") => Covers(file.active)
    /\ "entry" \notin unsaid /\ ~Saves("saveLedger") => file.entry = entry

\* Together: what was collected and credited is what was booked and logged.
LedgerAccounted == RevenueAccounted /\ CreditsAccounted

\* Together: every variable has its shape, an activation is collected once and
\* an end is honoured.
CoverageInv == TypeOK /\ CollectedOnce /\ EndHonoured
=============================================================================
