----------------------------- MODULE HedgeBook -----------------------------
(***************************************************************************)
(* The hedge ledger of the collar API (services/api/src/server.ts) for one  *)
(* option on Deribit: what the order handler and the hedging loop buy and   *)
(* sell, what they book of it, and the cooldowns that space them.           *)
(*                                                                          *)
(* A handler runs undisturbed up to its next await; an action is what it    *)
(* does between two.  Ticks overlap: the timer waits for none, and a        *)
(* request to /loop/tick is another.                                        *)
(*                                                                          *)
(* Left out: prices and margins, the choice among instruments and among the *)
(* plans of a tick, and the legs and fees of the coverage.                  *)
(***************************************************************************)
EXTENDS Integers, FiniteSets, FiniteSetsExt

CONSTANTS
  Jobs,       \* handlers under way at once
  Size,       \* the size an order or a tick asks for
  Attempts,   \* how often the connector tries a private request
  Cooldown,   \* hedge_action_cooldown_ms, net_exposure_cooldown_ms
  MaxTime, MaxBook, MaxApart, MaxIncidents   \* bounds

\* A process serves finitely many requests at once.
ASSUME BookConstants ==
  /\ IsFiniteSet(Jobs)
  /\ {Size, Attempts} \subseteq Nat \ {0}
  /\ {Cooldown, MaxTime, MaxBook, MaxApart, MaxIncidents} \subseteq Nat

VARIABLES
  now,
  live,       \* orders go to Deribit itself, not to its paper mode
  book,       \* hedgeLedger: size of the instrument, negative when short
  file,       \* hedge-ledger.json
  hedgedAt,   \* hedgeActionCooldownByCoverage
  netAt,      \* netExposureCooldownByTier
  boot,       \* bootstrapState: the file is to be read, or was and is taken over
  job,        \* local state of the handlers
  incidents,
  held,       \* the account at the venue
  apart,      \* history: fills nobody books, less fills that were simulated
  orderedAt,  \* history: when the loop last ordered for the coverage
  unsaid      \* history: what a throw, a restart or a late write left apart

books   == <<book, file, hedgedAt, netAt, boot>>
history == <<apart, orderedAt, unsaid>>
vars    == <<now, live, books, job, incidents, held, history>>

Never == 0 - MaxTime - Cooldown

\* A handler: POST /deribit/order, or a tick, which orders for the coverage
\* (increase, decrease) and then for the net exposure (net).
Idle == [act |-> "none", at |-> "idle", side |-> 1, size |-> 0,
         over |-> FALSE, raced |-> FALSE, shot |-> 0]

Init ==
  /\ now = 0
  /\ live \in BOOLEAN
  /\ book = 0
  /\ file = 0
  /\ hedgedAt = Never
  /\ netAt = Never
  /\ boot = [at |-> "ready", shot |-> 0]
  /\ job = [j \in Jobs |-> Idle]
  /\ incidents = 0
  /\ held = 0
  /\ apart = 0
  /\ orderedAt = Never
  /\ unsaid = {}

-----------------------------------------------------------------------------
Incident == incidents < MaxIncidents /\ incidents' = incidents + 1
Served   == UNCHANGED incidents

IsAt(j, at)   == job[j].at = at
Becomes(j, r) == job' = [job EXCEPT ![j] = r]
Stops(j)      == Becomes(j, Idle)

Abs(n) == IF n < 0 THEN -n ELSE n

\* Handlers that order for the coverage, of which the cooldown speaks.
ForCoverage(j) == job[j].act \in {"increase", "decrease"}

\* Mutant: an order starts the cooldown when it is filled.
AfterFill(j, filled) ==
  CASE ForCoverage(j) /\ ~filled -> [Idle EXCEPT !.act = "net", !.at = "net"]
    [] ForCoverage(j) -> [Idle EXCEPT !.act = job[j].act, !.at = "cool"]
    [] job[j].act = "net" /\ filled -> [Idle EXCEPT !.act = "net", !.at = "netCool"]
    [] OTHER -> Idle

\* Where a handler goes with its order behind it: an order for the coverage
\* starts its cooldown filled or not, one for the net exposure when filled.
After(j, filled) ==
  CASE ForCoverage(j)               -> [Idle EXCEPT !.act = job[j].act, !.at = "cool"]
    [] job[j].act = "net" /\ filled -> [Idle EXCEPT !.act = "net", !.at = "netCool"]
    [] OTHER                        -> Idle

\* The fills of an order, counted with their sign.
Signed(j, n) == job[j].side * n

Ordered(j) == orderedAt' = IF ForCoverage(j) THEN now ELSE orderedAt

-----------------------------------------------------------------------------
(* An order: POST /deribit/order, POST /loop/tick.                          *)

StartOrder(j) ==
  /\ job[j] = Idle
  /\ \E side \in {1, -1} :
       Becomes(j, [Idle EXCEPT !.act = "order", !.at = "venue", !.side = side,
                               !.size = Size])
  /\ Served
  /\ UNCHANGED <<now, live, books, held, history>>

\* POST /put/auto-renew and POST /hedge/roll buy and book nothing here.
BuyUnbooked ==
  /\ apart + Size <= MaxApart
  /\ held' = held + Size
  /\ apart' = apart + Size
  /\ UNCHANGED <<now, live, books, job, incidents, orderedAt, unsaid>>

Fills(n, unbooked) ==
  /\ Abs(apart + unbooked) <= MaxApart
  /\ held' = held + n
  /\ apart' = apart + unbooked

\* A paper order is filled in full or in part, or rejected.
PaperAnswer(j) ==
  /\ ~live
  /\ \/ \E n \in 1 .. job[j].size :
          /\ Fills(Signed(j, n), 0)
          /\ Becomes(j, [job[j] EXCEPT !.at = "book", !.size = n])
     \/ /\ Fills(0, 0)
        /\ Becomes(j, After(j, FALSE))

\* What the venue has taken of a request: the connector sends one that timed
\* out again, and each may have been taken.
Taken(j) == {Signed(j, n * job[j].size) : n \in IF live THEN 0 .. Attempts ELSE {0}}

\* Deribit's own answer carries no status, which reads as not executed.
LiveAnswer(j) ==
  /\ live
  /\ \E n \in Taken(j) : Fills(n, n)
  /\ Becomes(j, After(j, FALSE))

\* The order handler takes a simulated fill for an order that failed, also
\* when what failed was the answer.
SimulatedFill(j) ==
  /\ job[j].act \in {"order", "net"}
  /\ \E n \in Taken(j), m \in 1 .. job[j].size :
       /\ Fills(n, n - Signed(j, m))
       /\ Becomes(j, [job[j] EXCEPT !.at = "book", !.size = m])

VenueAnswers(j) ==
  /\ IsAt(j, "venue")
  /\ PaperAnswer(j) \/ LiveAnswer(j) \/ SimulatedFill(j)
  /\ Ordered(j)
  /\ Served
  /\ UNCHANGED <<now, live, books, unsaid>>

\* The order handler answers an error; a tick ends without its cooldown.
VenueThrows(j) ==
  /\ IsAt(j, "venue")
  /\ \E n \in Taken(j) : Fills(n, n)
  /\ Stops(j)
  /\ Ordered(j)
  /\ unsaid' = IF ForCoverage(j) THEN unsaid \cup {"cooldown"} ELSE unsaid
  /\ Served
  /\ UNCHANGED <<now, live, books>>

\* The handlers, with those marked that have read a size which now changes.
Raced ==
  [k \in Jobs |-> [job[k] EXCEPT !.raced =
                     @ \/ (job[k].act = "decrease" /\ job[k].at \in {"venue", "book"})]]

\* updateHedgeLedger, and a copy for the file.
BookFill(j) ==
  /\ IsAt(j, "book")
  /\ Abs(book + Signed(j, job[j].size)) <= MaxBook
  /\ book' = book + Signed(j, job[j].size)
  /\ job' = [Raced EXCEPT ![j] = [job[j] EXCEPT !.at = "save", !.shot = book']]
  /\ Served
  /\ UNCHANGED <<now, live, file, hedgedAt, netAt, boot, held, history>>

\* A fill without a price or without a spot price to convert it is not booked.
PassOver(j) ==
  /\ IsAt(j, "book")
  /\ Abs(apart + Signed(j, job[j].size)) <= MaxApart
  /\ apart' = apart + Signed(j, job[j].size)
  /\ Becomes(j, After(j, TRUE))
  /\ Served
  /\ UNCHANGED <<now, live, books, held, orderedAt, unsaid>>

\* Whether the file is another than the book.
Differs(isOther) == unsaid' = IF isOther THEN unsaid \cup {"book"} ELSE unsaid \ {"book"}

\* saveHedgeLedger: an error is swallowed; a write that ends after a later one
\* leaves the older copy.
SaveBook(j) ==
  /\ IsAt(j, "save")
  /\ \/ /\ file' = job[j].shot
        /\ Differs(job[j].shot # book)
        /\ Served
     \/ /\ Incident
        /\ Differs(TRUE)
        /\ UNCHANGED file
  /\ Becomes(j, After(j, TRUE))
  /\ UNCHANGED <<now, live, book, hedgedAt, netAt, boot, held, apart, orderedAt>>

-----------------------------------------------------------------------------
(* POST /loop/tick.                                                         *)

WithinCooldown(at) == now - at < Cooldown

\* Ticks whose order for the coverage is behind their decision.
Deciding == {k \in Jobs : ForCoverage(k)}

\* The cooldown is read with the decision; a renewal may come before the order.
Decide(j) ==
  /\ job[j] = Idle
  /\ \E act \in {"hold", "increase", "decrease"} :
       Becomes(j, [Idle EXCEPT
                     !.at = "act",
                     !.act = IF WithinCooldown(hedgedAt) THEN "hold" ELSE act,
                     !.over = now - orderedAt < Cooldown /\ Deciding = {}])
  /\ Served
  /\ UNCHANGED <<now, live, books, held, history>>

\* Mutant: the size booked is taken to be as large as what is asked for.
ClosesAsked(j) == IF book = 0 THEN 0 ELSE Size

\* A decrease closes what the tick asks for at most of the size booked.
Closes(j) == IF Size < Abs(book) THEN Size ELSE Abs(book)

Act(j) ==
  /\ IsAt(j, "act")
  /\ Becomes(j,
       CASE job[j].act = "increase" ->
              [job[j] EXCEPT !.at = "venue", !.size = Size]
         [] job[j].act = "decrease" /\ Closes(j) > 0 ->
              [job[j] EXCEPT !.at = "venue", !.size = Closes(j),
                             !.side = IF book > 0 THEN -1 ELSE 1]
         [] OTHER -> [Idle EXCEPT !.act = "net", !.at = "net"])
  /\ Served
  /\ UNCHANGED <<now, live, books, held, history>>

\* A write of another file or of the audit log comes first, which may throw.
Cool(j) ==
  /\ IsAt(j, "cool")
  /\ \/ /\ hedgedAt' = now
        /\ Becomes(j, [Idle EXCEPT !.act = "net", !.at = "net"])
        /\ Served
        /\ UNCHANGED unsaid
     \/ /\ Incident
        /\ unsaid' = unsaid \cup {"cooldown"}
        /\ Stops(j)
        /\ UNCHANGED hedgedAt
  /\ UNCHANGED <<now, live, book, file, netAt, boot, held, apart, orderedAt>>

\* The net exposure is hedged by this option, through the order handler, or
\* by another instrument, or not.
NetExposure(j) ==
  /\ IsAt(j, "net")
  /\ \/ /\ ~WithinCooldown(netAt)
        /\ \/ Becomes(j, [job[j] EXCEPT !.at = "venue", !.size = Size])
           \/ Becomes(j, [job[j] EXCEPT !.at = "netCool"])
     \/ Stops(j)
  /\ Served
  /\ UNCHANGED <<now, live, books, held, history>>

\* Only a net hedge that was executed starts the cooldown.
NetCool(j) ==
  /\ IsAt(j, "netCool")
  /\ netAt' = now
  /\ Stops(j)
  /\ Served
  /\ UNCHANGED <<now, live, book, file, hedgedAt, boot, held, history>>

-----------------------------------------------------------------------------
Tick ==
  /\ now < MaxTime
  /\ now' = now + 1
  /\ UNCHANGED <<live, books, job, incidents, held, history>>

\* A process starts without cooldowns, and serves before it has read the file.
\* What a write that is cut off leaves cannot be parsed, and is not loaded.
Restart ==
  /\ Incident
  /\ \/ UNCHANGED file
     \/ (\E j \in Jobs : IsAt(j, "save")) /\ file' = 0
  /\ book' = 0
  /\ hedgedAt' = Never
  /\ netAt' = Never
  /\ boot' = [at |-> "read", shot |-> 0]
  /\ job' = [j \in Jobs |-> Idle]
  /\ apart' = held
  /\ unsaid' = unsaid \cup {"cooldown"}
  /\ UNCHANGED <<now, live, held, orderedAt>>

ReadFile ==
  /\ boot.at = "read"
  /\ boot' = [at |-> "take", shot |-> file]
  /\ UNCHANGED <<now, live, book, file, hedgedAt, netAt, job, incidents, held, history>>

\* loadHedgeLedger puts what it read over what was booked meanwhile; a file
\* that is not there, which counts as a size of 0, leaves it.
TakeFile ==
  /\ boot.at = "take"
  /\ \E size \in IF boot.shot = 0 THEN {0, book} ELSE {boot.shot} :
       /\ book' = size
       /\ apart' = apart + book - size
       /\ Differs(file # size)
  /\ boot' = [at |-> "ready", shot |-> 0]
  /\ job' = Raced
  /\ UNCHANGED <<now, live, file, hedgedAt, netAt, incidents, held, orderedAt>>

\* POST /admin/reset, in demo mode: the ledger, then the file.
ResetMemory(j) ==
  /\ job[j] = Idle
  /\ Incident
  /\ book' = 0
  /\ apart' = apart + book
  /\ Differs(TRUE)
  /\ job' = [Raced EXCEPT ![j] = [Idle EXCEPT !.act = "reset", !.at = "remove"]]
  /\ UNCHANGED <<now, live, file, hedgedAt, netAt, boot, held, orderedAt>>

RemoveFile(j) ==
  /\ IsAt(j, "remove")
  /\ file' = 0
  /\ Differs(book # 0)
  /\ Stops(j)
  /\ Served
  /\ UNCHANGED <<now, live, book, hedgedAt, netAt, boot, held, apart, orderedAt>>

OrderStep(j) ==
  \/ StartOrder(j) \/ VenueAnswers(j) \/ VenueThrows(j)
  \/ BookFill(j) \/ PassOver(j) \/ SaveBook(j)

TickStep(j) ==
  Decide(j) \/ Act(j) \/ Cool(j) \/ NetExposure(j) \/ NetCool(j)

Next ==
  \/ \E j \in Jobs : OrderStep(j) \/ TickStep(j) \/ ResetMemory(j) \/ RemoveFile(j)
  \/ BuyUnbooked
  \/ Tick
  \/ Restart \/ ReadFile \/ TakeFile

\* Nothing has to happen: requests may not come, and the timer may be off.
Spec == Init /\ [][Next]_vars

-----------------------------------------------------------------------------
(* Properties.                                                              *)
TypeOK ==
  /\ now \in 0 .. MaxTime
  /\ {book, file, held, apart} \subseteq Int
  /\ {hedgedAt, netAt, orderedAt} \subseteq {Never} \cup 0 .. MaxTime
  /\ \A j \in Jobs :
       /\ job[j].side \in {1, -1}
       /\ job[j].size \in 0 .. Size
       /\ job[j].act \in {"none", "order", "hold", "increase", "decrease", "net", "reset"}
  /\ incidents \in 0 .. MaxIncidents

Unbooked == {j \in Jobs : IsAt(j, "book")}

\* The account holds what is booked or about to be, and what nobody books: the
\* fills of renewals and rolls, those without a price, those a restart or a reset
\* dropped and, at Deribit itself, every fill that answers an order, less the
\* fills that were simulated.
BookAccounted ==
  held = book + apart + MapThenSumSet(LAMBDA j : Signed(j, job[j].size), Unbooked)

\* A tick reduces what is booked and never turns it around, unless another
\* handler has booked since the tick read the size.
ReducesWhatIsBooked ==
  \A j \in Unbooked :
    job[j].act = "decrease" /\ ~job[j].raced =>
      Abs(book + Signed(j, job[j].size)) = Abs(book) - job[j].size

\* Once it has started, a process that stops and starts again finds the size it
\* had booked, unless it stops within a write, one failed, or one ended after a
\* later one.
BookSaved ==
  /\ boot.at = "ready"
  /\ "book" \notin unsaid
  /\ \A j \in Jobs : ~IsAt(j, "save")
  => file = book

\* Within the cooldown of an order of the loop another is placed only by a tick
\* that decided while the first was under way, or when the first threw or the
\* process has restarted.
SpacedByCooldown ==
  \A j \in Jobs :
    IsAt(j, "venue") /\ ForCoverage(j) /\ job[j].over => "cooldown" \in unsaid

\* Together: the book, its file and the account agree, and the loop reduces.
BookInv == TypeOK /\ BookAccounted /\ ReducesWhatIsBooked /\ BookSaved
=============================================================================
