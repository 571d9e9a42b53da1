----------------------------- MODULE Admission -----------------------------
(***************************************************************************)
(* Who may open a Volume Cover position: the /activate route and the        *)
(* operator's /admin/test-activate, with the anti-bot layers they consult   *)
(* (antiBot.ts), the guard composer (volumeCoverGuardrails.ts) and the rows *)
(* both depend on.                                                          *)
(*                                                                          *)
(* A request reads the cell, today's positions, the pair's last position,   *)
(* the fingerprint and the trigger metrics, each behind an await of its     *)
(* own, then decides on what it has read and inserts.  Requests interleave  *)
(* at every await.  What openPosition does with the legs after its insert   *)
(* is PositionLifecycle's subject: here the hedge is bought or it is not.   *)
(***************************************************************************)
EXTENDS Integers, Sequences, FiniteSets, FiniteSetsExt

CONSTANTS
  Requests, Cells, Pairs, Fingerprints,
  Caps,              \* values throttle_max_per_day may take
  MaxTime,           \* bound on the clock
  MaxInFlight,       \* bound on requests under way at once
  MaxTriggers,       \* bound on positions that trigger
  MaxIncidents,      \* bound on restarts, lost anti-bot writes and operator requests
  DayLength,         \* ticks in a UTC day, and in the 24 h trigger window
  Layer1Window, Layer2Base, Layer2JitterMax, Layer3Cooldown,
  SurchargeDuration, StrikeThreshold,
  SurgeMax, SurgePause,
  MinSamples, HaltPct, ThrottlePct, LowPerDay,
  LossKill,          \* in hundredths of one payout
  RealisedPct        \* salvage percentages a sold hedge may realise

NoPrint == "none"
Never   == -1

ASSUME AdmissionAssumption ==
  /\ NoPrint \notin Fingerprints
  /\ Cells # {} /\ Pairs # {}
  /\ {MaxTime, MaxInFlight, MaxTriggers, MaxIncidents, DayLength, Layer1Window,
      Layer2Base, Layer2JitterMax, Layer3Cooldown, SurchargeDuration,
      StrikeThreshold, SurgeMax, SurgePause, MinSamples, LossKill,
      LowPerDay} \subseteq Nat
  /\ DayLength > 0 /\ Layer2JitterMax > 0
  /\ Caps \subseteq Nat /\ RealisedPct \subseteq Nat

VARIABLES
  now,         \* Date.now(), in ticks
  cell,        \* volume_cover_cell: enabled, throttle_max_per_day
  rows,        \* volume_cover_position, in opened_at order, by the request that inserted it
  row,         \* the columns of each of them
  print,       \* volume_cover_fingerprint_state
  events,      \* volume_cover_salvage_event, oldest first
  req,         \* local state of each request
  manualHalt, surgeUntil,   \* module variables of volumeCoverGuardrails.ts
  incidents,
  quiet,       \* history: until when what is on record of a fingerprint bars it
  openedAt,    \* history: when a fingerprint was last recorded opening a cell
  underHalt    \* history: requests that arrived under the halt now in force

dbVars   == <<cell, rows, row, print, events>>
memVars  == <<manualHalt, surgeUntil, underHalt>>
vars     == <<now, dbVars, req, memVars, incidents, quiet, openedAt>>

Prints == Fingerprints \cup {NoPrint}
Kinds  == {"foxify", "bypass", "test"}
Pc == {"idle", "today", "existing", "antibot", "strike", "surcharge",
       "metrics", "guards", "insert", "hedge", "record", "end"}

NoRow == [status |-> "absent", cell |-> CHOOSE c \in Cells : TRUE,
          pair |-> CHOOSE p \in Pairs : TRUE, print |-> NoPrint, day |-> 0,
          untagged |-> FALSE]

Day(t) == t \div DayLength

NoMetrics == [surge |-> FALSE, salvage |-> "normal", killed |-> FALSE]

\* What a request is about, what it holds across its awaits, and (history) what
\* stood in the tables and in memory when it arrived.
Idle == [pc |-> "idle", kind |-> "test", cell |-> CHOOSE c \in Cells : TRUE,
         pair |-> CHOOSE p \in Pairs : TRUE, print |-> NoPrint,
         cap |-> 0, today |-> 0, surcharge |-> FALSE, metrics |-> NoMetrics,
         seenRows |-> 0, quiet |-> 0, opened |-> Never, surchargeUntil |-> 0,
         pause |-> 0]

NoFingerprint == [cell |-> "none", at |-> Never, next |-> Never,
                  triggered |-> Never, strikes |-> 0, surcharge |-> Never]

Init ==
  /\ now = 0
  /\ cell \in [Cells -> [enabled : {TRUE}, cap : Caps]]
  /\ rows = <<>>
  /\ row = [q \in Requests |-> NoRow]
  /\ print = [f \in Fingerprints |-> NoFingerprint]
  /\ events = <<>>
  /\ req = [q \in Requests |-> Idle]
  /\ manualHalt = FALSE
  /\ surgeUntil = Never
  /\ incidents = 0
  /\ quiet = [f \in Fingerprints |-> 0]
  /\ openedAt = [f \in Fingerprints |-> [c \in Cells |-> Never]]
  /\ underHalt = {}

-----------------------------------------------------------------------------
(* The request.                                                            *)

At(q, pc) == req[q].pc = pc
Goto(q, pc) == req' = [req EXCEPT ![q].pc = pc]
\* Answered without a position: the locals are gone, and Requests bounds the
\* positions inserted, not the requests made.
Refuse(q) == req' = [req EXCEPT ![q] = Idle]

Incident == incidents < MaxIncidents /\ incidents' = incidents + 1

InFlight == {q \in Requests : req[q].pc \notin {"idle", "end"}}

Ahead(t) == IF t > now THEN t ELSE 0

\* Only a Foxify request with a fingerprint is looked up in its row.
Identified(kind, f) == kind = "foxify" /\ f # NoPrint

\* The request arrives and getCell answers: a disabled cell is refused, but
\* not to the operator.  The body of an opening may name no fingerprint; the
\* operator's names none.
Arrive(q) ==
  /\ At(q, "idle")
  /\ Cardinality(InFlight) < MaxInFlight
  /\ \E kind \in Kinds, c \in Cells, p \in Pairs, f \in Prints :
       /\ kind = "test" => f = NoPrint
       /\ kind # "test" => cell[c].enabled
       /\ req' = [req EXCEPT ![q] =
            [Idle EXCEPT !.pc = IF kind = "test" THEN "existing" ELSE "today",
               !.kind = kind, !.cell = c, !.pair = p, !.print = f, !.cap = cell[c].cap,
               !.seenRows = Len(rows),
               !.quiet = IF Identified(kind, f) THEN Ahead(quiet[f]) ELSE 0,
               !.opened = IF Identified(kind, f) THEN openedAt[f][c] ELSE Never,
               !.surchargeUntil = IF Identified(kind, f) THEN Ahead(print[f].surcharge) ELSE 0,
               !.pause = Ahead(surgeUntil)]]
  /\ underHalt' = IF manualHalt THEN underHalt \cup {q} ELSE underHalt
  /\ UNCHANGED <<now, dbVars, manualHalt, surgeUntil, incidents, quiet, openedAt>>

\* Nothing of the request but its own state moves.
Local == UNCHANGED <<now, dbVars, memVars, incidents, quiet, openedAt>>

\* Mutant: positions that have ended free their slot.
ActiveToday(c) ==
  Cardinality({i \in DOMAIN rows : /\ row[rows[i]].cell = c /\ row[rows[i]].day = Day(now)
                                  /\ row[rows[i]].status = "active"})

\* listPositionsForCellToday counts whatever was opened since midnight,
\* closed and failed positions included.
OpenedToday(c) ==
  Cardinality({i \in DOMAIN rows :
                 row[rows[i]].cell = c /\ row[rows[i]].day = Day(now)})

\* The spot price answers late or not at all: the request is refused for its
\* drift or goes on to count the day's positions.
CountToday(q) ==
  /\ At(q, "today")
  /\ \/ Refuse(q)
     \/ req' = [req EXCEPT ![q].pc = "existing", ![q].today = OpenedToday(req[q].cell)]
  /\ Local

\* getPositionByPairId: ORDER BY opened_at DESC LIMIT 1
OfPair(p) == {i \in DOMAIN rows : row[rows[i]].pair = p}
\* Mutant: only today's positions are looked at.
LatestTodayIsActive(p) ==
  LET i == Max(OfPair(p)) IN
    /\ OfPair(p) # {}
    /\ row[rows[i]].status = "active" /\ row[rows[i]].day = Day(now)

LatestIsActive(p) ==
  OfPair(p) # {} /\ row[rows[Max(OfPair(p))]].status = "active"

FindExisting(q) ==
  /\ At(q, "existing")
  /\ IF LatestIsActive(req[q].pair) THEN Refuse(q)
     ELSE Goto(q, IF Identified(req[q].kind, req[q].print) THEN "antibot" ELSE "metrics")
  /\ Local

\* Mutant: the repeat window taken from the next layer's setting.
Layer1BlocksForBase(f, c) ==
  print[f].at # Never /\ print[f].cell = c /\ now - print[f].at < Layer2Base

\* checkAntiBot, Layers 1 to 4 in that order
Layer1Blocks(f, c) ==
  print[f].at # Never /\ print[f].cell = c /\ now - print[f].at < Layer1Window
Layer2Blocks(f) == print[f].next # Never /\ now < print[f].next
\* Mutants: the cooldown counted from the activation, the surcharge from its end.
Layer3BlocksFromActivation(f) ==
  print[f].triggered # Never /\ now - print[f].at < Layer3Cooldown

Layer3Blocks(f) == print[f].triggered # Never /\ now - print[f].triggered < Layer3Cooldown
Surcharged(f)   == print[f].surcharge # Never /\ now < print[f].surcharge

CheckAntiBot(q) ==
  /\ At(q, "antibot")
  /\ LET f == req[q].print IN
       IF Layer1Blocks(f, req[q].cell) THEN Goto(q, "strike")
       ELSE IF Layer2Blocks(f) THEN Refuse(q)
       ELSE IF Layer3Blocks(f) THEN Refuse(q)
       ELSE req' = [req EXCEPT ![q].pc = "metrics", ![q].surcharge = Surcharged(f)]
  /\ Local

\* recordPatternStrike: the increment (counted as far as the threshold), then
\* the surcharge once the threshold is met
RecordPatternStrike(q) ==
  /\ At(q, "strike")
  /\ LET f == req[q].print IN
       /\ print' = [print EXCEPT ![f].strikes = Min({@ + 1, StrikeThreshold})]
       /\ IF print[f].strikes + 1 >= StrikeThreshold
          THEN Goto(q, "surcharge") ELSE Refuse(q)
  /\ UNCHANGED <<now, cell, rows, row, events, memVars, incidents, quiet, openedAt>>

ApplySurcharge(q) ==
  /\ At(q, "surcharge")
  /\ print' = [print EXCEPT ![req[q].print].surcharge = now + SurchargeDuration]
  /\ Refuse(q)
  /\ UNCHANGED <<now, cell, rows, row, events, memVars, incidents, quiet, openedAt>>

\* computeRollingSalvageStats: the last five events, pending ones at zero
Recent == SubSeq(events, Max({1, Len(events) - 4}), Len(events))
Total(s, val(_)) == FoldSet(LAMBDA i, t : t + val(s[i]), 0, DOMAIN s)
SalvageState ==
  LET total == Total(Recent, LAMBDA e : e.pct)
      n     == Len(Recent)
  IN  IF n = 0 \/ n < MinSamples THEN "normal"
      ELSE IF total < HaltPct * n THEN "halt"
      ELSE IF total < ThrottlePct * n THEN "throttle"
      ELSE "normal"

\* countTriggersInWindow and sumNetLossInWindow
Within(e, days) == e.at >= now - days * DayLength
Triggers24h == Cardinality({i \in DOMAIN events : Within(events[i], 1)})
Loss7d == Total(events, LAMBDA e : IF Within(e, 7) THEN Max({0, 100 - e.pct}) ELSE 0)

\* readSalvageMetrics: the three queries go out together
ReadMetrics(q) ==
  /\ At(q, "metrics")
  /\ req' = [req EXCEPT ![q].pc = "guards",
                        ![q].metrics = [surge   |-> Triggers24h > SurgeMax,
                                        salvage |-> SalvageState,
                                        killed  |-> Loss7d >= LossKill]]
  /\ Local

\* getThrottleStateMaxPerDay, else the cell's own cap; the operator has none
EffectiveCap(q) == IF req[q].metrics.salvage = "throttle" THEN LowPerDay ELSE req[q].cap
WithinThrottle(q) == req[q].kind = "test" \/ req[q].today < EffectiveCap(q)

\* Mutant: the pause lasts only as long as the triggers are counted.
GuardsForgettingPause(q) ==
  /\ At(q, "guards")
  /\ \E paused \in BOOLEAN :
       IF \/ manualHalt \/ paused \/ req[q].metrics.killed \/ req[q].metrics.surge
          \/ req[q].metrics.salvage = "halt"
       THEN Refuse(q) /\ surgeUntil' = IF req[q].metrics.surge THEN now + SurgePause ELSE surgeUntil
       ELSE /\ IF WithinThrottle(q) THEN Goto(q, "insert") ELSE Refuse(q)
            /\ UNCHANGED surgeUntil
  /\ UNCHANGED <<now, dbVars, manualHalt, underHalt, incidents, quiet, openedAt>>

\* checkAllGuardsForVolumeCoverActivate on what was read, once the regime has
\* answered: manual halt; circuit breaker and DVOL (paused); Guards A, B, C.
\* Waves 1 and 2 are called with a zero pool balance, no venue balance, no
\* health samples and no premium history, and of them only DVOL can block.
Guards(q) ==
  /\ At(q, "guards")
  /\ \E paused \in BOOLEAN :
       IF manualHalt \/ paused \/ req[q].metrics.killed \/ req[q].metrics.salvage = "halt"
       THEN Refuse(q) /\ UNCHANGED surgeUntil
       ELSE IF req[q].metrics.surge
       THEN /\ surgeUntil' = now + SurgePause
            /\ Refuse(q)
       ELSE /\ IF surgeUntil # Never /\ now < surgeUntil THEN Refuse(q)
               ELSE IF WithinThrottle(q) THEN Goto(q, "insert")
               ELSE Refuse(q)
            /\ UNCHANGED surgeUntil
  /\ UNCHANGED <<now, dbVars, manualHalt, underHalt, incidents, quiet, openedAt>>

\* openPosition, its insert: the row is active from here on.
InsertPosition(q) ==
  /\ At(q, "insert")
  /\ rows' = Append(rows, q)
  /\ row' = [row EXCEPT ![q] = [status |-> "active", cell |-> req[q].cell,
                                pair |-> req[q].pair, print |-> req[q].print,
                                day |-> Day(now), untagged |-> FALSE]]
  /\ Goto(q, "hedge")
  /\ UNCHANGED <<now, cell, print, events, memVars, incidents, quiet, openedAt>>

\* Past the insert only the row matters.
Proceed(q, pc) == req' = [req EXCEPT ![q] = [Idle EXCEPT !.pc = pc]]

\* openPosition, the rest: the hedge is bought, or the row is closed and the
\* request fails.
Hedge(q) ==
  /\ At(q, "hedge")
  /\ \/ /\ Proceed(q, IF row[q].print # NoPrint THEN "record" ELSE "end")
        /\ UNCHANGED row
     \/ /\ row' = [row EXCEPT ![q].status = "closed"]
        /\ Proceed(q, "end")
  /\ UNCHANGED <<now, cell, rows, print, events, memVars, incidents, quiet, openedAt>>

\* What has just been written of f bars it from every cell for a while.
Bar(f, for) == quiet' = [quiet EXCEPT ![f] = Max({@, now + for})]

\* recordActivation; its failure is logged and the request succeeds.
RecordActivation(q) ==
  /\ At(q, "record")
  /\ LET f == row[q].print IN
       \/ /\ \E jitter \in 0 .. Layer2JitterMax - 1 :
               print' = [print EXCEPT ![f].at = now, ![f].cell = row[q].cell,
                                      ![f].next = now + Layer2Base + jitter]
          /\ Bar(f, Layer2Base)
          /\ openedAt' = [openedAt EXCEPT ![f][row[q].cell] = now]
          /\ UNCHANGED incidents
       \/ /\ Incident
          /\ UNCHANGED <<print, quiet, openedAt>>
  /\ Goto(q, "end")
  /\ UNCHANGED <<now, cell, rows, row, events, memVars>>

RequestStep(q) ==
  \/ Arrive(q) \/ CountToday(q) \/ FindExisting(q)
  \/ CheckAntiBot(q) \/ RecordPatternStrike(q) \/ ApplySurcharge(q)
  \/ ReadMetrics(q) \/ Guards(q) \/ InsertPosition(q) \/ Hedge(q)
  \/ RecordActivation(q)

-----------------------------------------------------------------------------
(* What happens to a position meanwhile, as far as admission reads it.      *)

\* fireTrigger: the salvage event with zero proceeds and the status, then the
\* fingerprint (PositionLifecycle has every step of it)
FireTrigger(q) ==
  /\ row[q].status = "active"
  /\ Len(events) < MaxTriggers
  /\ events' = Append(events, [of |-> q, at |-> now, pct |-> 0])
  /\ row' = [row EXCEPT ![q].status = "triggered", ![q].untagged = row[q].print # NoPrint]
  /\ UNCHANGED <<now, cell, rows, print, req, memVars, incidents, quiet, openedAt>>

TagFingerprint(q) ==
  /\ row[q].untagged
  /\ row' = [row EXCEPT ![q].untagged = FALSE]
  /\ print' = [print EXCEPT ![row[q].print].triggered = now]
  /\ Bar(row[q].print, Layer3Cooldown)
  /\ UNCHANGED <<now, cell, rows, events, req, memVars, incidents, openedAt>>

\* finalizeSalvageProceedsForPosition, once the retained hedge is sold
FinalizeSalvage(q) ==
  /\ \E i \in DOMAIN events, pct \in RealisedPct :
       /\ events[i].of = q /\ events[i].pct = 0
       /\ events' = [events EXCEPT ![i].pct = pct]
  /\ UNCHANGED <<now, cell, rows, row, print, req, memVars, incidents, quiet, openedAt>>

ClosePosition(q) ==
  /\ row[q].status = "active"
  /\ row' = [row EXCEPT ![q].status = "closed"]
  /\ UNCHANGED <<now, cell, rows, print, events, req, memVars, incidents, quiet, openedAt>>

PositionStep(q) ==
  \/ FireTrigger(q) \/ TagFingerprint(q)
  \/ FinalizeSalvage(q) \/ ClosePosition(q)

-----------------------------------------------------------------------------
(* The operator, the clock and the process.                                 *)

ToggleCell ==
  /\ Incident
  /\ \E c \in Cells, enabled \in BOOLEAN, cap \in Caps :
       cell' = [cell EXCEPT ![c] = [enabled |-> enabled, cap |-> cap]]
  /\ UNCHANGED <<now, rows, row, print, events, req, memVars, quiet, openedAt>>

Halt ==
  /\ Incident
  /\ ~manualHalt
  /\ manualHalt' = TRUE
  /\ UNCHANGED <<now, dbVars, req, surgeUntil, underHalt, quiet, openedAt>>

ClearHalt ==
  /\ manualHalt
  /\ manualHalt' = FALSE
  /\ underHalt' = {}
  /\ UNCHANGED <<now, dbVars, req, surgeUntil, incidents, quiet, openedAt>>

\* A restart drops the requests under way and every module variable: the halt
\* and the surge pause are gone.
Restart ==
  /\ Incident
  /\ req' = [q \in Requests |-> IF row[q].status = "absent" THEN Idle
                                ELSE [Idle EXCEPT !.pc = "end"]]
  /\ manualHalt' = FALSE /\ surgeUntil' = Never
  /\ underHalt' = {}
  /\ UNCHANGED <<now, dbVars, quiet, openedAt>>

Tick ==
  /\ now < MaxTime
  /\ now' = now + 1
  /\ UNCHANGED <<dbVars, req, memVars, incidents, quiet, openedAt>>

Next ==
  \/ \E q \in Requests : RequestStep(q) \/ PositionStep(q)
  \/ ToggleCell \/ Halt \/ ClearHalt \/ Restart \/ Tick

Spec == Init /\ [][Next]_vars

-----------------------------------------------------------------------------
(* Properties.                                                             *)

CellRow  == [enabled : BOOLEAN, cap : Caps]
PositionRow == [status : {"absent", "active", "triggered", "closed"}, cell : Cells,
                pair : Pairs, print : Prints, day : Nat, untagged : BOOLEAN]
Metrics  == [surge : BOOLEAN, salvage : {"normal", "throttle", "halt"}, killed : BOOLEAN]
Time     == {Never} \cup Nat

\* Every variable has the shape of the row or module variable it stands for.
TypeOK ==
  /\ now \in 0 .. MaxTime
  /\ cell \in [Cells -> CellRow]
  /\ rows \in Seq(Requests)
  /\ row \in [Requests -> PositionRow]
  /\ print \in [Fingerprints -> [cell : Cells \cup {"none"}, at : Time, next : Time,
                                 triggered : Time, strikes : Nat, surcharge : Time]]
  /\ events \in Seq([of : Requests, at : Nat, pct : Nat])
  /\ req \in [Requests ->
       [pc : Pc, kind : Kinds, cell : Cells, pair : Pairs, print : Prints, cap : Nat,
        today : Nat, surcharge : BOOLEAN, metrics : Metrics,
        seenRows : Nat, quiet : Nat, opened : Time, surchargeUntil : Nat, pause : Nat]]
  /\ manualHalt \in BOOLEAN
  /\ surgeUntil \in Time
  /\ incidents \in 0 .. MaxIncidents
  /\ quiet \in [Fingerprints -> Nat]
  /\ openedAt \in [Fingerprints -> [Cells -> Time]]
  /\ underHalt \subseteq Requests

\* The requests that have just inserted their position: what they held when
\* they decided is still there.
Opening == {q \in Requests : At(q, "hedge")}
Policed == {q \in Opening : Identified(req[q].kind, req[q].print)}
IsActive(i) == row[rows[i]].status = "active"

\* The pair-id lookup at volumeCoverRoutes.ts:418 takes the place of a unique
\* index: a request opens a second active position for a pair only if it had
\* arrived before the first was inserted, or if a newer position of the pair,
\* since ended, hid the first from the lookup.
OpenedOncePerPair ==
  \A q \in Opening : \A i \in OfPair(row[q].pair) :
    /\ IsActive(i) /\ i <= req[q].seenRows
    => \E k \in OfPair(row[q].pair) : k > i /\ rows[k] # q

\* The day's cap is read before the opening's awaits: it is exceeded only by
\* requests that overlap, never by one that arrived after the cap was used up.
\* Positions that failed to hedge, closed or triggered since still count.
ThrottleExceededOnlyByOverlap ==
  \A q \in Opening :
    req[q].kind # "test" =>
      Cardinality({i \in 1 .. req[q].seenRows :
                     row[rows[i]].cell = row[q].cell /\ row[rows[i]].day = row[q].day})
        < EffectiveCap(q)

\* Layers 2 and 3, which look at no cell: what was on record of a fingerprint
\* when a request arrived, the base cooldown after an activation and the
\* cooldown after a trigger, is over when the position is inserted, though the
\* row it is read from was overwritten since.
BarredUntilQuiet == \A q \in Policed : now >= req[q].quiet

\* Layer 4: a fingerprint that was under surcharge when a request arrived, and
\* still is when the position is inserted, pays it.
SurchargePaid == \A q \in Policed : now < req[q].surchargeUntil => req[q].surcharge

\* Both: what these layers ask of a repeated activation is asked of it.
CooldownsHold == BarredUntilQuiet /\ SurchargePaid

\* Layer 1: a cell that was on record as opened when a request arrived is
\* opened anew within its repeat window only if the fingerprint has been
\* recorded opening another cell since: its row remembers the last cell only,
\* though antiBot.ts:6-8 has no such exception.
RepeatsSpaced ==
  \A q \in Policed :
    req[q].opened # Never /\ now < req[q].opened + Layer1Window =>
      \E c \in Cells \ {req[q].cell} : openedAt[req[q].print][c] >= req[q].opened

\* The two stops that live in memory hold until they are lifted, run out or the
\* process restarts: what arrived under a halt still in force opens nothing, and
\* neither does what arrived within the pause of a trigger surge, even once the
\* count of triggers has fallen again.
StopsHold ==
  /\ underHalt \cap Opening = {}
  /\ \A q \in Opening : now >= req[q].pause

\* Both: every variable has its shape and the stops hold.
AdmissionInv == TypeOK /\ StopsHold
=============================================================================
