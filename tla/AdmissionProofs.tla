-------------------------- MODULE AdmissionProofs --------------------------
(***************************************************************************)
(* Proofs about Admission, for any number of requests, cells, pairs,        *)
(* fingerprints, triggers and incidents, and for any windows, caps and      *)
(* thresholds.                                                              *)
(***************************************************************************)
EXTENDS Admission, SumTheorems, SequenceTheorems, TLAPS

-----------------------------------------------------------------------------
(* The invariant.                                                          *)
(*                                                                         *)
(* Each of these properties speaks of the request that has just inserted *)
(* its position, and none is inductive: what a request has read must be     *)
(* followed through its awaits while the tables change under it.  The       *)
(* invariant says, at each place of a request, what its reads still mean.   *)

RequestState ==
  [pc : Pc, kind : Kinds, cell : Cells, pair : Pairs, print : Prints, cap : Nat,
   today : Nat, surcharge : BOOLEAN, metrics : Metrics,
   seenRows : Nat, quiet : Nat, opened : Time, surchargeUntil : Nat, pause : Nat]

PrintState == [cell : Cells \cup {"none"}, at : Time, next : Time,
               triggered : Time, strikes : Nat, surcharge : Time]

EventRow == [of : Requests, at : Nat, pct : Nat]

Decided == {"metrics", "guards", "insert", "hedge"}   \* past the anti-bot layers
Looked  == {"antibot"} \cup Decided                    \* past the pair's lookup

\* A row is inserted once, and what it was inserted with stays.
RowsInv ==
  /\ \A i \in 1 .. Len(rows) : /\ row[rows[i]].status # "absent"
                               /\ row[rows[i]].day <= Day(now)
  /\ \A q \in Requests :
       /\ row[q].status = "absent" <=> req[q].pc \notin {"hedge", "record", "end"}
       /\ At(q, "hedge") => row[q].cell = req[q].cell /\ row[q].pair = req[q].pair
       /\ req[q].seenRows <= Len(rows)

\* An active position of the pair that q could have seen is hidden by a newer one.
PairInv ==
  \A q \in Requests : req[q].pc \in Looked =>
    \A i \in OfPair(req[q].pair) :
      /\ IsActive(i) /\ i <= req[q].seenRows
      => \E k \in OfPair(req[q].pair) : k > i /\ rows[k] # q

\* The positions of day d that were there when q arrived.
SeenOn(q, d) ==
  {i \in 1 .. req[q].seenRows : row[rows[i]].cell = req[q].cell /\ row[rows[i]].day = d}

\* The count taken on the day bounds them, on the day and ever after.
CapInv ==
  \A q \in Requests : req[q].kind # "test" =>
    /\ req[q].pc \in {"existing"} \cup (Looked \ {"hedge"}) =>
         \A d \in Nat : d >= Day(now) => Cardinality(SeenOn(q, d)) <= req[q].today
    /\ At(q, "insert") => req[q].today < EffectiveCap(q)
    /\ At(q, "hedge") => Cardinality(SeenOn(q, row[q].day)) < EffectiveCap(q)

\* What bars a fingerprint is on its row, no row is ahead of the clock, and its
\* last cell is the one it was last recorded opening.
PrintInv ==
  \A f \in Fingerprints :
    /\ print[f].at # Never =>
         /\ print[f].at <= now /\ print[f].cell \in Cells
         /\ print[f].next >= print[f].at + Layer2Base
         /\ openedAt[f][print[f].cell] = print[f].at
    /\ \A c \in Cells : openedAt[f][c] <= print[f].at
    /\ print[f].triggered <= now
    /\ print[f].surcharge <= now + SurchargeDuration
    /\ quiet[f] > now =>
         \/ print[f].at # Never /\ quiet[f] <= print[f].at + Layer2Base
         \/ print[f].triggered # Never /\ quiet[f] <= print[f].triggered + Layer3Cooldown

\* Until the layers are asked, what a request arrived under is on record; once
\* they have let it pass, it is over or paid for.
BotInv ==
  \A q \in Requests : Identified(req[q].kind, req[q].print) =>
    /\ \/ req[q].quiet <= now
       \/ req[q].quiet <= quiet[req[q].print]
    /\ \/ req[q].surchargeUntil <= now
       \/ req[q].surchargeUntil <= print[req[q].print].surcharge
    /\ req[q].pc \in Decided =>
         /\ now >= req[q].quiet
         /\ now < req[q].surchargeUntil => req[q].surcharge

\* The fingerprint was recorded opening another cell at t or later.
OpenedAnother(f, c, t) == \E d \in Cells \ {c} : openedAt[f][d] >= t

\* The cell a request found opened is on record ever after, under that time or a
\* later one; once the layers have let it pass, its window is over or the row
\* had come to remember another cell.
RepeatInv ==
  \A q \in Requests : Identified(req[q].kind, req[q].print) /\ req[q].opened # Never =>
    /\ openedAt[req[q].print][req[q].cell] >= req[q].opened
    /\ req[q].pc \in Decided =>
         \/ now >= req[q].opened + Layer1Window
         \/ OpenedAnother(req[q].print, req[q].cell, req[q].opened)

\* A stop in force when a request arrived stands between it and the insert.
StopInv ==
  /\ surgeUntil <= now + SurgePause
  /\ \A q \in underHalt : manualHalt /\ req[q].pc \notin {"insert", "hedge"}
  /\ \A q \in Requests :
       IF req[q].pc \in {"insert", "hedge"} THEN now >= req[q].pause
       ELSE req[q].pause <= now \/ req[q].pause <= surgeUntil

IAdmission ==
  /\ TypeOK /\ RowsInv /\ PairInv /\ CapInv
  /\ PrintInv /\ BotInv /\ RepeatInv /\ StopInv

-----------------------------------------------------------------------------
(* What the operators return.                                              *)

LEMMA AdmissionNumbers ==
  /\ MaxTime \in Nat /\ MaxInFlight \in Nat /\ MaxTriggers \in Nat /\ MaxIncidents \in Nat
  /\ DayLength \in Nat /\ DayLength > 0
  /\ Layer1Window \in Nat /\ Layer2Base \in Nat
  /\ Layer2JitterMax \in Nat /\ Layer3Cooldown \in Nat
  /\ SurchargeDuration \in Nat /\ StrikeThreshold \in Nat
  /\ SurgeMax \in Nat /\ SurgePause \in Nat /\ MinSamples \in Nat
  /\ LossKill \in Nat /\ LowPerDay \in Nat
  /\ Caps \subseteq Nat /\ RealisedPct \subseteq Nat /\ NoPrint \notin Fingerprints
  BY AdmissionAssumption

\* The days follow the clock.
LEMMA DaysPass ==
  ASSUME NEW s \in Nat, NEW t \in Nat, s <= t
  PROVE  Day(s) \in Nat /\ Day(t) \in Nat /\ Day(s) <= Day(t)
<1>1. DayLength \in Nat /\ DayLength > 0
  BY AdmissionNumbers
<1> DEFINE D == DayLength
<1> HIDE DEF D
<1>2. ASSUME NEW n \in Nat, D \in Nat, D > 0
      PROVE  /\ n \div D \in Nat
             /\ D * (n \div D) <= n /\ n < D * (n \div D) + D
  BY <1>2
<1>3. ASSUME NEW a \in Nat, NEW b \in Nat, D \in Nat, D > 0, a > b PROVE D * a >= D * b + D
  <2>1. D * (a - b - 1) >= 0
    BY <1>3
  <2> QED
    BY <1>3, <2>1
<1>4. D \in Nat /\ D > 0
  BY <1>1 DEF D
<1>5. s \div D \in Nat /\ t \div D \in Nat
  BY <1>2, <1>4
<1> DEFINE a == s \div D
           b == t \div D
<1>6. D * a <= s /\ t < D * b + D
  BY <1>2, <1>4
<1>7. a \in Nat /\ b \in Nat
  BY <1>5
<1> HIDE DEF a, b
<1>8. ~(a > b)
  <2> SUFFICES ASSUME a > b PROVE FALSE
    OBVIOUS
  <2>1. D * a >= D * b + D
    BY <1>3, <1>4, <1>7
  <2>2. D * a \in Int /\ D * b \in Int
    BY <1>4, <1>7
  <2> DEFINE da == D * a
             db == D * b
  <2>3. da \in Int /\ db \in Int /\ da >= db + D /\ da <= s /\ t < db + D
    BY <1>6, <2>1, <2>2
  <2> HIDE DEF da, db
  <2> QED
    BY <1>4, <2>3
<1>9. a <= b
  BY <1>7, <1>8
<1> QED
  BY <1>7, <1>9 DEF Day, a, b, D

LEMMA MaxOfTwo ==
  ASSUME NEW a \in Int, NEW b \in Int
  PROVE  Max({a, b}) \in {a, b} /\ Max({a, b}) >= a /\ Max({a, b}) >= b
<1>1. \E x \in {a, b} : \A y \in {a, b} : x >= y
  <2>1. CASE a >= b
    BY <2>1
  <2>2. CASE b >= a
    BY <2>2
  <2> QED
    BY <2>1, <2>2
<1> QED
  BY <1>1 DEF Max

LEMMA MinOfTwo ==
  ASSUME NEW a \in Int, NEW b \in Int
  PROVE  Min({a, b}) \in {a, b}
<1>1. \E x \in {a, b} : \A y \in {a, b} : x <= y
  <2>1. CASE a >= b
    BY <2>1
  <2>2. CASE b >= a
    BY <2>2
  <2> QED
    BY <2>1, <2>2
<1> QED
  BY <1>1 DEF Min

\* A set of positions that is not empty has a last one.
LEMMA LastOne ==
  ASSUME NEW S, IsFiniteSet(S), S # {}, \A x \in S : x \in Int
  PROVE  Max(S) \in S /\ \A y \in S : Max(S) >= y
<1> DEFINE Above(y) == {x \in S : x > y}
           Bad == {Above(y) : y \in S}
<1>1. Bad \in SUBSET (SUBSET S) /\ Bad # {}
  OBVIOUS
<1>2. PICK T \in Bad : \A U \in Bad : U \subseteq T => U = T
  <2> HIDE DEF Bad
  <2> QED
    BY <1>1, MinimalSubset
<1>3. PICK y \in S : T = Above(y)
  BY <1>2
<1>4. Above(y) = {}
  <2> SUFFICES ASSUME NEW z \in Above(y) PROVE FALSE
    OBVIOUS
  <2>1. z \in S /\ z > y /\ z \in Int /\ y \in Int
    OBVIOUS
  <2>2. Above(z) \in Bad
    BY <2>1
  <2>3. ASSUME NEW x \in Above(z) PROVE x \in Above(y)
    <3>1. x \in S /\ x > z /\ x \in Int
      OBVIOUS
    <3>2. x > y
      BY <2>1, <3>1
    <3> QED
      BY <3>1, <3>2
  <2>4. Above(z) = Above(y)
    BY <1>2, <1>3, <2>2, <2>3
  <2>5. z \notin Above(z)
    BY <2>1
  <2> QED
    BY <2>4, <2>5
<1>5. \A x \in S : y >= x
  BY <1>4
<1>6. \E x \in S : \A w \in S : x >= w
  BY <1>5
<1> QED
  BY <1>6 DEF Max

-----------------------------------------------------------------------------
(* How a step moves the world, and how it moves its request.               *)

\* Rows are added and keep what they were inserted with, an ended position
\* stays ended, and the clock and what bars a fingerprint only move on.
WorldMoves ==
  /\ now <= now'
  /\ Len(rows) <= Len(rows')
  /\ \A i \in 1 .. Len(rows) : rows'[i] = rows[i]
  /\ \A q \in Requests : row[q].status # "absent" =>
       /\ row'[q].status # "absent" /\ row'[q].cell = row[q].cell
       /\ row'[q].pair = row[q].pair /\ row'[q].day = row[q].day
       /\ row'[q].status = "active" => row[q].status = "active"
  /\ \A f \in Fingerprints :
       /\ print[f].surcharge <= print'[f].surcharge
       /\ quiet[f] <= quiet'[f]
       /\ \A c \in Cells : openedAt[f][c] <= openedAt'[f][c]
  /\ surgeUntil <= surgeUntil'

\* The request q goes on and the others stay where they are.
ReqGoes(q) == \A r \in Requests \ {q} : req'[r] = req[r]

\* It goes to pc and keeps what it holds.
Carries(q, pc) ==
  /\ ReqGoes(q)
  /\ req'[q].pc = pc
  /\ req'[q].kind = req[q].kind /\ req'[q].cell = req[q].cell
  /\ req'[q].pair = req[q].pair /\ req'[q].print = req[q].print
  /\ req'[q].cap = req[q].cap /\ req'[q].seenRows = req[q].seenRows
  /\ req'[q].quiet = req[q].quiet /\ req'[q].surchargeUntil = req[q].surchargeUntil
  /\ req'[q].opened = req[q].opened /\ req'[q].pause = req[q].pause

\* It holds nothing any more.
Emptied(q, pc) == ReqGoes(q) /\ req'[q] = [Idle EXCEPT !.pc = pc]

ReqTyped == req \in [Requests -> RequestState]

LEMMA IdleTyped ==
  ASSUME NEW q \in Requests, req[q] \in RequestState
  PROVE  Idle \in RequestState
<1>1. Cells # {} /\ Pairs # {}
  BY DEF RequestState
<1>2. (CHOOSE c \in Cells : TRUE) \in Cells /\ (CHOOSE p \in Pairs : TRUE) \in Pairs
  BY <1>1
<1> QED
  BY <1>2 DEF Idle, RequestState, Kinds, Prints, Pc, NoMetrics, Metrics, Time

LEMMA EmptiedTyped ==
  ASSUME NEW q \in Requests, ReqTyped, NEW pc \in Pc, Emptied(q, pc)
  PROVE  /\ req'[q] \in RequestState
         /\ req'[q].pc = pc /\ req'[q].kind = "test" /\ req'[q].print = NoPrint
         /\ req'[q].seenRows = 0 /\ req'[q].quiet = 0 /\ req'[q].surchargeUntil = 0
         /\ req'[q].pause = 0
<1>1. Idle \in RequestState
  BY IdleTyped DEF ReqTyped
<1> QED
  BY <1>1 DEF Emptied, Idle, RequestState

LEMMA Gone ==
  ASSUME NEW q \in Requests, ReqTyped
  PROVE  /\ Refuse(q) => Emptied(q, "idle") /\ req' = [req EXCEPT ![q] = Idle]
         /\ \A pc \in Pc : Proceed(q, pc) => Emptied(q, pc)
<1>1. [Idle EXCEPT !.pc = "idle"] = Idle
  BY DEF Idle
<1>2. Refuse(q) => Emptied(q, "idle") /\ req' = [req EXCEPT ![q] = Idle]
  BY <1>1 DEF Refuse, Emptied, ReqGoes, ReqTyped
<1>3. ASSUME NEW pc \in Pc, Proceed(q, pc) PROVE Emptied(q, pc)
  BY <1>3 DEF Proceed, Emptied, ReqGoes, ReqTyped
<1> QED
  BY <1>2, <1>3

\* Where each step of a request leaves it.
LEMMA RequestLands ==
  ASSUME TypeOK, NEW q \in Requests
  PROVE  /\ Arrive(q) => ReqGoes(q)
         /\ CountToday(q) =>
              \/ Emptied(q, "idle")
              \/ /\ Carries(q, "existing") /\ req'[q].today = OpenedToday(req[q].cell)
         /\ FindExisting(q) =>
              \/ Emptied(q, "idle")
              \/ /\ ~LatestIsActive(req[q].pair) /\ req'[q].today = req[q].today
                 /\ \/ Carries(q, "antibot")
                    \/ /\ Carries(q, "metrics")
                       /\ ~Identified(req[q].kind, req[q].print)
         /\ CheckAntiBot(q) =>
              \/ Emptied(q, "idle")
              \/ Carries(q, "strike")
              \/ /\ Carries(q, "metrics") /\ req'[q].today = req[q].today
                 /\ ~Layer1Blocks(req[q].print, req[q].cell)
                 /\ ~Layer2Blocks(req[q].print) /\ ~Layer3Blocks(req[q].print)
                 /\ req'[q].surcharge = Surcharged(req[q].print)
         /\ RecordPatternStrike(q) => Emptied(q, "idle") \/ Carries(q, "surcharge")
         /\ ApplySurcharge(q) => Emptied(q, "idle")
         /\ ReadMetrics(q) =>
              /\ Carries(q, "guards") /\ req'[q].today = req[q].today
              /\ req'[q].surcharge = req[q].surcharge
         /\ Guards(q) =>
              \/ Emptied(q, "idle")
              \/ /\ Carries(q, "insert") /\ req' = [req EXCEPT ![q].pc = "insert"]
                 /\ ~manualHalt /\ ~(surgeUntil # Never /\ now < surgeUntil)
                 /\ WithinThrottle(q) /\ UNCHANGED surgeUntil
         /\ InsertPosition(q) => Carries(q, "hedge") /\ req' = [req EXCEPT ![q].pc = "hedge"]
         /\ Hedge(q) => \E pc \in {"record", "end"} : Emptied(q, pc)
         /\ RecordActivation(q) => /\ Carries(q, "end") /\ req' = [req EXCEPT ![q].pc = "end"]
<1>0. ReqTyped /\ req[q] \in RequestState
  BY DEF TypeOK, ReqTyped, RequestState
<1>1. ASSUME NEW pc \in Pc, req' = [req EXCEPT ![q].pc = pc]
      PROVE  /\ Carries(q, pc) /\ req'[q].today = req[q].today
             /\ req'[q].surcharge = req[q].surcharge
  BY <1>0, <1>1 DEF ReqTyped, RequestState, Carries, ReqGoes
<1>2. /\ Refuse(q) => Emptied(q, "idle")
      /\ \A pc \in Pc : Proceed(q, pc) => Emptied(q, pc)
      /\ \A pc \in Pc : Goto(q, pc) => /\ Carries(q, pc) /\ req'[q].today = req[q].today
                                       /\ req'[q].surcharge = req[q].surcharge
                                       /\ req' = [req EXCEPT ![q].pc = pc]
  BY <1>0, <1>1, Gone DEF Goto
<1>3. /\ "idle" \in Pc /\ "existing" \in Pc /\ "antibot" \in Pc /\ "metrics" \in Pc
      /\ "strike" \in Pc /\ "surcharge" \in Pc /\ "guards" \in Pc /\ "insert" \in Pc
      /\ "hedge" \in Pc /\ "record" \in Pc /\ "end" \in Pc
  BY DEF Pc
<1>4. Arrive(q) => ReqGoes(q)
  BY <1>0 DEF Arrive, ReqGoes, ReqTyped
<1>5. ASSUME CountToday(q)
      PROVE  \/ Emptied(q, "idle")
             \/ /\ Carries(q, "existing") /\ req'[q].today = OpenedToday(req[q].cell)
  <2>1. CASE Refuse(q)
    BY <1>2, <2>1
  <2>2. CASE req' = [req EXCEPT ![q].pc = "existing", ![q].today = OpenedToday(req[q].cell)]
    BY <1>0, <2>2 DEF ReqTyped, RequestState, Carries, ReqGoes
  <2> QED
    BY <1>5, <2>1, <2>2 DEF CountToday
<1>6. ASSUME FindExisting(q)
      PROVE  \/ Emptied(q, "idle")
             \/ /\ ~LatestIsActive(req[q].pair) /\ req'[q].today = req[q].today
                /\ \/ Carries(q, "antibot")
                   \/ /\ Carries(q, "metrics")
                      /\ ~Identified(req[q].kind, req[q].print)
  <2>1. CASE LatestIsActive(req[q].pair)
    BY <1>2, <1>6, <2>1 DEF FindExisting
  <2>2. CASE ~LatestIsActive(req[q].pair)
    BY <1>2, <1>3, <1>6, <2>2 DEF FindExisting
  <2> QED
    BY <2>1, <2>2
<1>7. ASSUME CheckAntiBot(q)
      PROVE  \/ Emptied(q, "idle")
             \/ Carries(q, "strike")
             \/ /\ Carries(q, "metrics") /\ req'[q].today = req[q].today
                /\ ~Layer1Blocks(req[q].print, req[q].cell)
                /\ ~Layer2Blocks(req[q].print) /\ ~Layer3Blocks(req[q].print)
                /\ req'[q].surcharge = Surcharged(req[q].print)
  <2>1. CASE Layer1Blocks(req[q].print, req[q].cell)
    BY <1>2, <1>3, <1>7, <2>1 DEF CheckAntiBot
  <2>2. CASE ~Layer1Blocks(req[q].print, req[q].cell)
             /\ (Layer2Blocks(req[q].print) \/ Layer3Blocks(req[q].print))
    BY <1>2, <1>7, <2>2 DEF CheckAntiBot
  <2>3. CASE ~(\/ Layer1Blocks(req[q].print, req[q].cell)
               \/ Layer2Blocks(req[q].print) \/ Layer3Blocks(req[q].print))
    <3> DEFINE s == Surcharged(req[q].print)
    <3>1. req' = [req EXCEPT ![q].pc = "metrics", ![q].surcharge = s]
      BY <1>7, <2>3 DEF CheckAntiBot
    <3> HIDE DEF s
    <3>2. /\ Carries(q, "metrics") /\ req'[q].today = req[q].today
          /\ req'[q].surcharge = s
      BY <1>0, <3>1 DEF ReqTyped, RequestState, Carries, ReqGoes
    <3> QED
      BY <2>3, <3>2 DEF s
  <2> QED
    BY <2>1, <2>2, <2>3
<1>8. ASSUME RecordPatternStrike(q) PROVE Emptied(q, "idle") \/ Carries(q, "surcharge")
  BY <1>2, <1>3, <1>8 DEF RecordPatternStrike
<1>9. ApplySurcharge(q) => Emptied(q, "idle")
  BY <1>2 DEF ApplySurcharge
<1>10. ASSUME ReadMetrics(q)
       PROVE  /\ Carries(q, "guards") /\ req'[q].today = req[q].today
              /\ req'[q].surcharge = req[q].surcharge
  <2>1. PICK m : req' = [req EXCEPT ![q].pc = "guards", ![q].metrics = m]
    BY <1>10 DEF ReadMetrics
  <2> QED
    BY <1>0, <2>1 DEF ReqTyped, RequestState, Carries, ReqGoes
<1>11. ASSUME Guards(q)
       PROVE  \/ Emptied(q, "idle")
              \/ /\ Carries(q, "insert") /\ req' = [req EXCEPT ![q].pc = "insert"]
                 /\ ~manualHalt /\ ~(surgeUntil # Never /\ now < surgeUntil)
                 /\ WithinThrottle(q) /\ UNCHANGED surgeUntil
  <2>1. \/ Refuse(q)
        \/ /\ Goto(q, "insert") /\ ~manualHalt /\ ~(surgeUntil # Never /\ now < surgeUntil)
           /\ WithinThrottle(q) /\ UNCHANGED surgeUntil
    BY <1>11 DEF Guards
  <2> QED
    BY <1>2, <1>3, <2>1
<1>12. InsertPosition(q) => Carries(q, "hedge") /\ req' = [req EXCEPT ![q].pc = "hedge"]
  BY <1>2, <1>3 DEF InsertPosition
<1>13. ASSUME Hedge(q) PROVE \E pc \in {"record", "end"} : Emptied(q, pc)
  <2>1. Proceed(q, "record") \/ Proceed(q, "end")
    BY <1>13 DEF Hedge
  <2> QED
    BY <1>2, <1>3, <2>1
<1>14. RecordActivation(q) => Carries(q, "end") /\ req' = [req EXCEPT ![q].pc = "end"]
  BY <1>2, <1>3 DEF RecordActivation
<1> QED
  BY <1>4, <1>5, <1>6, <1>7, <1>8, <1>9, <1>10, <1>11, <1>12, <1>13, <1>14

-----------------------------------------------------------------------------
(* The variables keep their types.                                         *)

LEMMA CountsTyped ==
  ASSUME TypeOK, NEW c \in Cells
  PROVE  OpenedToday(c) \in Nat
<1>1. DOMAIN rows = 1 .. Len(rows) /\ Len(rows) \in Nat
  BY LenProperties DEF TypeOK
<1> DEFINE S == {i \in DOMAIN rows : row[rows[i]].cell = c /\ row[rows[i]].day = Day(now)}
<1>2. S \in SUBSET (1 .. Len(rows)) /\ IsFiniteSet(1 .. Len(rows))
  BY <1>1, FS_Interval
<1> HIDE DEF S
<1>3. IsFiniteSet(S)
  BY <1>2, FS_Subset
<1>4. Cardinality(S) \in Nat
  BY <1>3, FS_CardinalityType
<1> QED
  BY <1>4 DEF S, OpenedToday

LEMMA RequestTyped ==
  ASSUME TypeOK, NEW q \in Requests, RequestStep(q)
  PROVE  req' \in [Requests -> RequestState]
<1>0. req \in [Requests -> RequestState] /\ Idle \in RequestState
  <2>1. ReqTyped
    BY DEF TypeOK, ReqTyped, RequestState
  <2> QED
    BY <2>1, IdleTyped DEF ReqTyped
<1>1. ASSUME NEW s \in RequestState, req' = [req EXCEPT ![q] = s]
      PROVE  req' \in [Requests -> RequestState]
  BY <1>0, <1>1
<1>2. ASSUME NEW pc \in Pc, Goto(q, pc) PROVE req' \in [Requests -> RequestState]
  <2> DEFINE s == [req[q] EXCEPT !.pc = pc]
  <2>1. s \in RequestState
    BY <1>0 DEF RequestState
  <2>2. req' = [req EXCEPT ![q] = s]
    BY <1>2 DEF Goto
  <2> QED
    BY <1>1, <2>1, <2>2
<1>3. ASSUME NEW pc \in Pc, Proceed(q, pc) PROVE req' \in [Requests -> RequestState]
  <2> DEFINE s == [Idle EXCEPT !.pc = pc]
  <2>1. s \in RequestState
    BY <1>0 DEF RequestState
  <2>2. req' = [req EXCEPT ![q] = s]
    BY <1>3 DEF Proceed
  <2> QED
    BY <1>1, <2>1, <2>2
<1>4. Refuse(q) => req' \in [Requests -> RequestState]
  BY <1>0, <1>1 DEF Refuse
<1>5. /\ "idle" \in Pc /\ "existing" \in Pc /\ "antibot" \in Pc /\ "metrics" \in Pc
      /\ "strike" \in Pc /\ "surcharge" \in Pc /\ "guards" \in Pc /\ "insert" \in Pc
      /\ "hedge" \in Pc /\ "record" \in Pc /\ "end" \in Pc /\ "today" \in Pc
  BY DEF Pc
<1>6. CASE Arrive(q)
  <2>1. PICK kind \in Kinds, c \in Cells, p \in Pairs, f \in Prints :
          /\ kind = "test" => f = NoPrint
          /\ kind # "test" => cell[c].enabled
          /\ req' = [req EXCEPT ![q] =
            [Idle EXCEPT !.pc = IF kind = "test" THEN "existing" ELSE "today",
               !.kind = kind, !.cell = c, !.pair = p, !.print = f, !.cap = cell[c].cap,
               !.seenRows = Len(rows),
               !.quiet = IF Identified(kind, f) THEN Ahead(quiet[f]) ELSE 0,
               !.opened = IF Identified(kind, f) THEN openedAt[f][c] ELSE Never,
               !.surchargeUntil = IF Identified(kind, f) THEN Ahead(print[f].surcharge) ELSE 0,
               !.pause = Ahead(surgeUntil)]]
    BY <1>6 DEF Arrive
  <2> DEFINE at == IF kind = "test" THEN "existing" ELSE "today"
             n == Len(rows)
             w == IF Identified(kind, f) THEN Ahead(quiet[f]) ELSE 0
             o == IF Identified(kind, f) THEN openedAt[f][c] ELSE Never
             u == IF Identified(kind, f) THEN Ahead(print[f].surcharge) ELSE 0
             z == Ahead(surgeUntil)
             k == cell[c].cap
             s == [Idle EXCEPT !.pc = at, !.kind = kind, !.cell = c, !.pair = p, !.print = f,
                     !.cap = k, !.seenRows = n, !.quiet = w, !.opened = o,
                     !.surchargeUntil = u, !.pause = z]
  <2>2. at \in Pc
    BY <1>5
  <2>3. n \in Nat
    BY LenProperties DEF TypeOK
  <2>4. ASSUME NEW t \in Time PROVE Ahead(t) \in Nat
    BY <2>4 DEF Ahead, Time, Never, TypeOK
  <2>5. Identified(kind, f) => f \in Fingerprints
    BY DEF Identified, Prints
  <2>6. w \in Nat /\ u \in Nat /\ z \in Nat /\ o \in Time
    <3>1. Identified(kind, f) =>
            /\ quiet[f] \in Time /\ print[f].surcharge \in Time /\ openedAt[f][c] \in Time
      BY <2>5 DEF TypeOK, Time
    <3>2. surgeUntil \in Time /\ Never \in Time
      BY DEF TypeOK, Time
    <3> QED
      BY <2>4, <3>1, <3>2
  <2>7. k \in Nat
    BY AdmissionNumbers DEF TypeOK, CellRow
  <2>8. req' = [req EXCEPT ![q] = s]
    BY <2>1
  <2> HIDE DEF at, n, w, o, u, z, k
  <2>9. s \in RequestState
    BY <1>0, <2>2, <2>3, <2>6, <2>7 DEF RequestState
  <2> QED
    BY <1>1, <2>8, <2>9
<1>7. CASE CountToday(q)
  <2>1. CASE Refuse(q)
    BY <1>4, <2>1
  <2>2. CASE req' = [req EXCEPT ![q].pc = "existing", ![q].today = OpenedToday(req[q].cell)]
    <3> DEFINE n == OpenedToday(req[q].cell)
               s == [req[q] EXCEPT !.pc = "existing", !.today = n]
    <3>1. n \in Nat
      BY <1>0, CountsTyped DEF RequestState
    <3>2. req' = [req EXCEPT ![q] = s]
      BY <2>2
    <3> HIDE DEF n
    <3>3. s \in RequestState
      BY <1>0, <1>5, <3>1 DEF RequestState
    <3> QED
      BY <1>1, <3>2, <3>3
  <2> QED
    BY <1>7, <2>1, <2>2 DEF CountToday
<1>8. CASE FindExisting(q)
  <2>1. Refuse(q) \/ Goto(q, "antibot") \/ Goto(q, "metrics")
    BY <1>8 DEF FindExisting
  <2> QED
    BY <1>2, <1>4, <1>5, <2>1
<1>9. CASE CheckAntiBot(q)
  <2>1. \/ Refuse(q) \/ Goto(q, "strike")
        \/ req' = [req EXCEPT ![q].pc = "metrics", ![q].surcharge = Surcharged(req[q].print)]
    BY <1>9 DEF CheckAntiBot
  <2>2. CASE req' = [req EXCEPT ![q].pc = "metrics", ![q].surcharge = Surcharged(req[q].print)]
    <3> DEFINE b == Surcharged(req[q].print)
               s == [req[q] EXCEPT !.pc = "metrics", !.surcharge = b]
    <3>1. b \in BOOLEAN
      BY DEF Surcharged
    <3>2. req' = [req EXCEPT ![q] = s]
      BY <2>2
    <3> HIDE DEF b
    <3>3. s \in RequestState
      BY <1>0, <1>5, <3>1 DEF RequestState
    <3> QED
      BY <1>1, <3>2, <3>3
  <2> QED
    BY <1>2, <1>4, <1>5, <2>1, <2>2
<1>10. CASE ReadMetrics(q)
  <2> DEFINE m == [surge |-> Triggers24h > SurgeMax, salvage |-> SalvageState,
                   killed |-> Loss7d >= LossKill]
             s == [req[q] EXCEPT !.pc = "guards", !.metrics = m]
  <2>1. SalvageState \in {"normal", "throttle", "halt"}
    BY Zenon DEF SalvageState
  <2> DEFINE sal == SalvageState
             sur == Triggers24h > SurgeMax
             kil == Loss7d >= LossKill
  <2>2. sal \in {"normal", "throttle", "halt"} /\ sur \in BOOLEAN /\ kil \in BOOLEAN
    BY <2>1
  <2>3. m = [surge |-> sur, salvage |-> sal, killed |-> kil]
    OBVIOUS
  <2>4. req' = [req EXCEPT ![q] = s]
    BY <1>10 DEF ReadMetrics
  <2> HIDE DEF sal, sur, kil, m
  <2>5. m \in Metrics
    BY <2>2, <2>3 DEF Metrics
  <2>6. s \in RequestState
    BY <1>0, <1>5, <2>5 DEF RequestState
  <2> HIDE DEF s
  <2> QED
    BY <1>1, <2>4, <2>6
<1>11. CASE Guards(q)
  <2>1. Refuse(q) \/ Goto(q, "insert")
    BY <1>11 DEF Guards
  <2> QED
    BY <1>2, <1>4, <1>5, <2>1
<1>12. CASE RecordPatternStrike(q) \/ ApplySurcharge(q) \/ InsertPosition(q) \/ RecordActivation(q)
  <2>1. Refuse(q) \/ Goto(q, "surcharge") \/ Goto(q, "hedge") \/ Goto(q, "end")
    BY <1>12 DEF RecordPatternStrike, ApplySurcharge, InsertPosition, RecordActivation
  <2> QED
    BY <1>2, <1>4, <1>5, <2>1
<1>13. CASE Hedge(q)
  <2>1. Proceed(q, "record") \/ Proceed(q, "end")
    BY <1>13 DEF Hedge
  <2> QED
    BY <1>3, <1>5, <2>1
<1> QED
  BY <1>6, <1>7, <1>8, <1>9, <1>10, <1>11, <1>12, <1>13 DEF RequestStep

\* The tables and the memory.
AdmissionTables ==
  /\ now \in 0 .. MaxTime
  /\ cell \in [Cells -> CellRow]
  /\ rows \in Seq(Requests)
  /\ row \in [Requests -> PositionRow]
  /\ print \in [Fingerprints -> PrintState]
  /\ events \in Seq(EventRow)
  /\ manualHalt \in BOOLEAN
  /\ surgeUntil \in Time
  /\ incidents \in 0 .. MaxIncidents
  /\ quiet \in [Fingerprints -> Nat]
  /\ openedAt \in [Fingerprints -> [Cells -> Time]]
  /\ underHalt \subseteq Requests

LEMMA AdmissionParts ==
  TypeOK <=> AdmissionTables /\ req \in [Requests -> RequestState]
  BY DEF TypeOK, AdmissionTables, RequestState, PrintState, EventRow

LEMMA Incidents ==
  ASSUME AdmissionTables, Incident
  PROVE  incidents' \in 0 .. MaxIncidents
  BY AdmissionNumbers DEF AdmissionTables, Incident

LEMMA BarRaises ==
  ASSUME AdmissionTables, NEW f, NEW until \in Nat, Bar(f, until)
  PROVE  /\ quiet' \in [Fingerprints -> Nat]
         /\ \A g \in Fingerprints : quiet[g] <= quiet'[g]
         /\ \A g \in Fingerprints \ {f} : quiet'[g] = quiet[g]
         /\ f \in Fingerprints => quiet'[f] \in {quiet[f], now + until}
<1> DEFINE raised == Max({quiet[f], now + until})
<1>1. quiet' = [quiet EXCEPT ![f] = raised]
  BY DEF Bar
<1>2. ASSUME f \in Fingerprints
      PROVE  raised \in Nat /\ raised >= quiet[f] /\ raised \in {quiet[f], now + until}
  <2> DEFINE a == quiet[f]
             b == now + until
  <2>1. a \in Nat /\ b \in Nat
    BY <1>2, AdmissionNumbers DEF AdmissionTables
  <2>2. raised = Max({a, b})
    OBVIOUS
  <2> SUFFICES raised \in Nat /\ raised >= a /\ raised \in {a, b}
    OBVIOUS
  <2> HIDE DEF a, b, raised
  <2>3. a \in Int /\ b \in Int
    BY <2>1
  <2>4. Max({a, b}) \in {a, b} /\ Max({a, b}) >= a
    BY <2>3, MaxOfTwo
  <2> QED
    BY <2>1, <2>2, <2>4
<1> HIDE DEF raised
<1>3. \A g \in Fingerprints : quiet[g] \in Nat
  BY DEF AdmissionTables
<1>4. CASE f \notin Fingerprints
  <2>1. quiet' = quiet
    BY <1>1, <1>4 DEF AdmissionTables
  <2> QED
    BY <1>3, <1>4, <2>1 DEF AdmissionTables
<1>5. CASE f \in Fingerprints
  <2>1. quiet' \in [Fingerprints -> Nat]
    BY <1>1, <1>2, <1>5 DEF AdmissionTables
  <2>2. quiet'[f] = raised /\ \A g \in Fingerprints \ {f} : quiet'[g] = quiet[g]
    BY <1>1, <1>5 DEF AdmissionTables
  <2>3. ASSUME NEW g \in Fingerprints PROVE quiet[g] <= quiet'[g]
    BY <1>2, <1>3, <1>5, <2>2
  <2> QED
    BY <1>2, <1>5, <2>1, <2>2, <2>3
<1> QED
  BY <1>4, <1>5

\* The world stands still but for what is listed.
LEMMA WorldStands ==
  ASSUME AdmissionTables, UNCHANGED <<rows, row>>
  PROVE  /\ Len(rows) <= Len(rows') /\ \A i \in 1 .. Len(rows) : rows'[i] = rows[i]
         /\ \A q \in Requests : row[q].status # "absent" =>
              /\ row'[q].status # "absent" /\ row'[q].cell = row[q].cell
              /\ row'[q].pair = row[q].pair /\ row'[q].day = row[q].day
              /\ row'[q].status = "active" => row[q].status = "active"
<1>1. Len(rows) \in Nat
  BY LenProperties DEF AdmissionTables
<1> QED
  BY <1>1

LEMMA TimesAreInts == \A t \in Time : t \in Int /\ t >= -1
  BY DEF Time, Never

LEMMA StillPrints ==
  ASSUME AdmissionTables
  PROVE  /\ UNCHANGED print => \A f \in Fingerprints : print[f].surcharge <= print'[f].surcharge
         /\ UNCHANGED quiet => \A f \in Fingerprints : quiet[f] <= quiet'[f]
         /\ UNCHANGED openedAt =>
              \A f \in Fingerprints : \A c \in Cells : openedAt[f][c] <= openedAt'[f][c]
         /\ UNCHANGED surgeUntil => surgeUntil <= surgeUntil'
         /\ UNCHANGED now => now <= now'
<1>1. /\ \A f \in Fingerprints : print[f].surcharge \in Int
      /\ \A f \in Fingerprints : quiet[f] \in Int
      /\ \A f \in Fingerprints : \A c \in Cells : openedAt[f][c] \in Int
      /\ surgeUntil \in Int /\ now \in Int
  BY TimesAreInts, AdmissionNumbers DEF AdmissionTables, PrintState
<1> QED
  BY <1>1

LEMMA QuestionsMove ==
  ASSUME TypeOK, PrintInv, StopInv, NEW q \in Requests,
         \/ Arrive(q) \/ CountToday(q) \/ FindExisting(q) \/ CheckAntiBot(q)
         \/ RecordPatternStrike(q) \/ ApplySurcharge(q) \/ ReadMetrics(q) \/ Guards(q)
  PROVE  AdmissionTables' /\ WorldMoves
<1>0. AdmissionTables
  BY AdmissionParts
<1>1. CASE CountToday(q) \/ FindExisting(q) \/ CheckAntiBot(q) \/ ReadMetrics(q)
  <2>1. UNCHANGED <<now, dbVars, memVars, incidents, quiet, openedAt>>
    BY <1>1 DEF CountToday, FindExisting, CheckAntiBot, ReadMetrics, Local
  <2>2. AdmissionTables'
    BY <1>0, <2>1 DEF AdmissionTables, dbVars, memVars
  <2> QED
    BY <1>0, <2>1, <2>2, WorldStands, StillPrints DEF WorldMoves, dbVars, memVars
<1>2. CASE Arrive(q)
  <2>1. /\ UNCHANGED <<now, dbVars, manualHalt, surgeUntil, incidents, quiet, openedAt>>
        /\ underHalt' \subseteq Requests
    BY <1>0, <1>2 DEF Arrive, AdmissionTables
  <2>2. AdmissionTables'
    BY <1>0, <2>1 DEF AdmissionTables, dbVars
  <2> QED
    BY <1>0, <2>1, <2>2, WorldStands, StillPrints DEF WorldMoves, dbVars
<1>3. CASE RecordPatternStrike(q)
  <2> DEFINE f == req[q].print
             n == Min({print[f].strikes + 1, StrikeThreshold})
  <2>1. print' = [print EXCEPT ![f].strikes = n]
        /\ UNCHANGED <<now, cell, rows, row, events, memVars, incidents, quiet, openedAt>>
    BY <1>3 DEF RecordPatternStrike
  <2>2. f \in Fingerprints => n \in Nat
    <3> SUFFICES ASSUME f \in Fingerprints PROVE n \in Nat
      OBVIOUS
    <3>1. print[f].strikes + 1 \in Nat /\ StrikeThreshold \in Nat
      BY <1>0, AdmissionNumbers DEF AdmissionTables, PrintState
    <3> DEFINE a == print[f].strikes + 1
    <3>2. n = Min({a, StrikeThreshold})
      OBVIOUS
    <3> HIDE DEF a, n, f
    <3> QED
      BY <3>1, <3>2, MinOfTwo DEF a
  <2> HIDE DEF n
  <2>3. /\ print' \in [Fingerprints -> PrintState]
        /\ \A g \in Fingerprints : print'[g].surcharge = print[g].surcharge
    BY <1>0, <2>1, <2>2 DEF AdmissionTables, PrintState
  <2>4. \A g \in Fingerprints : print[g].surcharge <= print'[g].surcharge
    <3>1. \A g \in Fingerprints : print[g].surcharge \in Int
      BY <1>0, TimesAreInts DEF AdmissionTables, PrintState
    <3> QED
      BY <2>3, <3>1
  <2>5. AdmissionTables'
    BY <1>0, <2>1, <2>3 DEF AdmissionTables, memVars
  <2> QED
    BY <1>0, <2>1, <2>4, <2>5, WorldStands, StillPrints DEF WorldMoves, memVars
<1>4. CASE ApplySurcharge(q)
  <2> DEFINE f == req[q].print
             t == now + SurchargeDuration
  <2>1. print' = [print EXCEPT ![f].surcharge = t]
        /\ UNCHANGED <<now, cell, rows, row, events, memVars, incidents, quiet, openedAt>>
    BY <1>4 DEF ApplySurcharge
  <2>2. t \in Nat /\ t \in Time
    BY <1>0, AdmissionNumbers DEF AdmissionTables, Time
  <2>3. \A g \in Fingerprints : print[g].surcharge <= t
    BY DEF PrintInv
  <2> HIDE DEF t, f
  <2>4. /\ print' \in [Fingerprints -> PrintState]
        /\ \A g \in Fingerprints : print'[g].surcharge \in {print[g].surcharge, t}
    BY <1>0, <2>1, <2>2 DEF AdmissionTables, PrintState
  <2>5. \A g \in Fingerprints : print[g].surcharge <= print'[g].surcharge
    <3>1. t \in Int /\ \A g \in Fingerprints : print[g].surcharge \in Int
      BY <1>0, <2>2, TimesAreInts DEF AdmissionTables, PrintState
    <3> QED
      BY <2>3, <2>4, <3>1
  <2>6. AdmissionTables'
    BY <1>0, <2>1, <2>4 DEF AdmissionTables, memVars
  <2> QED
    BY <1>0, <2>1, <2>5, <2>6, WorldStands, StillPrints DEF WorldMoves, memVars
<1>5. CASE Guards(q)
  <2>1. /\ surgeUntil' \in {surgeUntil, now + SurgePause}
        /\ UNCHANGED <<now, dbVars, manualHalt, underHalt, incidents, quiet, openedAt>>
    BY <1>5 DEF Guards
  <2>2. surgeUntil' \in Time /\ surgeUntil <= surgeUntil'
    BY <1>0, <2>1, AdmissionNumbers DEF AdmissionTables, Time, Never, StopInv
  <2>3. AdmissionTables'
    BY <1>0, <2>1, <2>2 DEF AdmissionTables, dbVars
  <2> QED
    BY <1>0, <2>1, <2>2, <2>3, WorldStands, StillPrints DEF WorldMoves, dbVars
<1> QED
  BY <1>1, <1>2, <1>3, <1>4, <1>5

\* No opening is recorded ahead of the clock.
LEMMA RecordedBefore ==
  ASSUME TypeOK, PrintInv, NEW f \in Fingerprints, NEW c \in Cells
  PROVE  openedAt[f][c] <= now
<1>1. AdmissionTables
  BY AdmissionParts
<1>2. openedAt[f][c] \in Int /\ print[f].at \in Int /\ now \in Int /\ now >= 0
  BY <1>1, TimesAreInts, AdmissionNumbers DEF AdmissionTables, PrintState
<1>3. openedAt[f][c] <= print[f].at /\ (print[f].at # Never => print[f].at <= now)
  BY DEF PrintInv
<1> QED
  BY <1>2, <1>3 DEF Never

LEMMA OpeningMoves ==
  ASSUME TypeOK, RowsInv, PrintInv, NEW q \in Requests,
         InsertPosition(q) \/ Hedge(q) \/ RecordActivation(q)
  PROVE  AdmissionTables' /\ WorldMoves
<1>0. AdmissionTables /\ req[q] \in RequestState
  BY AdmissionParts
<1>1. Len(rows) \in Nat
  BY <1>0, LenProperties DEF AdmissionTables
<1>2. CASE InsertPosition(q)
  <2>1. /\ rows' = Append(rows, q)
        /\ row' = [row EXCEPT ![q] = [status |-> "active", cell |-> req[q].cell,
                                pair |-> req[q].pair, print |-> req[q].print,
                                day |-> Day(now), untagged |-> FALSE]]
        /\ UNCHANGED <<now, cell, print, events, memVars, incidents, quiet, openedAt>>
        /\ req[q].pc = "insert"
    BY <1>2 DEF InsertPosition, At
  <2>2. row[q].status = "absent"
    BY <2>1 DEF RowsInv
  <2>3. /\ rows' \in Seq(Requests) /\ Len(rows) <= Len(rows')
        /\ \A i \in 1 .. Len(rows) : rows'[i] = rows[i]
    BY <1>0, <1>1, <2>1, AppendProperties DEF AdmissionTables
  <2>4. Day(now) \in Nat
    BY <1>0, DaysPass, AdmissionNumbers DEF AdmissionTables
  <2>5. row' \in [Requests -> PositionRow]
    BY <1>0, <2>1, <2>4 DEF AdmissionTables, PositionRow, RequestState
  <2>6. \A r \in Requests : row[r].status # "absent" => row'[r] = row[r]
    BY <1>0, <2>1, <2>2 DEF AdmissionTables
  <2>7. AdmissionTables'
    BY <1>0, <2>1, <2>3, <2>5 DEF AdmissionTables, memVars
  <2>8. /\ surgeUntil <= surgeUntil' /\ now <= now'
        /\ \A f \in Fingerprints : quiet[f] <= quiet'[f]
        /\ \A f \in Fingerprints : \A c \in Cells : openedAt[f][c] <= openedAt'[f][c]
    BY <1>0, <2>1, StillPrints DEF memVars
  <2> QED
    BY <1>0, <2>1, <2>3, <2>6, <2>7, <2>8, StillPrints DEF WorldMoves
<1>3. CASE Hedge(q)
  <2>1. /\ UNCHANGED <<now, cell, rows, print, events, memVars, incidents, quiet, openedAt>>
        /\ \/ UNCHANGED row
           \/ row' = [row EXCEPT ![q].status = "closed"]
    BY <1>3 DEF Hedge
  <2>2. /\ row' \in [Requests -> PositionRow]
        /\ \A r \in Requests : row[r].status # "absent" =>
              /\ row'[r].status # "absent" /\ row'[r].cell = row[r].cell
              /\ row'[r].pair = row[r].pair /\ row'[r].day = row[r].day
              /\ row'[r].status = "active" => row[r].status = "active"
    <3>1. CASE UNCHANGED row
      BY <1>0, <3>1 DEF AdmissionTables
    <3>2. CASE row' = [row EXCEPT ![q].status = "closed"]
      BY <1>0, <3>2 DEF AdmissionTables, PositionRow
    <3> QED
      BY <2>1, <3>1, <3>2
  <2>3. AdmissionTables'
    BY <1>0, <2>1, <2>2 DEF AdmissionTables, memVars
  <2> QED
    BY <1>0, <1>1, <2>1, <2>2, <2>3, StillPrints DEF WorldMoves, memVars
<1>4. CASE RecordActivation(q)
  <2> DEFINE f == row[q].print
             c0 == row[q].cell
  <2>1. /\ UNCHANGED <<now, cell, rows, row, events, memVars>>
        /\ \/ /\ \E jitter \in 0 .. Layer2JitterMax - 1 :
                   print' = [print EXCEPT ![f].at = now, ![f].cell = c0,
                                          ![f].next = now + Layer2Base + jitter]
              /\ Bar(f, Layer2Base)
              /\ openedAt' = [openedAt EXCEPT ![f][c0] = now]
              /\ UNCHANGED incidents
           \/ Incident /\ UNCHANGED <<print, quiet, openedAt>>
    BY <1>4 DEF RecordActivation
  <2>2. Layer2Base \in Nat
    BY AdmissionNumbers
  <2>3. c0 \in Cells
    BY <1>0 DEF AdmissionTables, PositionRow
  <2> HIDE DEF c0, f
  <2>4. CASE Incident /\ UNCHANGED <<print, quiet, openedAt>>
    <3>1. AdmissionTables'
      BY <1>0, <2>1, <2>4, Incidents DEF AdmissionTables, memVars
    <3> QED
      BY <1>0, <2>1, <2>4, <3>1, WorldStands, StillPrints DEF WorldMoves, memVars
  <2>5. ASSUME NEW jitter \in 0 .. Layer2JitterMax - 1,
               print' = [print EXCEPT ![f].at = now, ![f].cell = c0,
                                      ![f].next = now + Layer2Base + jitter],
               Bar(f, Layer2Base), openedAt' = [openedAt EXCEPT ![f][c0] = now],
               UNCHANGED incidents
        PROVE  AdmissionTables' /\ WorldMoves
    <3> DEFINE t == now + Layer2Base + jitter
    <3>1. t \in Time /\ now \in Time
      BY <1>0, AdmissionNumbers DEF AdmissionTables, Time
    <3>2. print' = [print EXCEPT ![f].at = now, ![f].cell = c0, ![f].next = t]
      BY <2>5
    <3> HIDE DEF t
    <3>3. print \in [Fingerprints -> PrintState]
      BY <1>0 DEF AdmissionTables
    <3>4. \A g \in Fingerprints \ {f} : print'[g] = print[g]
      BY <3>2, <3>3
    <3>5. f \in Fingerprints =>
            print'[f] = [print[f] EXCEPT !.at = now, !.cell = c0, !.next = t]
      BY <3>2, <3>3
    <3>6. ASSUME NEW g \in Fingerprints
          PROVE  print'[g] \in PrintState /\ print'[g].surcharge = print[g].surcharge
      <4>1. print[g] \in PrintState
        BY <3>3
      <4>2. CASE g = f
        BY <2>3, <3>1, <3>5, <4>1, <4>2 DEF PrintState
      <4> QED
        BY <3>4, <4>1, <4>2
    <3>7. print' \in [Fingerprints -> PrintState]
      <4>1. DOMAIN print' = Fingerprints /\ print' = [g \in Fingerprints |-> print'[g]]
        BY <3>2, <3>3
      <4> QED
        BY <3>6, <4>1
    <3>8. quiet' \in [Fingerprints -> Nat] /\ \A g \in Fingerprints : quiet[g] <= quiet'[g]
      BY <1>0, <2>2, <2>5, BarRaises
    <3>9. \A g \in Fingerprints : print[g].surcharge <= print'[g].surcharge
      <4>1. \A g \in Fingerprints : print[g].surcharge \in Int
        BY <1>0, TimesAreInts DEF AdmissionTables, PrintState
      <4> QED
        BY <3>6, <4>1
    <3>10. openedAt \in [Fingerprints -> [Cells -> Time]]
      BY <1>0 DEF AdmissionTables
    <3>11. openedAt' \in [Fingerprints -> [Cells -> Time]]
      BY <2>5, <3>1, <3>10
    <3>12. ASSUME NEW g \in Fingerprints, NEW c \in Cells PROVE openedAt[g][c] <= openedAt'[g][c]
      <4>1. openedAt[g][c] \in Int /\ now \in Int
        BY <3>1, <3>10, TimesAreInts
      <4>2. openedAt'[g][c] \in {openedAt[g][c], now}
        BY <2>5, <3>10
      <4>3. openedAt[g][c] <= now
        BY RecordedBefore
      <4> QED
        BY <4>1, <4>2, <4>3
    <3>13. AdmissionTables'
      BY <1>0, <2>1, <2>5, <3>7, <3>8, <3>11 DEF AdmissionTables, memVars
    <3> QED
      BY <1>0, <2>1, <3>8, <3>9, <3>12, <3>13, WorldStands, StillPrints DEF WorldMoves, memVars
  <2> QED
    BY <2>1, <2>4, <2>5
<1> QED
  BY <1>2, <1>3, <1>4

LEMMA PositionMoves ==
  ASSUME AdmissionTables, NEW q \in Requests, PositionStep(q)
  PROVE  AdmissionTables' /\ WorldMoves /\ UNCHANGED req
<1>1. Len(rows) \in Nat /\ Len(events) \in Nat /\ DOMAIN events = 1 .. Len(events)
  BY LenProperties DEF AdmissionTables
<1>2. ASSUME row' \in [Requests -> PositionRow],
             \A r \in Requests :
               /\ row'[r].status \in {row[r].status, "triggered", "closed"}
               /\ row'[r].cell = row[r].cell /\ row'[r].pair = row[r].pair
               /\ row'[r].day = row[r].day
      PROVE  \A r \in Requests : row[r].status # "absent" =>
               /\ row'[r].status # "absent" /\ row'[r].cell = row[r].cell
               /\ row'[r].pair = row[r].pair /\ row'[r].day = row[r].day
               /\ row'[r].status = "active" => row[r].status = "active"
  BY <1>2
<1>3. CASE FireTrigger(q)
  <2>1. /\ events' = Append(events, [of |-> q, at |-> now, pct |-> 0])
        /\ row' = [row EXCEPT ![q].status = "triggered", ![q].untagged = row[q].print # NoPrint]
        /\ UNCHANGED <<now, cell, rows, print, req, memVars, incidents, quiet, openedAt>>
    BY <1>3 DEF FireTrigger
  <2>2. [of |-> q, at |-> now, pct |-> 0] \in EventRow
    BY AdmissionNumbers DEF EventRow, AdmissionTables
  <2>3. events' \in Seq(EventRow)
    BY <2>1, <2>2, AppendProperties DEF AdmissionTables
  <2>4. /\ row' \in [Requests -> PositionRow]
        /\ \A r \in Requests :
               /\ row'[r].status \in {row[r].status, "triggered", "closed"}
               /\ row'[r].cell = row[r].cell /\ row'[r].pair = row[r].pair
               /\ row'[r].day = row[r].day
    <3> DEFINE b == row[q].print # NoPrint
    <3>1. b \in BOOLEAN /\ row' = [row EXCEPT ![q].status = "triggered", ![q].untagged = b]
      BY <2>1
    <3> HIDE DEF b
    <3> QED
      BY <3>1 DEF AdmissionTables, PositionRow
  <2>5. AdmissionTables'
    BY <2>1, <2>3, <2>4 DEF AdmissionTables, memVars
  <2> QED
    BY <1>1, <1>2, <2>1, <2>4, <2>5, StillPrints DEF WorldMoves, memVars
<1>4. CASE TagFingerprint(q)
  <2> DEFINE f == row[q].print
  <2>1. /\ row' = [row EXCEPT ![q].untagged = FALSE]
        /\ print' = [print EXCEPT ![f].triggered = now]
        /\ Bar(f, Layer3Cooldown)
        /\ UNCHANGED <<now, cell, rows, events, req, memVars, incidents, openedAt>>
    BY <1>4 DEF TagFingerprint
  <2>2. Layer3Cooldown \in Nat
    BY AdmissionNumbers
  <2> HIDE DEF f
  <2>3. /\ row' \in [Requests -> PositionRow]
        /\ \A r \in Requests :
               /\ row'[r].status \in {row[r].status, "triggered", "closed"}
               /\ row'[r].cell = row[r].cell /\ row'[r].pair = row[r].pair
               /\ row'[r].day = row[r].day
    BY <2>1 DEF AdmissionTables, PositionRow
  <2>4. now \in Time
    BY AdmissionNumbers DEF AdmissionTables, Time
  <2>5. /\ print' \in [Fingerprints -> PrintState]
        /\ \A g \in Fingerprints : print'[g].surcharge = print[g].surcharge
    BY <2>1, <2>4 DEF AdmissionTables, PrintState
  <2>6. \A g \in Fingerprints : print[g].surcharge <= print'[g].surcharge
    <3>1. \A g \in Fingerprints : print[g].surcharge \in Int
      BY TimesAreInts DEF AdmissionTables, PrintState
    <3> QED
      BY <2>5, <3>1
  <2>7. quiet' \in [Fingerprints -> Nat] /\ \A g \in Fingerprints : quiet[g] <= quiet'[g]
    BY <2>1, <2>2, BarRaises
  <2>8. AdmissionTables'
    BY <2>1, <2>3, <2>5, <2>7 DEF AdmissionTables, memVars
  <2> QED
    BY <1>1, <1>2, <2>1, <2>3, <2>6, <2>7, <2>8, StillPrints DEF WorldMoves, memVars
<1>5. CASE FinalizeSalvage(q)
  <2>1. PICK i \in DOMAIN events, pct \in RealisedPct :
          events' = [events EXCEPT ![i].pct = pct]
    BY <1>5 DEF FinalizeSalvage
  <2>2. UNCHANGED <<now, cell, rows, row, print, req, memVars, incidents, quiet, openedAt>>
    BY <1>5 DEF FinalizeSalvage
  <2>3. events' \in Seq(EventRow)
    <3>1. events[i] \in EventRow /\ i \in 1 .. Len(events) /\ pct \in Nat
      BY <1>1, ElementOfSeq, AdmissionNumbers DEF AdmissionTables
    <3> DEFINE e == [events[i] EXCEPT !.pct = pct]
    <3>2. e \in EventRow
      BY <3>1 DEF EventRow
    <3>3. events' = [events EXCEPT ![i] = e]
      BY <2>1
    <3> HIDE DEF e
    <3> QED
      BY <3>1, <3>2, <3>3, ExceptSeq DEF AdmissionTables
  <2>4. AdmissionTables'
    BY <2>2, <2>3 DEF AdmissionTables, memVars
  <2> QED
    BY <2>2, <2>4, WorldStands, StillPrints DEF WorldMoves, memVars
<1>6. CASE ClosePosition(q)
  <2>1. /\ row' = [row EXCEPT ![q].status = "closed"]
        /\ UNCHANGED <<now, cell, rows, print, events, req, memVars, incidents, quiet, openedAt>>
    BY <1>6 DEF ClosePosition
  <2>2. /\ row' \in [Requests -> PositionRow]
        /\ \A r \in Requests :
               /\ row'[r].status \in {row[r].status, "triggered", "closed"}
               /\ row'[r].cell = row[r].cell /\ row'[r].pair = row[r].pair
               /\ row'[r].day = row[r].day
    BY <2>1 DEF AdmissionTables, PositionRow
  <2>3. AdmissionTables'
    BY <2>1, <2>2 DEF AdmissionTables, memVars
  <2> QED
    BY <1>1, <1>2, <2>1, <2>2, <2>3, StillPrints DEF WorldMoves, memVars
<1> QED
  BY <1>3, <1>4, <1>5, <1>6 DEF PositionStep

LEMMA OperatorMoves ==
  ASSUME AdmissionTables, ToggleCell \/ Halt \/ ClearHalt \/ Tick
  PROVE  AdmissionTables' /\ WorldMoves /\ UNCHANGED req
<1>1. UNCHANGED <<rows, row, print, quiet, openedAt, surgeUntil, req>>
  BY DEF ToggleCell, Halt, ClearHalt, Tick, dbVars, memVars
<1>2. CASE ToggleCell
  <2>1. PICK c \in Cells, enabled \in BOOLEAN, cap \in Caps :
          cell' = [cell EXCEPT ![c] = [enabled |-> enabled, cap |-> cap]]
    BY <1>2 DEF ToggleCell
  <2>2. cell' \in [Cells -> CellRow]
    BY <2>1 DEF AdmissionTables, CellRow
  <2>3. Incident /\ UNCHANGED <<now, events, manualHalt, underHalt>>
    BY <1>2 DEF ToggleCell, memVars
  <2>4. AdmissionTables'
    BY <1>1, <2>2, <2>3, Incidents DEF AdmissionTables
  <2> QED
    BY <1>1, <2>3, <2>4, WorldStands, StillPrints DEF WorldMoves
<1>3. CASE Halt
  <2>1. Incident /\ manualHalt' = TRUE /\ UNCHANGED <<now, cell, events, underHalt>>
    BY <1>3 DEF Halt, dbVars
  <2>2. AdmissionTables'
    BY <1>1, <2>1, Incidents DEF AdmissionTables
  <2> QED
    BY <1>1, <2>1, <2>2, WorldStands, StillPrints DEF WorldMoves
<1>4. CASE ClearHalt
  <2>1. manualHalt' = FALSE /\ underHalt' = {} /\ UNCHANGED <<now, cell, events, incidents>>
    BY <1>4 DEF ClearHalt, dbVars
  <2>2. AdmissionTables'
    BY <1>1, <2>1 DEF AdmissionTables
  <2> QED
    BY <1>1, <2>1, <2>2, WorldStands, StillPrints DEF WorldMoves
<1>5. CASE Tick
  <2>1. /\ now < MaxTime /\ now' = now + 1
        /\ UNCHANGED <<cell, events, manualHalt, underHalt, incidents>>
    BY <1>5 DEF Tick, dbVars, memVars
  <2>2. now' \in 0 .. MaxTime /\ now <= now'
    BY <2>1, AdmissionNumbers DEF AdmissionTables
  <2>3. AdmissionTables'
    BY <1>1, <2>1, <2>2 DEF AdmissionTables
  <2> QED
    BY <1>1, <2>2, <2>3, WorldStands, StillPrints DEF WorldMoves
<1> QED
  BY <1>2, <1>3, <1>4, <1>5

\* A restart leaves the tables and empties the requests and the memory.
LEMMA RestartEmpties ==
  ASSUME TypeOK, Restart
  PROVE  /\ TypeOK'
         /\ UNCHANGED <<now, dbVars, quiet, openedAt>>
         /\ underHalt' = {} /\ surgeUntil' = Never
         /\ \A q \in Requests :
              /\ req'[q].pc = IF row[q].status = "absent" THEN "idle" ELSE "end"
              /\ req'[q].kind = "test" /\ req'[q].print = NoPrint
              /\ req'[q].seenRows = 0 /\ req'[q].pause = 0
<1>0. AdmissionTables /\ req \in [Requests -> RequestState]
  BY AdmissionParts
<1>1. /\ Incident
      /\ req' = [q \in Requests |-> IF row[q].status = "absent" THEN Idle
                                    ELSE [Idle EXCEPT !.pc = "end"]]
      /\ manualHalt' = FALSE /\ surgeUntil' = Never /\ underHalt' = {}
      /\ UNCHANGED <<now, dbVars, quiet, openedAt>>
  BY DEF Restart
<1>2. \A q \in Requests : Idle \in RequestState
  BY <1>0, IdleTyped
<1>3. \A q \in Requests : req'[q] \in RequestState
  BY <1>1, <1>2 DEF RequestState, Pc
<1>4. req' \in [Requests -> RequestState]
  BY <1>1, <1>3
<1>5. AdmissionTables'
  BY <1>0, <1>1, Incidents DEF AdmissionTables, dbVars, Time
<1>6. TypeOK'
  <2>1. (AdmissionTables /\ req \in [Requests -> RequestState])'
    BY <1>4, <1>5
  <2>2. (AdmissionTables /\ req \in [Requests -> RequestState])' => TypeOK'
    BY AdmissionParts, PTL
  <2> QED
    BY <2>1, <2>2
<1>7. \A q \in Requests :
        /\ req'[q].pc = IF row[q].status = "absent" THEN "idle" ELSE "end"
        /\ req'[q].kind = "test" /\ req'[q].print = NoPrint
        /\ req'[q].seenRows = 0 /\ req'[q].pause = 0
  BY <1>1 DEF Idle
<1> QED
  BY <1>1, <1>6, <1>7

\* Every step but a restart moves the world on.
LEMMA EachMoves ==
  ASSUME TypeOK, RowsInv, PrintInv, StopInv
  PROVE  /\ \A q \in Requests : RequestStep(q) =>
              TypeOK' /\ WorldMoves /\ ReqGoes(q)
         /\ (\E q \in Requests : PositionStep(q)) \/ ToggleCell \/ Halt \/ ClearHalt \/ Tick =>
              TypeOK' /\ WorldMoves /\ UNCHANGED req
<1>0. AdmissionTables /\ req \in [Requests -> RequestState]
  BY AdmissionParts
<1>1. AdmissionTables' /\ req' \in [Requests -> RequestState] => TypeOK'
  <2>1. (AdmissionTables /\ req \in [Requests -> RequestState])' => TypeOK'
    BY AdmissionParts, PTL
  <2> QED
    BY <2>1
<1>2. ASSUME NEW q \in Requests, RequestStep(q)
      PROVE  TypeOK' /\ WorldMoves /\ ReqGoes(q)
  <2>1. AdmissionTables' /\ WorldMoves
    BY <1>2, QuestionsMove, OpeningMoves DEF RequestStep
  <2>2. req' \in [Requests -> RequestState]
    BY <1>2, RequestTyped
  <2>3. ReqGoes(q)
    BY <1>2, RequestLands DEF RequestStep, Carries, Emptied
  <2> QED
    BY <1>1, <2>1, <2>2, <2>3
<1>3. ASSUME (\E q \in Requests : PositionStep(q)) \/ ToggleCell \/ Halt \/ ClearHalt \/ Tick
      PROVE  TypeOK' /\ WorldMoves /\ UNCHANGED req
  <2>1. AdmissionTables' /\ WorldMoves /\ UNCHANGED req
    BY <1>0, <1>3, PositionMoves, OperatorMoves
  <2> QED
    BY <1>0, <1>1, <2>1
<1> QED
  BY <1>2, <1>3

-----------------------------------------------------------------------------
(* Rows.                                                                   *)

LEMMA AdmissionInts ==
  ASSUME TypeOK
  PROVE  /\ now \in Nat /\ surgeUntil \in Int /\ Len(rows) \in Nat /\ DOMAIN rows = 1 .. Len(rows)
         /\ \A i \in 1 .. Len(rows) : rows[i] \in Requests
         /\ \A q \in Requests :
              /\ row[q].day \in Nat /\ req[q].seenRows \in Nat /\ req[q].today \in Nat
              /\ req[q].quiet \in Nat /\ req[q].surchargeUntil \in Nat /\ req[q].pause \in Nat
              /\ req[q].opened \in Int
              /\ req[q] \in RequestState /\ req[q].cell \in Cells
         /\ \A f \in Fingerprints :
              /\ print[f].at \in Int /\ print[f].next \in Int /\ print[f].triggered \in Int
              /\ print[f].surcharge \in Int
              /\ quiet[f] \in Nat /\ \A c \in Cells : openedAt[f][c] \in Int
<1>0. AdmissionTables /\ req \in [Requests -> RequestState]
  BY AdmissionParts
<1>1. now \in Nat /\ surgeUntil \in Int
  BY <1>0, TimesAreInts, AdmissionNumbers DEF AdmissionTables
<1>2. /\ Len(rows) \in Nat /\ DOMAIN rows = 1 .. Len(rows)
      /\ \A i \in 1 .. Len(rows) : rows[i] \in Requests
  BY <1>0, LenProperties, ElementOfSeq DEF AdmissionTables
<1>3. \A q \in Requests :
         /\ row[q].day \in Nat /\ req[q].seenRows \in Nat /\ req[q].today \in Nat
         /\ req[q].quiet \in Nat /\ req[q].surchargeUntil \in Nat /\ req[q].pause \in Nat
         /\ req[q].opened \in Int
         /\ req[q] \in RequestState /\ req[q].cell \in Cells
  BY <1>0, TimesAreInts DEF AdmissionTables, PositionRow, RequestState
<1>4. \A f \in Fingerprints :
         /\ print[f].at \in Int /\ print[f].next \in Int /\ print[f].triggered \in Int
         /\ print[f].surcharge \in Int
         /\ quiet[f] \in Nat /\ \A c \in Cells : openedAt[f][c] \in Int
  BY <1>0, TimesAreInts DEF AdmissionTables, PrintState
<1> QED
  BY <1>1, <1>2, <1>3, <1>4

LEMMA AdmissionIntsNext ==
  ASSUME TypeOK'
  PROVE  /\ now' \in Nat /\ surgeUntil' \in Int /\ Len(rows') \in Nat
         /\ \A i \in 1 .. Len(rows') : rows'[i] \in Requests
         /\ \A q \in Requests :
              /\ row'[q].day \in Nat /\ req'[q].seenRows \in Nat /\ req'[q].today \in Nat
              /\ req'[q].quiet \in Nat /\ req'[q].surchargeUntil \in Nat /\ req'[q].pause \in Nat
              /\ req'[q].opened \in Int
              /\ req'[q] \in RequestState /\ req'[q].cell \in Cells
         /\ \A f \in Fingerprints :
              /\ print'[f].at \in Int /\ print'[f].next \in Int /\ print'[f].triggered \in Int
              /\ print'[f].surcharge \in Int
              /\ quiet'[f] \in Nat /\ \A c \in Cells : openedAt'[f][c] \in Int
<1>0. (AdmissionTables /\ req \in [Requests -> RequestState])'
  BY AdmissionParts, PTL
<1>1. now' \in Nat /\ surgeUntil' \in Int
  BY <1>0, TimesAreInts, AdmissionNumbers DEF AdmissionTables
<1>2. /\ Len(rows') \in Nat
      /\ \A i \in 1 .. Len(rows') : rows'[i] \in Requests
  BY <1>0, LenProperties, ElementOfSeq DEF AdmissionTables
<1>3. \A q \in Requests :
         /\ row'[q].day \in Nat /\ req'[q].seenRows \in Nat /\ req'[q].today \in Nat
         /\ req'[q].quiet \in Nat /\ req'[q].surchargeUntil \in Nat /\ req'[q].pause \in Nat
         /\ req'[q].opened \in Int
         /\ req'[q] \in RequestState /\ req'[q].cell \in Cells
  BY <1>0, TimesAreInts DEF AdmissionTables, PositionRow, RequestState
<1>4. \A f \in Fingerprints :
         /\ print'[f].at \in Int /\ print'[f].next \in Int /\ print'[f].triggered \in Int
         /\ print'[f].surcharge \in Int
         /\ quiet'[f] \in Nat /\ \A c \in Cells : openedAt'[f][c] \in Int
  BY <1>0, TimesAreInts DEF AdmissionTables, PrintState
<1> QED
  BY <1>1, <1>2, <1>3, <1>4

\* Only an insert takes a row that was absent.
LEMMA AbsentStays ==
  ASSUME TypeOK, RowsInv, NEW q \in Requests,
         (RequestStep(q) /\ ~InsertPosition(q)) \/ PositionStep(q)
  PROVE  /\ UNCHANGED rows
         /\ \A r \in Requests : row[r].status = "absent" => row'[r].status = "absent"
<1>0. row \in [Requests -> PositionRow]
  BY AdmissionParts DEF AdmissionTables
<1>1. CASE UNCHANGED <<rows, row>>
  BY <1>1
<1>2. CASE Hedge(q)
  <2>1. row[q].status # "absent" /\ UNCHANGED rows
    BY <1>2 DEF Hedge, At, RowsInv
  <2>2. UNCHANGED row \/ row' = [row EXCEPT ![q].status = "closed"]
    BY <1>2 DEF Hedge
  <2> QED
    BY <1>0, <2>1, <2>2 DEF PositionRow
<1>3. CASE FireTrigger(q) \/ ClosePosition(q)
  <2>1. /\ row[q].status = "active" /\ UNCHANGED rows
        /\ \A r \in Requests \ {q} : row'[r] = row[r]
    BY <1>0, <1>3 DEF FireTrigger, ClosePosition
  <2> QED
    BY <2>1
<1>4. CASE TagFingerprint(q)
  <2>1. row' = [row EXCEPT ![q].untagged = FALSE] /\ UNCHANGED rows
    BY <1>4 DEF TagFingerprint
  <2> QED
    BY <1>0, <2>1 DEF PositionRow
<1>5. FinalizeSalvage(q) => UNCHANGED <<rows, row>>
  BY DEF FinalizeSalvage
<1>6. ASSUME RequestStep(q), ~InsertPosition(q), ~Hedge(q) PROVE UNCHANGED <<rows, row>>
  BY <1>6
  DEF RequestStep, Arrive, CountToday, FindExisting, CheckAntiBot, RecordPatternStrike,
      ApplySurcharge, ReadMetrics, Guards, RecordActivation, Local, dbVars
<1> QED
  BY <1>1, <1>2, <1>3, <1>4, <1>5, <1>6 DEF PositionStep

\* What RowsInv says of one request.
RowOf(q) ==
  /\ row[q].status = "absent" <=> req[q].pc \notin {"hedge", "record", "end"}
  /\ At(q, "hedge") => row[q].cell = req[q].cell /\ row[q].pair = req[q].pair
  /\ req[q].seenRows <= Len(rows)

LEMMA RowsKept ==
  ASSUME TypeOK, TypeOK', RowsInv, WorldMoves, UNCHANGED rows
  PROVE  \A i \in 1 .. Len(rows') : /\ row'[rows'[i]].status # "absent"
                                    /\ row'[rows'[i]].day <= Day(now')
<1> SUFFICES ASSUME NEW i \in 1 .. Len(rows)
             PROVE  row'[rows[i]].status # "absent" /\ row'[rows[i]].day <= Day(now')
  OBVIOUS
<1>1. /\ rows[i] \in Requests /\ row[rows[i]].status # "absent"
      /\ row[rows[i]].day <= Day(now)
  BY AdmissionInts DEF RowsInv
<1>2. row'[rows[i]].status # "absent" /\ row'[rows[i]].day = row[rows[i]].day
  BY <1>1 DEF WorldMoves
<1>3. Day(now) \in Nat /\ Day(now') \in Nat /\ Day(now) <= Day(now')
  BY AdmissionInts, AdmissionIntsNext, DaysPass DEF WorldMoves
<1>4. row[rows[i]].day \in Nat
  BY <1>1, AdmissionInts
<1> QED
  BY <1>1, <1>2, <1>3, <1>4

LEMMA RowsFrame ==
  ASSUME TypeOK, TypeOK', RowsInv, WorldMoves, NEW r \in Requests,
         req'[r] = req[r], row[r].status = "absent" => row'[r].status = "absent"
  PROVE  RowOf(r)'
<1>1. RowOf(r)
  BY DEF RowsInv, RowOf
<1>2. row'[r].status = "absent" <=> req'[r].pc \notin {"hedge", "record", "end"}
  BY <1>1 DEF RowOf, WorldMoves
<1>3. req'[r].pc = "hedge" => row'[r].cell = req'[r].cell /\ row'[r].pair = req'[r].pair
  <2>1. ASSUME req[r].pc = "hedge" PROVE row'[r].cell = req'[r].cell /\ row'[r].pair = req'[r].pair
    <3>1. row[r].status # "absent"
      BY <1>1, <2>1 DEF RowOf
    <3> QED
      BY <1>1, <2>1, <3>1 DEF RowOf, WorldMoves, At
  <2> QED
    BY <2>1
<1>4. req'[r].seenRows <= Len(rows')
  BY <1>1, AdmissionInts, AdmissionIntsNext DEF RowOf, WorldMoves
<1> QED
  BY <1>2, <1>3, <1>4 DEF RowOf, At

LEMMA NextRowsOf ==
  ASSUME TypeOK, TypeOK', RowsInv, WorldMoves, NEW q \in Requests,
         RequestStep(q)
  PROVE  RowsInv'
<1>0. ReqGoes(q)
  BY RequestLands DEF RequestStep, Carries, Emptied
<1>1. RowOf(q)
  BY DEF RowsInv, RowOf
<1>2. ASSUME ~InsertPosition(q), RowOf(q)' PROVE RowsInv'
  <2>1. UNCHANGED rows /\ \A r \in Requests : row[r].status = "absent" => row'[r].status = "absent"
    BY <1>2, AbsentStays
  <2>2. \A r \in Requests : RowOf(r)'
    BY <1>0, <1>2, <2>1, RowsFrame DEF ReqGoes
  <2> QED
    BY <2>1, <2>2, RowsKept DEF RowsInv, RowOf
<1>3. ASSUME NEW pc \in Pc, Carries(q, pc), ~InsertPosition(q),
             req[q].pc \in {"hedge", "record", "end"} <=> pc \in {"hedge", "record", "end"},
             pc # "hedge"
      PROVE  RowsInv'
  <2>1. /\ row[q].status = "absent" => row'[q].status = "absent"
        /\ row[q].status # "absent" => row'[q].status # "absent"
    BY <1>3, AbsentStays DEF WorldMoves
  <2>2. req'[q].seenRows <= Len(rows')
    BY <1>1, <1>3, AdmissionInts, AdmissionIntsNext DEF RowOf, WorldMoves, Carries
  <2>3. RowOf(q)'
    BY <1>1, <1>3, <2>1, <2>2 DEF RowOf, Carries, At
  <2> QED
    BY <1>2, <1>3, <2>3
<1>4. ASSUME NEW pc \in Pc, Emptied(q, pc), ~InsertPosition(q),
             req[q].pc \in {"hedge", "record", "end"} <=> pc \in {"hedge", "record", "end"},
             pc # "hedge"
      PROVE  RowsInv'
  <2>1. /\ row[q].status = "absent" => row'[q].status = "absent"
        /\ row[q].status # "absent" => row'[q].status # "absent"
    BY <1>4, AbsentStays DEF WorldMoves
  <2>2. ReqTyped
    BY AdmissionParts DEF ReqTyped
  <2>3. /\ req'[q].pc = pc /\ req'[q].kind = "test" /\ req'[q].print = NoPrint
        /\ req'[q].seenRows = 0
    BY <1>4, <2>2, EmptiedTyped
  <2>4. req'[q].seenRows <= Len(rows')
    BY <2>3, AdmissionIntsNext
  <2>5. RowOf(q)'
    BY <1>1, <1>4, <2>1, <2>3, <2>4 DEF RowOf, At
  <2> QED
    BY <1>2, <1>4, <2>5
<1>5. /\ "idle" \in Pc /\ "existing" \in Pc /\ "antibot" \in Pc /\ "metrics" \in Pc
      /\ "strike" \in Pc /\ "surcharge" \in Pc /\ "guards" \in Pc /\ "insert" \in Pc
      /\ "hedge" \in Pc /\ "record" \in Pc /\ "end" \in Pc
  BY DEF Pc
<1>6. ASSUME InsertPosition(q) PROVE RowsInv'
  <2>1. /\ rows' = Append(rows, q) /\ req[q].pc = "insert"
        /\ row' = [row EXCEPT ![q] = [status |-> "active", cell |-> req[q].cell,
                                pair |-> req[q].pair, print |-> req[q].print,
                                day |-> Day(now), untagged |-> FALSE]]
        /\ now' = now
    BY <1>6 DEF InsertPosition, At
  <2>2. row \in [Requests -> PositionRow] /\ rows \in Seq(Requests)
    BY AdmissionParts DEF AdmissionTables
  <2>3. /\ row'[q].status = "active" /\ row'[q].day = Day(now)
        /\ row'[q].cell = req[q].cell /\ row'[q].pair = req[q].pair
        /\ \A r \in Requests \ {q} : row'[r] = row[r]
    BY <2>1, <2>2
  <2>4. /\ Len(rows') = Len(rows) + 1 /\ rows'[Len(rows) + 1] = q
        /\ \A i \in 1 .. Len(rows) : rows'[i] = rows[i]
    BY <2>1, <2>2, AppendProperties
  <2>5. Carries(q, "hedge")
    BY <1>6, RequestLands
  <2>6. ASSUME NEW i \in 1 .. Len(rows')
        PROVE  row'[rows'[i]].status # "absent" /\ row'[rows'[i]].day <= Day(now')
    <3>1. Day(now) \in Nat
      BY AdmissionInts, DaysPass
    <3>2. CASE i = Len(rows) + 1
      BY <2>1, <2>3, <2>4, <3>1, <3>2
    <3>3. CASE i # Len(rows) + 1
      <4>1. i \in 1 .. Len(rows)
        BY <2>4, <3>3, AdmissionInts
      <4>2. rows'[i] = rows[i] /\ rows[i] \in Requests /\ row[rows[i]].status # "absent"
            /\ row[rows[i]].day <= Day(now)
        BY <2>4, <4>1, AdmissionInts DEF RowsInv
      <4>3. rows[i] # q
        BY <1>1, <2>1, <4>2 DEF RowOf
      <4>4. row'[rows[i]] = row[rows[i]]
        BY <2>3, <4>2, <4>3
      <4> QED
        BY <2>1, <4>2, <4>4
    <3> QED
      BY <3>2, <3>3
  <2>7. RowOf(q)'
    <3>1. req'[q].seenRows <= Len(rows')
      BY <1>1, <2>4, <2>5, AdmissionInts DEF RowOf, Carries
    <3> QED
      BY <1>1, <2>3, <2>5, <3>1 DEF RowOf, Carries, At
  <2>8. \A r \in Requests \ {q} : RowOf(r)'
    BY <1>0, <2>3, RowsFrame DEF ReqGoes
  <2> QED
    BY <2>6, <2>7, <2>8 DEF RowsInv, RowOf
<1>7. ASSUME Arrive(q) PROVE RowsInv'
  <2>1. /\ req'[q].pc \in {"existing", "today"} /\ req'[q].seenRows = Len(rows)
        /\ req[q].pc = "idle"
    <3>1. PICK kind \in Kinds, c \in Cells, p \in Pairs, f \in Prints :
          /\ kind = "test" => f = NoPrint
          /\ kind # "test" => cell[c].enabled
          /\ req' = [req EXCEPT ![q] =
            [Idle EXCEPT !.pc = IF kind = "test" THEN "existing" ELSE "today",
               !.kind = kind, !.cell = c, !.pair = p, !.print = f, !.cap = cell[c].cap,
               !.seenRows = Len(rows),
               !.quiet = IF Identified(kind, f) THEN Ahead(quiet[f]) ELSE 0,
               !.opened = IF Identified(kind, f) THEN openedAt[f][c] ELSE Never,
               !.surchargeUntil = IF Identified(kind, f) THEN Ahead(print[f].surcharge) ELSE 0,
               !.pause = Ahead(surgeUntil)]]
      BY <1>7 DEF Arrive
    <3>2. req \in [Requests -> RequestState]
      BY AdmissionParts
    <3>3. /\ req'[q].pc = IF kind = "test" THEN "existing" ELSE "today"
          /\ req'[q].seenRows = Len(rows)
      BY <3>1, <3>2 DEF Idle
    <3> QED
      BY <1>7, <3>1, <3>3 DEF Arrive, At
  <2>2. UNCHANGED <<row, rows>>
    BY <1>7 DEF Arrive, dbVars
  <2>3. ~InsertPosition(q)
    BY <2>1 DEF InsertPosition, At
  <2>4. req'[q].seenRows <= Len(rows')
    BY <2>1, <2>2, AdmissionInts
  <2>5. RowOf(q)'
    BY <1>1, <2>1, <2>2, <2>4 DEF RowOf, At
  <2> QED
    BY <1>2, <2>3, <2>5
<1>8. ASSUME CountToday(q) \/ FindExisting(q) \/ CheckAntiBot(q) \/ RecordPatternStrike(q)
             \/ ApplySurcharge(q) \/ ReadMetrics(q) \/ Guards(q)
      PROVE  RowsInv'
  <2>1. req[q].pc \in {"today", "existing", "antibot", "strike", "surcharge", "metrics", "guards"}
    BY <1>8 DEF CountToday, FindExisting, CheckAntiBot, RecordPatternStrike, ApplySurcharge,
                ReadMetrics, Guards, At
  <2>2. ~InsertPosition(q)
    BY <2>1 DEF InsertPosition, At
  <2>3. Emptied(q, "idle") \/ \E pc \in Pc \ {"hedge", "record", "end"} : Carries(q, pc)
    BY <1>5, <1>8, RequestLands
  <2> QED
    BY <1>3, <1>4, <1>5, <2>1, <2>2, <2>3
<1>9. ASSUME Hedge(q) \/ RecordActivation(q) PROVE RowsInv'
  <2>1. req[q].pc \in {"hedge", "record"}
    BY <1>9 DEF Hedge, RecordActivation, At
  <2>2. ~InsertPosition(q)
    BY <2>1 DEF InsertPosition, At
  <2>3. (\E pc \in {"record", "end"} : Emptied(q, pc)) \/ Carries(q, "end")
    BY <1>9, RequestLands
  <2> QED
    BY <1>3, <1>4, <1>5, <2>1, <2>2, <2>3
<1> QED
  BY <1>6, <1>7, <1>8, <1>9 DEF RequestStep

LEMMA NextRows ==
  TypeOK /\ RowsInv /\ PrintInv /\ StopInv /\ [Next]_vars => RowsInv'
<1> SUFFICES ASSUME TypeOK, RowsInv, PrintInv, StopInv, [Next]_vars
             PROVE  RowsInv'
  OBVIOUS
<1>1. ASSUME NEW q \in Requests, RequestStep(q) PROVE RowsInv'
  BY <1>1, EachMoves, NextRowsOf
<1>2. ASSUME NEW q \in Requests, PositionStep(q) PROVE RowsInv'
  <2>1. TypeOK' /\ WorldMoves /\ UNCHANGED req
    BY <1>2, EachMoves
  <2>2. UNCHANGED rows /\ \A r \in Requests : row[r].status = "absent" => row'[r].status = "absent"
    BY <1>2, AbsentStays
  <2>3. \A r \in Requests : RowOf(r)'
    BY <2>1, <2>2, RowsFrame
  <2> QED
    BY <2>1, <2>2, <2>3, RowsKept DEF RowsInv, RowOf
<1>3. ASSUME ToggleCell \/ Halt \/ ClearHalt \/ Tick PROVE RowsInv'
  <2>1. TypeOK' /\ WorldMoves /\ UNCHANGED req
    BY <1>3, EachMoves
  <2>2. UNCHANGED <<rows, row>>
    BY <1>3 DEF ToggleCell, Halt, ClearHalt, Tick, dbVars
  <2>3. \A r \in Requests : RowOf(r)'
    BY <2>1, <2>2, RowsFrame
  <2> QED
    BY <2>1, <2>2, <2>3, RowsKept DEF RowsInv, RowOf
<1>4. ASSUME Restart PROVE RowsInv'
  <2>1. UNCHANGED <<now, rows, row>>
    BY <1>4, RestartEmpties DEF dbVars
  <2>2. ASSUME NEW q \in Requests PROVE RowOf(q)'
    <3>1. /\ req'[q].pc = IF row[q].status = "absent" THEN "idle" ELSE "end"
          /\ req'[q].kind = "test" /\ req'[q].print = NoPrint /\ req'[q].seenRows = 0
      BY <1>4, RestartEmpties
    <3>2. req'[q].seenRows <= Len(rows')
      BY <2>1, <3>1, AdmissionInts
    <3> QED
      BY <2>1, <3>1, <3>2 DEF RowOf, At
  <2> QED
    BY <2>1, <2>2 DEF RowsInv, RowOf
<1>5. CASE UNCHANGED vars
  BY <1>5 DEF vars, dbVars, RowsInv, At
<1> QED
  BY <1>1, <1>2, <1>3, <1>4, <1>5 DEF Next

-----------------------------------------------------------------------------
(* The pair, and the day's cap.                                            *)

\* What PairInv says of one request.
PairOf(q) ==
  \A i \in OfPair(req[q].pair) :
    /\ IsActive(i) /\ i <= req[q].seenRows
    => \E k \in OfPair(req[q].pair) : k > i /\ rows[k] # q

\* The positions a request has seen keep their pair, cell and day, and none of
\* them becomes active again.
LEMMA SeenStays ==
  ASSUME TypeOK, TypeOK', RowsInv, WorldMoves
  PROVE  /\ \A p \in Pairs : OfPair(p) = {i \in 1 .. Len(rows) : row[rows[i]].pair = p}
         /\ \A p \in Pairs : OfPair(p)' = {i \in 1 .. Len(rows') : row'[rows'[i]].pair = p}
         /\ \A i \in 1 .. Len(rows) :
              /\ i \in 1 .. Len(rows') /\ rows'[i] = rows[i]
              /\ row'[rows'[i]].pair = row[rows[i]].pair
              /\ row'[rows'[i]].cell = row[rows[i]].cell
              /\ row'[rows'[i]].day = row[rows[i]].day
              /\ row'[rows'[i]].status = "active" => row[rows[i]].status = "active"
<1>1. \A p \in Pairs : OfPair(p) = {i \in 1 .. Len(rows) : row[rows[i]].pair = p}
  BY AdmissionInts DEF OfPair
<1>2. DOMAIN rows' = 1 .. Len(rows')
  <2>1. rows' \in Seq(Requests)
    BY DEF TypeOK
  <2> QED
    BY <2>1, LenProperties
<1>3. \A p \in Pairs : OfPair(p)' = {i \in 1 .. Len(rows') : row'[rows'[i]].pair = p}
  BY <1>2 DEF OfPair
<1>4. ASSUME NEW i \in 1 .. Len(rows)
      PROVE  /\ i \in 1 .. Len(rows') /\ rows'[i] = rows[i]
             /\ row'[rows'[i]].pair = row[rows[i]].pair
             /\ row'[rows'[i]].cell = row[rows[i]].cell
             /\ row'[rows'[i]].day = row[rows[i]].day
             /\ row'[rows'[i]].status = "active" => row[rows[i]].status = "active"
  <2>1. rows[i] \in Requests /\ row[rows[i]].status # "absent"
    BY AdmissionInts DEF RowsInv
  <2>2. i \in 1 .. Len(rows') /\ rows'[i] = rows[i]
    BY AdmissionInts, AdmissionIntsNext DEF WorldMoves
  <2> QED
    BY <2>1, <2>2 DEF WorldMoves
<1> QED
  BY <1>1, <1>3, <1>4

\* What hides a position from a request still does.
LEMMA PairFrame ==
  ASSUME TypeOK, TypeOK', RowsInv, WorldMoves, NEW q \in Requests,
         PairOf(q), req'[q].pair = req[q].pair, req'[q].seenRows = req[q].seenRows
  PROVE  PairOf(q)'
<1> DEFINE p == req[q].pair
<1>1. p \in Pairs /\ req[q].seenRows <= Len(rows) /\ req[q].seenRows \in Nat
  BY AdmissionInts DEF RequestState, RowsInv
<1>2. ASSUME NEW i \in 1 .. Len(rows'), row'[rows'[i]].pair = p,
             row'[rows'[i]].status = "active", i <= req[q].seenRows
      PROVE  \E k \in 1 .. Len(rows') : row'[rows'[k]].pair = p /\ k > i /\ rows'[k] # q
  <2>1. i \in 1 .. Len(rows)
    BY <1>1, <1>2, AdmissionInts
  <2>2. row[rows[i]].pair = p /\ row[rows[i]].status = "active"
    BY <1>1, <1>2, <2>1, SeenStays
  <2>3. i \in OfPair(p)
    BY <1>1, <2>1, <2>2, SeenStays
  <2>4. PICK k \in OfPair(p) : k > i /\ rows[k] # q
    BY <1>2, <2>2, <2>3 DEF PairOf, IsActive
  <2>5. k \in 1 .. Len(rows) /\ row[rows[k]].pair = p
    BY <1>1, <2>4, SeenStays
  <2> QED
    BY <2>4, <2>5, SeenStays
<1>3. OfPair(p)' = {i \in 1 .. Len(rows') : row'[rows'[i]].pair = p}
  <2>1. \A x \in Pairs : OfPair(x)' = {i \in 1 .. Len(rows') : row'[rows'[i]].pair = x}
    BY SeenStays
  <2> QED
    BY <1>1, <2>1 DEF OfPair
<1> QED
  BY <1>2, <1>3 DEF PairOf, IsActive, OfPair

\* The lookup finds the newest position of the pair ended, if there is one.
LEMMA LookupHides ==
  ASSUME TypeOK, RowsInv, NEW q \in Requests, req[q].pc = "existing",
         ~LatestIsActive(req[q].pair)
  PROVE  PairOf(q)
<1> DEFINE S == OfPair(req[q].pair)
<1> SUFFICES ASSUME NEW i \in S, IsActive(i)
             PROVE  \E k \in S : k > i /\ rows[k] # q
  BY DEF PairOf
<1>1. S \subseteq 1 .. Len(rows) /\ Len(rows) \in Nat
  BY AdmissionInts DEF OfPair
<1>2. IsFiniteSet(S) /\ S # {} /\ \A x \in S : x \in Int
  <2>1. IsFiniteSet(1 .. Len(rows))
    BY <1>1, FS_Interval
  <2> HIDE DEF S
  <2> QED
    BY <1>1, <2>1, FS_Subset
<1>3. Max(S) \in S /\ \A y \in S : Max(S) >= y
  <2> HIDE DEF S
  <2> QED
    BY <1>2, LastOne
<1>4. row[rows[Max(S)]].status # "active"
  BY <1>2 DEF LatestIsActive
<1>5. Max(S) # i
  BY <1>4 DEF IsActive
<1>6. Max(S) > i
  <2> DEFINE m == Max(S)
  <2>1. m \in Int /\ i \in Int /\ m >= i /\ m # i
    BY <1>2, <1>3, <1>5
  <2> HIDE DEF m
  <2>2. m > i
    BY <2>1
  <2> QED
    BY <2>2 DEF m
<1>7. rows[Max(S)] # q
  <2>1. row[q].status = "absent"
    BY DEF RowsInv
  <2>2. row[rows[Max(S)]].status # "absent"
    BY <1>1, <1>3 DEF RowsInv
  <2> QED
    BY <2>1, <2>2
<1> QED
  BY <1>3, <1>6, <1>7

LEMMA NextPairOf ==
  ASSUME TypeOK, TypeOK', RowsInv, PairInv, WorldMoves, NEW q \in Requests,
         RequestStep(q)
  PROVE  PairInv'
<1>0. ReqGoes(q)
  BY RequestLands DEF RequestStep, Carries, Emptied
<1>1. \A r \in Requests \ {q} : req'[r].pc \in Looked => PairOf(r)'
  <2> TAKE r \in Requests \ {q}
  <2> SUFFICES ASSUME req'[r].pc \in Looked PROVE PairOf(r)'
    OBVIOUS
  <2>1. req'[r] = req[r]
    BY <1>0 DEF ReqGoes
  <2>2. PairOf(r)
    BY <2>1 DEF PairInv, PairOf
  <2> QED
    BY <2>1, <2>2, PairFrame
<1>2. ASSUME req'[q].pc \in Looked PROVE PairOf(q)'
  <2>1. CASE FindExisting(q)
    <3>1. ReqTyped /\ "idle" \in Pc /\ "idle" \notin Looked
      BY AdmissionParts DEF ReqTyped, Pc, Looked, Decided
    <3>2. ~Emptied(q, "idle")
      BY <1>2, <3>1, EmptiedTyped
    <3>3. req[q].pc = "existing" /\ ~LatestIsActive(req[q].pair)
      BY <2>1, <3>2, RequestLands DEF FindExisting, At
    <3>4. req'[q].pair = req[q].pair /\ req'[q].seenRows = req[q].seenRows
      BY <2>1, <3>2, RequestLands DEF Carries
    <3> QED
      BY <3>3, <3>4, LookupHides, PairFrame
  <2>2. CASE CheckAntiBot(q) \/ ReadMetrics(q) \/ Guards(q) \/ InsertPosition(q)
    <3>1. ReqTyped /\ "idle" \in Pc /\ "idle" \notin Looked
      BY AdmissionParts DEF ReqTyped, Pc, Looked, Decided
    <3>2. ~Emptied(q, "idle")
      BY <1>2, <3>1, EmptiedTyped
    <3>3. req'[q].pair = req[q].pair /\ req'[q].seenRows = req[q].seenRows
      BY <2>2, <3>2, RequestLands DEF Carries
    <3>4. req[q].pc \in Looked
      BY <2>2 DEF CheckAntiBot, ReadMetrics, Guards, InsertPosition, At, Looked, Decided
    <3>5. PairOf(q)
      BY <3>4 DEF PairInv, PairOf
    <3> QED
      BY <3>3, <3>5, PairFrame
  <2>3. ASSUME Arrive(q) \/ CountToday(q) \/ RecordPatternStrike(q) \/ ApplySurcharge(q)
               \/ Hedge(q) \/ RecordActivation(q)
        PROVE  FALSE
    <3>1. ReqTyped
      BY AdmissionParts DEF ReqTyped
    <3>2. CASE Arrive(q)
      BY <1>2, <3>1, <3>2 DEF Arrive, ReqTyped, Looked, Decided, Idle
    <3>3. CASE ~Arrive(q)
      <4>1. \/ \E pc \in {"idle", "record", "end"} : Emptied(q, pc)
            \/ \E pc \in {"existing", "surcharge", "end"} : Carries(q, pc)
        BY <2>3, <3>3, RequestLands
      <4>2. req'[q].pc \in {"idle", "record", "end", "existing", "surcharge"}
        BY <3>1, <4>1, EmptiedTyped DEF Carries, Pc
      <4> QED
        BY <1>2, <4>2 DEF Looked, Decided
    <3> QED
      BY <3>2, <3>3
  <2> QED
    BY <2>1, <2>2, <2>3 DEF RequestStep
<1> QED
  BY <1>1, <1>2 DEF PairInv, PairOf

LEMMA NextPairs ==
  /\ TypeOK /\ RowsInv /\ PairInv /\ PrintInv /\ StopInv
  /\ [Next]_vars
  => PairInv'
<1> SUFFICES ASSUME TypeOK, RowsInv, PairInv, PrintInv, StopInv,
                    [Next]_vars
             PROVE  PairInv'
  OBVIOUS
<1>1. ASSUME NEW q \in Requests, RequestStep(q) PROVE PairInv'
  BY <1>1, EachMoves, NextPairOf
<1>2. ASSUME \/ \E q \in Requests : PositionStep(q)
             \/ ToggleCell \/ Halt \/ ClearHalt \/ Tick
      PROVE PairInv'
  <2>1. TypeOK' /\ WorldMoves /\ UNCHANGED req
    BY <1>2, EachMoves
  <2>2. ASSUME NEW r \in Requests, req'[r].pc \in Looked PROVE PairOf(r)'
    <3>1. PairOf(r)
      BY <2>1, <2>2 DEF PairInv, PairOf
    <3> QED
      BY <2>1, <3>1, PairFrame
  <2> QED
    BY <2>2 DEF PairInv, PairOf
<1>3. ASSUME Restart PROVE PairInv'
  <2>1. \A r \in Requests : req'[r].pc \in {"idle", "end"}
    BY <1>3, RestartEmpties
  <2> QED
    BY <2>1 DEF PairInv, Looked, Decided
<1>4. CASE UNCHANGED vars
  BY <1>4 DEF vars, dbVars, PairInv, OfPair, IsActive
<1> QED
  BY <1>1, <1>2, <1>3, <1>4 DEF Next

\* What CapInv says of one request.
CapOf(q) ==
  req[q].kind # "test" =>
    /\ req[q].pc \in {"existing"} \cup (Looked \ {"hedge"}) =>
         \A d \in Nat : d >= Day(now) => Cardinality(SeenOn(q, d)) <= req[q].today
    /\ At(q, "insert") => req[q].today < EffectiveCap(q)
    /\ At(q, "hedge") => Cardinality(SeenOn(q, row[q].day)) < EffectiveCap(q)

LEMMA SeenCounts ==
  ASSUME TypeOK, NEW q \in Requests, NEW d
  PROVE  SeenOn(q, d) \in SUBSET (1 .. req[q].seenRows) /\ Cardinality(SeenOn(q, d)) \in Nat
<1>1. req[q].seenRows \in Nat
  BY AdmissionInts
<1>2. IsFiniteSet(1 .. req[q].seenRows)
  BY <1>1, FS_Interval
<1>3. SeenOn(q, d) \in SUBSET (1 .. req[q].seenRows)
  BY DEF SeenOn
<1>4. IsFiniteSet(SeenOn(q, d))
  BY <1>2, <1>3, FS_Subset
<1> QED
  BY <1>3, <1>4, FS_CardinalityType

LEMMA SeenSame ==
  ASSUME TypeOK, TypeOK', RowsInv, WorldMoves, NEW q \in Requests,
         req'[q].cell = req[q].cell, req'[q].seenRows = req[q].seenRows
  PROVE  \A d \in Nat : SeenOn(q, d)' = SeenOn(q, d)
<1>1. req[q].seenRows \in Nat /\ req[q].seenRows <= Len(rows) /\ Len(rows) \in Nat
  BY AdmissionInts DEF RowsInv
<1>2. \A i \in 1 .. req[q].seenRows : i \in 1 .. Len(rows)
  BY <1>1
<1>3. \A i \in 1 .. req[q].seenRows :
        /\ row'[rows'[i]].cell = row[rows[i]].cell
        /\ row'[rows'[i]].day = row[rows[i]].day
  BY <1>2, SeenStays
<1> QED
  BY <1>3 DEF SeenOn

LEMMA CapFrame ==
  ASSUME TypeOK, TypeOK', RowsInv, WorldMoves, NEW q \in Requests,
         CapOf(q), req'[q] = req[q]
  PROVE  CapOf(q)'
<1> SUFFICES ASSUME req[q].kind # "test" PROVE CapOf(q)'
  BY DEF CapOf
<1>1. \A d \in Nat : SeenOn(q, d)' = SeenOn(q, d)
  BY SeenSame
<1>2. Day(now) \in Nat /\ Day(now') \in Nat /\ Day(now) <= Day(now')
  BY AdmissionInts, AdmissionIntsNext, DaysPass DEF WorldMoves
<1>3. EffectiveCap(q)' = EffectiveCap(q)
  BY DEF EffectiveCap
<1>4. ASSUME req[q].pc \in {"existing"} \cup (Looked \ {"hedge"}), NEW d \in Nat, d >= Day(now')
      PROVE  Cardinality(SeenOn(q, d)') <= req'[q].today
  <2>1. d >= Day(now)
    BY <1>2, <1>4
  <2>2. Cardinality(SeenOn(q, d)) <= req[q].today
    BY <1>4, <2>1 DEF CapOf
  <2> QED
    BY <1>1, <2>2
<1>5. ASSUME req[q].pc = "hedge"
      PROVE  \E d \in Nat : d = row'[q].day /\ Cardinality(SeenOn(q, d)') < EffectiveCap(q)'
  <2>1. row[q].status # "absent"
    BY <1>5 DEF RowsInv
  <2>2. row'[q].day = row[q].day /\ row[q].day \in Nat
    BY <2>1, AdmissionInts DEF WorldMoves
  <2>3. Cardinality(SeenOn(q, row[q].day)) < EffectiveCap(q)
    BY <1>5 DEF CapOf, At
  <2> QED
    BY <1>1, <1>3, <2>2, <2>3
<1>6. req[q].pc = "insert" => req'[q].today < EffectiveCap(q)'
  BY <1>3 DEF CapOf, At
<1> QED
  BY <1>4, <1>5, <1>6 DEF CapOf, At, SeenOn

\* The count of the day bounds what was there on it; nothing is there of a day
\* to come.
LEMMA CountBounds ==
  ASSUME TypeOK, RowsInv, NEW q \in Requests, NEW d \in Nat, d >= Day(now)
  PROVE  Cardinality(SeenOn(q, d)) <= OpenedToday(req[q].cell)
<1>1. /\ req[q].seenRows \in Nat /\ req[q].seenRows <= Len(rows) /\ Len(rows) \in Nat
      /\ DOMAIN rows = 1 .. Len(rows) /\ Day(now) \in Nat /\ req[q].cell \in Cells
  <2>1. now \in Nat /\ now <= now
    BY AdmissionInts
  <2>2. Day(now) \in Nat
    BY <2>1, DaysPass
  <2> QED
    BY <2>2, AdmissionInts DEF RowsInv
<1>2. \A i \in 1 .. req[q].seenRows : i \in 1 .. Len(rows)
  BY <1>1
<1>3. \A i \in 1 .. Len(rows) : row[rows[i]].day \in Nat /\ row[rows[i]].day <= Day(now)
  BY AdmissionInts DEF RowsInv
<1> DEFINE c == req[q].cell
           S == {i \in DOMAIN rows : row[rows[i]].cell = c /\ row[rows[i]].day = Day(now)}
<1>4. SeenOn(q, d) \in SUBSET S
  BY <1>1, <1>2, <1>3 DEF SeenOn
<1>5. IsFiniteSet(S)
  <2>1. S \in SUBSET (1 .. Len(rows)) /\ IsFiniteSet(1 .. Len(rows))
    BY <1>1, FS_Interval
  <2> HIDE DEF S
  <2> QED
    BY <2>1, FS_Subset
<1>6. Cardinality(SeenOn(q, d)) <= Cardinality(S)
  <2> HIDE DEF S
  <2> QED
    BY <1>4, <1>5, FS_Subset
<1> QED
  BY <1>6 DEF OpenedToday

\* A request that keeps its cell, what it saw and what it counted.
LEMMA CapGoesOn ==
  ASSUME TypeOK, TypeOK', RowsInv, WorldMoves, NEW q \in Requests,
         CapOf(q), NEW pc \in Pc, Carries(q, pc), req'[q].today = req[q].today,
         req[q].pc \in {"existing"} \cup (Looked \ {"hedge"}), pc \notin {"insert", "hedge"}
  PROVE  CapOf(q)'
<1> SUFFICES ASSUME req[q].kind # "test" PROVE CapOf(q)'
  BY DEF CapOf, Carries
<1>1. \A d \in Nat : SeenOn(q, d)' = SeenOn(q, d)
  BY SeenSame DEF Carries
<1>2. Day(now) \in Nat /\ Day(now') \in Nat /\ Day(now) <= Day(now')
  BY AdmissionInts, AdmissionIntsNext, DaysPass DEF WorldMoves
<1>3. ASSUME NEW d \in Nat, d >= Day(now')
      PROVE  Cardinality(SeenOn(q, d)') <= req'[q].today
  <2>1. d >= Day(now)
    BY <1>2, <1>3
  <2>2. Cardinality(SeenOn(q, d)) <= req[q].today
    BY <2>1 DEF CapOf
  <2> QED
    BY <1>1, <2>2
<1> QED
  BY <1>3 DEF CapOf, Carries, At, SeenOn

LEMMA NextCapOf ==
  ASSUME TypeOK, TypeOK', RowsInv, CapInv, WorldMoves, NEW q \in Requests,
         RequestStep(q)
  PROVE  CapInv'
<1>0. ReqGoes(q) /\ ReqTyped /\ CapOf(q)
  BY RequestLands, AdmissionParts
  DEF RequestStep, Carries, Emptied, ReqTyped, CapInv, CapOf
<1>1. \A r \in Requests \ {q} : CapOf(r)'
  <2> TAKE r \in Requests \ {q}
  <2>1. req'[r] = req[r] /\ CapOf(r)
    BY <1>0 DEF ReqGoes, CapInv, CapOf
  <2> QED
    BY <2>1, CapFrame
<1>2. /\ "idle" \in Pc /\ "existing" \in Pc /\ "antibot" \in Pc /\ "metrics" \in Pc
      /\ "strike" \in Pc /\ "surcharge" \in Pc /\ "guards" \in Pc /\ "insert" \in Pc
      /\ "hedge" \in Pc /\ "record" \in Pc /\ "end" \in Pc
  BY DEF Pc
<1>3. \A pc \in Pc : Emptied(q, pc) => CapOf(q)'
  BY <1>0, EmptiedTyped DEF CapOf
<1>4. ASSUME NEW pc \in {"strike", "surcharge", "end"}, Carries(q, pc) PROVE CapOf(q)'
  BY <1>4 DEF CapOf, Carries, Looked, Decided, At
<1>5. CASE Arrive(q)
  <2>1. req'[q].kind = "test" \/ req'[q].pc = "today"
    BY <1>0, <1>5 DEF Arrive, ReqTyped, Idle
  <2>2. CapOf(q)'
    BY <2>1 DEF CapOf, Looked, Decided, At
  <2> QED
    BY <1>1, <2>2 DEF CapInv, CapOf
<1>6. CASE CountToday(q)
  <2>1. CASE Emptied(q, "idle")
    BY <1>1, <1>2, <1>3, <2>1 DEF CapInv, CapOf
  <2>2. CASE Carries(q, "existing") /\ req'[q].today = OpenedToday(req[q].cell)
    <3>1. \A d \in Nat : SeenOn(q, d)' = SeenOn(q, d)
      BY <2>2, SeenSame DEF Carries
    <3>2. now' = now
      BY <1>6 DEF CountToday, Local
    <3>3. \A d \in Nat : d >= Day(now') => Cardinality(SeenOn(q, d)') <= req'[q].today
      BY <2>2, <3>1, <3>2, CountBounds
    <3>4. CapOf(q)'
      BY <2>2, <3>3 DEF CapOf, Carries, At, SeenOn
    <3> QED
      BY <1>1, <3>4 DEF CapInv, CapOf
  <2> QED
    BY <1>6, <2>1, <2>2, RequestLands
<1>7. CASE FindExisting(q) \/ CheckAntiBot(q) \/ ReadMetrics(q)
  <2>1. req[q].pc \in {"existing"} \cup (Looked \ {"hedge"})
    BY <1>7 DEF FindExisting, CheckAntiBot, ReadMetrics, At, Looked, Decided
  <2>2. \/ Emptied(q, "idle") \/ Carries(q, "strike")
        \/ \E pc \in {"antibot", "metrics", "guards"} :
             Carries(q, pc) /\ req'[q].today = req[q].today
    BY <1>7, RequestLands
  <2>3. CapOf(q)'
    BY <1>0, <1>2, <1>3, <1>4, <2>1, <2>2, CapGoesOn
  <2> QED
    BY <1>1, <2>3 DEF CapInv, CapOf
<1>8. CASE RecordPatternStrike(q) \/ ApplySurcharge(q) \/ Hedge(q) \/ RecordActivation(q)
  <2>1. \/ \E pc \in {"idle", "record", "end"} : Emptied(q, pc)
        \/ \E pc \in {"surcharge", "end"} : Carries(q, pc)
    BY <1>8, RequestLands
  <2>2. CapOf(q)'
    BY <1>2, <1>3, <1>4, <2>1
  <2> QED
    BY <1>1, <2>2 DEF CapInv, CapOf
<1>9. CASE Guards(q)
  <2>1. CASE Emptied(q, "idle")
    BY <1>1, <1>2, <1>3, <2>1 DEF CapInv, CapOf
  <2>2. CASE /\ Carries(q, "insert") /\ req' = [req EXCEPT ![q].pc = "insert"]
             /\ WithinThrottle(q)
    <3>1. /\ req'[q].today = req[q].today /\ req'[q].metrics = req[q].metrics
          /\ req'[q].cap = req[q].cap
      BY <1>0, <2>2 DEF ReqTyped, RequestState
    <3>2. EffectiveCap(q)' = EffectiveCap(q)
      BY <3>1 DEF EffectiveCap
    <3>3. \A d \in Nat : SeenOn(q, d)' = SeenOn(q, d)
      BY <2>2, SeenSame DEF Carries
    <3>4. now' = now /\ req[q].pc = "guards"
      BY <1>9 DEF Guards, At
    <3>5. req[q].kind # "test" =>
            /\ \A d \in Nat : d >= Day(now') => Cardinality(SeenOn(q, d)') <= req'[q].today
            /\ req'[q].today < EffectiveCap(q)'
      BY <1>0, <2>2, <3>1, <3>2, <3>3, <3>4 DEF CapOf, WithinThrottle, Looked, Decided
    <3>6. CapOf(q)'
      BY <2>2, <3>5 DEF CapOf, Carries, At, SeenOn, EffectiveCap
    <3> QED
      BY <1>1, <3>6 DEF CapInv, CapOf
  <2> QED
    BY <1>9, <2>1, <2>2, RequestLands
<1>10. CASE InsertPosition(q)
  <2>1. /\ Carries(q, "hedge") /\ req' = [req EXCEPT ![q].pc = "hedge"]
        /\ req[q].pc = "insert" /\ now' = now
        /\ row' = [row EXCEPT ![q] = [status |-> "active", cell |-> req[q].cell,
                                pair |-> req[q].pair, print |-> req[q].print,
                                day |-> Day(now), untagged |-> FALSE]]
    BY <1>10, RequestLands DEF InsertPosition, At
  <2>2. /\ req'[q].today = req[q].today /\ req'[q].metrics = req[q].metrics
        /\ req'[q].cap = req[q].cap
    BY <1>0, <2>1 DEF ReqTyped, RequestState
  <2>3. EffectiveCap(q)' = EffectiveCap(q) /\ EffectiveCap(q) \in Int
    <3>1. req[q].cap \in Int /\ LowPerDay \in Int
      BY <1>0, AdmissionNumbers DEF ReqTyped, RequestState
    <3> QED
      BY <2>2, <3>1 DEF EffectiveCap
  <2>4. row'[q].day = Day(now)
    <3>1. row \in [Requests -> PositionRow]
      BY AdmissionParts DEF AdmissionTables
    <3> QED
      BY <2>1, <3>1
  <2>5. \A d \in Nat : SeenOn(q, d)' = SeenOn(q, d)
    BY <2>1, SeenSame DEF Carries
  <2>6. Day(now) \in Nat
    BY AdmissionInts, DaysPass
  <2>7. ASSUME req[q].kind # "test"
        PROVE  \E d \in Nat : d = row'[q].day /\ Cardinality(SeenOn(q, d)') < EffectiveCap(q)'
    <3>1. Cardinality(SeenOn(q, Day(now))) <= req[q].today
      BY <1>0, <2>1, <2>6, <2>7 DEF CapOf, Looked, Decided
    <3>2. req[q].today < EffectiveCap(q)
      BY <1>0, <2>1, <2>7 DEF CapOf, At
    <3>3. Cardinality(SeenOn(q, Day(now))) \in Nat /\ req[q].today \in Nat
      BY SeenCounts, AdmissionInts
    <3>4. Cardinality(SeenOn(q, Day(now))) < EffectiveCap(q)
      BY <2>3, <3>1, <3>2, <3>3
    <3> QED
      BY <2>3, <2>4, <2>5, <2>6, <3>4
  <2>8. CapOf(q)'
    BY <2>1, <2>7 DEF CapOf, Carries, At, SeenOn, EffectiveCap, Looked
  <2> QED
    BY <1>1, <2>8 DEF CapInv, CapOf
<1> QED
  BY <1>5, <1>6, <1>7, <1>8, <1>9, <1>10 DEF RequestStep

LEMMA NextCaps ==
  /\ TypeOK /\ RowsInv /\ CapInv /\ PrintInv /\ StopInv
  /\ [Next]_vars
  => CapInv'
<1> SUFFICES ASSUME TypeOK, RowsInv, CapInv, PrintInv, StopInv,
                    [Next]_vars
             PROVE  CapInv'
  OBVIOUS
<1>1. ASSUME NEW q \in Requests, RequestStep(q) PROVE CapInv'
  BY <1>1, EachMoves, NextCapOf
<1>2. ASSUME \/ \E q \in Requests : PositionStep(q)
             \/ ToggleCell \/ Halt \/ ClearHalt \/ Tick
      PROVE CapInv'
  <2>1. TypeOK' /\ WorldMoves /\ UNCHANGED req
    BY <1>2, EachMoves
  <2>2. ASSUME NEW r \in Requests PROVE CapOf(r)'
    <3>1. CapOf(r)
      BY DEF CapInv, CapOf
    <3> QED
      BY <2>1, <3>1, CapFrame
  <2> QED
    BY <2>2 DEF CapInv, CapOf
<1>3. ASSUME Restart PROVE CapInv'
  <2>1. \A r \in Requests : req'[r].kind = "test"
    BY <1>3, RestartEmpties
  <2> QED
    BY <2>1 DEF CapInv
<1>4. CASE UNCHANGED vars
  BY <1>4 DEF vars, dbVars, CapInv, SeenOn, EffectiveCap, At
<1> QED
  BY <1>1, <1>2, <1>3, <1>4 DEF Next

-----------------------------------------------------------------------------
(* The anti-bot layers.                                                    *)

\* What PrintInv says of one fingerprint.
PrintOf(f) ==
  /\ print[f].at # Never =>
       /\ print[f].at <= now /\ print[f].cell \in Cells
       /\ print[f].next >= print[f].at + Layer2Base
       /\ openedAt[f][print[f].cell] = print[f].at
  /\ \A c \in Cells : openedAt[f][c] <= print[f].at
  /\ print[f].triggered <= now
  /\ print[f].surcharge <= now + SurchargeDuration
  /\ quiet[f] > now =>
       \/ print[f].at # Never /\ quiet[f] <= print[f].at + Layer2Base
       \/ print[f].triggered # Never /\ quiet[f] <= print[f].triggered + Layer3Cooldown

\* The row of a fingerprint stands, and the clock may move on.
LEMMA PrintFrame ==
  ASSUME TypeOK, TypeOK', NEW f \in Fingerprints, PrintOf(f),
         now <= now', print'[f] = print[f], quiet'[f] = quiet[f], openedAt'[f] = openedAt[f]
  PROVE  PrintOf(f)'
<1>1. /\ now \in Int /\ now' \in Int /\ print[f].at \in Int /\ print[f].triggered \in Int
      /\ print[f].surcharge \in Int /\ quiet[f] \in Int
      /\ SurchargeDuration \in Int
  BY AdmissionInts, AdmissionIntsNext, AdmissionNumbers
<1>2. print'[f].at # Never =>
        /\ print'[f].at <= now' /\ print'[f].cell \in Cells
        /\ print'[f].next >= print'[f].at + Layer2Base
        /\ openedAt'[f][print'[f].cell] = print'[f].at
  BY <1>1 DEF PrintOf
<1>3. print'[f].triggered <= now' /\ print'[f].surcharge <= now' + SurchargeDuration
  BY <1>1 DEF PrintOf
<1>4. ASSUME quiet'[f] > now'
      PROVE  \/ print'[f].at # Never /\ quiet'[f] <= print'[f].at + Layer2Base
             \/ print'[f].triggered # Never /\ quiet'[f] <= print'[f].triggered + Layer3Cooldown
  <2>1. quiet[f] > now
    BY <1>1, <1>4
  <2> QED
    BY <2>1 DEF PrintOf
<1>5. \A c \in Cells : openedAt'[f][c] <= print'[f].at
  BY DEF PrintOf
<1> QED
  BY <1>2, <1>3, <1>4, <1>5 DEF PrintOf

\* Of the steps of a request, three write the row of its fingerprint.
LEMMA NextPrintsOf ==
  ASSUME TypeOK, TypeOK', PrintInv, WorldMoves, NEW q \in Requests,
         RequestStep(q)
  PROVE  PrintInv'
<1>0. /\ AdmissionTables /\ now \in Nat
      /\ \A f \in Fingerprints : PrintOf(f)
  BY AdmissionParts, AdmissionInts DEF PrintInv, PrintOf
<1>1. CASE UNCHANGED <<print, quiet, openedAt>>
  <2>1. \A f \in Fingerprints : PrintOf(f)'
    BY <1>0, <1>1, PrintFrame DEF WorldMoves
  <2> QED
    BY <2>1 DEF PrintInv, PrintOf
<1>2. CASE RecordPatternStrike(q) \/ ApplySurcharge(q)
  <2> DEFINE g == req[q].print
             t == now + SurchargeDuration
  <2>1. now' = now /\ quiet' = quiet /\ openedAt' = openedAt
    BY <1>2 DEF RecordPatternStrike, ApplySurcharge
  <2>2. \A f \in Fingerprints :
          /\ print'[f].at = print[f].at /\ print'[f].cell = print[f].cell
          /\ print'[f].next = print[f].next /\ print'[f].triggered = print[f].triggered
          /\ print'[f].surcharge \in {print[f].surcharge, t}
    <3>1. CASE RecordPatternStrike(q)
      <4>1. print' = [print EXCEPT ![g].strikes = Min({@ + 1, StrikeThreshold})]
        BY <3>1 DEF RecordPatternStrike
      <4> QED
        BY <1>0, <4>1 DEF AdmissionTables, PrintState
    <3>2. CASE ApplySurcharge(q)
      <4>1. print' = [print EXCEPT ![g].surcharge = t]
        BY <3>2 DEF ApplySurcharge
      <4> QED
        BY <1>0, <4>1 DEF AdmissionTables, PrintState
    <3> QED
      BY <1>2, <3>1, <3>2
  <2>3. t \in Int
    BY <1>0, AdmissionNumbers
  <2>4. \A f \in Fingerprints : print'[f].surcharge <= t
    BY <1>0, <2>2, <2>3 DEF PrintOf
  <2>5. ASSUME NEW f \in Fingerprints PROVE PrintOf(f)'
    BY <1>0, <2>1, <2>2, <2>4 DEF PrintOf
  <2> QED
    BY <2>5 DEF PrintInv, PrintOf
<1>3. CASE RecordActivation(q) /\ ~UNCHANGED <<print, quiet, openedAt>>
  <2> DEFINE g == row[q].print
             c0 == row[q].cell
  <2>1. PICK jitter \in 0 .. Layer2JitterMax - 1 :
          print' = [print EXCEPT ![g].at = now, ![g].cell = c0,
                                 ![g].next = now + Layer2Base + jitter]
    BY <1>3 DEF RecordActivation
  <2>2. /\ Bar(g, Layer2Base) /\ now' = now
        /\ openedAt' = [openedAt EXCEPT ![g][c0] = now]
    BY <1>3 DEF RecordActivation
  <2>3. Layer2Base \in Nat /\ c0 \in Cells
    BY <1>0, AdmissionNumbers DEF AdmissionTables, PositionRow
  <2> HIDE DEF g, c0
  <2>4. \A f \in Fingerprints \ {g} :
          print'[f] = print[f] /\ quiet'[f] = quiet[f] /\ openedAt'[f] = openedAt[f]
    BY <1>0, <2>1, <2>2, <2>3, BarRaises DEF AdmissionTables
  <2>5. \A f \in Fingerprints \ {g} : PrintOf(f)'
    BY <1>0, <2>2, <2>4, PrintFrame
  <2>6. ASSUME NEW f \in Fingerprints, f = g PROVE PrintOf(f)'
    <3> DEFINE n == now + Layer2Base + jitter
    <3>1. n \in Int /\ n >= now + Layer2Base /\ now >= 0 /\ now \in Int
      BY <1>0, AdmissionNumbers
    <3>2. /\ print' = [print EXCEPT ![f].at = now, ![f].cell = c0, ![f].next = n]
          /\ Bar(f, Layer2Base) /\ openedAt' = [openedAt EXCEPT ![f][c0] = now]
      BY <2>1, <2>2, <2>6
    <3> HIDE DEF n
    <3>3. /\ print'[f].at = now /\ print'[f].cell = c0 /\ print'[f].next = n
          /\ print'[f].triggered = print[f].triggered
          /\ print'[f].surcharge = print[f].surcharge
      BY <1>0, <3>2 DEF AdmissionTables, PrintState
    <3>4. PrintOf(f)
      BY <1>0
    <3>5. ASSUME quiet'[f] > now
          PROVE  \/ quiet'[f] <= now + Layer2Base
                 \/ /\ print'[f].triggered # Never
                    /\ quiet'[f] <= print'[f].triggered + Layer3Cooldown
      <4>1. quiet'[f] \in {quiet[f], now + Layer2Base}
        BY <1>0, <2>3, <3>2, BarRaises
      <4>2. CASE quiet'[f] = now + Layer2Base
        BY <2>3, <3>1, <4>2
      <4>3. CASE quiet'[f] = quiet[f]
        <5>1. CASE print[f].at # Never /\ quiet[f] <= print[f].at + Layer2Base
          <6>1. print[f].at <= now /\ print[f].at \in Int /\ quiet[f] \in Int
            BY <3>4, <5>1, AdmissionInts DEF PrintOf
          <6> QED
            BY <2>3, <3>1, <4>3, <5>1, <6>1
        <5>2. CASE /\ print[f].triggered # Never
                   /\ quiet[f] <= print[f].triggered + Layer3Cooldown
          BY <3>3, <4>3, <5>2
        <5> QED
          BY <3>4, <3>5, <4>3, <5>1, <5>2 DEF PrintOf
      <4> QED
        BY <4>1, <4>2, <4>3
    <3>6. now # Never
      BY <3>1 DEF Never
    <3>7. /\ print'[f].triggered <= now' /\ print'[f].surcharge <= now' + SurchargeDuration
          /\ print'[f].at <= now' /\ now' = now
      BY <2>2, <3>1, <3>3, <3>4 DEF PrintOf
    <3>8. /\ openedAt'[f][c0] = now
          /\ \A c \in Cells : openedAt'[f][c] \in {openedAt[f][c], now}
      BY <1>0, <2>3, <3>2 DEF AdmissionTables
    <3>9. \A c \in Cells : openedAt'[f][c] <= now
      <4>1. \A c \in Cells : openedAt[f][c] <= now
        BY RecordedBefore
      <4> QED
        BY <3>1, <3>8, <4>1
    <3> QED
      BY <2>3, <3>1, <3>3, <3>5, <3>6, <3>7, <3>8, <3>9 DEF PrintOf
  <2> QED
    BY <2>5, <2>6 DEF PrintInv, PrintOf
<1>4. ASSUME ~(RecordPatternStrike(q) \/ ApplySurcharge(q) \/ RecordActivation(q))
      PROVE  UNCHANGED <<print, quiet, openedAt>>
  BY <1>4
  DEF RequestStep, Arrive, CountToday, FindExisting, CheckAntiBot, ReadMetrics, Guards,
      InsertPosition, Hedge, Local, dbVars
<1> QED
  BY <1>1, <1>2, <1>3, <1>4

LEMMA NextPrints ==
  /\ TypeOK /\ RowsInv /\ PrintInv /\ StopInv
  /\ [Next]_vars
  => PrintInv'
<1> SUFFICES ASSUME TypeOK, RowsInv, PrintInv, StopInv, [Next]_vars
             PROVE  PrintInv'
  OBVIOUS
<1>0. AdmissionTables /\ now \in Nat /\ \A f \in Fingerprints : PrintOf(f)
  BY AdmissionParts, AdmissionInts DEF PrintInv, PrintOf
<1>1. ASSUME NEW q \in Requests, RequestStep(q) PROVE PrintInv'
  BY <1>1, EachMoves, NextPrintsOf
<1>2. ASSUME TypeOK', now <= now', UNCHANGED <<print, quiet, openedAt>> PROVE PrintInv'
  <2>1. \A f \in Fingerprints : PrintOf(f)'
    BY <1>0, <1>2, PrintFrame
  <2> QED
    BY <2>1 DEF PrintInv, PrintOf
<1>3. ASSUME NEW q \in Requests, PositionStep(q) PROVE PrintInv'
  <2>1. TypeOK' /\ now <= now'
    BY <1>3, EachMoves DEF WorldMoves
  <2>2. CASE FireTrigger(q) \/ FinalizeSalvage(q) \/ ClosePosition(q)
    <3>1. UNCHANGED <<print, quiet, openedAt>>
      BY <2>2 DEF FireTrigger, FinalizeSalvage, ClosePosition
    <3> QED
      BY <1>2, <2>1, <3>1
  <2>3. CASE TagFingerprint(q)
    <3> DEFINE g == row[q].print
    <3>1. /\ print' = [print EXCEPT ![g].triggered = now] /\ Bar(g, Layer3Cooldown)
          /\ now' = now /\ openedAt' = openedAt
      BY <2>3 DEF TagFingerprint
    <3>2. Layer3Cooldown \in Nat
      BY AdmissionNumbers
    <3>3. \A f \in Fingerprints \ {g} :
            print'[f] = print[f] /\ quiet'[f] = quiet[f] /\ openedAt'[f] = openedAt[f]
      BY <1>0, <3>1, <3>2, BarRaises DEF AdmissionTables
    <3>4. \A f \in Fingerprints \ {g} : PrintOf(f)'
      BY <1>0, <2>1, <3>3, PrintFrame
    <3>5. ASSUME NEW f \in Fingerprints, f = g PROVE PrintOf(f)'
      <4>1. /\ print' = [print EXCEPT ![f].triggered = now] /\ Bar(f, Layer3Cooldown)
            /\ now' = now /\ openedAt' = openedAt
        BY <3>1, <3>5
      <4> HIDE DEF g
      <4>2. /\ print'[f].at = print[f].at /\ print'[f].cell = print[f].cell
            /\ print'[f].next = print[f].next /\ print'[f].surcharge = print[f].surcharge
            /\ print'[f].triggered = now
        BY <1>0, <4>1 DEF AdmissionTables, PrintState
      <4>3. PrintOf(f)
        BY <1>0
      <4>4. now # Never /\ now <= now'
        BY <1>0, <4>1 DEF Never
      <4>5. ASSUME quiet'[f] > now
            PROVE  \/ print[f].at # Never /\ quiet'[f] <= print[f].at + Layer2Base
                   \/ quiet'[f] <= now + Layer3Cooldown
        <5>1. quiet'[f] \in {quiet[f], now + Layer3Cooldown}
          BY <1>0, <3>2, <4>1, BarRaises
        <5>2. CASE quiet'[f] = now + Layer3Cooldown
          BY <1>0, <3>2, <5>2
        <5>3. CASE quiet'[f] = quiet[f]
          <6>1. CASE print[f].at # Never /\ quiet[f] <= print[f].at + Layer2Base
            BY <5>3, <6>1
          <6>2. CASE quiet[f] <= print[f].triggered + Layer3Cooldown
            <7>1. /\ print[f].triggered <= now /\ print[f].triggered \in Int
                  /\ quiet[f] \in Int
              BY <4>3, AdmissionInts DEF PrintOf
            <7> QED
              BY <1>0, <3>2, <5>3, <6>2, <7>1
          <6> QED
            BY <4>3, <4>5, <5>3, <6>1, <6>2 DEF PrintOf
        <5> QED
          BY <5>1, <5>2, <5>3
      <4> QED
        BY <4>1, <4>2, <4>3, <4>4, <4>5 DEF PrintOf
    <3> QED
      BY <3>4, <3>5 DEF PrintInv, PrintOf
  <2> QED
    BY <1>3, <2>2, <2>3 DEF PositionStep
<1>4. ASSUME ToggleCell \/ Halt \/ ClearHalt \/ Tick PROVE PrintInv'
  <2>1. TypeOK' /\ now <= now'
    BY <1>4, EachMoves DEF WorldMoves
  <2>2. UNCHANGED <<print, quiet, openedAt>>
    BY <1>4 DEF ToggleCell, Halt, ClearHalt, Tick, dbVars
  <2> QED
    BY <1>2, <2>1, <2>2
<1>5. ASSUME Restart PROVE PrintInv'
  <2>1. TypeOK' /\ now' = now /\ UNCHANGED <<print, quiet, openedAt>>
    BY <1>5, RestartEmpties DEF dbVars
  <2> QED
    BY <1>0, <1>2, <2>1
<1>6. CASE UNCHANGED vars
  BY <1>6 DEF vars, dbVars, PrintInv
<1> QED
  BY <1>1, <1>3, <1>4, <1>5, <1>6 DEF Next

\* What BotInv says of one request.
BotOf(q) ==
  Identified(req[q].kind, req[q].print) =>
    /\ \/ req[q].quiet <= now
       \/ req[q].quiet <= quiet[req[q].print]
    /\ \/ req[q].surchargeUntil <= now
       \/ req[q].surchargeUntil <= print[req[q].print].surcharge
    /\ req[q].pc \in Decided =>
         /\ now >= req[q].quiet
         /\ now < req[q].surchargeUntil => req[q].surcharge

\* The fingerprint of such a request has a row.
LEMMA HasPrint ==
  ASSUME TypeOK, NEW q \in Requests, Identified(req[q].kind, req[q].print)
  PROVE  req[q].print \in Fingerprints /\ req[q].cell \in Cells
<1>1. req[q].print # NoPrint /\ req[q] \in RequestState
  BY AdmissionInts DEF Identified
<1> QED
  BY <1>1 DEF RequestState, Prints

\* A request that keeps what it arrived with, and has passed the layers only if
\* it had.
LEMMA BotFrame ==
  ASSUME TypeOK, TypeOK', WorldMoves, NEW q \in Requests, BotOf(q),
         req'[q].kind = req[q].kind, req'[q].quiet = req[q].quiet,
         req'[q].surchargeUntil = req[q].surchargeUntil,
         req'[q].print = req[q].print,
         req'[q].pc \in Decided => req[q].pc \in Decided /\ req'[q].surcharge = req[q].surcharge
  PROVE  BotOf(q)'
<1> SUFFICES ASSUME Identified(req[q].kind, req[q].print) PROVE BotOf(q)'
  BY DEF BotOf
<1> DEFINE f == req[q].print
           w == req[q].quiet
           u == req[q].surchargeUntil
<1>1. f \in Fingerprints
  BY HasPrint
<1>2. /\ now \in Int /\ now' \in Int /\ now <= now' /\ w \in Int /\ u \in Int
      /\ quiet[f] \in Int /\ quiet'[f] \in Int /\ quiet[f] <= quiet'[f]
      /\ print[f].surcharge \in Int /\ print'[f].surcharge \in Int
      /\ print[f].surcharge <= print'[f].surcharge
  <2>1. /\ now \in Int /\ w \in Int /\ u \in Int
        /\ quiet[f] \in Int /\ print[f].surcharge \in Int
    BY <1>1, AdmissionInts
  <2>2. now' \in Int /\ quiet'[f] \in Int /\ print'[f].surcharge \in Int
    BY <1>1, AdmissionIntsNext
  <2>3. /\ now <= now' /\ quiet[f] <= quiet'[f]
        /\ print[f].surcharge <= print'[f].surcharge
    BY <1>1 DEF WorldMoves
  <2> QED
    BY <2>1, <2>2, <2>3
<1>3. /\ w <= now \/ w <= quiet[f]
      /\ u <= now \/ u <= print[f].surcharge
      /\ req[q].pc \in Decided => now >= w /\ (now < u => req[q].surcharge)
  BY DEF BotOf
<1>4. req'[q].quiet = w /\ req'[q].surchargeUntil = u /\ req'[q].print = f
  OBVIOUS
<1> HIDE DEF f, w, u
<1>5. w <= now' \/ w <= quiet'[f]
  BY <1>2, <1>3
<1>6. u <= now' \/ u <= print'[f].surcharge
  BY <1>2, <1>3
<1>7. req'[q].pc \in Decided => now' >= w /\ (now' < u => req'[q].surcharge)
  BY <1>2, <1>3
<1> QED
  BY <1>4, <1>5, <1>6, <1>7 DEF BotOf

\* Layers 2 and 3 let a request pass only when nothing on record bars it.
LEMMA LayersHold ==
  ASSUME TypeOK, PrintInv, NEW q \in Requests,
         Identified(req[q].kind, req[q].print), BotOf(q),
         ~Layer2Blocks(req[q].print), ~Layer3Blocks(req[q].print)
  PROVE  now >= req[q].quiet
<1> DEFINE f == req[q].print
<1>1. f \in Fingerprints
  BY HasPrint
<1>2. /\ now \in Nat /\ print[f].at \in Int /\ print[f].next \in Int /\ print[f].triggered \in Int
      /\ quiet[f] \in Int /\ req[q].quiet \in Int
      /\ Layer2Base \in Nat /\ Layer3Cooldown \in Int
  BY <1>1, AdmissionInts, AdmissionNumbers
<1>3. PrintOf(f)
  BY <1>1 DEF PrintInv, PrintOf
<1>4. print[f].at # Never => print[f].next # Never
  <2>1. print[f].at # Never => print[f].at >= 0
    BY <1>1 DEF TypeOK, Time
  <2> QED
    BY <1>2, <1>3, <2>1 DEF PrintOf, Never
<1>5. print[f].at # Never => now >= print[f].at + Layer2Base
  <2>1. print[f].at # Never => now >= print[f].next /\ print[f].next >= print[f].at + Layer2Base
    BY <1>2, <1>3, <1>4 DEF Layer2Blocks, PrintOf
  <2> QED
    BY <1>2, <2>1
<1>6. print[f].triggered # Never => now - print[f].triggered >= Layer3Cooldown
  BY <1>2 DEF Layer3Blocks
<1>7. ~(quiet[f] > now)
  <2> SUFFICES ASSUME quiet[f] > now PROVE FALSE
    OBVIOUS
  <2>1. \/ print[f].at # Never /\ quiet[f] <= print[f].at + Layer2Base
        \/ print[f].triggered # Never /\ quiet[f] <= print[f].triggered + Layer3Cooldown
    BY <1>1, <1>3 DEF PrintOf
  <2> HIDE DEF f
  <2> QED
    BY <1>2, <1>5, <1>6, <2>1
<1>8. req[q].quiet <= now \/ req[q].quiet <= quiet[f]
  BY DEF BotOf
<1> HIDE DEF f
<1> QED
  BY <1>2, <1>7, <1>8

LEMMA NextBotOf ==
  ASSUME TypeOK, TypeOK', RowsInv, PrintInv, BotInv, WorldMoves,
         NEW q \in Requests, RequestStep(q)
  PROVE  BotInv'
<1>0. ReqTyped /\ ReqGoes(q) /\ \A r \in Requests : BotOf(r)
  BY AdmissionParts, RequestLands DEF ReqTyped, RequestStep, Carries, Emptied, BotInv, BotOf
<1>1. ASSUME BotOf(q)' PROVE BotInv'
  <2>1. \A r \in Requests \ {q} : BotOf(r)'
    BY <1>0, BotFrame DEF ReqGoes
  <2> QED
    BY <1>1, <2>1 DEF BotInv, BotOf
<1>2. ASSUME NEW pc \in Pc, Emptied(q, pc) PROVE BotOf(q)'
  <2>1. req'[q].kind = "test"
    BY <1>0, <1>2, EmptiedTyped
  <2> QED
    BY <2>1 DEF BotOf, Identified
<1>3. ASSUME NEW pc \in Pc, Carries(q, pc),
             \/ pc \notin Decided
             \/ req[q].pc \in Decided /\ req'[q].surcharge = req[q].surcharge
      PROVE  BotOf(q)'
  BY <1>0, <1>3, BotFrame DEF Carries
<1>4. /\ "idle" \in Pc /\ "existing" \in Pc /\ "antibot" \in Pc /\ "metrics" \in Pc
      /\ "strike" \in Pc /\ "surcharge" \in Pc /\ "guards" \in Pc /\ "insert" \in Pc
      /\ "hedge" \in Pc /\ "record" \in Pc /\ "end" \in Pc
      /\ \A pc \in {"existing", "antibot", "strike", "surcharge", "end"} : pc \notin Decided
  BY DEF Pc, Decided
<1>5. CASE Arrive(q)
  <2>1. PICK kind \in Kinds, c \in Cells, p \in Pairs, f \in Prints :
          /\ kind = "test" => f = NoPrint
          /\ kind # "test" => cell[c].enabled
          /\ req' = [req EXCEPT ![q] =
            [Idle EXCEPT !.pc = IF kind = "test" THEN "existing" ELSE "today",
               !.kind = kind, !.cell = c, !.pair = p, !.print = f, !.cap = cell[c].cap,
               !.seenRows = Len(rows),
               !.quiet = IF Identified(kind, f) THEN Ahead(quiet[f]) ELSE 0,
               !.opened = IF Identified(kind, f) THEN openedAt[f][c] ELSE Never,
               !.surchargeUntil = IF Identified(kind, f) THEN Ahead(print[f].surcharge) ELSE 0,
               !.pause = Ahead(surgeUntil)]]
    BY <1>5 DEF Arrive
  <2>2. UNCHANGED <<now, print, quiet, openedAt>>
    BY <1>5 DEF Arrive, dbVars
  <2> SUFFICES ASSUME Identified(kind, f) PROVE BotOf(q)'
    <3>1. req'[q].kind = kind /\ req'[q].print = f
      BY <1>0, <2>1 DEF ReqTyped, Idle
    <3> QED
      BY <1>1, <3>1 DEF BotOf
  <2> DEFINE w == Ahead(quiet[f])
             u == Ahead(print[f].surcharge)
  <2>3. /\ req'[q].pc = "today" /\ req'[q].print = f
        /\ req'[q].quiet = w /\ req'[q].surchargeUntil = u
    BY <1>0, <2>1 DEF ReqTyped, Idle, Identified
  <2>4. f \in Fingerprints
    BY DEF Identified, Prints
  <2>5. now \in Nat /\ quiet[f] \in Int /\ print[f].surcharge \in Int
    BY <2>4, AdmissionInts
  <2>6. w <= now \/ w <= quiet[f]
    BY <2>5 DEF Ahead
  <2>7. u <= now \/ u <= print[f].surcharge
    BY <2>5 DEF Ahead
  <2> HIDE DEF w, u
  <2>8. req'[q].pc \notin Decided
    BY <2>3 DEF Decided
  <2> QED
    BY <2>2, <2>3, <2>6, <2>7, <2>8 DEF BotOf
<1>6. CASE CountToday(q) \/ RecordPatternStrike(q) \/ ApplySurcharge(q) \/ RecordActivation(q)
           \/ Hedge(q)
  <2>1. \/ \E pc \in {"idle", "record", "end"} : Emptied(q, pc)
        \/ \E pc \in {"existing", "surcharge", "end"} : Carries(q, pc)
    BY <1>6, RequestLands
  <2> QED
    BY <1>1, <1>2, <1>3, <1>4, <2>1
<1>7. CASE FindExisting(q)
  <2>1. CASE Carries(q, "metrics") /\ ~Identified(req[q].kind, req[q].print)
    BY <1>1, <2>1 DEF BotOf, Carries
  <2>2. CASE Emptied(q, "idle") \/ Carries(q, "antibot")
    BY <1>1, <1>2, <1>3, <1>4, <2>2
  <2> QED
    BY <1>7, <2>1, <2>2, RequestLands
<1>8. CASE CheckAntiBot(q)
  <2>1. CASE Emptied(q, "idle") \/ Carries(q, "strike")
    BY <1>1, <1>2, <1>3, <1>4, <2>1
  <2>2. CASE /\ Carries(q, "metrics")
             /\ ~Layer1Blocks(req[q].print, req[q].cell)
             /\ ~Layer2Blocks(req[q].print) /\ ~Layer3Blocks(req[q].print)
             /\ req'[q].surcharge = Surcharged(req[q].print)
    <3> SUFFICES ASSUME Identified(req[q].kind, req[q].print) PROVE BotOf(q)'
      BY <1>1, <2>2 DEF BotOf, Carries
    <3> DEFINE f == req[q].print
               w == req[q].quiet
               u == req[q].surchargeUntil
    <3>1. UNCHANGED <<now, print, quiet, openedAt>> /\ f \in Fingerprints
      BY <1>8, HasPrint DEF CheckAntiBot, Local, dbVars
    <3>2. now >= w
      BY <1>0, <2>2, LayersHold
    <3>3. now < u => Surcharged(f)
      <4>1. now \in Nat /\ u \in Nat /\ print[f].surcharge \in Int
        BY <3>1, AdmissionInts
      <4>2. u <= now \/ u <= print[f].surcharge
        BY <1>0 DEF BotOf
      <4> HIDE DEF u, f
      <4> QED
        BY <4>1, <4>2 DEF Surcharged, Never
    <3>4. /\ req'[q].quiet = w /\ req'[q].surchargeUntil = u /\ req'[q].print = f
          /\ req'[q].surcharge = Surcharged(f)
      BY <2>2 DEF Carries
    <3>5. /\ w <= now \/ w <= quiet[f]
          /\ u <= now \/ u <= print[f].surcharge
      BY <1>0 DEF BotOf
    <3> HIDE DEF w, u, f
    <3> QED
      BY <3>1, <3>2, <3>3, <3>4, <3>5 DEF BotOf
  <2> QED
    BY <1>8, <2>1, <2>2, RequestLands
<1>9. CASE ReadMetrics(q) \/ Guards(q) \/ InsertPosition(q)
  <2>1. req[q].pc \in Decided
    BY <1>9 DEF ReadMetrics, Guards, InsertPosition, At, Decided
  <2>2. \/ Emptied(q, "idle")
        \/ \E pc \in {"guards", "insert", "hedge"} :
             Carries(q, pc) /\ req'[q].surcharge = req[q].surcharge
    <3>1. CASE ReadMetrics(q)
      BY <3>1, RequestLands
    <3>2. ASSUME NEW pc \in Pc, req' = [req EXCEPT ![q].pc = pc]
          PROVE  req'[q].surcharge = req[q].surcharge
      BY <1>0, <3>2 DEF ReqTyped, RequestState
    <3>3. CASE Guards(q) \/ InsertPosition(q)
      BY <1>4, <3>2, <3>3, RequestLands
    <3> QED
      BY <1>9, <3>1, <3>3
  <2> QED
    BY <1>1, <1>2, <1>3, <1>4, <2>1, <2>2
<1> QED
  BY <1>5, <1>6, <1>7, <1>8, <1>9 DEF RequestStep

LEMMA NextBots ==
  /\ TypeOK /\ RowsInv /\ PrintInv /\ BotInv /\ StopInv
  /\ [Next]_vars
  => BotInv'
<1> SUFFICES ASSUME TypeOK, RowsInv, PrintInv, BotInv, StopInv,
                    [Next]_vars
             PROVE  BotInv'
  OBVIOUS
<1>1. ASSUME NEW q \in Requests, RequestStep(q) PROVE BotInv'
  BY <1>1, EachMoves, NextBotOf
<1>2. ASSUME \/ \E q \in Requests : PositionStep(q)
             \/ ToggleCell \/ Halt \/ ClearHalt \/ Tick
      PROVE BotInv'
  <2>1. TypeOK' /\ WorldMoves /\ UNCHANGED req
    BY <1>2, EachMoves
  <2>2. ASSUME NEW r \in Requests PROVE BotOf(r)'
    <3>1. BotOf(r)
      BY DEF BotInv, BotOf
    <3> QED
      BY <2>1, <3>1, BotFrame
  <2> QED
    BY <2>2 DEF BotInv, BotOf
<1>3. ASSUME Restart PROVE BotInv'
  <2>1. \A r \in Requests : req'[r].kind = "test"
    BY <1>3, RestartEmpties
  <2> QED
    BY <2>1 DEF BotInv, Identified
<1>4. CASE UNCHANGED vars
  BY <1>4 DEF vars, dbVars, BotInv
<1> QED
  BY <1>1, <1>2, <1>3, <1>4 DEF Next

-----------------------------------------------------------------------------
(* The repeat window.                                                      *)

\* What RepeatInv says of one request.
RepeatOf(q) ==
  Identified(req[q].kind, req[q].print) /\ req[q].opened # Never =>
    /\ openedAt[req[q].print][req[q].cell] >= req[q].opened
    /\ req[q].pc \in Decided =>
         \/ now >= req[q].opened + Layer1Window
         \/ OpenedAnother(req[q].print, req[q].cell, req[q].opened)

\* A request that keeps what it arrived with, and has passed the layers only if
\* it had.
LEMMA RepeatFrame ==
  ASSUME TypeOK, TypeOK', WorldMoves, NEW q \in Requests, RepeatOf(q),
         req'[q].kind = req[q].kind, req'[q].opened = req[q].opened,
         req'[q].print = req[q].print, req'[q].cell = req[q].cell,
         req'[q].pc \in Decided => req[q].pc \in Decided
  PROVE  RepeatOf(q)'
<1> SUFFICES ASSUME Identified(req[q].kind, req[q].print), req[q].opened # Never
             PROVE  RepeatOf(q)'
  BY DEF RepeatOf
<1> DEFINE f == req[q].print
           c == req[q].cell
           t == req[q].opened
<1>1. f \in Fingerprints /\ c \in Cells
  BY HasPrint
<1>2. now \in Int /\ now' \in Int /\ now <= now' /\ t \in Int /\ Layer1Window \in Int
  BY AdmissionInts, AdmissionIntsNext, AdmissionNumbers DEF WorldMoves
<1>3. \A d \in Cells : /\ openedAt[f][d] \in Int /\ openedAt'[f][d] \in Int
                       /\ openedAt[f][d] <= openedAt'[f][d]
  BY <1>1, AdmissionInts, AdmissionIntsNext DEF WorldMoves
<1>4. /\ openedAt[f][c] >= t
      /\ req[q].pc \in Decided => now >= t + Layer1Window \/ OpenedAnother(f, c, t)
  BY DEF RepeatOf
<1>5. req'[q].opened = t /\ req'[q].print = f /\ req'[q].cell = c
  OBVIOUS
<1> HIDE DEF f, c, t
<1>6. openedAt'[f][c] >= t
  BY <1>1, <1>2, <1>3, <1>4
<1>7. OpenedAnother(f, c, t) => \E d \in Cells \ {c} : openedAt'[f][d] >= t
  BY <1>2, <1>3 DEF OpenedAnother
<1>8. now >= t + Layer1Window => now' >= t + Layer1Window
  BY <1>2
<1>9. req'[q].pc \in Decided =>
        now' >= t + Layer1Window \/ \E d \in Cells \ {c} : openedAt'[f][d] >= t
  BY <1>4, <1>7, <1>8
<1> QED
  BY <1>5, <1>6, <1>9 DEF RepeatOf, OpenedAnother

\* Layer 1 lets a request pass when the window is over, or when the row of its
\* fingerprint has come to remember another cell.
LEMMA WindowHolds ==
  ASSUME TypeOK, PrintInv, NEW q \in Requests,
         Identified(req[q].kind, req[q].print), req[q].opened # Never, RepeatOf(q),
         ~Layer1Blocks(req[q].print, req[q].cell)
  PROVE  \/ now >= req[q].opened + Layer1Window
         \/ OpenedAnother(req[q].print, req[q].cell, req[q].opened)
<1> DEFINE f == req[q].print
           c == req[q].cell
           t == req[q].opened
<1>1. f \in Fingerprints /\ c \in Cells
  BY HasPrint
<1>2. /\ now \in Int /\ print[f].at \in Int /\ Layer1Window \in Int
      /\ \A d \in Cells : openedAt[f][d] \in Int
  BY <1>1, AdmissionInts, AdmissionNumbers
<1>3. t \in Nat
  <2>1. t \in Time
    BY AdmissionInts DEF RequestState
  <2> QED
    BY <2>1 DEF Time
<1>4. openedAt[f][c] >= t /\ openedAt[f][c] <= print[f].at
  BY <1>1 DEF RepeatOf, PrintInv
<1>5. ~(print[f].at # Never /\ print[f].cell = c /\ now - print[f].at < Layer1Window)
  BY DEF Layer1Blocks
<1> HIDE DEF f, c, t
<1>6. print[f].at >= t /\ print[f].at # Never
  BY <1>1, <1>2, <1>3, <1>4 DEF Never
<1>7. print[f].cell \in Cells /\ openedAt[f][print[f].cell] = print[f].at
  BY <1>1, <1>6 DEF PrintInv
<1>8. CASE print[f].cell = c
  BY <1>2, <1>3, <1>5, <1>6, <1>8 DEF f, c, t
<1>9. CASE print[f].cell # c
  <2>1. OpenedAnother(f, c, t)
    BY <1>6, <1>7, <1>9 DEF OpenedAnother
  <2> QED
    BY <2>1 DEF f, c, t
<1> QED
  BY <1>8, <1>9

LEMMA NextRepeatOf ==
  ASSUME TypeOK, TypeOK', PrintInv, RepeatInv, WorldMoves,
         NEW q \in Requests, RequestStep(q)
  PROVE  RepeatInv'
<1>0. ReqTyped /\ ReqGoes(q) /\ \A r \in Requests : RepeatOf(r)
  BY AdmissionParts, RequestLands DEF ReqTyped, RequestStep, Carries, Emptied, RepeatInv, RepeatOf
<1>1. ASSUME RepeatOf(q)' PROVE RepeatInv'
  <2>1. \A r \in Requests \ {q} : RepeatOf(r)'
    BY <1>0, RepeatFrame DEF ReqGoes
  <2> QED
    BY <1>1, <2>1 DEF RepeatInv, RepeatOf
<1>2. ASSUME NEW pc \in Pc, Emptied(q, pc) PROVE RepeatOf(q)'
  <2>1. req'[q].kind = "test"
    BY <1>0, <1>2, EmptiedTyped
  <2> QED
    BY <2>1 DEF RepeatOf, Identified
<1>3. ASSUME NEW pc \in Pc, Carries(q, pc), pc \notin Decided \/ req[q].pc \in Decided
      PROVE  RepeatOf(q)'
  BY <1>0, <1>3, RepeatFrame DEF Carries
<1>4. /\ "idle" \in Pc /\ "existing" \in Pc /\ "antibot" \in Pc /\ "metrics" \in Pc
      /\ "strike" \in Pc /\ "surcharge" \in Pc /\ "guards" \in Pc /\ "insert" \in Pc
      /\ "hedge" \in Pc /\ "record" \in Pc /\ "end" \in Pc
      /\ \A pc \in {"existing", "antibot", "strike", "surcharge", "end"} : pc \notin Decided
  BY DEF Pc, Decided
<1>5. CASE Arrive(q)
  <2>1. PICK kind \in Kinds, c \in Cells, p \in Pairs, f \in Prints :
          /\ kind = "test" => f = NoPrint
          /\ kind # "test" => cell[c].enabled
          /\ req' = [req EXCEPT ![q] =
            [Idle EXCEPT !.pc = IF kind = "test" THEN "existing" ELSE "today",
               !.kind = kind, !.cell = c, !.pair = p, !.print = f, !.cap = cell[c].cap,
               !.seenRows = Len(rows),
               !.quiet = IF Identified(kind, f) THEN Ahead(quiet[f]) ELSE 0,
               !.opened = IF Identified(kind, f) THEN openedAt[f][c] ELSE Never,
               !.surchargeUntil = IF Identified(kind, f) THEN Ahead(print[f].surcharge) ELSE 0,
               !.pause = Ahead(surgeUntil)]]
    BY <1>5 DEF Arrive
  <2>2. UNCHANGED openedAt
    BY <1>5 DEF Arrive
  <2>3. /\ req'[q].kind = kind /\ req'[q].print = f /\ req'[q].cell = c
        /\ req'[q].pc \in {"existing", "today"}
        /\ Identified(kind, f) => req'[q].opened = openedAt[f][c]
    BY <1>0, <2>1 DEF ReqTyped, Idle
  <2>4. Identified(kind, f) => f \in Fingerprints /\ openedAt[f][c] \in Int
    BY AdmissionInts DEF Identified, Prints
  <2>5. req'[q].pc \notin Decided
    BY <2>3 DEF Decided
  <2>6. RepeatOf(q)'
    BY <2>2, <2>3, <2>4, <2>5 DEF RepeatOf
  <2> QED
    BY <1>1, <2>6
<1>6. CASE CountToday(q) \/ RecordPatternStrike(q) \/ ApplySurcharge(q) \/ RecordActivation(q)
           \/ Hedge(q)
  <2>1. \/ \E pc \in {"idle", "record", "end"} : Emptied(q, pc)
        \/ \E pc \in {"existing", "surcharge", "end"} : Carries(q, pc)
    BY <1>6, RequestLands
  <2> QED
    BY <1>1, <1>2, <1>3, <1>4, <2>1
<1>7. CASE FindExisting(q)
  <2>1. CASE Carries(q, "metrics") /\ ~Identified(req[q].kind, req[q].print)
    BY <1>1, <2>1 DEF RepeatOf, Carries
  <2>2. CASE Emptied(q, "idle") \/ Carries(q, "antibot")
    BY <1>1, <1>2, <1>3, <1>4, <2>2
  <2> QED
    BY <1>7, <2>1, <2>2, RequestLands
<1>8. CASE CheckAntiBot(q)
  <2>1. CASE Emptied(q, "idle") \/ Carries(q, "strike")
    BY <1>1, <1>2, <1>3, <1>4, <2>1
  <2>2. CASE Carries(q, "metrics") /\ ~Layer1Blocks(req[q].print, req[q].cell)
    <3>1. UNCHANGED <<now, openedAt>>
      BY <1>8 DEF CheckAntiBot, Local
    <3>2. /\ req'[q].kind = req[q].kind /\ req'[q].print = req[q].print
          /\ req'[q].cell = req[q].cell /\ req'[q].opened = req[q].opened
      BY <2>2 DEF Carries
    <3>3. RepeatOf(q)
      BY <1>0
    <3>4. Identified(req[q].kind, req[q].print) /\ req[q].opened # Never =>
            \/ now >= req[q].opened + Layer1Window
            \/ OpenedAnother(req[q].print, req[q].cell, req[q].opened)
      BY <2>2, <3>3, WindowHolds
    <3>5. RepeatOf(q)'
      BY <3>1, <3>2, <3>3, <3>4 DEF RepeatOf, OpenedAnother
    <3> QED
      BY <1>1, <3>5
  <2> QED
    BY <1>8, <2>1, <2>2, RequestLands
<1>9. CASE ReadMetrics(q) \/ Guards(q) \/ InsertPosition(q)
  <2>1. req[q].pc \in Decided
    BY <1>9 DEF ReadMetrics, Guards, InsertPosition, At, Decided
  <2>2. Emptied(q, "idle") \/ \E pc \in {"guards", "insert", "hedge"} : Carries(q, pc)
    BY <1>9, RequestLands
  <2> QED
    BY <1>1, <1>2, <1>3, <1>4, <2>1, <2>2
<1> QED
  BY <1>5, <1>6, <1>7, <1>8, <1>9 DEF RequestStep

LEMMA NextRepeats ==
  /\ TypeOK /\ RowsInv /\ PrintInv /\ RepeatInv /\ StopInv
  /\ [Next]_vars
  => RepeatInv'
<1> SUFFICES ASSUME TypeOK, RowsInv, PrintInv, RepeatInv, StopInv,
                    [Next]_vars
             PROVE  RepeatInv'
  OBVIOUS
<1>1. ASSUME NEW q \in Requests, RequestStep(q) PROVE RepeatInv'
  BY <1>1, EachMoves, NextRepeatOf
<1>2. ASSUME \/ \E q \in Requests : PositionStep(q)
             \/ ToggleCell \/ Halt \/ ClearHalt \/ Tick
      PROVE RepeatInv'
  <2>1. TypeOK' /\ WorldMoves /\ UNCHANGED req
    BY <1>2, EachMoves
  <2>2. ASSUME NEW r \in Requests PROVE RepeatOf(r)'
    <3>1. RepeatOf(r)
      BY DEF RepeatInv, RepeatOf
    <3> QED
      BY <2>1, <3>1, RepeatFrame
  <2> QED
    BY <2>2 DEF RepeatInv, RepeatOf
<1>3. ASSUME Restart PROVE RepeatInv'
  <2>1. \A r \in Requests : req'[r].kind = "test"
    BY <1>3, RestartEmpties
  <2> QED
    BY <2>1 DEF RepeatInv, Identified
<1>4. CASE UNCHANGED vars
  BY <1>4 DEF vars, dbVars, RepeatInv, OpenedAnother
<1> QED
  BY <1>1, <1>2, <1>3, <1>4 DEF Next

-----------------------------------------------------------------------------
(* The halt and the pause.                                                 *)

Inserts == {"insert", "hedge"}

\* What StopInv says of one request.
StopOf(q) ==
  /\ q \in underHalt => manualHalt /\ req[q].pc \notin {"insert", "hedge"}
  /\ IF req[q].pc \in {"insert", "hedge"} THEN now >= req[q].pause
     ELSE req[q].pause <= now \/ req[q].pause <= surgeUntil

LEMMA StopParts ==
  TypeOK =>
    (StopInv <=> surgeUntil <= now + SurgePause /\ \A r \in Requests : StopOf(r))
  BY AdmissionParts DEF AdmissionTables, StopInv, StopOf

LEMMA StopPartsNext ==
  ASSUME TypeOK', surgeUntil' <= now' + SurgePause, \A r \in Requests : StopOf(r)'
  PROVE  StopInv'
<1>1. underHalt' \subseteq Requests
  BY DEF TypeOK
<1> QED
  BY <1>1 DEF StopInv, StopOf

\* A request that is not further than it was, under no new halt.
LEMMA StopFrame ==
  ASSUME TypeOK, TypeOK', WorldMoves, NEW q \in Requests, StopOf(q),
         q \in underHalt' => q \in underHalt /\ manualHalt',
         req'[q].pause = req[q].pause,
         req'[q].pc \in Inserts => req[q].pc \in Inserts
  PROVE  StopOf(q)'
<1> DEFINE p == req[q].pause
<1>1. /\ now \in Int /\ now' \in Int /\ now <= now' /\ surgeUntil \in Int
      /\ surgeUntil' \in Int /\ surgeUntil <= surgeUntil' /\ p \in Int
  BY AdmissionInts, AdmissionIntsNext DEF WorldMoves
<1>2. IF req[q].pc \in Inserts THEN now >= p ELSE p <= now \/ p <= surgeUntil
  BY DEF StopOf, Inserts
<1>3. req'[q].pause = p
  OBVIOUS
<1> HIDE DEF p
<1>4. IF req'[q].pc \in Inserts THEN now' >= p ELSE p <= now' \/ p <= surgeUntil'
  BY <1>1, <1>2
<1>5. q \in underHalt' => manualHalt' /\ req'[q].pc \notin Inserts
  BY DEF StopOf, Inserts
<1> QED
  BY <1>3, <1>4, <1>5 DEF StopOf, Inserts

\* The pause is never further ahead than it is long.
LEMMA SurgeBounded ==
  ASSUME TypeOK, TypeOK', StopInv, now <= now',
         \/ surgeUntil' = surgeUntil \/ surgeUntil' = Never
         \/ surgeUntil' = now + SurgePause
  PROVE  surgeUntil' <= now' + SurgePause
<1> DEFINE n == now
           m == now'
           s == surgeUntil
           t == surgeUntil'
           p == SurgePause
<1>1. n \in Nat /\ m \in Nat /\ s \in Int /\ t \in Int /\ p \in Nat
  BY AdmissionInts, AdmissionIntsNext, AdmissionNumbers
<1>2. s <= n + p /\ n <= m
  BY DEF StopInv
<1>3. t = s \/ t = -1 \/ t = n + p
  BY DEF Never
<1> SUFFICES t <= m + p
  OBVIOUS
<1> HIDE DEF n, m, s, t, p
<1> QED
  BY <1>1, <1>2, <1>3

LEMMA NextStopOf ==
  ASSUME TypeOK, TypeOK', StopInv, WorldMoves, NEW q \in Requests,
         RequestStep(q)
  PROVE  StopInv'
<1>0. /\ ReqTyped /\ ReqGoes(q) /\ \A r \in Requests : StopOf(r)
      /\ surgeUntil' <= now' + SurgePause => ((\A r \in Requests : StopOf(r)') => StopInv')
  BY AdmissionParts, StopParts, StopPartsNext, RequestLands
  DEF ReqTyped, RequestStep, Carries, Emptied
<1>1. now \in Nat /\ surgeUntil \in Int /\ now <= now' /\ now' \in Nat
  BY AdmissionInts, AdmissionIntsNext DEF WorldMoves
<1>2. /\ (surgeUntil' = surgeUntil \/ surgeUntil' = now + SurgePause)
      /\ UNCHANGED manualHalt
      /\ ~Arrive(q) => UNCHANGED underHalt
      /\ underHalt' \subseteq underHalt \cup {q}
  <2>1. Arrive(q) => surgeUntil' = surgeUntil /\ UNCHANGED manualHalt
                     /\ underHalt' \subseteq underHalt \cup {q}
    BY DEF Arrive
  <2>2. Guards(q) => (surgeUntil' = surgeUntil \/ surgeUntil' = now + SurgePause)
                     /\ UNCHANGED <<manualHalt, underHalt>>
    BY DEF Guards
  <2>3. CountToday(q) \/ FindExisting(q) \/ CheckAntiBot(q) \/ RecordPatternStrike(q)
          \/ ApplySurcharge(q) \/ ReadMetrics(q) \/ InsertPosition(q) \/ Hedge(q)
          \/ RecordActivation(q)
        => surgeUntil' = surgeUntil /\ UNCHANGED <<manualHalt, underHalt>>
    BY DEF CountToday, FindExisting, CheckAntiBot, RecordPatternStrike, ApplySurcharge,
           ReadMetrics, InsertPosition, Hedge, RecordActivation, Local, memVars
  <2> QED
    BY <2>1, <2>2, <2>3 DEF RequestStep
<1>3. ASSUME StopOf(q)' PROVE StopInv'
  <2>1. \A r \in Requests \ {q} : StopOf(r)'
    <3> TAKE r \in Requests \ {q}
    <3>1. r \in underHalt' => r \in underHalt /\ manualHalt'
      BY <1>0, <1>2 DEF StopOf
    <3> QED
      BY <1>0, <3>1, StopFrame DEF ReqGoes
  <2> QED
    BY <1>0, <1>1, <1>2, <1>3, <2>1, SurgeBounded
<1>4. ASSUME NEW pc \in Pc \ Inserts, ~Arrive(q), Emptied(q, pc) PROVE StopOf(q)'
  <2>1. req'[q].pc = pc /\ req'[q].pause = 0
    BY <1>0, <1>4, EmptiedTyped
  <2> QED
    BY <1>0, <1>1, <1>2, <1>4, <2>1 DEF StopOf, Inserts
<1>5. ASSUME NEW pc \in Pc, ~Arrive(q), Carries(q, pc), pc \in Inserts => req[q].pc \in Inserts
      PROVE  StopOf(q)'
  <2>1. q \in underHalt' => q \in underHalt /\ manualHalt'
    BY <1>0, <1>2, <1>5 DEF StopOf
  <2> QED
    BY <1>0, <1>5, <2>1, StopFrame DEF Carries
<1>6. /\ "idle" \in Pc /\ "existing" \in Pc /\ "antibot" \in Pc /\ "metrics" \in Pc
      /\ "strike" \in Pc /\ "surcharge" \in Pc /\ "guards" \in Pc /\ "insert" \in Pc
      /\ "hedge" \in Pc /\ "record" \in Pc /\ "end" \in Pc
      /\ \A pc \in {"idle", "existing", "antibot", "strike", "surcharge", "metrics", "guards",
                    "record", "end"} : pc \notin Inserts
      /\ "insert" \in Inserts /\ "hedge" \in Inserts
  BY DEF Pc, Inserts
<1>7. CASE Arrive(q)
  <2>1. req'[q].pc \in {"existing", "today"} /\ req'[q].pause = Ahead(surgeUntil)
    BY <1>0, <1>7 DEF Arrive, ReqTyped, Idle
  <2>2. underHalt' = IF manualHalt THEN underHalt \cup {q} ELSE underHalt
    BY <1>7 DEF Arrive
  <2>3. surgeUntil' = surgeUntil /\ now' = now
    BY <1>7 DEF Arrive
  <2>4. Ahead(surgeUntil) <= now \/ Ahead(surgeUntil) <= surgeUntil
    BY <1>1 DEF Ahead
  <2>5. q \in underHalt' => manualHalt'
    BY <1>0, <1>2, <2>2 DEF StopOf
  <2>6. StopOf(q)'
    BY <2>1, <2>3, <2>4, <2>5 DEF StopOf
  <2> QED
    BY <1>3, <2>6
<1>8. CASE Guards(q)
  <2>0. ~Arrive(q)
    BY <1>8 DEF Guards, Arrive, At
  <2>1. CASE Emptied(q, "idle")
    BY <1>3, <1>4, <1>6, <2>0, <2>1
  <2>2. CASE /\ Carries(q, "insert") /\ ~manualHalt /\ UNCHANGED surgeUntil
             /\ ~(surgeUntil # Never /\ now < surgeUntil)
    <3>1. now >= surgeUntil
      BY <1>1, <2>2 DEF Never
    <3>2. req[q].pc = "guards"
      BY <1>8 DEF Guards, At
    <3>3. req[q].pause <= now \/ req[q].pause <= surgeUntil
      BY <1>0, <3>2 DEF StopOf
    <3>4. req[q].pause \in Nat
      BY AdmissionInts
    <3>5. req'[q].pc = "insert" /\ req'[q].pause = req[q].pause
      BY <2>2 DEF Carries
    <3>6. now' >= req'[q].pause
      <4> DEFINE p == req[q].pause
      <4>1. p <= now \/ p <= surgeUntil
        BY <3>3
      <4>2. p \in Nat
        BY <3>4
      <4> HIDE DEF p
      <4>3. now' >= p
        BY <1>1, <3>1, <4>1, <4>2
      <4> QED
        BY <3>5, <4>3 DEF p
    <3>7. q \notin underHalt'
      BY <1>0, <1>2, <2>0, <2>2 DEF StopOf
    <3>8. StopOf(q)'
      BY <3>5, <3>6, <3>7 DEF StopOf
    <3> QED
      BY <1>3, <3>8
  <2> QED
    BY <1>8, <2>1, <2>2, RequestLands
<1>9. ASSUME \/ CountToday(q) \/ FindExisting(q) \/ CheckAntiBot(q) \/ RecordPatternStrike(q)
             \/ ApplySurcharge(q) \/ ReadMetrics(q) \/ InsertPosition(q) \/ Hedge(q)
             \/ RecordActivation(q)
      PROVE  StopInv'
  <2>1. req[q].pc # "idle"
    BY <1>9 DEF CountToday, FindExisting, CheckAntiBot, RecordPatternStrike, ApplySurcharge,
                ReadMetrics, InsertPosition, Hedge, RecordActivation, At
  <2>2. ~Arrive(q)
    BY <2>1 DEF Arrive, At
  <2>3. CASE InsertPosition(q)
    <3>1. Carries(q, "hedge") /\ req[q].pc = "insert"
      BY <2>3, RequestLands DEF InsertPosition, At
    <3> QED
      BY <1>3, <1>5, <1>6, <2>2, <3>1
  <2>4. CASE ~InsertPosition(q)
    <3>1. \/ \E pc \in {"idle", "record", "end"} : Emptied(q, pc)
          \/ \E pc \in {"existing", "antibot", "strike", "surcharge", "metrics", "guards",
                        "end"} : Carries(q, pc)
      BY <1>9, <2>4, RequestLands
    <3> QED
      BY <1>3, <1>4, <1>5, <1>6, <2>2, <3>1
  <2> QED
    BY <2>3, <2>4
<1> QED
  BY <1>7, <1>8, <1>9 DEF RequestStep

LEMMA NextStops ==
  /\ TypeOK /\ RowsInv /\ PrintInv /\ StopInv
  /\ [Next]_vars
  => StopInv'
<1> SUFFICES ASSUME TypeOK, RowsInv, PrintInv, StopInv, [Next]_vars
             PROVE  StopInv'
  OBVIOUS
<1>0. /\ \A r \in Requests : StopOf(r)
      /\ TypeOK' => ((surgeUntil' <= now' + SurgePause /\ \A r \in Requests : StopOf(r)')
                              => StopInv')
  BY StopParts, StopPartsNext
<1>1. ASSUME NEW q \in Requests, RequestStep(q) PROVE StopInv'
  BY <1>1, EachMoves, NextStopOf
<1>2. ASSUME \/ \E q \in Requests : PositionStep(q)
             \/ ToggleCell \/ Halt \/ ClearHalt \/ Tick
      PROVE StopInv'
  <2>1. TypeOK' /\ WorldMoves /\ UNCHANGED req
    BY <1>2, EachMoves
  <2>2. /\ UNCHANGED surgeUntil
        /\ \A r \in underHalt' : r \in underHalt /\ (manualHalt => manualHalt')
    <3>1. CASE \E q \in Requests : PositionStep(q)
      <4>1. UNCHANGED memVars
        BY <3>1 DEF PositionStep, FireTrigger, TagFingerprint, FinalizeSalvage, ClosePosition
      <4> QED
        BY <4>1 DEF memVars
    <3>2. CASE ToggleCell \/ Tick
      BY <3>2 DEF ToggleCell, Tick, memVars
    <3>3. CASE Halt \/ ClearHalt
      BY <3>3 DEF Halt, ClearHalt
    <3> QED
      BY <1>2, <3>1, <3>2, <3>3
  <2>3. ASSUME NEW r \in Requests PROVE StopOf(r)'
    <3>1. r \in underHalt' => r \in underHalt /\ manualHalt'
      BY <1>0, <2>2 DEF StopOf
    <3> QED
      BY <1>0, <2>1, <3>1, StopFrame
  <2>4. surgeUntil' <= now' + SurgePause
    BY <2>1, <2>2, SurgeBounded DEF WorldMoves
  <2> QED
    BY <1>0, <2>1, <2>3, <2>4
<1>3. ASSUME Restart PROVE StopInv'
  <2>1. /\ TypeOK' /\ now' = now /\ underHalt' = {} /\ surgeUntil' = Never
        /\ \A r \in Requests : req'[r].pc \in {"idle", "end"} /\ req'[r].pause = 0
    BY <1>3, RestartEmpties
  <2>2. now \in Nat /\ SurgePause \in Nat
    BY AdmissionInts, AdmissionNumbers
  <2>3. \A r \in Requests : StopOf(r)'
    BY <2>1, <2>2 DEF StopOf
  <2>4. surgeUntil' <= now' + SurgePause
    BY <2>1, <2>2 DEF Never
  <2> QED
    BY <1>0, <2>1, <2>3, <2>4
<1>4. CASE UNCHANGED vars
  BY <1>4 DEF vars, memVars, StopInv
<1> QED
  BY <1>1, <1>2, <1>3, <1>4 DEF Next

-----------------------------------------------------------------------------
(* The theorems.                                                           *)

LEMMA InitAdmission == Init => IAdmission
<1> SUFFICES ASSUME Init PROVE IAdmission
  OBVIOUS
<1>1. (CHOOSE c \in Cells : TRUE) \in Cells /\ (CHOOSE p \in Pairs : TRUE) \in Pairs
  BY AdmissionAssumption
<1>2. Idle \in RequestState /\ NoRow \in PositionRow /\ NoFingerprint \in PrintState
  BY <1>1 DEF Idle, RequestState, Kinds, Prints, Pc, NoMetrics, Metrics,
              NoRow, PositionRow, NoFingerprint, PrintState, Time
<1>3. /\ now = 0 /\ rows = <<>> /\ events = <<>> /\ manualHalt = FALSE /\ surgeUntil = Never
      /\ incidents = 0 /\ underHalt = {}
      /\ cell \in [Cells -> [enabled : {TRUE}, cap : Caps]]
      /\ row = [q \in Requests |-> NoRow]
      /\ print = [f \in Fingerprints |-> NoFingerprint]
      /\ req = [q \in Requests |-> Idle]
      /\ quiet = [f \in Fingerprints |-> 0]
      /\ openedAt = [f \in Fingerprints |-> [c \in Cells |-> Never]]
  BY DEF Init
<1>4. /\ now \in 0 .. MaxTime /\ incidents \in 0 .. MaxIncidents
      /\ surgeUntil \in Time /\ manualHalt \in BOOLEAN /\ underHalt \subseteq Requests
      /\ rows \in Seq(Requests) /\ events \in Seq(EventRow) /\ Len(rows) = 0
  <2>1. << >> \in Seq(Requests) /\ << >> \in Seq(EventRow) /\ Len(<< >>) = 0
    BY EmptySeq
  <2>2. 0 \in 0 .. MaxTime /\ 0 \in 0 .. MaxIncidents
    BY AdmissionNumbers
  <2>3. Never \in Time
    BY DEF Time
  <2>4. rows \in Seq(Requests) /\ events \in Seq(EventRow) /\ Len(rows) = 0
    BY <1>3, <2>1, Zenon
  <2> QED
    BY <1>3, <2>2, <2>3, <2>4
<1>5. /\ row \in [Requests -> PositionRow] /\ print \in [Fingerprints -> PrintState]
      /\ quiet \in [Fingerprints -> Nat] /\ cell \in [Cells -> CellRow]
      /\ openedAt \in [Fingerprints -> [Cells -> Time]]
      /\ req \in [Requests -> RequestState]
  BY <1>2, <1>3 DEF CellRow, Time
<1>6. TypeOK
  BY <1>4, <1>5, AdmissionParts DEF AdmissionTables
<1>7. /\ \A q \in Requests :
           /\ row[q].status = "absent" /\ req[q].pc = "idle" /\ req[q].kind = "test"
           /\ req[q].print = NoPrint /\ req[q].seenRows = 0 /\ req[q].pause = 0
      /\ \A f \in Fingerprints :
           /\ print[f].at = Never /\ print[f].triggered = Never /\ print[f].surcharge = Never
           /\ quiet[f] = 0 /\ \A c \in Cells : openedAt[f][c] = Never
  BY <1>3 DEF NoRow, Idle, NoFingerprint
<1>8. RowsInv
  BY <1>4, <1>7 DEF RowsInv, At
<1>9. PairInv /\ CapInv /\ BotInv /\ RepeatInv
  BY <1>7 DEF PairInv, CapInv, BotInv, RepeatInv, Identified, Looked, Decided
<1>10. PrintInv /\ StopInv
  <2>1. /\ Never <= Never /\ Never <= 0
        /\ Never <= 0 + SurchargeDuration /\ Never <= 0 + SurgePause
    BY AdmissionNumbers DEF Never
  <2>2. PrintInv
    BY <1>3, <1>7, <2>1 DEF PrintInv
  <2>3. StopInv
    BY <1>3, <1>7, <2>1 DEF StopInv
  <2> QED
    BY <2>2, <2>3
<1> QED
  BY <1>6, <1>8, <1>9, <1>10 DEF IAdmission

LEMMA NextAdmission == IAdmission /\ [Next]_vars => IAdmission'
<1> SUFFICES ASSUME IAdmission, [Next]_vars PROVE IAdmission'
  OBVIOUS
<1>1. /\ TypeOK /\ RowsInv /\ PairInv /\ CapInv
      /\ PrintInv /\ BotInv /\ RepeatInv /\ StopInv
  BY DEF IAdmission
<1>2. TypeOK'
  <2>1. CASE Next
    BY <1>1, <2>1, EachMoves, RestartEmpties DEF Next
  <2>2. CASE UNCHANGED vars
    BY <1>1, <2>2 DEF TypeOK, vars, dbVars, memVars
  <2> QED
    BY <2>1, <2>2
<1>3. RowsInv'
  BY <1>1, NextRows
<1>4. PairInv'
  BY <1>1, NextPairs
<1>5. CapInv'
  BY <1>1, NextCaps
<1>6. PrintInv'
  BY <1>1, NextPrints
<1>7. BotInv'
  BY <1>1, NextBots
<1>8. RepeatInv'
  BY <1>1, NextRepeats
<1>9. StopInv'
  BY <1>1, NextStops
<1> QED
  BY <1>2, <1>3, <1>4, <1>5, <1>6, <1>7, <1>8, <1>9 DEF IAdmission

LEMMA AlwaysIAdmission == Spec => []IAdmission
<1>1. Init => IAdmission
  BY InitAdmission
<1>2. IAdmission /\ [Next]_vars => IAdmission'
  BY NextAdmission
<1> QED
  BY <1>1, <1>2, PTL DEF Spec

\* Every variable keeps its type, and what arrived under a halt still in force,
\* or within the pause after a surge of triggers, opens nothing, however long
\* its own awaits last (checkAllGuardsForVolumeCoverActivate).
THEOREM StopsAreHeld == Spec => []AdmissionInv
<1>1. IAdmission => AdmissionInv
  BY DEF IAdmission, StopInv, AdmissionInv, StopsHold, Opening, At
<1> QED
  BY <1>1, AlwaysIAdmission, PTL

\* A second active position of a pair comes only from requests that overlapped
\* or from a newer position, since ended, that hid the first from the lookup
\* (volumeCoverRoutes.ts, the pair-id lookup of /activate).
THEOREM OneOpeningPerPair == Spec => []OpenedOncePerPair
<1>1. IAdmission => OpenedOncePerPair
  <2> SUFFICES ASSUME IAdmission, NEW q \in Opening, NEW i \in OfPair(row[q].pair),
                      IsActive(i), i <= req[q].seenRows
               PROVE  \E k \in OfPair(row[q].pair) : k > i /\ rows[k] # q
    BY DEF OpenedOncePerPair
  <2>1. q \in Requests /\ req[q].pc = "hedge" /\ req[q].pc \in Looked
    BY DEF Opening, At, Looked, Decided
  <2>2. row[q].pair = req[q].pair
    BY <2>1 DEF IAdmission, RowsInv, At
  <2> QED
    BY <2>1, <2>2 DEF IAdmission, PairInv
<1> QED
  BY <1>1, AlwaysIAdmission, PTL

\* The day's cap is exceeded only by requests that overlap: the positions of
\* the day that were there when a request arrived are fewer than the cap it was
\* held to (listPositionsForCellToday, Guard C).
THEOREM CapHoldsForArrivals == Spec => []ThrottleExceededOnlyByOverlap
<1>1. IAdmission => ThrottleExceededOnlyByOverlap
  <2> SUFFICES ASSUME IAdmission, NEW q \in Opening, req[q].kind # "test"
               PROVE  Cardinality({i \in 1 .. req[q].seenRows :
                        row[rows[i]].cell = row[q].cell /\ row[rows[i]].day = row[q].day})
                        < EffectiveCap(q)
    BY DEF ThrottleExceededOnlyByOverlap
  <2>1. q \in Requests /\ At(q, "hedge")
    BY DEF Opening
  <2>2. row[q].cell = req[q].cell
    BY <2>1 DEF IAdmission, RowsInv
  <2>3. Cardinality(SeenOn(q, row[q].day)) < EffectiveCap(q)
    BY <2>1 DEF IAdmission, CapInv
  <2> QED
    BY <2>2, <2>3 DEF SeenOn
<1> QED
  BY <1>1, AlwaysIAdmission, PTL

\* Whatever Layers 2 and 3 had on record of a fingerprint when its request
\* arrived has run out when the position is inserted, and a surcharge still in
\* force is paid (antiBot.ts, Layers 2 to 4), with any number of cells.
THEOREM CooldownsAreHeld == Spec => []CooldownsHold
<1>1. IAdmission => CooldownsHold
  BY DEF IAdmission, BotInv, CooldownsHold, BarredUntilQuiet, SurchargePaid, Policed, Opening,
         At, Decided
<1> QED
  BY <1>1, AlwaysIAdmission, PTL

\* A fingerprint opens a cell anew within its repeat window only when it was
\* recorded opening another cell in between: the row Layer 1 reads remembers the
\* last cell and no other (antiBot.ts, Layer 1).
THEOREM RepeatsAreSpaced == Spec => []RepeatsSpaced
<1>1. IAdmission => RepeatsSpaced
  <2> SUFFICES ASSUME IAdmission, NEW q \in Policed,
                      req[q].opened # Never, now < req[q].opened + Layer1Window
               PROVE  OpenedAnother(req[q].print, req[q].cell, req[q].opened)
    BY DEF RepeatsSpaced, OpenedAnother
  <2>1. /\ q \in Requests /\ Identified(req[q].kind, req[q].print)
        /\ req[q].pc \in Decided
    BY DEF Policed, Opening, At, Decided
  <2>2. now \in Int /\ req[q].opened \in Int /\ Layer1Window \in Int
    BY <2>1, AdmissionInts, AdmissionNumbers DEF IAdmission
  <2> QED
    BY <2>1, <2>2 DEF IAdmission, RepeatInv
<1> QED
  BY <1>1, AlwaysIAdmission, PTL
=============================================================================
