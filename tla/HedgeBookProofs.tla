-------------------------- MODULE HedgeBookProofs --------------------------
(***************************************************************************)
(* Proofs about HedgeBook: whatever handlers overlap, throw or are cut off, *)
(* the account at the venue holds what the book says, what is about to be   *)
(* booked and what is known to be booked by nobody; the loop reduces and    *)
(* never turns a size around; and its cooldown spaces its orders.           *)
(*                                                                          *)
(* Typed adds to the types where a handler is; AllInHand and Cooled say what *)
(* the last two results need of the steps before the one they speak of; and *)
(* the account is compared with a sum over all handlers (Pending), of which *)
(* a step of one changes one term.                                          *)
(***************************************************************************)
EXTENDS HedgeBook, SumTheorems, TLAPS

Acts   == {"none", "order", "hold", "increase", "decrease", "net", "reset"}
Places == {"idle", "venue", "book", "save", "act", "cool", "net", "netCool", "remove"}

Job == [act : Acts, at : Places, side : {1, -1}, size : 0 .. Size,
        over : BOOLEAN, raced : BOOLEAN, shot : Int]

Typed ==
  /\ now \in 0 .. MaxTime
  /\ live \in BOOLEAN
  /\ book \in Int /\ file \in Int /\ held \in Int /\ apart \in Int
  /\ hedgedAt \in {Never} \cup 0 .. MaxTime
  /\ netAt \in {Never} \cup 0 .. MaxTime
  /\ orderedAt \in {Never} \cup 0 .. MaxTime
  /\ boot \in [at : {"ready", "read", "take"}, shot : Int]
  /\ job \in [Jobs -> Job]
  /\ incidents \in 0 .. MaxIncidents
  /\ unsaid \subseteq {"book", "cooldown"}

\* What a handler has in hand.  A tick that decreases has no more than the size
\* booked, on the other side, as long as nobody books meanwhile.
InHand(r, b) ==
  /\ r.at = "net" => r.act = "net"
  /\ r.act = "decrease" /\ r.at \in {"venue", "book"} /\ ~r.raced =>
       /\ r.size <= Abs(b)
       /\ b > 0 => r.side = -1
       /\ b < 0 => r.side = 1

AllInHand == \A j \in Jobs : InHand(job[j], book)

\* A tick with its order for the coverage behind it, and the cooldown before it.
Behind(r) == r.act \in {"increase", "decrease"} /\ r.at \in {"book", "save", "cool"}

\* A tick that decided within the cooldown of an order.
Over(r) == r.act \in {"increase", "decrease"} /\ r.over

\* The cooldown is as late as the last order, or a tick is about to start it.
Cooled ==
  /\ orderedAt <= now
  /\ \/ "cooldown" \in unsaid
     \/ orderedAt <= hedgedAt
     \/ \E j \in Jobs : Behind(job[j])
  /\ (\E j \in Jobs : Over(job[j])) => "cooldown" \in unsaid

\* What is about to be booked.
Due(r) == IF r.at = "book" THEN r.side * r.size ELSE 0

Terms(w)   == [j \in Jobs |-> Due(w[j])]
Pending(w) == SumOf(Terms(w), Jobs)

Accounted == held = book + apart + Pending(job)

IInv == Typed /\ Accounted /\ AllInHand /\ Cooled /\ BookSaved

-----------------------------------------------------------------------------
(* What is about to be booked, as a sum over all handlers.                  *)

\* The constants, as the provers take them.
LEMMA SizeIsNat == Size \in Nat /\ Size > 0 /\ MaxTime \in Nat /\ Cooldown \in Nat
                   /\ MaxIncidents \in Nat /\ Attempts \in Nat
  BY BookConstants

\* A cooldown that was never started is over.
LEMMA NeverIsPast ==
  Never \in Int /\ \A n \in Nat : n - Never >= Cooldown
  BY SizeIsNat DEF Never
\* The sum the account is compared with runs over those about to book.
LEMMA UnbookedIs ==
  ASSUME job \in [Jobs -> Job]
  PROVE  MapThenSumSet(LAMBDA j : Signed(j, job[j].size), Unbooked) = SumOf(Terms(job), Unbooked)
<1> DEFINE U == Unbooked
           f == Terms(job)
           Plain(g) == [s \in SUBSET U |->
                          IF s = {} THEN 0
                          ELSE Signed(CHOOSE x \in s : TRUE, job[CHOOSE x \in s : TRUE].size)
                                 + g[s \ {CHOOSE x \in s : TRUE}]]
           h == CHOOSE g : g = Plain(g)
<1>1. MapThenSumSet(LAMBDA j : Signed(j, job[j].size), U) = h[U]
  BY DEF MapThenSumSet, MapThenFoldSet
<1>2. U \in SUBSET Jobs /\ IsFiniteSet(U)
  BY FS_Subset, BookConstants DEF Unbooked
<1>3. ASSUME NEW g PROVE Plain(g) = Steps(f, g, U)
  <2>1. ASSUME NEW s \in SUBSET U, s # {}
        PROVE  f[Chosen(s)] = Signed(Chosen(s), job[Chosen(s)].size)
    <3>1. Chosen(s) \in Unbooked
      BY <2>1, ChosenIn
    <3> QED
      BY <3>1 DEF Unbooked, Terms, Due, IsAt, Signed
  <2> QED
    BY <2>1 DEF Steps, Chosen
<1>4. \E g : g = Plain(g)
  BY <1>2, <1>3, FoldExists
<1>5. h = Plain(h)
  <2> HIDE DEF Plain
  <2> QED
    BY <1>4
<1>6. h = Steps(f, h, U)
  BY <1>3, <1>5
<1> HIDE DEF h, f, U
<1>7. h[U] = SumOf(f, U)
  BY <1>2, <1>6, SumIs
<1> QED
  BY <1>1, <1>7 DEF f, U

\* A size, with its sign, is an integer.
LEMMA DueIsInt ==
  ASSUME NEW r \in Job
  PROVE  Due(r) \in Int
  BY SizeIsNat DEF Due, Job

\* So is what is about to be booked.
LEMMA PendingIsInt ==
  ASSUME job \in [Jobs -> Job]
  PROVE  Pending(job) \in Int
<1>1. \A j \in Jobs : Terms(job)[j] \in Int
  BY DueIsInt DEF Terms
<1> QED
  BY <1>1, SumType, BookConstants DEF Pending

\* BookAccounted, with the sum over all handlers.
LEMMA AccountedIs ==
  ASSUME job \in [Jobs -> Job]
  PROVE  BookAccounted <=> Accounted
<1>1. (\A j \in Jobs : Terms(job)[j] \in Int) /\ (\A j \in Jobs \ Unbooked : Terms(job)[j] = 0)
  BY DueIsInt DEF Terms, Unbooked, IsAt, Due
<1>2. Unbooked \in SUBSET Jobs
  BY DEF Unbooked
<1>3. Pending(job) = SumOf(Terms(job), Unbooked)
  BY <1>1, <1>2, SumWithin, BookConstants DEF Pending
<1> QED
  BY <1>3, UnbookedIs DEF BookAccounted, Accounted

\* A step of one handler changes what it is about to book.
LEMMA PendingMoves ==
  ASSUME NEW v \in [Jobs -> Job], NEW w \in [Jobs -> Job], NEW j \in Jobs,
         \A k \in Jobs \ {j} : Due(w[k]) = Due(v[k])
  PROVE  Pending(w) = Pending(v) + (Due(w[j]) - Due(v[j]))
<1> DEFINE f == Terms(v)
           g == Terms(w)
<1>1. \A k \in Jobs : f[k] = Due(v[k]) /\ f[k] \in Int
  BY DueIsInt DEF Terms
<1>2. \A k \in Jobs : g[k] = Due(w[k]) /\ g[k] \in Int
  BY DueIsInt DEF Terms
<1> HIDE DEF f, g
<1>3. \A k \in Jobs \ {j} : g[k] = f[k]
  BY <1>1, <1>2
<1>4. SumOf(g, Jobs) = SumOf(f, Jobs) + (g[j] - f[j])
  BY <1>1, <1>2, <1>3, SumUpdate, BookConstants
<1> QED
  BY <1>1, <1>2, <1>4 DEF f, g, Pending

\* A step that takes no fill in hand leaves it.
LEMMA PendingStays ==
  ASSUME NEW v \in [Jobs -> Job], NEW w \in [Jobs -> Job],
         \A k \in Jobs : Due(w[k]) = Due(v[k])
  PROVE  Pending(w) = Pending(v)
<1>1. Terms(w) = Terms(v)
  BY DEF Terms
<1> QED
  BY <1>1 DEF Pending

-----------------------------------------------------------------------------
(* What every step leaves as it should be: the types.                       *)

\* What a handler is left with.
LEMMA IdleIs ==
  /\ Idle \in Job
  /\ Idle.act = "none" /\ Idle.at = "idle" /\ Idle.over = FALSE
  BY SizeIsNat DEF Idle, Job, Acts, Places

LEMMA AfterIs ==
  ASSUME job \in [Jobs -> Job], NEW j \in Jobs, NEW filled \in BOOLEAN
  PROVE  /\ After(j, filled) \in Job
         /\ After(j, filled).at \in {"idle", "cool", "netCool"}
         /\ After(j, filled).over = FALSE
         /\ ForCoverage(j) => /\ After(j, filled).act = job[j].act
                              /\ After(j, filled).at = "cool"
         /\ ~ForCoverage(j) => After(j, filled).act \in {"none", "net"}
<1>1. job[j].act \in Acts
  BY DEF Job
<1> DEFINE Bare(a, t) == [act |-> a, at |-> t, side |-> 1, size |-> 0,
                          over |-> FALSE, raced |-> FALSE, shot |-> 0]
<1>2. CASE ForCoverage(j)
  <2>1. After(j, filled) = [Idle EXCEPT !.act = job[j].act, !.at = "cool"]
    BY <1>2 DEF After, ForCoverage
  <2>2. After(j, filled) = Bare(job[j].act, "cool")
    BY <2>1 DEF Idle
  <2> QED
    BY <1>1, <1>2, <2>2, SizeIsNat DEF Job, Acts, Places
<1>3. CASE ~ForCoverage(j) /\ job[j].act = "net" /\ filled
  <2>1. After(j, filled) = [Idle EXCEPT !.act = "net", !.at = "netCool"]
    BY <1>3 DEF After
  <2>2. After(j, filled) = Bare("net", "netCool")
    BY <2>1 DEF Idle
  <2>3. Bare("net", "netCool") \in Job
    BY SizeIsNat DEF Job, Acts, Places
  <2>4. After(j, filled).act = "net" /\ After(j, filled).at = "netCool"
          /\ After(j, filled).over = FALSE
    BY <2>2
  <2> QED
    BY <1>3, <2>2, <2>3, <2>4 DEF ForCoverage
<1>4. CASE ~ForCoverage(j) /\ ~(job[j].act = "net" /\ filled)
  BY <1>1, <1>4, SizeIsNat DEF After, ForCoverage, Idle, Job, Acts, Places
<1> QED
  BY <1>2, <1>3, <1>4

\* The handlers with a mark keep all else.
LEMMA RacedIs ==
  ASSUME job \in [Jobs -> Job]
  PROVE  /\ Raced \in [Jobs -> Job]
         /\ \A k \in Jobs :
              /\ Raced[k].act = job[k].act /\ Raced[k].at = job[k].at
              /\ Raced[k].side = job[k].side /\ Raced[k].size = job[k].size
              /\ Raced[k].over = job[k].over /\ Raced[k].shot = job[k].shot
              /\ job[k].act = "decrease" /\ job[k].at \in {"venue", "book"} => Raced[k].raced
<1>1. ASSUME NEW k \in Jobs
      PROVE  /\ Raced[k] \in Job
             /\ Raced[k].act = job[k].act /\ Raced[k].at = job[k].at
             /\ Raced[k].side = job[k].side /\ Raced[k].size = job[k].size
             /\ Raced[k].over = job[k].over /\ Raced[k].shot = job[k].shot
             /\ job[k].act = "decrease" /\ job[k].at \in {"venue", "book"} => Raced[k].raced
  <2>1. PICK r \in Job : r = job[k]
    BY <1>1
  <2>2. Raced[k] = [r EXCEPT !.raced = r.raced \/ (r.act = "decrease" /\ r.at \in {"venue", "book"})]
    BY <2>1 DEF Raced
  <2> QED
    BY <2>1, <2>2 DEF Job
<1>2. DOMAIN Raced = Jobs /\ Raced = [k \in Jobs |-> Raced[k]]
  BY DEF Raced
<1> QED
  BY <1>1, <1>2

\* What a step does to the handler it is of, and to the others.
LEMMA BecomesIs ==
  ASSUME job \in [Jobs -> Job], NEW j \in Jobs, NEW r \in Job, Becomes(j, r)
  PROVE  /\ job' \in [Jobs -> Job] /\ job'[j] = r
         /\ \A k \in Jobs \ {j} : job'[k] = job[k]
  BY DEF Becomes

\* What a step of one handler may leave apart, and what it leaves as it is.
LEMMA AccountedMoves ==
  ASSUME Typed, Accounted, job' \in [Jobs -> Job], NEW j \in Jobs,
         \A k \in Jobs \ {j} : Due(job'[k]) = Due(job[k]),
         held' \in Int, book' \in Int, apart' \in Int,
         (held' - book') - apart'
           = ((held - book) - apart) + (Due(job'[j]) - Due(job[j]))
  PROVE  Accounted'
<1>1. Pending(job') = Pending(job) + (Due(job'[j]) - Due(job[j]))
  BY PendingMoves DEF Typed
<1>2. Pending(job) \in Int /\ Due(job'[j]) \in Int /\ Due(job[j]) \in Int
  BY PendingIsInt, DueIsInt DEF Typed
<1>3. held = book + apart + Pending(job)
  BY DEF Accounted
<1>4. held' = book' + apart' + Pending(job')
  <2>1. held \in Int /\ book \in Int /\ apart \in Int
    BY DEF Typed
  <2> QED
    BY <1>1, <1>2, <1>3, <2>1
<1> QED
  BY <1>4 DEF Accounted

LEMMA InHandStays ==
  ASSUME Typed, AllInHand, book' = book, NEW j \in Jobs,
         \A k \in Jobs \ {j} : job'[k] = job[k], InHand(job'[j], book)
  PROVE  AllInHand'
  BY DEF AllInHand, InHand

LEMMA CooledStays ==
  ASSUME Cooled, now' = now, orderedAt' = orderedAt, hedgedAt' = hedgedAt,
         "cooldown" \in unsaid => "cooldown" \in unsaid',
         \A k \in Jobs : Behind(job[k]) => Behind(job'[k]),
         \A k \in Jobs : Over(job'[k]) => (Over(job[k]) \/ "cooldown" \in unsaid')
  PROVE  Cooled'
  BY DEF Cooled, Behind, Over

LEMMA SavedStays ==
  ASSUME BookSaved, file' = file, book' = book, boot' = boot,
         "book" \in unsaid => "book" \in unsaid',
         \A k \in Jobs : job[k].at = "save" => job'[k].at = "save"
  PROVE  BookSaved'
  BY DEF BookSaved, IsAt

\* A step that only moves a handler on.
LEMMA MovesOn ==
  ASSUME IInv, NEW j \in Jobs, NEW r \in Job, Becomes(j, r),
         UNCHANGED <<now, live, book, file, hedgedAt, netAt, boot, incidents, held, apart,
                     orderedAt, unsaid>>,
         job[j].at \notin {"book", "save"}, r.at # "book", ~Behind(job[j]),
         InHand(r, book), Over(r) => "cooldown" \in unsaid
  PROVE  IInv'
<1>1. /\ job' \in [Jobs -> Job] /\ job'[j] = r
      /\ \A k \in Jobs \ {j} : job'[k] = job[k]
  BY BecomesIs DEF IInv, Typed
<1>2. Typed'
  BY <1>1 DEF IInv, Typed
<1>3. Accounted'
  <2>1. Due(job'[j]) = 0 /\ Due(job[j]) = 0
    BY <1>1 DEF Due
  <2> QED
    BY <1>1, <2>1, AccountedMoves DEF IInv, Typed
<1>4. AllInHand'
  BY <1>1, InHandStays DEF IInv
<1>5. Cooled'
  BY <1>1, CooledStays DEF IInv
<1>6. BookSaved'
  BY <1>1, SavedStays DEF IInv
<1> QED
  BY <1>2, <1>3, <1>4, <1>5, <1>6 DEF IInv

-----------------------------------------------------------------------------
(* The orders.                                                              *)

LEMMA StartOrderKeeps ==
  ASSUME IInv, NEW j \in Jobs, StartOrder(j)
  PROVE  IInv'
<1>1. PICK side \in {1, -1} :
        Becomes(j, [Idle EXCEPT !.act = "order", !.at = "venue", !.side = side,
                                !.size = Size])
  BY DEF StartOrder
<1> PICK q \in Job : q = Idle
  BY IdleIs
<1> DEFINE r == [q EXCEPT !.act = "order", !.at = "venue", !.side = side, !.size = Size]
<1>2. Becomes(j, r)
  BY <1>1
<1>3. r \in Job /\ r.act = "order" /\ r.at = "venue"
  <2>1. Size \in 0 .. Size /\ "order" \in Acts /\ "venue" \in Places
    BY SizeIsNat DEF Acts, Places
  <2>2. r.act = "order" /\ r.at = "venue"
    BY DEF Job
  <2>3. r \in Job
    BY <2>1 DEF Job
  <2> QED
    BY <2>2, <2>3
<1> HIDE DEF r
<1>4. job[j].at = "idle"
  BY IdleIs DEF StartOrder
<1>5. InHand(r, book) /\ ~Over(r) /\ ~Behind(job[j])
  BY <1>3, <1>4 DEF InHand, Over, Behind
<1>6. UNCHANGED <<now, live, book, file, hedgedAt, netAt, boot, incidents, held, apart,
                  orderedAt, unsaid>>
  BY DEF StartOrder, Served, books, history
<1> QED
  BY <1>2, <1>3, <1>4, <1>5, <1>6, MovesOn

\* What the venue has taken of a request.
LEMMA TakenIs ==
  ASSUME Typed, NEW j \in Jobs
  PROVE  \A n \in Taken(j) : n \in Int
<1>1. ASSUME NEW n \in 0 .. Attempts
      PROVE  n * job[j].size \in Int
    <2>1. n \in Int /\ job[j].size \in Int
      BY SizeIsNat DEF Typed, Job
    <2> QED
      BY <2>1
<1>2. job[j].side \in {1, -1}
  BY DEF Typed, Job
<1>3. \A n \in 0 .. Attempts : Signed(j, n * job[j].size) \in Int
  BY <1>1, <1>2 DEF Signed
<1>4. Signed(j, 0 * job[j].size) \in Int /\ 0 \in 0 .. Attempts
  BY <1>3, SizeIsNat
<1> QED
  BY <1>3, <1>4 DEF Taken

\* A handler with the answer to its order: what it got but does not book is
\* apart, and one that ordered for the coverage has the cooldown before it.
LEMMA AnswerKeeps ==
  ASSUME IInv, NEW j \in Jobs, NEW r \in Job, Becomes(j, r), IsAt(j, "venue"), Ordered(j),
         NEW n \in Int, NEW m \in Int, held' = held + n, apart' = apart + m, n = m + Due(r),
         UNCHANGED <<now, live, book, file, hedgedAt, netAt, boot, incidents>>,
         unsaid \subseteq unsaid', unsaid' \subseteq unsaid \cup {"cooldown"},
         InHand(r, book), Over(r) => Over(job[j]),
         ForCoverage(j) => (Behind(r) \/ "cooldown" \in unsaid')
  PROVE  IInv'
<1>1. /\ job' \in [Jobs -> Job] /\ job'[j] = r
      /\ \A k \in Jobs \ {j} : job'[k] = job[k]
  BY BecomesIs DEF IInv, Typed
<1>2. Typed'
  <2>1. held' \in Int /\ apart' \in Int
    BY DEF IInv, Typed
  <2>2. orderedAt' \in {Never} \cup 0 .. MaxTime
    BY DEF IInv, Typed, Ordered
  <2> QED
    BY <1>1, <2>1, <2>2 DEF IInv, Typed
<1>3. Accounted'
  <2>1. Due(job'[j]) = Due(r) /\ Due(job[j]) = 0 /\ Due(r) \in Int
    BY <1>1, DueIsInt DEF Due, IsAt
  <2>2. (held' - book') - apart' = ((held - book) - apart) + (Due(job'[j]) - Due(job[j]))
    BY <2>1 DEF IInv, Typed
  <2>3. \A k \in Jobs \ {j} : Due(job'[k]) = Due(job[k])
    BY <1>1
  <2>4. held' \in Int /\ book' \in Int /\ apart' \in Int
    BY <1>2 DEF Typed
  <2> QED
    BY <1>1, <2>2, <2>3, <2>4, AccountedMoves DEF IInv
<1>4. AllInHand'
  BY <1>1, InHandStays DEF IInv
<1>5. Cooled'
  <2>1. (\E k \in Jobs : Over(job'[k])) => "cooldown" \in unsaid'
    BY <1>1 DEF IInv, Cooled
  <2>2. CASE ForCoverage(j)
    <3>1. orderedAt' = now /\ now' = now /\ now \in Int
      BY <2>2 DEF Ordered, IInv, Typed
    <3>2. "cooldown" \in unsaid' \/ \E k \in Jobs : Behind(job'[k])
      BY <1>1, <2>2
    <3>3. orderedAt' <= now'
      BY <3>1
    <3> QED
      BY <2>1, <3>2, <3>3 DEF Cooled
  <2>3. CASE ~ForCoverage(j)
    <3>1. orderedAt' = orderedAt
      BY <2>3 DEF Ordered
    <3>2. ~Behind(job[j])
      BY DEF Behind, IsAt
    <3>3. \A k \in Jobs : Behind(job[k]) => Behind(job'[k])
      BY <1>1, <3>2
    <3>4. \A k \in Jobs : Over(job'[k]) => (Over(job[k]) \/ "cooldown" \in unsaid')
      BY <1>1
    <3> QED
      BY <3>1, <3>3, <3>4, CooledStays DEF IInv
  <2> QED
    BY <2>2, <2>3
<1>6. BookSaved'
  BY <1>1, SavedStays DEF IInv, IsAt
<1> QED
  BY <1>2, <1>3, <1>4, <1>5, <1>6 DEF IInv

\* Going on without a fill to book.
LEMMA NothingToBook ==
  ASSUME job \in [Jobs -> Job], NEW j \in Jobs, NEW filled \in BOOLEAN
  PROVE  /\ After(j, filled) \in Job /\ Due(After(j, filled)) = 0
         /\ InHand(After(j, filled), book) /\ ~Over(After(j, filled))
         /\ After(j, filled).at \notin {"book", "save"}
         /\ ForCoverage(j) => Behind(After(j, filled))
<1>1. job[j].act \in Acts
  BY DEF Job
<1>2. ForCoverage(j) => job[j].act \in {"increase", "decrease"}
  BY DEF ForCoverage
<1> QED
  BY <1>1, <1>2, AfterIs DEF Due, InHand, Over, Behind

\* A fill in hand to be booked: it is no more than what was asked for.
LEMMA ToBook ==
  ASSUME IInv, NEW j \in Jobs, IsAt(j, "venue"), NEW n \in 1 .. job[j].size
  PROVE  LET r == [job[j] EXCEPT !.at = "book", !.size = n] IN
         /\ r \in Job /\ Due(r) = Signed(j, n) /\ Due(r) \in Int
         /\ InHand(r, book) /\ (Over(r) => Over(job[j]))
         /\ ForCoverage(j) => Behind(r)
<1>1. PICK q \in Job : q = job[j]
  BY DEF IInv, Typed
<1> DEFINE r == [q EXCEPT !.at = "book", !.size = n]
<1>2. q.size \in 0 .. Size /\ q.at = "venue" /\ q.side \in {1, -1} /\ n \in 1 .. q.size
  BY <1>1 DEF Job, IsAt
<1>3. /\ r.act = q.act /\ r.at = "book" /\ r.side = q.side /\ r.size = n
      /\ r.over = q.over /\ r.raced = q.raced
  BY DEF Job
<1>4. r \in Job
  <2>1. n \in 0 .. Size
    BY <1>2, SizeIsNat
  <2> QED
    BY <2>1 DEF Job, Places
<1> HIDE DEF r
<1>5. Due(r) = Signed(j, n)
  BY <1>1, <1>3 DEF Due, Signed
<1>6. InHand(r, book)
  <2>1. InHand(q, book)
    BY <1>1 DEF IInv, AllInHand
  <2>2. book \in Int /\ Abs(book) \in Int
    BY DEF IInv, Typed, Abs
  <2> QED
    BY <1>2, <1>3, <2>1, <2>2, SizeIsNat DEF InHand
<1>7. (Over(r) => Over(q)) /\ (ForCoverage(j) => Behind(r))
  BY <1>1, <1>3 DEF Over, Behind, ForCoverage
<1> QED
  BY <1>1, <1>4, <1>5, <1>6, <1>7, DueIsInt DEF r

LEMMA PaperAnswerKeeps ==
  ASSUME IInv, NEW j \in Jobs, VenueAnswers(j), PaperAnswer(j)
  PROVE  IInv'
<1>1. /\ IsAt(j, "venue") /\ Ordered(j)
      /\ UNCHANGED <<now, live, book, file, hedgedAt, netAt, boot, incidents, unsaid>>
  BY DEF VenueAnswers, Served, books
<1>2. held \in Int /\ apart \in Int
  BY DEF IInv, Typed
<1>3. CASE \E n \in 1 .. job[j].size :
             /\ Fills(Signed(j, n), 0)
             /\ Becomes(j, [job[j] EXCEPT !.at = "book", !.size = n])
  <2>1. PICK n \in 1 .. job[j].size :
               /\ Fills(Signed(j, n), 0)
               /\ Becomes(j, [job[j] EXCEPT !.at = "book", !.size = n])
    BY <1>3
  <2> DEFINE r == [job[j] EXCEPT !.at = "book", !.size = n]
  <2>2. /\ r \in Job /\ Due(r) = Signed(j, n) /\ Due(r) \in Int
        /\ InHand(r, book) /\ (Over(r) => Over(job[j]))
        /\ ForCoverage(j) => Behind(r)
    BY <1>1, ToBook
  <2>3. Becomes(j, r)
    BY <2>1
  <2> HIDE DEF r
  <2>4. held' = held + Due(r) /\ apart' = apart + 0 /\ Due(r) = 0 + Due(r) /\ 0 \in Int
    BY <2>1, <2>2 DEF Fills
  <2> QED
    BY <1>1, <2>2, <2>3, <2>4, AnswerKeeps
<1>4. CASE Fills(0, 0) /\ Becomes(j, After(j, FALSE))
  <2> DEFINE r == After(j, FALSE)
  <2>1. /\ r \in Job /\ Due(r) = 0 /\ InHand(r, book) /\ ~Over(r)
        /\ ForCoverage(j) => Behind(r)
    BY NothingToBook DEF IInv, Typed
  <2>2. Becomes(j, r)
    BY <1>4
  <2> HIDE DEF r
  <2>3. held' = held + 0 /\ apart' = apart + 0 /\ 0 = 0 + Due(r) /\ 0 \in Int
    BY <1>4, <2>1 DEF Fills
  <2> QED
    BY <1>1, <2>1, <2>2, <2>3, AnswerKeeps
<1> QED
  BY <1>3, <1>4 DEF PaperAnswer

LEMMA LiveAnswerKeeps ==
  ASSUME IInv, NEW j \in Jobs, VenueAnswers(j), LiveAnswer(j)
  PROVE  IInv'
<1>1. /\ IsAt(j, "venue") /\ Ordered(j)
      /\ UNCHANGED <<now, live, book, file, hedgedAt, netAt, boot, incidents, unsaid>>
  BY DEF VenueAnswers, Served, books
<1>2. PICK n \in Taken(j) : Fills(n, n)
  BY DEF LiveAnswer
<1> DEFINE r == After(j, FALSE)
<1>3. /\ r \in Job /\ Due(r) = 0 /\ InHand(r, book) /\ ~Over(r)
      /\ ForCoverage(j) => Behind(r)
  BY NothingToBook DEF IInv, Typed
<1>4. n \in Int
  BY TakenIs DEF IInv
<1>5. Becomes(j, r)
  BY DEF LiveAnswer
<1> HIDE DEF r
<1>6. held' = held + n /\ apart' = apart + n /\ n = n + Due(r)
  BY <1>2, <1>3, <1>4 DEF Fills
<1> QED
  BY <1>1, <1>3, <1>4, <1>5, <1>6, AnswerKeeps

LEMMA SimulatedFillKeeps ==
  ASSUME IInv, NEW j \in Jobs, VenueAnswers(j), SimulatedFill(j)
  PROVE  IInv'
<1>1. /\ IsAt(j, "venue") /\ Ordered(j)
      /\ UNCHANGED <<now, live, book, file, hedgedAt, netAt, boot, incidents, unsaid>>
  BY DEF VenueAnswers, Served, books
<1>2. PICK n \in Taken(j), m \in 1 .. job[j].size :
        /\ Fills(n, n - Signed(j, m))
        /\ Becomes(j, [job[j] EXCEPT !.at = "book", !.size = m])
  BY DEF SimulatedFill
<1> DEFINE r == [job[j] EXCEPT !.at = "book", !.size = m]
<1>3. /\ r \in Job /\ Due(r) = Signed(j, m) /\ Due(r) \in Int
      /\ InHand(r, book) /\ (Over(r) => Over(job[j]))
      /\ ForCoverage(j) => Behind(r)
  BY <1>1, ToBook
<1>4. Becomes(j, r)
  BY <1>2
<1>5. n \in Int
  BY TakenIs DEF IInv
<1> HIDE DEF r
<1>6. /\ held' = held + n /\ apart' = apart + (n - Due(r))
      /\ n = (n - Due(r)) + Due(r) /\ n - Due(r) \in Int
  BY <1>2, <1>3, <1>5 DEF Fills
<1> QED
  BY <1>1, <1>3, <1>4, <1>5, <1>6, AnswerKeeps

LEMMA VenueAnswersKeeps ==
  ASSUME IInv, NEW j \in Jobs, VenueAnswers(j)
  PROVE  IInv'
  BY PaperAnswerKeeps, LiveAnswerKeeps, SimulatedFillKeeps DEF VenueAnswers

LEMMA VenueThrowsKeeps ==
  ASSUME IInv, NEW j \in Jobs, VenueThrows(j)
  PROVE  IInv'
<1>1. /\ IsAt(j, "venue") /\ Ordered(j) /\ Becomes(j, Idle)
      /\ UNCHANGED <<now, live, book, file, hedgedAt, netAt, boot, incidents>>
      /\ unsaid \subseteq unsaid' /\ unsaid' \subseteq unsaid \cup {"cooldown"}
      /\ ForCoverage(j) => "cooldown" \in unsaid'
  BY DEF VenueThrows, Served, books, Stops
<1>2. PICK n \in Taken(j) : Fills(n, n)
  BY DEF VenueThrows
<1>3. n \in Int
  BY TakenIs DEF IInv
<1>4. Idle \in Job /\ Due(Idle) = 0 /\ InHand(Idle, book) /\ ~Over(Idle)
  BY IdleIs DEF Due, InHand, Over
<1>5. held' = held + n /\ apart' = apart + n /\ n = n + Due(Idle)
  BY <1>2, <1>3, <1>4 DEF Fills
<1> QED
  BY <1>1, <1>3, <1>4, <1>5, AnswerKeeps

\* The fill moves from what is about to be booked to the book.
LEMMA BookFillKeeps ==
  ASSUME IInv, NEW j \in Jobs, BookFill(j)
  PROVE  IInv'
<1>1. PICK q \in Job : q = job[j]
  BY DEF IInv, Typed
<1> DEFINE r == [q EXCEPT !.at = "save", !.shot = book']
<1>2. /\ q.at = "book" /\ book' = book + q.side * q.size
      /\ job' = [Raced EXCEPT ![j] = r]
      /\ UNCHANGED <<now, live, file, hedgedAt, netAt, boot, incidents, held, apart,
                     orderedAt, unsaid>>
  BY <1>1 DEF BookFill, IsAt, Signed, Served, history
<1>3. book \in Int /\ q.side * q.size \in Int /\ q.side * q.size = Due(q)
  BY <1>1, <1>2, DueIsInt DEF Due, IInv, Typed
<1>4. book' \in Int
  BY <1>2, <1>3
<1>5. r \in Job /\ r.at = "save" /\ r.act = q.act /\ r.over = q.over
  BY <1>4 DEF Job, Places
<1> HIDE DEF r
<1>6. job \in [Jobs -> Job] /\ Raced \in [Jobs -> Job]
  BY RacedIs DEF IInv, Typed
<1>7. /\ job' \in [Jobs -> Job] /\ job'[j] = r
      /\ \A k \in Jobs \ {j} : job'[k] = Raced[k]
  BY <1>2, <1>5, <1>6
<1>8. Typed'
  BY <1>2, <1>4, <1>7 DEF IInv, Typed
<1>9. Accounted'
  <2>1. Due(job'[j]) = 0 /\ Due(job[j]) = q.side * q.size
    BY <1>1, <1>3, <1>5, <1>7 DEF Due
  <2>2. \A k \in Jobs \ {j} : Due(job'[k]) = Due(job[k])
    BY <1>6, <1>7, RacedIs DEF Due
  <2>3. held \in Int /\ apart \in Int /\ held' \in Int /\ apart' \in Int
    BY <1>2 DEF IInv, Typed
  <2>4. (held' - book') - apart' = ((held - book) - apart) + (Due(job'[j]) - Due(job[j]))
    BY <1>2, <1>3, <2>1, <2>3
  <2> QED
    BY <1>4, <1>7, <2>2, <2>3, <2>4, AccountedMoves DEF IInv
<1>10. AllInHand'
  <2>1. ASSUME NEW k \in Jobs \ {j}
        PROVE  InHand(job'[k], book')
    <3>1. /\ job'[k].act = job[k].act /\ job'[k].at = job[k].at
          /\ job[k].act = "decrease" /\ job[k].at \in {"venue", "book"} => job'[k].raced
      BY <1>6, <1>7, RacedIs
    <3>2. job[k].at = "net" => job[k].act = "net"
      BY DEF IInv, AllInHand, InHand
    <3> QED
      BY <3>1, <3>2 DEF InHand
  <2>2. InHand(job'[j], book')
    BY <1>5, <1>7 DEF InHand
  <2> QED
    BY <2>1, <2>2 DEF AllInHand, InHand
<1>11. Cooled'
  <2>1. \A k \in Jobs : Behind(job[k]) => Behind(job'[k])
    BY <1>1, <1>2, <1>5, <1>6, <1>7, RacedIs DEF Behind
  <2>2. \A k \in Jobs : Over(job'[k]) => Over(job[k])
    BY <1>1, <1>5, <1>6, <1>7, RacedIs DEF Over
  <2> QED
    BY <1>2, <2>1, <2>2, CooledStays DEF IInv
<1>12. BookSaved'
  BY <1>5, <1>7 DEF BookSaved, IsAt
<1> QED
  BY <1>8, <1>9, <1>10, <1>11, <1>12 DEF IInv

LEMMA PassOverKeeps ==
  ASSUME IInv, NEW j \in Jobs, PassOver(j)
  PROVE  IInv'
<1> DEFINE r == After(j, TRUE)
<1>1. /\ r \in Job /\ Due(r) = 0 /\ InHand(r, book) /\ ~Over(r)
      /\ ForCoverage(j) => Behind(r)
  BY NothingToBook DEF IInv, Typed
<1>2. /\ job[j].at = "book" /\ Becomes(j, r) /\ apart' = apart + Signed(j, job[j].size)
      /\ UNCHANGED <<now, live, book, file, hedgedAt, netAt, boot, incidents, held,
                     orderedAt, unsaid>>
  BY DEF PassOver, IsAt, Served, books
<1> HIDE DEF r
<1>3. /\ job' \in [Jobs -> Job] /\ job'[j] = r
      /\ \A k \in Jobs \ {j} : job'[k] = job[k]
  BY <1>1, <1>2, BecomesIs DEF IInv, Typed
<1>4. Due(job[j]) = Signed(j, job[j].size) /\ Due(job[j]) \in Int /\ apart \in Int
  BY <1>2, DueIsInt DEF Due, Signed, IInv, Typed
<1>5. Typed'
  BY <1>2, <1>3, <1>4 DEF IInv, Typed
<1>6. Accounted'
  <2>1. (held' - book') - apart' = ((held - book) - apart) + (Due(job'[j]) - Due(job[j]))
    BY <1>1, <1>2, <1>3, <1>4 DEF IInv, Typed
  <2> QED
    BY <1>2, <1>3, <1>5, <2>1, AccountedMoves DEF IInv, Typed
<1>7. AllInHand'
  BY <1>1, <1>2, <1>3, InHandStays DEF IInv
<1>8. Cooled'
  <2>1. Behind(job[j]) => Behind(r)
    BY <1>1 DEF Behind, ForCoverage
  <2> QED
    BY <1>1, <1>2, <1>3, <2>1, CooledStays DEF IInv
<1>9. BookSaved'
  BY <1>2, <1>3, SavedStays DEF IInv
<1> QED
  BY <1>5, <1>6, <1>7, <1>8, <1>9 DEF IInv

LEMMA SaveBookKeeps ==
  ASSUME IInv, NEW j \in Jobs, SaveBook(j)
  PROVE  IInv'
<1> DEFINE r == After(j, TRUE)
<1>1. /\ r \in Job /\ Due(r) = 0 /\ InHand(r, book) /\ ~Over(r)
      /\ ForCoverage(j) => Behind(r)
  BY NothingToBook DEF IInv, Typed
<1>2. /\ job[j].at = "save" /\ Becomes(j, r)
      /\ UNCHANGED <<now, live, book, hedgedAt, netAt, boot, held, apart, orderedAt>>
  BY DEF SaveBook, IsAt
<1> HIDE DEF r
<1>3. /\ job' \in [Jobs -> Job] /\ job'[j] = r
      /\ \A k \in Jobs \ {j} : job'[k] = job[k]
  BY <1>1, <1>2, BecomesIs DEF IInv, Typed
<1>4. /\ file' = file \/ file' = job[j].shot
      /\ "book" \in unsaid' \/ file' = book
      /\ unsaid' \subseteq unsaid \cup {"book"} /\ unsaid \subseteq unsaid' \cup {"book"}
      /\ incidents' = incidents \/ (incidents < MaxIncidents /\ incidents' = incidents + 1)
  BY DEF SaveBook, Differs, Incident, Served
<1>5. Typed'
  <2>1. file' \in Int /\ incidents' \in 0 .. MaxIncidents
    BY <1>4, SizeIsNat DEF IInv, Typed, Job
  <2> QED
    BY <1>2, <1>3, <1>4, <2>1 DEF IInv, Typed
<1>6. Accounted'
  <2>1. Due(job'[j]) = 0 /\ Due(job[j]) = 0
    BY <1>1, <1>2, <1>3 DEF Due
  <2> QED
    BY <1>2, <1>3, <2>1, AccountedMoves DEF IInv, Typed
<1>7. AllInHand'
  BY <1>1, <1>2, <1>3, InHandStays DEF IInv
<1>8. Cooled'
  <2>1. Behind(job[j]) => Behind(r)
    BY <1>1 DEF Behind, ForCoverage
  <2>2. "cooldown" \in unsaid => "cooldown" \in unsaid'
    BY <1>4
  <2> QED
    BY <1>1, <1>2, <1>3, <2>1, <2>2, CooledStays DEF IInv
<1>9. BookSaved'
  BY <1>2, <1>4 DEF BookSaved
<1> QED
  BY <1>5, <1>6, <1>7, <1>8, <1>9 DEF IInv

-----------------------------------------------------------------------------
(* The ticks.                                                               *)

\* The size booked, as a decrease takes it.
LEMMA ClosesIs ==
  ASSUME IInv, NEW j \in Jobs
  PROVE  Closes(j) \in 0 .. Size /\ Closes(j) <= Abs(book)
  BY SizeIsNat DEF Closes, Abs, IInv, Typed

LEMMA DecideKeeps ==
  ASSUME IInv, NEW j \in Jobs, Decide(j)
  PROVE  IInv'
<1>1. PICK act \in {"hold", "increase", "decrease"} :
        Becomes(j, [Idle EXCEPT
                      !.at = "act",
                      !.act = IF WithinCooldown(hedgedAt) THEN "hold" ELSE act,
                      !.over = now - orderedAt < Cooldown /\ Deciding = {}])
  BY DEF Decide
<1>2. PICK q \in Job : q = Idle
  BY IdleIs
<1> DEFINE a == IF WithinCooldown(hedgedAt) THEN "hold" ELSE act
           o == now - orderedAt < Cooldown /\ Deciding = {}
           r == [q EXCEPT !.at = "act", !.act = a, !.over = o]
<1>3. Becomes(j, r)
  BY <1>1, <1>2
<1>4. a \in Acts /\ o \in BOOLEAN /\ "act" \in Places
  BY DEF Acts, Places
<1>5. r \in Job /\ r.act = a /\ r.at = "act" /\ r.over = o
  <2> HIDE DEF a, o
  <2>1. r.act = a /\ r.at = "act" /\ r.over = o
    BY DEF Job
  <2>2. r \in Job
    BY <1>4 DEF Job
  <2> QED
    BY <2>1, <2>2
<1>6. job[j].at = "idle" /\ ~Behind(job[j])
  BY IdleIs DEF Decide, Behind
<1>7. Over(r) => "cooldown" \in unsaid
  <2> SUFFICES ASSUME Over(r), "cooldown" \notin unsaid PROVE FALSE
    OBVIOUS
  <2>0. a # "hold" /\ o
    <3> HIDE DEF a, o, r
    <3> QED
      BY <1>5 DEF Over
  <2>1. ~WithinCooldown(hedgedAt) /\ now - orderedAt < Cooldown /\ Deciding = {}
    BY <2>0
  <2>2. \A k \in Jobs : ~Behind(job[k])
    BY <2>1 DEF Deciding, ForCoverage, Behind
  <2>3. orderedAt <= hedgedAt
    BY <2>2 DEF IInv, Cooled
  <2>4. now \in Int /\ orderedAt \in Int /\ hedgedAt \in Int
    BY NeverIsPast, SizeIsNat DEF IInv, Typed
  <2> QED
    BY <2>1, <2>3, <2>4, SizeIsNat DEF WithinCooldown
<1>8. UNCHANGED <<now, live, book, file, hedgedAt, netAt, boot, incidents, held, apart,
                  orderedAt, unsaid>>
  BY DEF Decide, Served, books, history
<1> HIDE DEF r
<1>9. InHand(r, book) /\ r.at # "book"
  BY <1>5 DEF InHand
<1> QED
  BY <1>3, <1>5, <1>6, <1>7, <1>8, <1>9, MovesOn

LEMMA ActKeeps ==
  ASSUME IInv, NEW j \in Jobs, Act(j)
  PROVE  IInv'
<1>1. /\ job[j].at = "act" /\ ~Behind(job[j])
      /\ UNCHANGED <<now, live, book, file, hedgedAt, netAt, boot, incidents, held, apart,
                     orderedAt, unsaid>>
  BY DEF Act, IsAt, Behind, Served, books, history
<1>2. PICK q \in Job : q = job[j]
  BY DEF IInv, Typed
<1>3. Over(q) => "cooldown" \in unsaid
  BY <1>2 DEF IInv, Cooled
<1>4. CASE q.act = "increase"
  <2> DEFINE r == [q EXCEPT !.at = "venue", !.size = Size]
  <2>1. Becomes(j, r)
    BY <1>2, <1>4 DEF Act
  <2>2. r.at = "venue" /\ r.act = q.act /\ r.over = q.over
    BY DEF Job
  <2>3. Size \in 0 .. Size /\ "venue" \in Places
    BY SizeIsNat DEF Places
  <2>4. r \in Job
    BY <2>3 DEF Job
  <2> HIDE DEF r
  <2>5. /\ r \in Job /\ Becomes(j, r) /\ r.at # "book"
        /\ InHand(r, book) /\ (Over(r) => Over(q))
    BY <1>4, <2>1, <2>2, <2>4 DEF InHand, Over
  <2> QED
    BY <1>1, <1>3, <2>5, MovesOn
<1>5. CASE q.act = "decrease" /\ Closes(j) > 0
  <2> DEFINE s == IF book > 0 THEN -1 ELSE 1
             n == Closes(j)
             r == [q EXCEPT !.at = "venue", !.size = n, !.side = s]
  <2>1. Becomes(j, r)
    BY <1>2, <1>5 DEF Act
  <2>2. s \in {1, -1} /\ (book > 0 => s = -1) /\ (book < 0 => s = 1)
    BY DEF IInv, Typed
  <2>3. n \in 0 .. Size /\ n <= Abs(book) /\ "venue" \in Places
    BY ClosesIs DEF Places
  <2> HIDE DEF s, n
  <2>4. r.at = "venue" /\ r.act = q.act /\ r.over = q.over /\ r.size = n /\ r.side = s
    BY DEF Job
  <2>5. r \in Job
    BY <2>2, <2>3 DEF Job
  <2> HIDE DEF r
  <2>6. /\ r \in Job /\ Becomes(j, r) /\ r.at # "book"
        /\ InHand(r, book) /\ (Over(r) => Over(q))
    BY <2>1, <2>2, <2>3, <2>4, <2>5 DEF InHand, Over
  <2> QED
    BY <1>1, <1>3, <2>6, MovesOn
<1>6. CASE ~(q.act = "increase") /\ ~(q.act = "decrease" /\ Closes(j) > 0)
  <2>1. PICK i \in Job : i = Idle
    BY IdleIs
  <2> DEFINE r == [i EXCEPT !.act = "net", !.at = "net"]
  <2>2. Becomes(j, r)
    BY <1>2, <1>6, <2>1 DEF Act
  <2>3. r.at = "net" /\ r.act = "net"
    BY DEF Job
  <2>4. r \in Job
    BY DEF Job, Acts, Places
  <2> HIDE DEF r
  <2>5. /\ r \in Job /\ Becomes(j, r) /\ r.at # "book"
        /\ InHand(r, book) /\ (Over(r) => Over(q))
    BY <2>2, <2>3, <2>4 DEF InHand, Over
  <2> QED
    BY <1>1, <1>3, <2>5, MovesOn
<1> QED
  BY <1>4, <1>5, <1>6

LEMMA NetExposureKeeps ==
  ASSUME IInv, NEW j \in Jobs, NetExposure(j)
  PROVE  IInv'
<1>1. /\ job[j].at = "net" /\ ~Behind(job[j])
      /\ UNCHANGED <<now, live, book, file, hedgedAt, netAt, boot, incidents, held, apart,
                     orderedAt, unsaid>>
  BY DEF NetExposure, IsAt, Behind, Served, books, history
<1>2. PICK q \in Job : q = job[j] /\ q.act = "net"
  BY <1>1 DEF IInv, Typed, AllInHand, InHand
<1> DEFINE s == [q EXCEPT !.at = "venue", !.size = Size]
           t == [q EXCEPT !.at = "netCool"]
<1>3. Becomes(j, s) \/ Becomes(j, t) \/ Becomes(j, Idle)
  BY <1>2 DEF NetExposure, Stops
<1>4. s \in Job /\ s.at = "venue" /\ s.act = "net"
  <2>1. Size \in 0 .. Size /\ "venue" \in Places
    BY SizeIsNat DEF Places
  <2>2. s.at = "venue" /\ s.act = q.act
    BY DEF Job
  <2>3. s \in Job
    BY <2>1 DEF Job
  <2> QED
    BY <1>2, <2>2, <2>3
<1>5. t \in Job /\ t.at = "netCool" /\ t.act = "net"
  <2>1. t.at = "netCool" /\ t.act = q.act
    BY DEF Job
  <2>2. t \in Job
    BY DEF Job, Places
  <2> QED
    BY <1>2, <2>1, <2>2
<1> HIDE DEF s, t
<1>6. \A r \in {s, t, Idle} : r \in Job /\ r.at # "book" /\ InHand(r, book) /\ ~Over(r)
  BY <1>4, <1>5, IdleIs DEF InHand, Over
<1>7. PICK r \in {s, t, Idle} : Becomes(j, r)
  BY <1>3
<1> QED
  BY <1>1, <1>6, <1>7, MovesOn

LEMMA CoolKeeps ==
  ASSUME IInv, NEW j \in Jobs, Cool(j)
  PROVE  IInv'
<1>1. PICK q \in Job : q = Idle
  BY IdleIs
<1> DEFINE t == [q EXCEPT !.act = "net", !.at = "net"]
<1>2. t \in Job /\ t.act = "net" /\ t.at = "net"
  BY DEF Job, Acts, Places
<1>3. PICK r \in {t, Idle} : Becomes(j, r)
  BY <1>1 DEF Cool, Stops
<1>4. /\ job[j].at = "cool"
      /\ UNCHANGED <<now, live, book, file, netAt, boot, held, apart, orderedAt>>
      /\ \/ hedgedAt' = now /\ incidents' = incidents /\ unsaid' = unsaid
         \/ /\ hedgedAt' = hedgedAt /\ unsaid' = unsaid \cup {"cooldown"}
            /\ incidents < MaxIncidents /\ incidents' = incidents + 1
  BY DEF Cool, IsAt, Incident, Served
<1> HIDE DEF t
<1>5. r \in Job /\ Due(r) = 0 /\ InHand(r, book) /\ ~Over(r) /\ r.at # "save"
  BY <1>2, IdleIs DEF Due, InHand, Over
<1>6. /\ job' \in [Jobs -> Job] /\ job'[j] = r
      /\ \A k \in Jobs \ {j} : job'[k] = job[k]
  BY <1>3, <1>5, BecomesIs DEF IInv, Typed
<1>7. Typed'
  <2>1. hedgedAt' \in {Never} \cup 0 .. MaxTime /\ incidents' \in 0 .. MaxIncidents
    BY <1>4, SizeIsNat DEF IInv, Typed
  <2>2. unsaid' \subseteq {"book", "cooldown"}
    BY <1>4 DEF IInv, Typed
  <2> QED
    BY <1>4, <1>6, <2>1, <2>2 DEF IInv, Typed
<1>8. Accounted'
  <2>1. Due(job'[j]) = 0 /\ Due(job[j]) = 0
    BY <1>4, <1>5, <1>6 DEF Due
  <2> QED
    BY <1>4, <1>6, <2>1, AccountedMoves DEF IInv, Typed
<1>9. AllInHand'
  BY <1>4, <1>5, <1>6, InHandStays DEF IInv
<1>10. Cooled'
  <2>1. orderedAt <= now /\ ((\E k \in Jobs : Over(job'[k])) => "cooldown" \in unsaid)
    BY <1>5, <1>6 DEF IInv, Cooled
  <2>2. "cooldown" \in unsaid' \/ orderedAt' <= hedgedAt'
    BY <1>4, <2>1
  <2> QED
    BY <1>4, <2>1, <2>2 DEF IInv, Cooled
<1>11. BookSaved'
  <2>1. "book" \in unsaid => "book" \in unsaid'
    BY <1>4
  <2> QED
    BY <1>4, <1>6, <2>1, SavedStays DEF IInv
<1> QED
  BY <1>7, <1>8, <1>9, <1>10, <1>11 DEF IInv

LEMMA NetCoolKeeps ==
  ASSUME IInv, NEW j \in Jobs, NetCool(j)
  PROVE  IInv'
<1>1. /\ job[j].at = "netCool" /\ Becomes(j, Idle) /\ netAt' = now
      /\ UNCHANGED <<now, live, book, file, hedgedAt, boot, incidents, held, apart,
                     orderedAt, unsaid>>
  BY DEF NetCool, IsAt, Stops, Served, history
<1>2. Idle \in Job /\ Due(Idle) = 0 /\ InHand(Idle, book) /\ ~Over(Idle)
  BY IdleIs DEF Due, InHand, Over
<1>3. /\ job' \in [Jobs -> Job] /\ job'[j] = Idle
      /\ \A k \in Jobs \ {j} : job'[k] = job[k]
  BY <1>1, <1>2, BecomesIs DEF IInv, Typed
<1>4. Typed'
  BY <1>1, <1>3 DEF IInv, Typed
<1>5. Accounted'
  <2>1. Due(job'[j]) = 0 /\ Due(job[j]) = 0
    BY <1>1, <1>2, <1>3 DEF Due
  <2> QED
    BY <1>1, <1>3, <2>1, AccountedMoves DEF IInv, Typed
<1>6. AllInHand'
  BY <1>1, <1>2, <1>3, InHandStays DEF IInv
<1>7. Cooled'
  <2>1. ~Behind(job[j])
    BY <1>1 DEF Behind
  <2> QED
    BY <1>1, <1>2, <1>3, <2>1, CooledStays DEF IInv
<1>8. BookSaved'
  BY <1>1, <1>3, SavedStays DEF IInv
<1> QED
  BY <1>4, <1>5, <1>6, <1>7, <1>8 DEF IInv

-----------------------------------------------------------------------------
(* Time, restarts, the file and the reset.                                  *)

\* No handler moves, and nothing is booked.
LEMMA OthersStay ==
  ASSUME IInv, job' = job,
         UNCHANGED <<live, book, file, hedgedAt, netAt, incidents, orderedAt, unsaid>>,
         now' \in 0 .. MaxTime, now <= now', held' \in Int, apart' \in Int,
         held' - apart' = held - apart,
         boot' \in [at : {"ready", "read", "take"}, shot : Int],
         boot'.at = "ready" => boot' = boot
  PROVE  IInv'
<1>1. Typed'
  BY DEF IInv, Typed
<1>2. Accounted'
  <2>1. Pending(job) \in Int /\ book \in Int /\ held \in Int /\ apart \in Int
    BY PendingIsInt DEF IInv, Typed
  <2>2. held = book + apart + Pending(job)
    BY DEF IInv, Accounted
  <2>3. held' = book' + apart' + Pending(job')
    BY <2>1, <2>2
  <2> QED
    BY <2>3 DEF Accounted
<1>3. AllInHand'
  BY DEF IInv, AllInHand, InHand
<1>4. Cooled'
  <2>1. now \in Int /\ now' \in Int /\ orderedAt \in Int
    BY NeverIsPast, SizeIsNat DEF IInv, Typed
  <2>2. orderedAt' <= now'
    BY <2>1 DEF IInv, Cooled
  <2> QED
    BY <2>2 DEF IInv, Cooled
<1>5. BookSaved'
  BY DEF IInv, BookSaved, IsAt
<1> QED
  BY <1>1, <1>2, <1>3, <1>4, <1>5 DEF IInv

LEMMA BuyUnbookedKeeps ==
  ASSUME IInv, BuyUnbooked
  PROVE  IInv'
<1>1. /\ UNCHANGED <<now, live, book, file, hedgedAt, netAt, incidents, orderedAt, unsaid>>
      /\ job' = job /\ boot' = boot
      /\ held' = held + Size /\ apart' = apart + Size
  BY DEF BuyUnbooked, books
<1>2. /\ held' \in Int /\ apart' \in Int /\ held' - apart' = held - apart
      /\ now' \in 0 .. MaxTime /\ now <= now'
      /\ boot' \in [at : {"ready", "read", "take"}, shot : Int]
  BY <1>1, SizeIsNat DEF IInv, Typed
<1> QED
  BY <1>1, <1>2, OthersStay

LEMMA TickKeeps ==
  ASSUME IInv, Tick
  PROVE  IInv'
<1>1. /\ UNCHANGED <<live, book, file, hedgedAt, netAt, incidents, orderedAt, unsaid>>
      /\ job' = job /\ boot' = boot /\ held' = held /\ apart' = apart
      /\ now < MaxTime /\ now' = now + 1
  BY DEF Tick, books, history
<1>2. /\ held' \in Int /\ apart' \in Int /\ held' - apart' = held - apart
      /\ now' \in 0 .. MaxTime /\ now <= now'
      /\ boot' \in [at : {"ready", "read", "take"}, shot : Int]
  BY <1>1, SizeIsNat DEF IInv, Typed
<1> QED
  BY <1>1, <1>2, OthersStay

LEMMA ReadFileKeeps ==
  ASSUME IInv, ReadFile
  PROVE  IInv'
<1>1. /\ UNCHANGED <<now, live, book, file, hedgedAt, netAt, incidents, orderedAt, unsaid>>
      /\ job' = job /\ boot' = [at |-> "take", shot |-> file]
      /\ held' = held /\ apart' = apart
  BY DEF ReadFile, history
<1>2. /\ held' \in Int /\ apart' \in Int /\ held' - apart' = held - apart
      /\ now' \in 0 .. MaxTime /\ now <= now'
      /\ boot' \in [at : {"ready", "read", "take"}, shot : Int] /\ boot'.at # "ready"
  BY <1>1, SizeIsNat DEF IInv, Typed
<1> QED
  BY <1>1, <1>2, OthersStay

LEMMA RestartKeeps ==
  ASSUME IInv, Restart
  PROVE  IInv'
<1>1. /\ file' \in {file, 0} /\ book' = 0 /\ hedgedAt' = Never /\ netAt' = Never
      /\ boot' = [at |-> "read", shot |-> 0] /\ job' = [j \in Jobs |-> Idle]
      /\ apart' = held /\ unsaid' = unsaid \cup {"cooldown"}
      /\ incidents < MaxIncidents /\ incidents' = incidents + 1
      /\ UNCHANGED <<now, live, held, orderedAt>>
  BY DEF Restart, Incident
<1>2. job' \in [Jobs -> Job]
  BY <1>1, IdleIs
<1>3. Typed'
  <2>1. incidents' \in 0 .. MaxIncidents /\ boot' \in [at : {"ready", "read", "take"}, shot : Int]
    BY <1>1, SizeIsNat DEF IInv, Typed
  <2>2. unsaid' \subseteq {"book", "cooldown"} /\ file' \in Int
    BY <1>1 DEF IInv, Typed
  <2> QED
    BY <1>1, <1>2, <2>1, <2>2 DEF IInv, Typed
<1>4. Accounted'
  <2>1. \A j \in Jobs : Terms(job')[j] = 0
    BY <1>1, IdleIs DEF Terms, Due
  <2>2. Pending(job') = 0
    BY <2>1, SumZero, BookConstants DEF Pending
  <2>3. held' = book' + apart' + Pending(job')
    BY <1>1, <2>2 DEF IInv, Typed
  <2> QED
    BY <2>3 DEF Accounted
<1>5. AllInHand'
  BY <1>1, IdleIs DEF AllInHand, InHand
<1>6. Cooled'
  BY <1>1, IdleIs DEF IInv, Cooled, Over
<1>7. BookSaved'
  BY <1>1 DEF BookSaved
<1> QED
  BY <1>3, <1>4, <1>5, <1>6, <1>7 DEF IInv

\* What another book leaves of the handlers that had read the one before.
LEMMA RacedInHand ==
  ASSUME IInv, NEW k \in Jobs
  PROVE  /\ Due(Raced[k]) = Due(job[k])
         /\ Behind(Raced[k]) <=> Behind(job[k])
         /\ Over(Raced[k]) <=> Over(job[k])
         /\ \A b : InHand(Raced[k], b)
<1>1. job \in [Jobs -> Job]
  BY DEF IInv, Typed
<1>2. /\ Raced[k].act = job[k].act /\ Raced[k].at = job[k].at
      /\ Raced[k].side = job[k].side /\ Raced[k].size = job[k].size
      /\ Raced[k].over = job[k].over
      /\ job[k].act = "decrease" /\ job[k].at \in {"venue", "book"} => Raced[k].raced
  BY <1>1, RacedIs
<1>3. job[k].at = "net" => job[k].act = "net"
  BY DEF IInv, AllInHand, InHand
<1> QED
  BY <1>2, <1>3 DEF Due, Behind, Over, InHand

LEMMA TakeFileKeeps ==
  ASSUME IInv, TakeFile
  PROVE  IInv'
<1>1. PICK size \in IF boot.shot = 0 THEN {0, book} ELSE {boot.shot} :
        book' = size /\ apart' = apart + book - size /\ Differs(file # size)
  BY DEF TakeFile
<1>2. /\ boot' = [at |-> "ready", shot |-> 0] /\ job' = Raced
      /\ UNCHANGED <<now, live, file, hedgedAt, netAt, incidents, held, orderedAt>>
  BY DEF TakeFile
<1>3. /\ size \in Int /\ book \in Int /\ apart \in Int /\ held \in Int
      /\ job \in [Jobs -> Job]
  BY DEF IInv, Typed
<1>4. job' \in [Jobs -> Job]
  BY <1>2, <1>3, RacedIs
<1>5. /\ "book" \in unsaid' \/ file' = book'
      /\ "cooldown" \in unsaid' <=> "cooldown" \in unsaid
      /\ unsaid' \subseteq unsaid \cup {"book"}
  BY <1>1, <1>2 DEF Differs
<1>6. Typed'
  <2>1. boot' \in [at : {"ready", "read", "take"}, shot : Int] /\ book' \in Int /\ apart' \in Int
    BY <1>1, <1>2, <1>3
  <2>2. unsaid' \subseteq {"book", "cooldown"}
    BY <1>5 DEF IInv, Typed
  <2> QED
    BY <1>2, <1>4, <2>1, <2>2 DEF IInv, Typed
<1>7. Accounted'
  <2>1. Pending(job') = Pending(job) /\ Pending(job) \in Int
    BY <1>2, <1>3, <1>4, RacedInHand, PendingStays, PendingIsInt
  <2>2. held = book + apart + Pending(job)
    BY DEF IInv, Accounted
  <2>3. held' = book' + apart' + Pending(job')
    BY <1>1, <1>2, <1>3, <2>1, <2>2
  <2> QED
    BY <2>3 DEF Accounted
<1>8. AllInHand'
  BY <1>2, RacedInHand DEF AllInHand, InHand
<1>9. Cooled'
  BY <1>2, <1>5, RacedInHand DEF IInv, Cooled, Behind, Over
<1>10. BookSaved'
  BY <1>5 DEF BookSaved
<1> QED
  BY <1>6, <1>7, <1>8, <1>9, <1>10 DEF IInv

LEMMA ResetMemoryKeeps ==
  ASSUME IInv, NEW j \in Jobs, ResetMemory(j)
  PROVE  IInv'
<1>1. PICK q \in Job : q = Idle
  BY IdleIs
<1> DEFINE r == [q EXCEPT !.act = "reset", !.at = "remove"]
<1>2. /\ job[j].at = "idle" /\ job' = [Raced EXCEPT ![j] = r]
      /\ book' = 0 /\ apart' = apart + book
      /\ incidents < MaxIncidents /\ incidents' = incidents + 1
      /\ unsaid' = unsaid \cup {"book"}
      /\ UNCHANGED <<now, live, file, hedgedAt, netAt, boot, held, orderedAt>>
  BY <1>1, IdleIs DEF ResetMemory, Incident, Differs
<1>3. r \in Job /\ r.act = "reset" /\ r.at = "remove"
  BY DEF Job, Acts, Places
<1> HIDE DEF r
<1>4. Due(r) = 0 /\ ~Over(r) /\ \A b : InHand(r, b)
  BY <1>3 DEF Due, Over, InHand
<1>5. job \in [Jobs -> Job] /\ book \in Int /\ apart \in Int /\ held \in Int
  BY DEF IInv, Typed
<1>6. /\ job' \in [Jobs -> Job] /\ job'[j] = r
      /\ \A k \in Jobs \ {j} : job'[k] = Raced[k]
  BY <1>2, <1>3, <1>5, RacedIs
<1>7. Typed'
  <2>1. incidents' \in 0 .. MaxIncidents /\ apart' \in Int
    BY <1>2, <1>5, SizeIsNat DEF IInv, Typed
  <2>2. unsaid' \subseteq {"book", "cooldown"}
    BY <1>2 DEF IInv, Typed
  <2> QED
    BY <1>2, <1>6, <2>1, <2>2 DEF IInv, Typed
<1>8. Accounted'
  <2>1. Due(job'[j]) = 0 /\ Due(job[j]) = 0
    BY <1>2, <1>4, <1>6 DEF Due
  <2>2. \A k \in Jobs \ {j} : Due(job'[k]) = Due(job[k])
    BY <1>6, RacedInHand
  <2>3. /\ (held' - book') - apart' = ((held - book) - apart) + (Due(job'[j]) - Due(job[j]))
        /\ held' \in Int /\ book' \in Int /\ apart' \in Int
    BY <1>2, <1>5, <2>1
  <2> QED
    BY <1>6, <2>2, <2>3, AccountedMoves DEF IInv
<1>9. AllInHand'
  <2>1. \A k \in Jobs : InHand(job'[k], book')
    BY <1>4, <1>6, RacedInHand
  <2> QED
    BY <2>1 DEF AllInHand, InHand
<1>10. Cooled'
  <2>1. ~Behind(job[j])
    BY <1>2 DEF Behind
  <2>2. \A k \in Jobs : Behind(job[k]) => Behind(job'[k])
    BY <1>6, <2>1, RacedInHand
  <2>3. \A k \in Jobs : Over(job'[k]) => Over(job[k])
    BY <1>4, <1>6, RacedInHand
  <2> QED
    BY <1>2, <2>2, <2>3, CooledStays DEF IInv
<1>11. BookSaved'
  BY <1>2 DEF BookSaved
<1> QED
  BY <1>7, <1>8, <1>9, <1>10, <1>11 DEF IInv

LEMMA RemoveFileKeeps ==
  ASSUME IInv, NEW j \in Jobs, RemoveFile(j)
  PROVE  IInv'
<1>1. /\ job[j].at = "remove" /\ Becomes(j, Idle) /\ file' = 0 /\ Differs(book # 0)
      /\ UNCHANGED <<now, live, book, hedgedAt, netAt, boot, incidents, held, apart, orderedAt>>
  BY DEF RemoveFile, IsAt, Stops, Served
<1>2. Idle \in Job /\ Due(Idle) = 0 /\ InHand(Idle, book) /\ ~Over(Idle)
  BY IdleIs DEF Due, InHand, Over
<1>3. /\ job' \in [Jobs -> Job] /\ job'[j] = Idle
      /\ \A k \in Jobs \ {j} : job'[k] = job[k]
  BY <1>1, <1>2, BecomesIs DEF IInv, Typed
<1>4. /\ "book" \in unsaid' \/ file' = book'
      /\ "cooldown" \in unsaid' <=> "cooldown" \in unsaid
      /\ unsaid' \subseteq unsaid \cup {"book"}
  BY <1>1 DEF Differs
<1>5. Typed'
  BY <1>1, <1>3, <1>4 DEF IInv, Typed
<1>6. Accounted'
  <2>1. Due(job'[j]) = 0 /\ Due(job[j]) = 0
    BY <1>1, <1>2, <1>3 DEF Due
  <2> QED
    BY <1>1, <1>3, <2>1, AccountedMoves DEF IInv, Typed
<1>7. AllInHand'
  BY <1>1, <1>2, <1>3, InHandStays DEF IInv
<1>8. Cooled'
  <2>1. ~Behind(job[j])
    BY <1>1 DEF Behind
  <2> QED
    BY <1>1, <1>2, <1>3, <1>4, <2>1, CooledStays DEF IInv
<1>9. BookSaved'
  BY <1>4 DEF BookSaved
<1> QED
  BY <1>5, <1>6, <1>7, <1>8, <1>9 DEF IInv

-----------------------------------------------------------------------------
(* The invariant, and what it says.                                         *)

LEMMA InitKeeps ==
  Init => IInv
<1> SUFFICES ASSUME Init PROVE IInv
  OBVIOUS
<1>1. job = [j \in Jobs |-> Idle] /\ job \in [Jobs -> Job]
  BY IdleIs DEF Init
<1>2. Typed
  BY <1>1, SizeIsNat, NeverIsPast DEF Init, Typed
<1>3. Accounted
  <2>1. \A j \in Jobs : Terms(job)[j] = 0
    BY <1>1, IdleIs DEF Terms, Due
  <2>2. Pending(job) = 0
    BY <2>1, SumZero, BookConstants DEF Pending
  <2> QED
    BY <2>2 DEF Init, Accounted
<1>4. AllInHand
  BY <1>1, IdleIs DEF AllInHand, InHand
<1>5. Cooled
  <2>1. Never <= 0
    BY SizeIsNat DEF Never
  <2>2. orderedAt <= now /\ orderedAt <= hedgedAt
    BY <2>1, NeverIsPast DEF Init
  <2> QED
    BY <1>1, <2>2, IdleIs DEF Cooled, Over
<1>6. BookSaved
  BY DEF Init, BookSaved
<1> QED
  BY <1>2, <1>3, <1>4, <1>5, <1>6 DEF IInv

LEMMA StepKeeps ==
  IInv /\ [Next]_vars => IInv'
<1> SUFFICES ASSUME IInv, [Next]_vars PROVE IInv'
  OBVIOUS
<1>1. ASSUME NEW j \in Jobs, OrderStep(j) PROVE IInv'
  BY <1>1, StartOrderKeeps, VenueAnswersKeeps, VenueThrowsKeeps, BookFillKeeps,
     PassOverKeeps, SaveBookKeeps DEF OrderStep
<1>2. ASSUME NEW j \in Jobs, TickStep(j) PROVE IInv'
  BY <1>2, DecideKeeps, ActKeeps, CoolKeeps, NetExposureKeeps, NetCoolKeeps DEF TickStep
<1>3. ASSUME NEW j \in Jobs, ResetMemory(j) \/ RemoveFile(j) PROVE IInv'
  BY <1>3, ResetMemoryKeeps, RemoveFileKeeps
<1>4. CASE BuyUnbooked \/ Tick \/ Restart \/ ReadFile \/ TakeFile
  BY <1>4, BuyUnbookedKeeps, TickKeeps, RestartKeeps, ReadFileKeeps, TakeFileKeeps
<1>5. CASE UNCHANGED vars
  <2>1. /\ UNCHANGED <<now, live, book, file, hedgedAt, netAt, incidents, orderedAt, unsaid>>
        /\ job' = job /\ boot' = boot /\ held' = held /\ apart' = apart
    BY <1>5 DEF vars, books, history
  <2>2. /\ held' \in Int /\ apart' \in Int /\ held' - apart' = held - apart
        /\ now' \in 0 .. MaxTime /\ now <= now'
        /\ boot' \in [at : {"ready", "read", "take"}, shot : Int]
    BY <2>1, SizeIsNat DEF IInv, Typed
  <2> QED
    BY <2>1, <2>2, OthersStay
<1> QED
  BY <1>1, <1>2, <1>3, <1>4, <1>5 DEF Next

\* A part of a size is closed, none of it turned around.
LEMMA Reduces ==
  ASSUME NEW b \in Int, NEW s \in {1, -1}, NEW n \in Nat, n <= Abs(b),
         b > 0 => s = -1, b < 0 => s = 1
  PROVE  Abs(b + s * n) = Abs(b) - n
  BY DEF Abs

LEMMA InvariantSays ==
  IInv => BookInv /\ SpacedByCooldown
<1> SUFFICES ASSUME IInv PROVE BookInv /\ SpacedByCooldown
  OBVIOUS
<1>1. TypeOK
  BY DEF IInv, Typed, TypeOK, Job, Acts
<1>2. BookAccounted
  BY AccountedIs DEF IInv, Typed
<1>3. ReducesWhatIsBooked
  <2> SUFFICES ASSUME NEW j \in Unbooked, job[j].act = "decrease", ~job[j].raced
               PROVE  Abs(book + Signed(j, job[j].size)) = Abs(book) - job[j].size
    BY DEF ReducesWhatIsBooked
  <2>1. j \in Jobs /\ job[j].at = "book"
    BY DEF Unbooked, IsAt
  <2>2. /\ job[j].size <= Abs(book)
        /\ book > 0 => job[j].side = -1
        /\ book < 0 => job[j].side = 1
    BY <2>1 DEF IInv, AllInHand, InHand
  <2>3. book \in Int /\ job[j].side \in {1, -1} /\ job[j].size \in Nat
    BY <2>1, SizeIsNat DEF IInv, Typed, Job
  <2> QED
    BY <2>2, <2>3, Reduces DEF Signed
<1>4. SpacedByCooldown
  BY DEF IInv, Cooled, Over, SpacedByCooldown, ForCoverage
<1> QED
  BY <1>1, <1>2, <1>3, <1>4 DEF IInv, BookInv

\* The book, its file and the account agree, and the loop reduces: updateHedgeLedger
\* behind /deribit/order and /loop/tick, loadHedgeLedger and /admin/reset, for any
\* number of handlers, any sizes and any number of times the connector tries.
THEOREM BookAgrees == Spec => []BookInv
<1>1. Spec => []IInv
  BY InitKeeps, StepKeeps, PTL DEF Spec
<1> QED
  BY <1>1, InvariantSays, PTL

\* Within the cooldown of an order for the coverage another is placed only by ticks
\* that overlap, after one that threw, or after a restart: how POST /loop/tick reads
\* and sets hedgeActionCooldownByCoverage, for any cooldown and any number of ticks.
THEOREM OrdersAreSpaced == Spec => []SpacedByCooldown
<1>1. Spec => []IInv
  BY InitKeeps, StepKeeps, PTL DEF Spec
<1> QED
  BY <1>1, InvariantSays, PTL
=============================================================================
