--------------------------- MODULE BiweeklyProofs ---------------------------
(***************************************************************************)
(* Proofs about BiweeklySubscription, for any number of protections,        *)
(* overlapping cycles, requests and resolvers, any tenor, day length and    *)
(* grace, and any number of failures.                                       *)
(***************************************************************************)
EXTENDS BiweeklyProperties, TLAPS

Firing  == {"accrue", "due"}
Closing == {"read", "write", "settle"}
AtWork  == JobPc \ {"idle", "loop"}

\* What a handler that is owed one more row of a ledger excludes: another
\* handler owed the same row.
Claim(j) ==
  CASE j.pc = "settle"  -> {<<"settlement", j.pos>>}
    [] j.pc \in Firing  -> {<<"payout", j.pos>>}
    [] OTHER            -> {}

\* What the rows say when a handler's local state is j.
JobInv(j) ==
  /\ \A p \in j.todo : Exists(p)
  /\ j.pc \in AtWork => j.pos \in Protections /\ Exists(j.pos)
  /\ j.pc \in {"clear", "write", "settle"} => j.days # 0
  /\ j.pc = "clear" => j.by # "trigger"
  /\ j.pc = "settle" =>
       /\ Closed(j.pos) /\ settlements[j.pos] = <<>>
       /\ row[j.pos].days = j.days
  /\ j.pc \in Firing => row[j.pos].status # "active" /\ triggerDue[j.pos] = 0
  /\ j.pc = "accrue" => poolPayouts[j.pos] = 0
  /\ (j.pc \in Closing /\ j.by = "trigger") => triggerDue[j.pos] = 1

\* What the ledgers of a protection say of its row.
RowInv(p) ==
  /\ Closed(p) => Exists(p) /\ row[p].days # 0
  /\ ~Closed(p) => row[p].days = 0
  /\ settlements[p] # <<>> => Closed(p)
  /\ row[p].status \in {"absent", "active"} => triggerDue[p] = 0 /\ poolPayouts[p] = 0
  /\ triggerDue[p] <= 1 /\ poolPayouts[p] <= 1
  /\ row[p].by = "trigger" => triggerDue[p] = 1

\* The inductive invariant.  A settlement or payout row is written by the one
\* handler that won the guarded UPDATE before it.
BiweeklyInv ==
  /\ BiweeklyTypeOK
  /\ \A h \in Handlers : JobInv(job[h])
  /\ \A p \in Protections : RowInv(p)
  /\ \A h, g \in Handlers : h # g => Claim(job[h]) \cap Claim(job[g]) = {}

-----------------------------------------------------------------------------
(* The shapes a step can have.                                             *)

\* No handler is owed a row twice, whatever h becomes.
LEMMA ClaimsApart ==
  ASSUME BiweeklyInv, NEW h \in Handlers, NEW j \in Job, SetJob(h, j),
         \A g \in Handlers \ {h} : Claim(j) \cap Claim(job[g]) = {}
  PROVE  \A a, b \in Handlers : a # b => Claim(job'[a]) \cap Claim(job'[b]) = {}
<1>1. job'[h] = j /\ \A g \in Handlers \ {h} : job'[g] = job[g]
  BY DEF SetJob, BiweeklyInv, BiweeklyTypeOK
<1> QED
  BY <1>1 DEF BiweeklyInv

\* A step of h sets its own local state and leaves those of the others.
LEMMA JobTypes ==
  ASSUME BiweeklyInv, NEW h \in Handlers, NEW j \in Job, SetJob(h, j)
  PROVE  /\ job' \in [Handlers -> Job]
         /\ job'[h] = j
         /\ \A g \in Handlers \ {h} : job'[g] = job[g] /\ job[g] \in Job
  BY DEF SetJob, BiweeklyInv, BiweeklyTypeOK

\* A handler goes on and writes nothing.
LEMMA JobStep ==
  ASSUME BiweeklyInv, NEW h \in Handlers, NEW j \in Job, JobInv(j),
         Claim(j) \subseteq Claim(job[h]),
         Proceed(h, j) \/ Throws(h, j)
  PROVE  BiweeklyInv'
<1> USE DEF BiweeklyInv
<1>1. /\ SetJob(h, j) /\ faults' \in Nat
      /\ UNCHANGED <<row, settlements, triggerDue, poolPayouts, expiryDue, clock>>
  BY DEF Proceed, Throws, Fault, NoFault, tables, ledgers, BiweeklyTypeOK
<1>2. BiweeklyTypeOK'
  BY <1>1, JobTypes DEF BiweeklyTypeOK
<1>3. ASSUME NEW g \in Handlers PROVE JobInv(job[g])'
  <2>1. CASE g = h
    BY ZenonT(40), <1>1, <2>1, JobTypes DEF JobInv, Exists, Closed
  <2>2. CASE g # h
    <3>1. job'[g] = job[g] /\ JobInv(job[g])
      BY <1>1, <2>2, JobTypes
    <3> QED
      BY <1>1, <3>1 DEF JobInv, Exists, Closed
  <2> QED BY <2>1, <2>2
<1>4. \A p \in Protections : RowInv(p)'
  BY <1>1 DEF RowInv, Exists, Closed
<1>5. \A g \in Handlers \ {h} : Claim(j) \cap Claim(job[g]) = {}
  OBVIOUS
<1>6. \A a, b \in Handlers : a # b => Claim(job'[a]) \cap Claim(job'[b]) = {}
  BY <1>1, <1>5, ClaimsApart
<1> QED
  BY <1>2, <1>3, <1>4, <1>6

\* A handler writes columns of p that neither close it nor make it active
\* again.
LEMMA RowStep ==
  ASSUME BiweeklyInv, NEW h \in Handlers, NEW j \in Job,
         NEW p \in Protections, NEW r \in Row,
         SetRow(p, r), SetJob(h, j), faults' \in Nat, UNCHANGED <<ledgers, clock>>,
         r.status # "absent",
         r.status = "active" => row[p].status \in {"absent", "active"},
         r.by = row[p].by, r.days = row[p].days,
         JobInv(j)',
         \A g \in Handlers \ {h} : Claim(j) \cap Claim(job[g]) = {}
  PROVE  BiweeklyInv'
<1> USE DEF BiweeklyInv
<1>1. /\ UNCHANGED <<settlements, triggerDue, poolPayouts, expiryDue, clock>>
      /\ row' \in [Protections -> Row]
      /\ row'[p] = r
      /\ \A q \in Protections \ {p} : row'[q] = row[q]
  BY DEF SetRow, ledgers, BiweeklyTypeOK
<1>2. BiweeklyTypeOK'
  BY <1>1, JobTypes DEF BiweeklyTypeOK
<1>3. ASSUME NEW g \in Handlers PROVE JobInv(job[g])'
  <2>1. CASE g = h
    BY <2>1, JobTypes DEF JobInv, Exists, Closed
  <2>2. CASE g # h
    <3>1. job'[g] = job[g] /\ job[g] \in Job /\ JobInv(job[g])
      BY <2>2, JobTypes
    <3>2. \A q \in Protections :
            /\ Exists(q) => Exists(q)'
            /\ Closed(q)' = Closed(q) /\ row'[q].days = row[q].days
            /\ (Exists(q) /\ row[q].status # "active") => row'[q].status # "active"
      BY <1>1 DEF Exists, Closed
    <3>3. job[g].todo \subseteq Protections
      BY <3>1 DEF Job
    <3>4. Closing \cup Firing \cup {"clear", "write", "settle", "accrue"} \subseteq AtWork
      BY DEF Closing, Firing, AtWork, JobPc
    <3> QED
      BY <1>1, <3>1, <3>2, <3>3, <3>4 DEF JobInv
  <2> QED BY <2>1, <2>2
<1>4. ASSUME NEW q \in Protections PROVE RowInv(q)'
  <2>1. CASE q = p
    BY <1>1, <2>1 DEF RowInv, Exists, Closed, Row, Status
  <2>2. CASE q # p
    BY <1>1, <2>2 DEF RowInv, Exists, Closed
  <2> QED BY <2>1, <2>2
<1>5. \A a, b \in Handlers : a # b => Claim(job'[a]) \cap Claim(job'[b]) = {}
  BY ClaimsApart
<1> QED
  BY <1>2, <1>3, <1>4, <1>5

-----------------------------------------------------------------------------
(* Local states that the handlers pass through.                            *)

\* Only a handler about to write a settlement or payout row has a claim.
LEMMA QuietClaim ==
  ASSUME NEW j \in Job, j.pc \notin Firing \cup {"settle"}
  PROVE  Claim(j) = {}
  BY DEF Claim

\* Claims meet only on the same row of the same protection.
LEMMA ClaimShapes ==
  ASSUME NEW j, NEW k,
         ~(j.pos = k.pos /\ j.pc = "settle" /\ k.pc = "settle"),
         ~(j.pos = k.pos /\ j.pc \in Firing /\ k.pc \in Firing)
  PROVE  Claim(j) \cap Claim(k) = {}
<1> SUFFICES ASSUME NEW c \in Claim(j), c \in Claim(k) PROVE FALSE
  OBVIOUS
<1>1. /\ c[2] = j.pos /\ c[1] = IF j.pc = "settle" THEN "settlement" ELSE "payout"
      /\ c[2] = k.pos /\ c[1] = IF k.pc = "settle" THEN "settlement" ELSE "payout"
      /\ j.pc \in Firing \cup {"settle"} /\ k.pc \in Firing \cup {"settle"}
  BY DEF Claim, Firing
<1> QED
  BY <1>1 DEF Firing

\* Two handlers are never owed the same row.
LEMMA OneClaimant ==
  ASSUME BiweeklyInv, NEW h \in Handlers, NEW g \in Handlers \ {h}, job[g].pos = job[h].pos
  PROVE  /\ job[h].pc = "settle" => job[g].pc # "settle"
         /\ job[h].pc \in Firing => job[g].pc \notin Firing
<1>1. Claim(job[h]) \cap Claim(job[g]) = {}
  BY DEF BiweeklyInv
<1>2. \A j : /\ j.pc = "settle" => <<"settlement", j.pos>> \in Claim(j)
             /\ j.pc \in Firing => <<"payout", j.pos>> \in Claim(j)
  BY DEF Claim, Firing
<1> QED
  BY <1>1, <1>2

\* Records of local state are well typed.
LEMMA JobShapes ==
  ASSUME NEW j \in Job, NEW pc \in JobPc, NEW S \in SUBSET Protections,
         NEW q \in Protections \cup {NoProtection}, NEW b \in ClosedBy,
         NEW n \in Nat, NEW d \in 0..MaxTenorDays
  PROVE  /\ [j EXCEPT !.pc = pc] \in Job
         /\ [j EXCEPT !.todo = S] \in Job
         /\ [j EXCEPT !.pos = q] \in Job
         /\ [j EXCEPT !.by = b] \in Job
         /\ [j EXCEPT !.at = n] \in Job
         /\ [j EXCEPT !.now = n] \in Job
         /\ [j EXCEPT !.days = d] \in Job
  BY DEF Job

\* An idle handler satisfies the invariant whatever the rows say.
LEMMA Idle == IdleJob \in Job /\ JobInv(IdleJob) /\ Claim(IdleJob) = {}
<1>1. IdleJob \in Job
  BY TimeAssumption DEF IdleJob, Job, JobPc, ClosedBy
<1>2. JobInv(IdleJob)
  BY DEF IdleJob, JobInv, AtWork, Firing, Closing
<1> QED
  BY <1>1, <1>2, QuietClaim DEF IdleJob, Firing

\* A handler back in its loop: nothing but its list matters.
LEMMA Looping ==
  ASSUME NEW j \in Job, j.pc = "loop", \A p \in j.todo : Exists(p)
  PROVE  JobInv(j) /\ Claim(j) = {}
<1>1. j.pc \notin AtWork \cup Firing \cup Closing \cup {"clear", "write", "settle", "accrue"}
  BY DEF AtWork, Firing, Closing
<1> QED
  BY <1>1, QuietClaim DEF JobInv

\* So does one whose close has ended.
LEMMA Returned ==
  ASSUME BiweeklyInv, NEW h \in Handlers
  PROVE  Return(h) \in Job /\ JobInv(Return(h)) /\ Claim(Return(h)) = {}
<1>1. job[h] \in Job /\ \A p \in job[h].todo : Exists(p)
  BY DEF BiweeklyInv, BiweeklyTypeOK, JobInv
<1>2. CASE h \in Cycles
  <2> DEFINE j == job[h]
  <2>1. Return(h) = [IdleJob EXCEPT !.pc = "loop", !.todo = j.todo, !.by = j.by, !.now = j.now]
    BY <1>2 DEF Return
  <2>2. j.todo \in SUBSET Protections /\ j.by \in ClosedBy /\ j.now \in Nat
    BY <1>1 DEF Job
  <2>3. Return(h) \in Job /\ Return(h).pc = "loop" /\ Return(h).todo = j.todo
    BY <2>1, <2>2, Idle DEF Job, JobPc
  <2> QED
    BY <1>1, <2>3, Looping
<1>3. CASE h \notin Cycles
  BY <1>3, Idle DEF Return
<1> QED
  BY <1>2, <1>3

\* What may run for a while keeps on being listed: rows do not vanish.
LEMMA StillLooping ==
  ASSUME NEW j \in Job, JobInv(j), j.pc \in {"idle", "loop"},
         \A p \in Protections : Exists(p) => Exists(p)'
  PROVE  JobInv(j)'
<1>1. j.pc \notin AtWork \cup Firing \cup Closing \cup {"clear", "write", "settle", "accrue"}
  BY DEF AtWork, Firing, Closing
<1>2. j.todo \subseteq Protections
  BY DEF Job
<1> QED
  BY <1>1, <1>2 DEF JobInv

-----------------------------------------------------------------------------
(* Closing.                                                                *)

\* ceil and clamp stay within the tenor
LEMMA DaysBilledType ==
  ASSUME NEW c \in Nat, NEW a \in Nat
  PROVE  DaysBilled(c, a) \in 1..MaxTenorDays
<1> DEFINE held == a - c - GraceTicks
           x    == IF held > 0 THEN CeilDiv(held, DayTicks) ELSE 0
<1>1. held \in Int
  BY TimeAssumption
<1>2. x \in Int
  BY <1>1, TimeAssumption DEF CeilDiv
<1>3. Clamp(1, x, MaxTenorDays) \in 1..MaxTenorDays
  BY <1>2, TimeAssumption DEF Clamp
<1> QED
  BY <1>3 DEF DaysBilled

\* The close handler reads the row: it goes on with at least one day to bill.
LEMMA ReadStateInv ==
  ASSUME BiweeklyInv, NEW h \in Handlers, ReadState(h)
  PROVE  BiweeklyInv'
<1> DEFINE j == job[h]
           d == IF j.by = "natural_expiry" THEN MaxTenorDays
                ELSE DaysBilled(row[j.pos].created, j.at)
           n == [j EXCEPT !.pc = "write", !.days = d]
<1>1. /\ j \in Job /\ JobInv(j) /\ j.pc = "read"
      /\ j.pos \in Protections /\ row[j.pos] \in Row
  BY DEF ReadState, BiweeklyInv, BiweeklyTypeOK, JobInv, AtWork, JobPc
<1>2. d \in 1..MaxTenorDays
  <2>1. row[j.pos].created \in Nat /\ j.at \in Nat
    BY <1>1 DEF Job, Row
  <2>2. DaysBilled(row[j.pos].created, j.at) \in 1..MaxTenorDays
    BY <2>1, DaysBilledType
  <2>3. MaxTenorDays \in 1..MaxTenorDays
    BY TimeAssumption
  <2> QED
    BY <2>2, <2>3
<1> HIDE DEF d
<1>3. n \in Job /\ n.pc = "write" /\ n.days # 0 /\ n.pos = j.pos /\ n.todo = j.todo /\ n.by = j.by
  <2>1. d \in 0..MaxTenorDays /\ d # 0
    BY <1>2, TimeAssumption
  <2> HIDE DEF j
  <2> QED
    BY <1>1, <2>1 DEF Job, JobPc
<1>4. JobInv(n)
  BY <1>1, <1>3 DEF JobInv, AtWork, JobPc, Firing, Closing
<1>5. Claim(n) = {}
  BY <1>3, QuietClaim DEF Firing
<1>6. CASE Proceed(h, Return(h)) \/ Throws(h, Return(h))
  BY <1>6, Returned, JobStep
<1>7. CASE Proceed(h, n)
  BY <1>3, <1>4, <1>5, <1>7, JobStep
<1> QED
  BY <1>6, <1>7 DEF ReadState, d

\* The guarded UPDATE: the winner alone is owed a settlement row.
LEMMA WriteCloseInv ==
  ASSUME BiweeklyInv, NEW h \in Handlers, WriteClose(h)
  PROVE  BiweeklyInv'
<1> PICK j \in Job : j = job[h]
  BY DEF BiweeklyInv, BiweeklyTypeOK
<1> PICK p : p = j.pos
  OBVIOUS
<1>1. /\ JobInv(j) /\ j.pc = "write" /\ j.days # 0
      /\ p \in Protections /\ row[p] \in Row /\ RowInv(p) /\ Exists(p)
  BY DEF WriteClose, BiweeklyInv, BiweeklyTypeOK, JobInv, AtWork, JobPc
<1>2. CASE Proceed(h, Return(h)) \/ Throws(h, Return(h))
  BY <1>2, Returned, JobStep
<1>3. CASE ~Closed(p) /\ Update(h, [j EXCEPT !.pc = "settle"], p, ClosedRow(j))
  <2> PICK n : n = [j EXCEPT !.pc = "settle"]
    OBVIOUS
  <2> PICK r : r = ClosedRow(j)
    OBVIOUS
  <2>1. /\ n \in Job /\ n.pc = "settle" /\ n.days = j.days
        /\ n.pos = p /\ n.todo = j.todo /\ n.by = j.by
    <3>1. "settle" \in JobPc
      BY DEF JobPc
    <3> QED
      BY <3>1 DEF Job
  <2>2. /\ r \in Row /\ r.by = j.by /\ r.days = j.days
        /\ r.status = StatusFor(j.by)
    <3>1. StatusFor(j.by) \in Status /\ j.by \in ClosedBy /\ j.days \in 0..MaxTenorDays
      BY DEF StatusFor, Job, ClosedBy, Status
    <3> QED
      BY <1>1, <3>1 DEF ClosedRow, Row
  <2>3. /\ r.status \notin {"absent", "active"} /\ r.by # "none"
    BY <2>2 DEF StatusFor, ClosedBy, Job
  <2>4. /\ row' \in [Protections -> Row] /\ row'[p] = r
        /\ \A q \in Protections \ {p} : row'[q] = row[q]
        /\ UNCHANGED <<settlements, triggerDue, poolPayouts, expiryDue, clock, faults>>
        /\ SetJob(h, n)
    BY <1>1, <1>3, <2>2 DEF Update, SetRow, ledgers, NoFault, BiweeklyInv, BiweeklyTypeOK
  <2>5. settlements[p] = <<>>
    BY <1>1, <1>3 DEF RowInv
  <2>6. BiweeklyTypeOK'
    BY <2>1, <2>4, JobTypes DEF BiweeklyInv, BiweeklyTypeOK
  <2>7. ASSUME NEW g \in Handlers PROVE JobInv(job[g])'
    <3>1. CASE g = h
      <4>1. job'[g] = n
        BY <2>1, <2>4, <3>1, JobTypes
      <4>2. n.pc \notin Firing /\ n.pc # "accrue" /\ n.pc \in Closing
        BY <2>1 DEF Firing, Closing
      <4>3. \A q \in n.todo : Exists(q)'
        BY <1>1, <2>1, <2>3, <2>4 DEF JobInv, Exists, Job
      <4>4. n.by = "trigger" => triggerDue[p] = 1
        BY <1>1, <2>1 DEF JobInv, Closing
      <4> QED
        BY <1>1, <2>1, <2>2, <2>3, <2>4, <2>5, <4>1, <4>2, <4>3, <4>4
           DEF JobInv, Exists, Closed
    <3>2. CASE g # h
      <4>1. job'[g] = job[g] /\ job[g] \in Job /\ JobInv(job[g])
        BY <2>1, <2>4, <3>2, JobTypes DEF BiweeklyInv
      <4>2. \A q \in Protections :
              /\ Exists(q) => Exists(q)'
              /\ Closed(q) => Closed(q)' /\ row'[q].days = row[q].days
              /\ (Exists(q) /\ row[q].status # "active") => row'[q].status # "active"
        BY <1>3, <2>3, <2>4 DEF Exists, Closed
      <4>3. job[g].todo \subseteq Protections
        BY <4>1 DEF Job
      <4>4. Closing \cup Firing \cup {"clear", "write", "settle", "accrue"} \subseteq AtWork
        BY DEF Closing, Firing, AtWork, JobPc
      <4> QED
        BY <2>4, <4>1, <4>2, <4>3, <4>4 DEF JobInv
    <3> QED BY <3>1, <3>2
  <2>8. ASSUME NEW q \in Protections PROVE RowInv(q)'
    <3>1. CASE q = p
      <4>1. r.by = "trigger" => triggerDue[p] = 1
        BY <1>1, <2>2 DEF JobInv, Closing
      <4> QED
        BY <1>1, <2>2, <2>3, <2>4, <2>5, <3>1, <4>1 DEF RowInv, Exists, Closed
    <3>2. CASE q # p
      BY <2>4, <3>2 DEF BiweeklyInv, RowInv, Exists, Closed
    <3> QED BY <3>1, <3>2
  <2>9. ASSUME NEW g \in Handlers \ {h} PROVE Claim(n) \cap Claim(job[g]) = {}
    <3>1. JobInv(job[g])
      BY DEF BiweeklyInv
    <3>2. ~(job[g].pc = "settle" /\ job[g].pos = p)
      BY <1>3, <3>1 DEF JobInv
    <3>3. n.pc \notin Firing
      BY <2>1 DEF Firing
    <3> QED
      BY <2>1, <3>2, <3>3, ClaimShapes
  <2>10. \A a, b \in Handlers : a # b => Claim(job'[a]) \cap Claim(job'[b]) = {}
    BY <2>1, <2>4, <2>9, ClaimsApart
  <2> QED
    BY <2>6, <2>7, <2>8, <2>10 DEF BiweeklyInv
<1> QED
  BY <1>2, <1>3 DEF WriteClose

-----------------------------------------------------------------------------
(* Ledger rows.                                                            *)

\* A handler adds to the ledgers of p, no other handler being disturbed.
LEMMA LedgerStep ==
  ASSUME BiweeklyInv, NEW h \in Handlers, NEW j \in Job, NEW p \in Protections,
         SetJob(h, j), faults' \in Nat, UNCHANGED <<row, clock>>,
         settlements' \in [Protections -> Seq(1..MaxTenorDays)],
         triggerDue' \in [Protections -> Nat],
         poolPayouts' \in [Protections -> Nat],
         expiryDue' \in [Protections -> Nat],
         \A q \in Protections \ {p} : /\ settlements'[q] = settlements[q]
                                      /\ triggerDue'[q] = triggerDue[q]
                                      /\ poolPayouts'[q] = poolPayouts[q],
         RowInv(p)', JobInv(j)', Claim(j) \subseteq Claim(job[h]),
         \A g \in Handlers \ {h} : job[g].pos = p => JobInv(job[g])'
  PROVE  BiweeklyInv'
<1> USE DEF BiweeklyInv
<1>1. BiweeklyTypeOK'
  BY JobTypes DEF BiweeklyTypeOK
<1>2. ASSUME NEW g \in Handlers PROVE JobInv(job[g])'
  <2>1. CASE g = h
    <3>1. job'[g] = j
      BY <2>1, JobTypes
    <3> QED
      BY <3>1 DEF JobInv
  <2>2. CASE g # h /\ job[g].pos = p
    BY <2>2
  <2>3. CASE g # h /\ job[g].pos # p
    <3>1. job'[g] = job[g] /\ JobInv(job[g])
      BY <2>3, JobTypes
    <3>2. Closing \cup Firing \cup {"clear", "write", "settle", "accrue"} \subseteq AtWork
      BY DEF Closing, Firing, AtWork, JobPc
    <3> QED
      BY <2>3, <3>1, <3>2 DEF JobInv, Exists, Closed
  <2> QED BY <2>1, <2>2, <2>3
<1>3. ASSUME NEW q \in Protections PROVE RowInv(q)'
  <2>1. CASE q = p
    BY <2>1
  <2>2. CASE q # p
    BY <2>2 DEF RowInv, Exists, Closed
  <2> QED BY <2>1, <2>2
<1>4. \A a, b \in Handlers : a # b => Claim(job'[a]) \cap Claim(job'[b]) = {}
  <2>1. \A g \in Handlers \ {h} : Claim(j) \cap Claim(job[g]) = {}
    OBVIOUS
  <2> QED
    BY <2>1, ClaimsApart
<1> QED
  BY <1>1, <1>2, <1>3, <1>4

\* The settlement row is the first one of its protection.
LEMMA SettleInv ==
  ASSUME BiweeklyInv, NEW h \in Handlers, Settle(h)
  PROVE  BiweeklyInv'
<1> PICK j \in Job : j = job[h]
  BY DEF BiweeklyInv, BiweeklyTypeOK
<1> PICK p : p = j.pos
  OBVIOUS
<1>1. /\ JobInv(j) /\ j.pc = "settle" /\ j.days # 0
      /\ p \in Protections /\ RowInv(p) /\ Closed(p) /\ Exists(p)
  BY DEF Settle, BiweeklyInv, JobInv, AtWork, JobPc
<1>2. CASE Throws(h, Return(h))
  BY <1>2, Returned, JobStep
<1>3. CASE /\ settlements' = [settlements EXCEPT ![p] = Append(@, j.days)]
           /\ SetJob(h, Return(h))
           /\ NoFault
           /\ UNCHANGED <<row, triggerDue, poolPayouts, expiryDue, clock>>
  <2> PICK n : n = Return(h)
    OBVIOUS
  <2>1. n \in Job /\ JobInv(n) /\ Claim(n) = {} /\ n.pc \in {"idle", "loop"}
    BY Returned DEF Return, IdleJob
  <2>2. Append(settlements[p], j.days) \in Seq(1..MaxTenorDays)
    <3>1. j.days \in 1..MaxTenorDays
      BY <1>1, TimeAssumption DEF Job
    <3>2. settlements[p] \in Seq(1..MaxTenorDays)
      BY <1>1 DEF BiweeklyInv, BiweeklyTypeOK
    <3> QED
      BY <3>1, <3>2
  <2>3. /\ settlements' \in [Protections -> Seq(1..MaxTenorDays)]
        /\ \A q \in Protections \ {p} : settlements'[q] = settlements[q]
    BY <1>1, <1>3, <2>2 DEF BiweeklyInv, BiweeklyTypeOK
  <2>4. JobInv(n)'
    BY <1>3, <2>1, StillLooping DEF Exists
  <2>5. RowInv(p)'
    BY <1>1, <1>3 DEF RowInv, Exists, Closed
  <2>6. ASSUME NEW g \in Handlers \ {h}, job[g].pos = p PROVE JobInv(job[g])'
    <3>1. job'[g] = job[g] /\ JobInv(job[g])
      BY <1>3, <2>1, JobTypes DEF BiweeklyInv
    <3>2. job[g].pc # "settle"
      BY <1>1, <2>6, OneClaimant
    <3> QED
      BY <1>3, <3>1, <3>2 DEF JobInv, Exists, Closed
  <2>7. /\ faults' \in Nat /\ triggerDue' \in [Protections -> Nat]
        /\ poolPayouts' \in [Protections -> Nat] /\ expiryDue' \in [Protections -> Nat]
    BY <1>3 DEF NoFault, BiweeklyInv, BiweeklyTypeOK
  <2> QED
    BY <1>1, <1>3, <2>1, <2>3, <2>4, <2>5, <2>6, <2>7, LedgerStep
<1> QED
  BY <1>2, <1>3 DEF Settle

\* The pool row is the first one of its protection.
LEMMA AccruePayoutInv ==
  ASSUME BiweeklyInv, NEW h \in Handlers, AccruePayout(h)
  PROVE  BiweeklyInv'
<1> PICK j \in Job : j = job[h]
  BY DEF BiweeklyInv, BiweeklyTypeOK
<1> PICK p : p = j.pos
  OBVIOUS
<1> PICK n : n = [j EXCEPT !.pc = "due"]
  OBVIOUS
<1>1. /\ JobInv(j) /\ j.pc = "accrue"
      /\ p \in Protections /\ RowInv(p) /\ Exists(p) /\ row[p].status # "active"
      /\ triggerDue[p] = 0 /\ poolPayouts[p] = 0
  BY DEF AccruePayout, BiweeklyInv, JobInv, AtWork, JobPc, Firing
<1>2. /\ n \in Job /\ n.pc = "due" /\ n.pos = p /\ n.todo = j.todo
  BY DEF Job, JobPc
<1>3. JobInv(n) /\ Claim(n) \subseteq Claim(job[h])
  <2>1. Claim(n) = Claim(j)
    BY <1>1, <1>2 DEF Claim, Firing
  <2> QED
    BY <1>1, <1>2, <2>1 DEF JobInv, AtWork, JobPc, Firing, Closing
<1>4. CASE Throws(h, n)
  BY <1>2, <1>3, <1>4, JobStep
<1>5. CASE /\ poolPayouts' = [poolPayouts EXCEPT ![p] = @ + 1]
           /\ SetJob(h, n)
           /\ NoFault
           /\ UNCHANGED <<row, settlements, triggerDue, expiryDue, clock>>
  <2>1. /\ poolPayouts' \in [Protections -> Nat] /\ poolPayouts'[p] = 1
        /\ \A q \in Protections \ {p} : poolPayouts'[q] = poolPayouts[q]
    BY <1>1, <1>5 DEF BiweeklyInv, BiweeklyTypeOK
  <2>2. RowInv(p)'
    BY <1>1, <1>5, <2>1 DEF RowInv, Exists, Closed
  <2>3. JobInv(n)'
    BY <1>2, <1>3, <1>5 DEF JobInv, Exists, Closed
  <2>4. ASSUME NEW g \in Handlers \ {h}, job[g].pos = p PROVE JobInv(job[g])'
    <3>1. job'[g] = job[g] /\ JobInv(job[g])
      BY <1>2, <1>5, JobTypes DEF BiweeklyInv
    <3>2. job[g].pc # "accrue"
      BY <1>1, <2>4, OneClaimant DEF Firing
    <3> QED
      BY <1>5, <3>1, <3>2 DEF JobInv, Exists, Closed
  <2>5. /\ faults' \in Nat /\ triggerDue' \in [Protections -> Nat]
        /\ settlements' \in [Protections -> Seq(1..MaxTenorDays)]
        /\ expiryDue' \in [Protections -> Nat]
    BY <1>5 DEF NoFault, BiweeklyInv, BiweeklyTypeOK
  <2> QED
    BY <1>1, <1>2, <1>3, <1>5, <2>1, <2>2, <2>3, <2>4, <2>5, LedgerStep
<1> QED
  BY <1>4, <1>5 DEF AccruePayout

\* The due row is the first one, and is there before the close begins.
LEMMA BookTriggerDueInv ==
  ASSUME BiweeklyInv, NEW h \in Handlers, BookTriggerDue(h)
  PROVE  BiweeklyInv'
<1> PICK j \in Job : j = job[h]
  BY DEF BiweeklyInv, BiweeklyTypeOK
<1> PICK p : p = j.pos
  OBVIOUS
<1> PICK n : n = [j EXCEPT !.pc = "read", !.at = j.now]
  OBVIOUS
<1>1. /\ JobInv(j) /\ j.pc = "due"
      /\ p \in Protections /\ RowInv(p) /\ Exists(p) /\ row[p].status # "active"
      /\ triggerDue[p] = 0
  BY DEF BookTriggerDue, BiweeklyInv, JobInv, AtWork, JobPc, Firing
<1>2. CASE Throws(h, IdleJob)
  BY <1>2, Idle, JobStep
<1>3. CASE /\ triggerDue' = [triggerDue EXCEPT ![p] = @ + 1]
           /\ SetJob(h, n)
           /\ NoFault
           /\ UNCHANGED <<row, settlements, poolPayouts, expiryDue, clock>>
  <2>1. /\ triggerDue' \in [Protections -> Nat] /\ triggerDue'[p] = 1
        /\ \A q \in Protections \ {p} : triggerDue'[q] = triggerDue[q]
    BY <1>1, <1>3 DEF BiweeklyInv, BiweeklyTypeOK
  <2>2. n \in Job /\ n.pc = "read" /\ n.pos = p /\ n.todo = j.todo
    BY DEF Job, JobPc
  <2>3. Claim(n) = {}
    BY <2>2, QuietClaim DEF Firing
  <2>4. RowInv(p)'
    BY <1>1, <1>3, <2>1 DEF RowInv, Exists, Closed
  <2>5. JobInv(n)'
    BY <1>1, <1>3, <2>1, <2>2 DEF JobInv, Exists, Closed, Firing
  <2>6. ASSUME NEW g \in Handlers \ {h}, job[g].pos = p PROVE JobInv(job[g])'
    <3>1. job'[g] = job[g] /\ JobInv(job[g])
      BY <1>3, <2>2, JobTypes DEF BiweeklyInv
    <3>2. job[g].pc \notin Firing
      BY <1>1, <2>6, OneClaimant DEF Firing
    <3>3. ~(job[g].pc \in Closing /\ job[g].by = "trigger")
      BY <1>1, <2>6, <3>1 DEF JobInv
    <3> QED
      BY <1>3, <3>1, <3>2, <3>3 DEF JobInv, Exists, Closed
  <2>7. /\ faults' \in Nat /\ poolPayouts' \in [Protections -> Nat]
        /\ settlements' \in [Protections -> Seq(1..MaxTenorDays)]
        /\ expiryDue' \in [Protections -> Nat]
    BY <1>3 DEF NoFault, BiweeklyInv, BiweeklyTypeOK
  <2> QED
    BY <1>1, <1>3, <2>1, <2>2, <2>3, <2>4, <2>5, <2>6, <2>7, LedgerStep
<1> QED
  BY <1>2, <1>3 DEF BookTriggerDue

-----------------------------------------------------------------------------
(* The monitor's passes.                                                   *)

\* A handler in its loop gets a list of existing protections.
LEMMA LoopStep ==
  ASSUME BiweeklyInv, NEW h \in Handlers, NEW j \in Job, j.pc = "loop",
         \A p \in j.todo : Exists(p),
         Proceed(h, j) \/ Throws(h, j)
  PROVE  BiweeklyInv'
BY Looping, JobStep

\* Taking a protection from the list leaves a handler in its loop.
LEMMA WithoutShape ==
  ASSUME BiweeklyInv, NEW h \in Handlers, NEW p \in job[h].todo
  PROVE  /\ p \in Protections /\ Exists(p)
         /\ Without(h, p) \in Job
         /\ Without(h, p).pc = job[h].pc
         /\ \A q \in Without(h, p).todo : Exists(q)
<1>1. job[h] \in Job /\ \A q \in job[h].todo : Exists(q)
  BY DEF BiweeklyInv, BiweeklyTypeOK, JobInv
<1> QED
  BY <1>1 DEF Without, Job

\* A handler takes p from its list and starts on it.
LEMMA TakeUp ==
  ASSUME BiweeklyInv, NEW h \in Handlers, NEW p \in job[h].todo,
         NEW pc \in AtWork \ (Firing \cup {"clear", "write", "settle"}),
         pc \in Closing => job[h].by # "trigger",
         NEW n \in Nat,
         NEW j, \/ j = [Without(h, p) EXCEPT !.pc = pc, !.pos = p, !.at = n]
                \/ j = [Without(h, p) EXCEPT !.pc = pc, !.pos = p]
  PROVE  j \in Job /\ JobInv(j) /\ Claim(j) = {}
<1>1. /\ job[h] \in Job /\ p \in Protections /\ Exists(p)
      /\ \A q \in job[h].todo : Exists(q)
  BY WithoutShape DEF BiweeklyInv, BiweeklyTypeOK, JobInv
<1>2. /\ j \in Job /\ j.pc = pc /\ j.pos = p /\ j.by = job[h].by
      /\ j.todo = job[h].todo \ {p}
  BY ZenonT(40), <1>1 DEF Without, Job, AtWork
<1>3. JobInv(j)
  BY <1>1, <1>2 DEF JobInv, AtWork, Firing
<1> QED
  BY <1>2, <1>3, QuietClaim

\* The guarded UPDATE of the status: the winner alone is owed a payout.
LEMMA FireTriggerInv ==
  ASSUME BiweeklyInv, NEW h \in Handlers, FireTrigger(h)
  PROVE  BiweeklyInv'
<1>1. PICK p \in job[h].todo :
        \/ /\ row[p].status = "active"
           /\ Update(h, [Without(h, p) EXCEPT !.pc = "accrue", !.pos = p],
                     p, [row[p] EXCEPT !.status = "triggered"])
        \/ Proceed(h, Without(h, p))
        \/ Throws(h, IdleJob)
  BY DEF FireTrigger
<1>2. /\ p \in Protections /\ Exists(p) /\ row[p] \in Row /\ job[h] \in Job
      /\ job[h].pc = "loop" /\ \A q \in job[h].todo : Exists(q)
  BY WithoutShape DEF FireTrigger, BiweeklyInv, BiweeklyTypeOK, JobInv
<1>3. CASE Proceed(h, Without(h, p)) \/ Throws(h, IdleJob)
  BY <1>2, <1>3, WithoutShape, LoopStep, Idle, JobStep
<1>4. CASE /\ row[p].status = "active"
           /\ Update(h, [Without(h, p) EXCEPT !.pc = "accrue", !.pos = p],
                     p, [row[p] EXCEPT !.status = "triggered"])
  <2> PICK j : j = [Without(h, p) EXCEPT !.pc = "accrue", !.pos = p]
    OBVIOUS
  <2> PICK r : r = [row[p] EXCEPT !.status = "triggered"]
    OBVIOUS
  <2>1. j \in Job /\ j.pc = "accrue" /\ j.pos = p /\ j.todo = job[h].todo \ {p}
    BY <1>2 DEF Without, Job, JobPc
  <2>2. /\ r \in Row /\ r.status = "triggered"
        /\ r.by = row[p].by /\ r.days = row[p].days
    BY <1>2 DEF Row, Status
  <2>3. /\ SetRow(p, r) /\ SetJob(h, j) /\ faults' \in Nat /\ UNCHANGED <<ledgers, clock>>
    BY <1>4 DEF Update, NoFault, BiweeklyInv, BiweeklyTypeOK
  <2>4. triggerDue[p] = 0 /\ poolPayouts[p] = 0
    BY <1>2, <1>4 DEF BiweeklyInv, RowInv
  <2>5. row'[p] = r /\ \A q \in Protections \ {p} : row'[q] = row[q]
    BY <1>2, <2>3 DEF SetRow, BiweeklyInv, BiweeklyTypeOK
  <2>6. JobInv(j)'
    <3>1. \A q \in j.todo : Exists(q)'
      BY <1>2, <2>1, <2>2, <2>5 DEF Exists, Job
    <3> QED
      BY <1>2, <2>1, <2>2, <2>3, <2>4, <2>5, <3>1
         DEF JobInv, Exists, Firing, Closing, ledgers
  <2>7. ASSUME NEW g \in Handlers \ {h} PROVE Claim(j) \cap Claim(job[g]) = {}
    <3>1. ~(job[g].pc \in Firing /\ job[g].pos = p)
      BY <1>4 DEF BiweeklyInv, JobInv
    <3> QED
      BY <2>1, <3>1, ClaimShapes
  <2> QED
    BY <1>2, <1>4, <2>1, <2>2, <2>3, <2>6, <2>7, RowStep
<1> QED
  BY <1>1, <1>3, <1>4

\* Every step of a monitor cycle keeps the invariant.
LEMMA CycleStepInv ==
  ASSUME BiweeklyInv, NEW t \in Cycles, CycleStep(t)
  PROVE  BiweeklyInv'
<1> t \in Handlers
  BY DEF Handlers
<1>1. /\ job[t] \in Job /\ clock \in Nat /\ row \in [Protections -> Row]
      /\ \A p \in job[t].todo : Exists(p)
  BY DEF BiweeklyInv, BiweeklyTypeOK, JobInv
<1>2. CASE StartCycle(t)
  <2> PICK j : j = [IdleJob EXCEPT !.pc = "loop", !.by = "trigger", !.now = clock,
                      !.todo = {p \in Protections : row[p].status = "active" /\ row[p].priced}]
    OBVIOUS
  <2>1. j \in Job /\ j.pc = "loop" /\ \A p \in j.todo : Exists(p)
    BY <1>1, Idle DEF Job, JobPc, ClosedBy, Exists
  <2>2. Proceed(t, j)
    BY <1>2 DEF StartCycle
  <2> QED
    BY <2>1, <2>2, LoopStep
<1>3. CASE SkipCandidate(t)
  <2>1. PICK p \in job[t].todo : Proceed(t, Without(t, p))
    BY <1>3 DEF SkipCandidate
  <2> QED
    BY <1>3, <2>1, WithoutShape, LoopStep DEF SkipCandidate
<1>4. ASSUME NEW from, NEW to \in ClosedBy, NEW S \in SUBSET Protections,
             \A p \in S : Exists(p), StartPass(t, from, to, S)
      PROVE  BiweeklyInv'
  <2> PICK j : j = [job[t] EXCEPT !.by = to, !.todo = S]
    OBVIOUS
  <2> PICK k : k = [job[t] EXCEPT !.by = to]
    OBVIOUS
  <2>1. j \in Job /\ k \in Job /\ j.pc = job[t].pc /\ k.pc = job[t].pc
    BY <1>1 DEF Job
  <2>2. j.todo = S /\ k.todo = job[t].todo
    BY <1>1 DEF Job
  <2>3. job[t].pc = "loop" /\ (Proceed(t, j) \/ Throws(t, k))
    BY <1>4 DEF StartPass
  <2> QED
    BY <1>1, <1>4, <2>1, <2>2, <2>3, LoopStep
<1>5. CASE StartNaturalSweep(t)
  <2>1. ExpiredBy(job[t].now) \in SUBSET Protections /\ \A p \in ExpiredBy(job[t].now) : Exists(p)
    BY DEF ExpiredBy
  <2> QED
    BY <1>4, <1>5, <2>1 DEF StartNaturalSweep, ClosedBy
<1>6. CASE StartScheduledSweep(t)
  <2>1. ScheduledBy(job[t].now) \in SUBSET Protections /\ \A p \in ScheduledBy(job[t].now) : Exists(p)
    BY DEF ScheduledBy, Exists
  <2> QED
    BY <1>4, <1>6, <2>1 DEF StartScheduledSweep, ClosedBy
<1>7. CASE SweepExpired(t)
  <2>1. PICK p \in job[t].todo :
          Proceed(t, [Without(t, p) EXCEPT !.pc = "read", !.pos = p, !.at = job[t].now])
    BY <1>7 DEF SweepExpired
  <2> PICK j : j = [Without(t, p) EXCEPT !.pc = "read", !.pos = p, !.at = job[t].now]
    OBVIOUS
  <2>2. j \in Job /\ JobInv(j) /\ Claim(j) = {}
    <3>1. job[t].by # "trigger" /\ job[t].now \in Nat
      BY <1>1, <1>7 DEF SweepExpired, Job
    <3>2. "read" \in AtWork \ (Firing \cup {"clear", "write", "settle"})
      BY DEF AtWork, Firing, JobPc
    <3> QED
      BY <3>1, <3>2, TakeUp
  <2> QED
    BY <2>1, <2>2, JobStep
<1>8. CASE SweepScheduled(t)
  <2>1. PICK p \in job[t].todo :
          \/ Proceed(t, [Without(t, p) EXCEPT !.pc = "read", !.pos = p,
               !.at = IF row[p].effective # 0 THEN row[p].effective ELSE job[t].now])
          \/ Throws(t, Without(t, p))
    BY <1>8 DEF SweepScheduled
  <2>2. job[t].pc = "loop" /\ job[t].by # "trigger"
    BY <1>8 DEF SweepScheduled
  <2>3. CASE Throws(t, Without(t, p))
    BY <2>2, <2>3, WithoutShape, LoopStep
  <2> PICK n : n = IF row[p].effective # 0 THEN row[p].effective ELSE job[t].now
    OBVIOUS
  <2> PICK j : j = [Without(t, p) EXCEPT !.pc = "read", !.pos = p, !.at = n]
    OBVIOUS
  <2>4. CASE Proceed(t, j)
    <3>1. n \in Nat
      <4>1. row[p] \in Row
        BY <1>1, WithoutShape
      <4> QED
        BY <1>1, <4>1 DEF Row, Job
    <3>2. "read" \in AtWork \ (Firing \cup {"clear", "write", "settle"})
      BY DEF AtWork, Firing, JobPc
    <3>3. j \in Job /\ JobInv(j) /\ Claim(j) = {}
      BY <2>2, <3>1, <3>2, TakeUp
    <3> QED
      BY <2>4, <3>3, JobStep
  <2> QED
    BY <2>1, <2>3, <2>4
<1>9. CASE EndCycle(t)
  BY <1>9, Idle, JobStep DEF EndCycle
<1>10. CASE CloseStep(t)
  BY <1>10, ReadStateInv, WriteCloseInv, SettleInv DEF CloseStep
<1> QED
  BY <1>2, <1>3, <1>5, <1>6, <1>7, <1>8, <1>9, <1>10,
     FireTriggerInv, AccruePayoutInv, BookTriggerDueInv DEF CycleStep

-----------------------------------------------------------------------------
(* Requests.                                                               *)

\* A handler that owes no ledger row updates p's row.
LEMMA UpdateStep ==
  ASSUME BiweeklyInv, NEW h \in Handlers, NEW j \in Job,
         NEW p \in Protections, NEW r \in Row,
         \/ Update(h, j, p, r)
         \/ SetRow(p, r) /\ SetJob(h, j) /\ Fault /\ UNCHANGED <<ledgers, clock>>,
         r.status # "absent",
         r.status = "active" => row[p].status \in {"absent", "active"},
         r.by = row[p].by, r.days = row[p].days,
         j.pc \notin Firing \cup {"settle"},
         j.pc \in {"clear", "write"} => j.days # 0,
         j.pc \in Closing \cup {"clear"} => j.by # "trigger",
         \A q \in j.todo : Exists(q),
         j.pc \in AtWork => j.pos = p
  PROVE  BiweeklyInv'
<1>1. /\ SetRow(p, r) /\ SetJob(h, j) /\ faults' \in Nat /\ UNCHANGED <<ledgers, clock>>
  BY DEF Update, NoFault, Fault, BiweeklyInv, BiweeklyTypeOK
<1>2. row'[p] = r /\ \A q \in Protections \ {p} : row'[q] = row[q]
  BY <1>1 DEF SetRow, BiweeklyInv, BiweeklyTypeOK
<1>3. JobInv(j)'
  <2>1. \A q \in j.todo : Exists(q)'
    BY <1>2 DEF Exists, Job
  <2>2. Exists(p)'
    BY <1>2 DEF Exists
  <2> QED
    BY <2>1, <2>2 DEF JobInv, Firing
<1>4. Claim(j) = {}
  BY QuietClaim
<1> QED
  BY <1>1, <1>3, <1>4, RowStep

\* So does every step of a request.
LEMMA RequestStepInv ==
  ASSUME BiweeklyInv, NEW h \in Requests, RequestStep(h)
  PROVE  BiweeklyInv'
<1> h \in Handlers
  BY DEF Handlers
<1>1. /\ job[h] \in Job /\ JobInv(job[h]) /\ clock \in Nat
      /\ row \in [Protections -> Row] /\ \A p \in Protections : RowInv(p)
  BY DEF BiweeklyInv, BiweeklyTypeOK
<1>2. IdleJob \in Job /\ IdleJob.pc = "idle" /\ IdleJob.todo = {} /\ IdleJob.pc \notin Firing \cup Closing \cup AtWork \cup {"settle", "clear", "write"}
  BY Idle DEF IdleJob, Firing, Closing, AtWork
<1>3. CASE Activate(h)
  <2>1. PICK p \in Protections :
          /\ ~Exists(p)
          /\ Update(h, [IdleJob EXCEPT !.pc = "price", !.pos = p],
                    p, [NoRow EXCEPT !.status = "active", !.created = clock])
    BY <1>3 DEF Activate
  <2> PICK j : j = [IdleJob EXCEPT !.pc = "price", !.pos = p]
    OBVIOUS
  <2> PICK r : r = [NoRow EXCEPT !.status = "active", !.created = clock]
    OBVIOUS
  <2>2. j \in Job /\ j.pc = "price" /\ j.pos = p /\ j.todo = {}
    BY <1>2 DEF Job, JobPc, IdleJob
  <2>3. r \in Row /\ r.status = "active" /\ r.by = "none" /\ r.days = 0
    <3>1. NoRow \in Row /\ NoRow.by = "none" /\ NoRow.days = 0
      BY TimeAssumption DEF NoRow, Row, Status
    <3>2. "active" \in Status
      BY DEF Status
    <3> HIDE DEF NoRow
    <3> QED
      BY <1>1, <3>1, <3>2 DEF Row
  <2>4. row[p].status = "absent" /\ row[p].by = "none" /\ row[p].days = 0
    BY <1>1, <2>1 DEF RowInv, Exists, Closed
  <2> QED
    BY <2>1, <2>2, <2>3, <2>4, UpdateStep DEF Firing, Closing
<1>4. CASE PriceRow(h)
  <2> PICK p : p = job[h].pos
    OBVIOUS
  <2> PICK r : r = [row[p] EXCEPT !.priced = TRUE]
    OBVIOUS
  <2>1. p \in Protections /\ Exists(p) /\ row[p] \in Row
    BY <1>1, <1>4 DEF PriceRow, JobInv, AtWork, JobPc
  <2>2. /\ r \in Row /\ r.status = row[p].status
        /\ r.by = row[p].by /\ r.days = row[p].days
    BY <2>1 DEF Row
  <2>3. CASE Update(h, IdleJob, p, r)
    BY <1>2, <2>1, <2>2, <2>3, UpdateStep DEF Exists
  <2> QED
    BY <1>4, <2>3, Idle, JobStep DEF PriceRow
<1>5. CASE RequestClose(h)
  <2>1. PICK p \in Protections :
          /\ Exists(p)
          /\ Proceed(h, [IdleJob EXCEPT !.pc = "schedule", !.pos = p,
                                        !.at = Boundary(row[p].created, clock)])
    BY <1>5 DEF RequestClose
  <2> PICK n : n = Boundary(row[p].created, clock)
    OBVIOUS
  <2> PICK j : j = [IdleJob EXCEPT !.pc = "schedule", !.pos = p, !.at = n]
    OBVIOUS
  <2>2. n \in Nat
    <3>1. row[p].created \in Nat
      BY <1>1 DEF Row
    <3>2. DaysBilled(row[p].created, clock) \in 1..MaxTenorDays
      BY <1>1, <3>1, DaysBilledType
    <3> QED
      BY <3>1, <3>2, TimeAssumption DEF Boundary
  <2>3. /\ j \in Job /\ j.pc = "schedule" /\ j.pos = p /\ j.todo = {}
    BY <1>2, <2>2 DEF Job, JobPc, IdleJob
  <2>4. JobInv(j) /\ Claim(j) = {}
    BY <2>1, <2>3, QuietClaim DEF JobInv, Firing, Closing
  <2> QED
    BY <2>1, <2>3, <2>4, JobStep
<1>6. CASE WriteSchedule(h)
  <2> PICK p : p = job[h].pos
    OBVIOUS
  <2> PICK r : r = [row[p] EXCEPT !.effective = job[h].at]
    OBVIOUS
  <2>1. p \in Protections /\ Exists(p) /\ row[p] \in Row
    BY <1>1, <1>6 DEF WriteSchedule, JobInv, AtWork, JobPc
  <2>2. /\ r \in Row /\ r.status = row[p].status
        /\ r.by = row[p].by /\ r.days = row[p].days
    <3>1. job[h].at \in Nat
      BY <1>1 DEF Job
    <3> QED
      BY <2>1, <3>1 DEF Row
  <2>3. CASE Update(h, IdleJob, p, r)
    BY <1>2, <2>1, <2>2, <2>3, UpdateStep DEF Exists
  <2> QED
    BY <1>6, <2>3, Idle, JobStep DEF WriteSchedule
<1>7. CASE UndoClose(h)
  <2>1. PICK p \in Protections :
          row[p].status = "active" /\ Update(h, IdleJob, p, [row[p] EXCEPT !.effective = 0])
    BY <1>7 DEF UndoClose, CanUnschedule
  <2> PICK r : r = [row[p] EXCEPT !.effective = 0]
    OBVIOUS
  <2>2. /\ r \in Row /\ r.status = row[p].status
        /\ r.by = row[p].by /\ r.days = row[p].days
    BY <1>1 DEF Row
  <2> QED
    BY <1>2, <2>1, <2>2, UpdateStep
<1>8. CASE CloseNow(h)
  <2>1. PICK p \in Protections :
          /\ Exists(p)
          /\ Proceed(h, [IdleJob EXCEPT !.pc = "read", !.pos = p, !.by = "user_close", !.at = clock])
    BY <1>8 DEF CloseNow
  <2> PICK j : j = [IdleJob EXCEPT !.pc = "read", !.pos = p, !.by = "user_close", !.at = clock]
    OBVIOUS
  <2>2. j \in Job /\ j.pc = "read" /\ j.pos = p /\ j.by = "user_close" /\ j.todo = {}
    BY <1>1, <1>2 DEF Job, JobPc, IdleJob, ClosedBy
  <2>3. JobInv(j) /\ Claim(j) = {}
    BY <2>1, <2>2, QuietClaim DEF JobInv, Firing
  <2> QED
    BY <2>1, <2>2, <2>3, JobStep
<1>9. CASE CourtesyClose(h)
  <2>1. PICK p \in Protections, d \in 1..MaxTenorDays :
          /\ Exists(p)
          /\ Proceed(h, [IdleJob EXCEPT !.pc = "clear", !.pos = p, !.by = "admin", !.days = d])
    BY <1>9 DEF CourtesyClose
  <2> PICK j : j = [IdleJob EXCEPT !.pc = "clear", !.pos = p, !.by = "admin", !.days = d]
    OBVIOUS
  <2>2. d \in 0..MaxTenorDays /\ d # 0
    BY TimeAssumption
  <2>3. /\ j \in Job /\ j.pc = "clear" /\ j.pos = p /\ j.days # 0
        /\ j.by = "admin" /\ j.todo = {}
    BY <1>2, <2>2 DEF Job, JobPc, IdleJob, ClosedBy
  <2>4. JobInv(j) /\ Claim(j) = {}
    BY <2>1, <2>3, QuietClaim DEF JobInv, Firing, Closing
  <2> QED
    BY <2>1, <2>3, <2>4, JobStep
<1>10. CASE ClearSchedule(h)
  <2> PICK p : p = job[h].pos
    OBVIOUS
  <2> PICK j : j = [job[h] EXCEPT !.pc = "write"]
    OBVIOUS
  <2> PICK r : r = [row[p] EXCEPT !.effective = 0]
    OBVIOUS
  <2>1. /\ p \in Protections /\ Exists(p) /\ row[p] \in Row
        /\ job[h].days # 0 /\ job[h].by # "trigger" /\ \A q \in job[h].todo : Exists(q)
    BY <1>1, <1>10 DEF ClearSchedule, JobInv, AtWork, JobPc
  <2>2. /\ j \in Job /\ j.pc = "write" /\ j.pos = p /\ j.todo = job[h].todo
        /\ j.days # 0 /\ j.by # "trigger"
    BY <1>1, <2>1 DEF Job, JobPc
  <2>3. /\ r \in Row /\ r.status = row[p].status
        /\ r.by = row[p].by /\ r.days = row[p].days
    BY <2>1 DEF Row
  <2>4. CASE Update(h, j, p, r)
    BY <2>1, <2>2, <2>3, <2>4, UpdateStep DEF Exists, Firing
  <2>5. CASE Proceed(h, j) \/ Throws(h, j)
    <3>1. JobInv(j) /\ Claim(j) = {}
      BY <2>1, <2>2, QuietClaim DEF JobInv, Firing
    <3> QED
      BY <2>2, <2>5, <3>1, JobStep
  <2> QED
    BY <1>10, <2>4, <2>5 DEF ClearSchedule
<1>11. CASE CloseStep(h)
  BY <1>11, ReadStateInv, WriteCloseInv, SettleInv DEF CloseStep
<1> QED
  BY <1>3, <1>4, <1>5, <1>6, <1>7, <1>8, <1>9, <1>10, <1>11 DEF RequestStep

-----------------------------------------------------------------------------
(* The expiry resolver.                                                    *)

\* The resolver goes on with the rest of its list.
LEMMA ResumedShape ==
  ASSUME BiweeklyInv, NEW x \in Handlers
  PROVE  /\ Resumed(x) \in Job /\ Resumed(x).pc = "loop"
         /\ Resumed(x).todo = job[x].todo /\ \A p \in Resumed(x).todo : Exists(p)
<1>1. job[x] \in Job /\ \A p \in job[x].todo : Exists(p)
  BY DEF BiweeklyInv, BiweeklyTypeOK, JobInv
<1>2. job[x].todo \in SUBSET Protections
  BY <1>1 DEF Job
<1>3. /\ Resumed(x) \in Job /\ Resumed(x).pc = "loop" /\ Resumed(x).todo = job[x].todo
  BY <1>2, Idle DEF Resumed, IdleJob, Job, JobPc
<1> QED
  BY <1>1, <1>3

\* The resolver overwrites the status of the protection it works on, and
\* nothing else that matters here.
LEMMA OverwriteStep ==
  ASSUME BiweeklyInv, NEW x \in Handlers, job[x].pc \in {"resolve", "payout"},
         NEW s \in Status \ {"absent", "active"}, NEW b \in BOOLEAN,
         NEW r, \/ r = [row[job[x].pos] EXCEPT !.status = s]
                \/ r = [row[job[x].pos] EXCEPT !.status = s, !.resolved = b],
         NEW j, j = Resumed(x) \/ j = [job[x] EXCEPT !.pc = "payout"],
         \/ Update(x, j, job[x].pos, r)
         \/ /\ SetRow(job[x].pos, r) /\ SetJob(x, j) /\ Fault
            /\ UNCHANGED <<ledgers, clock>>
  PROVE  BiweeklyInv'
<1> PICK p : p = job[x].pos
  OBVIOUS
<1>1. /\ job[x] \in Job /\ p \in Protections /\ Exists(p) /\ row[p] \in Row
      /\ \A q \in job[x].todo : Exists(q)
  BY DEF BiweeklyInv, BiweeklyTypeOK, JobInv, AtWork, JobPc
<1>2. /\ r \in Row /\ r.status = s /\ r.by = row[p].by /\ r.days = row[p].days
  BY <1>1 DEF Row
<1>3. /\ j \in Job /\ j.pc \in {"loop", "payout"} /\ \A q \in j.todo : Exists(q)
      /\ j.pc = "payout" => j.pos = p
  <2>1. CASE j = Resumed(x)
    BY <2>1, ResumedShape
  <2>2. CASE j = [job[x] EXCEPT !.pc = "payout"]
    BY <1>1, <2>2 DEF Job, JobPc
  <2> QED
    BY <2>1, <2>2
<1>4. /\ j.pc \notin Firing \cup Closing \cup {"settle", "clear", "write"}
      /\ j.pc \in AtWork => j.pos = p
  BY <1>3 DEF Firing, Closing, AtWork
<1> QED
  BY <1>1, <1>2, <1>3, <1>4, UpdateStep

\* A protection without a price waits for one; its ledgers stand.
LEMMA AwaitPriceInv ==
  ASSUME BiweeklyInv, NEW x \in Handlers, job[x].pc \in {"resolve", "payout"}, AwaitPrice(x)
  PROVE  BiweeklyInv'
<1>1. "awaiting_expiry_price" \in Status \ {"absent", "active"}
  BY DEF Status
<1> QED
  BY <1>1, OverwriteStep DEF AwaitPrice

\* The payout_due row is in no relation to the others.
LEMMA BookExpiryDueInv ==
  ASSUME BiweeklyInv, NEW x \in Handlers, BookExpiryDue(x)
  PROVE  BiweeklyInv'
<1> PICK p : p = job[x].pos
  OBVIOUS
<1>1. job[x].pc = "payout" /\ p \in Protections /\ RowInv(p)
  BY DEF BookExpiryDue, BiweeklyInv, JobInv, AtWork, JobPc
<1>2. CASE AwaitPrice(x) \/ Throws(x, IdleJob)
  BY <1>1, <1>2, AwaitPriceInv, Idle, JobStep
<1>3. CASE /\ expiryDue' = [expiryDue EXCEPT ![p] = @ + 1]
           /\ SetJob(x, Resumed(x))
           /\ NoFault
           /\ UNCHANGED <<row, settlements, triggerDue, poolPayouts, clock>>
  <2> PICK n : n = Resumed(x)
    OBVIOUS
  <2>1. n \in Job /\ JobInv(n) /\ Claim(n) = {} /\ n.pc = "loop"
    BY ResumedShape, Looping
  <2>2. JobInv(n)'
    BY <1>3, <2>1, StillLooping DEF Exists
  <2>3. expiryDue' \in [Protections -> Nat]
    BY <1>1, <1>3 DEF BiweeklyInv, BiweeklyTypeOK
  <2>4. RowInv(p)'
    BY <1>1, <1>3 DEF RowInv, Exists, Closed
  <2>5. ASSUME NEW g \in Handlers \ {x} PROVE JobInv(job[g])'
    <3>1. job'[g] = job[g] /\ JobInv(job[g])
      BY <1>3, <2>1, JobTypes DEF BiweeklyInv
    <3> QED
      BY <1>3, <3>1 DEF JobInv, Exists, Closed
  <2>6. /\ faults' \in Nat /\ poolPayouts' \in [Protections -> Nat]
        /\ settlements' \in [Protections -> Seq(1..MaxTenorDays)]
        /\ triggerDue' \in [Protections -> Nat]
    BY <1>3 DEF NoFault, BiweeklyInv, BiweeklyTypeOK
  <2> QED
    BY <1>1, <1>3, <2>1, <2>2, <2>3, <2>4, <2>5, <2>6, LedgerStep
<1> QED
  BY <1>2, <1>3 DEF BookExpiryDue

\* Every step of the resolver keeps the invariant.
LEMMA ResolverStepInv ==
  ASSUME BiweeklyInv, NEW x \in Resolvers, ResolverStep(x)
  PROVE  BiweeklyInv'
<1> x \in Handlers
  BY DEF Handlers
<1>1. /\ job[x] \in Job /\ JobInv(job[x])
      /\ row \in [Protections -> Row] /\ \A p \in job[x].todo : Exists(p)
  BY DEF BiweeklyInv, BiweeklyTypeOK, JobInv
<1>2. CASE StartResolver(x)
  <2> DEFINE S == {p \in Protections : /\ row[p].status \in Unresolved /\ ~row[p].resolved
                                       /\ row[p].created + Tenor <= clock}
  <2>1. S \in SUBSET Protections /\ \A p \in S : Exists(p)
    BY DEF Exists, Unresolved
  <2>2. Proceed(x, [IdleJob EXCEPT !.pc = "loop", !.todo = S])
    BY <1>2 DEF StartResolver
  <2> HIDE DEF S
  <2> PICK j : j = [IdleJob EXCEPT !.pc = "loop", !.todo = S]
    OBVIOUS
  <2>3. j \in Job /\ j.pc = "loop" /\ j.todo = S
    BY <2>1, Idle DEF Job, JobPc, IdleJob
  <2> QED
    BY <2>1, <2>2, <2>3, LoopStep
<1>3. CASE ReadUnresolved(x)
  <2>1. PICK p \in job[x].todo :
          \/ Proceed(x, [Without(x, p) EXCEPT !.pc = "resolve", !.pos = p])
          \/ Proceed(x, Without(x, p))
          \/ Throws(x, IdleJob)
    BY <1>3 DEF ReadUnresolved
  <2>2. job[x].pc = "loop"
    BY <1>3 DEF ReadUnresolved
  <2>3. CASE Proceed(x, Without(x, p)) \/ Throws(x, IdleJob)
    BY <2>2, <2>3, WithoutShape, LoopStep, Idle, JobStep
  <2> PICK j : j = [Without(x, p) EXCEPT !.pc = "resolve", !.pos = p]
    OBVIOUS
  <2>4. CASE Proceed(x, j)
    <3>1. /\ "resolve" \in AtWork \ (Firing \cup {"clear", "write", "settle"})
          /\ "resolve" \notin Closing
      BY DEF AtWork, Firing, JobPc, Closing
    <3>2. j \in Job /\ JobInv(j) /\ Claim(j) = {}
      <4>1. 0 \in Nat
        OBVIOUS
      <4> QED
        BY <3>1, <4>1, TakeUp
    <3> QED
      BY <2>4, <3>2, JobStep
  <2> QED
    BY <2>1, <2>3, <2>4
<1>4. CASE ResolveExpiry(x)
  <2>1. job[x].pc \in {"resolve", "payout"}
    BY <1>4 DEF ResolveExpiry
  <2>2. {"expired_otm", "expired_itm"} \subseteq Status \ {"absent", "active"}
    BY DEF Status
  <2>3. CASE Update(x, Resumed(x), job[x].pos,
                    [row[job[x].pos] EXCEPT !.status = "expired_otm", !.resolved = TRUE])
    BY <2>1, <2>2, <2>3, OverwriteStep
  <2>4. CASE Update(x, [job[x] EXCEPT !.pc = "payout"], job[x].pos,
                    [row[job[x].pos] EXCEPT !.status = "expired_itm", !.resolved = TRUE])
    BY <2>1, <2>2, <2>4, OverwriteStep
  <2>5. CASE AwaitPrice(x) \/ Throws(x, IdleJob)
    BY <2>1, <2>5, AwaitPriceInv, Idle, JobStep
  <2> QED
    BY <1>4, <2>3, <2>4, <2>5 DEF ResolveExpiry
<1>5. CASE EndResolver(x)
  BY <1>5, Idle, JobStep DEF EndResolver
<1> QED
  BY <1>2, <1>3, <1>4, <1>5, BookExpiryDueInv DEF ResolverStep

-----------------------------------------------------------------------------
(* The inductive invariant.                                                *)

\* It holds before the first activation.
LEMMA BiweeklyInit == Init => BiweeklyInv
<1> SUFFICES ASSUME Init PROVE BiweeklyInv
  OBVIOUS
<1>1. NoRow \in Row /\ NoRow.status = "absent" /\ NoRow.by = "none" /\ NoRow.days = 0
  BY TimeAssumption DEF NoRow, Row, Status
<1>2. BiweeklyTypeOK
  BY <1>1, Idle DEF Init, BiweeklyTypeOK
<1>3. \A h \in Handlers : job[h] = IdleJob
  BY DEF Init
<1>4. \A p \in Protections : RowInv(p)
  BY <1>1 DEF Init, RowInv, Exists, Closed
<1> QED
  BY <1>2, <1>3, <1>4, Idle DEF BiweeklyInv

\* A restart forgets every claim and no row.
LEMMA RestartInv ==
  ASSUME BiweeklyInv, Restart
  PROVE  BiweeklyInv'
<1>1. /\ job' = [h \in Handlers |-> IdleJob] /\ faults' \in Nat
      /\ UNCHANGED <<row, settlements, triggerDue, poolPayouts, expiryDue, clock>>
  BY DEF Restart, Fault, tables, ledgers, BiweeklyInv, BiweeklyTypeOK
<1>2. BiweeklyTypeOK'
  BY <1>1, Idle DEF BiweeklyInv, BiweeklyTypeOK
<1>3. \A h \in Handlers : JobInv(job[h])'
  <2>1. IdleJob.todo = {} /\ IdleJob.pc = "idle"
    BY DEF IdleJob
  <2>2. \A h \in Handlers : job'[h] = IdleJob
    BY <1>1
  <2> QED
    BY <2>1, <2>2 DEF JobInv, AtWork, Firing, Closing
<1>4. \A p \in Protections : RowInv(p)'
  BY <1>1 DEF BiweeklyInv, RowInv, Exists, Closed
<1>5. \A a, b \in Handlers : a # b => Claim(job'[a]) \cap Claim(job'[b]) = {}
  BY <1>1, Idle
<1> QED
  BY <1>2, <1>3, <1>4, <1>5 DEF BiweeklyInv

\* Time passes, or nothing happens.
LEMMA TickInv ==
  ASSUME BiweeklyInv, Tick \/ UNCHANGED vars
  PROVE  BiweeklyInv'
<1>1. /\ clock' \in Nat /\ faults' \in Nat
      /\ UNCHANGED <<row, settlements, triggerDue, poolPayouts, expiryDue, job>>
  BY DEF Tick, NoFault, tables, ledgers, vars, BiweeklyInv, BiweeklyTypeOK
<1>2. BiweeklyTypeOK'
  BY <1>1 DEF BiweeklyInv, BiweeklyTypeOK
<1>3. \A h \in Handlers : JobInv(job[h])'
  BY <1>1 DEF BiweeklyInv, JobInv, Exists, Closed
<1>4. \A p \in Protections : RowInv(p)'
  BY <1>1 DEF BiweeklyInv, RowInv, Exists, Closed
<1> QED
  BY <1>1, <1>2, <1>3, <1>4 DEF BiweeklyInv

\* What the row of a protection, its ledgers and the handlers that work on it
\* say of each other is kept by every step of every handler.
THEOREM BiweeklyInvariant == Spec => []BiweeklyInv
<1>1. BiweeklyInv /\ [Next]_vars => BiweeklyInv'
  <2> SUFFICES ASSUME BiweeklyInv, [Next]_vars PROVE BiweeklyInv'
    OBVIOUS
  <2> QED
    BY CycleStepInv, RequestStepInv, ResolverStepInv, RestartInv, TickInv DEF Next
<1> QED
  BY <1>1, BiweeklyInit, PTL DEF Spec

\* Every table and every handler's local state keeps its type.
THEOREM BiweeklyTypeCorrect == Spec => []BiweeklyTypeOK
<1>1. BiweeklyInv => BiweeklyTypeOK
  BY DEF BiweeklyInv
<1> QED
  BY <1>1, BiweeklyInvariant, PTL

\* However many cycles overlap, and whatever fails, a protection has at most
\* one trigger_payout_due and one payout_out row (patchProtectionForStatus).
THEOREM PaidOnce == Spec => []TriggerPaidOnce
<1>1. BiweeklyInv => TriggerPaidOnce
  BY DEF BiweeklyInv, RowInv, TriggerPaidOnce
<1> QED
  BY <1>1, BiweeklyInvariant, PTL

\* A protection that its trigger closed has the row of its payout: the close
\* of a cycle follows the ledger row, and no other handler closes as trigger.
THEOREM TriggerPaid == Spec => []TriggerCloseIsPaid
<1>1. BiweeklyInv => TriggerCloseIsPaid
  BY DEF BiweeklyInv, RowInv, TriggerCloseIsPaid
<1> QED
  BY <1>1, BiweeklyInvariant, PTL

-----------------------------------------------------------------------------
(* What a protection is billed.                                            *)

\* The n-th day of p has begun, grace included.
Begun(p, n) == n > 1 => clock > row[p].created + (n - 1) * DayTicks + GraceTicks

\* The end of a day of p that has begun.
Boundaries(p, t) == \E n \in 1..MaxTenorDays : t = row[p].created + n * DayTicks /\ Begun(p, n)

TenorOver(p) == clock >= row[p].created + Tenor

Counted == {"user_close", "trigger"}

\* A close that counts days bills them at an instant that has passed or at the
\* end of a day that has begun; one at the full tenor was listed behind it.
\* What the admin clears stays the admin's, what fires the trigger's.
BillJob(j) ==
  /\ j.now <= clock
  /\ j.pc = "schedule" => Boundaries(j.pos, j.at)
  /\ (j.pc = "read" /\ j.by \in Counted) => (j.at <= clock \/ Boundaries(j.pos, j.at))
  /\ j.pc = "clear" => j.by = "admin"
  /\ j.pc \in Firing => j.by = "trigger"
  /\ (j.pc = "write" /\ j.by \in Counted) => Begun(j.pos, j.days)
  /\ j.by = "natural_expiry" =>
       /\ \A p \in j.todo : TenorOver(p)
       /\ j.pc \in {"read", "write"} => TenorOver(j.pos)

BillRow(p) ==
  /\ row[p].effective # 0 => Boundaries(p, row[p].effective)
  /\ row[p].by \in Counted => Begun(p, row[p].days)
  /\ row[p].by = "natural_expiry" => TenorOver(p)

BillInv ==
  /\ \A h \in Handlers : BillJob(job[h])
  /\ \A p \in Protections : BillRow(p)

\* Products grow with a factor.
LEMMA Monotone ==
  ASSUME NEW a \in Int, NEW b \in Int, NEW d \in Nat, a <= b
  PROVE  a * d <= b * d
<1>1. (b - a) * d >= 0
  OBVIOUS
<1>2. (b - a) * d = b * d - a * d /\ a * d \in Int /\ b * d \in Int
  OBVIOUS
<1> QED
  BY <1>1, <1>2

\* The last day billed at an instant had begun by then: rounding up adds less
\* than a day.
LEMMA DaysBilledBegun ==
  ASSUME NEW c \in Nat, NEW a \in Nat, DaysBilled(c, a) > 1
  PROVE  a > c + (DaysBilled(c, a) - 1) * DayTicks + GraceTicks
<1> DEFINE held == a - c - GraceTicks
           q    == CeilDiv(held, DayTicks)
           d    == DaysBilled(c, a)
<1>1. held \in Int /\ DayTicks \in Nat \ {0} /\ MaxTenorDays \in Nat \ {0}
  BY TimeAssumption
<1>2. \A n \in Int : DayTicks * (n \div DayTicks) <= n /\ n \div DayTicks \in Int
  BY <1>1
<1>3. held > 0 /\ q \in Int /\ d <= q /\ d \in 1..MaxTenorDays
  <2>1. q \in Int
    <3>1. held + DayTicks - 1 \in Int
      BY <1>1
    <3> QED
      BY <1>2, <3>1 DEF CeilDiv
  <2>2. d \in 1..MaxTenorDays /\ d > 1
    BY DaysBilledType
  <2>3. held > 0
    BY <1>1, <2>2 DEF DaysBilled, Clamp
  <2> HIDE DEF q
  <2>4. d = Clamp(1, q, MaxTenorDays)
    BY <2>3 DEF DaysBilled, q
  <2> HIDE DEF d, held
  <2> QED
    BY <1>1, <2>1, <2>2, <2>3, <2>4 DEF Clamp
<1> HIDE DEF d
<1>4. (q - 1) * DayTicks < held
  <2>1. PICK n \in Int : n = held + DayTicks - 1
    BY <1>1
  <2>2. q = n \div DayTicks
    BY <2>1 DEF CeilDiv
  <2> HIDE DEF q
  <2>3. DayTicks * q <= n
    BY <1>2, <2>1, <2>2
  <2>4. (q - 1) * DayTicks = DayTicks * q - DayTicks /\ DayTicks * q \in Int
    BY <1>1, <1>3
  <2> HIDE DEF held
  <2> QED
    BY <1>1, <2>1, <2>3, <2>4
<1> HIDE DEF q
<1>5. (d - 1) * DayTicks <= (q - 1) * DayTicks
  BY <1>1, <1>3, Monotone
<1>6. (d - 1) * DayTicks \in Int /\ (q - 1) * DayTicks \in Int
  BY <1>1, <1>3
<1> QED
  BY <1>1, <1>4, <1>5, <1>6, TimeAssumption DEF d

\* A close that counts its days to an instant that has passed, or to the end
\* of a day that has begun, bills days that have begun.
LEMMA DaysBegun ==
  ASSUME NEW p \in Protections, row[p].created \in Nat, clock \in Nat, NEW t \in Nat,
         t <= clock \/ Boundaries(p, t)
  PROVE  Begun(p, DaysBilled(row[p].created, t))
<1> DEFINE c == row[p].created
           d == DaysBilled(c, t)
<1>1. d \in 1..MaxTenorDays /\ DayTicks \in Nat \ {0} /\ GraceTicks \in 0..DayTicks
  BY DaysBilledType, TimeAssumption
<1>2. d > 1 => t > c + (d - 1) * DayTicks + GraceTicks
  BY DaysBilledBegun
<1> HIDE DEF d
<1>3. (d - 1) * DayTicks \in Int
  BY <1>1
<1>4. CASE t <= clock
  BY <1>1, <1>2, <1>3, <1>4 DEF Begun, d
<1>5. CASE Boundaries(p, t)
  <2>1. PICK n \in 1..MaxTenorDays : t = c + n * DayTicks /\ Begun(p, n)
    BY <1>5 DEF Boundaries
  <2>2. CASE d > 1
    <3>1. n * DayTicks \in Int /\ (n - 1) * DayTicks \in Int
      BY <1>1, <2>1
    <3>2. n >= d
      <4>1. SUFFICES ASSUME n <= d - 1 PROVE FALSE
        BY <1>1, <2>1
      <4>2. n * DayTicks <= (d - 1) * DayTicks
        BY <1>1, <2>1, <4>1, Monotone
      <4> QED
        BY <1>1, <1>2, <1>3, <2>1, <2>2, <3>1, <4>2
    <3>3. (d - 1) * DayTicks <= (n - 1) * DayTicks
      BY <1>1, <2>1, <3>2, Monotone
    <3>4. clock > c + (n - 1) * DayTicks + GraceTicks
      BY <1>1, <2>1, <2>2, <3>2 DEF Begun
    <3> QED
      BY <1>1, <1>3, <3>1, <3>3, <3>4 DEF Begun, d
  <2> QED
    BY <2>2 DEF Begun, d
<1> QED
  BY <1>4, <1>5

\* What has begun stays so: the clock is not put back, and a protection keeps
\* the instant it was created.
LEMMA BegunStays ==
  ASSUME NEW p, row[p].created \in Nat, clock \in Nat, clock' \in Nat, clock <= clock',
         row'[p].created = row[p].created
  PROVE  /\ \A n \in Nat : Begun(p, n) => Begun(p, n)'
         /\ \A t : Boundaries(p, t) => Boundaries(p, t)'
         /\ TenorOver(p) => TenorOver(p)'
<1>0. DayTicks \in Nat /\ MaxTenorDays \in Nat /\ GraceTicks \in Int
  BY TimeAssumption
<1>1. ASSUME NEW n \in Nat, Begun(p, n) PROVE Begun(p, n)'
  <2>1. (n - 1) * DayTicks \in Int
    BY <1>0
  <2> QED
    BY <1>0, <1>1, <2>1 DEF Begun
<1>2. ASSUME NEW t, Boundaries(p, t) PROVE Boundaries(p, t)'
  <2>1. PICK n \in 1..MaxTenorDays : t = row[p].created + n * DayTicks /\ Begun(p, n)
    BY <1>2 DEF Boundaries
  <2>2. n \in Nat
    BY <1>0
  <2>3. Begun(p, n)'
    BY <1>1, <2>1, <2>2
  <2> QED
    BY <2>1, <2>3 DEF Boundaries
<1>3. Tenor \in Nat
  BY <1>0 DEF Tenor
<1>4. TenorOver(p) => TenorOver(p)'
  BY <1>3 DEF TenorOver, Tenor
<1> QED
  BY <1>1, <1>2, <1>4

\* Rows and the clock go on; handler h becomes j.
LEMMA BillFrame ==
  ASSUME BiweeklyInv, BillInv, NEW h \in Handlers, NEW j, SetJob(h, j),
         clock' = clock, BillJob(j)',
         \A p \in Protections : Exists(p) => row'[p].created = row[p].created,
         \A p \in Protections : BillRow(p)'
  PROVE  BillInv'
<1>1. clock \in Nat /\ row \in [Protections -> Row] /\ job \in [Handlers -> Job]
  BY DEF BiweeklyInv, BiweeklyTypeOK
<1>2. job' = [job EXCEPT ![h] = j]
  BY DEF SetJob
<1>3. ASSUME NEW g \in Handlers PROVE BillJob(job[g])'
  <2>1. CASE g = h
    BY <1>1, <1>2, <2>1
  <2>2. CASE g # h
    <3> PICK k \in Job : k = job[g]
      BY <1>1
    <3>1. job'[g] = k /\ BillJob(k)
      BY <1>1, <1>2, <2>2 DEF BillInv
    <3>2. /\ \A p \in k.todo : Exists(p)
          /\ k.pc \in AtWork => k.pos \in Protections /\ Exists(k.pos)
          /\ k.todo \in SUBSET Protections /\ k.days \in Nat
      BY TimeAssumption DEF BiweeklyInv, JobInv, Job
    <3>3. {"schedule", "read", "write", "clear"} \subseteq AtWork
      BY DEF AtWork, JobPc
    <3>4. ASSUME NEW p \in Protections, Exists(p)
          PROVE  /\ \A n \in Nat : Begun(p, n) => Begun(p, n)'
                 /\ \A t : Boundaries(p, t) => Boundaries(p, t)'
                 /\ TenorOver(p) => TenorOver(p)'
      <4>1. row[p].created \in Nat /\ row'[p].created = row[p].created
        BY <1>1, <3>4 DEF Row
      <4>2. clock <= clock' /\ clock' \in Nat
        BY <1>1
      <4> QED
        BY <1>1, <4>1, <4>2, BegunStays
    <3>5. BillJob(k)'
      BY <3>1, <3>2, <3>3, <3>4 DEF BillJob
    <3> QED
      BY <3>1, <3>5 DEF BillJob
  <2> QED
    BY <2>1, <2>2
<1> QED
  BY <1>3 DEF BillInv

\* A row whose columns are not those of the bill.
LEMMA RowBillStays ==
  ASSUME BiweeklyInv, BillInv, NEW p \in Protections, clock' = clock,
         row'[p].created = row[p].created,
         row'[p].effective \in {0, row[p].effective},
         row'[p].by = row[p].by, row'[p].days = row[p].days
  PROVE  BillRow(p)'
<1>1. clock \in Nat /\ row[p] \in Row /\ BillRow(p) /\ MaxTenorDays \in Nat
  BY TimeAssumption DEF BiweeklyInv, BiweeklyTypeOK, BillInv
<1>2. row[p].created \in Nat /\ row[p].days \in Nat
  BY <1>1 DEF Row
<1>3. /\ \A n \in Nat : Begun(p, n) => Begun(p, n)'
      /\ \A t : Boundaries(p, t) => Boundaries(p, t)'
      /\ TenorOver(p) => TenorOver(p)'
  <2>1. clock <= clock' /\ clock' \in Nat
    BY <1>1
  <2> QED
    BY <1>1, <1>2, <2>1, BegunStays
<1> QED
  BY <1>1, <1>2, <1>3 DEF BillRow

\* Handler h becomes j and writes no row.
LEMMA BillGoesOn ==
  ASSUME BiweeklyInv, BillInv, NEW h \in Handlers, NEW j, SetJob(h, j),
         UNCHANGED <<row, clock>>, BillJob(j)
  PROVE  BillInv'
<1>1. BillJob(j)'
  BY DEF BillJob, Boundaries, Begun, TenorOver
<1>2. ASSUME NEW p \in Protections PROVE BillRow(p)'
  BY RowBillStays
<1> QED
  BY <1>1, <1>2, BillFrame

\* The same, of a step that is one of the two.
LEMMA BillProceeds ==
  ASSUME BiweeklyInv, BillInv, NEW h \in Handlers, NEW j, BillJob(j),
         Proceed(h, j) \/ Throws(h, j)
  PROVE  BillInv'
  BY BillGoesOn DEF Proceed, Throws, tables

\* Handler h becomes j and writes p's row.
LEMMA BillWrites ==
  ASSUME BiweeklyInv, BillInv, NEW h \in Handlers, NEW j, NEW p \in Protections, NEW r,
         SetJob(h, j), SetRow(p, r), clock' = clock, BillJob(j)', BillRow(p)',
         r.created = row[p].created \/ ~Exists(p)
  PROVE  BillInv'
<1>1. /\ row'[p] = r /\ \A q \in Protections \ {p} : row'[q] = row[q]
  BY DEF SetRow, BiweeklyInv, BiweeklyTypeOK
<1>2. ASSUME NEW q \in Protections PROVE BillRow(q)'
  BY <1>1, RowBillStays
<1> QED
  BY <1>1, <1>2, BillFrame

\* What a handler keeps of its list and pass is still billed rightly.
LEMMA LessBill ==
  ASSUME NEW k, NEW j, BillJob(k), j.now = k.now, j.by = k.by, j.todo \subseteq k.todo,
         j.pc \notin {"schedule", "read", "clear", "write", "accrue", "due"}
  PROVE  BillJob(j)
  BY DEF BillJob, Firing

\* Nor does a handler that bills nothing matter,
LEMMA QuietBill ==
  ASSUME NEW j, j.now <= clock, j.by # "natural_expiry",
         j.pc \notin {"schedule", "read", "clear", "write", "accrue", "due"}
  PROVE  BillJob(j)
  BY DEF BillJob, Firing

\* an idle one,
LEMMA IdleBill ==
  ASSUME BiweeklyInv
  PROVE  BillJob(IdleJob)
<1>1. clock \in Nat
  BY DEF BiweeklyInv, BiweeklyTypeOK
<1>2. IdleJob.now = 0 /\ IdleJob.by = "trigger" /\ IdleJob.pc = "idle"
  BY DEF IdleJob
<1> HIDE DEF IdleJob
<1> QED
  BY <1>1, <1>2, QuietBill

\* or one whose close has ended.
LEMMA ReturnBill ==
  ASSUME BiweeklyInv, BillInv, NEW h \in Handlers
  PROVE  BillJob(Return(h))
<1> PICK j \in Job : j = job[h]
  BY DEF BiweeklyInv, BiweeklyTypeOK
<1>1. BillJob(j)
  BY DEF BillInv
<1>2. CASE h \in Cycles
  <2> PICK k : k = [IdleJob EXCEPT !.pc = "loop", !.todo = j.todo, !.by = j.by, !.now = j.now]
    OBVIOUS
  <2>1. k.pc = "loop" /\ k.todo = j.todo /\ k.by = j.by /\ k.now = j.now
    BY DEF IdleJob
  <2>2. Return(h) = k
    BY <1>2 DEF Return
  <2> QED
    BY <1>1, <2>1, <2>2, LessBill
<1>3. CASE h \notin Cycles
  BY <1>3, IdleBill DEF Return
<1> QED
  BY <1>2, <1>3

\* The close handler: what it reads, what it writes.
LEMMA CloseStepBill ==
  ASSUME BiweeklyInv, BillInv, NEW h \in Handlers, CloseStep(h)
  PROVE  BillInv'
<1> PICK j \in Job : j = job[h]
  BY DEF BiweeklyInv, BiweeklyTypeOK
<1> PICK p : p = j.pos
  OBVIOUS
<1>1. BillJob(j) /\ JobInv(j) /\ clock \in Nat /\ row \in [Protections -> Row]
  BY DEF BillInv, BiweeklyInv, BiweeklyTypeOK
<1>2. CASE Proceed(h, Return(h)) \/ Throws(h, Return(h))
  BY <1>2, ReturnBill, BillProceeds
<1>3. CASE ReadState(h)
  <2> DEFINE d == IF j.by = "natural_expiry" THEN MaxTenorDays
                  ELSE DaysBilled(row[p].created, j.at)
  <2> PICK k : k = [j EXCEPT !.pc = "write", !.days = d]
    OBVIOUS
  <2>1. j.pc = "read" /\ p \in Protections
    BY <1>1, <1>3 DEF ReadState, JobInv, AtWork, JobPc
  <2>2. j.by \in Counted => Begun(p, d)
    <3>1. row[p].created \in Nat /\ j.at \in Nat
      BY <1>1, <2>1 DEF Row, Job
    <3>2. CASE j.by \in Counted
      <4>1. j.at <= clock \/ Boundaries(p, j.at)
        BY <1>1, <2>1, <3>2 DEF BillJob
      <4>2. Begun(p, DaysBilled(row[p].created, j.at))
        BY <1>1, <2>1, <3>1, <4>1, DaysBegun
      <4> QED
        BY <3>2, <4>2 DEF Counted
    <3> QED
      BY <3>2
  <2> HIDE DEF d
  <2>3. /\ k.pc = "write" /\ k.days = d /\ k.pos = p /\ k.by = j.by /\ k.todo = j.todo
        /\ k.now = j.now
    BY DEF Job
  <2>4. BillJob(k)
    BY <1>1, <2>1, <2>2, <2>3 DEF BillJob, Firing
  <2>5. CASE Proceed(h, k)
    BY <2>4, <2>5, BillProceeds
  <2> QED
    BY <1>2, <1>3, <2>5 DEF ReadState, d
<1>4. CASE WriteClose(h)
  <2> PICK k : k = [j EXCEPT !.pc = "settle"]
    OBVIOUS
  <2> PICK r : r = ClosedRow(j)
    OBVIOUS
  <2>1. j.pc = "write" /\ p \in Protections /\ row[p] \in Row
    BY <1>1, <1>4 DEF WriteClose, JobInv, AtWork, JobPc
  <2>2. /\ k.pc = "settle" /\ k.by = j.by /\ k.todo = j.todo /\ k.now = j.now
    BY DEF Job
  <2>3. /\ r.created = row[p].created /\ r.effective = row[p].effective
        /\ r.by = j.by /\ r.days = j.days
    BY <2>1 DEF ClosedRow, Row
  <2>4. CASE Update(h, k, p, r)
    <3>1. SetJob(h, k) /\ SetRow(p, r) /\ clock' = clock
      BY <2>4 DEF Update
    <3>2. row'[p] = r
      BY <1>1, <2>1, <3>1 DEF SetRow
    <3>3. /\ \A n \in Nat : Begun(p, n) => Begun(p, n)'
          /\ \A t : Boundaries(p, t) => Boundaries(p, t)'
          /\ TenorOver(p) => TenorOver(p)'
      <4>1. row[p].created \in Nat /\ row'[p].created = row[p].created
        BY <2>1, <2>3, <3>2 DEF Row
      <4>2. clock <= clock' /\ clock' \in Nat
        BY <1>1, <3>1
      <4> QED
        BY <1>1, <4>1, <4>2, BegunStays
    <3>4. j.days \in Nat /\ BillRow(p)
      BY <2>1, TimeAssumption DEF Job, BillInv
    <3>5. BillRow(p)'
      BY <1>1, <2>1, <2>3, <3>2, <3>3, <3>4 DEF BillRow, BillJob
    <3>6. BillJob(k)'
      <4>1. BillJob(k)
        BY <1>1, <2>2, LessBill
      <4>2. ASSUME NEW q \in j.todo PROVE TenorOver(q) => TenorOver(q)'
        <5>1. q \in Protections
          BY DEF Job
        <5>2. row'[q].created = row[q].created
          BY <1>1, <2>1, <2>3, <3>1, <5>1 DEF SetRow
        <5> QED
          BY <3>1, <5>2 DEF TenorOver
      <4> QED
        BY <2>2, <3>1, <4>1, <4>2 DEF BillJob
    <3> QED
      BY <2>1, <2>3, <3>1, <3>5, <3>6, BillWrites
  <2> QED
    BY <1>2, <1>4, <2>4 DEF WriteClose
<1>5. CASE Settle(h)
  <2>1. CASE SetJob(h, Return(h)) /\ UNCHANGED <<row, clock>>
    BY <2>1, ReturnBill, BillGoesOn
  <2> QED
    BY <1>2, <1>5, <2>1 DEF Settle
<1> QED
  BY <1>3, <1>4, <1>5 DEF CloseStep

\* Handler h becomes j and writes columns of p's row that are not those of its
\* bill, or withdraws its schedule.
LEMMA BillUpdates ==
  ASSUME BiweeklyInv, BillInv, NEW h \in Handlers, NEW j, BillJob(j),
         j.todo \subseteq Protections, j.pos \in Protections \cup {NoProtection},
         j.pc \in {"schedule", "read", "write"} => j.pos \in Protections,
         NEW p \in Protections, NEW r,
         SetJob(h, j), SetRow(p, r), clock' = clock,
         r.created = row[p].created, r.effective \in {0, row[p].effective},
         r.by = row[p].by, r.days = row[p].days
  PROVE  BillInv'
<1>1. /\ row'[p] = r /\ \A q \in Protections \ {p} : row'[q] = row[q]
  BY DEF SetRow, BiweeklyInv, BiweeklyTypeOK
<1>2. \A q \in Protections : row'[q].created = row[q].created
  BY <1>1
<1>3. BillJob(j)'
  BY <1>2 DEF BillJob, Boundaries, Begun, TenorOver
<1>4. BillRow(p)'
  BY <1>1, RowBillStays
<1> QED
  BY <1>3, <1>4, BillWrites

\* Requests: the boundary a close is scheduled for ends a day that has begun.
LEMMA RequestStepBill ==
  ASSUME BiweeklyInv, BillInv, NEW h \in Requests, RequestStep(h)
  PROVE  BillInv'
<1> h \in Handlers
  BY DEF Handlers
<1> PICK j \in Job : j = job[h]
  BY DEF BiweeklyInv, BiweeklyTypeOK
<1>1. BillJob(j) /\ JobInv(j) /\ clock \in Nat /\ row \in [Protections -> Row]
  BY DEF BillInv, BiweeklyInv, BiweeklyTypeOK
<1>2. BillJob(IdleJob) /\ IdleJob \in Job /\ IdleJob.pc = "idle"
  BY IdleBill, Idle DEF IdleJob
<1>3. ASSUME NEW p \in Protections, NEW r, Update(h, IdleJob, p, r),
             r.created = row[p].created, r.effective \in {0, row[p].effective},
             r.by = row[p].by, r.days = row[p].days
      PROVE  BillInv'
  <2>1. /\ IdleJob.todo \subseteq Protections /\ IdleJob.pos \in Protections \cup {NoProtection}
        /\ IdleJob.pc \notin {"schedule", "read", "write"}
    BY <1>2 DEF Job
  <2>2. SetJob(h, IdleJob) /\ SetRow(p, r) /\ clock' = clock
    BY <1>3 DEF Update
  <2> HIDE DEF IdleJob
  <2> QED
    BY <1>2, <1>3, <2>1, <2>2, BillUpdates
<1>4. CASE Activate(h)
  <2>1. PICK p \in Protections :
          /\ ~Exists(p)
          /\ Update(h, [IdleJob EXCEPT !.pc = "price", !.pos = p],
                    p, [NoRow EXCEPT !.status = "active", !.created = clock])
    BY <1>4 DEF Activate
  <2> PICK k : k = [IdleJob EXCEPT !.pc = "price", !.pos = p]
    OBVIOUS
  <2> PICK r : r = [NoRow EXCEPT !.status = "active", !.created = clock]
    OBVIOUS
  <2>2. k.pc = "price" /\ k.by = "trigger" /\ k.now = 0
    BY DEF IdleJob
  <2>3. r.by = "none" /\ r.effective = 0
    BY DEF NoRow
  <2>4. SetJob(h, k) /\ SetRow(p, r) /\ clock' = clock
    BY <2>1 DEF Update
  <2>5. row'[p] = r
    BY <1>1, <2>4 DEF SetRow
  <2>6. BillJob(k)'
    BY <1>1, <2>2, <2>4 DEF BillJob, Firing
  <2>7. BillRow(p)'
    BY <2>3, <2>5 DEF BillRow, Counted
  <2> QED
    BY <2>1, <2>4, <2>6, <2>7, BillWrites
<1>5. CASE PriceRow(h)
  <2> PICK p : p = j.pos
    OBVIOUS
  <2> PICK r : r = [row[p] EXCEPT !.priced = TRUE]
    OBVIOUS
  <2>1. p \in Protections
    BY <1>1, <1>5 DEF PriceRow, JobInv, AtWork, JobPc
  <2>2. /\ r.created = row[p].created /\ r.effective = row[p].effective
        /\ r.by = row[p].by /\ r.days = row[p].days
    BY <1>1, <2>1 DEF Row
  <2>3. CASE Update(h, IdleJob, p, r)
    BY <1>3, <2>1, <2>2, <2>3
  <2> QED
    BY <1>2, <1>5, <2>3, BillProceeds DEF PriceRow
<1>6. CASE RequestClose(h)
  <2>1. PICK p \in Protections :
          /\ Exists(p)
          /\ Proceed(h, [IdleJob EXCEPT !.pc = "schedule", !.pos = p,
                                        !.at = Boundary(row[p].created, clock)])
    BY <1>6 DEF RequestClose
  <2> PICK t : t = Boundary(row[p].created, clock)
    OBVIOUS
  <2> PICK k : k = [IdleJob EXCEPT !.pc = "schedule", !.pos = p, !.at = t]
    OBVIOUS
  <2>2. k.pc = "schedule" /\ k.pos = p /\ k.at = t /\ k.by = "trigger" /\ k.now = 0
    BY DEF IdleJob
  <2>3. row[p].created \in Nat
    BY <1>1 DEF Row
  <2>4. Begun(p, DaysBilled(row[p].created, clock))
    BY <1>1, <2>3, DaysBegun
  <2>5. DaysBilled(row[p].created, clock) \in 1..MaxTenorDays
    BY <1>1, <2>3, DaysBilledType
  <2>6. Boundaries(p, t)
    BY <2>4, <2>5 DEF Boundaries, Boundary
  <2>7. BillJob(k)
    BY <1>1, <2>2, <2>6 DEF BillJob, Firing
  <2> QED
    BY <2>1, <2>7, BillProceeds
<1>7. CASE WriteSchedule(h)
  <2> PICK p : p = j.pos
    OBVIOUS
  <2> PICK r : r = [row[p] EXCEPT !.effective = j.at]
    OBVIOUS
  <2>1. p \in Protections /\ j.pc = "schedule" /\ Boundaries(p, j.at)
    BY <1>1, <1>7 DEF WriteSchedule, JobInv, AtWork, JobPc, BillJob
  <2>2. /\ r.created = row[p].created /\ r.effective = j.at /\ r.by = row[p].by
    BY <1>1, <2>1 DEF Row
  <2>3. CASE ~Closed(p) /\ Update(h, IdleJob, p, r)
    <3>1. SetJob(h, IdleJob) /\ SetRow(p, r) /\ clock' = clock
      BY <2>3 DEF Update
    <3>2. row'[p] = r /\ r.by = "none"
      BY <1>1, <2>1, <2>2, <2>3, <3>1 DEF SetRow, Closed
    <3>3. Boundaries(p, j.at)'
      BY <2>1, <2>2, <3>1, <3>2 DEF Boundaries, Begun
    <3>4. BillRow(p)'
      BY <2>2, <3>2, <3>3 DEF BillRow, Counted
    <3>5. BillJob(IdleJob)'
      BY <1>1, <3>1 DEF BillJob, IdleJob, Firing
    <3> QED
      BY <2>1, <2>2, <3>1, <3>4, <3>5, BillWrites
  <2> QED
    BY <1>2, <1>7, <2>3, BillProceeds DEF WriteSchedule
<1>8. CASE UndoClose(h)
  <2>1. PICK p \in Protections : Update(h, IdleJob, p, [row[p] EXCEPT !.effective = 0])
    BY <1>8 DEF UndoClose
  <2> PICK r : r = [row[p] EXCEPT !.effective = 0]
    OBVIOUS
  <2>2. /\ r.created = row[p].created /\ r.effective = 0
        /\ r.by = row[p].by /\ r.days = row[p].days
    BY <1>1 DEF Row
  <2> QED
    BY <1>3, <2>1, <2>2
<1>9. CASE CloseNow(h)
  <2>1. PICK p \in Protections :
          Proceed(h, [IdleJob EXCEPT !.pc = "read", !.pos = p, !.by = "user_close", !.at = clock])
    BY <1>9 DEF CloseNow
  <2> PICK k : k = [IdleJob EXCEPT !.pc = "read", !.pos = p, !.by = "user_close", !.at = clock]
    OBVIOUS
  <2>2. k.pc = "read" /\ k.by = "user_close" /\ k.at = clock /\ k.now = 0
    BY DEF IdleJob
  <2>3. BillJob(k)
    BY <1>1, <2>2 DEF BillJob, Firing
  <2> QED
    BY <2>1, <2>3, BillProceeds
<1>10. CASE CourtesyClose(h)
  <2>1. PICK p \in Protections, d \in 1..MaxTenorDays :
          Proceed(h, [IdleJob EXCEPT !.pc = "clear", !.pos = p, !.by = "admin", !.days = d])
    BY <1>10 DEF CourtesyClose
  <2> PICK k : k = [IdleJob EXCEPT !.pc = "clear", !.pos = p, !.by = "admin", !.days = d]
    OBVIOUS
  <2>2. k.pc = "clear" /\ k.by = "admin" /\ k.now = 0
    BY DEF IdleJob
  <2>3. BillJob(k)
    BY <1>1, <2>2 DEF BillJob, Firing
  <2> QED
    BY <2>1, <2>3, BillProceeds
<1>11. CASE ClearSchedule(h)
  <2> PICK p : p = j.pos
    OBVIOUS
  <2> PICK k : k = [j EXCEPT !.pc = "write"]
    OBVIOUS
  <2> PICK r : r = [row[p] EXCEPT !.effective = 0]
    OBVIOUS
  <2>1. p \in Protections /\ j.by = "admin"
    BY <1>1, <1>11 DEF ClearSchedule, JobInv, AtWork, JobPc, BillJob
  <2>2. /\ k.pc = "write" /\ k.by = "admin" /\ k.now = j.now /\ k.pos = p
        /\ k.todo \subseteq Protections
    BY <2>1 DEF Job
  <2>3. BillJob(k)
    BY <1>1, <2>2 DEF BillJob, Counted, Firing
  <2>4. /\ r.created = row[p].created /\ r.effective = 0
        /\ r.by = row[p].by /\ r.days = row[p].days
    BY <1>1, <2>1 DEF Row
  <2>5. CASE Update(h, k, p, r)
    <3>1. SetJob(h, k) /\ SetRow(p, r) /\ clock' = clock
      BY <2>5 DEF Update
    <3> QED
      BY <2>1, <2>2, <2>3, <2>4, <3>1, BillUpdates
  <2>6. CASE Proceed(h, k) \/ Throws(h, k)
    BY <2>3, <2>6, BillProceeds
  <2> QED
    BY <1>11, <2>5, <2>6 DEF ClearSchedule
<1>12. CASE CloseStep(h)
  BY <1>12, CloseStepBill
<1> QED
  BY <1>4, <1>5, <1>6, <1>7, <1>8, <1>9, <1>10, <1>11, <1>12 DEF RequestStep

\* A handler that takes p from its list and neither reads nor closes.
LEMMA WithoutBill ==
  ASSUME BiweeklyInv, BillInv, NEW h \in Handlers, job[h].pc = "loop", NEW p
  PROVE  /\ BillJob(Without(h, p))
         /\ BillJob([Without(h, p) EXCEPT !.pc = "resolve", !.pos = p])
<1> PICK j \in Job : j = job[h]
  BY DEF BiweeklyInv, BiweeklyTypeOK
<1>1. BillJob(j) /\ j.pc = "loop"
  BY DEF BillInv
<1> PICK k : k = Without(h, p)
  OBVIOUS
<1>2. k \in Job /\ k.pc = "loop" /\ k.todo \subseteq j.todo /\ k.by = j.by /\ k.now = j.now
  <2>1. k = [j EXCEPT !.todo = @ \ {p}]
    BY DEF Without
  <2> QED
    BY <1>1, <2>1 DEF Job
<1> PICK l : l = [k EXCEPT !.pc = "resolve", !.pos = p]
  OBVIOUS
<1>3. l.pc = "resolve" /\ l.todo = k.todo /\ l.by = k.by /\ l.now = k.now
  BY <1>2 DEF Job
<1>4. BillJob(k)
  BY <1>1, <1>2, LessBill
<1>5. BillJob(l)
  BY <1>3, <1>4 DEF BillJob, Firing
<1> QED
  BY <1>4, <1>5

\* A cycle bills a trigger at its own start.
LEMMA FireTriggerBill ==
  ASSUME BiweeklyInv, BillInv, NEW h \in Handlers,
         FireTrigger(h) \/ AccruePayout(h) \/ BookTriggerDue(h)
  PROVE  BillInv'
<1> PICK j \in Job : j = job[h]
  BY DEF BiweeklyInv, BiweeklyTypeOK
<1>1. BillJob(j) /\ JobInv(j) /\ clock \in Nat /\ row \in [Protections -> Row]
  BY DEF BillInv, BiweeklyInv, BiweeklyTypeOK
<1>2. CASE FireTrigger(h)
  <2>1. PICK p \in j.todo :
          \/ Update(h, [Without(h, p) EXCEPT !.pc = "accrue", !.pos = p],
                    p, [row[p] EXCEPT !.status = "triggered"])
          \/ Proceed(h, Without(h, p))
          \/ Throws(h, IdleJob)
    BY <1>2 DEF FireTrigger
  <2>2. j.pc = "loop" /\ j.by = "trigger" /\ p \in Protections
    BY <1>2 DEF FireTrigger, Job
  <2>3. CASE Proceed(h, Without(h, p)) \/ Throws(h, IdleJob)
    BY <2>2, <2>3, WithoutBill, IdleBill, BillProceeds
  <2> PICK k : k = [Without(h, p) EXCEPT !.pc = "accrue", !.pos = p]
    OBVIOUS
  <2> PICK r : r = [row[p] EXCEPT !.status = "triggered"]
    OBVIOUS
  <2>4. CASE Update(h, k, p, r)
    <3>1. /\ k.pc = "accrue" /\ k.by = "trigger" /\ k.now = j.now /\ k.pos = p
          /\ k.todo \subseteq Protections
      BY <2>2 DEF Without, Job
    <3>2. BillJob(k)
      BY <1>1, <3>1 DEF BillJob
    <3>3. /\ r.created = row[p].created /\ r.effective = row[p].effective
          /\ r.by = row[p].by /\ r.days = row[p].days
      BY <1>1, <2>2 DEF Row
    <3>4. SetJob(h, k) /\ SetRow(p, r) /\ clock' = clock
      BY <2>4 DEF Update
    <3> QED
      BY <2>2, <3>1, <3>2, <3>3, <3>4, BillUpdates
  <2> QED
    BY <2>1, <2>3, <2>4
<1>3. CASE AccruePayout(h)
  <2> PICK k : k = [j EXCEPT !.pc = "due"]
    OBVIOUS
  <2>1. k.pc = "due" /\ k.by = j.by /\ k.now = j.now /\ k.todo = j.todo /\ j.pc = "accrue"
    BY <1>3 DEF Job, AccruePayout
  <2>2. BillJob(k)
    BY <1>1, <2>1 DEF BillJob, Firing
  <2>3. SetJob(h, k) /\ UNCHANGED <<row, clock>>
    BY <1>3 DEF AccruePayout, Throws, tables
  <2> QED
    BY <2>2, <2>3, BillGoesOn
<1>4. CASE BookTriggerDue(h)
  <2> PICK k : k = [j EXCEPT !.pc = "read", !.at = j.now]
    OBVIOUS
  <2>1. /\ k.pc = "read" /\ k.by = j.by /\ k.now = j.now /\ k.at = j.now /\ j.pc = "due"
    BY <1>4 DEF Job, BookTriggerDue
  <2>2. BillJob(k)
    BY <1>1, <2>1 DEF BillJob, Firing
  <2>3. CASE SetJob(h, k) /\ UNCHANGED <<row, clock>>
    BY <2>2, <2>3, BillGoesOn
  <2>4. CASE Throws(h, IdleJob)
    BY <2>4, IdleBill, BillProceeds
  <2> QED
    BY <1>4, <2>3, <2>4 DEF BookTriggerDue
<1> QED
  BY <1>2, <1>3, <1>4

\* The sweeps bill at their start, or at the boundary in the row.
LEMMA CycleStepBill ==
  ASSUME BiweeklyInv, BillInv, NEW h \in Cycles, CycleStep(h)
  PROVE  BillInv'
<1> h \in Handlers
  BY DEF Handlers
<1> PICK j \in Job : j = job[h]
  BY DEF BiweeklyInv, BiweeklyTypeOK
<1>1. BillJob(j) /\ JobInv(j) /\ clock \in Nat /\ row \in [Protections -> Row]
  BY DEF BillInv, BiweeklyInv, BiweeklyTypeOK
<1>2. CASE StartCycle(h)
  <2> PICK k : k = [IdleJob EXCEPT !.pc = "loop", !.by = "trigger", !.now = clock,
                      !.todo = {p \in Protections : row[p].status = "active" /\ row[p].priced}]
    OBVIOUS
  <2>1. k.pc = "loop" /\ k.by = "trigger" /\ k.now = clock
    BY DEF IdleJob
  <2>2. BillJob(k)
    BY <1>1, <2>1 DEF BillJob, Firing
  <2>3. Proceed(h, k)
    BY <1>2 DEF StartCycle
  <2> QED
    BY <2>2, <2>3, BillProceeds
<1>3. CASE SkipCandidate(h)
  <2>1. PICK p \in j.todo : Proceed(h, Without(h, p))
    BY <1>3 DEF SkipCandidate
  <2> QED
    BY <1>3, <2>1, WithoutBill, BillProceeds DEF SkipCandidate
<1>4. ASSUME NEW from, NEW to, NEW S, StartPass(h, from, to, S),
             to = "natural_expiry" => \A p \in S : TenorOver(p)
      PROVE  BillInv'
  <2> PICK k : k = [j EXCEPT !.by = to, !.todo = S]
    OBVIOUS
  <2> PICK l : l = [j EXCEPT !.by = to]
    OBVIOUS
  <2>1. j.pc = "loop" /\ j.todo = {} /\ (Proceed(h, k) \/ Throws(h, l))
    BY <1>4 DEF StartPass
  <2>2. /\ k.pc = "loop" /\ k.by = to /\ k.todo = S /\ k.now = j.now
        /\ l.pc = "loop" /\ l.by = to /\ l.todo = {} /\ l.now = j.now
    BY <2>1 DEF Job
  <2>3. BillJob(k) /\ BillJob(l)
    BY <1>1, <1>4, <2>2 DEF BillJob, Firing
  <2> QED
    BY <2>1, <2>3, BillProceeds
<1>5. CASE StartNaturalSweep(h)
  <2>1. \A p \in ExpiredBy(j.now) : TenorOver(p)
    <3>1. ASSUME NEW p \in ExpiredBy(j.now) PROVE TenorOver(p)
      <4>1. p \in Protections /\ row[p].created + Tenor <= j.now
        BY DEF ExpiredBy
      <4>2. row[p].created \in Nat /\ j.now \in Nat /\ j.now <= clock /\ Tenor \in Nat
        BY <1>1, <4>1, TimeAssumption DEF Row, Job, BillJob, Tenor
      <4> QED
        BY <1>1, <4>1, <4>2 DEF TenorOver
    <3> QED
      BY <3>1
  <2> QED
    BY <1>4, <1>5, <2>1 DEF StartNaturalSweep
<1>6. CASE StartScheduledSweep(h)
  BY <1>4, <1>6 DEF StartScheduledSweep
<1>7. CASE SweepExpired(h)
  <2>1. PICK p \in j.todo :
          Proceed(h, [Without(h, p) EXCEPT !.pc = "read", !.pos = p, !.at = j.now])
    BY <1>7 DEF SweepExpired
  <2> PICK k : k = [Without(h, p) EXCEPT !.pc = "read", !.pos = p, !.at = j.now]
    OBVIOUS
  <2>2. /\ k.pc = "read" /\ k.pos = p /\ k.by = j.by /\ k.now = j.now /\ k.todo \subseteq j.todo
        /\ j.by = "natural_expiry"
    BY <1>7 DEF Without, Job, SweepExpired
  <2>3. BillJob(k)
    BY <1>1, <2>2 DEF BillJob, Firing, Counted
  <2> QED
    BY <2>1, <2>3, BillProceeds
<1>8. CASE SweepScheduled(h)
  <2>1. PICK p \in j.todo :
          \/ Proceed(h, [Without(h, p) EXCEPT !.pc = "read", !.pos = p,
               !.at = IF row[p].effective # 0 THEN row[p].effective ELSE j.now])
          \/ Throws(h, Without(h, p))
    BY <1>8 DEF SweepScheduled
  <2>2. j.pc = "loop" /\ j.by = "user_close" /\ p \in Protections
    BY <1>8 DEF SweepScheduled, Job
  <2> PICK n : n = IF row[p].effective # 0 THEN row[p].effective ELSE j.now
    OBVIOUS
  <2> PICK k : k = [Without(h, p) EXCEPT !.pc = "read", !.pos = p, !.at = n]
    OBVIOUS
  <2>3. k.pc = "read" /\ k.pos = p /\ k.by = j.by /\ k.now = j.now /\ k.at = n
    BY DEF Without, Job
  <2>4. n <= clock \/ Boundaries(p, n)
    BY <1>1, <2>2 DEF BillInv, BillRow, BillJob
  <2>5. BillJob(k)
    BY <1>1, <2>2, <2>3, <2>4 DEF BillJob, Firing
  <2> QED
    BY <2>1, <2>2, <2>5, WithoutBill, BillProceeds
<1>9. CASE EndCycle(h)
  BY <1>9, IdleBill, BillProceeds DEF EndCycle
<1>10. CASE CloseStep(h)
  BY <1>10, CloseStepBill
<1> QED
  BY <1>2, <1>3, <1>5, <1>6, <1>7, <1>8, <1>9, <1>10, FireTriggerBill DEF CycleStep

\* The resolver bills nothing.
LEMMA ResolverStepBill ==
  ASSUME BiweeklyInv, BillInv, NEW h \in Resolvers, ResolverStep(h)
  PROVE  BillInv'
<1> h \in Handlers
  BY DEF Handlers
<1> PICK j \in Job : j = job[h]
  BY DEF BiweeklyInv, BiweeklyTypeOK
<1>1. BillJob(j) /\ JobInv(j) /\ clock \in Nat /\ row \in [Protections -> Row]
  BY DEF BillInv, BiweeklyInv, BiweeklyTypeOK
<1> PICK n : n = Resumed(h)
  OBVIOUS
<1>2. BillJob(n) /\ n.pc = "loop" /\ n.todo \subseteq Protections /\ n.pos = NoProtection
  <2>1. n.pc = "loop" /\ n.by = "trigger" /\ n.now = 0 /\ n.todo = j.todo /\ n.pos = NoProtection
    BY DEF Resumed, IdleJob
  <2> QED
    BY <1>1, <2>1, QuietBill DEF Job
<1>3. CASE StartResolver(h)
  <2> DEFINE S == {p \in Protections : /\ row[p].status \in Unresolved /\ ~row[p].resolved
                                       /\ row[p].created + Tenor <= clock}
  <2> PICK k : k = [IdleJob EXCEPT !.pc = "loop", !.todo = S]
    OBVIOUS
  <2>1. Proceed(h, k)
    BY <1>3 DEF StartResolver
  <2> HIDE DEF S
  <2>2. k.pc = "loop" /\ k.by = "trigger" /\ k.now = 0
    BY DEF IdleJob
  <2>3. BillJob(k)
    BY <1>1, <2>2 DEF BillJob, Firing
  <2> QED
    BY <2>1, <2>3, BillProceeds
<1>4. CASE ReadUnresolved(h)
  <2>1. PICK p \in j.todo :
          \/ Proceed(h, [Without(h, p) EXCEPT !.pc = "resolve", !.pos = p])
          \/ Proceed(h, Without(h, p))
          \/ Throws(h, IdleJob)
    BY <1>4 DEF ReadUnresolved
  <2>2. j.pc = "loop"
    BY <1>4 DEF ReadUnresolved
  <2> QED
    BY <2>1, <2>2, WithoutBill, IdleBill, BillProceeds
<1>5. ASSUME NEW r, NEW k, k = n \/ k = [j EXCEPT !.pc = "payout"],
             j.pc \in {"resolve", "payout"},
             SetRow(j.pos, r), SetJob(h, k), clock' = clock,
             r.created = row[j.pos].created, r.effective = row[j.pos].effective,
             r.by = row[j.pos].by, r.days = row[j.pos].days
      PROVE  BillInv'
  <2>1. j.pos \in Protections
    BY <1>1, <1>5 DEF JobInv, AtWork, JobPc
  <2>2. /\ BillJob(k) /\ k.todo \subseteq Protections /\ k.pos \in Protections \cup {NoProtection}
        /\ k.pc \notin {"schedule", "read", "write"}
    <3>1. CASE k = n
      BY <1>2, <3>1
    <3>2. CASE k = [j EXCEPT !.pc = "payout"]
      <4>1. /\ k.pc = "payout" /\ k.pos = j.pos /\ k.todo = j.todo /\ k.by = j.by
            /\ k.now = j.now /\ k.todo \subseteq Protections
        BY <3>2 DEF Job
      <4>2. BillJob(k)
        BY <1>1, <4>1, LessBill
      <4> QED
        BY <2>1, <4>1, <4>2
    <3> QED
      BY <1>5, <3>1, <3>2
  <2> QED
    BY <1>5, <2>1, <2>2, BillUpdates
<1>6. j.pc \in {"resolve", "payout"} => row[j.pos] \in Row
  BY <1>1 DEF JobInv, AtWork, JobPc
<1>7. CASE (j.pc \in {"resolve", "payout"} /\ AwaitPrice(h)) \/ Throws(h, IdleJob)
  <2>1. CASE j.pc \in {"resolve", "payout"} /\ AwaitPrice(h)
    <3> PICK r : r = [row[j.pos] EXCEPT !.status = "awaiting_expiry_price"]
      OBVIOUS
    <3>1. SetRow(j.pos, r) /\ SetJob(h, n) /\ clock' = clock
      BY <2>1 DEF AwaitPrice
    <3>2. /\ r.created = row[j.pos].created /\ r.effective = row[j.pos].effective
          /\ r.by = row[j.pos].by /\ r.days = row[j.pos].days
      BY <1>6, <2>1 DEF Row
    <3> QED
      BY <1>5, <2>1, <3>1, <3>2
  <2> QED
    BY <1>7, <2>1, IdleBill, BillProceeds
<1>8. CASE ResolveExpiry(h)
  <2>1. j.pc = "resolve"
    BY <1>8 DEF ResolveExpiry
  <2>2. ASSUME NEW r, NEW k, k = n \/ k = [j EXCEPT !.pc = "payout"], Update(h, k, j.pos, r),
               NEW s, NEW x, r = [row[j.pos] EXCEPT !.status = s, !.resolved = x]
        PROVE  BillInv'
    <3>1. SetRow(j.pos, r) /\ SetJob(h, k) /\ clock' = clock
      BY <2>2 DEF Update
    <3>2. /\ r.created = row[j.pos].created /\ r.effective = row[j.pos].effective
          /\ r.by = row[j.pos].by /\ r.days = row[j.pos].days
      BY <1>6, <2>1, <2>2 DEF Row
    <3> QED
      BY <1>5, <2>1, <2>2, <3>1, <3>2
  <2>3. CASE Update(h, n, j.pos, [row[j.pos] EXCEPT !.status = "expired_otm", !.resolved = TRUE])
    BY <2>2, <2>3
  <2>4. CASE Update(h, [j EXCEPT !.pc = "payout"], j.pos,
                    [row[j.pos] EXCEPT !.status = "expired_itm", !.resolved = TRUE])
    BY <2>2, <2>4
  <2> QED
    BY <1>7, <1>8, <2>1, <2>3, <2>4 DEF ResolveExpiry
<1>9. CASE BookExpiryDue(h)
  <2>1. CASE SetJob(h, n) /\ UNCHANGED <<row, clock>>
    BY <1>2, <2>1, BillGoesOn
  <2> QED
    BY <1>7, <1>9, <2>1 DEF BookExpiryDue
<1>10. CASE EndResolver(h)
  BY <1>10, IdleBill, BillProceeds DEF EndResolver
<1> QED
  BY <1>3, <1>4, <1>8, <1>9, <1>10 DEF ResolverStep

\* A restart, time that passes, and nothing.
LEMMA AroundBill ==
  ASSUME BiweeklyInv, BillInv, Restart \/ Tick \/ UNCHANGED vars
  PROVE  BillInv'
<1>1. /\ row' = row /\ clock \in Nat /\ clock' \in Nat /\ clock <= clock'
      /\ row \in [Protections -> Row] /\ job \in [Handlers -> Job]
  BY DEF Restart, Tick, vars, tables, BiweeklyInv, BiweeklyTypeOK
<1>2. ASSUME NEW p \in Protections
      PROVE  /\ \A n \in Nat : Begun(p, n) => Begun(p, n)'
             /\ \A t : Boundaries(p, t) => Boundaries(p, t)'
             /\ TenorOver(p) => TenorOver(p)'
  <2>1. row[p].created \in Nat
    BY <1>1 DEF Row
  <2> QED
    BY <1>1, <2>1, BegunStays
<1>3. ASSUME NEW j \in Job, BillJob(j), JobInv(j) PROVE BillJob(j)'
  <2>1. j.todo \in SUBSET Protections /\ j.days \in Nat /\ j.now \in Nat /\ j.at \in Nat
    BY TimeAssumption DEF Job
  <2>2. j.pc \in {"schedule", "read", "write"} => j.pos \in Protections
    BY <1>3 DEF JobInv, AtWork, JobPc
  <2> QED
    BY <1>1, <1>2, <1>3, <2>1, <2>2 DEF BillJob
<1>4. ASSUME NEW h \in Handlers PROVE BillJob(job[h])'
  <2>1. CASE job' = job
    <3> PICK j \in Job : j = job[h]
      BY <1>1
    <3>1. BillJob(j) /\ JobInv(j) /\ job'[h] = j
      BY <2>1 DEF BillInv, BiweeklyInv
    <3>2. BillJob(j)'
      BY <1>3, <3>1
    <3> QED
      BY <3>1, <3>2 DEF BillJob
  <2>2. CASE job' = [g \in Handlers |-> IdleJob]
    <3>1. BillJob(IdleJob)'
      BY <1>3, IdleBill, Idle
    <3>2. job'[h] = IdleJob
      BY <2>2
    <3> QED
      BY <3>1, <3>2 DEF BillJob
  <2> QED
    BY <2>1, <2>2 DEF Restart, Tick, vars
<1>5. ASSUME NEW p \in Protections PROVE BillRow(p)'
  <2>1. BillRow(p) /\ row[p].days \in Nat
    BY <1>1, TimeAssumption DEF BillInv, Row
  <2> QED
    BY <1>1, <1>2, <2>1 DEF BillRow
<1> QED
  BY <1>4, <1>5 DEF BillInv

\* However late, early or often the sweeps run, whatever instant they bill at,
\* for any tenor, day and grace: nobody but an admin bills a day that had not
\* begun, and the whole tenor is billed only when it has passed.
THEOREM BilledBehind == Spec => []NotBilledAhead
<1>1. Init => BillInv
  <2> SUFFICES ASSUME Init PROVE BillInv
    OBVIOUS
  <2>1. BiweeklyInv
    BY BiweeklyInit
  <2>2. \A h \in Handlers : BillJob(job[h])
    BY <2>1, IdleBill DEF Init
  <2>3. \A p \in Protections : row[p].effective = 0 /\ row[p].by = "none"
    BY DEF Init, NoRow
  <2> QED
    BY <2>2, <2>3 DEF BillInv, BillRow, Counted
<1>2. BiweeklyInv /\ BillInv /\ [Next]_vars => BillInv'
  BY CycleStepBill, RequestStepBill, ResolverStepBill, AroundBill DEF Next
<1>3. BillInv => NotBilledAhead
  BY DEF BillInv, BillRow, NotBilledAhead, Begun, TenorOver, Counted
<1> QED
  BY <1>1, <1>2, <1>3, BiweeklyInvariant, PTL DEF Spec

-----------------------------------------------------------------------------
(* The handlers implement the subscription contract.                       *)

ContractStep == [Contract!ContractNext]_Contract!contractVars

USE DEF Contract!contractVars

\* Nothing that the contract speaks of changes.
LEMMA SameRows ==
  ASSUME UNCHANGED <<row, settlements>>
  PROVE  ContractStep
BY DEF ContractStep, Exists, Closed

\* A row keeps its phase and its bill.
LEMMA SamePhase ==
  ASSUME BiweeklyInv, NEW p \in Protections, NEW r, SetRow(p, r), UNCHANGED settlements,
         Exists(p), r.status # "absent", r.by = row[p].by, r.days = row[p].days
  PROVE  ContractStep
<1>1. \A q \in Protections : /\ Exists(q)' = Exists(q) /\ Closed(q)' = Closed(q)
                             /\ row'[q].days = row[q].days
  BY DEF SetRow, Exists, Closed, BiweeklyInv, BiweeklyTypeOK
<1> QED
  BY <1>1 DEF ContractStep

\* activate opens a subscription.
LEMMA ActivateOpens ==
  ASSUME BiweeklyInv, NEW h \in Requests, Activate(h)
  PROVE  ContractStep
<1>1. PICK p \in Protections :
        /\ ~Exists(p)
        /\ Update(h, [IdleJob EXCEPT !.pc = "price", !.pos = p],
                  p, [NoRow EXCEPT !.status = "active", !.created = clock])
  BY DEF Activate
<1> PICK r : r = [NoRow EXCEPT !.status = "active", !.created = clock]
  OBVIOUS
<1>2. r.status = "active" /\ r.by = "none" /\ r.days = 0
  BY DEF NoRow
<1>3. row[p].days = 0
  BY <1>1 DEF BiweeklyInv, RowInv, Closed
<1>4. /\ UNCHANGED settlements
      /\ row'[p] = r /\ \A q \in Protections \ {p} : row'[q] = row[q]
  BY <1>1 DEF Update, SetRow, ledgers, BiweeklyInv, BiweeklyTypeOK
<1>5. Contract!OpenContract(p)
  BY ZenonT(40), <1>1, <1>2, <1>3, <1>4 DEF Contract!OpenContract, Exists, Closed
<1> QED
  BY <1>5 DEF ContractStep, Contract!ContractNext

\* The guarded UPDATE closes it.
LEMMA WriteCloseCloses ==
  ASSUME BiweeklyInv, NEW h \in Handlers, WriteClose(h)
  PROVE  ContractStep
<1> PICK j \in Job : j = job[h]
  BY DEF BiweeklyInv, BiweeklyTypeOK
<1> PICK p : p = j.pos
  OBVIOUS
<1>1. /\ JobInv(j) /\ j.pc = "write" /\ j.days # 0 /\ p \in Protections /\ Exists(p)
      /\ row[p] \in Row
  BY DEF WriteClose, BiweeklyInv, BiweeklyTypeOK, JobInv, AtWork, JobPc
<1>2. CASE Proceed(h, Return(h)) \/ Throws(h, Return(h))
  BY <1>2, SameRows DEF Proceed, Throws, tables, ledgers
<1>3. CASE ~Closed(p) /\ Update(h, [j EXCEPT !.pc = "settle"], p, ClosedRow(j))
  <2> PICK r : r = ClosedRow(j)
    OBVIOUS
  <2>1. r.status \notin {"absent", "active"} /\ r.by # "none" /\ r.days = j.days
    <3>1. /\ r.by = j.by /\ r.days = j.days /\ r.status = StatusFor(j.by)
      BY <1>1 DEF ClosedRow, Row
    <3> QED
      BY <3>1 DEF StatusFor, ClosedBy, Job
  <2>2. /\ UNCHANGED settlements
        /\ row'[p] = r /\ \A q \in Protections \ {p} : row'[q] = row[q]
    BY <1>1, <1>3 DEF Update, SetRow, ledgers, BiweeklyInv, BiweeklyTypeOK
  <2>3. j.days \in 1..MaxTenorDays
    BY <1>1, TimeAssumption DEF Job
  <2>4. Contract!CloseContract(p)
    <3>1. [q \in Protections |-> row'[q].days]
            = [[q \in Protections |-> row[q].days] EXCEPT ![p] = j.days]
      BY <2>1, <2>2
    <3>2. [q \in Protections |-> IF ~Exists(q)' THEN "absent"
                                 ELSE IF Closed(q)' THEN "closed" ELSE "open"]
            = [[q \in Protections |-> IF ~Exists(q) THEN "absent"
                                      ELSE IF Closed(q) THEN "closed" ELSE "open"]
                 EXCEPT ![p] = "closed"]
      BY <1>1, <2>1, <2>2 DEF Exists, Closed
    <3> QED
      BY <1>1, <1>3, <2>2, <2>3, <3>1, <3>2 DEF Contract!CloseContract
  <2> QED
    BY <1>1, <2>4 DEF ContractStep, Contract!ContractNext
<1> QED
  BY <1>2, <1>3 DEF WriteClose

\* The one settlement row bills what the row says.
LEMMA SettleInvoices ==
  ASSUME BiweeklyInv, NEW h \in Handlers, Settle(h)
  PROVE  ContractStep
<1> PICK j \in Job : j = job[h]
  BY DEF BiweeklyInv, BiweeklyTypeOK
<1> PICK p : p = j.pos
  OBVIOUS
<1>1. /\ JobInv(j) /\ j.pc = "settle" /\ p \in Protections /\ Exists(p)
      /\ Closed(p) /\ settlements[p] = <<>> /\ row[p].days = j.days
  BY DEF Settle, BiweeklyInv, JobInv, AtWork, JobPc
<1>2. CASE Throws(h, Return(h))
  BY <1>2, SameRows DEF Throws, tables, ledgers
<1>3. CASE /\ settlements' = [settlements EXCEPT ![p] = Append(@, j.days)]
           /\ UNCHANGED row
  <2>1. settlements' = [settlements EXCEPT ![p] = <<j.days>>]
    BY <1>1, <1>3 DEF BiweeklyInv, BiweeklyTypeOK
  <2>2. Contract!Invoice(p)
    BY <1>1, <1>3, <2>1 DEF Contract!Invoice, Exists, Closed
  <2> QED
    BY <1>1, <2>2 DEF ContractStep, Contract!ContractNext
<1> QED
  BY <1>2, <1>3 DEF Settle

\* A step of the close handler is one of the contract or a stutter.
LEMMA CloseContractStep ==
  ASSUME BiweeklyInv, NEW h \in Handlers, CloseStep(h)
  PROVE  ContractStep
<1>1. CASE ReadState(h)
  BY <1>1, SameRows DEF ReadState, Proceed, Throws, tables, ledgers
<1> QED
  BY <1>1, WriteCloseCloses, SettleInvoices DEF CloseStep

\* So is a step of a monitor cycle.
LEMMA CycleContractStep ==
  ASSUME BiweeklyInv, NEW t \in Cycles, CycleStep(t)
  PROVE  ContractStep
<1> t \in Handlers
  BY DEF Handlers
<1>1. CASE FireTrigger(t)
  <2>1. PICK p \in job[t].todo :
          \/ /\ row[p].status = "active"
             /\ Update(t, [Without(t, p) EXCEPT !.pc = "accrue", !.pos = p],
                       p, [row[p] EXCEPT !.status = "triggered"])
          \/ UNCHANGED <<row, settlements>>
    BY <1>1 DEF FireTrigger, Proceed, Throws, tables, ledgers
  <2> PICK r : r = [row[p] EXCEPT !.status = "triggered"]
    OBVIOUS
  <2>2. p \in Protections /\ Exists(p) /\ row[p] \in Row
    BY WithoutShape DEF BiweeklyInv, BiweeklyTypeOK
  <2>3. r.status = "triggered" /\ r.by = row[p].by /\ r.days = row[p].days
    BY <2>2 DEF Row
  <2>4. CASE SetRow(p, r) /\ UNCHANGED settlements
    BY <2>2, <2>3, <2>4, SamePhase
  <2> QED
    BY <2>1, <2>4, SameRows DEF Update, ledgers
<1>2. CASE AccruePayout(t) \/ BookTriggerDue(t)
  BY <1>2, SameRows DEF AccruePayout, BookTriggerDue, Throws, tables, ledgers
<1>3. CASE StartNaturalSweep(t) \/ StartScheduledSweep(t) \/ SweepExpired(t) \/ SweepScheduled(t)
  BY <1>3, SameRows DEF StartNaturalSweep, StartScheduledSweep, StartPass, SweepExpired,
                        SweepScheduled, Proceed, Throws, tables, ledgers
<1>4. CASE StartCycle(t) \/ SkipCandidate(t) \/ EndCycle(t)
  BY <1>4, SameRows DEF StartCycle, SkipCandidate, EndCycle, Proceed, tables, ledgers
<1> QED
  BY <1>1, <1>2, <1>3, <1>4, CloseContractStep DEF CycleStep

\* So is a step of a request.
LEMMA RequestContractStep ==
  ASSUME BiweeklyInv, NEW h \in Requests, RequestStep(h)
  PROVE  ContractStep
<1> h \in Handlers
  BY DEF Handlers
<1>1. /\ JobInv(job[h]) /\ row \in [Protections -> Row]
  BY DEF Handlers, BiweeklyInv, BiweeklyTypeOK
<1>2. ASSUME NEW p \in Protections, Exists(p), NEW r, NEW j, Update(h, j, p, r),
             \/ r = [row[p] EXCEPT !.priced = TRUE]
             \/ r = [row[p] EXCEPT !.effective = 0]
             \/ r = [row[p] EXCEPT !.effective = job[h].at]
      PROVE  ContractStep
  <2>1. /\ r.status = row[p].status /\ r.by = row[p].by /\ r.days = row[p].days
    BY <1>1, <1>2 DEF Row
  <2> QED
    BY <1>2, <2>1, SamePhase DEF Update, ledgers, Exists
<1>3. job[h].pc \in AtWork => job[h].pos \in Protections /\ Exists(job[h].pos)
  BY <1>1 DEF JobInv
<1>4. CASE PriceRow(h)
  <2>1. job[h].pos \in Protections /\ Exists(job[h].pos)
    BY <1>3, <1>4 DEF PriceRow, AtWork, JobPc
  <2> QED
    BY <1>2, <1>4, <2>1, SameRows DEF PriceRow, Throws, tables, ledgers
<1>5. CASE WriteSchedule(h)
  <2>1. job[h].pos \in Protections /\ Exists(job[h].pos)
    BY <1>3, <1>5 DEF WriteSchedule, AtWork, JobPc
  <2> QED
    BY <1>2, <1>5, <2>1, SameRows DEF WriteSchedule, Proceed, Throws, tables, ledgers
<1>6. CASE UndoClose(h)
  BY <1>2, <1>6 DEF UndoClose, CanUnschedule, Exists
<1>7. CASE ClearSchedule(h)
  <2>1. job[h].pos \in Protections /\ Exists(job[h].pos)
    BY <1>3, <1>7 DEF ClearSchedule, AtWork, JobPc
  <2> QED
    BY <1>2, <1>7, <2>1, SameRows DEF ClearSchedule, Proceed, Throws, tables, ledgers
<1>8. CASE RequestClose(h) \/ CloseNow(h) \/ CourtesyClose(h)
  BY <1>8, SameRows DEF RequestClose, CloseNow, CourtesyClose, Proceed, tables, ledgers
<1> QED
  BY <1>4, <1>5, <1>6, <1>7, <1>8, ActivateOpens, CloseContractStep DEF RequestStep

\* So is a step of the resolver, whatever status it overwrites.
LEMMA ResolverContractStep ==
  ASSUME BiweeklyInv, NEW x \in Resolvers, ResolverStep(x)
  PROVE  ContractStep
<1> x \in Handlers
  BY DEF Handlers
<1>1. /\ JobInv(job[x]) /\ row \in [Protections -> Row]
  BY DEF Handlers, BiweeklyInv, BiweeklyTypeOK
<1>2. ASSUME job[x].pc \in {"resolve", "payout"},
             NEW s \in Status \ {"absent"}, NEW r,
             \/ r = [row[job[x].pos] EXCEPT !.status = s]
             \/ r = [row[job[x].pos] EXCEPT !.status = s, !.resolved = TRUE],
             SetRow(job[x].pos, r), UNCHANGED settlements
      PROVE  ContractStep
  <2>1. job[x].pos \in Protections /\ Exists(job[x].pos)
    BY <1>1, <1>2 DEF JobInv, AtWork, JobPc
  <2>2. /\ r.status = s /\ r.by = row[job[x].pos].by /\ r.days = row[job[x].pos].days
    BY <1>1, <1>2, <2>1 DEF Row
  <2> QED
    BY <1>2, <2>1, <2>2, SamePhase
<1>3. {"awaiting_expiry_price", "expired_otm", "expired_itm"} \subseteq Status \ {"absent"}
  BY DEF Status
<1>4. CASE ResolveExpiry(x)
  <2>1. job[x].pc \in {"resolve", "payout"}
    BY <1>4 DEF ResolveExpiry
  <2>2. \/ UNCHANGED <<row, settlements>>
        \/ /\ UNCHANGED settlements
           /\ \E s \in Status \ {"absent"} :
                \/ SetRow(job[x].pos, [row[job[x].pos] EXCEPT !.status = s])
                \/ SetRow(job[x].pos, [row[job[x].pos] EXCEPT !.status = s, !.resolved = TRUE])
    BY <1>3, <1>4 DEF ResolveExpiry, AwaitPrice, Update, Throws, tables, ledgers
  <2> QED
    BY <1>2, <2>1, <2>2, SameRows
<1>5. CASE BookExpiryDue(x)
  <2>1. job[x].pc \in {"resolve", "payout"}
    BY <1>5 DEF BookExpiryDue
  <2>2. \/ UNCHANGED <<row, settlements>>
        \/ /\ UNCHANGED settlements
           /\ SetRow(job[x].pos, [row[job[x].pos] EXCEPT !.status = "awaiting_expiry_price"])
    BY <1>5 DEF BookExpiryDue, AwaitPrice, Throws, tables, ledgers
  <2> QED
    BY <1>2, <1>3, <2>1, <2>2, SameRows
<1>6. CASE StartResolver(x) \/ ReadUnresolved(x) \/ EndResolver(x)
  BY <1>6, SameRows DEF StartResolver, ReadUnresolved, EndResolver, Proceed, Throws, tables, ledgers
<1> QED
  BY <1>4, <1>5, <1>6 DEF ResolverStep

\* handleBiweeklyClose implements the contract: whoever runs it and however
\* often, a subscription is closed once and invoiced at most once, for the
\* days that its row records.
THEOREM ClosesImplementContract == Spec => BilledOnce
<1>1. Init => Contract!ContractInit
  BY DEF Init, NoRow, Exists, Closed, Contract!ContractInit
<1>2. BiweeklyInv /\ [Next]_vars => ContractStep
  <2> SUFFICES ASSUME BiweeklyInv, [Next]_vars PROVE ContractStep
    OBVIOUS
  <2>1. CASE Restart \/ Tick \/ UNCHANGED vars
    BY <2>1, SameRows DEF Restart, Tick, vars, tables, ledgers
  <2> QED
    BY <2>1, CycleContractStep, RequestContractStep, ResolverContractStep DEF Next
<1> QED
  BY <1>1, <1>2, BiweeklyInvariant, PTL DEF Spec, BilledOnce, Contract!ContractSpec, ContractStep
=============================================================================
