------------------------ MODULE CoverageLedgerProofs ------------------------
(***************************************************************************)
(* A coverage is collected once and its end is honoured, no file lags behind *)
(* the memory, and the totals of the ledger add up, for any number of       *)
(* coverages and handlers, any end, any failures and restarts.              *)
(*                                                                          *)
(* EndHonoured speaks of the entry in memory, which a restart replaces by   *)
(* what the file held and the file by what some handler had copied.  So     *)
(* LedgerInv says of the entry, of the file, of what is being loaded and of *)
(* every copy under way that an expired coverage is over.                   *)
(*                                                                          *)
(* FilesKept and LedgerAccounted speak of the moments nobody writes.  So    *)
(* BooksInv says in addition what is true while somebody does: which        *)
(* handler will still say what it has in memory only, what a file being     *)
(* loaded holds, and which part of a total the entries under way are.       *)
(***************************************************************************)
EXTENDS CoverageLedger, SumTheorems, TLAPS

\* A request for a coverage that was activated before it was sent finds it in
\* the log, or the log has dropped it; past the log the latter, or it names no
\* end to come.
Answered(r) ==
  r.kind = "export" /\ r.over =>
    /\ r.on \in activated \cup gone
    /\ r.at # "check" => r.on \in gone \/ r.till <= now

\* A handler that works on a coverage has one, also behind a write.
Placed(r) ==
  /\ r.kind \in {"export", "order", "renew"} \/ r.at \in {"position", "grant"}
       \/ r.then \in {"position", "grant"} => r.on \in Coverages
  /\ r.then \in {"position", "grant"} => r.at = "saveLedger"

\* An expired entry is over, in memory and in any copy of it.
ExpiredIsOver(e) ==
  \A c \in Coverages \ shortened : e[c].status = "expired" => e[c].end <= now

Sound(r) == Answered(r) /\ Placed(r) /\ r.clock <= now /\ ExpiredIsOver(r.shot.entry)

BooksSound == ExpiredIsOver(entry) /\ ExpiredIsOver(file.entry) /\ ExpiredIsOver(boot.shot.entry)

\* Once the files are loaded, an entry has the latest end it was given.
EndInv ==
  boot.at \in {"fresh", "ready"} =>
    \A c \in Coverages \ shortened : paidTo[c] <= entry[c].end

LedgerInv == TypeOK /\ (\A j \in Jobs : Sound(job[j])) /\ BooksSound /\ EndInv

-----------------------------------------------------------------------------
(* Records.                                                                 *)

LEMMA NothingOK ==
  /\ NoEntries \in [Coverages -> Entries]
  /\ NoLives \in [Coverages -> Ends]
  /\ Nothing \in Saved
  /\ Nothing.entry = NoEntries
  /\ \A c \in Coverages : NoEntries[c].status = "none" /\ NoEntries[c].end = 0
<1>1. 0 \in Ends
  BY LedgerConstants DEF Ends
<1>2. NoEntry \in Entries /\ NoEntry.status = "none" /\ NoEntry.end = 0
  BY <1>1 DEF NoEntry, Entries
<1> QED
  BY <1>1, <1>2 DEF NoEntries, NoLives, Nothing, Saved

LEMMA IdleOK == Idle \in Handlers /\ Idle.shot = Nothing /\ Idle.clock = 0 /\ Idle.kind = "none"
                  /\ Idle.at = "idle" /\ Idle.then = "idle" /\ Idle.over = FALSE
<1>1. 0 \in Ends /\ 0 \in 0 .. MaxTime
  BY LedgerConstants DEF Ends
<1> QED
  BY <1>1, NothingOK DEF Idle, Handlers, Places, Kinds

\* What a handler that goes on at "at" keeps.
LEMMA GoesOK ==
  ASSUME NEW r \in Handlers, NEW at \in Places
  PROVE  LET m == [r EXCEPT !.at = at] IN
         /\ m \in Handlers
         /\ m.at = at
         /\ m.kind = r.kind /\ m.on = r.on /\ m.then = r.then /\ m.shot = r.shot
         /\ m.clock = r.clock /\ m.over = r.over /\ m.till = r.till
  BY DEF Handlers

LEMMA SavingOK ==
  ASSUME NEW r \in Handlers, NEW where \in Places, NEW what \in Saved, NEW then \in Places
  PROVE  LET m == Saving(r, where, what, then) IN
         /\ m \in Handlers
         /\ m.at = where /\ m.shot = what /\ m.then = then
         /\ m.kind = r.kind /\ m.on = r.on /\ m.clock = r.clock /\ m.over = r.over
         /\ m.till = r.till
  BY DEF Handlers, Saving

\* A step of handler j that leaves it with r.
LEMMA BecomesOK ==
  ASSUME TypeOK, NEW j \in Jobs, NEW r \in Handlers, Becomes(j, r)
  PROVE  /\ job' \in [Jobs -> Handlers]
         /\ job'[j] = r
         /\ \A i \in Jobs : i # j => job'[i] = job[i]
  BY DEF TypeOK, Becomes

LEMMA UpsertOK ==
  ASSUME TypeOK, NEW c \in Coverages, NEW r \in Entries, Upsert(c, r)
  PROVE  /\ entry' \in [Coverages -> Entries]
         /\ entry'[c].end = r.end
         /\ entry'[c].status = IF r.status = "none" THEN "active" ELSE r.status
         /\ \A d \in Coverages : d # c => entry'[d] = entry[d]
  BY DEF TypeOK, Upsert, Entries

-----------------------------------------------------------------------------
(* What every step of a handler has to show.                                *)

LEMMA TypesOf ==
  ASSUME LedgerInv, NEW j \in Jobs
  PROVE  /\ TypeOK
         /\ job[j] \in Handlers /\ Sound(job[j])
         /\ now \in Int /\ incidents \in Int /\ MaxIncidents \in Nat
         /\ entry \in [Coverages -> Entries] /\ active \in [Coverages -> Ends]
         /\ file \in Saved /\ revenue \in Nat
  BY LedgerConstants DEF LedgerInv, TypeOK

LEMMA StepInv ==
  ASSUME LedgerInv, NEW j \in Jobs,
         job' \in [Jobs -> Handlers],
         \A i \in Jobs : i # j => job'[i] = job[i],
         Sound(job[j])',
         UNCHANGED <<now, boot>>,
         entry' \in [Coverages -> Entries], active' \in [Coverages -> Ends], file' \in Saved,
         paidTo' \in [Coverages -> Ends], granted' \in [Coverages -> Nat],
         revenue' \in Nat, Incident \/ Served,
         activated' \subseteq Coverages,
         activated \subseteq activated' \cup gone', gone \subseteq gone',
         shortened \subseteq shortened',
         BooksSound', EndInv'
  PROVE  LedgerInv'
<1>1. TypeOK'
  BY LedgerConstants DEF LedgerInv, TypeOK, Incident, Served
<1>2. ASSUME NEW i \in Jobs PROVE Sound(job[i])'
  <2>1. CASE i = j
    BY <2>1
  <2>2. CASE i # j
    BY <2>2 DEF LedgerInv, Sound, Answered, Placed, ExpiredIsOver
  <2> QED
    BY <2>1, <2>2
<1> QED
  BY <1>1, <1>2 DEF LedgerInv

\* A step that leaves entries and files alone.
LEMMA QuietInv ==
  ASSUME LedgerInv, NEW j \in Jobs, NEW r \in Handlers, Becomes(j, r), Sound(job[j])',
         UNCHANGED <<now, entry, file, boot, paidTo>>,
         active' \in [Coverages -> Ends], granted' \in [Coverages -> Nat],
         revenue' \in Nat, Incident \/ Served,
         activated' \subseteq Coverages,
         activated \subseteq activated' \cup gone', gone \subseteq gone',
         shortened \subseteq shortened'
  PROVE  LedgerInv'
<1>1. /\ job' \in [Jobs -> Handlers]
      /\ \A i \in Jobs : i # j => job'[i] = job[i]
  BY BecomesOK DEF LedgerInv
<1>2. BooksSound'
  BY DEF LedgerInv, BooksSound, ExpiredIsOver
<1>3. EndInv'
  BY DEF LedgerInv, EndInv
<1>4. /\ entry' \in [Coverages -> Entries] /\ file' \in Saved
      /\ paidTo' \in [Coverages -> Ends]
  BY DEF LedgerInv, TypeOK
<1> QED
  BY <1>1, <1>2, <1>3, <1>4, StepInv

\* A handler that changes nothing but its own record, and at most a grant or
\* what is booked.
LEMMA AsideInv ==
  ASSUME LedgerInv, NEW j \in Jobs, NEW r \in Handlers, Becomes(j, r), Sound(job[j])',
         Incident \/ Served, granted' \in [Coverages -> Nat], revenue' \in Nat,
         UNCHANGED <<now, active, entry, file, boot, activated, paidTo, gone, shortened>>
  PROVE  LedgerInv'
<1>1. active' \in [Coverages -> Ends] /\ activated' \subseteq Coverages
  BY DEF LedgerInv, TypeOK
<1> QED
  BY <1>1, QuietInv

\* One that is then at "at", past the log, about the same coverage.
LEMMA SoundGoes ==
  ASSUME LedgerInv, NEW j \in Jobs, job[j]' \in Handlers,
         job'[j].kind = job[j].kind, job'[j].on = job[j].on, job'[j].over = job[j].over,
         job'[j].till = job[j].till,
         job'[j].at \notin {"check", "position", "grant"},
         job'[j].then \notin {"position", "grant"},
         job'[j].clock = job[j].clock,
         job[j].at = "check" => job[j].on \notin activated \/ job[j].till <= now,
         now' = now, activated \subseteq activated' \cup gone', gone \subseteq gone',
         shortened \subseteq shortened',
         ExpiredIsOver(job[j].shot.entry)'
  PROVE  Sound(job[j])'
<1>1. Sound(job[j])
  BY DEF LedgerInv
<1> QED
  BY <1>1 DEF Sound, Answered, Placed

\* Nothing is expired in what a handler has not copied.
LEMMA NothingOver ==
  ASSUME NEW e, e = NoEntries
  PROVE  ExpiredIsOver(e)
  BY NothingOK DEF ExpiredIsOver

LEMMA IdleSound == LedgerInv => Sound(Idle) /\ Idle \in Handlers
<1> SUFFICES ASSUME LedgerInv PROVE Sound(Idle)
  BY IdleOK
<1>1. now >= 0
  BY DEF LedgerInv, TypeOK
<1>2. ExpiredIsOver(Idle.shot.entry)
  BY IdleOK, NothingOK, NothingOver
<1> QED
  BY <1>1, <1>2, IdleOK DEF Sound, Answered, Placed

LEMMA StopsInv ==
  ASSUME LedgerInv, NEW j \in Jobs, Stops(j),
         Incident \/ Served, revenue' \in Nat,
         activated' \subseteq Coverages, activated \subseteq activated',
         UNCHANGED <<now, active, entry, file, boot, paidTo, granted, gone, shortened>>
  PROVE  LedgerInv'
<1>1. Becomes(j, Idle) /\ Idle \in Handlers /\ job'[j] = Idle
  BY IdleOK, BecomesOK DEF Stops, LedgerInv
<1>2. Sound(job[j])'
  <2>1. now' >= 0
    BY DEF LedgerInv, TypeOK
  <2>2. ExpiredIsOver(job[j].shot.entry)'
    BY <1>1, IdleOK, NothingOK DEF ExpiredIsOver
  <2> QED
    BY <1>1, <2>1, <2>2, IdleOK DEF Sound, Answered, Placed
<1>3. active' \in [Coverages -> Ends] /\ granted' \in [Coverages -> Nat]
  BY DEF LedgerInv, TypeOK
<1> QED
  BY <1>1, <1>2, <1>3, QuietInv

LEMMA GoesInv ==
  ASSUME LedgerInv, NEW j \in Jobs, NEW at \in Places \ {"check", "position", "grant"},
         Goes(j, at), job[j].at # "saveLedger",
         job[j].at = "check" => job[j].on \notin activated \/ job[j].till <= now,
         Served, revenue' \in Nat,
         UNCHANGED <<now, active, entry, file, boot, activated, paidTo, granted, gone, shortened>>
  PROVE  LedgerInv'
<1> DEFINE r == [job[j] EXCEPT !.at = at]
<1>1. job[j] \in Handlers /\ Sound(job[j])
  BY TypesOf
<1>2. r \in Handlers /\ r.at = at /\ r.kind = job[j].kind /\ r.on = job[j].on /\ r.then = job[j].then
      /\ r.shot = job[j].shot /\ r.clock = job[j].clock /\ r.over = job[j].over
      /\ r.till = job[j].till
  BY <1>1, GoesOK
<1>3. Becomes(j, r)
  BY DEF Goes
<1> HIDE DEF r
<1>4. job'[j] = r
  BY <1>2, <1>3, BecomesOK DEF LedgerInv
<1>5. job'[j].then \notin {"position", "grant"}
  BY <1>1, <1>2, <1>4 DEF Sound, Placed
<1>6. ExpiredIsOver(job[j].shot.entry)'
  BY <1>1, <1>2, <1>4 DEF Sound, ExpiredIsOver
<1>7. Sound(job[j])'
  BY <1>2, <1>4, <1>5, <1>6, SoundGoes
<1>8. granted' \in [Coverages -> Nat]
  BY DEF LedgerInv, TypeOK
<1> QED
  BY <1>2, <1>3, <1>7, <1>8, AsideInv

\* A handler that starts behind no write.
LEMMA FreshInv ==
  ASSUME LedgerInv, NEW j \in Jobs, NEW r \in Handlers, Becomes(j, r),
         r.shot = Nothing, r.then = "idle", r.clock <= now,
         r.kind \in {"export", "order", "renew"} => r.on \in Coverages,
         r.at \notin {"position", "grant"},
         r.over => (r.at = "check" \/ r.till <= now) /\ r.on \in activated' \cup gone',
         Incident \/ Served,
         activated' \subseteq Coverages, activated \subseteq activated' \cup gone',
         gone \subseteq gone',
         UNCHANGED <<now, active, entry, file, boot, revenue, paidTo, granted, shortened>>
  PROVE  LedgerInv'
<1>1. job'[j] = r
  BY BecomesOK DEF LedgerInv
<1>2. ExpiredIsOver(job[j].shot.entry)'
  BY <1>1, NothingOK DEF ExpiredIsOver
<1>3. Sound(job[j])'
  BY <1>1, <1>2 DEF Sound, Answered, Placed
<1>4. /\ active' \in [Coverages -> Ends] /\ granted' \in [Coverages -> Nat]
      /\ revenue' \in Nat
  BY DEF LedgerInv, TypeOK
<1> QED
  BY <1>3, <1>4, QuietInv

\* The write of a ledger, or of the map of live coverages, that is asked for.
LEMMA CopyOK ==
  ASSUME TypeOK, NEW r \in Handlers, NEW then \in Places
  PROVE  /\ entry' \in [Coverages -> Entries] =>
              LET m == SavesLedger(r, then) IN
              /\ m \in Handlers /\ m.at = "saveLedger" /\ m.then = then /\ m.shot.entry = entry'
              /\ m.kind = r.kind /\ m.on = r.on /\ m.clock = r.clock /\ m.over = r.over
              /\ m.till = r.till
         /\ active' \in [Coverages -> Ends] =>
              LET m == SavesActive(r, then) IN
              /\ m \in Handlers /\ m.at = "saveActive" /\ m.then = then
              /\ m.shot.entry = NoEntries
              /\ m.kind = r.kind /\ m.on = r.on /\ m.clock = r.clock /\ m.over = r.over
              /\ m.till = r.till
<1>1. ASSUME entry' \in [Coverages -> Entries]
      PROVE  /\ [Nothing EXCEPT !.entry = entry'] \in Saved
             /\ [Nothing EXCEPT !.entry = entry'].entry = entry'
  BY <1>1, NothingOK DEF Saved
<1>2. ASSUME active' \in [Coverages -> Ends]
      PROVE  /\ [Nothing EXCEPT !.active = active'] \in Saved
             /\ [Nothing EXCEPT !.active = active'].entry = NoEntries
  BY <1>2, NothingOK DEF Saved
<1>3. {"saveLedger", "saveActive"} \subseteq Places
  BY DEF Places
<1>4. ASSUME entry' \in [Coverages -> Entries]
      PROVE  LET m == SavesLedger(r, then) IN
             /\ m \in Handlers /\ m.at = "saveLedger" /\ m.then = then /\ m.shot.entry = entry'
             /\ m.kind = r.kind /\ m.on = r.on /\ m.clock = r.clock /\ m.over = r.over
             /\ m.till = r.till
  <2> DEFINE what == [Nothing EXCEPT !.entry = entry']
  <2>1. what \in Saved /\ what.entry = entry'
    BY <1>1, <1>4
  <2> HIDE DEF what
  <2>2. SavesLedger(r, then) = Saving(r, "saveLedger", what, then)
    BY DEF SavesLedger, what
  <2> QED
    BY <1>3, <2>1, <2>2, SavingOK
<1>5. ASSUME active' \in [Coverages -> Ends]
      PROVE  LET m == SavesActive(r, then) IN
             /\ m \in Handlers /\ m.at = "saveActive" /\ m.then = then
             /\ m.shot.entry = NoEntries
             /\ m.kind = r.kind /\ m.on = r.on /\ m.clock = r.clock /\ m.over = r.over
             /\ m.till = r.till
  <2> DEFINE what == [Nothing EXCEPT !.active = active']
  <2>1. what \in Saved /\ what.entry = NoEntries
    BY <1>2, <1>5
  <2> HIDE DEF what
  <2>2. SavesActive(r, then) = Saving(r, "saveActive", what, then)
    BY DEF SavesActive, what
  <2> QED
    BY <1>3, <2>1, <2>2, SavingOK
<1> QED
  BY <1>4, <1>5

-----------------------------------------------------------------------------
(* Writes.                                                                  *)

LEMMA ResumesOK ==
  ASSUME LedgerInv, NEW j \in Jobs, Resumes(j), job[j].at \in {"saveLedger", "saveActive"},
         UNCHANGED <<now, activated, gone, shortened>>
  PROVE  \E r \in Handlers : Becomes(j, r) /\ Sound(job[j])'
<1>1. CASE job[j].then = "idle"
  <2>1. Becomes(j, Idle) /\ Idle \in Handlers /\ job'[j] = Idle
    BY <1>1, IdleOK, BecomesOK DEF Resumes, LedgerInv
  <2>2. Sound(Idle)
    BY IdleSound
  <2>3. Sound(job[j])'
    BY <2>1, <2>2 DEF Sound, Answered, Placed, ExpiredIsOver
  <2> QED
    BY <2>1, <2>3
<1>2. CASE job[j].then # "idle"
  <2> DEFINE r == [job[j] EXCEPT !.at = job[j].then, !.then = "idle", !.shot = Nothing]
  <2>1. job[j] \in Handlers /\ Sound(job[j])
    BY TypesOf
  <2>2. /\ r \in Handlers
        /\ r.at = job[j].then /\ r.then = "idle" /\ r.shot = Nothing
        /\ r.kind = job[j].kind /\ r.on = job[j].on /\ r.clock = job[j].clock
        /\ r.over = job[j].over /\ r.till = job[j].till
    BY <2>1, NothingOK DEF Handlers, Places
  <2>3. Becomes(j, r)
    BY <1>2 DEF Resumes
  <2> HIDE DEF r
  <2>4. job'[j] = r
    BY <2>2, <2>3, BecomesOK DEF LedgerInv
  <2>5. ExpiredIsOver(job[j].shot.entry)'
    BY <2>2, <2>4, NothingOK DEF ExpiredIsOver
  <2>6. Sound(job[j])'
    BY <2>1, <2>2, <2>4, <2>5 DEF Sound, Answered, Placed
  <2> QED
    BY <2>2, <2>3, <2>6
<1> QED
  BY <1>1, <1>2

LEMMA EndSaveLedgerInv ==
  ASSUME LedgerInv, NEW j \in Jobs, EndSaveLedger(j)
  PROVE  LedgerInv'
<1> DEFINE copy == [file EXCEPT !.entry = job[j].shot.entry]
<1>1. /\ job[j].at = "saveLedger" /\ Resumes(j)
      /\ UNCHANGED <<now, active, entry, boot, activated, revenue, paidTo, granted, gone, shortened>>
      /\ \/ file' = copy /\ Served
         \/ file' = file /\ Incident
  BY DEF EndSaveLedger
<1>2. PICK r \in Handlers : Becomes(j, r) /\ Sound(job[j])'
  BY <1>1, ResumesOK
<1>3. file \in Saved /\ job[j].shot \in Saved /\ Sound(job[j])
  BY TypesOf DEF Handlers
<1>4. copy \in Saved /\ copy.entry = job[j].shot.entry
  BY <1>3 DEF Saved
<1>5. file' \in Saved /\ (file'.entry = job[j].shot.entry \/ file'.entry = file.entry)
  BY <1>1, <1>3, <1>4
<1>6. BooksSound'
  BY <1>1, <1>3, <1>5 DEF LedgerInv, BooksSound, ExpiredIsOver, Sound
<1>7. EndInv'
  BY <1>1 DEF LedgerInv, EndInv
<1>8. /\ entry' \in [Coverages -> Entries] /\ active' \in [Coverages -> Ends]
      /\ paidTo' \in [Coverages -> Ends] /\ granted' \in [Coverages -> Nat]
      /\ revenue' \in Nat /\ activated' \subseteq Coverages
  BY <1>1 DEF LedgerInv, TypeOK
<1>9. /\ job' \in [Jobs -> Handlers]
      /\ \A i \in Jobs : i # j => job'[i] = job[i]
  BY <1>2, BecomesOK DEF LedgerInv
<1> QED
  BY <1>1, <1>2, <1>5, <1>6, <1>7, <1>8, <1>9, StepInv

LEMMA EndSaveActiveInv ==
  ASSUME LedgerInv, NEW j \in Jobs, EndSaveActive(j)
  PROVE  LedgerInv'
<1> DEFINE copy == [file EXCEPT !.active = job[j].shot.active]
<1>1. /\ job[j].at = "saveActive" /\ Resumes(j)
      /\ UNCHANGED <<now, active, entry, boot, activated, revenue, paidTo, granted, gone, shortened>>
      /\ \/ file' = copy /\ Served
         \/ file' = file /\ Incident
  BY DEF EndSaveActive
<1>2. PICK r \in Handlers : Becomes(j, r) /\ Sound(job[j])'
  BY <1>1, ResumesOK
<1>3. file \in Saved /\ job[j].shot \in Saved
  BY TypesOf DEF Handlers
<1>4. copy \in Saved /\ copy.entry = file.entry
  BY <1>3 DEF Saved
<1>5. file' \in Saved /\ file'.entry = file.entry
  BY <1>1, <1>3, <1>4
<1>6. BooksSound'
  BY <1>1, <1>5 DEF LedgerInv, BooksSound, ExpiredIsOver
<1>7. EndInv'
  BY <1>1 DEF LedgerInv, EndInv
<1>8. /\ entry' \in [Coverages -> Entries] /\ active' \in [Coverages -> Ends]
      /\ paidTo' \in [Coverages -> Ends] /\ granted' \in [Coverages -> Nat]
      /\ revenue' \in Nat /\ activated' \subseteq Coverages
  BY <1>1 DEF LedgerInv, TypeOK
<1>9. /\ job' \in [Jobs -> Handlers]
      /\ \A i \in Jobs : i # j => job'[i] = job[i]
  BY <1>2, BecomesOK DEF LedgerInv
<1> QED
  BY <1>1, <1>2, <1>5, <1>6, <1>7, <1>8, <1>9, StepInv

\* A handler that changes the entry of c, and then awaits a write or stops.
LEMMA EntryInv ==
  ASSUME LedgerInv, NEW j \in Jobs, NEW r \in Handlers, Becomes(j, r),
         ExpiredIsOver(entry)' => Sound(job[j])',
         NEW c \in Coverages,
         entry' \in [Coverages -> Entries], paidTo' \in [Coverages -> Ends],
         \A d \in Coverages : d # c => entry'[d] = entry[d] /\ paidTo'[d] = paidTo[d],
         c \notin shortened' =>
           /\ entry'[c].status = "expired" =>
                \/ entry'[c].end <= now
                \/ entry[c].status = "expired" /\ entry'[c].end = entry[c].end
           /\ paidTo[c] <= entry[c].end => paidTo'[c] <= entry'[c].end,
         shortened \subseteq shortened',
         active' \in [Coverages -> Ends], Served,
         UNCHANGED <<now, file, boot, revenue, activated, gone, granted>>
  PROVE  LedgerInv'
<1>1. /\ job' \in [Jobs -> Handlers]
      /\ \A i \in Jobs : i # j => job'[i] = job[i]
  BY BecomesOK DEF LedgerInv
<1>2. ExpiredIsOver(entry)'
  BY DEF LedgerInv, BooksSound, ExpiredIsOver
<1>3. BooksSound'
  BY <1>2 DEF LedgerInv, BooksSound, ExpiredIsOver
<1>4. EndInv'
  BY DEF LedgerInv, EndInv
<1>5. /\ file' \in Saved /\ granted' \in [Coverages -> Nat]
      /\ revenue' \in Nat /\ activated' \subseteq Coverages
  BY DEF LedgerInv, TypeOK
<1> QED
  BY <1>1, <1>2, <1>3, <1>4, <1>5, StepInv

-----------------------------------------------------------------------------
(* POST /audit/export.                                                      *)

LEMMA StartExportInv ==
  ASSUME LedgerInv, NEW j \in Jobs, NEW c \in Coverages, StartExport(j, c)
  PROVE  LedgerInv'
<1>1. PICK till \in Quoted, lists \in BOOLEAN :
        Becomes(j, [Starts("export", IF till = 0 THEN "activate" ELSE "check", c) EXCEPT
                      !.till = till, !.lists = lists, !.over = c \in activated \cup gone])
  BY DEF StartExport
<1> DEFINE at == IF till = 0 THEN "activate" ELSE "check"
           s  == Starts("export", at, c)
           o  == c \in activated \cup gone
           r  == [s EXCEPT !.till = till, !.lists = lists, !.over = o]
<1>0. at \in Places /\ at \in {"activate", "check"} /\ (at = "activate" => till = 0)
  BY DEF Places
<1>2. /\ s \in Handlers /\ s.kind = "export" /\ s.at = at /\ s.on = c
      /\ s.shot = Nothing /\ s.clock = 0 /\ s.then = "idle"
  <2> HIDE DEF at
  <2>1. "export" \in Kinds
    BY DEF Kinds
  <2> QED
    BY <1>0, <2>1, IdleOK DEF Starts, Handlers
<1>3. /\ Becomes(j, r) /\ Served
      /\ UNCHANGED <<now, active, entry, file, boot, revenue, activated, paidTo, granted, gone, shortened>>
  BY <1>1 DEF StartExport, books, history
<1> HIDE DEF s, at
<1>4. o \in BOOLEAN /\ till \in Ends
  BY LedgerConstants DEF Ends
<1>5. /\ r \in Handlers /\ r.kind = "export" /\ r.at = at /\ r.on = c /\ r.till = till
      /\ r.shot = Nothing /\ r.clock = 0 /\ r.then = "idle"
  BY <1>2, <1>4 DEF Handlers
<1>6. r.over => c \in activated \cup gone
  BY <1>2 DEF Handlers
<1> HIDE DEF r, o
<1>7. now >= 0 /\ activated \subseteq Coverages
  BY DEF LedgerInv, TypeOK
<1>8. r.at \in {"activate", "check"} /\ (r.at = "check" \/ r.till <= now)
  BY <1>0, <1>5, <1>7
<1> QED
  BY <1>3, <1>5, <1>6, <1>7, <1>8, FreshInv

LEMMA CheckLogInv ==
  ASSUME LedgerInv, NEW j \in Jobs, CheckLog(j)
  PROVE  LedgerInv'
<1>1. /\ job[j].at = "check" /\ Served
      /\ UNCHANGED <<now, active, entry, file, boot, revenue, activated, paidTo, granted, gone, shortened>>
      /\ IF Duplicate(j) THEN Stops(j) ELSE Goes(j, "activate")
  BY DEF CheckLog, IsAt, books, history
<1>2. revenue' \in Nat /\ activated' \subseteq Coverages
  BY <1>1 DEF LedgerInv, TypeOK
<1>3. CASE Duplicate(j)
  BY <1>1, <1>2, <1>3, StopsInv
<1>4. CASE ~Duplicate(j)
  <2>1. now \in Int /\ job[j].till \in Int
    BY TypesOf, LedgerConstants DEF Handlers, Ends
  <2>2. job[j].on \notin activated \/ job[j].till <= now
    BY <1>4, <2>1 DEF Duplicate
  <2>3. "activate" \in Places
    BY DEF Places
  <2> QED
    BY <1>1, <1>2, <1>4, <2>2, <2>3, GoesInv
<1> QED
  BY <1>3, <1>4

\* What becomes of the entry whose fee is collected.
LEMMA FeeCollected ==
  ASSUME TypeOK, NEW j \in Jobs, job[j].on \in Coverages, CollectFee(j)
  PROVE  LET c == job[j].on
             r == SavesLedger(Starts("export", "saveLedger", c), "book")
         IN /\ Becomes(j, r)
            /\ entry' \in [Coverages -> Entries]
            /\ entry'[c].end = IF job[j].till = 0 THEN entry[c].end ELSE job[j].till
            /\ entry'[c].status = IF entry[c].status = "none" THEN "active" ELSE entry[c].status
            /\ entry'[c].fee = entry[c].fee + 1 /\ entry'[c].credit = entry[c].credit
            /\ \A d \in Coverages : d # c => entry'[d] = entry[d]
            /\ r \in Handlers /\ r.kind = "export" /\ r.at = "saveLedger" /\ r.then = "book"
            /\ r.shot.entry = entry' /\ r.on = c /\ r.clock = 0 /\ r.over = FALSE
            /\ r.filled = FALSE
<1> DEFINE c    == job[j].on
           till == job[j].till
           x    == entry[c]
           end  == IF till = 0 THEN x.end ELSE till
           e    == [x EXCEPT !.end = end, !.positions = job[j].lists, !.fee = @ + 1]
           h    == Starts("export", "saveLedger", c)
           r    == SavesLedger(h, "book")
<1>1. Upsert(c, [x EXCEPT !.end = IF till = 0 THEN @ ELSE till,
                          !.positions = job[j].lists, !.fee = @ + 1])
        /\ Becomes(j, r)
  BY DEF CollectFee
<1>2. /\ x \in Entries /\ till \in Ends /\ job[j].lists \in BOOLEAN
      /\ entry \in [Coverages -> Entries]
  BY DEF TypeOK, Handlers
<1>3. Upsert(c, e)
  BY <1>1
<1>4. end \in Ends
  BY <1>2 DEF Entries
<1> HIDE DEF x, end
<1>5. /\ e \in Entries /\ e.end = end /\ e.status = x.status
      /\ e.fee = x.fee + 1 /\ e.credit = x.credit
  <2> DEFINE y == [x EXCEPT !.end = end]
             z == [y EXCEPT !.positions = job[j].lists]
  <2>1. /\ y \in Entries /\ y.end = end /\ y.status = x.status /\ y.fee = x.fee
        /\ y.credit = x.credit
    BY <1>2, <1>4 DEF Entries
  <2>2. e = [z EXCEPT !.fee = x.fee + 1]
    BY <1>2 DEF Entries
  <2> HIDE DEF y, e
  <2>3. /\ z \in Entries /\ z.end = y.end /\ z.status = y.status /\ z.fee = y.fee
        /\ z.credit = y.credit
    BY <1>2, <2>1 DEF Entries
  <2> HIDE DEF z
  <2>4. x.fee + 1 \in Nat
    BY <1>2 DEF Entries
  <2> QED
    BY <2>1, <2>2, <2>3, <2>4 DEF Entries
<1> HIDE DEF e
<1>6. /\ entry' \in [Coverages -> Entries]
      /\ entry'[c].end = e.end
      /\ entry'[c].status = IF e.status = "none" THEN "active" ELSE e.status
      /\ \A d \in Coverages : d # c => entry'[d] = entry[d]
  BY <1>3, <1>5, UpsertOK
<1>7. entry'[c].fee = e.fee /\ entry'[c].credit = e.credit
  BY <1>2, <1>3, <1>5 DEF Upsert, Entries
<1>8. /\ h \in Handlers /\ h.kind = "export" /\ h.on = c /\ h.clock = 0 /\ h.over = FALSE
      /\ h.filled = FALSE
  <2>1. Idle.filled = FALSE
    BY DEF Idle
  <2> QED
    BY <2>1, IdleOK DEF Starts, Handlers, Kinds, Places
<1> HIDE DEF h
<1>9. /\ r \in Handlers /\ r.at = "saveLedger" /\ r.then = "book" /\ r.shot.entry = entry'
      /\ r.kind = h.kind /\ r.on = h.on /\ r.clock = h.clock /\ r.over = h.over
      /\ r.filled = h.filled
  <2>1. "book" \in Places
    BY DEF Places
  <2>2. r.filled = h.filled
    BY <1>8 DEF SavesLedger, Saving, Handlers
  <2> QED
    BY <1>6, <1>8, <2>1, <2>2, CopyOK
<1> HIDE DEF r
<1>10. end = IF till = 0 THEN entry[c].end ELSE till
  BY DEF end, x
<1> QED
  BY <1>1, <1>5, <1>6, <1>7, <1>8, <1>9, <1>10 DEF r, h, x

LEMMA CollectFeeInv ==
  ASSUME LedgerInv, NEW j \in Jobs, job[j].kind = "export", CollectFee(j), Served,
         UNCHANGED <<now, active, file, boot, activated, revenue, granted, gone>>
  PROVE  LedgerInv'
<1> DEFINE c    == job[j].on
           till == job[j].till
           r    == SavesLedger(Starts("export", "saveLedger", c), "book")
<1>1. /\ Latest(c, till)
      /\ shortened' = IF till # 0 /\ (till < entry[c].end \/ entry[c].status = "expired")
                      THEN shortened \cup {c} ELSE shortened
  BY DEF CollectFee
<1>2. /\ TypeOK /\ job[j] \in Handlers /\ Sound(job[j])
      /\ entry \in [Coverages -> Entries] /\ active \in [Coverages -> Ends]
      /\ paidTo \in [Coverages -> Ends] /\ now \in 0 .. MaxTime
  BY TypesOf DEF TypeOK
<1>3. c \in Coverages
  BY <1>2 DEF Sound, Placed
<1>4. /\ Becomes(j, r)
      /\ entry' \in [Coverages -> Entries]
      /\ entry'[c].end = IF till = 0 THEN entry[c].end ELSE till
      /\ entry'[c].status = IF entry[c].status = "none" THEN "active" ELSE entry[c].status
      /\ \A d \in Coverages : d # c => entry'[d] = entry[d]
      /\ r \in Handlers /\ r.kind = "export" /\ r.at = "saveLedger" /\ r.then = "book"
      /\ r.shot.entry = entry' /\ r.on = c /\ r.clock = 0 /\ r.over = FALSE
  BY <1>2, <1>3, FeeCollected
<1> HIDE DEF r
<1>5. till \in Ends /\ till \in Nat /\ Ends \subseteq Nat
  BY <1>2, LedgerConstants DEF Handlers, Ends
<1>6. /\ paidTo' \in [Coverages -> Ends]
      /\ paidTo'[c] = IF till > paidTo[c] THEN till ELSE paidTo[c]
      /\ \A d \in Coverages : d # c => paidTo'[d] = paidTo[d]
  BY <1>1, <1>2, <1>3, <1>5 DEF Latest
<1>7. job'[j] = r
  BY <1>2, <1>4, BecomesOK
<1>8. ExpiredIsOver(entry)' => Sound(job[j])'
  <2>1. ASSUME ExpiredIsOver(entry)' PROVE ExpiredIsOver(job[j].shot.entry)'
    BY <1>4, <1>7, <2>1 DEF ExpiredIsOver
  <2>2. Answered(job[j])' /\ Placed(job[j])'
    BY <1>3, <1>4, <1>7 DEF Answered, Placed
  <2>3. job'[j].clock <= now'
    BY <1>2, <1>4, <1>7
  <2> QED
    BY <2>1, <2>2, <2>3 DEF Sound
<1>9. entry[c].end \in Nat /\ paidTo[c] \in Nat
  <2>1. entry[c].end \in Ends
    BY <1>2, <1>3 DEF Entries
  <2> QED
    BY <1>2, <1>3, <1>5, <2>1
<1>10. c \notin shortened' =>
         /\ entry'[c].status = "expired" =>
              entry[c].status = "expired" /\ entry'[c].end = entry[c].end
         /\ paidTo[c] <= entry[c].end => paidTo'[c] <= entry'[c].end
  BY <1>1, <1>4, <1>5, <1>6, <1>9
<1>11. shortened \subseteq shortened' /\ active' \in [Coverages -> Ends]
  BY <1>1, <1>2
<1>12. \A d \in Coverages : d # c => entry'[d] = entry[d] /\ paidTo'[d] = paidTo[d]
  BY <1>4, <1>6
<1> QED
  BY <1>3, <1>4, <1>6, <1>8, <1>10, <1>11, <1>12, EntryInv

LEMMA ActivateInv ==
  ASSUME LedgerInv, NEW j \in Jobs, Activate(j)
  PROVE  LedgerInv'
<1> DEFINE c == job[j].on
           r == SavesActive(job[j], "collect")
<1>1. /\ job[j].kind = "export" /\ job[j].at = "activate"
      /\ UNCHANGED <<now, file, boot, activated, revenue, granted, gone>>
  BY DEF Activate, IsAt
<1>2. TypeOK /\ job[j] \in Handlers /\ active \in [Coverages -> Ends] /\ revenue \in Nat
      /\ activated \subseteq Coverages /\ granted \in [Coverages -> Nat]
  BY DEF LedgerInv, TypeOK
<1>3. CASE Incident /\ Stops(j) /\ UNCHANGED <<active, entry, paidTo, shortened>>
  BY <1>1, <1>2, <1>3, StopsInv
<1>4. CASE /\ active' = [active EXCEPT ![c] = job[j].till] /\ Becomes(j, r) /\ Served
           /\ UNCHANGED <<entry, paidTo, shortened>>
  <2>1. job[j].till \in Ends
    BY <1>2 DEF Handlers
  <2>2. active' \in [Coverages -> Ends]
    BY <1>2, <1>4, <2>1
  <2>3. "collect" \in Places
    BY DEF Places
  <2>4. /\ r \in Handlers /\ r.at = "saveActive" /\ r.then = "collect" /\ r.shot.entry = NoEntries
        /\ r.kind = job[j].kind /\ r.on = job[j].on /\ r.clock = job[j].clock
        /\ r.over = job[j].over /\ r.till = job[j].till
    BY <1>2, <2>2, <2>3, CopyOK
  <2> HIDE DEF r
  <2>5. job'[j] = r
    BY <1>2, <1>4, <2>4, BecomesOK
  <2>6. ExpiredIsOver(job[j].shot.entry)'
    BY <2>4, <2>5, NothingOK DEF ExpiredIsOver
  <2>7. Sound(job[j])'
    BY <1>1, <1>4, <2>4, <2>5, <2>6, SoundGoes
  <2> QED
    BY <1>1, <1>2, <1>4, <2>2, <2>4, <2>7, QuietInv
<1>5. CASE CollectFee(j) /\ Served /\ active' = active
  BY <1>1, <1>5, CollectFeeInv
<1> QED
  BY <1>3, <1>4, <1>5 DEF Activate

LEMMA CollectInv ==
  ASSUME LedgerInv, NEW j \in Jobs, Collect(j)
  PROVE  LedgerInv'
<1>1. /\ job[j].kind = "export" /\ CollectFee(j) /\ Served
      /\ UNCHANGED <<now, active, file, boot, activated, revenue, granted, gone>>
  BY DEF Collect, IsAt
<1> QED
  BY <1>1, CollectFeeInv

LEMMA BookRevenueInv ==
  ASSUME LedgerInv, NEW j \in Jobs, BookRevenue(j)
  PROVE  LedgerInv'
<1>1. /\ job[j].at = "book" /\ Served /\ Goes(j, "log") /\ revenue' = revenue + 1
      /\ UNCHANGED <<now, active, entry, file, boot, activated, paidTo, granted, gone, shortened>>
  BY DEF BookRevenue, IsAt, history
<1>2. revenue' \in Nat
  BY <1>1 DEF LedgerInv, TypeOK
<1>3. "log" \in Places
  BY DEF Places
<1> QED
  BY <1>1, <1>2, <1>3, GoesInv

LEMMA LogActivationInv ==
  ASSUME LedgerInv, NEW j \in Jobs, LogActivation(j)
  PROVE  LedgerInv'
<1>1. /\ job[j].kind = "export" /\ Stops(j)
      /\ UNCHANGED <<now, active, entry, file, boot, revenue, paidTo, granted, gone, shortened>>
      /\ \/ activated' = activated \cup {job[j].on} /\ Served
         \/ activated' = activated /\ Incident
  BY DEF LogActivation, IsAt
<1>2. job[j].on \in Coverages /\ revenue' \in Nat /\ activated \subseteq Coverages
  BY <1>1, TypesOf DEF Sound, Placed, TypeOK
<1>3. activated' \subseteq Coverages /\ activated \subseteq activated'
  BY <1>1, <1>2
<1> QED
  BY <1>1, <1>2, <1>3, StopsInv

-----------------------------------------------------------------------------
(* Orders and renewals.                                                     *)

LEMMA StartOrderInv ==
  ASSUME LedgerInv, NEW j \in Jobs, NEW c \in Coverages, StartOrder(j, c)
  PROVE  LedgerInv'
<1>1. PICK fee \in {0, 1}, tier \in BOOLEAN :
        Becomes(j, [Starts("order", "venue", c) EXCEPT !.fee = fee, !.tier = tier])
  BY DEF StartOrder
<1> DEFINE s == Starts("order", "venue", c)
           r == [s EXCEPT !.fee = fee, !.tier = tier]
<1>0. /\ s \in Handlers /\ s.kind = "order" /\ s.at = "venue" /\ s.on = c
      /\ s.shot = Nothing /\ s.clock = 0 /\ s.then = "idle" /\ s.over = FALSE
  BY IdleOK DEF Starts, Handlers, Kinds, Places
<1> HIDE DEF s
<1>2. /\ r \in Handlers /\ r.kind = "order" /\ r.at = "venue" /\ r.on = c
      /\ r.shot = Nothing /\ r.clock = 0 /\ r.then = "idle" /\ r.over = FALSE
  BY <1>0 DEF Handlers
<1>3. /\ Becomes(j, r) /\ Served
      /\ UNCHANGED <<now, active, entry, file, boot, revenue, activated, paidTo, granted, gone, shortened>>
  BY <1>1 DEF StartOrder, books, history, s
<1> HIDE DEF r
<1>4. now >= 0 /\ activated \subseteq Coverages
  BY DEF LedgerInv, TypeOK
<1> QED
  BY <1>2, <1>3, <1>4, FreshInv

LEMMA RecordOrderInv ==
  ASSUME LedgerInv, NEW j \in Jobs, RecordOrder(j)
  PROVE  LedgerInv'
<1> DEFINE c == job[j].on
           e == [entry[c] EXCEPT !.fee = @ + job[j].fee]
<1>1. /\ job[j].kind = "order" /\ job[j].at = "venue" /\ Served
      /\ UNCHANGED <<now, active, file, boot, activated, revenue, paidTo, granted, gone, shortened>>
      /\ \/ \E filled \in BOOLEAN :
              /\ Upsert(c, e)
              /\ Becomes(j, SavesLedger([job[j] EXCEPT !.filled = filled], "charge"))
         \/ Stops(j) /\ entry' = entry
  BY DEF RecordOrder, IsAt
<1>2. /\ TypeOK /\ job[j] \in Handlers /\ Sound(job[j])
      /\ entry \in [Coverages -> Entries] /\ active \in [Coverages -> Ends]
      /\ paidTo \in [Coverages -> Ends] /\ revenue \in Nat /\ activated \subseteq Coverages
  BY TypesOf DEF TypeOK
<1>3. c \in Coverages
  BY <1>1, <1>2 DEF Sound, Placed
<1>4. CASE Stops(j) /\ entry' = entry
  BY <1>1, <1>2, <1>4, StopsInv
<1>5. ASSUME NEW filled \in BOOLEAN, Upsert(c, e),
             Becomes(j, SavesLedger([job[j] EXCEPT !.filled = filled], "charge"))
      PROVE  LedgerInv'
  <2> DEFINE h == [job[j] EXCEPT !.filled = filled]
             r == SavesLedger(h, "charge")
  <2>1. /\ h \in Handlers /\ h.kind = job[j].kind /\ h.on = job[j].on
        /\ h.clock = job[j].clock /\ h.over = job[j].over /\ h.till = job[j].till
    BY <1>2 DEF Handlers
  <2> HIDE DEF h
  <2>2. e \in Entries /\ e.end = entry[c].end /\ e.status = entry[c].status
    <3>1. job[j].fee \in Nat /\ entry[c] \in Entries
      BY <1>2, <1>3 DEF Handlers
    <3> QED
      BY <3>1 DEF Entries
  <2> HIDE DEF e
  <2>3. /\ entry' \in [Coverages -> Entries]
        /\ entry'[c].end = entry[c].end
        /\ entry'[c].status = "expired" => entry[c].status = "expired"
        /\ \A d \in Coverages : d # c => entry'[d] = entry[d]
    BY <1>2, <1>3, <1>5, <2>2, UpsertOK
  <2>4. /\ r \in Handlers /\ r.at = "saveLedger" /\ r.then = "charge" /\ r.shot.entry = entry'
        /\ r.kind = job[j].kind /\ r.on = job[j].on /\ r.clock = job[j].clock
        /\ r.over = job[j].over /\ r.till = job[j].till
    <3>1. "charge" \in Places
      BY DEF Places
    <3> QED
      BY <1>2, <2>1, <2>3, <3>1, CopyOK
  <2>5. Becomes(j, r)
    BY <1>5 DEF h
  <2> HIDE DEF r
  <2>6. job'[j] = r
    BY <1>2, <2>4, <2>5, BecomesOK
  <2>7. ExpiredIsOver(entry)' => Sound(job[j])'
    <3>1. ASSUME ExpiredIsOver(entry)' PROVE ExpiredIsOver(job[j].shot.entry)'
      BY <2>4, <2>6, <3>1 DEF ExpiredIsOver
    <3> QED
      BY <1>1, <2>4, <2>6, <3>1, SoundGoes
  <2>8. active' \in [Coverages -> Ends] /\ paidTo' \in [Coverages -> Ends]
    BY <1>1, <1>2
  <2> QED
    BY <1>1, <1>3, <2>3, <2>4, <2>5, <2>7, <2>8, EntryInv
<1> QED
  BY <1>1, <1>4, <1>5

LEMMA ChargeOrderInv ==
  ASSUME LedgerInv, NEW j \in Jobs, ChargeOrder(j)
  PROVE  LedgerInv'
<1>1. job[j] \in Handlers /\ revenue \in Nat /\ activated \subseteq Coverages
  BY TypesOf DEF TypeOK
<1>2. job[j].fee \in Nat
  BY <1>1 DEF Handlers
<1>3. /\ Stops(j) /\ (Incident \/ Served)
      /\ revenue' = revenue \/ revenue' = revenue + job[j].fee \/ revenue' = revenue + 0
      /\ UNCHANGED <<now, active, entry, file, boot, activated, paidTo, granted, gone, shortened>>
  BY DEF ChargeOrder
<1>4. revenue' \in Nat
  BY <1>1, <1>2, <1>3
<1> QED
  BY <1>1, <1>3, <1>4, StopsInv

LEMMA StartRenewalInv ==
  ASSUME LedgerInv, NEW j \in Jobs, NEW c \in Coverages, StartRenewal(j, c)
  PROVE  LedgerInv'
<1>1. PICK till \in now + 1 .. MaxTime + 1 :
        Becomes(j, [Starts("renew", "buy", c) EXCEPT !.till = till])
  BY DEF StartRenewal
<1> DEFINE r == [Starts("renew", "buy", c) EXCEPT !.till = till]
<1>2. now \in 0 .. MaxTime /\ activated \subseteq Coverages
  BY DEF LedgerInv, TypeOK
<1>3. till \in Ends
  BY <1>2, LedgerConstants DEF Ends
<1>4. /\ r \in Handlers /\ r.kind = "renew" /\ r.at = "buy" /\ r.on = c
      /\ r.shot = Nothing /\ r.clock = 0 /\ r.then = "idle" /\ r.over = FALSE
  BY <1>3, IdleOK DEF Starts, Handlers, Kinds, Places
<1>5. /\ Becomes(j, r) /\ Served
      /\ UNCHANGED <<now, active, entry, file, boot, revenue, activated, paidTo, granted, gone, shortened>>
  BY <1>1 DEF StartRenewal, books, history
<1> HIDE DEF r
<1>6. 0 <= now
  BY <1>2
<1> QED
  BY <1>2, <1>4, <1>5, <1>6, FreshInv

LEMMA BuyRenewalInv ==
  ASSUME LedgerInv, NEW j \in Jobs, BuyRenewal(j)
  PROVE  LedgerInv'
<1>1. /\ job[j].at = "buy" /\ Served
      /\ UNCHANGED <<now, active, entry, file, boot, activated, paidTo, granted, gone, shortened>>
      /\ \/ revenue' = revenue + 1 /\ Goes(j, "record")
         \/ revenue' = revenue /\ Stops(j)
  BY DEF BuyRenewal, IsAt, history
<1>2. revenue' \in Nat /\ activated' \subseteq Coverages
  BY <1>1 DEF LedgerInv, TypeOK
<1>3. "record" \in Places
  BY DEF Places
<1>4. CASE Goes(j, "record")
  BY <1>1, <1>2, <1>3, <1>4, GoesInv
<1>5. CASE Stops(j)
  BY <1>1, <1>2, <1>5, StopsInv
<1> QED
  BY <1>1, <1>4, <1>5

LEMMA RecordRenewalInv ==
  ASSUME LedgerInv, NEW j \in Jobs, RecordRenewal(j)
  PROVE  LedgerInv'
<1> DEFINE c == job[j].on
           till == job[j].till
           r == SavesLedger(job[j], "idle")
<1>1. /\ job[j].kind = "renew" /\ job[j].at = "record"
      /\ UNCHANGED <<now, active, file, boot, activated, revenue, granted, gone>>
      /\ \/ /\ entry' = [entry EXCEPT ![c].end = till, ![c].status = "active", ![c].fee = @ + 1]
            /\ Becomes(j, r) /\ Latest(c, till) /\ Served
            /\ shortened' = IF till < entry[c].end THEN shortened \cup {c} ELSE shortened
         \/ Incident /\ Stops(j) /\ UNCHANGED <<entry, paidTo, shortened>>
  BY DEF RecordRenewal, IsAt
<1>2. /\ TypeOK /\ job[j] \in Handlers /\ Sound(job[j])
      /\ entry \in [Coverages -> Entries] /\ active \in [Coverages -> Ends]
      /\ paidTo \in [Coverages -> Ends] /\ revenue \in Nat /\ activated \subseteq Coverages
  BY TypesOf DEF TypeOK
<1>3. CASE Incident /\ Stops(j) /\ UNCHANGED <<entry, paidTo, shortened>>
  BY <1>1, <1>2, <1>3, StopsInv
<1>4. CASE /\ entry' = [entry EXCEPT ![c].end = till, ![c].status = "active", ![c].fee = @ + 1]
           /\ Becomes(j, r) /\ Latest(c, till) /\ Served
           /\ shortened' = IF till < entry[c].end THEN shortened \cup {c} ELSE shortened
  <2>1. c \in Coverages
    BY <1>1, <1>2 DEF Sound, Placed
  <2>2. till \in Ends /\ Ends \subseteq Int
    BY <1>2, LedgerConstants DEF Handlers, Ends
  <2> HIDE DEF c, till
  <2>3. /\ entry' \in [Coverages -> Entries]
        /\ entry'[c].end = till /\ entry'[c].status = "active"
        /\ \A d \in Coverages : d # c => entry'[d] = entry[d]
    <3> DEFINE x == entry[c]
               e == [x EXCEPT !.end = till, !.status = "active", !.fee = @ + 1]
    <3>1. x \in Entries
      BY <1>2, <2>1
    <3>2. entry' = [entry EXCEPT ![c] = e]
      BY <1>4
    <3> HIDE DEF x
    <3> DEFINE y == [x EXCEPT !.end = till, !.status = "active"]
    <3>3. y \in Entries /\ y.end = till /\ y.status = "active" /\ y.fee = x.fee
      BY <2>2, <3>1 DEF Entries
    <3>4. e = [y EXCEPT !.fee = x.fee + 1] /\ x.fee + 1 \in Nat
      BY <3>1 DEF Entries
    <3> HIDE DEF y, e
    <3>5. e \in Entries /\ e.end = till /\ e.status = "active"
      BY <3>3, <3>4 DEF Entries
    <3> QED
      BY <1>2, <2>1, <3>2, <3>5
  <2>4. /\ paidTo' \in [Coverages -> Ends]
        /\ paidTo'[c] = IF till > paidTo[c] THEN till ELSE paidTo[c]
        /\ \A d \in Coverages : d # c => paidTo'[d] = paidTo[d]
    BY <1>2, <1>4, <2>1, <2>2 DEF Latest
  <2>5. /\ r \in Handlers /\ r.at = "saveLedger" /\ r.then = "idle" /\ r.shot.entry = entry'
        /\ r.kind = job[j].kind /\ r.on = job[j].on /\ r.clock = job[j].clock
        /\ r.over = job[j].over /\ r.till = job[j].till
    <3>1. "idle" \in Places
      BY DEF Places
    <3> QED
      BY <1>2, <2>3, <3>1, CopyOK
  <2> HIDE DEF r
  <2>6. job'[j] = r
    BY <1>2, <1>4, <2>5, BecomesOK
  <2>7. ExpiredIsOver(entry)' => Sound(job[j])'
    <3>1. ASSUME ExpiredIsOver(entry)' PROVE ExpiredIsOver(job[j].shot.entry)'
      BY <2>5, <2>6, <3>1 DEF ExpiredIsOver
    <3>2. shortened \subseteq shortened'
      BY <1>4
    <3> QED
      BY <1>1, <2>5, <2>6, <3>1, <3>2, SoundGoes
  <2>8. entry[c].end \in Int /\ paidTo[c] \in Int
    BY <1>2, <2>1, <2>2 DEF Entries
  <2>9. c \notin shortened' /\ paidTo[c] <= entry[c].end => paidTo'[c] <= entry'[c].end
    BY <1>4, <2>2, <2>3, <2>4, <2>8
  <2>10. shortened \subseteq shortened' /\ active' \in [Coverages -> Ends]
    BY <1>1, <1>2, <1>4
  <2> QED
    BY <1>1, <1>4, <2>1, <2>3, <2>4, <2>5, <2>7, <2>9, <2>10, EntryInv
<1> QED
  BY <1>1, <1>3, <1>4

-----------------------------------------------------------------------------
(* The end of a coverage.                                                   *)

LEMMA DropEndedInv ==
  ASSUME LedgerInv, DropEnded
  PROVE  LedgerInv'
<1>1. UNCHANGED <<now, entry, file, boot, activated, revenue, job, incidents, paidTo, granted, gone,
                  shortened>>
  BY DEF DropEnded, history
<1>2. active' \in [Coverages -> Ends]
  BY LedgerConstants DEF DropEnded, LedgerInv, TypeOK, Ends
<1>3. TypeOK'
  BY <1>1, <1>2 DEF LedgerInv, TypeOK
<1>4. ASSUME NEW j \in Jobs PROVE Sound(job[j])'
  BY <1>1 DEF LedgerInv, Sound, Answered, Placed, ExpiredIsOver
<1>5. BooksSound' /\ EndInv'
  BY <1>1 DEF LedgerInv, BooksSound, EndInv, ExpiredIsOver
<1> QED
  BY <1>3, <1>4, <1>5 DEF LedgerInv

LEMMA MarkExpiredInv ==
  ASSUME LedgerInv, NEW j \in Jobs, NEW s \in Handlers, NEW c \in Coverages, NEW end \in Ends,
         MarkExpired(j, s, c, end),
         job[j].at = "walk", s.at = "walk",
         s.kind = job[j].kind, s.on = job[j].on, s.over = job[j].over, s.till = job[j].till,
         s.clock = job[j].clock, s.then = job[j].then, s.shot = job[j].shot,
         end <= now,
         c \notin shortened' /\ entry[c].status # "expired" => entry[c].end <= end,
         shortened \subseteq shortened', active' \in [Coverages -> Ends], Served,
         UNCHANGED <<now, file, boot, revenue, activated, paidTo, gone, granted>>
  PROVE  LedgerInv'
<1>1. /\ TypeOK /\ job[j] \in Handlers /\ Sound(job[j])
      /\ entry \in [Coverages -> Entries] /\ paidTo \in [Coverages -> Ends]
      /\ revenue \in Nat /\ activated \subseteq Coverages /\ granted \in [Coverages -> Nat]
  BY TypesOf DEF TypeOK
<1>2. job[j].then \notin {"position", "grant"}
  BY <1>1 DEF Sound, Placed
<1>3. CASE entry[c].status = "expired"
  <2>1. Becomes(j, s) /\ entry' = entry
    BY <1>3 DEF MarkExpired
  <2>2. job'[j] = s
    BY <1>1, <2>1, BecomesOK
  <2>3. ExpiredIsOver(job[j].shot.entry)'
    BY <1>1, <2>2 DEF Sound, ExpiredIsOver
  <2>4. Sound(job[j])'
    BY <1>2, <2>2, <2>3, SoundGoes
  <2> QED
    BY <1>1, <2>1, <2>4, QuietInv
<1>4. CASE entry[c].status # "expired"
  <2> DEFINE e == [entry[c] EXCEPT !.status = "expired", !.end = end]
             r == SavesLedger(s, "walk")
  <2>1. Upsert(c, e) /\ Becomes(j, r)
    BY <1>4 DEF MarkExpired
  <2>2. e \in Entries /\ e.end = end /\ e.status = "expired"
    <3>1. entry[c] \in Entries
      BY <1>1
    <3> QED
      BY <3>1 DEF Entries
  <2> HIDE DEF e
  <2>3. /\ entry' \in [Coverages -> Entries]
        /\ entry'[c].end = end
        /\ \A d \in Coverages : d # c => entry'[d] = entry[d]
    BY <1>1, <2>1, <2>2, UpsertOK
  <2>4. /\ r \in Handlers /\ r.at = "saveLedger" /\ r.then = "walk" /\ r.shot.entry = entry'
        /\ r.kind = s.kind /\ r.on = s.on /\ r.clock = s.clock /\ r.over = s.over
        /\ r.till = s.till
    <3>1. "walk" \in Places
      BY DEF Places
    <3> QED
      BY <1>1, <2>3, <3>1, CopyOK
  <2> HIDE DEF r
  <2>5. job'[j] = r
    BY <1>1, <2>1, <2>4, BecomesOK
  <2>6. ExpiredIsOver(entry)' => Sound(job[j])'
    <3>1. ASSUME ExpiredIsOver(entry)' PROVE ExpiredIsOver(job[j].shot.entry)'
      BY <2>4, <2>5, <3>1 DEF ExpiredIsOver
    <3> QED
      BY <2>4, <2>5, <3>1, SoundGoes
  <2>7. /\ entry[c].end \in Int /\ paidTo[c] \in Int /\ end \in Int
        /\ now \in Int /\ paidTo' = paidTo
    <3>1. Ends \subseteq Int
      BY LedgerConstants DEF Ends
    <3>2. entry[c].end \in Ends
      BY <1>1 DEF Entries
    <3> QED
      BY <1>1, <3>1, <3>2, TypesOf
  <2>8. c \notin shortened' =>
          /\ entry'[c].end <= now
          /\ paidTo[c] <= entry[c].end => paidTo'[c] <= entry'[c].end
    <3>1. c \notin shortened' => entry[c].end <= end
      BY <1>4
    <3> QED
      BY <2>3, <2>7, <3>1
  <2>9. /\ paidTo' \in [Coverages -> Ends]
        /\ \A d \in Coverages : d # c => entry'[d] = entry[d] /\ paidTo'[d] = paidTo[d]
    BY <1>1, <2>3
  <2> QED
    BY <2>1, <2>3, <2>4, <2>6, <2>8, <2>9, EntryInv
<1> QED
  BY <1>3, <1>4

LEMMA StartListInv ==
  ASSUME LedgerInv, NEW j \in Jobs, StartList(j)
  PROVE  LedgerInv'
<1> DEFINE r == [Starts("list", "walk", NoCoverage) EXCEPT !.clock = now]
<1>1. now \in 0 .. MaxTime /\ activated \subseteq Coverages
  BY DEF LedgerInv, TypeOK
<1>2. /\ r \in Handlers /\ r.kind = "list" /\ r.at = "walk"
      /\ r.shot = Nothing /\ r.clock = now /\ r.then = "idle" /\ r.over = FALSE
  BY <1>1, IdleOK DEF Starts, Handlers, Kinds, Places
<1>3. /\ Becomes(j, r) /\ Served
      /\ UNCHANGED <<now, active, entry, file, boot, revenue, activated, paidTo, granted, gone, shortened>>
  BY DEF StartList, books, history
<1> HIDE DEF r
<1>4. now <= now
  BY <1>1
<1> QED
  BY <1>1, <1>2, <1>3, <1>4, FreshInv

LEMMA ListEndedInv ==
  ASSUME LedgerInv, NEW j \in Jobs, NEW c \in Coverages, ListEnded(j, c)
  PROVE  LedgerInv'
<1> DEFINE end == active[c]
<1>1. PICK before \in SUBSET Coverages :
        MarkExpired(j, [job[j] EXCEPT !.seen = @ \cup before], c, end)
  BY DEF ListEnded, Live
<1>2. /\ job[j].at = "walk" /\ end <= job[j].clock
      /\ active' = [active EXCEPT ![c] = 0] /\ Served
      /\ shortened' = IF entry[c].status # "expired" /\ active[c] < entry[c].end
                      THEN shortened \cup {c} ELSE shortened
      /\ UNCHANGED <<now, file, boot, activated, revenue, paidTo, granted, gone>>
  BY DEF ListEnded, IsAt
<1>3. /\ job[j] \in Handlers /\ Sound(job[j]) /\ now \in Int
      /\ entry \in [Coverages -> Entries] /\ active \in [Coverages -> Ends]
  BY TypesOf
<1> DEFINE s == [job[j] EXCEPT !.seen = @ \cup before]
<1>4. /\ s \in Handlers /\ s.at = job[j].at
      /\ s.kind = job[j].kind /\ s.on = job[j].on /\ s.over = job[j].over /\ s.till = job[j].till
      /\ s.clock = job[j].clock /\ s.then = job[j].then /\ s.shot = job[j].shot
  BY <1>3 DEF Handlers
<1>5. MarkExpired(j, s, c, end)
  BY <1>1
<1> HIDE DEF s
<1>6. end \in Ends /\ 0 \in Ends /\ end \in Int /\ entry[c].end \in Int
  <2>1. Ends \subseteq Int /\ 0 \in Ends
    BY LedgerConstants DEF Ends
  <2>2. end \in Ends /\ entry[c].end \in Ends
    BY <1>3 DEF Entries
  <2> QED
    BY <2>1, <2>2
<1>7. active' \in [Coverages -> Ends]
  BY <1>2, <1>3, <1>6
<1>8. job[j].clock \in Int /\ job[j].clock <= now
  BY <1>3, LedgerConstants DEF Handlers, Sound
<1>9. end <= now
  BY <1>2, <1>3, <1>6, <1>8
<1>10. /\ (c \notin shortened' /\ entry[c].status # "expired" => entry[c].end <= end)
       /\ shortened \subseteq shortened'
  BY <1>2, <1>6
<1> HIDE DEF end
<1> QED
  BY <1>2, <1>4, <1>5, <1>6, <1>7, <1>9, <1>10, MarkExpiredInv

LEMMA EndListInv ==
  ASSUME LedgerInv, NEW j \in Jobs, EndList(j)
  PROVE  LedgerInv'
<1> DEFINE r == SavesActive(job[j], "idle")
<1>1. /\ job[j].kind = "list" /\ job[j].at = "walk" /\ Served
      /\ UNCHANGED <<now, active, entry, file, boot, activated, revenue, paidTo, granted, gone, shortened>>
      /\ (Becomes(j, r) \/ Becomes(j, Idle))
  BY DEF EndList, IsAt, history
<1>2. /\ TypeOK /\ job[j] \in Handlers /\ Sound(job[j])
      /\ active \in [Coverages -> Ends] /\ revenue \in Nat /\ activated \subseteq Coverages
      /\ granted \in [Coverages -> Nat]
  BY TypesOf DEF TypeOK
<1>3. CASE Becomes(j, Idle)
  BY <1>1, <1>2, <1>3, StopsInv DEF Stops
<1>4. CASE Becomes(j, r)
  <2>1. "idle" \in Places /\ active' \in [Coverages -> Ends]
    BY <1>1, <1>2 DEF Places
  <2>2. /\ r \in Handlers /\ r.at = "saveActive" /\ r.then = "idle" /\ r.shot.entry = NoEntries
        /\ r.kind = job[j].kind /\ r.on = job[j].on /\ r.clock = job[j].clock
        /\ r.over = job[j].over /\ r.till = job[j].till
    BY <1>2, <2>1, CopyOK
  <2> HIDE DEF r
  <2>3. job'[j] = r
    BY <1>2, <1>4, <2>2, BecomesOK
  <2>4. ExpiredIsOver(job[j].shot.entry)'
    BY <2>2, <2>3, NothingOK DEF ExpiredIsOver
  <2>5. Sound(job[j])'
    BY <1>1, <2>2, <2>3, <2>4, SoundGoes
  <2> QED
    BY <1>1, <1>2, <1>4, <2>2, <2>5, AsideInv
<1> QED
  BY <1>1, <1>3, <1>4

LEMMA WalkThrowsInv ==
  ASSUME LedgerInv, NEW j \in Jobs, WalkThrows(j)
  PROVE  LedgerInv'
<1>1. /\ Stops(j) /\ Incident
      /\ UNCHANGED <<now, active, entry, file, boot, activated, revenue, paidTo, granted, gone, shortened>>
  BY DEF WalkThrows, books, history
<1>2. revenue \in Nat /\ activated \subseteq Coverages
  BY DEF LedgerInv, TypeOK
<1> QED
  BY <1>1, <1>2, StopsInv

-----------------------------------------------------------------------------
(* computeCoverageMtmSnapshots.                                             *)

LEMMA StartPassInv ==
  ASSUME LedgerInv, NEW j \in Jobs, StartPass(j)
  PROVE  LedgerInv'
<1> DEFINE r == [Starts("mtm", "walk", NoCoverage) EXCEPT !.clock = now]
<1>1. now \in 0 .. MaxTime /\ activated \subseteq Coverages
  BY DEF LedgerInv, TypeOK
<1>2. /\ r \in Handlers /\ r.kind = "mtm" /\ r.at = "walk"
      /\ r.shot = Nothing /\ r.clock = now /\ r.then = "idle" /\ r.over = FALSE
  BY <1>1, IdleOK DEF Starts, Handlers, Kinds, Places
<1>3. /\ Becomes(j, r) /\ Served
      /\ UNCHANGED <<now, active, entry, file, boot, revenue, activated, paidTo, granted, gone, shortened>>
  BY DEF StartPass, books, history
<1> HIDE DEF r
<1>4. now <= now
  BY <1>1
<1> QED
  BY <1>1, <1>2, <1>3, <1>4, FreshInv

\* A pass that goes on without a write.
LEMMA PassGoesInv ==
  ASSUME LedgerInv, NEW j \in Jobs, NEW r \in Handlers, Becomes(j, r), job[j].kind = "mtm",
         r.kind = "mtm", r.shot = job[j].shot, r.clock = job[j].clock, Placed(r), Served,
         granted' \in [Coverages -> Nat],
         UNCHANGED <<now, active, entry, file, boot, revenue, activated, paidTo, gone, shortened>>
  PROVE  LedgerInv'
<1>1. TypeOK /\ Sound(job[j]) /\ revenue \in Nat
  BY TypesOf
<1>2. job'[j] = r
  BY <1>1, BecomesOK
<1>3. ExpiredIsOver(job[j].shot.entry)'
  BY <1>1, <1>2 DEF Sound, ExpiredIsOver
<1>4. Placed(job[j])'
  BY <1>2 DEF Placed
<1>5. Sound(job[j])'
  BY <1>1, <1>2, <1>3, <1>4 DEF Sound, Answered
<1> QED
  BY <1>1, <1>5, AsideInv

LEMMA PassExpiresInv ==
  ASSUME LedgerInv, NEW j \in Jobs, NEW c \in Coverages, PassExpires(j, c)
  PROVE  LedgerInv'
<1> DEFINE s == [job[j] EXCEPT !.seen = @ \cup {c}]
           end == entry[c].end
<1>1. /\ job[j].at = "walk" /\ end \in 1 .. job[j].clock /\ Served /\ MarkExpired(j, s, c, end)
      /\ UNCHANGED <<now, active, file, boot, activated, revenue, paidTo, granted, gone, shortened>>
  BY DEF PassExpires, Over, IsAt, history
<1>2. /\ job[j] \in Handlers /\ Sound(job[j]) /\ now \in Int
      /\ entry \in [Coverages -> Entries] /\ active \in [Coverages -> Ends]
  BY TypesOf
<1>3. /\ s \in Handlers /\ s.at = job[j].at
      /\ s.kind = job[j].kind /\ s.on = job[j].on /\ s.over = job[j].over /\ s.till = job[j].till
      /\ s.clock = job[j].clock /\ s.then = job[j].then /\ s.shot = job[j].shot
  BY <1>2 DEF Handlers
<1> HIDE DEF s
<1>4. end \in Ends /\ end \in Int
  <2>1. Ends \subseteq Int
    BY LedgerConstants DEF Ends
  <2>2. end \in Ends
    BY <1>2 DEF Entries
  <2> QED
    BY <2>1, <2>2
<1>5. job[j].clock \in Int /\ job[j].clock <= now
  BY <1>2, LedgerConstants DEF Handlers, Sound
<1>6. end <= now /\ entry[c].end <= end
  BY <1>1, <1>2, <1>4, <1>5
<1>7. active' \in [Coverages -> Ends]
  BY <1>1, <1>2
<1> HIDE DEF end
<1> QED
  BY <1>1, <1>3, <1>4, <1>6, <1>7, MarkExpiredInv

LEMMA PassValuesInv ==
  ASSUME LedgerInv, NEW j \in Jobs, NEW c \in Coverages, PassValues(j, c)
  PROVE  LedgerInv'
<1>1. PICK left \in {0, Positions} :
        Becomes(j, [job[j] EXCEPT !.seen = @ \cup {c}, !.on = c, !.at = "position",
                                  !.base = entry[c].credit, !.left = left])
  BY DEF PassValues
<1>2. /\ job[j].kind = "mtm" /\ job[j].at = "walk" /\ Served
      /\ UNCHANGED <<now, active, entry, file, boot, activated, revenue, paidTo, granted, gone, shortened>>
  BY DEF PassValues, IsAt, books, history
<1>3. /\ job[j] \in Handlers /\ Sound(job[j]) /\ entry \in [Coverages -> Entries]
      /\ granted \in [Coverages -> Nat]
  BY TypesOf DEF TypeOK
<1> DEFINE h == [job[j] EXCEPT !.seen = @ \cup {c}, !.on = c, !.at = "position"]
           credit == entry[c].credit
           r == [h EXCEPT !.base = credit, !.left = left]
<1>4. Becomes(j, r)
  BY <1>1
<1>5. credit \in Nat /\ left \in Nat
  BY <1>3, LedgerConstants DEF Entries
<1>6. /\ h \in Handlers /\ h.kind = job[j].kind /\ h.on = c /\ h.at = "position"
      /\ h.shot = job[j].shot /\ h.clock = job[j].clock /\ h.then = job[j].then
  BY <1>3 DEF Handlers, Places
<1> HIDE DEF h, credit
<1>7. /\ r \in Handlers /\ r.kind = h.kind /\ r.on = h.on /\ r.at = h.at
      /\ r.shot = h.shot /\ r.clock = h.clock /\ r.then = h.then
  BY <1>5, <1>6 DEF Handlers
<1> HIDE DEF r
<1>8. Placed(r)
  BY <1>2, <1>3, <1>6, <1>7 DEF Sound, Placed
<1>9. granted' \in [Coverages -> Nat]
  BY <1>2, <1>3
<1> QED
  BY <1>2, <1>4, <1>6, <1>7, <1>8, <1>9, PassGoesInv

LEMMA PassSkipsInv ==
  ASSUME LedgerInv, NEW j \in Jobs, PassSkips(j)
  PROVE  LedgerInv'
<1> DEFINE r == [job[j] EXCEPT !.left = @ - 1]
<1>1. /\ job[j].kind = "mtm" /\ job[j].left > 0 /\ Becomes(j, r) /\ Served
      /\ UNCHANGED <<now, active, entry, file, boot, activated, revenue, paidTo, granted, gone, shortened>>
  BY DEF PassSkips, IsAt, books, history
<1>2. job[j] \in Handlers /\ Sound(job[j]) /\ granted \in [Coverages -> Nat]
  BY TypesOf DEF TypeOK
<1>3. job[j].left - 1 \in Nat
  BY <1>1, <1>2 DEF Handlers
<1>4. /\ r \in Handlers /\ r.kind = job[j].kind /\ r.on = job[j].on /\ r.at = job[j].at
      /\ r.shot = job[j].shot /\ r.clock = job[j].clock /\ r.then = job[j].then
  BY <1>2, <1>3 DEF Handlers
<1> HIDE DEF r
<1>5. Placed(r)
  BY <1>2, <1>4 DEF Sound, Placed
<1>6. granted' \in [Coverages -> Nat]
  BY <1>1, <1>2
<1> QED
  BY <1>1, <1>4, <1>5, <1>6, PassGoesInv

LEMMA PassGrantsInv ==
  ASSUME LedgerInv, NEW j \in Jobs, PassGrants(j)
  PROVE  LedgerInv'
<1> DEFINE r == [job[j] EXCEPT !.at = "grant", !.left = @ - 1]
<1>1. /\ job[j].kind = "mtm" /\ job[j].at = "position" /\ job[j].left > 0
      /\ Becomes(j, r) /\ Served
      /\ granted' = [granted EXCEPT ![job[j].on] = @ + 1]
      /\ UNCHANGED <<now, active, entry, file, boot, activated, revenue, paidTo, gone, shortened>>
  BY DEF PassGrants, IsAt, books
<1>2. job[j] \in Handlers /\ Sound(job[j]) /\ granted \in [Coverages -> Nat]
  BY TypesOf DEF TypeOK
<1>3. job[j].left - 1 \in Nat
  BY <1>1, <1>2 DEF Handlers
<1>4. /\ r \in Handlers /\ r.kind = job[j].kind /\ r.on = job[j].on /\ r.at = "grant"
      /\ r.shot = job[j].shot /\ r.clock = job[j].clock /\ r.then = job[j].then
  BY <1>2, <1>3 DEF Handlers, Places
<1> HIDE DEF r
<1>5. Placed(r)
  BY <1>1, <1>2, <1>4 DEF Sound, Placed
<1>6. granted' \in [Coverages -> Nat]
  <2>1. job[j].on \in Coverages
    BY <1>1, <1>2 DEF Sound, Placed
  <2> QED
    BY <1>1, <1>2, <2>1
<1> QED
  BY <1>1, <1>4, <1>5, <1>6, PassGoesInv

LEMMA PassRecordsInv ==
  ASSUME LedgerInv, NEW j \in Jobs, PassRecords(j)
  PROVE  LedgerInv'
<1> DEFINE c == job[j].on
           credit == job[j].base + 1
           e == [entry[c] EXCEPT !.credit = credit]
           r == SavesLedger(job[j], "position")
<1>1. /\ job[j].kind = "mtm" /\ job[j].at = "grant" /\ Served
      /\ Upsert(c, e) /\ Becomes(j, r)
      /\ UNCHANGED <<now, active, file, boot, activated, revenue, paidTo, granted, gone, shortened>>
  BY DEF PassRecords, IsAt
<1>2. /\ TypeOK /\ job[j] \in Handlers /\ Sound(job[j])
      /\ entry \in [Coverages -> Entries] /\ active \in [Coverages -> Ends]
      /\ paidTo \in [Coverages -> Ends]
  BY TypesOf DEF TypeOK
<1>3. c \in Coverages
  BY <1>1, <1>2 DEF Sound, Placed
<1>4. credit \in Nat /\ entry[c] \in Entries
  BY <1>2, <1>3 DEF Handlers
<1> HIDE DEF credit
<1>5. e \in Entries /\ e.end = entry[c].end /\ e.status = entry[c].status
  BY <1>4 DEF Entries
<1> HIDE DEF e
<1>6. /\ entry' \in [Coverages -> Entries]
      /\ entry'[c].end = entry[c].end
      /\ entry'[c].status = "expired" => entry[c].status = "expired"
      /\ \A d \in Coverages : d # c => entry'[d] = entry[d]
  BY <1>1, <1>2, <1>3, <1>5, UpsertOK
<1>7. /\ r \in Handlers /\ r.at = "saveLedger" /\ r.then = "position" /\ r.shot.entry = entry'
      /\ r.kind = job[j].kind /\ r.on = job[j].on /\ r.clock = job[j].clock
      /\ r.over = job[j].over /\ r.till = job[j].till
  <2>1. "position" \in Places
    BY DEF Places
  <2> QED
    BY <1>2, <1>6, <2>1, CopyOK
<1> HIDE DEF r
<1>8. job'[j] = r
  BY <1>1, <1>2, <1>7, BecomesOK
<1>9. ExpiredIsOver(entry)' => Sound(job[j])'
  <2>1. ASSUME ExpiredIsOver(entry)' PROVE ExpiredIsOver(job[j].shot.entry)'
    BY <1>7, <1>8, <2>1 DEF ExpiredIsOver
  <2> QED
    BY <1>1, <1>2, <1>3, <1>7, <1>8, <2>1 DEF Sound, Answered, Placed
<1>10. active' \in [Coverages -> Ends] /\ paidTo' \in [Coverages -> Ends]
  BY <1>1, <1>2
<1> QED
  BY <1>1, <1>3, <1>6, <1>7, <1>9, <1>10, EntryInv

LEMMA PassOnInv ==
  ASSUME LedgerInv, NEW j \in Jobs, PassOn(j)
  PROVE  LedgerInv'
<1> DEFINE r == [job[j] EXCEPT !.at = "walk", !.on = NoCoverage, !.base = 0]
<1>1. /\ job[j].kind = "mtm" /\ job[j].at = "position" /\ Becomes(j, r) /\ Served
      /\ UNCHANGED <<now, active, entry, file, boot, activated, revenue, paidTo, granted, gone, shortened>>
  BY DEF PassOn, IsAt, books, history
<1>2. job[j] \in Handlers /\ Sound(job[j]) /\ granted \in [Coverages -> Nat]
  BY TypesOf DEF TypeOK
<1>3. /\ r \in Handlers /\ r.kind = job[j].kind /\ r.at = "walk"
      /\ r.shot = job[j].shot /\ r.clock = job[j].clock /\ r.then = job[j].then
  BY <1>2 DEF Handlers, Places
<1> HIDE DEF r
<1>4. Placed(r)
  BY <1>1, <1>2, <1>3 DEF Sound, Placed
<1>5. granted' \in [Coverages -> Nat]
  BY <1>1, <1>2
<1> QED
  BY <1>1, <1>3, <1>4, <1>5, PassGoesInv

LEMMA EndPassInv ==
  ASSUME LedgerInv, NEW j \in Jobs, EndPass(j)
  PROVE  LedgerInv'
<1>1. /\ Stops(j) /\ Served
      /\ UNCHANGED <<now, active, entry, file, boot, activated, revenue, paidTo, granted, gone, shortened>>
  BY DEF EndPass, books, history
<1>2. revenue \in Nat /\ activated \subseteq Coverages
  BY DEF LedgerInv, TypeOK
<1> QED
  BY <1>1, <1>2, StopsInv

-----------------------------------------------------------------------------
(* The process and its surroundings.                                        *)

\* What is over stays over.
LEMMA LaterOver ==
  ASSUME now \in Int, NEW e \in [Coverages -> Entries], ExpiredIsOver(e)
  PROVE  \A c \in Coverages \ shortened : e[c].status = "expired" => e[c].end <= now + 1
<1> SUFFICES ASSUME NEW c \in Coverages \ shortened, e[c].status = "expired"
             PROVE  e[c].end <= now + 1
  OBVIOUS
<1>1. Ends \subseteq Int
  BY LedgerConstants DEF Ends
<1>2. e[c].end \in Int
  BY <1>1 DEF Entries
<1>3. e[c].end <= now
  BY DEF ExpiredIsOver
<1> QED
  BY <1>2, <1>3

LEMMA TickInv ==
  ASSUME LedgerInv, Tick
  PROVE  LedgerInv'
<1>1. /\ now < MaxTime /\ now' = now + 1
      /\ UNCHANGED <<active, entry, file, boot, activated, revenue, job, incidents, paidTo, granted,
                     gone, shortened>>
  BY DEF Tick, books, history
<1>2. TypeOK /\ now \in 0 .. MaxTime
  BY DEF LedgerInv, TypeOK
<1>3. TypeOK'
  BY <1>1, <1>2, LedgerConstants DEF TypeOK
<1>5. ASSUME NEW j \in Jobs PROVE Sound(job[j])'
  <2>1. job[j] \in Handlers /\ Sound(job[j])
    BY <1>2 DEF LedgerInv, TypeOK
  <2>2. job[j].shot.entry \in [Coverages -> Entries] /\ job[j].clock \in Int
    BY <2>1, LedgerConstants DEF Handlers, Saved
  <2>3. ExpiredIsOver(job[j].shot.entry)'
    BY <1>1, <1>2, <2>1, <2>2, LaterOver DEF Sound, ExpiredIsOver
  <2>4. job[j].clock <= now'
    BY <1>1, <1>2, <2>1, <2>2 DEF Sound
  <2>5. Answered(job[j])' /\ Placed(job[j])'
    <3>1. job[j].till \in Int
      BY <2>1, LedgerConstants DEF Handlers, Ends
    <3> QED
      BY <1>1, <1>2, <2>1, <3>1 DEF Sound, Answered, Placed
  <2> QED
    BY <1>1, <2>3, <2>4, <2>5 DEF Sound
<1>6. BooksSound'
  <2>1. /\ entry \in [Coverages -> Entries] /\ file.entry \in [Coverages -> Entries]
        /\ boot.shot.entry \in [Coverages -> Entries]
    BY <1>2 DEF TypeOK, Saved
  <2> QED
    BY <1>1, <1>2, <2>1, LaterOver DEF LedgerInv, BooksSound, ExpiredIsOver
<1>7. EndInv'
  BY <1>1 DEF LedgerInv, EndInv
<1> QED
  BY <1>3, <1>5, <1>6, <1>7 DEF LedgerInv

LEMMA ScrollLogInv ==
  ASSUME LedgerInv, ScrollLog
  PROVE  LedgerInv'
<1>1. /\ \E c \in activated : activated' = activated \ {c} /\ gone' = gone \cup {c}
      /\ UNCHANGED <<now, active, entry, file, boot, revenue, job, incidents, paidTo, granted,
                     shortened>>
  BY DEF ScrollLog
<1>2. TypeOK'
  BY <1>1 DEF LedgerInv, TypeOK
<1>3. ASSUME NEW j \in Jobs PROVE Sound(job[j])'
  BY <1>1 DEF LedgerInv, Sound, Answered, Placed, ExpiredIsOver
<1>4. BooksSound' /\ EndInv'
  BY <1>1 DEF LedgerInv, BooksSound, EndInv, ExpiredIsOver
<1> QED
  BY <1>2, <1>3, <1>4 DEF LedgerInv

LEMMA RestartInv ==
  ASSUME LedgerInv, Restart
  PROVE  LedgerInv'
<1>1. /\ Incident
      /\ (file' = file \/ file' = TornActive \/ file' = TornLedger)
      /\ active' = NoLives /\ entry' = NoEntries /\ revenue' = 0
      /\ boot' = [at |-> "readActive", shot |-> Nothing]
      /\ job' = [j \in Jobs |-> Idle]
      /\ UNCHANGED <<now, activated, paidTo, granted, gone, shortened>>
  BY DEF Restart
<1>2. TypeOK /\ file \in Saved
  BY DEF LedgerInv, TypeOK
<1>3. file' \in Saved /\ (file'.entry = file.entry \/ file'.entry = NoEntries)
  <2>1. TornActive \in Saved /\ TornActive.entry = file.entry
    BY <1>2, NothingOK DEF TornActive, Saved
  <2>2. TornLedger \in Saved /\ TornLedger.entry = NoEntries
    BY <1>2, NothingOK DEF TornLedger, Saved
  <2> QED
    BY <1>1, <1>2, <2>1, <2>2
<1>4. boot'.at = "readActive" /\ boot'.shot.entry = NoEntries
  BY <1>1, NothingOK
<1>5. TypeOK'
  <2>1. incidents' \in 0 .. MaxIncidents
    BY <1>1, <1>2, LedgerConstants DEF TypeOK, Incident
  <2>2. /\ now' \in 0 .. MaxTime /\ activated' \subseteq Coverages
        /\ paidTo' \in [Coverages -> Ends] /\ granted' \in [Coverages -> Nat]
    BY <1>1, <1>2 DEF TypeOK
  <2>3. /\ active' \in [Coverages -> Ends] /\ entry' \in [Coverages -> Entries]
        /\ job' \in [Jobs -> Handlers] /\ revenue' \in Nat
    BY <1>1, NothingOK, IdleOK
  <2>4. boot' \in [at : {"fresh", "readActive", "takeActive", "readLedger", "takeLedger", "ready"},
                   shot : Saved]
    BY <1>1, NothingOK
  <2> QED
    BY <1>3, <2>1, <2>2, <2>3, <2>4 DEF TypeOK
<1>6. ASSUME NEW j \in Jobs PROVE Sound(job[j])'
  <2>1. Sound(Idle) /\ job'[j] = Idle
    BY <1>1, IdleSound
  <2> QED
    BY <1>1, <2>1 DEF Sound, Answered, Placed, ExpiredIsOver
<1>7. BooksSound'
  BY <1>1, <1>3, <1>4, NothingOK DEF LedgerInv, BooksSound, ExpiredIsOver
<1>8. EndInv'
  BY <1>4 DEF EndInv
<1> QED
  BY <1>5, <1>6, <1>7, <1>8 DEF LedgerInv

LEMMA ReadFileInv ==
  ASSUME LedgerInv, ReadFile
  PROVE  LedgerInv'
<1> DEFINE lives == [Nothing EXCEPT !.active = file.active]
           rows == [Nothing EXCEPT !.entry = file.entry]
<1>1. /\ \/ boot' = [at |-> "takeActive", shot |-> lives]
         \/ boot' = [at |-> "takeLedger", shot |-> rows]
      /\ UNCHANGED <<now, active, entry, file, activated, revenue, job, incidents, paidTo, granted,
                     gone, shortened>>
  BY DEF ReadFile, history
<1>2. TypeOK /\ file \in Saved
  BY DEF LedgerInv, TypeOK
<1>3. /\ lives \in Saved /\ lives.entry = NoEntries
      /\ rows \in Saved /\ rows.entry = file.entry
  BY <1>2, NothingOK DEF Saved
<1> HIDE DEF lives, rows
<1>4. /\ boot'.at \in {"takeActive", "takeLedger"}
      /\ (boot'.shot.entry = NoEntries \/ boot'.shot.entry = file.entry)
  BY <1>1, <1>3
<1>5. boot' \in [at : {"fresh", "readActive", "takeActive", "readLedger", "takeLedger", "ready"},
                 shot : Saved]
  BY <1>1, <1>3
<1>6. TypeOK'
  BY <1>1, <1>2, <1>5 DEF TypeOK
<1>7. ASSUME NEW j \in Jobs PROVE Sound(job[j])'
  BY <1>1 DEF LedgerInv, Sound, Answered, Placed, ExpiredIsOver
<1>8. BooksSound'
  BY <1>1, <1>4, NothingOK DEF LedgerInv, BooksSound, ExpiredIsOver
<1>9. EndInv'
  BY <1>4 DEF EndInv
<1> QED
  BY <1>6, <1>7, <1>8, <1>9 DEF LedgerInv

LEMMA TakeActiveInv ==
  ASSUME LedgerInv, TakeActive
  PROVE  LedgerInv'
<1>1. /\ active' = [c \in Coverages |->
                      IF boot.shot.active[c] > now THEN boot.shot.active[c] ELSE active[c]]
      /\ boot' = [at |-> "readLedger", shot |-> Nothing]
      /\ UNCHANGED <<now, entry, file, activated, revenue, job, incidents, paidTo, granted,
                     gone, shortened>>
  BY DEF TakeActive
<1>2. TypeOK
  BY DEF LedgerInv
<1>3. active' \in [Coverages -> Ends]
  BY <1>1, <1>2 DEF TypeOK, Saved
<1>4. boot' \in [at : {"fresh", "readActive", "takeActive", "readLedger", "takeLedger", "ready"},
                 shot : Saved]
  BY <1>1, NothingOK
<1>5. boot'.at = "readLedger" /\ boot'.shot.entry = NoEntries
  BY <1>1, NothingOK
<1>6. TypeOK'
  BY <1>1, <1>2, <1>3, <1>4 DEF TypeOK
<1>7. ASSUME NEW j \in Jobs PROVE Sound(job[j])'
  BY <1>1 DEF LedgerInv, Sound, Answered, Placed, ExpiredIsOver
<1>8. BooksSound'
  BY <1>1, <1>5, NothingOK DEF LedgerInv, BooksSound, ExpiredIsOver
<1>9. EndInv'
  BY <1>5 DEF EndInv
<1> QED
  BY <1>6, <1>7, <1>8, <1>9 DEF LedgerInv

LEMMA TakeLedgerInv ==
  ASSUME LedgerInv, TakeLedger
  PROVE  LedgerInv'
<1> DEFINE loaded == boot.shot.entry
<1>1. /\ entry' = [c \in Coverages |-> IF loaded[c].status # "none" THEN loaded[c] ELSE entry[c]]
      /\ boot' = [at |-> "ready", shot |-> Nothing]
      /\ shortened' = shortened \cup {c \in Coverages : entry'[c].end < paidTo[c]}
      /\ UNCHANGED <<now, active, file, activated, revenue, job, incidents, paidTo, granted, gone>>
  BY DEF TakeLedger
<1>2. /\ TypeOK /\ entry \in [Coverages -> Entries] /\ loaded \in [Coverages -> Entries]
      /\ paidTo \in [Coverages -> Ends]
      /\ BooksSound
  BY DEF LedgerInv, TypeOK, Saved
<1> HIDE DEF loaded
<1>3. entry' \in [Coverages -> Entries]
  BY <1>1, <1>2
<1>4. boot' \in [at : {"fresh", "readActive", "takeActive", "readLedger", "takeLedger", "ready"},
                 shot : Saved]
  BY <1>1, NothingOK
<1>5. TypeOK'
  BY <1>1, <1>2, <1>3, <1>4 DEF TypeOK
<1>6. shortened \subseteq shortened'
  BY <1>1
<1>7. ASSUME NEW j \in Jobs PROVE Sound(job[j])'
  BY <1>1, <1>6 DEF LedgerInv, Sound, Answered, Placed, ExpiredIsOver
<1>8. BooksSound'
  <2>1. ExpiredIsOver(loaded)
    BY <1>2 DEF BooksSound, loaded
  <2>2. ExpiredIsOver(entry)'
    BY <1>1, <1>2, <1>6, <2>1 DEF BooksSound, ExpiredIsOver
  <2>3. boot'.shot.entry = NoEntries
    BY <1>1, NothingOK
  <2> QED
    BY <1>1, <1>2, <1>6, <2>2, <2>3, NothingOK DEF BooksSound, ExpiredIsOver
<1>9. EndInv'
  <2> SUFFICES ASSUME NEW c \in Coverages, c \notin shortened'
               PROVE  paidTo'[c] <= entry'[c].end
    BY DEF EndInv
  <2>1. Ends \subseteq Int
    BY LedgerConstants DEF Ends
  <2>2. entry'[c].end \in Int /\ paidTo[c] \in Int
    BY <1>2, <1>3, <2>1 DEF Entries
  <2>3. ~(entry'[c].end < paidTo[c])
    BY <1>1
  <2> QED
    BY <1>1, <2>2, <2>3
<1> QED
  BY <1>5, <1>7, <1>8, <1>9 DEF LedgerInv

LEMMA StartResetInv ==
  ASSUME LedgerInv, NEW j \in Jobs, StartReset(j)
  PROVE  LedgerInv'
<1> DEFINE r == Starts("reset", "clear", NoCoverage)
<1>1. /\ Becomes(j, r) /\ Incident /\ activated' = {} /\ gone' = gone \cup activated
      /\ UNCHANGED <<now, active, entry, file, boot, revenue, paidTo, granted, shortened>>
  BY DEF StartReset
<1>2. /\ r \in Handlers /\ r.kind = "reset" /\ r.at = "clear"
      /\ r.shot = Nothing /\ r.clock = 0 /\ r.then = "idle" /\ r.over = FALSE
  BY IdleOK DEF Starts, Handlers, Kinds, Places
<1> HIDE DEF r
<1>3. 0 <= now
  BY DEF LedgerInv, TypeOK
<1>4. activated' \subseteq Coverages /\ activated \subseteq activated' \cup gone' /\ gone \subseteq gone'
  BY <1>1
<1> QED
  BY <1>1, <1>2, <1>3, <1>4, FreshInv

LEMMA ResetMemoryInv ==
  ASSUME LedgerInv, NEW j \in Jobs, ResetMemory(j)
  PROVE  LedgerInv'
<1> DEFINE r == [job[j] EXCEPT !.at = "remove"]
<1>1. /\ job[j].kind = "reset" /\ job[j].at = "clear" /\ Becomes(j, r) /\ Served
      /\ active' = NoLives /\ entry' = NoEntries /\ revenue' = 0
      /\ paidTo' = [c \in Coverages |-> 0] /\ granted' = [c \in Coverages |-> 0]
      /\ UNCHANGED <<now, file, boot, activated, gone, shortened>>
  BY DEF ResetMemory, IsAt, Goes
<1>2. /\ TypeOK /\ job[j] \in Handlers /\ Sound(job[j]) /\ file \in Saved
      /\ activated \subseteq Coverages
  BY TypesOf DEF TypeOK
<1>3. /\ r \in Handlers /\ r.at = "remove" /\ r.kind = job[j].kind /\ r.on = job[j].on
      /\ r.then = job[j].then /\ r.shot = job[j].shot /\ r.clock = job[j].clock
      /\ r.over = job[j].over /\ r.till = job[j].till
  BY <1>2, GoesOK DEF Places
<1> HIDE DEF r
<1>4. /\ job'[j] = r /\ job' \in [Jobs -> Handlers]
      /\ \A i \in Jobs : i # j => job'[i] = job[i]
  BY <1>1, <1>2, <1>3, BecomesOK
<1>5. ExpiredIsOver(job[j].shot.entry)'
  BY <1>1, <1>2, <1>3, <1>4 DEF Sound, ExpiredIsOver
<1>6. job'[j].then \notin {"position", "grant"}
  BY <1>1, <1>2, <1>3, <1>4 DEF Sound, Placed
<1>7. Sound(job[j])'
  BY <1>1, <1>3, <1>4, <1>5, <1>6, SoundGoes
<1>8. 0 \in Ends /\ 0 <= 0
  BY LedgerConstants DEF Ends
<1>9. /\ entry' \in [Coverages -> Entries] /\ active' \in [Coverages -> Ends] /\ file' \in Saved
      /\ paidTo' \in [Coverages -> Ends] /\ granted' \in [Coverages -> Nat]
      /\ revenue' \in Nat
  BY <1>1, <1>2, <1>8, NothingOK
<1>10. BooksSound'
  BY <1>1, NothingOK DEF LedgerInv, BooksSound, ExpiredIsOver
<1>11. EndInv'
  BY <1>1, <1>8, NothingOK DEF EndInv
<1> QED
  BY <1>1, <1>2, <1>4, <1>7, <1>9, <1>10, <1>11, StepInv

LEMMA RemoveFilesInv ==
  ASSUME LedgerInv, NEW j \in Jobs, RemoveFiles(j)
  PROVE  LedgerInv'
<1>1. /\ Becomes(j, Idle) /\ Served /\ file' = Nothing
      /\ UNCHANGED <<now, active, entry, boot, activated, revenue, paidTo, granted, gone, shortened>>
  BY DEF RemoveFiles, Stops
<1>2. TypeOK
  BY DEF LedgerInv
<1>3. /\ job'[j] = Idle /\ job' \in [Jobs -> Handlers]
      /\ \A i \in Jobs : i # j => job'[i] = job[i]
  BY <1>1, <1>2, IdleOK, BecomesOK
<1>4. Sound(job[j])'
  <2>1. Sound(Idle)
    BY IdleSound
  <2> QED
    BY <1>1, <1>3, <2>1 DEF Sound, Answered, Placed, ExpiredIsOver
<1>5. /\ entry' \in [Coverages -> Entries] /\ active' \in [Coverages -> Ends]
      /\ paidTo' \in [Coverages -> Ends] /\ granted' \in [Coverages -> Nat]
      /\ revenue' \in Nat /\ activated' \subseteq Coverages
  BY <1>1, <1>2 DEF TypeOK
<1>6. file' \in Saved
  BY <1>1, NothingOK
<1>7. BooksSound'
  BY <1>1, NothingOK DEF LedgerInv, BooksSound, ExpiredIsOver
<1>8. EndInv'
  BY <1>1 DEF LedgerInv, EndInv
<1> QED
  BY <1>1, <1>3, <1>4, <1>5, <1>6, <1>7, <1>8, StepInv

-----------------------------------------------------------------------------
LEMMA InitInv == Init => LedgerInv
<1> SUFFICES ASSUME Init PROVE LedgerInv
  OBVIOUS
<1>1. /\ now = 0 /\ active = NoLives /\ entry = NoEntries /\ activated = {} /\ revenue = 0
      /\ boot = [at |-> "fresh", shot |-> Nothing] /\ job = [j \in Jobs |-> Idle]
      /\ incidents = 0 /\ paidTo = [c \in Coverages |-> 0] /\ granted = [c \in Coverages |-> 0]
  BY DEF Init
<1>2. file = [active |-> NoLives, entry |-> NoEntries]
  BY DEF Init
<1>3. 0 \in Ends /\ 0 \in 0 .. MaxTime /\ 0 \in 0 .. MaxIncidents
  BY LedgerConstants DEF Ends
<1>4. file \in Saved /\ file.entry = NoEntries /\ boot.shot.entry = NoEntries
  BY <1>1, <1>2, NothingOK DEF Saved
<1>5. TypeOK
  <2>1. boot \in [at : {"fresh", "readActive", "takeActive", "readLedger", "takeLedger", "ready"},
                  shot : Saved]
    BY <1>1, NothingOK
  <2>2. /\ active \in [Coverages -> Ends] /\ entry \in [Coverages -> Entries]
        /\ job \in [Jobs -> Handlers] /\ paidTo \in [Coverages -> Ends]
        /\ granted \in [Coverages -> Nat] /\ revenue \in Nat
    BY <1>1, <1>3, NothingOK, IdleOK
  <2> QED
    BY <1>1, <1>3, <1>4, <2>1, <2>2 DEF TypeOK
<1>6. ASSUME NEW j \in Jobs PROVE Sound(job[j])
  <2>1. job[j] = Idle
    BY <1>1
  <2>2. ExpiredIsOver(Idle.shot.entry)
    BY IdleOK, NothingOK, NothingOver
  <2>3. 0 <= now
    BY <1>1
  <2> QED
    BY <2>1, <2>2, <2>3, IdleOK DEF Sound, Answered, Placed
<1>7. BooksSound
  BY <1>1, <1>4, NothingOver DEF BooksSound
<1>8. EndInv
  <2>1. 0 <= 0
    OBVIOUS
  <2> QED
    BY <1>1, <2>1, NothingOK DEF EndInv
<1> QED
  BY <1>5, <1>6, <1>7, <1>8 DEF LedgerInv

LEMMA HandlerInv ==
  ASSUME LedgerInv, NEW j \in Jobs,
         \/ ExportStep(j) \/ OrderStep(j) \/ RenewStep(j) \/ ListStep(j) \/ PassStep(j)
         \/ EndSaveLedger(j) \/ EndSaveActive(j) \/ WalkThrows(j)
         \/ StartReset(j) \/ ResetMemory(j) \/ RemoveFiles(j)
  PROVE  LedgerInv'
<1>1. ASSUME ExportStep(j) PROVE LedgerInv'
  BY <1>1, StartExportInv, CheckLogInv, ActivateInv, CollectInv, BookRevenueInv, LogActivationInv
     DEF ExportStep
<1>2. ASSUME OrderStep(j) PROVE LedgerInv'
  BY <1>2, StartOrderInv, RecordOrderInv, ChargeOrderInv DEF OrderStep
<1>3. ASSUME RenewStep(j) PROVE LedgerInv'
  BY <1>3, StartRenewalInv, BuyRenewalInv, RecordRenewalInv DEF RenewStep
<1>4. ASSUME ListStep(j) PROVE LedgerInv'
  BY <1>4, StartListInv, ListEndedInv, EndListInv DEF ListStep
<1>5. ASSUME PassStep(j) PROVE LedgerInv'
  BY <1>5, StartPassInv, PassExpiresInv, PassValuesInv, PassSkipsInv, PassGrantsInv, PassRecordsInv,
     PassOnInv, EndPassInv DEF PassStep
<1> QED
  BY <1>1, <1>2, <1>3, <1>4, <1>5, EndSaveLedgerInv, EndSaveActiveInv, WalkThrowsInv,
     StartResetInv, ResetMemoryInv, RemoveFilesInv

LEMMA StutterInv ==
  ASSUME LedgerInv, UNCHANGED vars
  PROVE  LedgerInv'
<1>1. UNCHANGED <<now, active, entry, file, boot, activated, revenue, job, incidents, paidTo, granted,
                  gone, shortened>>
  BY DEF vars, books, history
<1>2. TypeOK'
  BY <1>1 DEF LedgerInv, TypeOK
<1>3. ASSUME NEW j \in Jobs PROVE Sound(job[j])'
  BY <1>1 DEF LedgerInv, Sound, Answered, Placed, ExpiredIsOver
<1>4. BooksSound' /\ EndInv'
  BY <1>1 DEF LedgerInv, BooksSound, EndInv, ExpiredIsOver
<1> QED
  BY <1>2, <1>3, <1>4 DEF LedgerInv

LEMMA NextInv == LedgerInv /\ [Next]_vars => LedgerInv'
<1> SUFFICES ASSUME LedgerInv, [Next]_vars PROVE LedgerInv'
  OBVIOUS
<1>1. CASE DropEnded \/ Tick \/ ScrollLog \/ Restart \/ ReadFile \/ TakeActive \/ TakeLedger
  BY <1>1, DropEndedInv, TickInv, ScrollLogInv, RestartInv, ReadFileInv, TakeActiveInv, TakeLedgerInv
<1>2. CASE UNCHANGED vars
  BY <1>2, StutterInv
<1> QED
  BY <1>1, <1>2, HandlerInv DEF Next

LEMMA LedgerInvSuffices == LedgerInv => CoverageInv
<1> SUFFICES ASSUME LedgerInv PROVE CoverageInv
  OBVIOUS
<1>1. CollectedOnce
  BY DEF LedgerInv, CollectedOnce, IsAt, Sound, Answered
<1>2. EndHonoured
  <2> SUFFICES ASSUME boot.at \in {"fresh", "ready"}, NEW c \in Coverages \ shortened,
                      entry[c].status = "expired"
               PROVE  paidTo[c] <= now
    BY DEF EndHonoured
  <2>1. entry[c].end \in Int /\ paidTo[c] \in Int /\ now \in Int
    <3>1. /\ now \in 0 .. MaxTime /\ paidTo \in [Coverages -> Ends]
          /\ entry \in [Coverages -> Entries]
      BY DEF LedgerInv, TypeOK
    <3>2. entry[c] \in Entries
      BY <3>1
    <3>3. entry[c].end \in Ends
      BY <3>2 DEF Entries
    <3>4. paidTo[c] \in Ends
      BY <3>1
    <3> QED
      BY <3>1, <3>3, <3>4, LedgerConstants DEF Ends
  <2>2. entry[c].end <= now /\ paidTo[c] <= entry[c].end
    BY DEF LedgerInv, BooksSound, ExpiredIsOver, EndInv
  <2> QED
    BY <2>1, <2>2
<1> QED
  BY <1>1, <1>2 DEF LedgerInv, CoverageInv

\* However requests, listings, passes, writes and restarts of the collar API
\* interleave, an activation is collected again only when it overlaps the
\* first, when the log has dropped it or when the request names no end to come,
\* and a coverage is over before its end only as EndHonoured says.
THEOREM CoverageSound == Spec => []CoverageInv
<1>1. Init => LedgerInv
  BY InitInv
<1>2. LedgerInv /\ [Next]_vars => LedgerInv'
  BY NextInv
<1>3. LedgerInv => CoverageInv
  BY LedgerInvSuffices
<1> QED
  BY <1>1, <1>2, <1>3, PTL DEF Spec

-----------------------------------------------------------------------------
(* What is booked, logged and saved.                                        *)

\* Where a handler goes on behind the write it awaits; and an order is known
\* to be filled once the venue has answered.
Flow(r) ==
  /\ r.at = "saveLedger" =>
       \/ r.kind = "export" /\ r.then = "book"
       \/ r.kind = "order" /\ r.then = "charge"
       \/ r.kind = "renew" /\ r.then = "idle"
       \/ r.kind \in {"list", "mtm"} /\ r.then \in {"walk", "position"}
  /\ r.at = "saveActive" =>
       \/ r.kind = "export" /\ r.then = "collect"
       \/ r.kind = "list" /\ r.then = "idle"
  /\ r.filled => r.kind = "order" /\ r.at # "venue"

NoneIsEmpty(e) == \A c \in Coverages : e[c].status = "none" => e[c] = NoEntry

FlowInv ==
  /\ \A j \in Jobs : Flow(job[j])
  /\ \A j \in Jobs : job[j].at = "saveLedger" => NoneIsEmpty(job[j].shot.entry)
  /\ NoneIsEmpty(entry) /\ NoneIsEmpty(file.entry)

\* While the map of live coverages is not loaded, what requests have put into
\* it is in the file.
LivesInv ==
  "active" \notin unsaid /\ ~Saves("saveActive") =>
    IF boot.at \in {"readActive", "takeActive"}
    THEN \A c \in Coverages : active[c] # 0 => file.active[c] = active[c]
    ELSE Covers(file.active)

\* Likewise of the ledger.
EntriesInv ==
  "entry" \notin unsaid /\ ~Saves("saveLedger") =>
    IF boot.at \in {"fresh", "ready"} THEN file.entry = entry
    ELSE \A c \in Coverages : entry[c] # NoEntry => file.entry[c] = entry[c]

\* Once a process has been replaced nothing is said of its revenue, and while
\* the ledger is not loaded nothing of credits.
BootInv ==
  /\ boot.at # "fresh" => "revenue" \in unsaid
  /\ boot.at \notin {"fresh", "ready"} => Coverages \subseteq blurred

BooksInv ==
  /\ FlowInv /\ LivesInv /\ EntriesInv /\ BootInv
  /\ RevenueAccounted /\ CreditsAccounted
  /\ uncharged \in Nat

\* What is collected and not yet booked, by an export or by an order, and what
\* is booked for a renewal and not yet collected.
IsExport(r)  == r.kind = "export" /\ (r.at = "book" \/ r.at = "saveLedger")
IsOrder(r)   == r.kind = "order" /\ Charged(r) /\ r.fee = 1
IsRenewal(r) == r.kind = "renew" /\ r.at = "record"

Due(r) == (IF IsExport(r) THEN 1 ELSE 0) + (IF IsOrder(r) THEN 1 ELSE 0)
            - (IF IsRenewal(r) THEN 1 ELSE 0)

Exports  == {j \in Jobs : IsExport(job[j])}
Orders   == {j \in Jobs : IsOrder(job[j])}
Renewals == {j \in Jobs : IsRenewal(job[j])}

Grants(c) == {j \in Jobs : IsAt(j, "mtm", "grant") /\ job[j].on = c}

FeesOf(e) == [c \in Coverages |-> e[c].fee]
Fees(e)   == SumOf(FeesOf(e), Coverages)

\* The sum of the property is the sum of the lemmas.
LEMMA FeesAre ==
  ASSUME NEW e
  PROVE  MapThenSumSet(LAMBDA c : e[c].fee, Coverages) = Fees(e)
<1> DEFINE f == FeesOf(e)
           Plain(g) == [s \in SUBSET Coverages |->
                          IF s = {} THEN 0
                          ELSE e[CHOOSE x \in s : TRUE].fee + g[s \ {CHOOSE x \in s : TRUE}]]
           h == CHOOSE g : g = Plain(g)
<1>1. MapThenSumSet(LAMBDA c : e[c].fee, Coverages) = h[Coverages]
  BY DEF MapThenSumSet, MapThenFoldSet
<1>2. ASSUME NEW g PROVE Plain(g) = Steps(f, g, Coverages)
  <2>1. ASSUME NEW s \in SUBSET Coverages, s # {}
        PROVE  f[Chosen(s)] = e[Chosen(s)].fee
    BY <2>1, ChosenIn DEF FeesOf
  <2> QED
    BY <2>1 DEF Steps, Chosen
<1>3. \E g : g = Plain(g)
  BY <1>2, FoldExists, LedgerConstants
<1>4. h = Plain(h)
  <2> HIDE DEF Plain
  <2> QED
    BY <1>3
<1>5. h = Steps(f, h, Coverages)
  BY <1>2, <1>4
<1> HIDE DEF h, f
<1>6. h[Coverages] = SumOf(f, Coverages)
  BY <1>5, SumIs, LedgerConstants
<1> QED
  BY <1>1, <1>6 DEF f, Fees

LEMMA RevenueIs ==
  RevenueAccounted <=>
    ("revenue" \notin unsaid =>
       revenue + uncharged + Cardinality(Exports) + Cardinality(Orders)
         = Fees(entry) + Cardinality(Renewals))
  BY FeesAre DEF RevenueAccounted, Exports, Orders, Renewals, IsExport, IsOrder, IsRenewal, IsAt,
                   Charged

LEMMA CountMoved ==
  ASSUME NEW j \in Jobs, NEW A \in SUBSET Jobs, NEW B \in SUBSET Jobs, A \ {j} = B \ {j}
  PROVE  /\ Cardinality(A) \in Nat /\ Cardinality(B) \in Nat
         /\ Cardinality(B) + (IF j \in A THEN 1 ELSE 0)
              = Cardinality(A) + (IF j \in B THEN 1 ELSE 0)
  BY OneMoved, LedgerConstants

LEMMA CountsMoved ==
  ASSUME NEW j \in Jobs, \A i \in Jobs : i # j => job'[i] = job[i]
  PROVE  /\ Cardinality(Exports) \in Nat /\ Cardinality(Exports') \in Nat
         /\ Cardinality(Orders) \in Nat /\ Cardinality(Orders') \in Nat
         /\ Cardinality(Renewals) \in Nat /\ Cardinality(Renewals') \in Nat
         /\ Cardinality(Exports') + Cardinality(Orders') - Cardinality(Renewals') - Due(job'[j])
              = Cardinality(Exports) + Cardinality(Orders) - Cardinality(Renewals) - Due(job[j])
<1> DEFINE E == Exports
           F == Exports'
           O == Orders
           P == Orders'
           R == Renewals
           S == Renewals'
<1>1. /\ E \in SUBSET Jobs /\ F \in SUBSET Jobs /\ E \ {j} = F \ {j}
      /\ (j \in E <=> IsExport(job[j])) /\ (j \in F <=> IsExport(job'[j]))
  BY DEF Exports, IsExport
<1>2. /\ O \in SUBSET Jobs /\ P \in SUBSET Jobs /\ O \ {j} = P \ {j}
      /\ (j \in O <=> IsOrder(job[j])) /\ (j \in P <=> IsOrder(job'[j]))
  BY DEF Orders, IsOrder, Charged
<1>3. /\ R \in SUBSET Jobs /\ S \in SUBSET Jobs /\ R \ {j} = S \ {j}
      /\ (j \in R <=> IsRenewal(job[j])) /\ (j \in S <=> IsRenewal(job'[j]))
  BY DEF Renewals, IsRenewal
<1> HIDE DEF E, F, O, P, R, S
<1>4. /\ Cardinality(E) \in Nat /\ Cardinality(F) \in Nat
      /\ Cardinality(F) + (IF IsExport(job[j]) THEN 1 ELSE 0)
           = Cardinality(E) + (IF IsExport(job'[j]) THEN 1 ELSE 0)
  BY <1>1, CountMoved
<1>5. /\ Cardinality(O) \in Nat /\ Cardinality(P) \in Nat
      /\ Cardinality(P) + (IF IsOrder(job[j]) THEN 1 ELSE 0)
           = Cardinality(O) + (IF IsOrder(job'[j]) THEN 1 ELSE 0)
  BY <1>2, CountMoved
<1>6. /\ Cardinality(R) \in Nat /\ Cardinality(S) \in Nat
      /\ Cardinality(S) + (IF IsRenewal(job[j]) THEN 1 ELSE 0)
           = Cardinality(R) + (IF IsRenewal(job'[j]) THEN 1 ELSE 0)
  BY <1>3, CountMoved
<1>7. Cardinality(F) + Cardinality(P) - Cardinality(S) - Due(job'[j])
        = Cardinality(E) + Cardinality(O) - Cardinality(R) - Due(job[j])
  BY <1>4, <1>5, <1>6 DEF Due
<1> QED
  BY <1>4, <1>5, <1>6, <1>7 DEF E, F, O, P, R, S

LEMMA FeesType ==
  ASSUME NEW e \in [Coverages -> Entries]
  PROVE  Fees(e) \in Int /\ \A c \in Coverages : FeesOf(e)[c] \in Int /\ FeesOf(e)[c] = e[c].fee
<1> DEFINE f == FeesOf(e)
<1>1. \A c \in Coverages : f[c] \in Int /\ f[c] = e[c].fee
  BY DEF FeesOf, Entries
<1> HIDE DEF f
<1>2. SumOf(f, Coverages) \in Int
  BY <1>1, SumType, LedgerConstants
<1> QED
  BY <1>1, <1>2 DEF Fees, f

LEMMA FeesKept ==
  ASSUME NEW e \in [Coverages -> Entries], NEW g \in [Coverages -> Entries],
         \A c \in Coverages : g[c].fee = e[c].fee
  PROVE  Fees(g) = Fees(e)
<1> DEFINE a == FeesOf(e)
           b == FeesOf(g)
<1>1. \A c \in Coverages : a[c] = b[c]
  BY DEF FeesOf
<1> HIDE DEF a, b
<1>2. SumOf(a, Coverages) = SumOf(b, Coverages)
  BY <1>1, SumSame, LedgerConstants
<1> QED
  BY <1>2 DEF Fees, a, b

LEMMA FeesMoved ==
  ASSUME NEW e \in [Coverages -> Entries], NEW g \in [Coverages -> Entries], NEW c \in Coverages,
         \A d \in Coverages : d # c => g[d] = e[d]
  PROVE  Fees(g) = Fees(e) + (g[c].fee - e[c].fee)
<1> DEFINE a == FeesOf(e)
           b == FeesOf(g)
<1>1. \A d \in Coverages : a[d] \in Int /\ b[d] \in Int
  BY FeesType
<1>2. (\A d \in Coverages \ {c} : b[d] = a[d]) /\ a[c] = e[c].fee /\ b[c] = g[c].fee
  BY DEF FeesOf
<1> HIDE DEF a, b
<1>3. SumOf(b, Coverages) = SumOf(a, Coverages) + (b[c] - a[c])
  BY <1>1, <1>2, SumUpdate, LedgerConstants
<1> QED
  BY <1>2, <1>3 DEF Fees, a, b

\* What a step collects, it books, owes or will never book.
LEMMA RevenueMoves ==
  ASSUME TypeOK, TypeOK', RevenueAccounted, uncharged \in Nat, uncharged' \in Nat,
         NEW j \in Jobs, \A i \in Jobs : i # j => job'[i] = job[i],
         unsaid \subseteq unsaid' \cup {"active", "entry"},
         "revenue" \notin unsaid' =>
           (revenue' - revenue) + (uncharged' - uncharged) + (Due(job'[j]) - Due(job[j]))
             = Fees(entry') - Fees(entry)
  PROVE  RevenueAccounted'
<1>1. SUFFICES ASSUME "revenue" \notin unsaid'
      PROVE  revenue' + uncharged' + Cardinality(Exports') + Cardinality(Orders')
               = Fees(entry') + Cardinality(Renewals')
  <2>1. RevenueAccounted' <=>
          ("revenue" \notin unsaid =>
             revenue + uncharged + Cardinality(Exports) + Cardinality(Orders)
               = Fees(entry) + Cardinality(Renewals))'
    BY RevenueIs, PTL
  <2> QED
    BY <2>1 DEF Fees, FeesOf
<1>2. "revenue" \notin unsaid
  BY <1>1
<1>3. revenue + uncharged + Cardinality(Exports) + Cardinality(Orders)
        = Fees(entry) + Cardinality(Renewals)
  BY <1>2, RevenueIs
<1>4. Fees(entry) \in Int /\ Fees(entry') \in Int
  BY FeesType DEF TypeOK
<1>5. revenue \in Int /\ revenue' \in Int
  BY DEF TypeOK
<1>6. Due(job[j]) \in Int /\ Due(job'[j]) \in Int
  BY DEF Due
<1> QED
  BY <1>1, <1>3, <1>4, <1>5, <1>6, CountsMoved

-----------------------------------------------------------------------------
(* What every step of a handler has to show.                                *)

Others(j) == \A i \in Jobs : i # j => job'[i] = job[i]

LEMMA FlowStep ==
  ASSUME FlowInv, NEW j \in Jobs, Others(j), Flow(job'[j]),
         job'[j].at = "saveLedger" => NoneIsEmpty(job'[j].shot.entry),
         NoneIsEmpty(entry'), NoneIsEmpty(file'.entry)
  PROVE  FlowInv'
<1>1. ASSUME NEW i \in Jobs
      PROVE  /\ Flow(job'[i])
             /\ job'[i].at = "saveLedger" => NoneIsEmpty(job'[i].shot.entry)
  BY DEF FlowInv, Others
<1> QED
  BY <1>1 DEF FlowInv, Flow, NoneIsEmpty

LEMMA LivesSame ==
  ASSUME LivesInv, NEW j \in Jobs, Others(j),
         job[j].at = "saveActive" => job'[j].at = "saveActive",
         file'.active = file.active, active' = active, boot'.at = boot.at, now' = now,
         "active" \in unsaid => "active" \in unsaid'
  PROVE  LivesInv'
<1>1. Saves("saveActive") => Saves("saveActive")'
  BY DEF Saves, Others
<1> QED
  BY <1>1 DEF LivesInv, Covers

LEMMA LivesSaving ==
  ASSUME NEW j \in Jobs, job'[j].at = "saveActive"
  PROVE  LivesInv'
  BY DEF LivesInv, Saves

LEMMA EntriesSame ==
  ASSUME EntriesInv, NEW j \in Jobs, Others(j),
         job[j].at = "saveLedger" => job'[j].at = "saveLedger",
         file'.entry = file.entry, entry' = entry, boot'.at = boot.at,
         "entry" \in unsaid => "entry" \in unsaid'
  PROVE  EntriesInv'
<1>1. Saves("saveLedger") => Saves("saveLedger")'
  BY DEF Saves, Others
<1> QED
  BY <1>1 DEF EntriesInv

LEMMA EntriesSaving ==
  ASSUME NEW j \in Jobs, job'[j].at = "saveLedger"
  PROVE  EntriesInv'
  BY DEF EntriesInv, Saves

LEMMA CreditsSame ==
  ASSUME CreditsAccounted, NEW j \in Jobs, Others(j),
         job[j].at # "grant", job'[j].at # "grant",
         granted' = granted, blurred \subseteq blurred',
         \A c \in Coverages : entry'[c].credit = entry[c].credit
  PROVE  CreditsAccounted'
<1>1. ASSUME NEW c \in Coverages
      PROVE  {i \in Jobs : IsAt(i, "mtm", "grant") /\ job[i].on = c}'
               = {i \in Jobs : IsAt(i, "mtm", "grant") /\ job[i].on = c}
  BY DEF Others, IsAt
<1> QED
  BY <1>1 DEF CreditsAccounted

LEMMA BootSame ==
  ASSUME BootInv, boot'.at = boot.at, blurred \subseteq blurred',
         "revenue" \in unsaid => "revenue" \in unsaid'
  PROVE  BootInv'
  BY DEF BootInv

\* A handler between its awaits that owes nothing.
Plain(r) ==
  /\ r.at \notin {"saveLedger", "saveActive", "grant"}
  /\ ~IsExport(r) /\ ~IsRenewal(r) /\ ~r.filled

LEMMA PlainStep ==
  ASSUME TypeOK, TypeOK', BooksInv, NEW j \in Jobs, Others(j), Plain(job[j]), Plain(job'[j]),
         UNCHANGED <<now, active, entry, file, boot, revenue, granted, uncharged, blurred, unsaid>>
  PROVE  BooksInv'
<1>1. /\ FlowInv /\ LivesInv /\ EntriesInv /\ BootInv
      /\ RevenueAccounted /\ CreditsAccounted /\ uncharged \in Nat
  BY DEF BooksInv
<1>2. FlowInv'
  <2>1. Flow(job'[j]) /\ job'[j].at # "saveLedger"
    BY DEF Plain, Flow
  <2>2. NoneIsEmpty(entry') /\ NoneIsEmpty(file'.entry)
    BY <1>1 DEF FlowInv
  <2> QED
    BY <1>1, <2>1, <2>2, FlowStep
<1>3. LivesInv'
  BY <1>1, LivesSame DEF Plain
<1>4. EntriesInv'
  BY <1>1, EntriesSame DEF Plain
<1>5. BootInv'
  BY <1>1, BootSame
<1>6. CreditsAccounted'
  BY <1>1, CreditsSame DEF Plain
<1>7. RevenueAccounted'
  <2>1. Due(job[j]) = 0 /\ Due(job'[j]) = 0
    BY DEF Plain, Due, IsOrder, Charged
  <2>2. Fees(entry') = Fees(entry) /\ Fees(entry) \in Int /\ revenue \in Int
    BY FeesType DEF TypeOK
  <2>3. (revenue' - revenue) + (uncharged' - uncharged) + (Due(job'[j]) - Due(job[j]))
          = Fees(entry') - Fees(entry)
    BY <1>1, <2>1, <2>2
  <2> QED
    BY <1>1, <2>3, RevenueMoves DEF Others
<1> QED
  BY <1>1, <1>2, <1>3, <1>4, <1>5, <1>6, <1>7 DEF BooksInv

LEMMA BecomesJust ==
  ASSUME TypeOK, NEW j \in Jobs, NEW r, Becomes(j, r)
  PROVE  job'[j] = r /\ Others(j)
  BY DEF TypeOK, Becomes, Others

LEMMA StopsJust ==
  ASSUME TypeOK, NEW j \in Jobs, Stops(j)
  PROVE  job'[j] = Idle /\ Others(j) /\ Plain(Idle)
<1>1. Plain(Idle)
  BY DEF Idle, Plain, IsExport, IsRenewal
<1> QED
  BY <1>1, BecomesJust DEF Stops

LEMMA FlowOf ==
  ASSUME TypeOK, BooksInv, NEW j \in Jobs
  PROVE  job[j] \in Handlers /\ Flow(job[j])
  BY DEF TypeOK, BooksInv, FlowInv

LEMMA StartPlain ==
  ASSUME TypeOK, TypeOK', BooksInv, NEW j \in Jobs, job[j] = Idle, NEW r, Becomes(j, r), Plain(r),
         UNCHANGED <<now, active, entry, file, boot, revenue, granted, uncharged, blurred, unsaid>>
  PROVE  BooksInv'
<1>1. Plain(Idle)
  BY DEF Idle, Plain, IsExport, IsRenewal
<1> QED
  BY <1>1, BecomesJust, PlainStep

LEMMA StopPlain ==
  ASSUME TypeOK, TypeOK', BooksInv, NEW j \in Jobs, Plain(job[j]), Stops(j),
         UNCHANGED <<now, active, entry, file, boot, revenue, granted, uncharged, blurred, unsaid>>
  PROVE  BooksInv'
  BY StopsJust, PlainStep

LEMMA GoPlain ==
  ASSUME TypeOK, TypeOK', BooksInv, NEW j \in Jobs, Plain(job[j]), NEW r, Becomes(j, r), Plain(r),
         UNCHANGED <<now, active, entry, file, boot, revenue, granted, uncharged, blurred, unsaid>>
  PROVE  BooksInv'
  BY BecomesJust, PlainStep

LEMMA StartsBooks ==
  ASSUME TypeOK, TypeOK', BooksInv, NEW j \in Jobs, NEW c \in Coverages,
         StartExport(j, c) \/ StartOrder(j, c) \/ StartRenewal(j, c)
  PROVE  BooksInv'
<1>1. CASE StartExport(j, c)
  <2>0. PICK till \in Quoted, lists \in BOOLEAN :
          Becomes(j, [Starts("export", IF till = 0 THEN "activate" ELSE "check", c) EXCEPT
                        !.till = till, !.lists = lists, !.over = c \in activated \cup gone])
    BY <1>1 DEF StartExport
  <2> DEFINE r == [Starts("export", IF till = 0 THEN "activate" ELSE "check", c) EXCEPT
                     !.till = till, !.lists = lists, !.over = c \in activated \cup gone]
  <2>1. Plain(r)
    BY DEF Starts, Idle, Plain, IsExport, IsRenewal
  <2>2. Becomes(j, r) /\ job[j] = Idle
        /\ UNCHANGED <<now, active, entry, file, boot, revenue, granted, uncharged, blurred, unsaid>>
    BY <1>1, <2>0 DEF StartExport, books, history
  <2> HIDE DEF r
  <2> QED
    BY <2>1, <2>2, StartPlain
<1>2. CASE StartOrder(j, c)
  <2>1. PICK fee \in {0, 1}, tier \in BOOLEAN :
          Becomes(j, [Starts("order", "venue", c) EXCEPT !.fee = fee, !.tier = tier])
    BY <1>2 DEF StartOrder
  <2> DEFINE r == [Starts("order", "venue", c) EXCEPT !.fee = fee, !.tier = tier]
  <2>2. Plain(r)
    BY DEF Starts, Idle, Plain, IsExport, IsRenewal
  <2>3. Becomes(j, r) /\ job[j] = Idle
        /\ UNCHANGED <<now, active, entry, file, boot, revenue, granted, uncharged, blurred, unsaid>>
    BY <1>2, <2>1 DEF StartOrder, books, history
  <2> HIDE DEF r
  <2> QED
    BY <2>2, <2>3, StartPlain
<1>3. CASE StartRenewal(j, c)
  <2>1. PICK till \in now + 1 .. MaxTime + 1 :
          Becomes(j, [Starts("renew", "buy", c) EXCEPT !.till = till])
    BY <1>3 DEF StartRenewal
  <2> DEFINE r == [Starts("renew", "buy", c) EXCEPT !.till = till]
  <2>2. Plain(r)
    BY DEF Starts, Idle, Plain, IsExport, IsRenewal
  <2>3. Becomes(j, r) /\ job[j] = Idle
        /\ UNCHANGED <<now, active, entry, file, boot, revenue, granted, uncharged, blurred, unsaid>>
    BY <1>3, <2>1 DEF StartRenewal, books, history
  <2> HIDE DEF r
  <2> QED
    BY <2>2, <2>3, StartPlain
<1> QED
  BY <1>1, <1>2, <1>3

LEMMA WalksBooks ==
  ASSUME TypeOK, TypeOK', BooksInv, NEW j \in Jobs, StartList(j) \/ StartPass(j) \/ StartReset(j)
  PROVE  BooksInv'
<1>1. CASE StartList(j) \/ StartPass(j)
  <2> DEFINE r == [Starts("list", "walk", NoCoverage) EXCEPT !.clock = now]
             s == [Starts("mtm", "walk", NoCoverage) EXCEPT !.clock = now]
  <2>1. Plain(r) /\ Plain(s)
    BY DEF Starts, Idle, Plain, IsExport, IsRenewal
  <2>2. (Becomes(j, r) \/ Becomes(j, s)) /\ job[j] = Idle
        /\ UNCHANGED <<now, active, entry, file, boot, revenue, granted, uncharged, blurred, unsaid>>
    BY <1>1 DEF StartList, StartPass, books, history
  <2> HIDE DEF r, s
  <2> QED
    BY <2>1, <2>2, StartPlain
<1>2. CASE StartReset(j)
  <2> DEFINE r == Starts("reset", "clear", NoCoverage)
  <2>1. Plain(r)
    BY DEF Starts, Idle, Plain, IsExport, IsRenewal
  <2>2. Becomes(j, r) /\ job[j] = Idle
        /\ UNCHANGED <<now, active, entry, file, boot, revenue, granted, uncharged, blurred, unsaid>>
    BY <1>2 DEF StartReset
  <2> HIDE DEF r
  <2> QED
    BY <2>1, <2>2, StartPlain
<1> QED
  BY <1>1, <1>2

LEMMA StopsBooks ==
  ASSUME TypeOK, TypeOK', BooksInv, NEW j \in Jobs,
         LogActivation(j) \/ WalkThrows(j) \/ EndPass(j)
  PROVE  BooksInv'
<1>1. Flow(job[j])
  BY FlowOf
<1>2. Stops(j) /\ Plain(job[j])
  BY <1>1 DEF LogActivation, WalkThrows, EndPass, IsAt, Flow, Plain, IsExport, IsRenewal
<1>3. UNCHANGED <<now, active, entry, file, boot, revenue, granted, uncharged, blurred, unsaid>>
  BY DEF LogActivation, WalkThrows, EndPass, books, history
<1> QED
  BY <1>2, <1>3, StopPlain

LEMMA CheckLogBooks ==
  ASSUME TypeOK, TypeOK', BooksInv, NEW j \in Jobs, CheckLog(j)
  PROVE  BooksInv'
<1> DEFINE r == [job[j] EXCEPT !.at = "activate"]
<1>1. job[j] \in Handlers /\ Flow(job[j]) /\ job[j].kind = "export" /\ job[j].at = "check"
  BY FlowOf DEF CheckLog, IsAt
<1>2. Plain(job[j])
  BY <1>1 DEF Flow, Plain, IsExport, IsRenewal
<1>3. Plain(r)
  BY <1>1 DEF Flow, Plain, IsExport, IsRenewal, Handlers
<1>4. /\ Stops(j) \/ Becomes(j, r)
      /\ UNCHANGED <<now, active, entry, file, boot, revenue, granted, uncharged, blurred, unsaid>>
  BY DEF CheckLog, Goes, books, history
<1> HIDE DEF r
<1> QED
  BY <1>2, <1>3, <1>4, StopPlain, GoPlain

LEMMA PassGoesBooks ==
  ASSUME TypeOK, TypeOK', BooksInv, NEW j \in Jobs,
         PassSkips(j) \/ PassOn(j) \/ \E c \in Coverages : PassValues(j, c)
  PROVE  BooksInv'
<1>1. /\ job[j] \in Handlers /\ Flow(job[j]) /\ job[j].kind = "mtm"
      /\ job[j].at \in {"walk", "position"}
  BY FlowOf DEF PassSkips, PassOn, PassValues, IsAt
<1>2. Plain(job[j])
  BY <1>1 DEF Flow, Plain, IsExport, IsRenewal
<1>3. UNCHANGED <<now, active, entry, file, boot, revenue, granted, uncharged, blurred, unsaid>>
  BY DEF PassSkips, PassOn, PassValues, books, history
<1>4. CASE PassSkips(j)
  <2> DEFINE r == [job[j] EXCEPT !.left = @ - 1]
  <2>1. Plain(r)
    BY <1>1, <1>2 DEF Plain, IsExport, IsRenewal, Handlers
  <2>2. Becomes(j, r)
    BY <1>4 DEF PassSkips
  <2> HIDE DEF r
  <2> QED
    BY <1>2, <1>3, <2>1, <2>2, GoPlain
<1>5. CASE PassOn(j)
  <2> DEFINE r == [job[j] EXCEPT !.at = "walk", !.on = NoCoverage, !.base = 0]
  <2>1. Plain(r)
    BY <1>1, <1>2 DEF Plain, IsExport, IsRenewal, Handlers
  <2>2. Becomes(j, r)
    BY <1>5 DEF PassOn
  <2> HIDE DEF r
  <2> QED
    BY <1>2, <1>3, <2>1, <2>2, GoPlain
<1>6. ASSUME NEW c \in Coverages, PassValues(j, c) PROVE BooksInv'
  <2>1. PICK left \in {0, Positions} :
          Becomes(j, [job[j] EXCEPT !.seen = @ \cup {c}, !.on = c, !.at = "position",
                                    !.base = entry[c].credit, !.left = left])
    BY <1>6 DEF PassValues
  <2> DEFINE r == [job[j] EXCEPT !.seen = @ \cup {c}, !.on = c, !.at = "position",
                                 !.base = entry[c].credit, !.left = left]
  <2>2. Plain(r)
    BY <1>1, <1>2 DEF Plain, IsExport, IsRenewal, Handlers
  <2>3. Becomes(j, r)
    BY <2>1
  <2> HIDE DEF r
  <2> QED
    BY <1>2, <1>3, <2>2, <2>3, GoPlain
<1> QED
  BY <1>4, <1>5, <1>6

-----------------------------------------------------------------------------
(* Steps that collect, book, credit or save.                                *)

LEMMA SavedAs ==
  ASSUME NEW r \in Handlers, NEW then \in Places
  PROVE  /\ LET m == SavesLedger(r, then) IN
            /\ m.at = "saveLedger" /\ m.then = then /\ m.shot.entry = entry'
            /\ m.kind = r.kind /\ m.on = r.on /\ m.filled = r.filled /\ m.fee = r.fee
            /\ m.tier = r.tier
         /\ LET m == SavesActive(r, then) IN
            /\ m.at = "saveActive" /\ m.then = then
            /\ m.kind = r.kind /\ m.on = r.on /\ m.filled = r.filled /\ m.fee = r.fee
            /\ m.tier = r.tier
<1> DEFINE s == [Nothing EXCEPT !.entry = entry']
           a == [Nothing EXCEPT !.active = active']
<1>1. s.entry = entry'
  BY DEF Nothing
<1>2. SavesLedger(r, then) = Saving(r, "saveLedger", s, then)
        /\ SavesActive(r, then) = Saving(r, "saveActive", a, then)
  BY DEF SavesLedger, SavesActive
<1> HIDE DEF s, a
<1>3. LET m == Saving(r, "saveLedger", s, then) IN
        /\ m.at = "saveLedger" /\ m.then = then /\ m.shot = s
        /\ m.kind = r.kind /\ m.on = r.on /\ m.filled = r.filled /\ m.fee = r.fee
            /\ m.tier = r.tier
  BY DEF Saving, Handlers
<1>4. LET m == Saving(r, "saveActive", a, then) IN
        /\ m.at = "saveActive" /\ m.then = then
        /\ m.kind = r.kind /\ m.on = r.on /\ m.filled = r.filled /\ m.fee = r.fee
            /\ m.tier = r.tier
  BY DEF Saving, Handlers
<1> QED
  BY <1>1, <1>2, <1>3, <1>4

LEMMA UpsertedAs ==
  ASSUME TypeOK, NEW c \in Coverages, NEW r \in Entries, Upsert(c, r)
  PROVE  /\ entry'[c].status # "none" /\ entry'[c].fee = r.fee /\ entry'[c].credit = r.credit
         /\ \A d \in Coverages : d # c => entry'[d] = entry[d]
  BY DEF TypeOK, Upsert, Entries

\* A handler that has changed the entry of c and awaits the write of it.
LEMMA LedgerStep ==
  ASSUME TypeOK, TypeOK', BooksInv, NEW j \in Jobs, NEW r, Becomes(j, r),
         r.at = "saveLedger", r.shot.entry = entry', Flow(r),
         NEW c \in Coverages, \A d \in Coverages : d # c => entry'[d] = entry[d],
         entry'[c].status # "none",
         UNCHANGED <<file, boot, unsaid>>, uncharged' \in Nat,
         LivesInv', CreditsAccounted', blurred \subseteq blurred',
         (revenue' - revenue) + (uncharged' - uncharged) + (Due(r) - Due(job[j]))
           = entry'[c].fee - entry[c].fee
  PROVE  BooksInv'
<1>1. /\ FlowInv /\ LivesInv /\ EntriesInv /\ BootInv
      /\ RevenueAccounted /\ CreditsAccounted /\ uncharged \in Nat
  BY DEF BooksInv
<1>2. job'[j] = r /\ Others(j)
  BY BecomesJust
<1>3. NoneIsEmpty(entry')
  BY <1>1 DEF FlowInv, NoneIsEmpty
<1>4. FlowInv'
  <2>1. NoneIsEmpty(file'.entry)
    BY <1>1 DEF FlowInv
  <2> QED
    BY <1>1, <1>2, <1>3, <2>1, FlowStep
<1>5. EntriesInv'
  BY <1>2, EntriesSaving
<1>6. BootInv'
  BY <1>1, BootSame
<1>7. RevenueAccounted'
  <2>1. entry \in [Coverages -> Entries] /\ entry' \in [Coverages -> Entries]
    BY DEF TypeOK
  <2>2. Fees(entry') = Fees(entry) + (entry'[c].fee - entry[c].fee)
    BY <2>1, FeesMoved
  <2>3. Fees(entry) \in Int /\ entry[c].fee \in Int /\ entry'[c].fee \in Int
    <3>1. entry[c] \in Entries /\ entry'[c] \in Entries
      BY <2>1
    <3> QED
      BY <2>1, <3>1, FeesType DEF Entries
  <2>4. (revenue' - revenue) + (uncharged' - uncharged) + (Due(job'[j]) - Due(job[j]))
          = Fees(entry') - Fees(entry)
    BY <1>2, <2>2, <2>3
  <2> QED
    BY <1>1, <1>2, <2>4, RevenueMoves DEF Others
<1> QED
  BY <1>1, <1>4, <1>5, <1>6, <1>7 DEF BooksInv

\* One that leaves entries alone and books or drops what it owes.
LEMMA MoneyStep ==
  ASSUME TypeOK, TypeOK', BooksInv, NEW j \in Jobs, NEW r, Becomes(j, r),
         job[j].at \notin {"saveLedger", "saveActive", "grant"},
         r.at \notin {"saveLedger", "saveActive", "grant"}, Flow(r),
         UNCHANGED <<now, active, entry, file, boot, granted, uncharged, blurred>>,
         unsaid \subseteq unsaid', unsaid' \subseteq unsaid \cup {"revenue"},
         "revenue" \notin unsaid' =>
           (revenue' - revenue) + (Due(r) - Due(job[j])) = 0
  PROVE  BooksInv'
<1>1. /\ FlowInv /\ LivesInv /\ EntriesInv /\ BootInv
      /\ RevenueAccounted /\ CreditsAccounted /\ uncharged \in Nat
  BY DEF BooksInv
<1>2. job'[j] = r /\ Others(j)
  BY BecomesJust
<1>3. FlowInv'
  <2>1. NoneIsEmpty(entry') /\ NoneIsEmpty(file'.entry)
    BY <1>1 DEF FlowInv
  <2> QED
    BY <1>1, <1>2, <2>1, FlowStep
<1>4. LivesInv'
  BY <1>1, <1>2, LivesSame
<1>5. EntriesInv'
  BY <1>1, <1>2, EntriesSame
<1>6. BootInv'
  BY <1>1, BootSame
<1>7. CreditsAccounted'
  BY <1>1, <1>2, CreditsSame
<1>8. RevenueAccounted'
  <2>1. Fees(entry') = Fees(entry) /\ Fees(entry) \in Int /\ revenue \in Int /\ revenue' \in Int
    BY FeesType DEF TypeOK
  <2>2. Due(r) \in Int /\ Due(job[j]) \in Int
    BY DEF Due
  <2>3. "revenue" \notin unsaid' =>
          (revenue' - revenue) + (uncharged' - uncharged) + (Due(job'[j]) - Due(job[j]))
            = Fees(entry') - Fees(entry)
    BY <1>1, <1>2, <2>1, <2>2
  <2> QED
    BY <1>1, <1>2, <2>3, RevenueMoves DEF Others
<1> QED
  BY <1>1, <1>3, <1>4, <1>5, <1>6, <1>7, <1>8 DEF BooksInv

LEMMA CollectFeeBooks ==
  ASSUME LedgerInv, TypeOK', BooksInv, NEW j \in Jobs, CollectFee(j),
         job[j].kind = "export", job[j].at \in {"activate", "collect"},
         UNCHANGED <<now, active, file, boot, revenue, granted, uncharged, blurred, unsaid>>
  PROVE  BooksInv'
<1> DEFINE c == job[j].on
           r == SavesLedger(Starts("export", "saveLedger", c), "book")
<1>1. /\ job[j] \in Handlers /\ Flow(job[j]) /\ TypeOK /\ Sound(job[j])
  BY FlowOf, TypesOf
<1>2. c \in Coverages
  BY <1>1 DEF Sound, Placed
<1>3. /\ Becomes(j, r)
      /\ entry'[c].status # "none" /\ entry'[c].fee = entry[c].fee + 1
      /\ entry'[c].credit = entry[c].credit
      /\ \A d \in Coverages : d # c => entry'[d] = entry[d]
      /\ r.kind = "export" /\ r.at = "saveLedger" /\ r.then = "book"
      /\ r.shot.entry = entry' /\ r.filled = FALSE
  BY <1>1, <1>2, FeeCollected
<1> HIDE DEF r
<1>4. job'[j] = r /\ Others(j)
  BY <1>1, <1>3, BecomesJust
<1>5. Flow(r) /\ ~job[j].filled
  BY <1>1, <1>3 DEF Flow
<1>6. LivesInv' /\ CreditsAccounted'
  <2>1. LivesInv /\ CreditsAccounted
    BY DEF BooksInv
  <2>2. LivesInv'
    BY <1>4, <2>1, LivesSame
  <2>3. \A d \in Coverages : entry'[d].credit = entry[d].credit
    BY <1>3
  <2> QED
    BY <1>3, <1>4, <2>1, <2>2, <2>3, CreditsSame
<1>7. Due(r) = 1 /\ Due(job[j]) = 0
  BY <1>1, <1>3, <1>5 DEF Due, IsExport, IsOrder, Charged, IsRenewal
<1>8. (revenue' - revenue) + (uncharged' - uncharged) + (Due(r) - Due(job[j]))
        = entry'[c].fee - entry[c].fee
  <2>1. entry[c] \in Entries
    BY <1>1, <1>2 DEF TypeOK
  <2>2. revenue \in Int /\ uncharged \in Int /\ entry[c].fee \in Int
    BY <1>1, <2>1 DEF TypeOK, BooksInv, Entries
  <2> QED
    BY <1>3, <1>7, <2>2
<1>9. uncharged' \in Nat /\ blurred \subseteq blurred'
  BY DEF BooksInv
<1> QED
  BY <1>1, <1>2, <1>3, <1>5, <1>6, <1>8, <1>9, LedgerStep

LEMMA ActivateBooks ==
  ASSUME LedgerInv, TypeOK', BooksInv, NEW j \in Jobs, Activate(j)
  PROVE  BooksInv'
<1>0. TypeOK
  BY DEF LedgerInv
<1>1. job[j] \in Handlers /\ Flow(job[j]) /\ job[j].kind = "export" /\ job[j].at = "activate"
  BY <1>0, FlowOf DEF Activate, IsAt
<1>2. Plain(job[j])
  BY <1>1 DEF Flow, Plain, IsExport, IsRenewal
<1>3. UNCHANGED <<now, file, boot, revenue, granted, uncharged, blurred, unsaid>>
  BY DEF Activate
<1>4. CASE Stops(j) /\ UNCHANGED <<active, entry>>
  BY <1>0, <1>2, <1>3, <1>4, StopPlain
<1>5. CASE Becomes(j, SavesActive(job[j], "collect")) /\ entry' = entry
  <2> DEFINE r == SavesActive(job[j], "collect")
  <2>1. "collect" \in Places
    BY DEF Places
  <2>2. /\ r.at = "saveActive" /\ r.then = "collect"
        /\ r.kind = job[j].kind /\ r.filled = job[j].filled
    BY <1>1, <2>1, SavedAs
  <2> HIDE DEF r
  <2>3. job'[j] = r /\ Others(j)
    BY <1>0, <1>5, BecomesJust DEF r
  <2>4. /\ FlowInv /\ LivesInv /\ EntriesInv /\ BootInv
        /\ RevenueAccounted /\ CreditsAccounted /\ uncharged \in Nat
    BY DEF BooksInv
  <2>5. FlowInv'
    <3>1. NoneIsEmpty(entry') /\ NoneIsEmpty(file'.entry)
      BY <1>3, <1>5, <2>4 DEF FlowInv
    <3>2. Flow(r)
      BY <1>1, <2>2 DEF Flow
    <3> QED
      BY <2>2, <2>3, <2>4, <3>1, <3>2, FlowStep
  <2>6. LivesInv'
    BY <2>2, <2>3, LivesSaving
  <2>7. EntriesInv'
    BY <1>1, <1>3, <1>5, <2>3, <2>4, EntriesSame
  <2>8. BootInv'
    BY <1>3, <2>4, BootSame
  <2>9. CreditsAccounted'
    BY <1>1, <1>3, <1>5, <2>2, <2>3, <2>4, CreditsSame
  <2>10. RevenueAccounted'
    <3>1. Due(job[j]) = 0 /\ Due(job'[j]) = 0
      BY <1>1, <2>2, <2>3 DEF Due, IsExport, IsOrder, Charged, IsRenewal
    <3>2. Fees(entry') = Fees(entry) /\ Fees(entry) \in Int /\ revenue \in Int
      BY <1>0, <1>5, FeesType DEF TypeOK
    <3>3. (revenue' - revenue) + (uncharged' - uncharged) + (Due(job'[j]) - Due(job[j]))
            = Fees(entry') - Fees(entry)
      BY <1>3, <2>4, <3>1, <3>2
    <3> QED
      BY <1>0, <1>3, <2>3, <2>4, <3>3, RevenueMoves DEF Others
  <2> QED
    BY <1>3, <2>4, <2>5, <2>6, <2>7, <2>8, <2>9, <2>10 DEF BooksInv
<1>6. CASE CollectFee(j) /\ active' = active
  BY <1>1, <1>3, <1>6, CollectFeeBooks
<1> QED
  BY <1>4, <1>5, <1>6 DEF Activate

LEMMA CollectBooks ==
  ASSUME LedgerInv, TypeOK', BooksInv, NEW j \in Jobs, Collect(j)
  PROVE  BooksInv'
<1>1. /\ CollectFee(j) /\ job[j].kind = "export" /\ job[j].at = "collect"
      /\ UNCHANGED <<now, active, file, boot, revenue, granted, uncharged, blurred, unsaid>>
  BY DEF Collect, IsAt
<1> QED
  BY <1>1, CollectFeeBooks

LEMMA BookRevenueBooks ==
  ASSUME TypeOK, TypeOK', BooksInv, NEW j \in Jobs, BookRevenue(j)
  PROVE  BooksInv'
<1> DEFINE r == [job[j] EXCEPT !.at = "log"]
<1>1. job[j] \in Handlers /\ Flow(job[j]) /\ job[j].kind = "export" /\ job[j].at = "book"
  BY FlowOf DEF BookRevenue, IsAt
<1>2. /\ Becomes(j, r) /\ revenue' = revenue + 1
      /\ UNCHANGED <<now, active, entry, file, boot, granted, uncharged, blurred, unsaid>>
  BY DEF BookRevenue, Goes, history
<1>3. r.at = "log" /\ r.kind = "export" /\ r.filled = job[j].filled /\ ~job[j].filled
  BY <1>1 DEF Handlers, Flow
<1> HIDE DEF r
<1>4. Due(r) = 0 /\ Due(job[j]) = 1 /\ Flow(r)
  BY <1>1, <1>3 DEF Due, IsExport, IsOrder, Charged, IsRenewal, Flow
<1>5. (revenue' - revenue) + (Due(r) - Due(job[j])) = 0
  BY <1>2, <1>4 DEF TypeOK
<1> QED
  BY <1>1, <1>2, <1>3, <1>4, <1>5, MoneyStep

LEMMA ChargeOrderBooks ==
  ASSUME TypeOK, TypeOK', BooksInv, NEW j \in Jobs, ChargeOrder(j)
  PROVE  BooksInv'
<1>1. job[j] \in Handlers /\ Flow(job[j]) /\ job[j].kind = "order" /\ job[j].at = "charge"
  BY FlowOf DEF ChargeOrder, IsAt
<1>2. /\ Becomes(j, Idle)
      /\ UNCHANGED <<now, active, entry, file, boot, granted, uncharged, blurred>>
      /\ \/ revenue' = revenue + (IF Charged(job[j]) THEN job[j].fee ELSE 0) /\ unsaid' = unsaid
         \/ unsaid' = unsaid \cup {"revenue"}
  BY DEF ChargeOrder, Stops, Apart
<1>3. Plain(Idle) /\ Flow(Idle) /\ Due(Idle) = 0
  BY DEF Idle, Plain, Flow, Due, IsExport, IsOrder, IsRenewal, Charged
<1>4. Due(job[j]) = IF Charged(job[j]) THEN job[j].fee ELSE 0
  <2>1. job[j].fee \in {0, 1}
    BY <1>1 DEF Handlers
  <2> QED
    BY <1>1, <2>1 DEF Due, IsExport, IsOrder, Charged, IsRenewal
<1>5. "revenue" \notin unsaid' => (revenue' - revenue) + (Due(Idle) - Due(job[j])) = 0
  <2>1. Due(job[j]) \in Int /\ revenue \in Int
    BY DEF Due, TypeOK
  <2> QED
    BY <1>2, <1>3, <1>4, <2>1
<1> QED
  BY <1>1, <1>2, <1>3, <1>5, MoneyStep DEF Plain

LEMMA BuyRenewalBooks ==
  ASSUME TypeOK, TypeOK', BooksInv, NEW j \in Jobs, BuyRenewal(j)
  PROVE  BooksInv'
<1> DEFINE r == [job[j] EXCEPT !.at = "record"]
<1>1. job[j] \in Handlers /\ Flow(job[j]) /\ job[j].kind = "renew" /\ job[j].at = "buy"
  BY FlowOf DEF BuyRenewal, IsAt
<1>2. /\ \/ revenue' = revenue + 1 /\ Becomes(j, r)
         \/ Stops(j) /\ revenue' = revenue
      /\ UNCHANGED <<now, active, entry, file, boot, granted, uncharged, blurred, unsaid>>
  BY DEF BuyRenewal, Goes, history
<1>3. Plain(job[j])
  BY <1>1 DEF Plain, Flow, IsExport, IsRenewal
<1>4. r.at = "record" /\ r.kind = "renew" /\ r.filled = job[j].filled /\ ~job[j].filled
  BY <1>1 DEF Handlers, Flow
<1> HIDE DEF r
<1>5. Due(r) = 0 - 1 /\ Due(job[j]) = 0 /\ Flow(r)
  BY <1>1, <1>4 DEF Due, IsExport, IsOrder, Charged, IsRenewal, Flow
<1>6. CASE Stops(j) /\ revenue' = revenue
  BY <1>2, <1>3, <1>6, StopPlain
<1>7. CASE revenue' = revenue + 1 /\ Becomes(j, r)
  <2>1. (revenue' - revenue) + (Due(r) - Due(job[j])) = 0
    BY <1>5, <1>7 DEF TypeOK
  <2> QED
    BY <1>1, <1>2, <1>4, <1>5, <1>7, <2>1, MoneyStep
<1> QED
  BY <1>2, <1>6, <1>7

LEMMA RecordRenewalBooks ==
  ASSUME LedgerInv, TypeOK', BooksInv, NEW j \in Jobs, RecordRenewal(j)
  PROVE  BooksInv'
<1> DEFINE c == job[j].on
           r == SavesLedger(job[j], "idle")
<1>1. /\ job[j] \in Handlers /\ Flow(job[j]) /\ job[j].kind = "renew" /\ job[j].at = "record"
      /\ TypeOK /\ Sound(job[j])
  BY FlowOf, TypesOf DEF RecordRenewal, IsAt
<1>2. UNCHANGED <<now, active, file, boot, revenue, granted, uncharged, blurred>>
  BY DEF RecordRenewal
<1>3. c \in Coverages
  BY <1>1 DEF Sound, Placed
<1>4. Due(job[j]) = 0 - 1 /\ ~job[j].filled
  BY <1>1 DEF Due, IsExport, IsOrder, Charged, IsRenewal, Flow
<1>5. CASE Stops(j) /\ unsaid' = unsaid \cup {"revenue"} /\ entry' = entry
  <2>1. Flow(Idle) /\ Plain(Idle)
    BY DEF Idle, Flow, Plain, IsExport, IsRenewal
  <2>2. Becomes(j, Idle)
    BY <1>5 DEF Stops
  <2> QED
    BY <1>1, <1>2, <1>5, <2>1, <2>2, MoneyStep DEF Plain
<1>6. CASE /\ entry' = [entry EXCEPT ![c].end = job[j].till, ![c].status = "active",
                                     ![c].fee = @ + 1]
           /\ Becomes(j, r) /\ unsaid' = unsaid
  <2>1. /\ entry'[c].status = "active" /\ entry'[c].fee = entry[c].fee + 1
        /\ entry'[c].credit = entry[c].credit /\ entry[c].fee \in Int
        /\ \A d \in Coverages : d # c => entry'[d] = entry[d]
    <3>1. entry \in [Coverages -> Entries]
      BY <1>1 DEF TypeOK
    <3>2. entry[c] \in Entries
      BY <1>3, <3>1
    <3> QED
      BY <1>3, <1>6, <3>1, <3>2 DEF Entries
  <2>2. /\ r.at = "saveLedger" /\ r.then = "idle" /\ r.shot.entry = entry'
        /\ r.kind = job[j].kind /\ r.filled = job[j].filled
    <3>1. "idle" \in Places
      BY DEF Places
    <3> QED
      BY <1>1, <3>1, SavedAs
  <2> HIDE DEF r
  <2>3. job'[j] = r /\ Others(j)
    BY <1>1, <1>6, BecomesJust
  <2>4. Flow(r) /\ Due(r) = 0
    BY <1>1, <1>4, <2>2 DEF Flow, Due, IsExport, IsOrder, Charged, IsRenewal
  <2>5. LivesInv' /\ CreditsAccounted'
    <3>1. LivesInv /\ CreditsAccounted
      BY DEF BooksInv
    <3>2. LivesInv'
      BY <1>1, <1>2, <1>6, <2>3, <3>1, LivesSame
    <3>3. \A d \in Coverages : entry'[d].credit = entry[d].credit
      BY <2>1
    <3> QED
      BY <1>1, <1>2, <2>2, <2>3, <3>1, <3>2, <3>3, CreditsSame
  <2>6. (revenue' - revenue) + (uncharged' - uncharged) + (Due(r) - Due(job[j]))
          = entry'[c].fee - entry[c].fee
    <3>1. revenue \in Int /\ uncharged \in Int
      BY <1>1 DEF TypeOK, BooksInv
    <3> QED
      BY <1>2, <1>4, <2>1, <2>4, <3>1
  <2>7. uncharged' \in Nat /\ blurred \subseteq blurred'
    BY <1>2 DEF BooksInv
  <2>8. Becomes(j, r) /\ UNCHANGED <<file, boot, unsaid>>
    BY <1>2, <1>6
  <2> QED
    BY <1>1, <1>3, <2>1, <2>2, <2>4, <2>5, <2>6, <2>7, <2>8, LedgerStep
<1> QED
  BY <1>5, <1>6 DEF RecordRenewal, Apart

LEMMA RecordOrderBooks ==
  ASSUME LedgerInv, TypeOK', BooksInv, NEW j \in Jobs, RecordOrder(j)
  PROVE  BooksInv'
<1> DEFINE c == job[j].on
           e == [entry[c] EXCEPT !.fee = @ + job[j].fee]
<1>1. /\ job[j] \in Handlers /\ Flow(job[j]) /\ job[j].kind = "order" /\ job[j].at = "venue"
      /\ TypeOK /\ Sound(job[j])
  BY FlowOf, TypesOf DEF RecordOrder, IsAt
<1>2. UNCHANGED <<now, active, file, boot, revenue, granted, blurred, unsaid>>
  BY DEF RecordOrder
<1>3. c \in Coverages /\ job[j].fee \in {0, 1} /\ ~job[j].filled
  BY <1>1 DEF Sound, Placed, Handlers, Flow
<1>4. Due(job[j]) = 0 /\ Plain(job[j])
  BY <1>1, <1>3 DEF Due, Plain, IsExport, IsOrder, Charged, IsRenewal
<1>5. CASE Stops(j) /\ UNCHANGED <<entry, uncharged>>
  BY <1>1, <1>2, <1>4, <1>5, StopPlain
<1>6. ASSUME NEW filled \in BOOLEAN,
             Upsert(c, e), Becomes(j, SavesLedger([job[j] EXCEPT !.filled = filled], "charge")),
             uncharged' = uncharged + (IF filled /\ job[j].tier THEN 0 ELSE job[j].fee)
      PROVE  BooksInv'
  <2> DEFINE h == [job[j] EXCEPT !.filled = filled]
             r == SavesLedger(h, "charge")
  <2>1. /\ h \in Handlers /\ h.kind = "order" /\ h.filled = filled
        /\ h.fee = job[j].fee /\ h.tier = job[j].tier
    BY <1>1 DEF Handlers
  <2> HIDE DEF h
  <2>2. /\ r.at = "saveLedger" /\ r.then = "charge" /\ r.shot.entry = entry'
        /\ r.kind = "order" /\ r.filled = filled /\ r.fee = job[j].fee /\ r.tier = job[j].tier
    <3>1. "charge" \in Places
      BY DEF Places
    <3> QED
      BY <2>1, <3>1, SavedAs
  <2>3. Becomes(j, r)
    BY <1>6 DEF h
  <2> HIDE DEF r
  <2>4. e \in Entries /\ e.fee = entry[c].fee + job[j].fee /\ e.credit = entry[c].credit
          /\ entry[c].fee \in Int
    <3>1. entry[c] \in Entries /\ job[j].fee \in Nat
      BY <1>1, <1>3 DEF TypeOK
    <3> QED
      BY <3>1 DEF Entries
  <2> HIDE DEF e
  <2>5. /\ entry'[c].status # "none" /\ entry'[c].fee = entry[c].fee + job[j].fee
        /\ entry'[c].credit = entry[c].credit
        /\ \A d \in Coverages : d # c => entry'[d] = entry[d]
    BY <1>1, <1>3, <1>6, <2>4, UpsertedAs
  <2>6. job'[j] = r /\ Others(j)
    BY <1>1, <2>3, BecomesJust
  <2>7. Flow(r) /\ Due(r) = IF filled /\ job[j].tier THEN job[j].fee ELSE 0
    BY <1>3, <2>2 DEF Flow, Due, IsExport, IsOrder, IsRenewal, Charged
  <2>8. LivesInv' /\ CreditsAccounted'
    <3>1. LivesInv /\ CreditsAccounted
      BY DEF BooksInv
    <3>2. LivesInv'
      BY <1>1, <1>2, <2>6, <3>1, LivesSame
    <3>3. \A d \in Coverages : entry'[d].credit = entry[d].credit
      BY <2>5
    <3> QED
      BY <1>1, <1>2, <2>2, <2>6, <3>1, <3>2, <3>3, CreditsSame
  <2>9. uncharged \in Nat /\ uncharged' \in Nat /\ blurred \subseteq blurred'
    <3>1. uncharged \in Nat
      BY DEF BooksInv
    <3> QED
      BY <1>2, <1>3, <1>6, <3>1
  <2>10. (revenue' - revenue) + (uncharged' - uncharged) + (Due(r) - Due(job[j]))
           = entry'[c].fee - entry[c].fee
    <3>1. revenue \in Int /\ revenue' = revenue /\ uncharged \in Int /\ job[j].fee \in Int
      BY <1>1, <1>2, <1>3, <2>9 DEF TypeOK
    <3>2. (uncharged' - uncharged) + Due(r) = job[j].fee
      <4>1. CASE filled /\ job[j].tier
        BY <1>6, <2>7, <3>1, <4>1
      <4>2. CASE ~(filled /\ job[j].tier)
        BY <1>6, <2>7, <3>1, <4>2
      <4> QED
        BY <4>1, <4>2
    <3>3. entry'[c].fee - entry[c].fee = job[j].fee
      BY <2>4, <2>5, <3>1
    <3>4. Due(r) \in Int /\ uncharged' \in Int
      BY <2>9 DEF Due
    <3> QED
      BY <1>4, <3>1, <3>2, <3>3, <3>4
  <2> QED
    BY <1>1, <1>2, <1>3, <2>2, <2>3, <2>5, <2>7, <2>8, <2>9, <2>10, LedgerStep
<1> QED
  BY <1>5, <1>6 DEF RecordOrder

\* Expiring an entry changes neither what was collected nor what was credited.
LEMMA MarkExpiredBooks ==
  ASSUME TypeOK, TypeOK', BooksInv, NEW j \in Jobs, NEW s \in Handlers, NEW c \in Coverages,
         NEW end \in Ends, MarkExpired(j, s, c, end),
         job[j].kind \in {"list", "mtm"}, job[j].at = "walk",
         s.kind = job[j].kind, s.at = "walk", s.filled = job[j].filled,
         UNCHANGED <<now, file, boot, revenue, granted, uncharged, blurred, unsaid>>,
         LivesInv'
  PROVE  BooksInv'
<1>1. /\ FlowInv /\ LivesInv /\ EntriesInv /\ BootInv
      /\ RevenueAccounted /\ CreditsAccounted /\ uncharged \in Nat
  BY DEF BooksInv
<1>2. /\ job[j] \in Handlers /\ Flow(job[j]) /\ ~job[j].filled
      /\ Due(job[j]) = 0 /\ Plain(s)
  <2>1. job[j] \in Handlers /\ Flow(job[j])
    BY FlowOf
  <2> QED
    BY <2>1 DEF Flow, Due, Plain, IsExport, IsOrder, Charged, IsRenewal
<1>3. CASE entry[c].status = "expired"
  <2>1. Becomes(j, s) /\ entry' = entry
    BY <1>3 DEF MarkExpired
  <2>2. job'[j] = s /\ Others(j)
    BY <2>1, BecomesJust
  <2>3. FlowInv'
    <3>1. Flow(s)
      BY <1>2 DEF Flow, Plain
    <3>2. NoneIsEmpty(entry') /\ NoneIsEmpty(file'.entry)
      BY <1>1, <2>1 DEF FlowInv
    <3> QED
      BY <1>1, <2>2, <3>1, <3>2, FlowStep
  <2>4. EntriesInv'
    BY <1>1, <2>1, <2>2, EntriesSame
  <2>5. BootInv'
    BY <1>1, BootSame
  <2>6. CreditsAccounted'
    BY <1>1, <2>1, <2>2, CreditsSame
  <2>7. RevenueAccounted'
    <3>1. Due(job'[j]) = 0
      BY <1>2, <2>2 DEF Plain, Due, IsOrder, Charged
    <3>2. Fees(entry') = Fees(entry) /\ Fees(entry) \in Int /\ revenue \in Int
      BY <2>1, FeesType DEF TypeOK
    <3>3. (revenue' - revenue) + (uncharged' - uncharged) + (Due(job'[j]) - Due(job[j]))
            = Fees(entry') - Fees(entry)
      BY <1>1, <1>2, <3>1, <3>2
    <3> QED
      BY <1>1, <2>2, <3>3, RevenueMoves DEF Others
  <2> QED
    BY <1>1, <2>3, <2>4, <2>5, <2>6, <2>7 DEF BooksInv
<1>4. CASE entry[c].status # "expired"
  <2> DEFINE e == [entry[c] EXCEPT !.status = "expired", !.end = end]
             r == SavesLedger(s, "walk")
  <2>1. Upsert(c, e) /\ Becomes(j, r)
    BY <1>4 DEF MarkExpired
  <2>2. e \in Entries /\ e.fee = entry[c].fee /\ e.credit = entry[c].credit /\ entry[c].fee \in Int
    <3> DEFINE x == entry[c]
               y == [x EXCEPT !.status = "expired"]
    <3>1. x \in Entries /\ e = [y EXCEPT !.end = end]
      BY DEF TypeOK
    <3> HIDE DEF e, x
    <3>2. y \in Entries /\ y.fee = x.fee /\ y.credit = x.credit /\ x.fee \in Int
      BY <3>1 DEF Entries
    <3> HIDE DEF y
    <3>3. e \in Entries /\ e.fee = y.fee /\ e.credit = y.credit
      BY <3>1, <3>2 DEF Entries
    <3> QED
      BY <3>2, <3>3 DEF x
  <2> HIDE DEF e
  <2>3. /\ entry'[c].status # "none" /\ entry'[c].fee = entry[c].fee
        /\ entry'[c].credit = entry[c].credit
        /\ \A d \in Coverages : d # c => entry'[d] = entry[d]
    BY <2>1, <2>2, UpsertedAs
  <2>4. /\ r.at = "saveLedger" /\ r.then = "walk" /\ r.shot.entry = entry'
        /\ r.kind = job[j].kind /\ r.filled = job[j].filled
    <3>1. "walk" \in Places
      BY DEF Places
    <3> QED
      BY <3>1, SavedAs
  <2> HIDE DEF r
  <2>5. job'[j] = r /\ Others(j)
    BY <2>1, BecomesJust
  <2>6. Flow(r) /\ Due(r) = 0
    BY <1>2, <2>4 DEF Flow, Due, IsExport, IsOrder, Charged, IsRenewal
  <2>7. CreditsAccounted'
    <3>1. \A d \in Coverages : entry'[d].credit = entry[d].credit
      BY <2>3
    <3> QED
      BY <1>1, <2>4, <2>5, <3>1, CreditsSame
  <2>8. (revenue' - revenue) + (uncharged' - uncharged) + (Due(r) - Due(job[j]))
          = entry'[c].fee - entry[c].fee
    <3>1. revenue \in Int
      BY DEF TypeOK
    <3> QED
      BY <1>1, <1>2, <2>2, <2>3, <2>6, <3>1
  <2> QED
    BY <1>1, <2>1, <2>3, <2>4, <2>6, <2>7, <2>8, LedgerStep
<1> QED
  BY <1>3, <1>4

LEMMA LivesDropped ==
  ASSUME TypeOK, TypeOK', LivesInv, Saves("saveActive") => Saves("saveActive")',
         \A d \in Coverages : active'[d] = active[d] \/ (active'[d] = 0 /\ active[d] <= now),
         file'.active = file.active, boot'.at = boot.at, now <= now',
         "active" \in unsaid => "active" \in unsaid'
  PROVE  LivesInv'
<1> SUFFICES ASSUME "active" \notin unsaid', ~Saves("saveActive")'
             PROVE  IF boot.at \in {"readActive", "takeActive"}
                    THEN \A c \in Coverages : active'[c] # 0 => file.active[c] = active'[c]
                    ELSE \A c \in Coverages :
                           IF active'[c] # 0 THEN file.active[c] = active'[c]
                           ELSE file.active[c] <= now'
  BY DEF LivesInv, Covers
<1>1. IF boot.at \in {"readActive", "takeActive"}
      THEN \A c \in Coverages : active[c] # 0 => file.active[c] = active[c]
      ELSE \A c \in Coverages :
             IF active[c] # 0 THEN file.active[c] = active[c] ELSE file.active[c] <= now
  BY DEF LivesInv, Covers
<1>2. \A c \in Coverages : active[c] \in Int /\ file.active[c] \in Int
  <2>1. Ends \subseteq Int
    BY LedgerConstants DEF Ends
  <2> QED
    BY <2>1 DEF TypeOK, Saved
<1>3. now \in Int /\ now' \in Int
  BY DEF TypeOK
<1> QED
  BY <1>1, <1>2, <1>3

LEMMA ListEndedBooks ==
  ASSUME LedgerInv, TypeOK', BooksInv, NEW j \in Jobs, NEW c \in Coverages, ListEnded(j, c)
  PROVE  BooksInv'
<1>1. /\ job[j].kind = "list" /\ job[j].at = "walk" /\ active[c] <= job[j].clock
      /\ active' = [active EXCEPT ![c] = 0]
      /\ UNCHANGED <<now, file, boot, revenue, granted, uncharged, blurred, unsaid>>
  BY DEF ListEnded, IsAt
<1>2. PICK before \in SUBSET Coverages :
        MarkExpired(j, [job[j] EXCEPT !.seen = @ \cup before], c, active[c])
  BY DEF ListEnded, Live
<1> DEFINE s == [job[j] EXCEPT !.seen = @ \cup before]
<1>3. /\ TypeOK /\ job[j] \in Handlers /\ Sound(job[j]) /\ active \in [Coverages -> Ends]
  BY TypesOf
<1>4. s \in Handlers /\ s.kind = job[j].kind /\ s.at = "walk" /\ s.filled = job[j].filled
  BY <1>1, <1>3 DEF Handlers
<1>5. MarkExpired(j, s, c, active[c])
  BY <1>2
<1> HIDE DEF s
<1>6. active[c] \in Ends /\ active[c] <= now
  <2>1. job[j].clock \in Int /\ now \in Int /\ job[j].clock <= now
    BY <1>3, LedgerConstants DEF Handlers, TypeOK, Sound
  <2>2. active[c] \in Ends
    BY <1>3
  <2>3. active[c] \in Int
    BY <2>2, LedgerConstants DEF Ends
  <2> QED
    BY <1>1, <2>1, <2>2, <2>3
<1>7. Others(j)
  BY <1>3, <1>5, BecomesJust DEF MarkExpired
<1>8. Saves("saveActive") => Saves("saveActive")'
  BY <1>1, <1>7 DEF Saves, Others
<1>9. LivesInv'
  <2>1. \A d \in Coverages : active'[d] = active[d] \/ (active'[d] = 0 /\ active[d] <= now)
    BY <1>1, <1>3, <1>6
  <2>2. LivesInv /\ now <= now'
    BY <1>1, <1>3 DEF BooksInv, TypeOK
  <2> QED
    BY <1>1, <1>3, <1>8, <2>1, <2>2, LivesDropped
<1> QED
  BY <1>1, <1>3, <1>4, <1>5, <1>6, <1>9, MarkExpiredBooks

LEMMA EndListBooks ==
  ASSUME LedgerInv, TypeOK', BooksInv, NEW j \in Jobs, EndList(j)
  PROVE  BooksInv'
<1> DEFINE r == SavesActive(job[j], "idle")
<1>1. /\ job[j].kind = "list" /\ job[j].at = "walk"
      /\ UNCHANGED <<now, active, entry, file, boot, revenue, granted, uncharged, blurred, unsaid>>
      /\ Becomes(j, r) \/ Becomes(j, Idle)
  BY DEF EndList, IsAt, history
<1>2. TypeOK /\ job[j] \in Handlers /\ Flow(job[j])
  BY TypesOf, FlowOf
<1>3. Plain(job[j])
  BY <1>1, <1>2 DEF Flow, Plain, IsExport, IsRenewal
<1>4. r.at = "saveActive" /\ r.then = "idle" /\ r.kind = "list" /\ r.filled = job[j].filled
  <2>1. "idle" \in Places
    BY DEF Places
  <2> QED
    BY <1>1, <1>2, <2>1, SavedAs
<1> HIDE DEF r
<1>5. CASE Becomes(j, Idle)
  BY <1>1, <1>2, <1>3, <1>5, StopPlain DEF Stops
<1>6. CASE Becomes(j, r)
  <2>1. job'[j] = r /\ Others(j)
    BY <1>2, <1>6, BecomesJust
  <2>2. /\ FlowInv /\ LivesInv /\ EntriesInv /\ BootInv
        /\ RevenueAccounted /\ CreditsAccounted /\ uncharged \in Nat
    BY DEF BooksInv
  <2>3. FlowInv'
    <3>1. NoneIsEmpty(entry') /\ NoneIsEmpty(file'.entry)
      BY <1>1, <2>2 DEF FlowInv
    <3>2. Flow(r)
      BY <1>3, <1>4 DEF Flow, Plain
    <3> QED
      BY <1>4, <2>1, <2>2, <3>1, <3>2, FlowStep
  <2>4. LivesInv'
    BY <1>4, <2>1, LivesSaving
  <2>5. EntriesInv'
    BY <1>1, <2>1, <2>2, EntriesSame
  <2>6. BootInv'
    BY <1>1, <2>2, BootSame
  <2>7. CreditsAccounted'
    BY <1>1, <1>4, <2>1, <2>2, CreditsSame
  <2>8. RevenueAccounted'
    <3>1. Due(job[j]) = 0 /\ Due(job'[j]) = 0
      BY <1>1, <1>3, <1>4, <2>1 DEF Due, Plain, IsExport, IsOrder, Charged, IsRenewal
    <3>2. Fees(entry') = Fees(entry) /\ Fees(entry) \in Int /\ revenue \in Int
      BY <1>1, <1>2, FeesType DEF TypeOK
    <3>3. (revenue' - revenue) + (uncharged' - uncharged) + (Due(job'[j]) - Due(job[j]))
            = Fees(entry') - Fees(entry)
      BY <1>1, <2>2, <3>1, <3>2
    <3> QED
      BY <1>1, <1>2, <2>1, <2>2, <3>3, RevenueMoves DEF Others
  <2> QED
    BY <1>1, <2>2, <2>3, <2>4, <2>5, <2>6, <2>7, <2>8 DEF BooksInv
<1> QED
  BY <1>1, <1>5, <1>6

LEMMA PassExpiresBooks ==
  ASSUME LedgerInv, TypeOK', BooksInv, NEW j \in Jobs, NEW c \in Coverages, PassExpires(j, c)
  PROVE  BooksInv'
<1> DEFINE s == [job[j] EXCEPT !.seen = @ \cup {c}]
<1>1. /\ job[j].kind = "mtm" /\ job[j].at = "walk" /\ MarkExpired(j, s, c, entry[c].end)
      /\ UNCHANGED <<now, active, file, boot, revenue, granted, uncharged, blurred, unsaid>>
  BY DEF PassExpires, IsAt, history
<1>2. TypeOK /\ job[j] \in Handlers /\ entry \in [Coverages -> Entries]
  BY TypesOf
<1>3. s \in Handlers /\ s.kind = job[j].kind /\ s.at = "walk" /\ s.filled = job[j].filled
  BY <1>1, <1>2 DEF Handlers
<1> HIDE DEF s
<1>4. entry[c].end \in Ends
  <2>1. entry[c] \in Entries
    BY <1>2
  <2> QED
    BY <2>1 DEF Entries
<1>5. LivesInv'
  <2>1. Others(j)
    BY <1>1, <1>2, BecomesJust DEF MarkExpired
  <2>2. LivesInv
    BY DEF BooksInv
  <2> QED
    BY <1>1, <2>1, <2>2, LivesSame
<1> QED
  BY <1>1, <1>2, <1>3, <1>4, <1>5, MarkExpiredBooks

-----------------------------------------------------------------------------
(* Credits.                                                                 *)

Granting(r, c) == IF r.kind = "mtm" /\ r.at = "grant" /\ r.on = c THEN 1 ELSE 0

LEMMA CreditsStep ==
  ASSUME TypeOK, TypeOK', CreditsAccounted, NEW j \in Jobs, Others(j), blurred \subseteq blurred',
         \A c \in Coverages : c \notin blurred' =>
           granted'[c] - granted[c]
             = (entry'[c].credit - entry[c].credit) + (Granting(job'[j], c) - Granting(job[j], c))
  PROVE  CreditsAccounted'
<1> SUFFICES ASSUME NEW c \in Coverages, c \notin blurred'
             PROVE  granted'[c] = entry'[c].credit + Cardinality(Grants(c)')
  BY DEF CreditsAccounted, Grants, IsAt
<1> DEFINE A == Grants(c)
           B == Grants(c)'
<1>1. /\ A \in SUBSET Jobs /\ B \in SUBSET Jobs /\ A \ {j} = B \ {j}
      /\ Granting(job[j], c) = IF j \in A THEN 1 ELSE 0
      /\ Granting(job'[j], c) = IF j \in B THEN 1 ELSE 0
  BY DEF Grants, Granting, IsAt, Others
<1>2. granted[c] = entry[c].credit + Cardinality(A)
  BY DEF CreditsAccounted, Grants
<1> HIDE DEF A, B
<1>3. /\ Cardinality(A) \in Nat /\ Cardinality(B) \in Nat
      /\ Cardinality(B) + (IF j \in A THEN 1 ELSE 0)
           = Cardinality(A) + (IF j \in B THEN 1 ELSE 0)
  BY <1>1, CountMoved
<1>4. granted[c] \in Int /\ granted'[c] \in Int
  BY DEF TypeOK
<1>5. entry[c].credit \in Int /\ entry'[c].credit \in Int
  <2>1. entry[c] \in Entries /\ entry'[c] \in Entries
    BY DEF TypeOK
  <2> QED
    BY <2>1 DEF Entries
<1>6. granted'[c] - granted[c]
        = (entry'[c].credit - entry[c].credit) + (Granting(job'[j], c) - Granting(job[j], c))
  OBVIOUS
<1>7. granted'[c] = entry'[c].credit + Cardinality(B)
  BY <1>1, <1>2, <1>3, <1>4, <1>5, <1>6
<1> QED
  BY <1>7 DEF B

LEMMA PassGrantsBooks ==
  ASSUME LedgerInv, TypeOK', BooksInv, NEW j \in Jobs, PassGrants(j)
  PROVE  BooksInv'
<1> DEFINE r == [job[j] EXCEPT !.at = "grant", !.left = @ - 1]
           c == job[j].on
<1>1. /\ job[j].kind = "mtm" /\ job[j].at = "position" /\ Becomes(j, r)
      /\ granted' = [granted EXCEPT ![c] = @ + 1]
      /\ UNCHANGED <<now, active, entry, file, boot, revenue, uncharged, blurred, unsaid>>
  BY DEF PassGrants, IsAt, books
<1>2. TypeOK /\ job[j] \in Handlers /\ Flow(job[j]) /\ Sound(job[j])
  BY TypesOf, FlowOf
<1>3. r.at = "grant" /\ r.kind = "mtm" /\ r.on = c /\ r.filled = job[j].filled /\ ~job[j].filled
  BY <1>1, <1>2 DEF Handlers, Flow
<1> HIDE DEF r
<1>4. job'[j] = r /\ Others(j)
  BY <1>1, <1>2, BecomesJust
<1>5. /\ FlowInv /\ LivesInv /\ EntriesInv /\ BootInv
      /\ RevenueAccounted /\ CreditsAccounted /\ uncharged \in Nat
  BY DEF BooksInv
<1>6. FlowInv'
  <2>1. NoneIsEmpty(entry') /\ NoneIsEmpty(file'.entry)
    BY <1>1, <1>5 DEF FlowInv
  <2>2. Flow(r)
    BY <1>3 DEF Flow
  <2> QED
    BY <1>3, <1>4, <1>5, <2>1, <2>2, FlowStep
<1>7. LivesInv' /\ EntriesInv' /\ BootInv'
  BY <1>1, <1>4, <1>5, LivesSame, EntriesSame, BootSame
<1>8. CreditsAccounted'
  <2>1. c \in Coverages
    BY <1>1, <1>2 DEF Sound, Placed
  <2>2. ASSUME NEW d \in Coverages
        PROVE  granted'[d] - granted[d]
                 = (entry'[d].credit - entry[d].credit)
                     + (Granting(job'[j], d) - Granting(job[j], d))
    <3>1. Granting(job[j], d) = 0 /\ Granting(job'[j], d) = IF d = c THEN 1 ELSE 0
      BY <1>1, <1>3, <1>4 DEF Granting
    <3>2. granted[d] \in Int /\ granted'[d] = IF d = c THEN granted[d] + 1 ELSE granted[d]
      BY <1>1, <1>2, <2>1 DEF TypeOK
    <3>3. entry'[d].credit = entry[d].credit /\ entry[d].credit \in Int
      <4>1. entry[d] \in Entries
        BY <1>2 DEF TypeOK
      <4> QED
        BY <1>1, <4>1 DEF Entries
    <3> QED
      BY <3>1, <3>2, <3>3
  <2> QED
    BY <1>1, <1>2, <1>4, <1>5, <2>2, CreditsStep
<1>9. RevenueAccounted'
  <2>1. Due(job[j]) = 0 /\ Due(job'[j]) = 0
    BY <1>1, <1>3, <1>4 DEF Due, IsExport, IsOrder, Charged, IsRenewal
  <2>2. Fees(entry') = Fees(entry) /\ Fees(entry) \in Int /\ revenue \in Int
    BY <1>1, <1>2, FeesType DEF TypeOK
  <2>3. (revenue' - revenue) + (uncharged' - uncharged) + (Due(job'[j]) - Due(job[j]))
          = Fees(entry') - Fees(entry)
    BY <1>1, <1>5, <2>1, <2>2
  <2> QED
    BY <1>1, <1>2, <1>4, <1>5, <2>3, RevenueMoves DEF Others
<1> QED
  BY <1>1, <1>5, <1>6, <1>7, <1>8, <1>9 DEF BooksInv

LEMMA PassRecordsBooks ==
  ASSUME LedgerInv, TypeOK', BooksInv, NEW j \in Jobs, PassRecords(j)
  PROVE  BooksInv'
<1> DEFINE c == job[j].on
           e == [entry[c] EXCEPT !.credit = job[j].base + 1]
           r == SavesLedger(job[j], "position")
<1>1. /\ job[j].kind = "mtm" /\ job[j].at = "grant" /\ Upsert(c, e) /\ Becomes(j, r)
      /\ blurred' = (IF entry[c].credit # job[j].base THEN blurred \cup {c} ELSE blurred)
      /\ UNCHANGED <<now, active, file, boot, revenue, granted, uncharged, unsaid>>
  BY DEF PassRecords, IsAt
<1>2. TypeOK /\ job[j] \in Handlers /\ Flow(job[j]) /\ Sound(job[j])
  BY TypesOf, FlowOf
<1>3. c \in Coverages
  BY <1>1, <1>2 DEF Sound, Placed
<1>4. e \in Entries /\ e.fee = entry[c].fee /\ e.credit = job[j].base + 1
        /\ entry[c].fee \in Int /\ entry[c].credit \in Int /\ job[j].base \in Int
  <2>1. entry[c] \in Entries /\ job[j].base \in Nat
    BY <1>2, <1>3 DEF TypeOK, Handlers
  <2> QED
    BY <2>1 DEF Entries
<1> HIDE DEF e
<1>5. /\ entry'[c].status # "none" /\ entry'[c].fee = entry[c].fee
      /\ entry'[c].credit = job[j].base + 1
      /\ \A d \in Coverages : d # c => entry'[d] = entry[d]
  BY <1>1, <1>2, <1>3, <1>4, UpsertedAs
<1>6. /\ r.at = "saveLedger" /\ r.then = "position" /\ r.shot.entry = entry'
      /\ r.kind = job[j].kind /\ r.filled = job[j].filled /\ r.on = c
  <2>1. "position" \in Places
    BY DEF Places
  <2> QED
    BY <1>2, <2>1, SavedAs
<1> HIDE DEF r
<1>7. job'[j] = r /\ Others(j)
  BY <1>1, <1>2, BecomesJust
<1>8. Flow(r) /\ Due(r) = 0 /\ Due(job[j]) = 0
  BY <1>1, <1>2, <1>6 DEF Flow, Due, IsExport, IsOrder, Charged, IsRenewal
<1>9. LivesInv /\ CreditsAccounted /\ uncharged \in Nat
  BY DEF BooksInv
<1>10. LivesInv'
  BY <1>1, <1>7, <1>9, LivesSame
<1>11. CreditsAccounted'
  <2>1. ASSUME NEW d \in Coverages, d \notin blurred'
        PROVE  granted'[d] - granted[d]
                 = (entry'[d].credit - entry[d].credit)
                     + (Granting(job'[j], d) - Granting(job[j], d))
    <3>1. Granting(job'[j], d) = 0 /\ Granting(job[j], d) = IF d = c THEN 1 ELSE 0
      BY <1>1, <1>6, <1>7 DEF Granting
    <3>2. entry'[d].credit = IF d = c THEN entry[d].credit + 1 ELSE entry[d].credit
      BY <1>1, <1>5, <2>1
    <3>3. entry[d].credit \in Int /\ granted[d] \in Int
      <4>1. entry[d] \in Entries /\ granted[d] \in Nat
        BY <1>2 DEF TypeOK
      <4> QED
        BY <4>1 DEF Entries
    <3> QED
      BY <1>1, <3>1, <3>2, <3>3
  <2>2. blurred \subseteq blurred'
    BY <1>1
  <2> QED
    BY <1>2, <1>7, <1>9, <2>1, <2>2, CreditsStep
<1>12. (revenue' - revenue) + (uncharged' - uncharged) + (Due(r) - Due(job[j]))
         = entry'[c].fee - entry[c].fee
  <2>1. revenue \in Int /\ revenue' = revenue /\ uncharged \in Int /\ uncharged' = uncharged
    BY <1>1, <1>2 DEF TypeOK, BooksInv
  <2>2. Due(r) = 0 /\ Due(job[j]) = 0
    BY <1>8, <1>9
  <2>3. entry'[c].fee = entry[c].fee /\ entry[c].fee \in Int
    BY <1>4, <1>5
  <2> HIDE DEF c
  <2> QED
    BY <2>1, <2>2, <2>3
<1>13. Becomes(j, r) /\ UNCHANGED <<file, boot, unsaid>> /\ uncharged' \in Nat
         /\ blurred \subseteq blurred'
  BY <1>1, <1>9
<1> QED
  BY <1>2, <1>3, <1>5, <1>6, <1>8, <1>10, <1>11, <1>12, <1>13, LedgerStep

-----------------------------------------------------------------------------
(* Writes that end.                                                         *)

LEMMA ResumesAs ==
  ASSUME TypeOK, BooksInv, NEW j \in Jobs, Resumes(j), job[j].at \in {"saveLedger", "saveActive"}
  PROVE  /\ Others(j) /\ Flow(job'[j]) /\ Due(job'[j]) = Due(job[j])
         /\ job'[j].at \notin {"saveLedger", "saveActive", "grant"}
<1>1. job[j] \in Handlers /\ Flow(job[j])
  BY FlowOf
<1>2. CASE job[j].then = "idle"
  <2>1. job'[j] = Idle /\ Others(j)
    BY <1>2, BecomesJust DEF Resumes
  <2>2. Flow(Idle) /\ Due(Idle) = 0 /\ Idle.at = "idle"
    BY DEF Idle, Flow, Due, IsExport, IsOrder, Charged, IsRenewal
  <2>3. Due(job[j]) = 0
    BY <1>1, <1>2 DEF Flow, Due, IsExport, IsOrder, Charged, IsRenewal
  <2> QED
    BY <2>1, <2>2, <2>3
<1>3. CASE job[j].then # "idle"
  <2> DEFINE r == [job[j] EXCEPT !.at = job[j].then, !.then = "idle", !.shot = Nothing]
  <2>1. /\ r.at = job[j].then /\ r.kind = job[j].kind /\ r.filled = job[j].filled
        /\ r.fee = job[j].fee /\ r.tier = job[j].tier
    BY <1>1 DEF Handlers
  <2>2. Becomes(j, r)
    BY <1>3 DEF Resumes
  <2> HIDE DEF r
  <2>3. job'[j] = r /\ Others(j)
    BY <2>2, BecomesJust
  <2>4. r.at \notin {"saveLedger", "saveActive", "grant"}
    BY <1>1, <1>3, <2>1 DEF Flow
  <2>5. Flow(r) /\ Due(r) = Due(job[j])
    BY <1>1, <1>3, <2>1 DEF Flow, Due, IsExport, IsOrder, Charged, IsRenewal
  <2> QED
    BY <2>3, <2>4, <2>5
<1> QED
  BY <1>2, <1>3

LEMMA RevenueStays ==
  ASSUME TypeOK, TypeOK', RevenueAccounted, uncharged \in Nat,
         NEW j \in Jobs, Others(j), Due(job'[j]) = Due(job[j]),
         UNCHANGED <<entry, revenue, uncharged>>,
         unsaid \subseteq unsaid' \cup {"active", "entry"}
  PROVE  RevenueAccounted'
<1>1. Fees(entry') = Fees(entry) /\ Fees(entry) \in Int /\ revenue \in Int
  BY FeesType DEF TypeOK
<1>2. Due(job[j]) \in Int
  BY DEF Due
<1>3. (revenue' - revenue) + (uncharged' - uncharged) + (Due(job'[j]) - Due(job[j]))
        = Fees(entry') - Fees(entry)
  BY <1>1, <1>2
<1> QED
  BY <1>3, RevenueMoves DEF Others

LEMMA EndSaveLedgerBooks ==
  ASSUME TypeOK, TypeOK', BooksInv, NEW j \in Jobs, EndSaveLedger(j)
  PROVE  BooksInv'
<1> DEFINE copy == [file EXCEPT !.entry = job[j].shot.entry]
<1>1. /\ job[j].at = "saveLedger" /\ Resumes(j)
      /\ UNCHANGED <<now, active, entry, boot, revenue, granted, uncharged, blurred>>
      /\ \/ file' = copy /\ Apart("entry", job[j].shot.entry # entry)
         \/ file' = file /\ Apart("entry", TRUE)
  BY DEF EndSaveLedger
<1>2. /\ FlowInv /\ LivesInv /\ EntriesInv /\ BootInv
      /\ RevenueAccounted /\ CreditsAccounted /\ uncharged \in Nat
  BY DEF BooksInv
<1>3. /\ Others(j) /\ Flow(job'[j]) /\ Due(job'[j]) = Due(job[j])
      /\ job'[j].at \notin {"saveLedger", "saveActive", "grant"}
  BY <1>1, ResumesAs
<1>4. copy.entry = job[j].shot.entry /\ copy.active = file.active
  BY DEF TypeOK, Saved
<1> HIDE DEF copy
<1>5. /\ unsaid' \cup {"entry"} = unsaid \cup {"entry"}
      /\ "entry" \notin unsaid' => file' = copy /\ job[j].shot.entry = entry
  BY <1>1 DEF Apart
<1>6. /\ "active" \in unsaid => "active" \in unsaid'
      /\ "revenue" \in unsaid => "revenue" \in unsaid'
      /\ unsaid \subseteq unsaid' \cup {"active", "entry"}
  BY <1>5
<1>7. file'.active = file.active
  BY <1>1, <1>4
<1>8. FlowInv'
  <2>1. NoneIsEmpty(entry') /\ NoneIsEmpty(file'.entry)
    BY <1>1, <1>2, <1>4 DEF FlowInv
  <2> QED
    BY <1>2, <1>3, <2>1, FlowStep
<1>9. LivesInv' /\ BootInv'
  BY <1>1, <1>2, <1>3, <1>6, <1>7, LivesSame, BootSame
<1>10. EntriesInv'
  BY <1>1, <1>4, <1>5 DEF EntriesInv
<1>11. CreditsAccounted'
  BY <1>1, <1>2, <1>3, CreditsSame
<1>12. RevenueAccounted'
  BY <1>1, <1>2, <1>3, <1>6, RevenueStays
<1> QED
  BY <1>1, <1>2, <1>8, <1>9, <1>10, <1>11, <1>12 DEF BooksInv

LEMMA EndSaveActiveBooks ==
  ASSUME TypeOK, TypeOK', BooksInv, NEW j \in Jobs, EndSaveActive(j)
  PROVE  BooksInv'
<1> DEFINE copy == [file EXCEPT !.active = job[j].shot.active]
<1>1. /\ job[j].at = "saveActive" /\ Resumes(j)
      /\ UNCHANGED <<now, active, entry, boot, revenue, granted, uncharged, blurred>>
      /\ \/ file' = copy /\ Apart("active", ~Covers(job[j].shot.active))
         \/ file' = file /\ Apart("active", TRUE)
  BY DEF EndSaveActive
<1>2. /\ FlowInv /\ LivesInv /\ EntriesInv /\ BootInv
      /\ RevenueAccounted /\ CreditsAccounted /\ uncharged \in Nat
  BY DEF BooksInv
<1>3. /\ Others(j) /\ Flow(job'[j]) /\ Due(job'[j]) = Due(job[j])
      /\ job'[j].at \notin {"saveLedger", "saveActive", "grant"}
  BY <1>1, ResumesAs
<1>4. copy.active = job[j].shot.active /\ copy.entry = file.entry
  BY DEF TypeOK, Saved
<1> HIDE DEF copy
<1>5. /\ unsaid' \cup {"active"} = unsaid \cup {"active"}
      /\ "active" \notin unsaid' => file' = copy /\ Covers(job[j].shot.active)
  BY <1>1 DEF Apart
<1>6. /\ "entry" \in unsaid => "entry" \in unsaid'
      /\ "revenue" \in unsaid => "revenue" \in unsaid'
      /\ unsaid \subseteq unsaid' \cup {"active", "entry"}
  BY <1>5
<1>7. file'.entry = file.entry
  BY <1>1, <1>4
<1>8. FlowInv'
  <2>1. NoneIsEmpty(entry') /\ NoneIsEmpty(file'.entry)
    BY <1>1, <1>2, <1>7 DEF FlowInv
  <2> QED
    BY <1>2, <1>3, <2>1, FlowStep
<1>9. EntriesInv' /\ BootInv'
  BY <1>1, <1>2, <1>3, <1>6, <1>7, EntriesSame, BootSame
<1>10. LivesInv'
  BY <1>1, <1>4, <1>5 DEF LivesInv, Covers
<1>11. CreditsAccounted'
  BY <1>1, <1>2, <1>3, CreditsSame
<1>12. RevenueAccounted'
  BY <1>1, <1>2, <1>3, <1>6, RevenueStays
<1> QED
  BY <1>1, <1>2, <1>8, <1>9, <1>10, <1>11, <1>12 DEF BooksInv

-----------------------------------------------------------------------------
(* Steps of no handler.                                                     *)

\* One that leaves the handlers and what is accounted for alone.
LEMMA AccountsStay ==
  ASSUME FlowInv, RevenueAccounted, CreditsAccounted, uncharged \in Nat,
         UNCHANGED <<entry, revenue, job, granted, uncharged, blurred>>,
         file'.entry = file.entry,
         "revenue" \in unsaid <=> "revenue" \in unsaid'
  PROVE  /\ FlowInv' /\ RevenueAccounted' /\ CreditsAccounted' /\ uncharged' \in Nat
<1>1. FlowInv'
  BY DEF FlowInv, Flow, NoneIsEmpty
<1>2. RevenueAccounted'
  <2>1. RevenueAccounted' <=>
          ("revenue" \notin unsaid =>
             revenue + uncharged + Cardinality(Exports) + Cardinality(Orders)
               = Fees(entry) + Cardinality(Renewals))'
    BY RevenueIs, PTL
  <2>2. Exports' = Exports /\ Orders' = Orders /\ Renewals' = Renewals /\ Fees(entry)' = Fees(entry)
    BY DEF Exports, Orders, Renewals, IsExport, IsOrder, Charged, IsRenewal, Fees, FeesOf
  <2> QED
    BY <2>1, <2>2, RevenueIs
<1>3. CreditsAccounted'
  BY DEF CreditsAccounted, IsAt
<1> QED
  BY <1>1, <1>2, <1>3

LEMMA QuietBooks ==
  ASSUME TypeOK, TypeOK', BooksInv,
         \A d \in Coverages : active'[d] = active[d] \/ (active'[d] = 0 /\ active[d] <= now),
         now <= now',
         UNCHANGED <<entry, file, boot, revenue, job, granted, uncharged, blurred, unsaid>>
  PROVE  BooksInv'
<1>1. /\ FlowInv /\ LivesInv /\ EntriesInv /\ BootInv
      /\ RevenueAccounted /\ CreditsAccounted /\ uncharged \in Nat
  BY DEF BooksInv
<1>2. FlowInv' /\ RevenueAccounted' /\ CreditsAccounted' /\ uncharged' \in Nat
  BY <1>1, AccountsStay
<1>3. LivesInv'
  BY <1>1, LivesDropped DEF Saves
<1>4. EntriesInv' /\ BootInv'
  BY <1>1 DEF EntriesInv, BootInv, Saves
<1> QED
  BY <1>2, <1>3, <1>4 DEF BooksInv

LEMMA IdleStepsBooks ==
  ASSUME TypeOK, TypeOK', BooksInv, DropEnded \/ Tick \/ ScrollLog \/ UNCHANGED vars
  PROVE  BooksInv'
<1>1. now \in Int
  BY DEF TypeOK
<1>2. \A d \in Coverages : active'[d] = active[d] \/ (active'[d] = 0 /\ active[d] <= now)
  BY DEF DropEnded, Tick, ScrollLog, vars, books
<1>3. now <= now'
  BY <1>1 DEF DropEnded, Tick, ScrollLog, vars, books
<1>4. UNCHANGED <<entry, file, boot, revenue, job, granted, uncharged, blurred, unsaid>>
  BY DEF DropEnded, Tick, ScrollLog, vars, books, history
<1> QED
  BY <1>2, <1>3, <1>4, QuietBooks

LEMMA ReadFileBooks ==
  ASSUME TypeOK, TypeOK', BooksInv, ReadFile
  PROVE  BooksInv'
<1>1. /\ UNCHANGED <<now, active, entry, file, revenue, job, granted, uncharged, blurred, unsaid>>
      /\ \/ boot.at = "readActive" /\ boot'.at = "takeActive"
         \/ boot.at = "readLedger" /\ boot'.at = "takeLedger"
  BY DEF ReadFile, history
<1>2. /\ FlowInv /\ LivesInv /\ EntriesInv /\ BootInv
      /\ RevenueAccounted /\ CreditsAccounted /\ uncharged \in Nat
  BY DEF BooksInv
<1>3. FlowInv' /\ RevenueAccounted' /\ CreditsAccounted' /\ uncharged' \in Nat
  BY <1>1, <1>2, AccountsStay
<1>4. LivesInv'
  BY <1>1, <1>2 DEF LivesInv, Covers, Saves
<1>5. EntriesInv' /\ BootInv'
  BY <1>1, <1>2 DEF EntriesInv, BootInv, Saves
<1> QED
  BY <1>3, <1>4, <1>5 DEF BooksInv

LEMMA TakeActiveBooks ==
  ASSUME TypeOK, TypeOK', BooksInv, TakeActive
  PROVE  BooksInv'
<1>1. /\ boot.at = "takeActive" /\ boot'.at = "readLedger"
      /\ active' = [c \in Coverages |->
                      IF boot.shot.active[c] > now THEN boot.shot.active[c] ELSE active[c]]
      /\ Apart("active", "active" \in unsaid \/ file.active # boot.shot.active)
      /\ UNCHANGED <<now, entry, file, revenue, job, granted, uncharged, blurred>>
  BY DEF TakeActive
<1>2. /\ FlowInv /\ LivesInv /\ EntriesInv /\ BootInv
      /\ RevenueAccounted /\ CreditsAccounted /\ uncharged \in Nat
  BY DEF BooksInv
<1>3. /\ unsaid' \cup {"active"} = unsaid \cup {"active"}
      /\ "active" \notin unsaid' => "active" \notin unsaid /\ file.active = boot.shot.active
  BY <1>1 DEF Apart
<1>4. ("revenue" \in unsaid <=> "revenue" \in unsaid') /\ ("entry" \in unsaid => "entry" \in unsaid')
  BY <1>3
<1>5. FlowInv' /\ RevenueAccounted' /\ CreditsAccounted' /\ uncharged' \in Nat
  BY <1>1, <1>2, <1>4, AccountsStay
<1>6. LivesInv'
  <2> SUFFICES ASSUME "active" \notin unsaid', ~Saves("saveActive")', NEW c \in Coverages
               PROVE  IF active'[c] # 0 THEN file.active[c] = active'[c]
                      ELSE file.active[c] <= now
    BY <1>1 DEF LivesInv, Covers
  <2>1. file.active = boot.shot.active /\ "active" \notin unsaid /\ ~Saves("saveActive")
    BY <1>1, <1>3 DEF Saves
  <2>2. active[c] # 0 => file.active[c] = active[c]
    BY <1>1, <1>2, <2>1 DEF LivesInv
  <2>3. active'[c] = IF file.active[c] > now THEN file.active[c] ELSE active[c]
    BY <1>1, <2>1
  <2>4. now \in Int /\ now >= 0 /\ file.active[c] \in Int
    <3>1. file.active[c] \in Ends
      BY DEF TypeOK, Saved
    <3> QED
      BY <3>1, LedgerConstants DEF TypeOK, Ends
  <2> QED
    BY <2>2, <2>3, <2>4
<1>7. EntriesInv' /\ BootInv'
  BY <1>1, <1>2, <1>4 DEF EntriesInv, BootInv, Saves
<1> QED
  BY <1>5, <1>6, <1>7 DEF BooksInv

LEMMA TakeLedgerBooks ==
  ASSUME TypeOK, TypeOK', BooksInv, TakeLedger
  PROVE  BooksInv'
<1>1. /\ boot.at = "takeLedger" /\ boot'.at = "ready"
      /\ entry' = [c \in Coverages |->
                     IF boot.shot.entry[c].status # "none" THEN boot.shot.entry[c] ELSE entry[c]]
      /\ Apart("entry", "entry" \in unsaid \/ file.entry # boot.shot.entry)
      /\ UNCHANGED <<now, active, file, revenue, job, granted, uncharged, blurred>>
  BY DEF TakeLedger
<1>2. /\ FlowInv /\ LivesInv /\ EntriesInv /\ BootInv
      /\ RevenueAccounted /\ CreditsAccounted /\ uncharged \in Nat
  BY DEF BooksInv
<1>3. /\ unsaid' \cup {"entry"} = unsaid \cup {"entry"}
      /\ "entry" \notin unsaid' => "entry" \notin unsaid /\ file.entry = boot.shot.entry
  BY <1>1 DEF Apart
<1>4. "revenue" \in unsaid' /\ ("active" \in unsaid => "active" \in unsaid')
        /\ Coverages \subseteq blurred'
  BY <1>1, <1>2, <1>3 DEF BootInv
<1>5. FlowInv'
  BY <1>1, <1>2 DEF FlowInv, Flow, NoneIsEmpty
<1>6. RevenueAccounted' /\ CreditsAccounted' /\ BootInv'
  <2>1. RevenueAccounted' <=>
          ("revenue" \notin unsaid =>
             revenue + uncharged + Cardinality(Exports) + Cardinality(Orders)
               = Fees(entry) + Cardinality(Renewals))'
    BY RevenueIs, PTL
  <2> QED
    BY <1>1, <1>4, <2>1 DEF CreditsAccounted, BootInv
<1>7. LivesInv'
  BY <1>1, <1>2, <1>4 DEF LivesInv, Covers, Saves
<1>8. EntriesInv'
  <2> SUFFICES ASSUME "entry" \notin unsaid', ~Saves("saveLedger")'
               PROVE  file.entry = entry'
    BY <1>1 DEF EntriesInv
  <2>1. file.entry = boot.shot.entry /\ "entry" \notin unsaid /\ ~Saves("saveLedger")
    BY <1>1, <1>3 DEF Saves
  <2>2. \A c \in Coverages : entry[c] # NoEntry => file.entry[c] = entry[c]
    BY <1>1, <1>2, <2>1 DEF EntriesInv
  <2>3. NoneIsEmpty(file.entry)
    BY <1>2 DEF FlowInv
  <2>4. ASSUME NEW c \in Coverages PROVE entry'[c] = file.entry[c]
    BY <1>1, <2>1, <2>2, <2>3 DEF NoneIsEmpty
  <2>5. file.entry \in [Coverages -> Entries] /\ entry' \in [Coverages -> Entries]
    BY DEF TypeOK, Saved
  <2> QED
    BY <2>4, <2>5
<1> QED
  BY <1>1, <1>2, <1>5, <1>6, <1>7, <1>8 DEF BooksInv

LEMMA RestartBooks ==
  ASSUME TypeOK, TypeOK', BooksInv, Restart
  PROVE  BooksInv'
<1>1. /\ active' = NoLives /\ entry' = NoEntries /\ boot'.at = "readActive"
      /\ job' = [j \in Jobs |-> Idle] /\ blurred' = Coverages /\ unsaid' = {"revenue"}
      /\ uncharged' = uncharged
      /\ file' = file \/ file' = TornActive \/ file' = TornLedger
  BY DEF Restart
<1>2. FlowInv /\ uncharged \in Nat
  BY DEF BooksInv
<1>3. NoneIsEmpty(NoEntries)
  BY NothingOK DEF NoneIsEmpty, NoEntries
<1>4. file'.entry = file.entry \/ file'.entry = NoEntries
  BY <1>1 DEF TornActive, TornLedger, TypeOK, Saved
<1>5. FlowInv'
  <2>1. Flow(Idle) /\ Idle.at # "saveLedger"
    BY DEF Flow, Idle
  <2>2. NoneIsEmpty(entry') /\ NoneIsEmpty(file'.entry)
    BY <1>1, <1>2, <1>3, <1>4 DEF FlowInv
  <2>3. \A j \in Jobs : Flow(job'[j]) /\ job'[j].at # "saveLedger"
    BY <1>1, <2>1
  <2> QED
    BY <2>2, <2>3 DEF FlowInv, Flow, NoneIsEmpty
<1>6. LivesInv'
  BY <1>1 DEF LivesInv, NoLives
<1>7. EntriesInv'
  BY <1>1 DEF EntriesInv, NoEntries
<1>8. RevenueAccounted' /\ CreditsAccounted' /\ BootInv'
  <2>1. RevenueAccounted' <=>
          ("revenue" \notin unsaid =>
             revenue + uncharged + Cardinality(Exports) + Cardinality(Orders)
               = Fees(entry) + Cardinality(Renewals))'
    BY RevenueIs, PTL
  <2> QED
    BY <1>1, <2>1 DEF CreditsAccounted, BootInv
<1> QED
  BY <1>1, <1>2, <1>5, <1>6, <1>7, <1>8 DEF BooksInv

LEMMA NothingCollected ==
  ASSUME NEW e, e = NoEntries
  PROVE  Fees(e) = 0
<1> DEFINE f == FeesOf(e)
<1>1. \A c \in Coverages : f[c] = 0
  BY DEF FeesOf, NoEntries, NoEntry
<1> HIDE DEF f
<1>2. SumOf(f, Coverages) = 0
  BY <1>1, SumZero, LedgerConstants
<1> QED
  BY <1>2 DEF f, Fees

LEMMA ResetMemoryBooks ==
  ASSUME TypeOK, TypeOK', BooksInv, NEW j \in Jobs, ResetMemory(j)
  PROVE  BooksInv'
<1> DEFINE r == [job[j] EXCEPT !.at = "remove"]
<1>1. /\ job[j].kind = "reset" /\ job[j].at = "clear" /\ Becomes(j, r)
      /\ active' = NoLives /\ entry' = NoEntries /\ revenue' = 0
      /\ granted' = [c \in Coverages |-> 0] /\ uncharged' = 0
      /\ blurred' = (IF Busy({"mtm"}) \/ boot.at \notin {"fresh", "ready"} THEN Coverages ELSE {})
      /\ unsaid' = unsaid \cup {"active", "entry"}
                      \cup (IF Busy({"export", "order", "renew"}) THEN {"revenue"} ELSE {})
      /\ UNCHANGED <<now, file, boot>>
  BY DEF ResetMemory, IsAt, Goes
<1>2. job[j] \in Handlers /\ Flow(job[j]) /\ FlowInv /\ BootInv
  BY FlowOf DEF BooksInv
<1>3. r.at = "remove" /\ r.kind = "reset" /\ r.filled = job[j].filled /\ ~job[j].filled
  BY <1>1, <1>2 DEF Handlers, Flow
<1> HIDE DEF r
<1>4. job'[j] = r /\ Others(j)
  BY <1>1, BecomesJust
<1>5. FlowInv'
  <2>1. NoneIsEmpty(entry') /\ NoneIsEmpty(file'.entry)
    BY <1>1, <1>2 DEF FlowInv, NoneIsEmpty, NoEntries
  <2>2. Flow(r)
    BY <1>3 DEF Flow
  <2> QED
    BY <1>2, <1>3, <1>4, <2>1, <2>2, FlowStep
<1>6. LivesInv' /\ EntriesInv'
  BY <1>1 DEF LivesInv, EntriesInv
<1>7. BootInv'
  BY <1>1, <1>2 DEF BootInv
<1>8. \A i \in Jobs : job'[i].kind = job[i].kind
  BY <1>1, <1>3, <1>4 DEF Others
<1>9. Cardinality({}) = 0
  BY FS_EmptySet
<1>10. RevenueAccounted'
  <2>1. RevenueAccounted' <=>
          ("revenue" \notin unsaid =>
             revenue + uncharged + Cardinality(Exports) + Cardinality(Orders)
               = Fees(entry) + Cardinality(Renewals))'
    BY RevenueIs, PTL
  <2>2. SUFFICES ASSUME "revenue" \notin unsaid'
                 PROVE  0 + 0 + Cardinality(Exports') + Cardinality(Orders')
                          = Fees(entry') + Cardinality(Renewals')
    BY <1>1, <2>1 DEF Fees, FeesOf
  <2>3. ~Busy({"export", "order", "renew"})
    BY <1>1, <2>2
  <2>4. Exports' = {} /\ Orders' = {} /\ Renewals' = {}
    BY <1>8, <2>3 DEF Busy, Exports, Orders, Renewals, IsExport, IsRenewal, IsOrder, Charged,
                       FlowInv, Flow
  <2>5. Fees(entry') = 0
    BY <1>1, NothingCollected
  <2> QED
    BY <1>9, <2>4, <2>5
<1>11. CreditsAccounted'
  <2> SUFFICES ASSUME NEW c \in Coverages, c \notin blurred'
               PROVE  granted'[c] = entry'[c].credit + Cardinality(Grants(c)')
    BY DEF CreditsAccounted, Grants, IsAt
  <2>1. ~Busy({"mtm"})
    BY <1>1
  <2>2. Grants(c)' = {}
    BY <1>8, <2>1 DEF Busy, Grants, IsAt
  <2>3. granted'[c] = 0 /\ entry'[c].credit = 0
    BY <1>1 DEF NoEntries, NoEntry
  <2> QED
    BY <1>9, <2>2, <2>3
<1>12. uncharged' \in Nat
  BY <1>1
<1> QED
  BY <1>5, <1>6, <1>7, <1>10, <1>11, <1>12 DEF BooksInv

LEMMA RemoveFilesBooks ==
  ASSUME TypeOK, TypeOK', BooksInv, NEW j \in Jobs, RemoveFiles(j)
  PROVE  BooksInv'
<1>1. /\ job[j].kind = "reset" /\ job[j].at = "remove" /\ Stops(j) /\ file' = Nothing
      /\ unsaid' = (unsaid \ {"active", "entry"})
                     \cup (IF Live = {} THEN {} ELSE {"active"})
                     \cup (IF \A c \in Coverages : entry[c] = NoEntry THEN {} ELSE {"entry"})
      /\ UNCHANGED <<now, active, entry, boot, revenue, granted, uncharged, blurred>>
  BY DEF RemoveFiles, IsAt
<1>2. /\ FlowInv /\ BootInv /\ RevenueAccounted /\ CreditsAccounted /\ uncharged \in Nat
      /\ Flow(job[j])
  BY FlowOf DEF BooksInv
<1>3. job'[j] = Idle /\ Others(j) /\ Plain(Idle)
  BY <1>1, StopsJust
<1>4. file'.active = NoLives /\ file'.entry = NoEntries
  BY <1>1 DEF Nothing
<1>5. FlowInv'
  <2>1. NoneIsEmpty(entry') /\ NoneIsEmpty(file'.entry)
    BY <1>1, <1>2, <1>4 DEF FlowInv, NoneIsEmpty, NoEntries
  <2>2. Flow(Idle)
    BY DEF Flow, Idle
  <2> QED
    BY <1>2, <1>3, <2>1, <2>2, FlowStep DEF Plain
<1>6. LivesInv'
  <2> SUFFICES ASSUME "active" \notin unsaid', NEW c \in Coverages
               PROVE  active'[c] = 0 /\ file'.active[c] = 0 /\ 0 <= now'
    BY DEF LivesInv, Covers
  <2>1. Live = {}
    BY <1>1
  <2> QED
    BY <1>1, <1>4, <2>1 DEF Live, NoLives, TypeOK
<1>7. EntriesInv'
  <2> SUFFICES ASSUME "entry" \notin unsaid' PROVE file'.entry = entry'
    BY DEF EntriesInv
  <2>1. \A c \in Coverages : entry[c] = NoEntry
    BY <1>1
  <2> QED
    BY <1>1, <1>4, <2>1 DEF TypeOK, NoEntries
<1>8. BootInv'
  BY <1>1, <1>2 DEF BootInv
<1>9. CreditsAccounted'
  BY <1>1, <1>2, <1>3, CreditsSame DEF Plain
<1>10. RevenueAccounted'
  <2>1. Due(job[j]) = 0 /\ Due(job'[j]) = 0
    BY <1>1, <1>2, <1>3 DEF Due, Flow, Plain, IsExport, IsOrder, Charged, IsRenewal
  <2>2. unsaid \subseteq unsaid' \cup {"active", "entry"}
    BY <1>1
  <2> QED
    BY <1>1, <1>2, <1>3, <2>1, <2>2, RevenueStays
<1> QED
  BY <1>1, <1>2, <1>5, <1>6, <1>7, <1>8, <1>9, <1>10 DEF BooksInv

LEMMA InitBooks == Init => BooksInv
<1> SUFFICES ASSUME Init PROVE BooksInv
  OBVIOUS
<1>1. /\ now = 0 /\ active = NoLives /\ entry = NoEntries /\ revenue = 0
      /\ file = [active |-> active, entry |-> entry]
      /\ boot.at = "fresh" /\ job = [j \in Jobs |-> Idle] /\ granted = [c \in Coverages |-> 0]
      /\ uncharged = 0 /\ blurred = {} /\ unsaid = {}
  BY DEF Init
<1>2. file.active = NoLives /\ file.entry = NoEntries
  BY <1>1
<1>3. \A j \in Jobs : job[j] = Idle
  BY <1>1
<1>4. FlowInv
  <2>1. Flow(Idle) /\ Idle.at # "saveLedger"
    BY DEF Flow, Idle
  <2>2. NoneIsEmpty(entry) /\ NoneIsEmpty(file.entry)
    BY <1>1, <1>2 DEF NoneIsEmpty, NoEntries
  <2> QED
    BY <1>3, <2>1, <2>2 DEF FlowInv
<1>5. LivesInv
  BY <1>1, <1>2 DEF LivesInv, Covers, NoLives
<1>6. EntriesInv /\ BootInv
  BY <1>1, <1>2 DEF EntriesInv, BootInv
<1>7. Cardinality({}) = 0
  BY FS_EmptySet
<1>8. RevenueAccounted
  <2>1. Exports = {} /\ Orders = {} /\ Renewals = {}
    BY <1>3 DEF Exports, Orders, Renewals, IsExport, IsOrder, Charged, IsRenewal, Idle
  <2>2. Fees(entry) = 0
    BY <1>1, NothingCollected
  <2> QED
    BY <1>1, <1>7, <2>1, <2>2, RevenueIs
<1>9. CreditsAccounted
  <2> SUFFICES ASSUME NEW c \in Coverages
               PROVE  granted[c] = entry[c].credit + Cardinality(Grants(c))
    BY DEF CreditsAccounted, Grants
  <2>1. Grants(c) = {}
    BY <1>3 DEF Grants, IsAt, Idle
  <2>2. granted[c] = 0 /\ entry[c].credit = 0
    BY <1>1 DEF NoEntries, NoEntry
  <2> QED
    BY <1>7, <2>1, <2>2
<1>10. uncharged \in Nat
  BY <1>1
<1> QED
  BY <1>4, <1>5, <1>6, <1>8, <1>9, <1>10 DEF BooksInv

LEMMA HandlerBooks ==
  ASSUME LedgerInv, LedgerInv', BooksInv, NEW j \in Jobs,
         \/ ExportStep(j) \/ OrderStep(j) \/ RenewStep(j) \/ ListStep(j) \/ PassStep(j)
         \/ EndSaveLedger(j) \/ EndSaveActive(j) \/ WalkThrows(j)
         \/ StartReset(j) \/ ResetMemory(j) \/ RemoveFiles(j)
  PROVE  BooksInv'
<1>0. TypeOK /\ TypeOK'
  BY DEF LedgerInv
<1>1. ASSUME ExportStep(j) PROVE BooksInv'
  BY <1>0, <1>1, StartsBooks, CheckLogBooks, ActivateBooks, CollectBooks, BookRevenueBooks,
     StopsBooks DEF ExportStep
<1>2. ASSUME OrderStep(j) PROVE BooksInv'
  BY <1>0, <1>2, StartsBooks, RecordOrderBooks, ChargeOrderBooks DEF OrderStep
<1>3. ASSUME RenewStep(j) PROVE BooksInv'
  BY <1>0, <1>3, StartsBooks, BuyRenewalBooks, RecordRenewalBooks DEF RenewStep
<1>4. ASSUME ListStep(j) PROVE BooksInv'
  BY <1>0, <1>4, WalksBooks, ListEndedBooks, EndListBooks DEF ListStep
<1>5. ASSUME PassStep(j) PROVE BooksInv'
  BY <1>0, <1>5, WalksBooks, PassExpiresBooks, PassGoesBooks, PassGrantsBooks, PassRecordsBooks,
     StopsBooks DEF PassStep
<1> QED
  BY <1>0, <1>1, <1>2, <1>3, <1>4, <1>5, EndSaveLedgerBooks, EndSaveActiveBooks, StopsBooks,
     WalksBooks, ResetMemoryBooks, RemoveFilesBooks

LEMMA NextBooks == LedgerInv /\ LedgerInv' /\ BooksInv /\ [Next]_vars => BooksInv'
<1> SUFFICES ASSUME LedgerInv, LedgerInv', BooksInv, [Next]_vars PROVE BooksInv'
  OBVIOUS
<1>0. TypeOK /\ TypeOK'
  BY DEF LedgerInv
<1>1. CASE DropEnded \/ Tick \/ ScrollLog \/ UNCHANGED vars
  BY <1>0, <1>1, IdleStepsBooks
<1>2. CASE Restart \/ ReadFile \/ TakeActive \/ TakeLedger
  BY <1>0, <1>2, RestartBooks, ReadFileBooks, TakeActiveBooks, TakeLedgerBooks
<1> QED
  BY <1>1, <1>2, HandlerBooks DEF Next

LEMMA BooksInvariant == Spec => []BooksInv
<1>1. Init => LedgerInv /\ BooksInv
  BY InitInv, InitBooks
<1>2. (LedgerInv /\ BooksInv) /\ [Next]_vars => (LedgerInv /\ BooksInv)'
  BY NextInv, NextBooks
<1> QED
  BY <1>1, <1>2, PTL DEF Spec

\* What the ledger of coverages says was collected and credited is what the
\* process booked and the audit log says, but for what LedgerAccounted names:
\* fees of orders that were not executed or named no tier, a failure or a restart
\* between the two, and credits written over one another.
THEOREM LedgerIsAccounted == Spec => []LedgerAccounted
<1>1. BooksInv => LedgerAccounted
  BY DEF BooksInv, LedgerAccounted
<1> QED
  BY <1>1, BooksInvariant, PTL

\* However writes, resets and restarts overlap, a process that stops once it
\* has started leaves files from which the next one has the same coverages and
\* the same ledger, unless it stops within a write, one failed, or one ended
\* after a later one.
THEOREM FilesAreKept == Spec => []FilesKept
<1>1. LedgerInv /\ BooksInv => FilesKept
  BY DEF BooksInv, LivesInv, EntriesInv, FilesKept
<1>2. Spec => []LedgerInv
  BY InitInv, NextInv, PTL DEF Spec
<1> QED
  BY <1>1, <1>2, BooksInvariant, PTL

=============================================================================
