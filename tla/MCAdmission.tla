---------------------------- MODULE MCAdmission ----------------------------
EXTENDS Admission, TLC
Third  == CHOOSE q \in Requests : TRUE
Couple == Requests \ {Third}
Alike  == Permutations(Couple)

About(q) == IF row[q].status = "absent" THEN req[q] ELSE row[q]
OneCell  == \A q \in Requests : At(q, "idle") \/ About(q).cell = Idle.cell
OnePair  == \A q \in Requests : At(q, "idle") \/ About(q).pair = Idle.pair
Named    == \A q \in Requests : At(q, "idle") \/ About(q).print # NoPrint
Quiet    == events = <<>> /\ incidents = 0

\* What is followed: two requests of one pair for one cell, beside triggers,
\* closes, the operator and a restart; and without these two requests of any
\* pairs, and requests of one pair and a fingerprint for any cell, a third one
\* arriving once another has ended, until a repeat is refused.
Scope ==
  \/ /\ At(Third, "idle")
     /\ OneCell
     /\ Quiet \/ OnePair
     /\ \A c \in Cells : cell[c].enabled \/ c = Idle.cell
  \/ /\ Quiet
     /\ At(Third, "idle") \/ \E q \in Couple : At(q, "end")
     /\ Named /\ OnePair
     /\ \A f \in Fingerprints : print[f].strikes = 0
=============================================================================
