------------------------- MODULE BiweeklyProperties -------------------------
(***************************************************************************)
(* What the biweekly subscription must do, whoever ends it.                 *)
(***************************************************************************)
EXTENDS BiweeklySubscription

Contract == INSTANCE SubscriptionContract WITH
  phase    <- [p \in Protections |-> IF ~Exists(p) THEN "absent"
                                     ELSE IF Closed(p) THEN "closed" ELSE "open"],
  bill     <- [p \in Protections |-> row[p].days],
  invoices <- settlements

\* The close handler implements the contract: of a monitor cycle, another
\* cycle, a trader and an admin that all close one protection, one closes it,
\* and the settlement it books bills the days in the row
\* (handleBiweeklyClose, "Idempotent: if the protection was already closed,
\* returns the prior close result without writing again").
BilledOnce == Contract!ContractSpec

\* A protection is paid for at most one trigger, though cycles overlap and
\* each lists candidates on its own (patchProtectionForStatus).
TriggerPaidOnce ==
  \A p \in Protections : triggerDue[p] <= 1 /\ poolPayouts[p] <= 1

\* A protection closed by its trigger is owed its payout, whatever failed on
\* the way: the close "runs AFTER trigger persistence".
TriggerCloseIsPaid ==
  \A p \in Protections : row[p].by = "trigger" => triggerDue[p] = 1

\* Whoever closes it but an admin, a protection is billed no day that had not
\* begun, grace included, and its whole tenor only when that has passed:
\* however late, early or often the sweeps run, whatever instant they bill at.
NotBilledAhead ==
  \A p \in Protections :
    /\ (row[p].by \in {"user_close", "trigger"} /\ row[p].days > 1) =>
         clock > row[p].created + (row[p].days - 1) * DayTicks + GraceTicks
    /\ row[p].by = "natural_expiry" => clock >= row[p].created + Tenor

\* A protection that reaches its maximum tenor is closed, also when a trigger
\* fired and its close failed, or when the resolver got there first.
ExpiredIsClosed ==
  \A p \in Protections :
    (Exists(p) /\ clock >= row[p].created + Tenor) ~> Closed(p)

\* A scheduled close that comes due is carried out, unless it is withdrawn or
\* the protection stops being active (a trigger, the resolver) before.
ScheduleIsSettled ==
  \A p \in Protections :
    (row[p].status = "active" /\ row[p].effective \in 1..clock) ~>
      (row[p].status # "active" \/ row[p].effective = 0)
=============================================================================
