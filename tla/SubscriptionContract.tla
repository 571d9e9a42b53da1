------------------------ MODULE SubscriptionContract ------------------------
(***************************************************************************)
(* What a biweekly subscription promises its trader, as db.ts says of       *)
(* markProtectionClosed: it is closed once, whoever closes it, "without     *)
(* double-billing", and the one settlement row of the ledger bills the days *)
(* the close recorded.  The settlement is best effort: it may be missing.   *)
(***************************************************************************)
EXTENDS Naturals, Sequences

CONSTANTS Protections, MaxTenorDays

VARIABLES
  phase,      \* a subscription is absent, then open, then closed
  bill,       \* days billed, recorded by the close
  invoices    \* days of each subscription_close_settlement row, oldest first

contractVars == <<phase, bill, invoices>>

ContractInit ==
  /\ phase = [p \in Protections |-> "absent"]
  /\ bill = [p \in Protections |-> 0]
  /\ invoices = [p \in Protections |-> <<>>]

OpenContract(p) ==
  /\ phase[p] = "absent"
  /\ phase' = [phase EXCEPT ![p] = "open"]
  /\ UNCHANGED <<bill, invoices>>

CloseContract(p) ==
  /\ phase[p] = "open"
  /\ phase' = [phase EXCEPT ![p] = "closed"]
  /\ \E d \in 1..MaxTenorDays : bill' = [bill EXCEPT ![p] = d]
  /\ UNCHANGED invoices

Invoice(p) ==
  /\ phase[p] = "closed"
  /\ invoices[p] = <<>>
  /\ invoices' = [invoices EXCEPT ![p] = <<bill[p]>>]
  /\ UNCHANGED <<phase, bill>>

ContractNext ==
  \E p \in Protections : OpenContract(p) \/ CloseContract(p) \/ Invoice(p)

ContractSpec == ContractInit /\ [][ContractNext]_contractVars
=============================================================================
