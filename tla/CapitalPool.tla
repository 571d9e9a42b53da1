----------------------------- MODULE CapitalPool -----------------------------
(***************************************************************************)
(* A capital pool's ledger (capitalPoolLedger.ts, capitalPoolSchema.ts),    *)
(* the settlement runs paid out of it (settlementRunner.ts) and the admin's *)
(* routes over both (pilot/routes.ts).                                      *)
(*                                                                          *)
(* The ledger is a table of signed amounts.  Only its sums are ever read,   *)
(* by day and by whether an entry is a result (premium, payout, hedge) or a *)
(* movement of funds (deposit, withdrawal, distribution), so those sums are *)
(* kept.  A distribution is a quarter, three quarters or the whole of a     *)
(* period's results: amounts are in quarters of the unit of a result.       *)
(***************************************************************************)
EXTENDS Integers, FiniteSetsExt

CONSTANTS
  Runs,          \* ids of pilot_settlement_runs
  AdminRequests, \* requests of the admin under way together
  Amounts,       \* amounts of a deposit or of a withdrawal
  Results,       \* signed amounts of a result: a premium, a payout, a hedge
  Lockup,        \* days an entry must have stood to be withdrawn
  LastDay,       \* bound on the days that are followed
  Shares,        \* SETTLEMENT_PCT in quarters: weekly_25, end_of_period_75, manual
  MaxEntries,    \* bound on the deposits, results and withdrawals
  MaxFaults      \* bound on failed statements and restarts

NoRun == "no run"

ASSUME RunAssumption == NoRun \notin Runs
ASSUME ShareAssumption == Shares \subseteq {1, 3, 4}
ASSUME AmountAssumption == Amounts \subseteq Nat \ {0} /\ Results \subseteq Int
ASSUME BoundAssumption ==
  /\ Lockup \in Nat /\ LastDay \in Nat \ {0}
  /\ MaxEntries \in Nat /\ MaxFaults \in Nat

Days == 1..LastDay

VARIABLES
  today,
  moved,        \* sum of the day's deposits, withdrawals and distributions
  result,       \* sum of the day's premiums, payouts and hedge entries
  run,          \* pilot_settlement_runs
  request,      \* local state of the requests
  distributed,  \* history: distribution entries written for a run
  disputed,     \* history: runs approved by two requests at once, or by one
                \* that was cut off between the entry and the status
  entries,
  faults

poolVars == <<today, moved, result, run, request, distributed, disputed, entries, faults>>

\* paid, failed and cancelled are in the table's CHECK and never written.
Status == {"absent", "draft", "approved"}

Absent == [status |-> "absent", distributable |-> 0]

Stages == {"idle", "draft", "distribute", "approve", "withdraw"}

Idle == [at |-> "idle",
         run     |-> NoRun,
         amount  |-> 0,     \* to be drafted, or to be withdrawn
         balance |-> 0]     \* the current balance, read with the limit

PoolInit ==
  /\ today = 1
  /\ moved = [d \in Days |-> 0]
  /\ result = [d \in Days |-> 0]
  /\ run = [r \in Runs |-> Absent]
  /\ request = [q \in AdminRequests |-> Idle]
  /\ distributed = [r \in Runs |-> 0]
  /\ disputed = {}
  /\ entries = 0
  /\ faults = 0

Becomes(q, next) == request' = [request EXCEPT ![q] = next]
Is(q, at) == request[q].at = at

Fault == /\ faults < MaxFaults
         /\ faults' = faults + 1

(***************************************************************************)
(* The ledger.                                                              *)
(***************************************************************************)
SumOver(days) == MapThenSumSet(LAMBDA d : moved[d] + result[d], days)

Balance == SumOver(Days)

\* The view sums what stood for the lockup, whatever its sign: what was taken
\* out since then is not subtracted.
Withdrawable == SumOver({d \in Days : d + Lockup <= today})

Deposit(n) ==
  /\ entries < MaxEntries
  /\ entries' = entries + 1
  /\ moved' = [moved EXCEPT ![today] = @ + n]
  /\ UNCHANGED <<today, result, run, request, distributed, disputed, faults>>

\* an activation, a trigger or a sale is booked
Book(n) ==
  /\ entries < MaxEntries
  /\ entries' = entries + 1
  /\ result' = [result EXCEPT ![today] = @ + n]
  /\ UNCHANGED <<today, moved, run, request, distributed, disputed, faults>>

(***************************************************************************)
(* Withdrawals: the limit is read, tested, and the entry inserted.          *)
(***************************************************************************)
Limit(respectLockup) == IF respectLockup THEN Withdrawable ELSE Balance

ReadBalance(q, n, respectLockup) ==
  /\ Is(q, "idle")
  /\ entries < MaxEntries
  /\ entries' = entries + 1
  /\ n <= Limit(respectLockup)
  /\ Becomes(q, [Idle EXCEPT !.at = "withdraw", !.amount = n, !.balance = Balance])
  /\ UNCHANGED <<today, moved, result, run, distributed, disputed, faults>>

InsertWithdrawal(q) ==
  /\ Is(q, "withdraw")
  /\ moved' = [moved EXCEPT ![today] = @ - request[q].amount]
  /\ Becomes(q, Idle)
  /\ UNCHANGED <<today, result, run, distributed, disputed, entries, faults>>

(***************************************************************************)
(* Settlement runs.                                                         *)
(***************************************************************************)
NetPnL(first, end) == MapThenSumSet(LAMBDA d : result[d], {d \in Days : first <= d /\ d < end})

Distributable(net, share) == IF net > 0 THEN (net * share) \div 4 ELSE 0

\* any period, over or not, settled before or not
ComputeTotals(q, first, end, share) ==
  /\ Is(q, "idle")
  /\ first < end
  /\ Becomes(q, [Idle EXCEPT !.at = "draft",
                             !.amount = Distributable(NetPnL(first, end), share)])
  /\ UNCHANGED <<today, moved, result, run, distributed, disputed, entries, faults>>

InsertRun(q, r) ==
  /\ Is(q, "draft")
  /\ run[r].status = "absent"
  /\ run' = [run EXCEPT ![r] = [status |-> "draft", distributable |-> request[q].amount]]
  /\ Becomes(q, Idle)
  /\ UNCHANGED <<today, moved, result, distributed, disputed, entries, faults>>

Approving(r) == {q \in AdminRequests : request[q].run = r}

\* (fault) a run is taken whatever its status
ReadRunAnyStatus(q, r) ==
  /\ Is(q, "idle")
  /\ run[r].status # "absent"
  /\ Becomes(q, [Idle EXCEPT !.at = IF run[r].distributable > 0 THEN "distribute" ELSE "approve",
                             !.run = r])
  /\ disputed' = IF Approving(r) = {} THEN disputed ELSE disputed \cup {r}
  /\ UNCHANGED <<today, moved, result, run, distributed, entries, faults>>

\* An approved run is answered as it is.
ReadRun(q, r) ==
  /\ Is(q, "idle")
  /\ run[r].status = "draft"
  /\ Becomes(q, [Idle EXCEPT !.at = IF run[r].distributable > 0 THEN "distribute" ELSE "approve",
                             !.run = r])
  /\ disputed' = IF Approving(r) = {} THEN disputed ELSE disputed \cup {r}
  /\ UNCHANGED <<today, moved, result, run, distributed, entries, faults>>

InsertDistribution(q) ==
  LET r == request[q].run IN
  /\ Is(q, "distribute")
  /\ moved' = [moved EXCEPT ![today] = @ - run[r].distributable]
  /\ distributed' = [distributed EXCEPT ![r] = @ + 1]
  /\ Becomes(q, [request[q] EXCEPT !.at = "approve"])
  /\ UNCHANGED <<today, result, run, disputed, entries, faults>>

\* The update names the run, not the status it was read in.
Approve(q) ==
  /\ Is(q, "approve")
  /\ run' = [run EXCEPT ![request[q].run].status = "approved"]
  /\ Becomes(q, Idle)
  /\ UNCHANGED <<today, moved, result, distributed, disputed, entries, faults>>

(***************************************************************************)
(* Failures and the clock.                                                  *)
(***************************************************************************)
\* Of the requests that are cut off, those whose run has its entry already.
CutOff(qs) == {request[q].run : q \in {p \in qs : Is(p, "approve")}}

\* A statement throws and the request is answered 503.
Fail(q) ==
  /\ ~Is(q, "idle")
  /\ Fault
  /\ Becomes(q, Idle)
  /\ disputed' = disputed \cup CutOff({q})
  /\ UNCHANGED <<today, moved, result, run, distributed, entries>>

RestartPool ==
  /\ Fault
  /\ request' = [q \in AdminRequests |-> Idle]
  /\ disputed' = disputed \cup CutOff(AdminRequests)
  /\ UNCHANGED <<today, moved, result, run, distributed, entries>>

NextDay ==
  /\ today < LastDay
  /\ today' = today + 1
  /\ UNCHANGED <<moved, result, run, request, distributed, disputed, entries, faults>>

RequestStep(q) ==
  \/ \E n \in Amounts, respectLockup \in BOOLEAN : ReadBalance(q, n, respectLockup)
  \/ InsertWithdrawal(q)
  \/ \E first \in Days, end \in 2..LastDay + 1, share \in Shares : ComputeTotals(q, first, end, share)
  \/ \E r \in Runs : InsertRun(q, r) \/ ReadRun(q, r)
  \/ InsertDistribution(q) \/ Approve(q) \/ Fail(q)

PoolNext ==
  \/ \E n \in Amounts : Deposit(n)
  \/ \E n \in Results : Book(n)
  \/ \E q \in AdminRequests : RequestStep(q)
  \/ RestartPool \/ NextDay

PoolSpec == PoolInit /\ [][PoolNext]_poolVars

-----------------------------------------------------------------------------
PoolTypeOK ==
  /\ today \in Days
  /\ moved \in [Days -> Int] /\ result \in [Days -> Int]
  /\ run \in [Runs -> [status : Status, distributable : Nat]]
  /\ request \in [AdminRequests -> [at : Stages, run : Runs \cup {NoRun},
                                   amount : Nat, balance : Int]]
  /\ distributed \in [Runs -> Nat]
  /\ disputed \subseteq Runs
  /\ entries \in Nat
  /\ faults \in Nat

(***************************************************************************)
(* Safety.                                                                  *)
(***************************************************************************)
\* An approved run that had something to distribute was distributed; and it was
\* distributed once, unless two approvals of it were under way together or one
\* was cut off after its entry and the run was approved again.
DistributedOnce ==
  \A r \in Runs :
    /\ run[r].status = "approved" /\ run[r].distributable > 0 => distributed[r] > 0
    /\ distributed[r] > 1 => r \in disputed
    /\ distributed[r] > 0 => run[r].status # "absent" /\ run[r].distributable > 0

\* Every draft distributes a natural number, whatever sum the days of its period
\* come to, the ledger stays one of integers, and DistributedOnce holds.
PoolInv == PoolTypeOK /\ DistributedOnce

\* A withdrawal that is let through was covered by the balance read with its
\* limit: routes.ts has the lockup as the stricter limit, which the admin may
\* waive.
WithdrawalCovered ==
  \A q \in AdminRequests : Is(q, "withdraw") => request[q].amount <= request[q].balance
=============================================================================
