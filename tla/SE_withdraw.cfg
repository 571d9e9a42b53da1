SPECIFICATION PoolSpec
CONSTANTS
  Runs = {r}
  AdminRequests = {a}
  Amounts = {4}
  Results = {4}
  Lockup = 2
  Shares = {1, 3}
  LastDay = 3
  MaxEntries = 3
  MaxFaults = 0
INVARIANT WithdrawalCovered
CHECK_DEADLOCK FALSE
