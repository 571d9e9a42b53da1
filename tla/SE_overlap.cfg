SPECIFICATION PoolSpec
CONSTANTS
  Runs = {r, s}
  AdminRequests = {a, b}
  Amounts = {4}
  Results <- PremiumAndPayout
  Lockup = 1
  Shares = {1}
  LastDay = 2
  MaxEntries = 3
  MaxFaults = 1
SYMMETRY Alike
INVARIANT PoolInv
CHECK_DEADLOCK FALSE
