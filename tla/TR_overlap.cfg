SPECIFICATION TreasurySpec
CONSTANTS
  Protections = {p, q}
  Passes = {j, k}
  LastDate = 2
  MaxFailures = 1
SYMMETRY Alike
INVARIANTS
  TreasuryAccounted
CHECK_DEADLOCK FALSE
