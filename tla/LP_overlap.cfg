SPECIFICATION Spec
CONSTANTS
  Protections = {p, s}
  Root = p
  Ageing = {p}
  Jobs = {j, k}
  MaxIncidents = 1
SYMMETRY Alike
INVARIANTS
  ProtectionInv
  HedgeSoldOnce
  PayoutAccounted
CHECK_DEADLOCK FALSE
