SPECIFICATION Spec
CONSTANTS
  Jobs = {j, k}
  Size = 2
  Attempts = 2
  Cooldown = 1
  MaxTime = 1
  MaxBook = 2
  MaxApart = 4
  MaxIncidents = 1
SYMMETRY Alike
CONSTRAINT Scope
INVARIANTS
  BookInv
  SpacedByCooldown
CHECK_DEADLOCK FALSE
