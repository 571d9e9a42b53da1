SPECIFICATION Spec
CONSTANTS
  Coverages = {c}
  NoCoverage = none
  Jobs = {j, k}
  Quoted = {0, 2}
  Positions = 2
  MaxTime = 2
  MaxFee = 2
  MaxCredit = 2
  MaxIncidents = 1
SYMMETRY Alike
CONSTRAINT Scope
INVARIANTS
  
  
  FilesKept
CHECK_DEADLOCK FALSE
