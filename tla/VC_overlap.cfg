SPECIFICATION Spec
CONSTANTS
  Positions = {p1, p2, p3}
  MaxHops = 1
  Cycles = {t1, t2}
  Closers = {c1}
  MaxFaults = 1
SYMMETRY Alike
CONSTRAINT Scope
INVARIANTS
  LifecycleInv
  OncePerHandler
  BilledIsTerminal
  TriggeredIsPaid
  VenueLegAccounted
  LegsReleased
  HopsCountClaims
  ActiveIsHedged
PROPERTY DirectionFixed
CHECK_DEADLOCK FALSE
