SPECIFICATION RuntimeSpec
CONSTANTS
  Positions = {p1, p2}
  MaxHops = 1
  Cycles = {t1}
  Closers = {}
  Managers = {m1, m2}
  MaxFaults = 1
SYMMETRY Alike
CONSTRAINT Scope
INVARIANTS
  OpenRowIsHeld
  ShortOnlyByOverlap
  BookedOncePerTick
  ManagerInv
CHECK_DEADLOCK FALSE
