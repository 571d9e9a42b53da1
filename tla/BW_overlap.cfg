SPECIFICATION Spec
CONSTANTS
  Protections = {p1}
  Cycles = {t1, t2}
  Requests = {r1}
  Resolvers = {}
  MaxTenorDays = 2
  DayTicks = 1
  GraceTicks = 0
  Horizon = 2
  MaxFaults = 1
SYMMETRY Alike
INVARIANTS
  BiweeklyInv
  TriggerPaidOnce
  TriggerCloseIsPaid
PROPERTY BilledOnce
