SPECIFICATION FairSpec
CONSTANTS
  Protections = {p1}
  Cycles = {t1}
  Requests = {r1}
  Resolvers = {x1}
  MaxTenorDays = 2
  DayTicks = 2
  GraceTicks = 1
  Horizon = 4
  MaxFaults = 1
INVARIANT NotBilledAhead
PROPERTIES
  ExpiredIsClosed
  ScheduleIsSettled
