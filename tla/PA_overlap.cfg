SPECIFICATION Spec
CONSTANTS
  Requests = {r1, r2, r3}
  OneDayQuotes = {a, b, c}
  BiweeklyQuotes = {w}
  Connections = 2
  DailyCap = 2
  AggregateCap = 1
  HedgeCap = 1
  MaxIncidents = 1
SYMMETRY Alike
INVARIANTS
  TypeOK
  QuoteBuysOnce
  CapacityAccounted
  CapsExceededOnlyByOverlap
  HedgeAccounted
