SPECIFICATION Spec
CONSTANTS
  Requests = {r1, r2, r3}
  Cells = {c1, c2}
  Pairs = {x, y}
  Fingerprints = {f}
  Caps = {1}
  MaxTime = 2
  MaxInFlight = 2
  MaxTriggers = 1
  MaxIncidents = 1
  DayLength = 1
  Layer1Window = 2
  Layer2Base = 1
  Layer2JitterMax = 1
  Layer3Cooldown = 2
  SurchargeDuration = 3
  StrikeThreshold = 2
  SurgeMax = 0
  SurgePause = 2
  MinSamples = 1
  HaltPct = 70
  ThrottlePct = 85
  LowPerDay = 1
  LossKill = 100
  RealisedPct = {75}
CONSTRAINT Scope
SYMMETRY Alike
INVARIANTS
  OpenedOncePerPair
  ThrottleExceededOnlyByOverlap
  CooldownsHold
  RepeatsSpaced
  AdmissionInv
CHECK_DEADLOCK FALSE
