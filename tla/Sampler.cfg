SPECIFICATION Spec
CONSTANTS
  p1 = p1
  p2 = p2
  p3 = p3
  ka = ka
  kb = kb
  kc = kc
  kd = kd
  c1 = c1
  Procs = {p1, p2}
  Keys = {ka, kb, kc, kd}
  EnabledKeys = {ka, kb, kc}
  Buckets = {c1}
  Bucket <- MCBucket
  Tick = 2
  First = 3
  Thereafter = 2
  ClockSteps <- BothWays
  MaxTime = 3
  MaxCalls = 5
CHECK_DEADLOCK FALSE
SYMMETRY Symmetry
INVARIANTS OverSampling UnderSampling ExactWhenSequential
PROPERTIES TicksDisjoint
