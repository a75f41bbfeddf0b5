SPECIFICATION MCSpec
CONSTANTS
  p1 = p1
  p2 = p2
  m1 = m1
  m3 = m3
  Parts = {"lazy", "syncer"}
  Procs = {p1, p2}
  Depth = 2
  MaxChanges = 1
  MayPanic = TRUE
CHECK_DEADLOCK FALSE
INVARIANTS FieldsOnce SameSnapshot
PROPERTIES LogReturns StopReturns EventuallyFlushed
