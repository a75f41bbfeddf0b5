SPECIFICATION Spec
CONSTANTS
  p1 = p1
  p2 = p2
  Procs = {p1, p2}
  Depth = 2
  MaxChanges = 0
  MayPanic = FALSE
CHECK_DEADLOCK FALSE
INVARIANTS NoTornRead
