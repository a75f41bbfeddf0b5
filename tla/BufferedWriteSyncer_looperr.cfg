SPECIFICATION Spec
CONSTANTS
  p1 = p1
  p2 = p2
  m1 = m1
  m2 = m2
  m3 = m3
  Procs = {p1, p2}
  Msgs = {m1}
  MsgLen <- MCMsgLen
  Size = 2
  DefaultSize = 2
  WSMayFail = TRUE
INVARIANT LoopErrorsReturned
