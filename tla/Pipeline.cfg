SPECIFICATION PSpec
CONSTANTS
  p1 = p1
  p2 = p2
  m1 = m1
  m2 = m2
  m3 = m3
  Procs = {p1, p2}
  Msgs = {m1, m2, m3}
  MsgLen <- MCMsgLen
  Size = 0
  DefaultSize = 2
  WSMayFail = TRUE
  Levels <- MCLevels
SYMMETRY ProcSymmetry
INVARIANTS Conservation WholeEntries FlushedOnReturn NoDoubleClose LoopEndedOnReturn
PROPERTIES TerminalIsDurable NoHole RefinesEntryLog
