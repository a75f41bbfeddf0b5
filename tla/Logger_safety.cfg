SPECIFICATION MCSpec
CONSTANTS
  p1 = p1
  p2 = p2
  a1 = a1
  a2 = a2
  Procs = {p1, p2}
  Nodes <- MCNodes
  Kind <- MCKind
  Kids <- MCKids
  Gate <- MCGate
  Atoms = {a1, a2}
  LevelValues = {0, 6}
  EntryLevels = {0, 3, 4, 5}
  CEs = {"c1", "c2"}
  Options <- MCOptions
  MayFail = TRUE
CHECK_DEADLOCK FALSE
SYMMETRY ProcSymmetry
INVARIANTS PoolSafe TerminatesIffTerminal Delivery DurableBeforeTermination
