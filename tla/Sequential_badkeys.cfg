SPECIFICATION Spec
CONSTANTS
  Nil = Nil
  MaxSets = 2
  Thresholds <- MCThresholds
  Parts = {"sugared"}
INVARIANTS BadKeysPanic
CHECK_DEADLOCK FALSE
