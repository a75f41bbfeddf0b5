SPECIFICATION Spec
CONSTANTS
  Nil = Nil
  MaxSets = 2
  Thresholds <- MCThresholds
  Parts = {"sugared", "slog", "lines", "wide", "deep", "strings", "metadata", "values", "errors", "grpc"}
INVARIANTS EachArgumentOnce ScalarsInPlace LinesAsReference EncodersAgree StringsReadBack MetadataInLine ValueAsPassed CausesTold OneEntryPerCall
CHECK_DEADLOCK FALSE
