SPECIFICATION TransSpec
CONSTANTS
  Type = {"a", "b", "c", "d", "e", "f"}
  NoType = "null"
  Graphs <- MCGraphs
  MaxConfigured = 0
INVARIANTS
  ConstKept
CHECK_DEADLOCK FALSE
