SPECIFICATION TransSpec
CONSTANTS
  Type = {"a", "b", "c", "d", "e", "f"}
  NoType = "null"
  Graphs <- MCGraphs
  MaxConfigured = 1
INVARIANTS
  TransTypeOK
  NodeMatchesStrategy
  FailsOnlyIfConfigured
  IndirectionKept
PROPERTIES
  UsesTheTable
  Ends
CONSTRAINT FewConfigured
CHECK_DEADLOCK FALSE
