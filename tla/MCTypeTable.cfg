SPECIFICATION Spec
CONSTANTS
  Type = {"a", "b", "c", "d", "e", "f", "g"}
  NoType = "null"
  Graphs <- MCGraphs
  MaxConfigured = 1
INVARIANTS
  TypeOK
  TemplatesSettled
PROPERTIES
  DecisionsStick
  NamesSurvive
CHECK_DEADLOCK FALSE
