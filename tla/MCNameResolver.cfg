SPECIFICATION Spec
CONSTANTS
  Node <- MCNode
  NoNode = "null"
  Name = {"X", "Y"}
  Programs <- MCPrograms
  Queries <- MCQueries
  MaxDepth = 151
INVARIANTS
  TypeOK
  AnswerFollowsLookup
  OverflowByInheritance
CHECK_DEADLOCK FALSE
