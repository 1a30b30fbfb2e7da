SPECIFICATION Spec
CONSTANTS
  QType <- MCQType
  NullType = "none"
  Programs <- MCPrograms
  MaxDepth = 127
INVARIANTS
  TypeOK
  AlwaysPlaced
  NoOverflow
  EndOnlyAtRecords
  ComponentsMapped
CHECK_DEADLOCK FALSE
