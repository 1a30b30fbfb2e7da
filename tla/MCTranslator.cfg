SPECIFICATION Spec
CONSTANTS
  Decl = {"N", "M", "L", "S", "T", "B", "D", "U", "E", "e", "W", "X", "f", "m", "g", "v",
          "s", "t", "u", "c"}
  Builtin = "int"
  Untranslatable = "m128"
  Programs <- MCPrograms
INVARIANTS
  TypeOK
  PlacedOnce
  PlacedMeansFilled
  NothingLost
  SourceOrder
  MembersComplete
  OneHome
PROPERTIES
  Termination
  BindingsSpec
CHECK_DEADLOCK FALSE
