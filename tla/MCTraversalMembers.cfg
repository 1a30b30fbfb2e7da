SPECIFICATION Spec
CONSTANTS
  Decl = {"tu", "a", "b", "c", "d", "e", "f", "g", "h", "k", "l", "m", "n",
          "o", "p", "q", "t", "w", "x", "y", "z"}
  NoDecl = "none"
  Unit = "tu"
  Programs <- MCPrograms
INVARIANT
  MembersCaptured
CHECK_DEADLOCK FALSE
