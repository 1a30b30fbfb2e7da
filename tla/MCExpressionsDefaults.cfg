SPECIFICATION Spec
CONSTANTS
  Expr = {1, 2, 3, 4, 5}
  Root = 1
  Trees <- MCTrees
INVARIANTS
  DefaultsLeftOut
CHECK_DEADLOCK FALSE
