SPECIFICATION Spec
CONSTANTS
  a = a
  b = b
  c = c
  Vars <- AllVars
  SmallArrays <- Small
  MaxCode = 6
  MaxBlocks = 3
SYMMETRY SameKind
INVARIANTS CopiesAgree
CHECK_DEADLOCK FALSE
