SPECIFICATION FairSpec
CONSTANTS
  f1 = f1
  f2 = f2
  f3 = f3
  x = x
  g = g
  h = h
  Fn = {f1, f2, f3, x}
  Gv = {g, h}
  Extern = {x}
  Optimize = TRUE
  Programs <- AllPrograms
INVARIANTS TypeOK CalleesOptimized NothingLeftBehind OneGlobal
PROPERTIES ImplementsSccOrder EmissionEnds
