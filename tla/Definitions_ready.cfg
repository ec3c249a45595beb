SPECIFICATION Spec
CONSTANTS
  Fn = {f1, f2}
  Gv = {g}
  Bodies <- SmallBodies
  Initializers <- Plain
  Unit = {u1, u2}
  MainOps = {"adddefinition", "resetdefinition", "setinitializer", "addvalue"}
  HookOps = {"adddefinition", "addvalue"}
  MaxOps = 4
SYMMETRY Symmetry
INVARIANTS TypeOK ReadyClosed EmittedDefined CodeIsCurrent
