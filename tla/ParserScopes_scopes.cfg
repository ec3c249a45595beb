SPECIFICATION Spec
CONSTANTS
  e = e
  l1 = l1
  l2 = l2
  None = None
  Plain = Plain
  Names = {x}
  Keywords = {e}
  Languages = {l1, l2}
  EntryPoints <- MCEntryPoints
  MaxLevels = 9
  MaxParses = 2
  Fuel <- MCFuel
INVARIANTS InTerraIsTop MissedOnlyInHeaders CapturedAreLocals EntryPointsMatch
PROPERTY StaleOnlyAfterUntil
SYMMETRY MCSymmetry
CHECK_DEADLOCK FALSE
