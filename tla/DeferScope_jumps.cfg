SPECIFICATION Spec
CONSTANTS
  Label = {l}
  Kinds = {"block", "while", "if", "cond", "repeat"}
  MaxStats = 6
  MaxNest = 2
  MaxWithRepeat = 5
CONSTRAINT Small
INVARIANTS DepthsAgree JumpsUnwind EmittedWell
PROPERTY ConditionsDoNotDefer
