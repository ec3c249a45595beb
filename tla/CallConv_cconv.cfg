SPECIFICATION Spec
CONSTANTS
  Targets <- AllTargets
  Returns <- ReturnsOn
  Signatures <- SignaturesOn
INVARIANTS Delivered AttributesLand SameAsC
CHECK_DEADLOCK FALSE
