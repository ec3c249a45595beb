SPECIFICATION FairSpec
CONSTANTS
  A = A
  B = B
  Struct = {A, B}
  Hooked = {A}
  Static = {B}
  Opaque = Opaque
  NotYet = NotYet
  Lists <- AnyLists
  MainCalls = {"layoutstruct", "complete"}
  HookCalls = {"layoutstruct", "getentries", "complete"}
  HooksFail = TRUE
  MaxCalls = 3
INVARIANTS LayoutsFinite InitializedOnce
PROPERTIES FailedStaysFailed Returns
