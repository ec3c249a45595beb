SPECIFICATION FairSpec
CONSTANTS
  f = f
  g = g
  e = e
  a = a
  b = b
  j = j
  u = u
  Fn = {f, g}
  Ext = {e}
  Programs <- MCPrograms
  NameOf <- MCNameOf
  Base = {a, b}
  Exports = {b}
  Unit = {j, u}
  JitUnit = j
  Addr <- MCAddr
  MaxOps = 4
INVARIANTS TypeOK Exported CountsAreHolders InfoIsMapped
PROPERTIES CodeIsOwn AllDeleted
CHECK_DEADLOCK FALSE
