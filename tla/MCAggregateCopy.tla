--------------------------- MODULE MCAggregateCopy ---------------------------
EXTENDS AggregateCopy, TLC

CONSTANTS a, b, c

AllVars == {a, b, c}
Small == {c}
SameKind == Permutations({a, b})
=============================================================================
