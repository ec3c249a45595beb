SPECIFICATION Spec
CONSTANTS
    Chunks <- MCChunks
INVARIANT LookaheadFree
CHECK_DEADLOCK FALSE
