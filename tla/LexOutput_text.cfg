SPECIFICATION Spec
CONSTANTS
    Chunks <- MCChunks
INVARIANTS TokenInPlace LinesKept Separators
CHECK_DEADLOCK FALSE
