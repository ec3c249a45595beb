SPECIFICATION Spec
CONSTANTS
    Headers <- NestedHeaders
    Records <- MCRecords
    Disk <- MCDisk
    Internalized <- MCInternalized
    ResourceDir = "clang"
    IntBits = 3
    LongBits = 5
    Mantissa = 3
    MaxImports = 1
INVARIANT LayoutsMatch
CHECK_DEADLOCK FALSE
