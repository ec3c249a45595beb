SPECIFICATION Spec
CONSTANTS
    Headers <- MCHeaders
    Records <- MCRecords
    Disk <- MCDisk
    Internalized <- MCInternalized
    ResourceDir = "clang"
    IntBits = 3
    LongBits = 5
    Mantissa = 3
    MaxImports = 3
INVARIANTS LayoutsMatch NamesDenote DefinitionsLinked OnlyTheseFail
CHECK_DEADLOCK FALSE
