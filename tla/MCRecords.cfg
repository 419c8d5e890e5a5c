CONSTANTS
    File <- MCFile
    Full = 15
    NameMax = 4
    US = 225
    Null = Null
    MaxHeld = 2
SPECIFICATION Spec
INVARIANTS TypeOK   NoLeak FaultsExplained
CHECK_DEADLOCK FALSE
