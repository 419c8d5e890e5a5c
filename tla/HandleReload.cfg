CONSTANTS
    Content <- SameLength
    Null = Null
    Default = Default
    FlagChoices <- AnyFlags
    Calls = {"lookup", "info"}
    Updates = {"rename", "unlink"}
    Failures = {}
    Racing = {}
    SameSecond = FALSE
    Grace = 1
    Settled = 3
    MaxTime = 5
    MaxInode = 3
    MaxFd = 2
SPECIFICATION Spec
INVARIANTS NoFault NoLeak Coherent LookupsFresh InfoOfServed
