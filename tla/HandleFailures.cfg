CONSTANTS
    Content <- Failing
    Null = Null
    Default = Default
    FlagChoices <- FailingFlags
    Calls = {"lookup"}
    Updates = {"rename", "rewrite"}
    Failures = {"alloc", "mmap", "fopen", "read", "stat"}
    Racing = {}
    SameSecond = TRUE
    Grace = 1
    Settled = 4
    MaxTime = 5
    MaxInode = 2
    MaxFd = 1
SPECIFICATION HSpec
INVARIANTS FaultsHaveACause  WholeUnlessHarmed AnswersUnlessHarmed
PROPERTY ReloadsSettledFile
CHECK_DEADLOCK FALSE
