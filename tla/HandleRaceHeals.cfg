CONSTANTS
    Content <- Written
    Null = Null
    Default = Default
    FlagChoices <- Checked
    Calls = {"lookup"}
    Updates = {"rename", "rewrite"}
    Failures = {}
    Racing = {"rename"}
    SameSecond = TRUE
    Grace = 0
    Settled = 3
    MaxTime = 4
    MaxInode = 2
    MaxFd = 1
SPECIFICATION FairSpec
PROPERTY EventuallyServed
CHECK_DEADLOCK FALSE
