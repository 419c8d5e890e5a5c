CONSTANTS
    Content <- WithOrg
    Null = Null
    Default = Default
    FlagChoices <- Checked
    Calls = {"lookup"}
    Updates = {"rename", "unlink"}
    Failures = {}
    Racing = {}
    SameSecond = FALSE
    Grace = 1
    Settled = 3
    MaxTime = 5
    MaxInode = 3
    MaxFd = 1
SPECIFICATION Spec
INVARIANT LookupsFresh
