CONSTANTS
    Top <- MCTop
    Netmask = {0, 1, 2, 3}
    Size <- MCSize
    Database <- Sound
    Newer <- NewerVersions
    MaxReloads = 2
SPECIFICATION FairSpec
INVARIANTS RangeHasOneValue RangeIsLargest EveryAddressHadTheValue
PROPERTY CallsEnd
