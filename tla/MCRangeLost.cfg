CONSTANTS
    Top <- MCTop
    Netmask = {0, 1, 2, 3}
    Size <- MCSize
    Database <- Cyclic
    Newer <- NoVersions
    MaxReloads = 0
SPECIFICATION Spec
INVARIANT RangeHasOneValue
