CONSTANTS
    t1 = t1
    t2 = t2
    Null = Null
    Threads <- MCThreads
    Main = t1
    DataDir = "data"
    Directories = {"custom"}
    Wanted = {"COUNTRY", "ACCURACYRADIUS_V6", "CCM_COUNTRY"}
    MaxTables = 2
    Chunk = 17
    Installed <- MCInstalled
    GivenFiles <- MCGivenFiles
    Countries <- MCCountries
    Regions <- MCRegions
    Hosts <- MCHosts
    NoAddress <- MCNoAddress
    INADDR_NONE = 255
    FirstBuffer = 2
    TellsRange = {TRUE, FALSE}
SPECIFICATION PSpec
INVARIANTS TableServes EachShownOnce AccessorsFit ReleasedAtEnd HostResolved NameIsOfRegion NamesAndZonesAgree
PROPERTY ProgramEnds
CHECK_DEADLOCK FALSE
