CONSTANTS
    Base = 2
    Octet = 4
    Word = 8
    MaxField = 8
    MaxDots = 4
    File <- MCFile
    Ips = {0, 1, 6, 27, 255, 300}
    Countries = 4
    Letters = 2
    States = 5
    Range = 3
    US = 1
    CA = 2
    Unsigned = 128
    Lost = Lost
    Null = Null
SPECIFICATION Spec
INVARIANTS  RoundTrip CountryAsWritten RegionAsWritten
CHECK_DEADLOCK FALSE
