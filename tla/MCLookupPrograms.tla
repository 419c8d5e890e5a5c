-------------------------- MODULE MCLookupPrograms --------------------------
EXTENDS LookupPrograms, TLC

CONSTANTS t1, t2

MCThreads == {t1, t2}

\* Every file by itself, with each edition it may fit, and with ORG, which
\* GeoIP_open_type takes for any other as it takes ASNUM; some with one it does
\* not take.
Files == {FileName(e) : e \in NamedEdition}
Single == {<<"data", f>> :> "ORG" : f \in Files}
          \cup {<<"data", FileName(e)>> :> e : e \in NamedEdition}
          \cup {<<"data", f>> :> "CITY_REV1" : f \in {"GeoIP.dat", "GeoIPCityv6.dat"}}

\* A file by the name of an edition without one, and installations of several
\* files, in two directories.
Several ==
    { <<"data", "other.dat">> :> "CCM_COUNTRY",
      [p \in {<<"data", f>> : f \in {"GeoIP.dat", "GeoIPv6.dat", "GeoIPDomain.dat",
                                    "GeoIPCity.dat"}} |->
         CASE p[2] = "GeoIP.dat" -> "LARGE_COUNTRY"
           [] p[2] = "GeoIPv6.dat" -> "COUNTRY_V6"
           [] p[2] = "GeoIPDomain.dat" -> "ORG"
           [] p[2] = "GeoIPCity.dat" -> "CITY_REV0"],
      (<<"data", "GeoIP.dat">> :> "COUNTRY")
         @@ (<<"custom", "GeoIPOrg.dat">> :> "ORG")
         @@ (<<"custom", "GeoIPLocAv6.dat">> :> "LOCATIONA_V6")
         @@ (<<"custom", "GeoIPASNumv6.dat">> :> "ASNUM_V6") }

MCInstalled == Single \cup Several
MCGivenFiles == {<<"data", f>> : f \in {"GeoIP.dat", "GeoIPOrg.dat", "GeoIPISPv6.dat",
                                       "GeoIPDistancev6.dat", "other.dat"}}

\* Names with no and with a large answer, an address, and the two addresses
\* that are a failure of inet_addr and of _GeoIP_lookupaddress.
MCNoAddress == -1
MCHosts == { [text |-> -1, answer |-> -1, answer6 |-> -1, needs |-> 1],
             [text |-> -1, answer |-> 5, answer6 |-> 6, needs |-> 7],
             [text |-> 5, answer |-> 5, answer6 |-> -1, needs |-> 1],
             [text |-> 255, answer |-> 255, answer6 |-> -1, needs |-> 1],
             [text |-> 0, answer |-> -1, answer6 |-> -1, needs |-> 1] }

\* Every country with a table, and three without.
MCCountries == DOMAIN RegionsOf \cup DOMAIN ZoneRegionsOf \cup {"PR", "A1", "--"}

\* Every code, the characters around digits and letters, and shorter and longer
\* texts.
Code == {c \in 0 .. 255 : IsCode(c)}
Edge == {47, 48, 58, 64, 65, 90, 91, 97, 200}
MCRegions == {<<a, b>> : a, b \in Code} \cup {<<a, b>> : a, b \in Edge}
             \cup {<<a>> : a \in Edge} \cup {<<48, 49, c>> : c \in Edge}
             \cup {<<>>, Null}
=============================================================================
