------------------------ MODULE LookupPrograms_proofs ------------------------
(***************************************************************************)
(* The programs, for any installation, command line, host and threads: the *)
(* names of regions, the table of file names, the resolver, what is opened *)
(* and released, and what is shown.                                        *)
(*                                                                         *)
(* The table of names first (NamesInv, for any threads), then the programs *)
(* that call it (ProgramInv), and on both the lines they have shown so far *)
(* (LinesInv).                                                             *)
(***************************************************************************)
EXTENDS LookupPrograms, FiniteSetTheorems, TLAPS

-----------------------------------------------------------------------------
(* The numbers of region codes: one stands for one code of two characters, *)
(* so that a record is never given another's name.                         *)

\* The elements of a sequence.
LEMMA Element == ASSUME NEW S, NEW s \in Seq(S), NEW k \in 1 .. Len(s) PROVE s[k] \in S
OBVIOUS

\* A character of a text, or the NUL behind it.
LEMMA CharType ==
    ASSUME NEW text \in Seq(0 .. 255), NEW i \in Nat \ {0}
    PROVE  /\ CharAt(text, i) \in 0 .. 255
           /\ i > Len(text) => CharAt(text, i) = 0
<1>1. Len(text) \in Nat
  OBVIOUS
<1>2. CASE i <= Len(text)
  <2>1. i \in 1 .. Len(text) /\ ~(i > Len(text))
    BY <1>1, <1>2
  <2>2. text[i] \in 0 .. 255
    BY <2>1, Element
  <2>3. CharAt(text, i) = text[i]
    BY <1>2 DEF CharAt
  <2> QED BY <2>1, <2>2, <2>3
<1>3. CASE ~(i <= Len(text))
  BY <1>3 DEF CharAt
<1> QED BY <1>2, <1>3

\* From the number back to the digits, when both characters are digits.
LEMMA DigitsBack ==
    ASSUME NEW a \in 48 .. 57, NEW b \in 48 .. 57
    PROVE  LET n == (a - 48) * 10 + b - 48
           IN  /\ n \in 0 .. 99
               /\ 48 + (n \div 10) = a /\ 48 + (n % 10) = b
OBVIOUS

\* And to the characters, 43 of which lie between '0' and 'Z'.
LEMMA LettersBack ==
    ASSUME NEW a \in 48 .. 90, NEW b \in 48 .. 90
    PROVE  LET n == (a - 48) * 43 + b - 48 + 100
           IN  /\ n \in Nat /\ n >= 100
               /\ 48 + ((n - 100) \div 43) = a /\ 48 + ((n - 100) % 43) = b
OBVIOUS

\* The code is read back from its number, the number from no other code.
LEMMA NumberIsOfCode ==
    ASSUME NEW text \in Seq(0 .. 255), RegionCode2(text) # -1
    PROVE  RegionText(RegionCode2(text)) = <<CharAt(text, 1), CharAt(text, 2)>>
<1>1. SUFFICES ASSUME NEW a, NEW b, a = CharAt(text, 1), b = CharAt(text, 2)
               PROVE  RegionText(RegionCode2(text)) = <<a, b>>
  OBVIOUS
<1>2. CASE IsDigit(a) /\ IsDigit(b)
  <2>1. RegionCode2(text) = (a - 48) * 10 + b - 48
    BY <1>1, <1>2 DEF RegionCode2
  <2>2. a \in 48 .. 57 /\ b \in 48 .. 57
    BY <1>2 DEF IsDigit
  <2>3. (a - 48) * 10 + b - 48 < 100
    BY <2>2
  <2>4. RegionText(RegionCode2(text))
            = <<48 + (((a - 48) * 10 + b - 48) \div 10),
                48 + (((a - 48) * 10 + b - 48) % 10)>>
    BY <2>1, <2>3 DEF RegionText
  <2>5. /\ 48 + (((a - 48) * 10 + b - 48) \div 10) = a
        /\ 48 + (((a - 48) * 10 + b - 48) % 10) = b
    BY <2>2, DigitsBack
  <2> QED BY <1>1, <2>4, <2>5
<1>3. CASE ~(IsDigit(a) /\ IsDigit(b)) /\ IsCode(a) /\ IsCode(b)
  <2> DEFINE n == (a - 48) * 43 + b - 48 + 100
  <2>1. RegionCode2(text) = n
    BY <1>1, <1>3 DEF RegionCode2
  <2>2. a \in 48 .. 90 /\ b \in 48 .. 90
    BY <1>3 DEF IsDigit, IsCode
  <2>3. /\ n \in Nat /\ n >= 100
        /\ 48 + ((n - 100) \div 43) = a /\ 48 + ((n - 100) % 43) = b
    BY <2>2, LettersBack
  <2> HIDE DEF n
  <2> QED BY <1>1, <2>1, <2>3 DEF RegionText
<1>4. CASE ~(IsCode(a) /\ IsCode(b)) /\ ~(IsDigit(a) /\ IsDigit(b))
  BY <1>1, <1>4 DEF RegionCode2
<1> QED BY <1>2, <1>3, <1>4

\* Nothing behind a terminating NUL is looked at.
LEMMA ReadsInside ==
    ASSUME NEW text \in Seq(0 .. 255)
    PROVE  CharsRead(text) \subseteq 1 .. Len(text) + 1
<1>1. Len(text) \in Nat
  OBVIOUS
<1>2. IsCode(CharAt(text, 1)) => Len(text) >= 1
  <2>1. 1 > Len(text) => CharAt(text, 1) = 0
    BY CharType
  <2>2. ~IsCode(0)
    BY DEF IsCode, IsDigit
  <2> QED BY <1>1, <2>1, <2>2
<1> QED BY <1>1, <1>2 DEF CharsRead

\* What TellRecord tells is about the record's own country and region.
ToldOfRegion ==
    told.region # Null =>
        /\ told.region \in Seq(0 .. 255)
        /\ told.name \in {Null, <<told.country, RegionCode2(told.region)>>}
        /\ told.name # Null => RegionCode2(told.region) # -1

\* Only the step that tells a record changes what is told.
LEMMA ToldStep ==
    ASSUME [PNext]_avars
    PROVE  \/ told' = told
           \/ \E c \in Countries, r \in Regions : TellRecord(c, r)
BY DEF PNext, Program, avars, pvars, ThreadsCall, SetDirectory, CallSetup, SetupNames,
       NamesReturned, OpenFile, NextType, FindName, Stat, CallOpenType, OpenType,
       Describe, Resolve, Resolving, Lookup, Close

\* The name that is shown for a region is that of its own code: no two codes
\* share a number, for any country and any text a record may hold.
THEOREM NamesAreOfRegions == PSpec => []NameIsOfRegion
<1>1. PInit => ToldOfRegion
  BY DEF PInit, NoRecord, ToldOfRegion
<1>2. ToldOfRegion /\ [PNext]_avars => ToldOfRegion'
  <2> SUFFICES ASSUME ToldOfRegion, [PNext]_avars PROVE ToldOfRegion'
    OBVIOUS
  <2>1. CASE told' = told
    BY <2>1 DEF ToldOfRegion
  <2>2. ASSUME NEW c \in Countries, NEW r \in Regions, TellRecord(c, r)
        PROVE  ToldOfRegion'
    <3>1. told'.country = c /\ told'.region = r /\ told'.name = RegionName(c, r)
      BY <2>2 DEF TellRecord
    <3>2. r \in Seq(0 .. 255) \/ r = Null
      BY ProgramConstants
    <3> QED BY <3>1, <3>2 DEF ToldOfRegion, RegionName
  <2> QED BY <2>1, <2>2, ToldStep
<1>3. ToldOfRegion => NameIsOfRegion
  BY NumberIsOfCode, ReadsInside DEF ToldOfRegion, NameIsOfRegion
<1> QED
  BY <1>1, <1>2, <1>3, PTL DEF PSpec

-----------------------------------------------------------------------------
(* Names and zones *)

\* The countries with zones by region.
Zoned ==
    {"AR", "AU", "BR", "CA", "CD", "CN", "EC", "ES", "GL", "ID", "KZ", "MN",
     "MX", "MY", "NZ", "PT", "RU", "UA", "US", "UZ"}

\* What the tables say of one of them: its zones are of codes, and which of
\* its numbers are in one table only.
Compared(c) ==
    /\ c \in DOMAIN RegionsOf /\ c \notin OneZone
    /\ -1 \notin RegionsOf[c]
    /\ \A n \in ZoneRegionsOf[c] : n \in Nat /\ RegionCode2(RegionText(n)) = n
    /\ \A n \in Int :
          /\ n \in RegionsOf[c] /\ n \notin ZoneRegionsOf[c]
                <=> c \in DOMAIN NamedOnly /\ n \in NamedOnly[c]
          /\ n \in ZoneRegionsOf[c] /\ n \notin RegionsOf[c]
                <=> c \in DOMAIN ZonedOnly /\ n \in ZonedOnly[c]

\* The table of zones is of these countries.
LEMMA ZonedCountries == DOMAIN ZoneRegionsOf = Zoned
BY DEF ZoneRegionsOf, Zoned

\* The tables of these countries.
LEMMA TablesOf ==
    /\ "AR" \in DOMAIN RegionsOf /\ RegionsOf["AR"] = get_region_name_AR
    /\ "AR" \notin OneZone /\ ZoneRegionsOf["AR"] = zone_regions_AR
    /\ "AU" \in DOMAIN RegionsOf /\ RegionsOf["AU"] = get_region_name_AU
    /\ "AU" \notin OneZone /\ ZoneRegionsOf["AU"] = zone_regions_AU
    /\ "BR" \in DOMAIN RegionsOf /\ RegionsOf["BR"] = get_region_name_BR
    /\ "BR" \notin OneZone /\ ZoneRegionsOf["BR"] = zone_regions_BR
    /\ "CA" \in DOMAIN RegionsOf /\ RegionsOf["CA"] = get_region_name_CA
    /\ "CA" \notin OneZone /\ ZoneRegionsOf["CA"] = zone_regions_CA
    /\ "CD" \in DOMAIN RegionsOf /\ RegionsOf["CD"] = get_region_name_CD
    /\ "CD" \notin OneZone /\ ZoneRegionsOf["CD"] = zone_regions_CD
    /\ "CN" \in DOMAIN RegionsOf /\ RegionsOf["CN"] = get_region_name_CN
    /\ "CN" \notin OneZone /\ ZoneRegionsOf["CN"] = zone_regions_CN
    /\ "EC" \in DOMAIN RegionsOf /\ RegionsOf["EC"] = get_region_name_EC
    /\ "EC" \notin OneZone /\ ZoneRegionsOf["EC"] = zone_regions_EC
    /\ "ES" \in DOMAIN RegionsOf /\ RegionsOf["ES"] = get_region_name_ES
    /\ "ES" \notin OneZone /\ ZoneRegionsOf["ES"] = zone_regions_ES
    /\ "GL" \in DOMAIN RegionsOf /\ RegionsOf["GL"] = get_region_name_GL
    /\ "GL" \notin OneZone /\ ZoneRegionsOf["GL"] = zone_regions_GL
    /\ "ID" \in DOMAIN RegionsOf /\ RegionsOf["ID"] = get_region_name_ID
    /\ "ID" \notin OneZone /\ ZoneRegionsOf["ID"] = zone_regions_ID
    /\ "KZ" \in DOMAIN RegionsOf /\ RegionsOf["KZ"] = get_region_name_KZ
    /\ "KZ" \notin OneZone /\ ZoneRegionsOf["KZ"] = zone_regions_KZ
    /\ "MN" \in DOMAIN RegionsOf /\ RegionsOf["MN"] = get_region_name_MN
    /\ "MN" \notin OneZone /\ ZoneRegionsOf["MN"] = zone_regions_MN
    /\ "MX" \in DOMAIN RegionsOf /\ RegionsOf["MX"] = get_region_name_MX
    /\ "MX" \notin OneZone /\ ZoneRegionsOf["MX"] = zone_regions_MX
    /\ "MY" \in DOMAIN RegionsOf /\ RegionsOf["MY"] = get_region_name_MY
    /\ "MY" \notin OneZone /\ ZoneRegionsOf["MY"] = zone_regions_MY
    /\ "NZ" \in DOMAIN RegionsOf /\ RegionsOf["NZ"] = get_region_name_NZ
    /\ "NZ" \notin OneZone /\ ZoneRegionsOf["NZ"] = zone_regions_NZ
    /\ "PT" \in DOMAIN RegionsOf /\ RegionsOf["PT"] = get_region_name_PT
    /\ "PT" \notin OneZone /\ ZoneRegionsOf["PT"] = zone_regions_PT
    /\ "RU" \in DOMAIN RegionsOf /\ RegionsOf["RU"] = get_region_name_RU
    /\ "RU" \notin OneZone /\ ZoneRegionsOf["RU"] = zone_regions_RU
    /\ "UA" \in DOMAIN RegionsOf /\ RegionsOf["UA"] = get_region_name_UA
    /\ "UA" \notin OneZone /\ ZoneRegionsOf["UA"] = zone_regions_UA
    /\ "US" \in DOMAIN RegionsOf /\ RegionsOf["US"] = get_region_name_US
    /\ "US" \notin OneZone /\ ZoneRegionsOf["US"] = zone_regions_US
    /\ "UZ" \in DOMAIN RegionsOf /\ RegionsOf["UZ"] = get_region_name_UZ
    /\ "UZ" \notin OneZone /\ ZoneRegionsOf["UZ"] = zone_regions_UZ
BY DEF RegionsOf, OneZone, ZoneRegionsOf

\* The two files, country by country: a comparison of finite tables.
LEMMA TablesCompared == \A c \in Zoned : Compared(c)
<1> USE TablesOf DEF Compared, RegionCode2, RegionText, CharAt, IsDigit, IsCode,
                     NamedOnly, ZonedOnly
<1>AR. Compared("AR") BY DEF get_region_name_AR, zone_regions_AR
<1>AU. Compared("AU") BY DEF get_region_name_AU, zone_regions_AU
<1>BR. Compared("BR") BY DEF get_region_name_BR, zone_regions_BR
<1>CA. Compared("CA") BY DEF get_region_name_CA, zone_regions_CA
<1>CD. Compared("CD") BY DEF get_region_name_CD, zone_regions_CD
<1>CN. Compared("CN") BY DEF get_region_name_CN, zone_regions_CN
<1>EC. Compared("EC") BY DEF get_region_name_EC, zone_regions_EC
<1>ES. Compared("ES") BY DEF get_region_name_ES, zone_regions_ES
<1>GL. Compared("GL") BY DEF get_region_name_GL, zone_regions_GL
<1>ID. Compared("ID") BY DEF get_region_name_ID, zone_regions_ID
<1>KZ. Compared("KZ") BY DEF get_region_name_KZ, zone_regions_KZ
<1>MN. Compared("MN") BY DEF get_region_name_MN, zone_regions_MN
<1>MX. Compared("MX") BY DEF get_region_name_MX, zone_regions_MX
<1>MY. Compared("MY") BY DEF get_region_name_MY, zone_regions_MY
<1>NZ. Compared("NZ") BY DEF get_region_name_NZ, zone_regions_NZ
<1>PT. Compared("PT") BY DEF get_region_name_PT, zone_regions_PT
<1>RU. Compared("RU") BY DEF get_region_name_RU, zone_regions_RU
<1>UA. Compared("UA") BY DEF get_region_name_UA, zone_regions_UA
<1>US. Compared("US") BY DEF get_region_name_US, zone_regions_US
<1>UZ. Compared("UZ") BY DEF get_region_name_UZ, zone_regions_UZ
<1> HIDE TablesOf DEF Compared, RegionCode2, RegionText, CharAt, IsDigit, IsCode,
                      NamedOnly, ZonedOnly
<1> QED BY <1>AR, <1>AU, <1>BR, <1>CA, <1>CD, <1>CN, <1>EC, <1>ES, <1>GL, <1>ID, <1>KZ,
   <1>MN, <1>MX, <1>MY, <1>NZ, <1>PT, <1>RU, <1>UA, <1>US, <1>UZ DEF Zoned

\* In one of these countries, a code of two characters has a zone when the
\* number made of it is in the table.
LEMMA ZoneByNumber ==
    ASSUME NEW c \in Zoned, NEW r \in Seq(0 .. 255)
    PROVE  /\ HasZone(c, r) => Len(r) = 2
           /\ Len(r) = 2 => (HasZone(c, r) <=> RegionCode2(r) \in ZoneRegionsOf[c])
<1>1. Compared(c) /\ c \in DOMAIN ZoneRegionsOf
  BY TablesCompared, ZonedCountries
<1>2. HasZone(c, r) <=> \E n \in ZoneRegionsOf[c] : r = RegionText(n)
  BY <1>1 DEF HasZone, Compared
<1>3. \A n \in ZoneRegionsOf[c] : RegionCode2(RegionText(n)) = n /\ n # -1
  BY <1>1 DEF Compared
<1>4. \A n \in ZoneRegionsOf[c] : Len(RegionText(n)) = 2
  BY DEF RegionText
<1>5. ASSUME Len(r) = 2, RegionCode2(r) \in ZoneRegionsOf[c]
      PROVE  r = RegionText(RegionCode2(r))
  <2>1. RegionText(RegionCode2(r)) = <<CharAt(r, 1), CharAt(r, 2)>>
    BY <1>3, <1>5, NumberIsOfCode
  <2>2. r = <<r[1], r[2]>>
    BY <1>5
  <2> QED BY <1>5, <2>1, <2>2 DEF CharAt
<1> QED BY <1>2, <1>3, <1>4, <1>5

\* What TellRecord tells is what the tables hold.
ToldOfTables ==
    told.region # Null =>
        /\ told.country \in Countries /\ told.region \in Seq(0 .. 255)
        /\ told.name = RegionName(told.country, told.region)
        /\ told.zone = HasZone(told.country, told.region)

\* In a country with zones by region, the numbers that only one of the two
\* files knows are the ones listed, whatever text a record holds.
THEOREM NamesFitZones == PSpec => []NamesAndZonesAgree
<1>1. PInit => ToldOfTables
  BY DEF PInit, NoRecord, ToldOfTables
<1>2. ToldOfTables /\ [PNext]_avars => ToldOfTables'
  <2> SUFFICES ASSUME ToldOfTables, [PNext]_avars PROVE ToldOfTables'
    OBVIOUS
  <2>1. CASE told' = told
    BY <2>1 DEF ToldOfTables
  <2>2. ASSUME NEW c \in Countries, NEW r \in Regions, TellRecord(c, r)
        PROVE  ToldOfTables'
    <3>1. /\ told'.country = c /\ told'.region = r /\ told'.name = RegionName(c, r)
          /\ told'.zone = HasZone(c, r)
      BY <2>2 DEF TellRecord
    <3>2. r \in Seq(0 .. 255) \/ r = Null
      BY ProgramConstants
    <3> QED BY <3>1, <3>2 DEF ToldOfTables
  <2> QED BY <2>1, <2>2, ToldStep
<1>3. ASSUME ToldOfTables, NEW c \in DOMAIN ZoneRegionsOf, NEW r,
             c = told.country, r = told.region, r # Null
      PROVE  LET among(table) == c \in DOMAIN table /\ RegionCode2(r) \in table[c]
                 named == told.name # Null
             IN  /\ told.zone => Len(r) = 2
                 /\ Len(r) = 2 =>
                       /\ named /\ ~told.zone <=> among(NamedOnly)
                       /\ told.zone /\ ~named <=> among(ZonedOnly)
  <2> DEFINE n == RegionCode2(r)
  <2>1. c \in Zoned /\ c \in Countries /\ r \in Seq(0 .. 255) /\ Compared(c)
    BY <1>3, ZonedCountries, TablesCompared DEF ToldOfTables
  <2>2. n \in Nat \cup {-1}
    <3>1. CharAt(r, 1) \in 0 .. 255 /\ CharAt(r, 2) \in 0 .. 255
      BY <2>1, CharType
    <3> QED BY <3>1 DEF RegionCode2, IsDigit, IsCode
  <2>3. told.name # Null <=> n # -1 /\ n \in RegionsOf[c]
    <3>1. told.name = IF n # -1 /\ n \in RegionsOf[c] THEN <<c, n>> ELSE Null
      BY <1>3, <2>1 DEF ToldOfTables, RegionName, Compared
    <3>2. n # -1 => <<c, n>> # Null
      BY <2>1, <2>2, ProgramConstants
    <3> QED BY <3>1, <3>2
  <2>4. /\ told.zone => Len(r) = 2
        /\ Len(r) = 2 => (told.zone <=> n \in ZoneRegionsOf[c])
    <3>1. told.zone = HasZone(c, r)
      BY <1>3 DEF ToldOfTables
    <3> QED BY <2>1, <3>1, ZoneByNumber, Zenon
  <2> HIDE DEF n
  <2>5. n = -1 => n \notin RegionsOf[c] /\ n \notin ZoneRegionsOf[c]
    BY <2>1 DEF Compared
  <2>6. /\ n \in RegionsOf[c] /\ n \notin ZoneRegionsOf[c]
              <=> c \in DOMAIN NamedOnly /\ n \in NamedOnly[c]
        /\ n \in ZoneRegionsOf[c] /\ n \notin RegionsOf[c]
              <=> c \in DOMAIN ZonedOnly /\ n \in ZonedOnly[c]
    BY <2>1, <2>2 DEF Compared
  <2>7. told.name # Null <=> n \in RegionsOf[c]
    BY <2>3, <2>5
  <2> QED BY <2>4, <2>6, <2>7 DEF n
<1>4. ToldOfTables => NamesAndZonesAgree
  BY <1>3 DEF NamesAndZonesAgree
<1> QED BY <1>1, <1>2, <1>4, PTL DEF PSpec

-----------------------------------------------------------------------------
(* The table of file names *)

\* What the definition of the 34 names says: every one is of another edition.
LEMMA NameFacts ==
    /\ Len(DbFiles) = 34 /\ DOMAIN DbFiles = 1 .. 34
    /\ \A j \in 1 .. 34 : DbFiles[j][1] \in Edition
    /\ \A i, j \in 1 .. 34 : DbFiles[i][1] = DbFiles[j][1] => i = j
<1>1. \A i, j \in 1 .. 34 : DbFiles[i][1] = DbFiles[j][1] => i = j
  BY DEF DbFiles
<1>2. \A j \in 1 .. 34 : DbFiles[j][1] \in Edition
  BY DEF DbFiles, Edition, Editions
<1>3. Len(DbFiles) = 34 /\ DOMAIN DbFiles = 1 .. 34
  BY DEF DbFiles
<1> QED BY <1>1, <1>2, <1>3

\* The editions of the first n names.
First(n) == {DbFiles[j][1] : j \in 1 .. n}

Paths == Directories \cup {DataDir}
Entries == Paths \cup {"garbage", "unset"}
Table == [entry : [Edition -> Entries], freed : BOOLEAN, due : Directories \cup {"unset"}]
Turns == [at : {"idle", "test", "alloc", "clear", "fill", "read", "use", "detach", "free"},
          k : 1 .. 35, want : Edition \cup {"none"}, table : Nat,
          dir : Entries \cup {"none"}, due : Directories \cup {"unset", "none"}]

Shape ==
    /\ custom \in Directories \cup {"unset"}
    /\ tables \in Seq(Table)
    /\ current \in 0 .. Len(tables)
    /\ th \in [Threads -> Turns]
    /\ \A t \in Threads : /\ th[t].at \in {"test", "alloc", "clear"} => th[t].k = 1
                          /\ th[t].at = "fill" => th[t].k <= 34
                          /\ th[t].table <= Len(tables)
    /\ broken \in {"none", "null_pointer", "use_after_free", "garbage_pointer"}
    /\ raced \in BOOLEAN

Building == {t \in Threads : th[t].at = "alloc"}
FewTables == Len(tables) + Cardinality(Building) <= MaxTables + Cardinality(Threads)

Held == {p \in (1 .. Len(tables)) \X Edition :
            ~tables[p[1]].freed /\ tables[p[1]].entry[p[2]] \notin {"garbage", "unset"}}
PathsCounted == paths \in Int /\ Cardinality(Held) <= paths

Alone == \A s, t \in Threads : s # t /\ Writes(s) => th[t].at = "idle"

DirOf(table) == IF table.due = "unset" THEN DataDir ELSE table.due
Named(table, n) ==
    /\ ~table.freed
    /\ table.entry = [e \in Edition |-> IF e \in First(n) THEN DirOf(table) ELSE "unset"]

Ready ==
    \A t \in Threads :
        th[t].at \in {"use", "idle"} /\ th[t].table # 0 =>
            th[t].dir = (IF th[t].want \notin First(34) THEN "unset"
                         ELSE IF th[t].due = "unset" THEN DataDir ELSE th[t].due)

\* What the statement a thread is at may rely on.
LocalOf(t) ==
    /\ th[t].at = "use" => current # 0 /\ th[t].table = current
    /\ th[t].at = "alloc" => current = 0
    /\ th[t].at = "clear" =>
          /\ current # 0 /\ ~tables[current].freed /\ tables[current].due = custom
          /\ tables[current].entry = [e \in Edition |-> "garbage"]
          /\ paths = 0
    /\ th[t].at = "fill" =>
          /\ current # 0 /\ tables[current].due = custom
          /\ Named(tables[current], th[t].k - 1)
          /\ paths = th[t].k - 1
    /\ th[t].at = "read" => current # 0
    /\ th[t].at = "detach" => th[t].table = current
    /\ th[t].at = "free" =>
          /\ current = 0
          /\ th[t].table # 0 => Named(tables[th[t].table], 34)
          /\ paths = IF th[t].table = 0 THEN 0 ELSE 34
Local == \A t \in Threads : LocalOf(t)

Whole ==
    /\ (\A t \in Threads : th[t].at \notin {"clear", "fill"}) =>
          (current # 0 => Named(tables[current], 34))
    /\ (\A t \in Threads : th[t].at \notin {"clear", "fill", "free"}) =>
          paths = IF current = 0 THEN 0 ELSE 34
    /\ \A k \in 1 .. Len(tables) : k # current /\ ~tables[k].freed =>
          \E t \in Threads : th[t].at = "free" /\ th[t].table = k

Served == broken = "none" /\ Alone /\ Ready /\ Local /\ Whole

NamesInv == Shape /\ FewTables /\ PathsCounted /\ (~raced => Served)

\* A thread that begins a call.
LEMMA RestingType == Resting \in Turns
BY DEF Resting, Turns

\* A call that begins, for the name of an edition or to clean up.
LEMMA Asking ==
    ASSUME NEW e \in Edition, NEW x, x = [Resting EXCEPT !.at = "test", !.want = e]
    PROVE  /\ x \in Turns
           /\ x.at = "test" /\ x.k = 1 /\ x.want = e /\ x.table = 0
<1>1. x \in Turns
  BY RestingType DEF Turns
<1>2. x.at = "test" /\ x.k = 1 /\ x.want = e /\ x.table = 0
  BY DEF Resting
<1> QED BY <1>1, <1>2

\* The same for GeoIP_cleanup.
LEMMA Detaching ==
    ASSUME NEW k \in Nat, NEW x, x = [Resting EXCEPT !.at = "detach", !.table = k]
    PROVE  /\ x \in Turns
           /\ x.at = "detach" /\ x.k = 1 /\ x.table = k
<1>1. x \in Turns
  BY RestingType DEF Turns
<1>2. x.at = "detach" /\ x.k = 1 /\ x.table = k
  BY DEF Resting
<1> QED BY <1>1, <1>2

\* Before the first call there is no table.
LEMMA NamesInitial ==
    ASSUME NInit
    PROVE  NamesInv
<1>1. Shape
  <2>2. tables \in Seq(Table) /\ Len(tables) = 0
    BY DEF NInit
  <2>3. th \in [Threads -> Turns] /\ \A t \in Threads : th[t] = Resting
    BY RestingType DEF NInit
  <2>4. Resting.at = "idle" /\ Resting.table = 0
    BY DEF Resting
  <2>5. custom = "unset" /\ current = 0 /\ broken = "none" /\ raced \in BOOLEAN
    BY DEF NInit
  <2> QED BY <2>2, <2>3, <2>4, <2>5 DEF Shape
<1>2. FewTables
  <2>1. Building = {}
    BY DEF NInit, Building, Resting
  <2>2. Cardinality(Threads) \in Nat /\ MaxTables \in Nat
    BY NamesConstants, FS_CardinalityType
  <2> QED BY <2>1, <2>2, FS_EmptySet DEF NInit, FewTables
<1>3. PathsCounted
  <2>1. Held = {}
    BY DEF NInit, Held
  <2> QED BY <2>1, FS_EmptySet DEF NInit, PathsCounted
<1>4. Served
  BY DEF NInit, Served, Alone, Ready, Local, LocalOf, Whole, Resting, Writes
<1> QED BY <1>1, <1>2, <1>3, <1>4 DEF NamesInv

\* A thread that only moves on.
LEMMA Moved ==
    ASSUME th \in [Threads -> Turns], NEW t \in Threads, NEW w, Move(t, w)
    PROVE  /\ th' = [s \in Threads |-> IF s = t THEN [th[t] EXCEPT !.at = w] ELSE th[s]]
           /\ th'[t].at = w /\ th'[t].k = th[t].k /\ th'[t].want = th[t].want
           /\ th'[t].table = th[t].table /\ th'[t].dir = th[t].dir
           /\ th'[t].due = th[t].due
           /\ \A s \in Threads : s # t => th'[s] = th[s]
BY DEF Move, Turns

\* A step that does not reach the allocation leaves room for a table.
LEMMA OtherBuilding ==
    ASSUME Shape, FewTables, NEW t \in Threads, \A s \in Threads : s # t => th'[s] = th[s],
           th'[t].at # "alloc", Len(tables') = Len(tables)
    PROVE  FewTables'
<1>1. Building' \subseteq Building
  BY DEF Building
<1>2. IsFiniteSet(Building)
  BY NamesConstants, FS_Subset DEF Building
<1>3. Cardinality(Building') <= Cardinality(Building)
  BY <1>1, <1>2, FS_Subset
<1>4. /\ Cardinality(Building) \in Nat /\ Cardinality(Building') \in Nat
      /\ Cardinality(Threads) \in Nat /\ MaxTables \in Nat /\ Len(tables) \in Nat
  BY <1>1, <1>2, NamesConstants, FS_Subset, FS_CardinalityType DEF Shape
<1> QED BY <1>3, <1>4 DEF FewTables

\* The paths held stay as they are with the tables.
LEMMA SameHeld ==
    ASSUME PathsCounted, UNCHANGED <<tables, paths>>
    PROVE  PathsCounted'
BY DEF PathsCounted, Held

\* The other threads rely on what has not changed.
LEMMA OtherLocal ==
    ASSUME Local, NEW t \in Threads, UNCHANGED <<custom, current, tables, paths>>,
           \A s \in Threads : s # t => th'[s] = th[s], LocalOf(t)'
    PROVE  Local'
BY DEF Local, LocalOf, Named

\* GeoIP_setup_custom_directory.
LEMMA SetDirectoryNames ==
    ASSUME NamesInv, NEW t \in Threads, NEW d \in Directories, SetupCustomDirectory(t, d),
           raced' \in BOOLEAN, ~raced' => ~raced /\
               (custom' # custom => \A s \in Threads : th[s].at = "idle")
    PROVE  NamesInv'
<1>1. /\ custom' = d /\ UNCHANGED <<current, tables, paths, th, broken>>
  BY DEF SetupCustomDirectory
<1>2. Shape' /\ FewTables' /\ PathsCounted'
  BY <1>1, SameHeld DEF NamesInv, Shape, FewTables, Building
<1>3. ~raced' => Served'
  BY <1>1 DEF NamesInv, Served, Alone, Ready, Local, LocalOf, Whole, Writes, Named
<1> QED BY <1>2, <1>3 DEF NamesInv

\* The beginning of GeoIP_db_avail or GeoIP_open_type.
LEMMA AskNames ==
    ASSUME NamesInv, NEW t \in Threads, NEW e \in Edition, Ask(t, e),
           raced' \in BOOLEAN, ~raced' => ~raced /\ Alone'
    PROVE  NamesInv'
<1>1. /\ th \in [Threads -> Turns] /\ UNCHANGED <<custom, current, tables, paths, broken>>
      /\ th' = [th EXCEPT ![t] = [Resting EXCEPT !.at = "test", !.want = e]]
      /\ th[t].at = "idle"
  BY DEF Ask, NamesInv, Shape
<1>2. /\ th'[t] \in Turns /\ th'[t].at = "test" /\ th'[t].k = 1 /\ th'[t].table = 0
      /\ \A s \in Threads : s # t => th'[s] = th[s]
      /\ th' \in [Threads -> Turns]
  <2> DEFINE x == [Resting EXCEPT !.at = "test", !.want = e]
  <2>1. x \in Turns /\ x.at = "test" /\ x.k = 1 /\ x.table = 0
    BY Asking
  <2> HIDE DEF x
  <2>2. th' = [th EXCEPT ![t] = x]
    BY <1>1 DEF x
  <2> QED BY <1>1, <2>1, <2>2
<1>3. Shape'
  <2>1. Len(tables) \in Nat /\ raced' \in BOOLEAN
    BY DEF NamesInv, Shape
  <2> QED BY <1>1, <1>2, <2>1 DEF NamesInv, Shape
<1>5. FewTables' /\ PathsCounted'
  BY <1>1, <1>2, SameHeld, OtherBuilding DEF NamesInv
<1>4. ~raced' => Served'
  <2> SUFFICES ASSUME ~raced' PROVE Served'
    OBVIOUS
  <2>1. Served /\ Alone'
    BY DEF NamesInv
  <2>2. broken' = "none" /\ Ready'
    BY <1>1, <1>2, <2>1 DEF Served, Ready
  <2>3. Local'
    BY <1>1, <1>2, <2>1, OtherLocal DEF Served, LocalOf
  <2>4. Whole'
    BY <1>1, <1>2, <2>1 DEF Served, Whole
  <2> QED BY <2>1, <2>2, <2>3, <2>4 DEF Served
<1> QED BY <1>3, <1>4, <1>5 DEF NamesInv

\* if (NULL == GeoIPDBFileName)
LEMMA TestNames ==
    ASSUME NamesInv, NEW t \in Threads, Test(t),
           raced' \in BOOLEAN, ~raced' => ~raced /\ Alone'
    PROVE  NamesInv'
<1>1. /\ th \in [Threads -> Turns] /\ UNCHANGED <<custom, current, tables, paths, broken>>
      /\ th[t].at = "test" /\ Move(t, IF current = 0 THEN "alloc" ELSE "read")
  BY DEF Test, NamesInv, Shape
<1>2. /\ th'[t].at = (IF current = 0 THEN "alloc" ELSE "read")
      /\ th'[t] = [th[t] EXCEPT !.at = IF current = 0 THEN "alloc" ELSE "read"]
      /\ th'[t].table = th[t].table /\ th'[t].k = th[t].k
      /\ \A s \in Threads : s # t => th'[s] = th[s]
      /\ th' \in [Threads -> Turns]
  BY <1>1, Moved DEF Turns
<1>3. Shape' /\ PathsCounted'
  BY <1>1, <1>2, SameHeld DEF NamesInv, Shape
<1>4. FewTables'
  <2>1. CASE current # 0
    BY <1>1, <1>2, <2>1, OtherBuilding DEF NamesInv
  <2>2. CASE current = 0
    <3>1. Len(tables) < MaxTables
      BY <2>2 DEF Test
    <3>2. Building' \subseteq Threads
      BY DEF Building
    <3>3. /\ Cardinality(Building') <= Cardinality(Threads)
          /\ Cardinality(Building') \in Nat /\ Cardinality(Threads) \in Nat
      BY <3>2, NamesConstants, FS_Subset, FS_CardinalityType
    <3>4. Len(tables) \in Nat /\ MaxTables \in Nat /\ Len(tables') = Len(tables)
      BY <1>1, NamesConstants DEF NamesInv, Shape
    <3> QED BY <3>1, <3>3, <3>4 DEF FewTables
  <2> QED BY <2>1, <2>2
<1>5. ~raced' => Served'
  <2> SUFFICES ASSUME ~raced' PROVE Served'
    OBVIOUS
  <2>1. Served /\ Alone'
    BY DEF NamesInv
  <2>2. broken' = "none" /\ Ready'
    <3>1. \A s \in Threads : th'[s].at \in {"use", "idle"} => th'[s] = th[s]
      BY <1>2
    <3> QED BY <1>1, <2>1, <3>1 DEF Served, Ready
  <2>3. Local'
    <3>1. LocalOf(t)'
      BY <1>1, <1>2 DEF LocalOf
    <3> QED BY <1>1, <1>2, <2>1, <3>1, OtherLocal DEF Served
  <2>4. Whole'
    BY <1>1, <1>2, <2>1 DEF Served, Whole
  <2> QED BY <2>1, <2>2, <2>3, <2>4 DEF Served
<1> QED BY <1>3, <1>4, <1>5 DEF NamesInv

\* The table is allocated and published.
LEMMA AllocNames ==
    ASSUME NamesInv, NEW t \in Threads, Alloc(t),
           raced' \in BOOLEAN, ~raced' => ~raced /\ Alone'
    PROVE  NamesInv'
<1>1. /\ th \in [Threads -> Turns] /\ UNCHANGED <<custom, paths, broken>>
      /\ th[t].at = "alloc" /\ Move(t, "clear") /\ tables \in Seq(Table)
      /\ tables' = Append(tables, NewTable) /\ current' = Len(tables) + 1
  BY DEF Alloc, NamesInv, Shape
<1>2. /\ th'[t].at = "clear" /\ th'[t].table = th[t].table /\ th'[t].k = th[t].k
      /\ \A s \in Threads : s # t => th'[s] = th[s]
      /\ th' \in [Threads -> Turns]
  BY <1>1, Moved DEF Turns
<1>3. /\ NewTable \in Table /\ ~NewTable.freed /\ NewTable.due = custom
      /\ NewTable.entry = [e \in Edition |-> "garbage"]
  BY DEF NewTable, Table, NamesInv, Shape, Entries
<1> HIDE DEF NewTable
<1>4. /\ Len(tables) \in Nat /\ tables' \in Seq(Table) /\ Len(tables') = Len(tables) + 1
      /\ \A k \in 1 .. Len(tables) : tables'[k] = tables[k]
      /\ tables'[current'] = NewTable
  BY <1>1, <1>3
<1>5. Shape'
  <2>1. \A s \in Threads : /\ th'[s].at \in {"test", "alloc", "clear"} => th'[s].k = 1
                           /\ th'[s].at = "fill" => th'[s].k <= 34
                           /\ th'[s].table <= Len(tables) /\ th'[s].table \in Nat
    BY <1>1, <1>2, SMTT(30) DEF NamesInv, Shape, Turns
  <2>2. current' \in 0 .. Len(tables')
    BY <1>1, <1>4
  <2>3. \A s \in Threads : th'[s].table <= Len(tables')
    <3>1. TAKE s \in Threads
    <3> DEFINE n == th'[s].table
    <3>2. n <= Len(tables) /\ n \in Nat
      BY <2>1
    <3> HIDE DEF n
    <3>3. n <= Len(tables')
      BY <1>4, <3>2
    <3> QED BY <3>3 DEF n
  <2>4. /\ custom' \in Directories \cup {"unset"} /\ raced' \in BOOLEAN
        /\ broken' \in {"none", "null_pointer", "use_after_free", "garbage_pointer"}
    BY <1>1 DEF NamesInv, Shape
  <2> QED BY <1>2, <1>4, <2>1, <2>2, <2>3, <2>4 DEF Shape
<1>6. FewTables'
  <2>1. t \in Building /\ Building' = Building \ {t}
    BY <1>1, <1>2 DEF Building
  <2>2. IsFiniteSet(Building)
    BY NamesConstants, FS_Subset DEF Building
  <2>3. Cardinality(Building') = Cardinality(Building) - 1
    BY <2>1, <2>2, FS_RemoveElement
  <2>4. Cardinality(Building) \in Nat /\ Cardinality(Threads) \in Nat /\ MaxTables \in Nat
    BY <2>2, NamesConstants, FS_CardinalityType
  <2> QED BY <1>4, <2>3, <2>4 DEF FewTables, NamesInv
<1>7. PathsCounted'
  <2>1. Held' = Held
    <3>1. ASSUME NEW p \in Held' PROVE p \in Held
      <4>1. p \in (1 .. Len(tables')) \X Edition /\ p[1] \in 1 .. Len(tables')
        BY DEF Held
      <4>2. p[1] # Len(tables) + 1
        <5> SUFFICES ASSUME p[1] = Len(tables) + 1 PROVE FALSE
          OBVIOUS
        <5>1. tables'[p[1]] = NewTable
          BY <1>1, <1>4
        <5> QED BY <5>1, <4>1, <1>3 DEF Held
      <4>3. p[1] \in 1 .. Len(tables)
        BY <1>4, <4>1, <4>2
      <4> QED BY <1>4, <4>1, <4>3 DEF Held
    <3>2. ASSUME NEW p \in Held PROVE p \in Held'
      <4>1. p \in (1 .. Len(tables)) \X Edition /\ p[1] \in 1 .. Len(tables)
        BY DEF Held
      <4>2. p[1] \in 1 .. Len(tables')
        BY <1>4, <4>1
      <4> QED BY <1>4, <4>1, <4>2 DEF Held
    <3> QED BY <3>1, <3>2
  <2> QED BY <1>1, <2>1 DEF NamesInv, PathsCounted
<1>8. ~raced' => Served'
  <2> SUFFICES ASSUME ~raced' PROVE Served'
    OBVIOUS
  <2>1. Served /\ Alone'
    BY DEF NamesInv
  <2>2. current = 0 /\ \A s \in Threads : s # t => th[s].at = "idle"
    BY <1>1, <2>1 DEF Served, Alone, Local, LocalOf, Writes
  <2>3. broken' = "none" /\ Ready'
    BY <1>1, <1>2, <2>1 DEF Served, Ready
  <2>4. Local'
    BY <1>1, <1>2, <1>3, <1>4, <2>1, <2>2 DEF Served, Local, LocalOf, Whole
  <2>5. Whole'
    <3>1. th'[t].at = "clear"
      BY <1>2
    <3>2. ASSUME NEW k \in 1 .. Len(tables'), k # current', ~tables'[k].freed
          PROVE  \E s \in Threads : th'[s].at = "free" /\ th'[s].table = k
      <4>1. k \in 1 .. Len(tables)
        BY <1>1, <1>4, <3>2
      <4>2. k # current /\ ~tables[k].freed
        BY <1>4, <2>2, <3>2, <4>1
      <4>3. PICK s \in Threads : th[s].at = "free" /\ th[s].table = k
        BY <2>1, <4>1, <4>2 DEF Served, Whole
      <4>4. th'[s] = th[s]
        BY <1>1, <1>2, <4>3
      <4> QED BY <4>3, <4>4
    <3> QED BY <3>1, <3>2 DEF Whole
  <2> QED BY <2>1, <2>3, <2>4, <2>5 DEF Served
<1> QED BY <1>5, <1>6, <1>7, <1>8 DEF NamesInv

\* One of the tables is replaced.
LEMMA Updated ==
    ASSUME tables \in Seq(Table), NEW k \in 1 .. Len(tables), NEW x \in Table,
           tables' = [tables EXCEPT ![k] = x]
    PROVE  /\ tables' \in Seq(Table) /\ Len(tables') = Len(tables)
           /\ tables'[k] = x
           /\ \A j \in 1 .. Len(tables) : j # k => tables'[j] = tables[j]
OBVIOUS

\* What is in the sequence of tables.
LEMMA TableOf ==
    ASSUME tables \in Seq(Table), NEW k \in 1 .. Len(tables)
    PROVE  /\ tables[k] \in Table
           /\ tables[k].entry \in [Edition -> Entries] /\ tables[k].freed \in BOOLEAN
           /\ tables[k].due \in Directories \cup {"unset"}
<1>1. tables[k] \in Table
  OBVIOUS
<1> QED BY <1>1 DEF Table

\* An entry that is written to: the table is still of its type.
LEMMA WithEntry ==
    ASSUME NEW x \in Table, NEW f \in [Edition -> Entries]
    PROVE  LET y == [x EXCEPT !.entry = f] IN
           /\ y \in Table /\ y.entry = f /\ y.freed = x.freed /\ y.due = x.due
BY DEF Table

\* A table that is released.
LEMMA WithoutTable ==
    ASSUME NEW x \in Table
    PROVE  LET y == [x EXCEPT !.freed = TRUE] IN
           /\ y \in Table /\ y.entry = x.entry /\ y.freed = TRUE /\ y.due = x.due
BY DEF Table

\* A statement that finds no table, or a released one.
LEMMA Breaks ==
    ASSUME NamesInv, NEW what \in {"null_pointer", "use_after_free", "garbage_pointer"},
           Break(what), raced' \in BOOLEAN, raced'
    PROVE  NamesInv'
BY SameHeld DEF NamesInv, Break, Shape, FewTables, Building

\* The undefined behaviour a statement may meet.
LEMMA FaultType ==
    ASSUME NEW k PROVE Fault(k) \in {"null_pointer", "use_after_free", "garbage_pointer"}
BY DEF Fault

\* There are finitely many editions, so that the paths held can be counted.
LEMMA EditionIsFinite == IsFiniteSet(Edition)
<1> DEFINE f == [i \in 1 .. 38 |-> Editions[i]]
<1>1. DOMAIN Editions = 1 .. 38
  BY DEF Editions
<1>2. f \in Surjection(1 .. 38, Edition)
  <2>1. Edition = {Editions[i] : i \in 1 .. 38}
    BY <1>1 DEF Edition
  <2>2. f \in [1 .. 38 -> Edition]
    BY <2>1
  <2>3. \A e \in Edition : \E i \in 1 .. 38 : f[i] = e
    BY <2>1
  <2> HIDE DEF f
  <2> QED BY <2>2, <2>3 DEF Surjection
<1>3. IsFiniteSet(1 .. 38)
  <2>1. 1 \in Int /\ 38 \in Int
    OBVIOUS
  <2> QED BY <2>1, FS_Interval, Zenon
<1> QED BY <1>2, <1>3, FS_Surjection

\* And finitely many paths.
LEMMA HeldIsFinite ==
    ASSUME tables \in Seq(Table) PROVE IsFiniteSet(Held)
<1>2. Len(tables) \in Nat
  OBVIOUS
<1>3. IsFiniteSet(1 .. Len(tables))
  BY <1>2, FS_Interval
<1>4. IsFiniteSet((1 .. Len(tables)) \X Edition)
  BY EditionIsFinite, <1>3, FS_Product
<1> QED BY <1>4, FS_Subset DEF Held

\* memset of the new table.
LEMMA ClearNames ==
    ASSUME NamesInv, NEW t \in Threads, Clear(t),
           raced' \in BOOLEAN, ~raced' => ~raced /\ Alone'
    PROVE  NamesInv'
<1>0. /\ th \in [Threads -> Turns] /\ tables \in Seq(Table) /\ th[t].at = "clear"
      /\ current \in 0 .. Len(tables) /\ Len(tables) \in Nat
  BY DEF Clear, NamesInv, Shape
<1>a. CASE Bad(current)
  <2>1. Break(Fault(current))
    BY <1>a DEF Clear
  <2>2. raced'
    BY <1>0, <1>a DEF NamesInv, Served, Local, LocalOf, Bad
  <2> QED BY <2>1, <2>2, Breaks, FaultType
<1>b. CASE ~Bad(current)
  <2> DEFINE f == [e \in Edition |-> "unset"]
             x == [tables[current] EXCEPT !.entry = f]
  <2>0. current \in 1 .. Len(tables) /\ ~tables[current].freed
    BY <1>0, <1>b DEF Bad
  <2>1. /\ tables' = [tables EXCEPT ![current] = x] /\ Move(t, "fill")
        /\ UNCHANGED <<custom, current, paths, broken>>
    BY <1>b DEF Clear
  <2>2. x \in Table /\ x.entry = f /\ ~x.freed /\ x.due = tables[current].due
    <3>1. f \in [Edition -> Entries]
      BY DEF Entries
    <3> HIDE DEF f
    <3>2. tables[current] \in Table
      BY <1>0, <2>0, TableOf
    <3> QED BY <2>0, <3>1, <3>2, WithEntry
  <2> HIDE DEF x
  <2>3. /\ tables' \in Seq(Table) /\ Len(tables') = Len(tables)
        /\ tables'[current] = x
        /\ \A j \in 1 .. Len(tables) : j # current => tables'[j] = tables[j]
    BY <1>0, <2>0, <2>1, <2>2, Updated
  <2>4. /\ th'[t].at = "fill" /\ th'[t].table = th[t].table /\ th'[t].k = th[t].k
        /\ \A s \in Threads : s # t => th'[s] = th[s]
        /\ th' \in [Threads -> Turns]
    BY <1>0, <2>1, Moved DEF Turns
  <2>5. th[t].k = 1
    BY <1>0 DEF NamesInv, Shape
  <2>6. Shape'
    <3>1. \A s \in Threads : /\ th'[s].at \in {"test", "alloc", "clear"} => th'[s].k = 1
                             /\ th'[s].at = "fill" => th'[s].k <= 34
                             /\ th'[s].table <= Len(tables)
      BY <2>4, <2>5 DEF NamesInv, Shape
    <3> QED BY <1>0, <2>1, <2>3, <2>4, <3>1 DEF NamesInv, Shape
  <2>7. FewTables'
    BY <1>0, <2>3, <2>4, OtherBuilding DEF NamesInv
  <2>8. PathsCounted'
    <3>1. Held' \subseteq Held
      <4> SUFFICES ASSUME NEW p \in Held' PROVE p \in Held
        OBVIOUS
      <4>1. p \in (1 .. Len(tables)) \X Edition /\ p[1] \in 1 .. Len(tables) /\ p[2] \in Edition
        BY <2>3 DEF Held
      <4>2. p[1] # current
        <5> SUFFICES ASSUME p[1] = current PROVE FALSE
          OBVIOUS
        <5>1. tables'[p[1]].entry[p[2]] = "unset"
          BY <2>2, <2>3, <4>1
        <5> QED BY <5>1 DEF Held
      <4> QED BY <2>3, <4>1, <4>2 DEF Held
    <3>2. IsFiniteSet(Held)
      BY <1>0, HeldIsFinite
    <3>3. Cardinality(Held') <= Cardinality(Held) /\ Cardinality(Held) \in Nat
          /\ Cardinality(Held') \in Nat
      BY <3>1, <3>2, FS_Subset, FS_CardinalityType
    <3> QED BY <2>1, <3>3 DEF NamesInv, PathsCounted
  <2>9. ~raced' => Served'
    <3> SUFFICES ASSUME ~raced' PROVE Served'
      OBVIOUS
    <3>1. Served /\ Alone'
      BY DEF NamesInv
    <3>2. \A s \in Threads : s # t => th[s].at = "idle"
      BY <1>0, <3>1 DEF Served, Alone, Writes
    <3>3. broken' = "none" /\ Ready'
      BY <2>1, <2>4, <3>1 DEF Served, Ready
    <3>4. Local'
      <4>1. LocalOf(t)
        BY <3>1 DEF Served, Local
      <4>2. current # 0 /\ tables[current].due = custom /\ paths = 0
        BY <1>0, <4>1 DEF LocalOf
      <4>3. Named(x, 0)
        BY <2>2 DEF Named, First
      <4>4. LocalOf(t)'
        BY <2>1, <2>2, <2>3, <2>4, <2>5, <4>2, <4>3 DEF LocalOf, Named, DirOf
      <4>5. \A s \in Threads : s # t => LocalOf(s)'
        BY <2>4, <3>2 DEF LocalOf
      <4> QED BY <4>4, <4>5 DEF Local
    <3>5. Whole'
      <4>1. \A k \in 1 .. Len(tables') : k # current' => tables[k].freed
        BY <1>0, <2>1, <2>3, <3>1, <3>2 DEF Served, Whole
      <4> QED BY <2>1, <2>3, <2>4, <4>1 DEF Whole
    <3> QED BY <3>1, <3>3, <3>4, <3>5 DEF Served
  <2> QED BY <2>6, <2>7, <2>8, <2>9 DEF NamesInv
<1> QED BY <1>a, <1>b

\* The next names, from first to last.
LEMMA MoreNames ==
    ASSUME NEW first \in 1 .. 34, NEW last \in first .. 34
    PROVE  LET set == {DbFiles[k][1] : k \in first .. last} IN
           /\ set \subseteq Edition /\ First(last) = First(first - 1) \cup set
           /\ IsFiniteSet(set) /\ Cardinality(set) <= last - first + 1
           /\ Cardinality(set) \in Nat
<1> DEFINE set == {DbFiles[k][1] : k \in first .. last}
           f == [k \in first .. last |-> DbFiles[k][1]]
<1>0. first .. last \subseteq 1 .. 34 /\ first \in Int /\ last \in Int /\ ~(first > last)
  OBVIOUS
<1>1. set \subseteq Edition
  BY <1>0, NameFacts
<1>2. First(last) = First(first - 1) \cup set
  <2>1. 1 .. last = (1 .. first - 1) \cup (first .. last)
    OBVIOUS
  <2> QED BY <2>1 DEF First
<1>3. f \in Surjection(first .. last, set)
  <2>1. f \in [first .. last -> set]
    OBVIOUS
  <2>2. \A e \in set : \E k \in first .. last : f[k] = e
    OBVIOUS
  <2> HIDE DEF f, set
  <2> QED BY <2>1, <2>2 DEF Surjection
<1>4. IsFiniteSet(first .. last) /\ Cardinality(first .. last) = last - first + 1
  BY <1>0, FS_Interval
<1> HIDE DEF f, set
<1>5. IsFiniteSet(set) /\ Cardinality(set) <= last - first + 1 /\ Cardinality(set) \in Nat
  BY <1>3, <1>4, FS_Surjection, FS_CardinalityType
<1> QED BY <1>1, <1>2, <1>5 DEF set

\* Some of the 34 assignments: each adds a path, and a name.
LEMMA FillNames ==
    ASSUME NamesInv, NEW t \in Threads, Fill(t),
           raced' \in BOOLEAN, ~raced' => ~raced /\ Alone'
    PROVE  NamesInv'
<1>0. /\ th \in [Threads -> Turns] /\ tables \in Seq(Table) /\ th[t].at = "fill"
      /\ current \in 0 .. Len(tables) /\ Len(tables) \in Nat
      /\ th[t].k \in 1 .. 34 /\ paths \in Int
  <2>1. /\ th \in [Threads -> Turns] /\ tables \in Seq(Table) /\ th[t].at = "fill"
        /\ current \in 0 .. Len(tables) /\ paths \in Int
        /\ th[t].at = "fill" => th[t].k <= 34
    BY DEF Fill, NamesInv, Shape, PathsCounted
  <2>2. th[t] \in Turns
    BY <2>1
  <2>3. th[t].k \in 1 .. 35
    BY <2>2 DEF Turns
  <2> QED BY <2>1, <2>3
<1>a. CASE Bad(current)
  <2>1. Break(Fault(current))
    BY <1>a DEF Fill
  <2>2. raced'
    BY <1>0, <1>a DEF NamesInv, Served, Local, LocalOf, Bad, Named
  <2> QED BY <2>1, <2>2, Breaks, FaultType
<1>b. CASE ~Bad(current)
  <2> DEFINE first == th[t].k
             last == IF first + Chunk > 34 THEN 34 ELSE first + Chunk - 1
             set == {DbFiles[k][1] : k \in first .. last}
             f == [e \in Edition |-> IF e \in set THEN Directory ELSE tables[current].entry[e]]
             x == [tables[current] EXCEPT !.entry = f]
  <2>0. current \in 1 .. Len(tables) /\ ~tables[current].freed
    BY <1>0, <1>b DEF Bad
  <2>1. /\ tables' = [tables EXCEPT ![current] = x]
        /\ paths' = paths + last - first + 1
        /\ th' = [th EXCEPT ![t].k = last + 1,
                            ![t].at = IF last = 34 THEN "read" ELSE @]
        /\ UNCHANGED <<custom, current, broken>>
    <3>1. Len(DbFiles) = 34
      BY NameFacts
    <3> QED BY <1>b, <3>1 DEF Fill
  <2>c. last \in first .. 34 /\ first \in 1 .. 34 /\ last \in Int /\ first \in Int
    <3>1. Chunk \in Int /\ Chunk >= 1
      BY NamesConstants
    <3>2. first \in 1 .. 34
      BY <1>0
    <3> HIDE DEF first
    <3> QED BY <3>1, <3>2
  <2>n. /\ set \subseteq Edition /\ First(last) = First(first - 1) \cup set
        /\ IsFiniteSet(set) /\ Cardinality(set) <= last - first + 1
        /\ Cardinality(set) \in Nat
    BY <2>c, MoreNames
  <2>d. /\ Directory \in Entries /\ Directory \notin {"garbage", "unset"}
        /\ tables[current].due = custom => Directory = DirOf(tables[current])
    BY NamesConstants DEF Directory, Entries, Paths, DirOf, NamesInv, Shape
  <2> HIDE DEF last, set
  <2>2. /\ x \in Table /\ x.entry = f /\ ~x.freed /\ x.due = tables[current].due
    <3>1. tables[current] \in Table /\ tables[current].entry \in [Edition -> Entries]
      BY <1>0, <2>0, TableOf
    <3>2. f \in [Edition -> Entries]
      BY <2>d, <3>1
    <3> HIDE DEF f
    <3> QED BY <2>0, <3>1, <3>2, WithEntry
  <2> HIDE DEF x
  <2>3. /\ tables' \in Seq(Table) /\ Len(tables') = Len(tables)
        /\ tables'[current] = x
        /\ \A j \in 1 .. Len(tables) : j # current => tables'[j] = tables[j]
    BY <1>0, <2>0, <2>1, <2>2, Updated
  <2>4. /\ th'[t].at = (IF last = 34 THEN "read" ELSE "fill")
        /\ th'[t].table = th[t].table /\ th'[t].k = last + 1
        /\ \A s \in Threads : s # t => th'[s] = th[s]
        /\ th' \in [Threads -> Turns]
    <3>1. last + 1 \in 1 .. 35
      BY <2>c
    <3>2. th[t] \in Turns
      BY <1>0
    <3> DEFINE y == [th[t] EXCEPT !.k = last + 1,
                                  !.at = IF last = 34 THEN "read" ELSE @]
    <3>3. y \in Turns /\ y.table = th[t].table /\ y.k = last + 1
          /\ y.at = (IF last = 34 THEN "read" ELSE "fill")
      BY <1>0, <3>1, <3>2 DEF Turns
    <3>4. th' = [th EXCEPT ![t] = y]
      BY <2>1
    <3> HIDE DEF y
    <3> QED BY <1>0, <3>3, <3>4
  <2>6. Shape'
    <3>1. \A s \in Threads : /\ th'[s].at \in {"test", "alloc", "clear"} => th'[s].k = 1
                             /\ th'[s].at = "fill" => th'[s].k <= 34
                             /\ th'[s].table <= Len(tables)
      BY <2>4, <2>c DEF NamesInv, Shape
    <3> QED BY <1>0, <2>1, <2>3, <2>4, <3>1 DEF NamesInv, Shape
  <2>7. FewTables'
    BY <1>0, <2>3, <2>4, OtherBuilding DEF NamesInv
  <2>8. PathsCounted'
    <3> DEFINE new == {current} \X set
    <3>1. Held' \subseteq Held \cup new
      <4> SUFFICES ASSUME NEW p \in Held', p \notin new PROVE p \in Held
        OBVIOUS
      <4>1. p \in (1 .. Len(tables)) \X Edition /\ p[1] \in 1 .. Len(tables) /\ p[2] \in Edition
            /\ p = <<p[1], p[2]>>
        BY <2>3 DEF Held
      <4>2. CASE p[1] = current
        <5>1. p[2] \notin set
          BY <4>1, <4>2
        <5>2. tables'[p[1]].entry[p[2]] = tables[p[1]].entry[p[2]]
          BY <2>2, <2>3, <4>1, <4>2, <5>1
        <5> QED BY <2>0, <4>1, <4>2, <5>2 DEF Held
      <4>3. CASE p[1] # current
        BY <2>3, <4>1, <4>3 DEF Held
      <4> QED BY <4>2, <4>3
    <3>2. IsFiniteSet(Held)
      BY <1>0, HeldIsFinite
    <3>3. IsFiniteSet({current}) /\ Cardinality({current}) = 1
      BY FS_Singleton
    <3>4. IsFiniteSet(new) /\ Cardinality(new) = Cardinality({current}) * Cardinality(set)
      BY <2>n, <3>3, FS_Product
    <3>5. /\ IsFiniteSet(Held \cup new)
          /\ Cardinality(Held \cup new)
               = Cardinality(Held) + Cardinality(new) - Cardinality(Held \cap new)
      BY <3>2, <3>4, FS_Union
    <3>6. Cardinality(Held \cap new) \in Nat /\ Cardinality(Held) \in Nat
      BY <3>2, FS_Subset, FS_CardinalityType
    <3>7. IsFiniteSet(Held') /\ Cardinality(Held') <= Cardinality(Held \cup new)
      BY <3>1, <3>5, FS_Subset
    <3>8. Cardinality(Held') \in Nat
      BY <3>7, FS_CardinalityType
    <3>9. Cardinality(new) = Cardinality(set)
      BY <2>n, <3>3, <3>4
    <3> HIDE DEF new
    <3>10. Cardinality(Held) <= paths /\ last \in Int /\ first \in Int
      BY <2>c DEF NamesInv, PathsCounted
    <3>11. Cardinality(Held') <= paths'
      <4>1. Cardinality(Held') <= Cardinality(Held) + Cardinality(set)
        BY <2>n, <3>5, <3>6, <3>7, <3>8, <3>9
      <4>2. Cardinality(Held) + Cardinality(set) <= paths + (last - first + 1)
        BY <1>0, <2>n, <3>6, <3>10
      <4>3. paths + (last - first + 1) = paths' /\ paths' \in Int
        BY <1>0, <2>1, <3>10
      <4> QED BY <2>n, <3>6, <3>8, <4>1, <4>2, <4>3
    <3>12. paths' \in Int
      BY <1>0, <2>1, <3>10
    <3> QED BY <3>11, <3>12 DEF PathsCounted
  <2>9. ~raced' => Served'
    <3> SUFFICES ASSUME ~raced' PROVE Served'
      OBVIOUS
    <3>1. Served /\ Alone'
      BY DEF NamesInv
    <3>2. \A s \in Threads : s # t => th[s].at = "idle"
      BY <1>0, <3>1 DEF Served, Alone, Writes
    <3>3. broken' = "none" /\ Ready'
      BY <2>1, <2>4, <3>1 DEF Served, Ready
    <3>a. /\ current # 0 /\ tables[current].due = custom /\ paths = first - 1
          /\ Named(tables[current], first - 1)
      <4>1. LocalOf(t)
        BY <3>1 DEF Served, Local
      <4> QED BY <1>0, <4>1 DEF LocalOf
    <3>b. Named(x, last) /\ x.due = custom
      <4>1. Directory = DirOf(x)
        BY <2>d, <2>2, <3>a DEF DirOf
      <4>2. DirOf(x) = DirOf(tables[current])
        BY <2>2 DEF DirOf
      <4>3. \A e \in Edition : tables[current].entry[e]
                = IF e \in First(first - 1) THEN DirOf(x) ELSE "unset"
        BY <3>a, <4>2 DEF Named
      <4>4. f = [e \in Edition |-> IF e \in First(last) THEN DirOf(x) ELSE "unset"]
        BY <2>n, <4>1, <4>3
      <4> QED BY <2>2, <3>a, <4>4 DEF Named
    <3>c. paths' = last /\ last \in Int
      <4> HIDE DEF first
      <4> QED BY <2>1, <2>c, <3>a
    <3>4. Local'
      <4>4. LocalOf(t)'
        <5>1. CASE last = 34
          BY <2>1, <2>4, <3>a, <5>1 DEF LocalOf
        <5>2. CASE last # 34
          <6>1. th'[t].at = "fill" /\ th'[t].k - 1 = last
            BY <2>4, <3>c, <5>2
          <6>2. /\ current' # 0 /\ tables'[current'].due = custom'
                /\ Named(tables'[current'], last)
            BY <2>1, <2>3, <3>a, <3>b
          <6> QED BY <3>c, <6>1, <6>2 DEF LocalOf, Named, DirOf
        <5> QED BY <5>1, <5>2
      <4>5. \A s \in Threads : s # t => LocalOf(s)'
        BY <2>4, <3>2 DEF LocalOf
      <4> QED BY <4>4, <4>5 DEF Local
    <3>5. Whole'
      <4>1. \A k \in 1 .. Len(tables') : k # current' => tables'[k].freed
        BY <1>0, <2>1, <2>3, <3>1, <3>2 DEF Served, Whole
      <4>2. th'[t].at \notin {"clear", "fill"} => last = 34
        BY <2>4
      <4>3. last = 34 => Named(tables'[current'], 34) /\ paths' = 34
        BY <2>1, <2>3, <3>b, <3>c
      <4> QED BY <2>1, <2>3, <3>a, <4>1, <4>2, <4>3 DEF Whole, Named
    <3> QED BY <3>1, <3>3, <3>4, <3>5 DEF Served
  <2> QED BY <2>6, <2>7, <2>8, <2>9 DEF NamesInv
<1> QED BY <1>a, <1>b

\* A thread that no other overlaps finds a table that is whole.
LEMMA ReadFacts ==
    ASSUME NamesInv, ~raced, NEW t \in Threads, th[t].at = "read", th[t].want \in Edition
    PROVE  /\ ~Bad(current) /\ Named(tables[current], 34)
           /\ tables[current].entry[th[t].want]
                = IF th[t].want \notin First(34) THEN "unset" ELSE DirOf(tables[current])
<1>1. Alone /\ LocalOf(t) /\ Whole
  BY DEF NamesInv, Served, Local
<1>2. \A s \in Threads : th[s].at \notin {"clear", "fill"}
  BY <1>1 DEF Alone, Writes
<1>3. current # 0 /\ Named(tables[current], 34)
  BY <1>1, <1>2 DEF LocalOf, Whole
<1> QED BY <1>3 DEF Named, Bad

\* The use of a name, which needs the table it was read from.
LEMMA UseFacts ==
    ASSUME NamesInv, ~raced, NEW t \in Threads, th[t].at = "use"
    PROVE  ~Bad(th[t].table)
<1>1. Alone /\ LocalOf(t) /\ Whole
  BY DEF NamesInv, Served, Local
<1>2. \A s \in Threads : th[s].at \notin {"clear", "fill"}
  BY <1>1 DEF Alone, Writes
<1>3. current # 0 /\ Named(tables[current], 34) /\ th[t].table = current
  BY <1>1, <1>2 DEF LocalOf, Whole
<1> QED BY <1>3 DEF Named, Bad

\* filePath = GeoIPDBFileName[type]
LEMMA ReadNames ==
    ASSUME NamesInv, NEW t \in Threads, Read(t),
           raced' \in BOOLEAN, ~raced' => ~raced /\ Alone'
    PROVE  NamesInv'
<1>0. /\ th \in [Threads -> Turns] /\ tables \in Seq(Table) /\ th[t].at = "read"
      /\ current \in 0 .. Len(tables) /\ Len(tables) \in Nat
      /\ th[t] \in Turns /\ th[t].want \in Edition
  BY DEF Read, NamesInv, Shape, Turns
<1> DEFINE d == tables[current].entry[th[t].want]
<1>1. ~raced => ~Bad(current) /\ Named(tables[current], 34)
  BY <1>0, ReadFacts
<1>2. ~raced => d = IF th[t].want \notin First(34) THEN "unset" ELSE DirOf(tables[current])
  BY <1>0, ReadFacts
<1>3. DirOf(tables[current]) \notin {"garbage", "unset"} \/ Bad(current)
  <2>1. CASE ~Bad(current)
    <3>1. current \in 1 .. Len(tables)
      BY <1>0, <2>1 DEF Bad
    <3>2. tables[current].due \in Directories \cup {"unset"}
      BY <1>0, <3>1, TableOf
    <3> QED BY <3>2, NamesConstants DEF DirOf
  <2> QED BY <2>1
<1>a. CASE Bad(current)
  <2>1. Break(Fault(current))
    BY <1>a DEF Read
  <2> QED BY <1>1, <1>a, <2>1, Breaks, FaultType
<1>b. CASE ~Bad(current) /\ d = "garbage"
  <2>1. Break("garbage_pointer")
    BY <1>b DEF Read
  <2>2. raced'
    BY <1>2, <1>3, <1>b
  <2> QED BY <2>1, <2>2, Breaks
<1>c. CASE ~Bad(current) /\ d # "garbage"
  <2> DEFINE x == [th[t] EXCEPT !.at = IF d = "unset" THEN "idle" ELSE "use",
                                !.dir = d, !.table = current, !.due = tables[current].due]
  <2>0. current \in 1 .. Len(tables) /\ ~tables[current].freed
    BY <1>0, <1>c DEF Bad
  <2>1. th' = [th EXCEPT ![t] = x] /\ UNCHANGED <<custom, current, tables, paths, broken>>
    BY <1>c DEF Read
  <2>2. d \in Entries /\ tables[current].due \in Directories \cup {"unset"}
    BY <1>0, <2>0, TableOf
  <2>3. /\ x \in Turns /\ x.at = (IF d = "unset" THEN "idle" ELSE "use")
        /\ x.dir = d /\ x.table = current /\ x.due = tables[current].due
        /\ x.want = th[t].want /\ x.k = th[t].k
    <3> HIDE DEF d
    <3>1. current \in Nat
      BY <2>0
    <3> QED BY <1>0, <2>2, <3>1 DEF Turns
  <2> HIDE DEF x
  <2>4. th'[t] = x /\ (\A s \in Threads : s # t => th'[s] = th[s]) /\ th' \in [Threads -> Turns]
    BY <1>0, <2>1, <2>3
  <2>5. Shape'
    <3>1. \A s \in Threads : /\ th'[s].at \in {"test", "alloc", "clear"} => th'[s].k = 1
                             /\ th'[s].at = "fill" => th'[s].k <= 34
                             /\ th'[s].table <= Len(tables)
      BY <1>0, <2>0, <2>3, <2>4 DEF NamesInv, Shape
    <3> QED BY <1>0, <2>1, <2>4, <3>1 DEF NamesInv, Shape
  <2>6. FewTables' /\ PathsCounted'
    BY <2>1, <2>3, <2>4, SameHeld, OtherBuilding DEF NamesInv
  <2>7. ~raced' => Served'
    <3> SUFFICES ASSUME ~raced' PROVE Served'
      OBVIOUS
    <3>1. Served /\ Alone' /\ ~raced
      BY DEF NamesInv
    <3>2. broken' = "none"
      BY <2>1, <3>1 DEF Served
    <3>3. Ready'
      <4>1. x.dir = IF x.want \notin First(34) THEN "unset"
                    ELSE IF x.due = "unset" THEN DataDir ELSE x.due
        BY <1>2, <2>3, <3>1 DEF DirOf
      <4> QED BY <2>4, <3>1, <4>1 DEF Served, Ready
    <3>4. Local'
      <4>1. LocalOf(t)'
        BY <2>0, <2>1, <2>3, <2>4 DEF LocalOf
      <4> QED BY <2>1, <2>4, <3>1, <4>1, OtherLocal DEF Served
    <3>5. Whole'
      <4>1. x.at \in {"idle", "use"}
        BY <2>3
      <4>2. \A s \in Threads : \A w \in {"clear", "fill", "free"} :
                th'[s].at = w <=> th[s].at = w
        BY <1>0, <2>4, <4>1
      <4>3. \A s \in Threads : th'[s].at = "free" => th'[s] = th[s]
        BY <2>4, <4>1
      <4>4. \A s \in Threads : th[s].at = "free" => th'[s] = th[s]
        BY <1>0, <2>4
      <4> QED BY <2>1, <3>1, <4>2, <4>3, <4>4 DEF Served, Whole
    <3> QED BY <3>1, <3>2, <3>3, <3>4, <3>5 DEF Served
  <2> QED BY <2>5, <2>6, <2>7 DEF NamesInv
<1> QED BY <1>a, <1>b, <1>c

\* stat, or GeoIP_open of the path.
LEMMA UseNames ==
    ASSUME NamesInv, NEW t \in Threads, Use(t),
           raced' \in BOOLEAN, ~raced' => ~raced /\ Alone'
    PROVE  NamesInv'
<1>0. th \in [Threads -> Turns] /\ th[t].at = "use"
  BY DEF Use, NamesInv, Shape
<1>a. CASE Bad(th[t].table)
  <2>1. Break("use_after_free")
    BY <1>a DEF Use
  <2>2. raced'
    BY <1>0, <1>a, UseFacts DEF NamesInv, Shape
  <2> QED BY <2>1, <2>2, Breaks
<1>b. CASE ~Bad(th[t].table)
  <2>1. Move(t, "idle") /\ UNCHANGED <<custom, current, tables, paths, broken>>
    BY <1>b DEF Use
  <2>2. /\ th'[t].at = "idle" /\ th'[t].table = th[t].table /\ th'[t].dir = th[t].dir
        /\ th'[t].want = th[t].want /\ th'[t].due = th[t].due
        /\ \A s \in Threads : s # t => th'[s] = th[s]
    BY <1>0, <2>1, Moved
  <2>3. th' \in [Threads -> Turns]
    BY <1>0, <2>1, Moved DEF Turns
  <2>4. Shape' /\ PathsCounted'
    BY <2>1, <2>2, <2>3, SameHeld DEF NamesInv, Shape
  <2>5. FewTables'
    BY <2>1, <2>2, OtherBuilding DEF NamesInv
  <2>6. ~raced' => Served'
    <3> SUFFICES ASSUME ~raced' PROVE Served'
      OBVIOUS
    <3>1. Served /\ Alone'
      BY DEF NamesInv
    <3>2. broken' = "none" /\ Ready'
      BY <1>0, <2>1, <2>2, <3>1 DEF Served, Ready
    <3>3. LocalOf(t)'
      BY <2>2 DEF LocalOf
    <3>4. Local'
      BY <2>1, <2>2, <3>1, <3>3, OtherLocal DEF Served
    <3>5. Whole'
      BY <1>0, <2>1, <2>2, <3>1 DEF Served, Whole
    <3> QED BY <3>1, <3>2, <3>4, <3>5 DEF Served
  <2> QED BY <2>4, <2>5, <2>6 DEF NamesInv
<1> QED BY <1>a, <1>b

\* The beginning of GeoIP_cleanup.
LEMMA BeginCleanupNames ==
    ASSUME NamesInv, NEW t \in Threads, BeginCleanup(t),
           raced' \in BOOLEAN, ~raced' => ~raced /\ Alone'
    PROVE  NamesInv'
<1>1. /\ th \in [Threads -> Turns] /\ UNCHANGED <<custom, current, tables, paths, broken>>
      /\ th' = [th EXCEPT ![t] = [Resting EXCEPT !.at = "detach", !.table = current]]
      /\ th[t].at = "idle" /\ current \in 0 .. Len(tables) /\ Len(tables) \in Nat
  BY DEF BeginCleanup, NamesInv, Shape
<1>2. /\ th'[t] \in Turns /\ th'[t].at = "detach" /\ th'[t].k = 1 /\ th'[t].table = current
      /\ \A s \in Threads : s # t => th'[s] = th[s]
      /\ th' \in [Threads -> Turns]
  <2> DEFINE x == [Resting EXCEPT !.at = "detach", !.table = current]
  <2>0. current \in Nat
    BY <1>1
  <2>1. x \in Turns /\ x.at = "detach" /\ x.k = 1 /\ x.table = current
    BY <2>0, Detaching
  <2> HIDE DEF x
  <2>2. th' = [th EXCEPT ![t] = x]
    BY <1>1 DEF x
  <2> QED BY <1>1, <2>1, <2>2
<1>3. Shape'
  BY <1>1, <1>2 DEF NamesInv, Shape
<1>4. FewTables' /\ PathsCounted'
  BY <1>1, <1>2, SameHeld, OtherBuilding DEF NamesInv
<1>5. ~raced' => Served'
  <2> SUFFICES ASSUME ~raced' PROVE Served'
    OBVIOUS
  <2>1. Served /\ Alone'
    BY DEF NamesInv
  <2>2. broken' = "none" /\ Ready'
    BY <1>1, <1>2, <2>1 DEF Served, Ready
  <2>3. LocalOf(t)'
    BY <1>1, <1>2 DEF LocalOf
  <2>4. Local'
    BY <1>1, <1>2, <2>1, <2>3, OtherLocal DEF Served
  <2>5. Whole'
    BY <1>1, <1>2, <2>1 DEF Served, Whole
  <2> QED BY <2>1, <2>2, <2>4, <2>5 DEF Served
<1> QED BY <1>3, <1>4, <1>5 DEF NamesInv

\* GeoIPDBFileName = NULL
LEMMA DetachNames ==
    ASSUME NamesInv, NEW t \in Threads, Detach(t),
           raced' \in BOOLEAN, ~raced' => ~raced /\ Alone'
    PROVE  NamesInv'
<1>1. /\ th \in [Threads -> Turns] /\ UNCHANGED <<custom, tables, paths, broken>>
      /\ th[t].at = "detach" /\ Move(t, "free") /\ current' = 0
      /\ current \in 0 .. Len(tables) /\ Len(tables) \in Nat
  BY DEF Detach, NamesInv, Shape
<1>2. /\ th'[t].at = "free" /\ th'[t].table = th[t].table
      /\ \A s \in Threads : s # t => th'[s] = th[s]
      /\ th' \in [Threads -> Turns]
  BY <1>1, Moved DEF Turns
<1>3. Shape' /\ PathsCounted'
  BY <1>1, <1>2, SameHeld DEF NamesInv, Shape
<1>4. FewTables'
  BY <1>1, <1>2, OtherBuilding DEF NamesInv
<1>5. ~raced' => Served'
  <2> SUFFICES ASSUME ~raced' PROVE Served'
    OBVIOUS
  <2>1. Served /\ Alone'
    BY DEF NamesInv
  <2>2. \A s \in Threads : s # t => th[s].at = "idle"
    BY <1>1, <2>1 DEF Served, Alone, Writes
  <2>3. broken' = "none" /\ Ready'
    BY <1>1, <1>2, <2>1 DEF Served, Ready
  <2>4. th[t].table = current /\ Whole
    BY <1>1, <2>1 DEF Served, Local, LocalOf
  <2>5. /\ current # 0 => Named(tables[current], 34)
        /\ paths = IF current = 0 THEN 0 ELSE 34
    BY <1>1, <2>2, <2>4 DEF Whole
  <2>6. Local'
    <3>1. LocalOf(t)'
      BY <1>1, <1>2, <2>4, <2>5 DEF LocalOf, Named, DirOf
    <3>2. \A s \in Threads : s # t => LocalOf(s)'
      BY <1>2, <2>2 DEF LocalOf
    <3> QED BY <3>1, <3>2 DEF Local
  <2>7. Whole'
    <3>1. \A k \in 1 .. Len(tables) : ~tables[k].freed => k = current
      BY <1>1, <2>2, <2>4 DEF Whole
    <3> QED BY <1>1, <1>2, <2>4, <3>1 DEF Whole
  <2> QED BY <2>1, <2>3, <2>6, <2>7 DEF Served
<1> QED BY <1>3, <1>4, <1>5 DEF NamesInv

\* Each of the 34 names is of an edition of its own.
LEMMA AllNamed ==
    IsFiniteSet(First(34)) /\ Cardinality(First(34)) = 34 /\ First(34) \subseteq Edition
<1> DEFINE f == [k \in 1 .. 34 |-> DbFiles[k][1]]
<1>1. f \in [1 .. 34 -> First(34)]
  BY DEF First
<1>2. \A e \in First(34) : \E k \in 1 .. 34 : f[k] = e
  BY DEF First
<1>3. \A i, j \in 1 .. 34 : f[i] = f[j] => i = j
  BY NameFacts
<1>4. First(34) \subseteq Edition
  BY NameFacts DEF First
<1>5. IsFiniteSet(1 .. 34) /\ Cardinality(1 .. 34) = 34
  <2>1. 1 \in Int /\ 34 \in Int /\ ~(1 > 34) /\ 34 - 1 + 1 = 34
    OBVIOUS
  <2> QED BY <2>1, FS_Interval, Zenon
<1> HIDE DEF f
<1>6. f \in Surjection(1 .. 34, First(34))
  BY <1>1, <1>2 DEF Surjection
<1>7. f \in Injection(1 .. 34, First(34))
  BY <1>1, <1>3 DEF Injection, IsInjective
<1> QED BY <1>4, <1>5, <1>6, <1>7, FS_Surjection

\* A table that is released gives back what it holds.
LEMMA ReleaseNames ==
    ASSUME NamesInv, NEW t \in Threads, Release(t),
           raced' \in BOOLEAN, ~raced' => ~raced /\ Alone'
    PROVE  NamesInv'
<1> DEFINE k == th[t].table
<1>0. /\ th \in [Threads -> Turns] /\ tables \in Seq(Table) /\ th[t].at = "free"
      /\ Len(tables) \in Nat /\ k \in 0 .. Len(tables) /\ paths \in Int
  BY DEF Release, NamesInv, Shape, Turns, PathsCounted
<1>f. ~raced => Served /\ LocalOf(t) /\ \A s \in Threads : s # t => th[s].at = "idle"
  BY <1>0 DEF NamesInv, Served, Local, Alone, Writes
<1>s. Resting \in Turns /\ Resting.at = "idle" /\ Resting.table = 0 /\ Resting.k = 1
  BY RestingType DEF Resting
<1>a. CASE k # 0 /\ Bad(k)
  <2>1. Break("use_after_free")
    BY <1>a DEF Release
  <2>2. raced'
    BY <1>0, <1>a, <1>f DEF LocalOf, Named, Bad
  <2> QED BY <2>1, <2>2, Breaks
<1>b. CASE k = 0
  <2>1. /\ UNCHANGED <<custom, current, tables, broken>>
        /\ paths' = paths - Cardinality({}) /\ th' = [th EXCEPT ![t] = Resting]
    BY <1>b DEF Release
  <2>2. paths' = paths
    BY <1>0, <2>1, FS_EmptySet
  <2>3. /\ th'[t] = Resting /\ (\A s \in Threads : s # t => th'[s] = th[s])
        /\ th' \in [Threads -> Turns]
    BY <1>0, <1>s, <2>1
  <2>4. Shape' /\ PathsCounted'
    BY <1>0, <1>s, <2>1, <2>2, <2>3, SameHeld DEF NamesInv, Shape
  <2>5. FewTables'
    BY <1>s, <2>1, <2>3, OtherBuilding DEF NamesInv
  <2>6. ~raced' => Served'
    <3> SUFFICES ASSUME ~raced' PROVE Served'
      OBVIOUS
    <3>1. Served /\ LocalOf(t) /\ Alone' /\ \A s \in Threads : s # t => th[s].at = "idle"
      BY <1>f
    <3>2. broken' = "none" /\ Ready'
      BY <1>s, <2>1, <2>3, <3>1 DEF Served, Ready
    <3>3. LocalOf(t)'
      BY <1>s, <2>3 DEF LocalOf
    <3>4. Local'
      BY <2>1, <2>2, <2>3, <3>1, <3>3, OtherLocal DEF Served
    <3>5. current = 0 /\ paths = 0
      BY <1>0, <1>b, <3>1 DEF LocalOf
    <3>6. \A j \in 1 .. Len(tables) : tables[j].freed
      <4> SUFFICES ASSUME NEW j \in 1 .. Len(tables), ~tables[j].freed PROVE FALSE
        OBVIOUS
      <4>1. PICK s \in Threads : th[s].at = "free" /\ th[s].table = j
        BY <3>1, <3>5 DEF Served, Whole
      <4>2. s = t
        BY <3>1, <4>1
      <4> QED BY <1>0, <1>b, <4>1, <4>2
    <3>7. Whole'
      BY <2>1, <2>2, <3>5, <3>6 DEF Whole
    <3> QED BY <3>1, <3>2, <3>4, <3>7 DEF Served
  <2> QED BY <2>4, <2>5, <2>6 DEF NamesInv
<1>c. CASE k # 0 /\ ~Bad(k)
  <2> DEFINE x == [tables[k] EXCEPT !.freed = TRUE]
             left == Set(tables[k])
  <2>0. k \in 1 .. Len(tables) /\ ~tables[k].freed
    BY <1>0, <1>c DEF Bad
  <2>1. /\ UNCHANGED <<custom, current, broken>>
        /\ tables' = [tables EXCEPT ![k] = x]
        /\ paths' = paths - Cardinality(left) /\ th' = [th EXCEPT ![t] = Resting]
    BY <1>c DEF Release
  <2>2. x \in Table /\ x.entry = tables[k].entry /\ x.freed = TRUE /\ x.due = tables[k].due
    <3>1. tables[k] \in Table
      BY <1>0, <2>0, TableOf
    <3> QED BY <3>1, WithoutTable
  <2> HIDE DEF x
  <2>3. /\ tables' \in Seq(Table) /\ Len(tables') = Len(tables)
        /\ tables'[k] = x
        /\ \A j \in 1 .. Len(tables) : j # k => tables'[j] = tables[j]
    BY <1>0, <2>0, <2>1, <2>2, Updated
  <2>4. /\ th'[t] = Resting /\ (\A s \in Threads : s # t => th'[s] = th[s])
        /\ th' \in [Threads -> Turns]
    BY <1>0, <1>s, <2>1
  <2>5. Shape'
    <3>1. \A s \in Threads : /\ th'[s].at \in {"test", "alloc", "clear"} => th'[s].k = 1
                             /\ th'[s].at = "fill" => th'[s].k <= 34
                             /\ th'[s].table <= Len(tables)
      BY <1>0, <1>s, <2>4 DEF NamesInv, Shape
    <3> QED BY <1>0, <2>1, <2>3, <2>4, <3>1 DEF NamesInv, Shape
  <2>6. FewTables'
    BY <1>s, <2>3, <2>4, OtherBuilding DEF NamesInv
  <2>7. PathsCounted'
    <3> DEFINE old == {k} \X left
    <3>1. old \subseteq Held /\ Held' = Held \ old
      <4>1. old \subseteq Held
        BY <2>0 DEF Held, Set
      <4>2. ASSUME NEW p \in Held' PROVE p \in Held \ old
        <5>1. p \in (1 .. Len(tables)) \X Edition /\ p[1] \in 1 .. Len(tables)
              /\ ~tables'[p[1]].freed
          BY <2>3, <4>2 DEF Held
        <5>2. p[1] # k
          BY <2>2, <2>3, <5>1
        <5>3. p \in Held
          BY <2>3, <4>2, <5>1, <5>2 DEF Held
        <5> QED BY <5>2, <5>3
      <4>3. ASSUME NEW p \in Held, p \notin old PROVE p \in Held'
        <5>1. p \in (1 .. Len(tables)) \X Edition /\ p[1] \in 1 .. Len(tables)
              /\ p[2] \in Edition /\ p = <<p[1], p[2]>>
              /\ tables[p[1]].entry[p[2]] \notin {"garbage", "unset"}
          BY <4>3 DEF Held
        <5>2. p[1] # k
          BY <4>3, <5>1 DEF Set
        <5> QED BY <2>3, <4>3, <5>1, <5>2 DEF Held
      <4> QED BY <4>1, <4>2, <4>3
    <3>2. IsFiniteSet(Held)
      BY <1>0, HeldIsFinite
    <3>3. IsFiniteSet({k}) /\ Cardinality({k}) = 1
      BY FS_Singleton
    <3>4. IsFiniteSet(left)
      <4>1. left \subseteq Edition
        BY DEF Set
      <4> QED BY <4>1, EditionIsFinite, FS_Subset
    <3>5. IsFiniteSet(old) /\ Cardinality(old) = Cardinality({k}) * Cardinality(left)
      BY <3>3, <3>4, FS_Product
    <3>6. Cardinality(left) \in Nat /\ Cardinality(Held) \in Nat
      BY <3>2, <3>4, FS_CardinalityType
    <3>7. Cardinality(old) = Cardinality(left)
      BY <3>3, <3>5, <3>6
    <3>8. Held \cap old = old
      BY <3>1
    <3> HIDE DEF old, left
    <3>9. Cardinality(Held') = Cardinality(Held) - Cardinality(old)
      <4>1. Cardinality(Held \ old) = Cardinality(Held) - Cardinality(Held \cap old)
        BY <3>2, FS_Difference
      <4> QED BY <3>1, <3>8, <4>1
    <3>10. Cardinality(Held) <= paths
      BY DEF NamesInv, PathsCounted
    <3> QED BY <1>0, <2>1, <3>6, <3>7, <3>9, <3>10 DEF PathsCounted
  <2>8. ~raced' => Served'
    <3> SUFFICES ASSUME ~raced' PROVE Served'
      OBVIOUS
    <3>1. Served /\ LocalOf(t) /\ Alone' /\ \A s \in Threads : s # t => th[s].at = "idle"
      BY <1>f
    <3>2. broken' = "none" /\ Ready'
      BY <1>s, <2>1, <2>4, <3>1 DEF Served, Ready
    <3>3. Local'
      BY <1>s, <2>4, <3>1 DEF Local, LocalOf
    <3>4. current = 0 /\ paths = 34 /\ Named(tables[k], 34)
      BY <1>0, <1>c, <3>1 DEF LocalOf
    <3>5. left = First(34)
      <4>1. tables[k].due \in Directories \cup {"unset"}
        BY <1>0, <2>0, TableOf
      <4>2. DirOf(tables[k]) \notin {"garbage", "unset"}
        BY <4>1, NamesConstants DEF DirOf
      <4> QED BY <3>4, <4>2, AllNamed DEF Named, Set
    <3>6. paths' = 0
      <4> HIDE DEF left
      <4> QED BY <2>1, <3>4, <3>5, AllNamed
    <3>7. \A j \in 1 .. Len(tables) : tables'[j].freed
      <4> SUFFICES ASSUME NEW j \in 1 .. Len(tables), ~tables'[j].freed PROVE FALSE
        OBVIOUS
      <4>1. j # k /\ ~tables[j].freed
        BY <2>0, <2>2, <2>3
      <4>2. PICK s \in Threads : th[s].at = "free" /\ th[s].table = j
        BY <3>1, <3>4, <4>1 DEF Served, Whole
      <4>3. s = t
        BY <3>1, <4>2
      <4> QED BY <4>1, <4>2, <4>3
    <3>8. Whole'
      BY <2>1, <2>3, <3>4, <3>6, <3>7 DEF Whole
    <3> QED BY <3>1, <3>2, <3>3, <3>8 DEF Served
  <2> QED BY <2>5, <2>6, <2>7, <2>8 DEF NamesInv
<1> QED BY <1>a, <1>b, <1>c

\* Every call of a thread, as long as no other overlaps it.
LEMMA CallNames ==
    ASSUME NamesInv, NEW t \in Threads, Call(t), raced' \in BOOLEAN,
           ~raced' => ~raced /\ Alone'
               /\ (custom' # custom => \A s \in Threads : th[s].at = "idle")
    PROVE  NamesInv'
<1>1. ASSUME NEW d \in Directories, SetupCustomDirectory(t, d) PROVE NamesInv'
  BY <1>1, SetDirectoryNames
<1>2. ASSUME NEW e \in Wanted, Ask(t, e) PROVE NamesInv'
  BY <1>2, AskNames, WantedAssumption
<1>3. ASSUME Setup(t) PROVE NamesInv'
  BY <1>3, TestNames, AllocNames, ClearNames, FillNames DEF Setup
<1> QED
  BY <1>1, <1>2, <1>3, ReadNames, UseNames, BeginCleanupNames, DetachNames,
     ReleaseNames DEF Call

\* A step of something else.
LEMMA SameNames ==
    ASSUME NamesInv, UNCHANGED nvars PROVE NamesInv'
<1>1. UNCHANGED <<custom, current, tables, paths, th, broken, raced>>
  BY DEF nvars
<1>2. Shape' /\ FewTables' /\ PathsCounted'
  BY <1>1, SameHeld DEF NamesInv, Shape, FewTables, Building
<1>3. ~raced' => Served'
  BY <1>1 DEF NamesInv, Served, Alone, Ready, Local, LocalOf, Whole, Writes, Named
<1> QED BY <1>2, <1>3 DEF NamesInv

\* A step of the threads of another program.
LEMMA NextNames ==
    ASSUME NamesInv, NNext PROVE NamesInv'
<1>1. PICK t \in Threads : Call(t)
  BY DEF NNext
<1>2. raced \in BOOLEAN
  BY DEF NamesInv, Shape
<1>3. raced' \in BOOLEAN
  BY <1>2 DEF NNext
<1>4. ASSUME ~raced'
      PROVE  ~raced /\ Alone' /\ (custom' # custom => \A s \in Threads : th[s].at = "idle")
  <2>1. ~raced /\ ~Overlap' /\ (custom' # custom => ~\E s \in Threads : th[s].at # "idle")
    BY <1>4 DEF NNext
  <2>2. Alone'
    BY <2>1 DEF Overlap, Alone
  <2> QED BY <2>1, <2>2
<1> QED BY <1>1, <1>3, <1>4, CallNames

\* The invariant says what the run checks.
LEMMA NamesServe ==
    ASSUME NamesInv PROVE TableServes
<1>1. NamesTypeOK
  <2>1. IsFiniteSet(Building) /\ IsFiniteSet(Held)
    BY NamesConstants, HeldIsFinite, FS_Subset DEF Building, NamesInv, Shape
  <2>2. Cardinality(Building) \in Nat /\ Cardinality(Held) \in Nat
        /\ Cardinality(Threads) \in Nat /\ MaxTables \in Nat
    BY <2>1, NamesConstants, FS_CardinalityType
  <2>3. Len(tables) \in Nat /\ Len(tables) <= MaxTables + Cardinality(Threads)
    BY <2>2 DEF NamesInv, Shape, FewTables
  <2>4. paths \in Nat
    BY <2>2 DEF NamesInv, PathsCounted
  <2>5. \A t \in Threads : th[t].k \in 1 .. Len(DbFiles) + 1
    <3>1. \A t \in Threads : th[t].k \in 1 .. 35
      BY DEF NamesInv, Shape, Turns
    <3> QED BY <3>1, NameFacts
  <2> QED BY <2>3, <2>4, <2>5 DEF NamesInv, Shape, NamesTypeOK
<1>2. ASSUME ~raced PROVE broken = "none" /\ NamesReady /\ NamesKept
  <2>1. Served
    BY <1>2 DEF NamesInv
  <2>2. First(34) = NamedEdition
    BY NameFacts DEF First, NamedEdition
  <2>3. NamesReady
    BY <2>1, <2>2 DEF Served, Ready, NamesReady
  <2>4. NamesKept
    <3> SUFFICES ASSUME \A t \in Threads : th[t].at = "idle"
                 PROVE  /\ paths = (IF current = 0 THEN 0 ELSE Len(DbFiles))
                        /\ \A k \in DOMAIN tables : tables[k].freed <=> k # current
      BY DEF NamesKept
    <3>1. Whole /\ DOMAIN tables = 1 .. Len(tables) /\ current \in 0 .. Len(tables)
      BY <2>1 DEF Served, NamesInv, Shape
    <3>2. paths = (IF current = 0 THEN 0 ELSE 34) /\ (current # 0 => ~tables[current].freed)
      BY <3>1 DEF Whole, Named
    <3>3. \A k \in 1 .. Len(tables) : k # current => tables[k].freed
      BY <3>1 DEF Whole
    <3>4. 0 \notin 1 .. Len(tables)
      OBVIOUS
    <3> QED BY <3>1, <3>2, <3>3, <3>4, NameFacts
  <2> QED BY <2>1, <2>3, <2>4 DEF Served
<1> QED BY <1>1, <1>2 DEF TableServes

-----------------------------------------------------------------------------
(* The programs *)

\* Where a program is, by what it is, and what it has to do with the edition i.
Stages == {"options", "names", "file", "types", "avail", "available", "open", "show",
          "resolve", "close", "done"}
Course ==
    /\ prog \in Programs
    /\ opt.dir \in Directories \cup {"none"} /\ opt.host \in Hosts
    /\ disk \in Installed \cup {<<>>}
    /\ pc \in (IF prog = "threads" THEN {"threads"}
               ELSE IF prog = "test-geoip" THEN {"record", "told"} ELSE Stages)
    /\ type \in 1 .. 39
    /\ pc \notin {"types", "done"} => type <= 38
    /\ pc = "file" => ~Looped
    /\ pc \in {"types", "avail", "available", "open"} => Looped

\* A program is the only thread, and the table it built is for the directory
\* that it was told.
OneThread == prog # "threads" => ~raced /\ \A t \in Threads : t # Main => th[t].at = "idle"
OwnTable ==
    prog # "threads" =>
        /\ current # 0 => tables[current].due = custom
        /\ pc = "options" => current = 0 /\ custom = "unset"
        /\ pc \notin {"options", "record", "told"} =>
              custom = IF opt.dir = "none" THEN "unset" ELSE opt.dir
        /\ pc \in {"options", "names"} /\ th[Main].at = "idle" =>
              th[Main].k = 1 /\ th[Main].table = 0
        /\ th[Main].at = "use" => th[Main].dir = Directory /\ th[Main].want \in First(34)
        /\ pc \in {"avail", "open"} => th[Main].want = Editions[type]
        /\ pc \notin {"names", "avail", "open"} => th[Main].at = "idle"

\* The file of the edition i is there, once it was found to be; and main's
\* last call of the library left its path behind.
Present ==
    /\ Editions[type] \in First(34)
    /\ <<Directory, FileName(Editions[type])>> \in DOMAIN disk
FileFound ==
    /\ pc \in {"available", "open"} => Present
    /\ Looped /\ pc \in {"show", "resolve", "close"} => Present /\ th[Main].dir = Directory
    /\ pc \in {"show", "resolve"} => Path \in DOMAIN disk /\ gi = disk[Path]

\* The handle.
Handle ==
    /\ gi \in Edition \cup {"none"} /\ handles = (IF gi = "none" THEN 0 ELSE 1)
    /\ pc \in {"show", "resolve"} => gi # "none"
    /\ pc \notin {"show", "resolve", "close"} => gi = "none"

\* What is shown, and which of it is not released.
Texts == {"not_available", "info", "null", "unresolved", "silence", "found", "not_found",
          "invalid"}
Lines == [type : Edition, file : GivenFiles \cup {NoFile} \cup
            ((Entries \cup {"none"}) \X {FileName(e) : e \in First(34)}), what : Texts]
Kept == {k \in DOMAIN lines : lines[k].what = "found" /\ lines[k].type # "COUNTRY_V6"}
Shown ==
    /\ opt.file \in GivenFiles \cup {NoFile}
    /\ lines \in Seq(Lines)
    /\ results = IF prog = "geoiplookup6" THEN Cardinality(Kept) ELSE 0

\* The resolver.
Addresses == {0, NoAddress, INADDR_NONE} \cup {h.text : h \in Hosts}
             \cup {h.answer : h \in Hosts} \cup {h.answer6 : h \in Hosts}
Looks == [at : {"idle", "query", "test", "return", "returned"}, addr : Addresses,
          buflength : Nat, result : {0, ERANGE}, phe : Addresses, herr : Int,
          value : Addresses]
TooSmall(h) == h.needs > FirstBuffer /\ FALSE \in TellsRange
Asked(h) ==
    /\ look.at \in {"query", "test"} =>
          InetAddr(h) = INADDR_NONE /\ look.buflength >= FirstBuffer
    /\ look.at = "test" =>
          \/ /\ look.result = 0 /\ look.phe = h.answer
          \/ /\ look.result = ERANGE /\ look.phe = NoAddress
             /\ h.needs > look.buflength
             /\ look.herr # ERANGE => FALSE \in TellsRange
    /\ look.at = "return" =>
          look.addr \in IF InetAddr(h) # INADDR_NONE THEN {h.text}
                        ELSE {h.answer} \cup (IF TooSmall(h) THEN {NoAddress} ELSE {})
    /\ ResolvedTo(h)
Looking ==
    /\ look \in Looks
    /\ buffers = IF look.at \in {"idle", "returned"} THEN 0 ELSE 1
    /\ pc # "resolve" => look.at = "idle"
    /\ IF prog = "geoiplookup6"
       THEN look.at \in {"idle", "returned"} /\ ResolvedToV6(opt.host)
       ELSE Asked(opt.host)

ProgramInv == Course /\ OneThread /\ OwnTable /\ FileFound /\ Handle /\ Shown /\ Looking

\* A call of a thread leaves the others where they are.
LEMMA OthersStay ==
    ASSUME NEW t, Call(t), th \in [Threads -> Turns]
    PROVE  \A s \in Threads : s # t => th'[s] = th[s]
BY DEF Call, SetupCustomDirectory, Ask, Setup, Test, Alloc, Clear, Fill, Read, Use,
       BeginCleanup, Detach, Release, Move, Break

\* The thread of a program.
LEMMA MainType == Main \in Threads
BY ProgramConstants

\* A call of the only thread overlaps no other.
LEMMA MainCalls ==
    ASSUME NamesInv, OneThread, prog # "threads", Call(Main), UNCHANGED <<raced, prog>>,
           custom' # custom => th[Main].at = "idle"
    PROVE  NamesInv' /\ OneThread'
<1>1. ~raced /\ (\A t \in Threads : t # Main => th[t].at = "idle") /\ raced' = raced
  BY DEF OneThread
<1>2. \A t \in Threads : t # Main => th'[t] = th[t]
  BY OthersStay DEF NamesInv, Shape
<1>3. Alone'
  BY <1>1, <1>2 DEF Alone, Writes
<1>4. raced' \in BOOLEAN
  BY <1>1 DEF NamesInv, Shape
<1>5. custom' # custom => \A t \in Threads : th[t].at = "idle"
  BY <1>1
<1>6. NamesInv'
  BY <1>1, <1>3, <1>4, <1>5, MainType, CallNames
<1> QED BY <1>1, <1>2, <1>6 DEF OneThread

\* What the statements of the table do for a program.
LEMMA MainSetup ==
    ASSUME NamesInv, OwnTable, prog # "threads", Setup(Main)
    PROVE  /\ custom' = custom /\ th'[Main].at \in {"alloc", "clear", "fill", "read"}
           /\ th'[Main].want = th[Main].want
           /\ current' # 0 => tables'[current'].due = custom
<1>0. /\ th \in [Threads -> Turns] /\ tables \in Seq(Table) /\ Len(tables) \in Nat
      /\ current \in 0 .. Len(tables) /\ (current # 0 => tables[current].due = custom)
      /\ th[Main] \in Turns
  BY MainType DEF NamesInv, Shape, OwnTable
<1>1. CASE Test(Main)
  BY <1>0, <1>1, MainType, Moved DEF Test
<1>2. CASE Alloc(Main)
  <2>1. NewTable.due = custom
    BY DEF NewTable
  <2> HIDE DEF NewTable
  <2>2. tables'[Len(tables) + 1] = NewTable
    <3>1. NewTable \in Table
      BY DEF NewTable, Table, NamesInv, Shape, Entries
    <3> QED BY <1>0, <1>2, <3>1 DEF Alloc
  <2> QED BY <1>0, <1>2, <2>1, <2>2, MainType, Moved DEF Alloc
<1>3. CASE Clear(Main)
  <2>1. CASE Bad(current)
    BY <1>0, <1>3, <2>1 DEF Clear, Break
  <2>2. CASE ~Bad(current)
    <3> DEFINE f == [e \in Edition |-> "unset"]
               x == [tables[current] EXCEPT !.entry = f]
    <3>1. tables' = [tables EXCEPT ![current] = x] /\ Move(Main, "fill")
          /\ UNCHANGED <<custom, current>> /\ current \in 1 .. Len(tables)
      BY <1>0, <1>3, <2>2 DEF Clear, Bad
    <3>2. x.due = tables[current].due
      BY <1>0, <3>1, TableOf DEF Table
    <3> HIDE DEF x
    <3>3. tables'[current] = x
      BY <1>0, <3>1
    <3> QED BY <1>0, <3>1, <3>2, <3>3, MainType, Moved
  <2> QED BY <2>1, <2>2
<1>4. CASE Fill(Main)
  <2>1. CASE Bad(current)
    BY <1>0, <1>4, <2>1 DEF Fill, Break
  <2>2. CASE ~Bad(current)
    <3> DEFINE first == th[Main].k
               last == IF first + Chunk > Len(DbFiles) THEN Len(DbFiles)
                       ELSE first + Chunk - 1
               set == {DbFiles[k][1] : k \in first .. last}
               f == [e \in Edition |->
                        IF e \in set THEN Directory ELSE tables[current].entry[e]]
               x == [tables[current] EXCEPT !.entry = f]
    <3>1. /\ tables' = [tables EXCEPT ![current] = x]
          /\ th' = [th EXCEPT ![Main].k = last + 1,
                              ![Main].at = IF last = Len(DbFiles) THEN "read" ELSE @]
          /\ UNCHANGED <<custom, current>> /\ current \in 1 .. Len(tables)
          /\ th[Main].at = "fill"
      BY <1>0, <1>4, <2>2, SMTT(30) DEF Fill, Bad
    <3> HIDE DEF f, last
    <3>2. x.due = tables[current].due
      BY <1>0, <3>1, TableOf DEF Table
    <3> HIDE DEF x
    <3>3. tables'[current] = x
      BY <1>0, <3>1
    <3>4. th'[Main].at \in {"fill", "read"} /\ th'[Main].want = th[Main].want
      BY <1>0, <3>1, MainType DEF Turns
    <3> QED BY <1>0, <3>1, <3>2, <3>3, <3>4
  <2> QED BY <2>1, <2>2
<1> QED BY <1>1, <1>2, <1>3, <1>4 DEF Setup

\* Only an edition without a name of its own has no name.
LEMMA MainRead ==
    ASSUME NamesInv, OneThread, OwnTable, prog # "threads", Read(Main)
    PROVE  /\ UNCHANGED <<custom, current, tables>> /\ th'[Main].want = th[Main].want
           /\ \/ th'[Main].at = "idle" /\ th'[Main].want \notin First(34)
              \/ /\ th'[Main].at = "use" /\ th'[Main].dir = Directory
                 /\ th'[Main].want \in First(34)
<1> DEFINE d == tables[current].entry[th[Main].want]
<1>0. /\ th \in [Threads -> Turns] /\ th[Main].at = "read"
      /\ th[Main] \in Turns /\ th[Main].want \in Edition
      /\ (current # 0 => tables[current].due = custom)
  BY MainType DEF Read, NamesInv, Shape, Turns, OwnTable
<1>1. /\ ~Bad(current)
      /\ d = IF th[Main].want \notin First(34) THEN "unset" ELSE DirOf(tables[current])
  BY <1>0, MainType, ReadFacts DEF OneThread
<1>2. /\ d # "garbage" /\ (d # "unset" => th[Main].want \in First(34) /\ d = Directory)
      /\ d = "unset" => th[Main].want \notin First(34)
  <2>1. current # 0
    BY <1>1 DEF Bad
  <2>2. DirOf(tables[current]) = Directory
    BY <1>0, <2>1 DEF DirOf, Directory
  <2>3. Directory \notin {"garbage", "unset"}
    BY NamesConstants DEF Directory, NamesInv, Shape
  <2> QED BY <1>1, <2>2, <2>3
<1> DEFINE x == [th[Main] EXCEPT !.at = IF d = "unset" THEN "idle" ELSE "use",
                                 !.dir = d, !.table = current, !.due = tables[current].due]
<1>3. th' = [th EXCEPT ![Main] = x] /\ UNCHANGED <<custom, current, tables>>
  BY <1>1, <1>2 DEF Read
<1>4. x.at = (IF d = "unset" THEN "idle" ELSE "use") /\ x.dir = d /\ x.want = th[Main].want
  <2> HIDE DEF d
  <2> QED BY <1>0 DEF Turns
<1> HIDE DEF x, d
<1>5. th'[Main] = x
  BY <1>0, <1>3, MainType
<1> QED BY <1>2, <1>3, <1>4, <1>5

\* The name that is used is the one that was read.
LEMMA MainUse ==
    ASSUME NamesInv, OneThread, OwnTable, prog # "threads", Use(Main)
    PROVE  /\ UNCHANGED <<custom, current, tables>> /\ th'[Main].want = th[Main].want
           /\ th'[Main].at = "idle" /\ th'[Main].dir = th[Main].dir
           /\ th'[Main].dir = Directory /\ th'[Main].want \in First(34)
<1>1. ~Bad(th[Main].table) /\ th[Main].at = "use" /\ th \in [Threads -> Turns]
  BY MainType, UseFacts DEF OneThread, Use, NamesInv, Shape
<1>2. Move(Main, "idle") /\ UNCHANGED <<custom, current, tables>>
  BY <1>1 DEF Use
<1> QED BY <1>1, <1>2, MainType, Moved DEF OwnTable

PInv == NamesInv /\ ProgramInv

\* The parts of the invariant, for the steps that leave them as they are.
LEMMA SameLooking ==
    ASSUME Looking, UNCHANGED <<look, buffers, prog, opt>>, pc' # "resolve" => look.at = "idle"
    PROVE  Looking'
BY DEF Looking, Asked, ResolvedTo, ResolvedToV6

\* The lines.
LEMMA SameShown ==
    ASSUME Shown, UNCHANGED <<lines, results, prog, opt>>
    PROVE  Shown'
BY DEF Shown, Kept

\* The handle.
LEMMA SameHandle ==
    ASSUME Handle, UNCHANGED <<gi, handles>>, pc' \in {"show", "resolve"} => gi # "none",
           pc' \notin {"show", "resolve", "close"} => gi = "none"
    PROVE  Handle'
BY DEF Handle

\* The stages are those of geoiplookup and geoiplookup6.
LEMMA OneProgram ==
    ASSUME Course, pc \in Stages
    PROVE  prog # "threads" /\ prog # "test-geoip" /\ prog \in {"geoiplookup", "geoiplookup6"}
BY DEF Course, Stages, Programs

\* One lemma per action: the invariant after it.
LEMMA SetDirectoryStep ==
    ASSUME PInv, SetDirectory PROVE PInv'
<1>1. /\ pc = "options" /\ pc' = "names"
      /\ UNCHANGED <<look, buffers, prog, opt, disk, type, gi, handles, results, lines,
                     refused, told>>
      /\ IF opt.dir = "none" THEN UNCHANGED nvars
         ELSE SetupCustomDirectory(Main, opt.dir) /\ UNCHANGED raced
  BY DEF SetDirectory, Goto, lvars
<1>2. Course /\ OneThread /\ OwnTable /\ FileFound /\ Handle /\ Shown /\ Looking /\ NamesInv
  BY DEF PInv, ProgramInv
<1>3. prog # "threads" /\ pc \in Stages
  BY <1>1, <1>2, OneProgram DEF Stages
<1>4. current = 0 /\ custom = "unset" /\ th[Main].at = "idle"
      /\ th[Main].k = 1 /\ th[Main].table = 0
  BY <1>1, <1>2, <1>3 DEF OwnTable
<1>5. NamesInv' /\ OneThread' /\ UNCHANGED <<current, th>>
      /\ custom' = IF opt.dir = "none" THEN "unset" ELSE opt.dir
  <2>1. CASE opt.dir = "none"
    BY <1>1, <1>2, <1>4, <2>1, SameNames DEF nvars, OneThread
  <2>2. CASE opt.dir # "none"
    <3>1. opt.dir \in Directories
      BY <1>2, <2>2 DEF Course
    <3>2. SetupCustomDirectory(Main, opt.dir) /\ UNCHANGED raced
      BY <1>1, <2>2
    <3>3. Call(Main)
      BY <3>1, <3>2 DEF Call
    <3>4. NamesInv' /\ OneThread'
      BY <1>1, <1>2, <1>3, <1>4, <3>2, <3>3, MainCalls
    <3> QED BY <2>2, <3>2, <3>4 DEF SetupCustomDirectory
  <2> QED BY <2>1, <2>2
<1>6. Course'
  BY <1>1, <1>2 DEF Course, Stages, Looped
<1>7. OwnTable'
  BY <1>1, <1>4, <1>5 DEF OwnTable
<1>8. FileFound' /\ Handle' /\ Shown' /\ Looking'
  BY <1>1, <1>2, SameShown, SameHandle, SameLooking DEF FileFound, Handle, Looking
<1> QED BY <1>5, <1>6, <1>7, <1>8 DEF PInv, ProgramInv

\* CallSetup
LEMMA CallSetupStep ==
    ASSUME PInv, CallSetup PROVE PInv'
<1>1. /\ pc = "names" /\ th[Main].at = "idle" /\ UNCHANGED lvars /\ UNCHANGED pvars
      /\ UNCHANGED <<custom, current, tables, paths, broken, raced>>
      /\ th' = [th EXCEPT ![Main].at = "test"]
  BY DEF CallSetup
<1>a. UNCHANGED <<look, buffers, prog, opt, disk, pc, type, gi, handles, results, lines,
                  refused, told>>
  BY <1>1 DEF lvars, pvars
<1>2. Course /\ OneThread /\ OwnTable /\ FileFound /\ Handle /\ Shown /\ Looking /\ NamesInv
  BY DEF PInv, ProgramInv
<1>3. prog # "threads" /\ pc \in Stages /\ th[Main].k = 1 /\ th[Main].table = 0
  BY <1>1, <1>2, OneProgram DEF Stages, OwnTable
<1>4. /\ th \in [Threads -> Turns] /\ Move(Main, "test")
      /\ \A s \in Threads : s # Main => th[s].at = "idle"
  BY <1>1, <1>2, <1>3 DEF NamesInv, Shape, OneThread, Move
<1>5. /\ th'[Main].at = "test" /\ th'[Main].k = 1 /\ th'[Main].table = 0
      /\ (\A s \in Threads : s # Main => th'[s] = th[s]) /\ th' \in [Threads -> Turns]
  BY <1>3, <1>4, MainType, Moved DEF Turns
<1>6. NamesInv'
  <2>1. Shape' /\ PathsCounted'
    BY <1>1, <1>2, <1>5, SameHeld DEF NamesInv, Shape
  <2>2. FewTables'
    BY <1>1, <1>2, <1>5, MainType, OtherBuilding DEF NamesInv
  <2>3. ~raced' => Served'
    <3> SUFFICES ASSUME ~raced' PROVE Served'
      OBVIOUS
    <3>1. Served /\ Alone'
      BY <1>1, <1>2, <1>4, <1>5 DEF NamesInv, Alone, Writes
    <3>2. broken' = "none" /\ Ready'
      BY <1>1, <1>5, <3>1 DEF Served, Ready
    <3>3. LocalOf(Main)'
      BY <1>5 DEF LocalOf
    <3>4. Local'
      BY <1>1, <1>5, <3>1, <3>3, MainType, OtherLocal DEF Served
    <3>5. Whole'
      BY <1>1, <1>5, <3>1 DEF Served, Whole
    <3> QED BY <3>1, <3>2, <3>4, <3>5 DEF Served
  <2> QED BY <2>1, <2>2, <2>3 DEF NamesInv
<1>7. Course' /\ OneThread'
  BY <1>1, <1>a, <1>2, <1>5 DEF Course, OneThread, Looped
<1>8. OwnTable'
  BY <1>1, <1>a, <1>2, <1>5 DEF OwnTable
<1>9. FileFound' /\ Handle' /\ Shown' /\ Looking'
  BY <1>1, <1>a, <1>2, SameShown, SameHandle, SameLooking DEF FileFound, Handle, Looking
<1> QED BY <1>6, <1>7, <1>8, <1>9 DEF PInv, ProgramInv

\* SetupNames
LEMMA SetupNamesStep ==
    ASSUME PInv, SetupNames PROVE PInv'
<1>1. pc = "names" /\ Setup(Main) /\ UNCHANGED raced /\ UNCHANGED lvars /\ UNCHANGED pvars
  BY DEF SetupNames
<1>a. UNCHANGED <<look, buffers, prog, opt, disk, pc, type, gi, handles, results, lines,
                  refused, told>>
  BY <1>1 DEF lvars, pvars
<1>2. Course /\ OneThread /\ OwnTable /\ FileFound /\ Handle /\ Shown /\ Looking /\ NamesInv
  BY DEF PInv, ProgramInv
<1>3. prog # "threads" /\ pc \in Stages /\ Call(Main)
  BY <1>1, <1>2, OneProgram DEF Stages, Call
<1>4. /\ custom' = custom /\ th'[Main].at \in {"alloc", "clear", "fill", "read"}
      /\ current' # 0 => tables'[current'].due = custom
  BY <1>1, <1>2, <1>3, MainSetup
<1>5. NamesInv' /\ OneThread'
  BY <1>1, <1>a, <1>2, <1>3, <1>4, MainCalls
<1>6. Course'
  BY <1>a, <1>2 DEF Course, Looped
<1>7. OwnTable'
  BY <1>1, <1>a, <1>2, <1>4 DEF OwnTable
<1>8. FileFound' /\ Handle' /\ Shown' /\ Looking'
  BY <1>1, <1>a, <1>2, SameShown, SameHandle, SameLooking DEF FileFound, Handle, Looking
<1> QED BY <1>5, <1>6, <1>7, <1>8 DEF PInv, ProgramInv

\* NamesReturned
LEMMA NamesReturnedStep ==
    ASSUME PInv, NamesReturned PROVE PInv'
<1>1. /\ pc = "names" /\ th[Main].at = "read" /\ pc' = IF Looped THEN "types" ELSE "file"
      /\ th' = [th EXCEPT ![Main] = Resting]
      /\ UNCHANGED <<custom, current, tables, paths, broken, raced, look, buffers, prog, opt,
                     disk, type, gi, handles, results, lines, refused, told>>
  BY DEF NamesReturned, Goto, Looped, lvars
<1>2. Course /\ OneThread /\ OwnTable /\ FileFound /\ Handle /\ Shown /\ Looking /\ NamesInv
  BY DEF PInv, ProgramInv
<1>3. prog # "threads" /\ pc \in Stages
  BY <1>1, <1>2, OneProgram DEF Stages
<1>4. /\ th \in [Threads -> Turns]
      /\ \A s \in Threads : s # Main => th[s].at = "idle"
  BY <1>2, <1>3 DEF NamesInv, Shape, OneThread
<1>5. /\ th'[Main] \in Turns /\ th'[Main].at = "idle" /\ th'[Main].k = 1 /\ th'[Main].table = 0
      /\ (\A s \in Threads : s # Main => th'[s] = th[s]) /\ th' \in [Threads -> Turns]
  <2>1. Resting \in Turns /\ Resting.at = "idle" /\ Resting.k = 1 /\ Resting.table = 0
    BY RestingType DEF Resting
  <2> QED BY <1>1, <1>4, <2>1, MainType
<1>6. NamesInv'
  <2>1. Shape' /\ PathsCounted'
    BY <1>1, <1>2, <1>5, SameHeld DEF NamesInv, Shape
  <2>2. FewTables'
    BY <1>1, <1>2, <1>5, MainType, OtherBuilding DEF NamesInv
  <2>3. ~raced' => Served'
    <3> SUFFICES ASSUME ~raced' PROVE Served'
      OBVIOUS
    <3>1. Served /\ Alone'
      BY <1>1, <1>2, <1>4, <1>5 DEF NamesInv, Alone, Writes
    <3>2. broken' = "none" /\ Ready'
      BY <1>1, <1>5, <3>1 DEF Served, Ready
    <3>3. LocalOf(Main)'
      BY <1>5 DEF LocalOf
    <3>4. Local'
      BY <1>1, <1>5, <3>1, <3>3, MainType, OtherLocal DEF Served
    <3>5. Whole'
      BY <1>1, <1>5, <3>1 DEF Served, Whole
    <3> QED BY <3>1, <3>2, <3>4, <3>5 DEF Served
  <2> QED BY <2>1, <2>2, <2>3 DEF NamesInv
<1>7. Course' /\ OneThread'
  BY <1>1, <1>2, <1>3, <1>5 DEF Course, OneThread, Looped, Stages
<1>8. OwnTable'
  BY <1>1, <1>2, <1>5 DEF OwnTable
<1>9. FileFound' /\ Handle' /\ Shown' /\ Looking'
  BY <1>1, <1>2, SameShown, SameHandle, SameLooking DEF FileFound, Handle, Looking
<1> QED BY <1>6, <1>7, <1>8, <1>9 DEF PInv, ProgramInv

\* A program asks for the name of an edition.
LEMMA MainAsks ==
    ASSUME NamesInv, OneThread, prog # "threads", NEW e \in Edition, Ask(Main, e),
           UNCHANGED <<raced, prog>>
    PROVE  NamesInv' /\ OneThread'
<1>1. /\ ~raced /\ (\A t \in Threads : t # Main => th[t].at = "idle") /\ raced' = raced
      /\ th \in [Threads -> Turns] /\ raced \in BOOLEAN
  BY DEF OneThread, NamesInv, Shape
<1>2. \A t \in Threads : t # Main => th'[t] = th[t]
  BY <1>1 DEF Ask
<1>3. Alone'
  BY <1>1, <1>2 DEF Alone, Writes
<1>4. NamesInv'
  BY <1>1, <1>3, MainType, AskNames
<1> QED BY <1>1, <1>2, <1>4 DEF OneThread

\* What asking changes.
LEMMA AskDoes ==
    ASSUME NamesInv, NEW e \in Edition, Ask(Main, e)
    PROVE  th'[Main].at = "test" /\ th'[Main].want = e /\ UNCHANGED <<custom, current, tables>>
<1> DEFINE x == [Resting EXCEPT !.at = "test", !.want = e]
<1>1. x.at = "test" /\ x.want = e
  BY Asking
<1>2. th' = [th EXCEPT ![Main] = x] /\ UNCHANGED <<custom, current, tables>>
  BY DEF Ask
<1> HIDE DEF x
<1>3. th \in [Threads -> Turns]
  BY DEF NamesInv, Shape
<1> QED BY <1>1, <1>2, <1>3, MainType

\* The 38 editions, each with a number of its own.
LEMMA EditionFacts ==
    /\ Len(Editions) = 38 /\ DOMAIN Editions = 1 .. 38 /\ NumDbTypes = 39
    /\ \A i \in 1 .. 38 : Editions[i] \in Edition
    /\ \A i, j \in 1 .. 38 : Editions[i] = Editions[j] => i = j
    /\ "none" \notin Edition
<1>1. DOMAIN Editions = 1 .. 38 /\ Len(Editions) = 38
  BY DEF Editions
<1>2. \A i, j \in 1 .. 38 : Editions[i] = Editions[j] => i = j
  BY DEF Editions
<1>3. "none" \notin Edition
  <2>1. \A i \in 1 .. 38 : Editions[i] # "none"
    BY DEF Editions
  <2> QED BY <1>1, <2>1 DEF Edition
<1>4. \A i \in 1 .. 38 : Editions[i] \in Edition
  BY <1>1 DEF Edition
<1> QED BY <1>1, <1>2, <1>3, <1>4 DEF NumDbTypes

\* The number of an edition (the type of the database that -f opens).
LEMMA EditionNumber ==
    ASSUME NEW e \in Edition, NEW n, n = CHOOSE k \in DOMAIN Editions : Editions[k] = e
    PROVE  n \in 1 .. 38 /\ Editions[n] = e
<1>1. \E k \in DOMAIN Editions : Editions[k] = e
  BY DEF Edition
<1>2. n \in DOMAIN Editions /\ Editions[n] = e
  BY <1>1
<1> QED BY <1>2, EditionFacts

\* The editions of what is installed.
LEMMA DiskFacts ==
    ASSUME Course, NEW p \in DOMAIN disk PROVE disk[p] \in Edition
<1>1. disk # <<>>
  OBVIOUS
<1> QED BY <1>1, ProgramConstants DEF Course

\* The loop's type is a number of an edition, except at its end.
LEMMA TypeInRange ==
    ASSUME Course, pc \notin {"types", "done"}
    PROVE  type \in 1 .. 38 /\ Editions[type] \in Edition
<1>1. type \in 1 .. 38
  BY DEF Course
<1> QED BY <1>1, EditionFacts

\* A line that is added.
LEMMA LineType ==
    ASSUME Course, Shown, NamesInv, pc \notin {"types", "done"}, NEW what \in Texts,
           Looped => Editions[type] \in First(34)
    PROVE  /\ Line(what) \in Lines /\ Line(what).type = Editions[type]
           /\ Line(what).file = Path /\ Line(what).what = what
<1>1. Editions[type] \in Edition
  BY TypeInRange
<1>2. th[Main].dir \in Entries \cup {"none"}
  BY MainType DEF NamesInv, Shape, Turns
<1>3. Path \in GivenFiles \cup {NoFile} \cup
            ((Entries \cup {"none"}) \X {FileName(e) : e \in First(34)})
  BY <1>2 DEF Path, Shown, Looped
<1> HIDE DEF Path
<1> QED BY <1>1, <1>3 DEF Line, Lines

\* What geoiplookup6 keeps grows with the lines that were found.
LEMMA ShownMore ==
    ASSUME lines \in Seq(Lines), NEW x \in Lines, lines' = Append(lines, x)
    PROVE  /\ lines' \in Seq(Lines)
           /\ Cardinality(Kept) \in Nat
           /\ Cardinality(Kept') = Cardinality(Kept)
                + (IF x.what = "found" /\ x.type # "COUNTRY_V6" THEN 1 ELSE 0)
<1> DEFINE n == Len(lines)
<1>1. /\ n \in Nat /\ DOMAIN lines = 1 .. n /\ DOMAIN lines' = 1 .. n + 1
      /\ lines' \in Seq(Lines) /\ lines'[n + 1] = x /\ \A k \in 1 .. n : lines'[k] = lines[k]
  OBVIOUS
<1>2. IsFiniteSet(Kept) /\ Cardinality(Kept) \in Nat
  <2>1. Kept \subseteq 1 .. n
    BY <1>1 DEF Kept
  <2>2. IsFiniteSet(1 .. n)
    BY <1>1, FS_Interval
  <2> QED BY <2>1, <2>2, FS_Subset, FS_CardinalityType
<1>3. n + 1 \notin Kept
  BY <1>1 DEF Kept
<1> HIDE DEF n
<1>4. Kept' = IF x.what = "found" /\ x.type # "COUNTRY_V6" THEN Kept \cup {n + 1} ELSE Kept
  BY <1>1 DEF Kept
<1>5. Cardinality(Kept \cup {n + 1}) = Cardinality(Kept) + 1
  BY <1>2, <1>3, FS_AddElement
<1> QED BY <1>1, <1>2, <1>4, <1>5

\* OpenFile
LEMMA OpenFileStep ==
    ASSUME PInv, OpenFile PROVE PInv'
<1>1. /\ pc = "file" /\ UNCHANGED nvars
      /\ UNCHANGED <<look, buffers, prog, opt, disk, results, refused, told>>
  BY DEF OpenFile, lvars
<1>a. UNCHANGED <<custom, current, tables, paths, th, broken, raced>>
  BY <1>1 DEF nvars
<1>2. Course /\ OneThread /\ OwnTable /\ FileFound /\ Handle /\ Shown /\ Looking /\ NamesInv
  BY DEF PInv, ProgramInv
<1>3. prog # "threads" /\ pc \in Stages /\ ~Looped /\ type <= 38 /\ Path = opt.file
      /\ gi = "none" /\ handles = 0
  BY <1>1, <1>2, OneProgram DEF Stages, Course, Path, Looped, Handle
<1>4. NamesInv' /\ OneThread'
  BY <1>1, <1>a, <1>2, SameNames DEF OneThread
<1>5. CASE opt.file \in DOMAIN disk /\ Opens(disk[opt.file])
  <2>1. /\ gi' = disk[opt.file] /\ handles' = handles + 1 /\ lines' = lines /\ pc' = "show"
        /\ type' = CHOOSE k \in DOMAIN Editions : Editions[k] = disk[opt.file]
    BY <1>5 DEF OpenFile, Goto
  <2>2. disk[opt.file] \in Edition
    BY <1>2, <1>5, DiskFacts
  <2>3. type' \in 1 .. 38 /\ gi' # "none"
    BY <2>1, <2>2, EditionFacts, EditionNumber
  <2>4. Course'
    <3>1. type' \in 1 .. 39 /\ type' <= 38
      BY <2>3
    <3> QED BY <1>1, <1>2, <1>3, <2>1, <3>1 DEF Course, Looped, Stages
  <2>5. OwnTable'
    BY <1>1, <1>a, <1>2, <2>1 DEF OwnTable
  <2>6. FileFound'
    BY <1>1, <1>3, <1>5, <2>1 DEF FileFound, Looped, Path
  <2>7. Handle'
    BY <1>3, <2>1, <2>2, <2>3 DEF Handle
  <2>8. Shown' /\ Looking'
    BY <1>1, <1>2, <2>1, SameShown, SameLooking DEF Looking
  <2> QED BY <1>4, <2>4, <2>5, <2>6, <2>7, <2>8 DEF PInv, ProgramInv
<1>6. CASE ~(opt.file \in DOMAIN disk /\ Opens(disk[opt.file]))
  <2>1. /\ lines' = Append(lines, Line("not_available")) /\ pc' = "close"
        /\ UNCHANGED <<gi, handles, type>>
    BY <1>6 DEF OpenFile, Goto
  <2>2. Line("not_available") \in Lines /\ Line("not_available").what = "not_available"
    BY <1>1, <1>2, <1>3, LineType DEF Texts
  <2>3. Shown'
    <3>1. lines' \in Seq(Lines) /\ Cardinality(Kept') = Cardinality(Kept)
      BY <1>2, <2>1, <2>2, ShownMore DEF Shown
    <3> QED BY <1>1, <1>2, <3>1 DEF Shown
  <2>4. Course'
    BY <1>1, <1>2, <1>3, <2>1 DEF Course, Looped, Stages
  <2>5. OwnTable'
    BY <1>1, <1>a, <1>2, <2>1 DEF OwnTable
  <2>6. FileFound' /\ Handle' /\ Looking'
    BY <1>1, <1>2, <1>3, <2>1, SameHandle, SameLooking DEF FileFound, Looped, Looking
  <2> QED BY <1>4, <2>3, <2>4, <2>5, <2>6 DEF PInv, ProgramInv
<1> QED BY <1>5, <1>6

\* NextType
LEMMA NextTypeStep ==
    ASSUME PInv, NextType PROVE PInv'
<1>1. /\ pc = "types"
      /\ UNCHANGED <<look, buffers, prog, opt, disk, type, gi, handles, results, lines,
                     refused, told>>
      /\ IF type = 39 THEN pc' = "done" /\ UNCHANGED nvars
         ELSE Ask(Main, Editions[type]) /\ UNCHANGED raced /\ pc' = "avail"
  BY EditionFacts DEF NextType, lvars, Goto
<1>2. Course /\ OneThread /\ OwnTable /\ FileFound /\ Handle /\ Shown /\ Looking /\ NamesInv
  BY DEF PInv, ProgramInv
<1>3. prog # "threads" /\ pc \in Stages /\ Looped /\ gi = "none"
  BY <1>1, <1>2, OneProgram DEF Stages, Course, Handle
<1>4. Course'
  BY <1>1, <1>2, <1>3 DEF Course, Stages, Looped
<1>5. FileFound' /\ Handle' /\ Shown' /\ Looking'
  BY <1>1, <1>2, <1>3, SameShown, SameHandle, SameLooking DEF FileFound, Looking
<1>6. CASE type = 39
  <2>1. UNCHANGED <<custom, current, tables, paths, th, broken, raced>> /\ pc' = "done"
    BY <1>1, <1>6 DEF nvars
  <2>2. NamesInv' /\ OneThread'
    BY <1>1, <1>2, <1>6, <2>1, SameNames DEF OneThread
  <2>3. OwnTable'
    BY <1>1, <1>2, <2>1 DEF OwnTable
  <2> QED BY <1>4, <1>5, <2>2, <2>3 DEF PInv, ProgramInv
<1>7. CASE type # 39
  <2>1. Ask(Main, Editions[type]) /\ UNCHANGED raced /\ pc' = "avail"
    BY <1>1, <1>7
  <2>2. Editions[type] \in Edition
    <3>1. type \in 1 .. 38
      BY <1>2, <1>7 DEF Course
    <3> QED BY <3>1, EditionFacts
  <2>3. NamesInv' /\ OneThread'
    BY <1>1, <1>2, <1>3, <2>1, <2>2, MainAsks
  <2>4. th'[Main].at = "test" /\ th'[Main].want = Editions[type]
        /\ UNCHANGED <<custom, current, tables>>
    BY <1>2, <2>1, <2>2, AskDoes
  <2>5. OwnTable'
    BY <1>1, <1>2, <1>3, <2>1, <2>4 DEF OwnTable
  <2> QED BY <1>4, <1>5, <2>3, <2>5 DEF PInv, ProgramInv
<1> QED BY <1>6, <1>7

\* CallOpenType
LEMMA CallOpenTypeStep ==
    ASSUME PInv, CallOpenType PROVE PInv'
<1>1. /\ pc = "available" /\ pc' = "open" /\ Ask(Main, Editions[type]) /\ UNCHANGED raced
      /\ UNCHANGED <<look, buffers, prog, opt, disk, type, gi, handles, results, lines,
                     refused, told>>
  BY DEF CallOpenType, lvars, Goto
<1>2. Course /\ OneThread /\ OwnTable /\ FileFound /\ Handle /\ Shown /\ Looking /\ NamesInv
  BY DEF PInv, ProgramInv
<1>3. prog # "threads" /\ pc \in Stages /\ Looped /\ gi = "none" /\ Present
  BY <1>1, <1>2, OneProgram DEF Stages, Course, Handle, FileFound
<1>4. Course'
  BY <1>1, <1>2, <1>3 DEF Course, Stages, Looped
<1>5. Editions[type] \in Edition
  BY <1>1, <1>2, TypeInRange
<1>6. NamesInv' /\ OneThread'
  BY <1>1, <1>2, <1>3, <1>5, MainAsks
<1>7. th'[Main].at = "test" /\ th'[Main].want = Editions[type]
      /\ UNCHANGED <<custom, current, tables>>
  BY <1>1, <1>2, <1>5, AskDoes
<1>8. OwnTable'
  BY <1>1, <1>2, <1>3, <1>7 DEF OwnTable
<1>9. Present'
  BY <1>1, <1>3, <1>7 DEF Present, Directory
<1>10. FileFound' /\ Handle' /\ Shown' /\ Looking'
  BY <1>1, <1>2, <1>3, <1>9, SameShown, SameHandle, SameLooking DEF FileFound, Looking
<1> QED BY <1>4, <1>6, <1>8, <1>10 DEF PInv, ProgramInv

\* FindName
LEMMA FindNameStep ==
    ASSUME PInv, FindName PROVE PInv'
<1> DEFINE unset == th'[Main].at = "idle"
<1>1. /\ pc \in {"avail", "open"} /\ (Setup(Main) \/ Read(Main))
      /\ type' = (IF unset THEN type + 1 ELSE type)
      /\ pc' = (IF unset THEN "types" ELSE pc)
      /\ UNCHANGED <<raced, look, buffers, prog, opt, disk, gi, handles, results, lines,
                     refused, told>>
  BY DEF FindName, lvars, Goto
<1>2. Course /\ OneThread /\ OwnTable /\ FileFound /\ Handle /\ Shown /\ Looking /\ NamesInv
  BY DEF PInv, ProgramInv
<1>3. prog # "threads" /\ pc \in Stages /\ Looped /\ gi = "none" /\ type \in 1 .. 38
  BY <1>1, <1>2, OneProgram, TypeInRange DEF Stages, Course, Handle
<1>4. /\ custom' = custom /\ th'[Main].want = th[Main].want
      /\ current' # 0 => tables'[current'].due = custom
      /\ th'[Main].at = "use" => th'[Main].dir = Directory /\ th'[Main].want \in First(34)
  <2>1. CASE Setup(Main)
    BY <1>2, <1>3, <2>1, MainSetup
  <2>2. CASE Read(Main)
    BY <1>2, <1>3, <2>2, MainRead DEF OwnTable
  <2> QED BY <1>1, <2>1, <2>2
<1>5. Call(Main)
  BY <1>1 DEF Call
<1>6. NamesInv' /\ OneThread'
  BY <1>1, <1>2, <1>3, <1>4, <1>5, MainCalls
<1>7. Course'
  <2>1. type' \in 1 .. 39 /\ (~unset => type' <= 38)
    BY <1>1, <1>3
  <2> QED BY <1>1, <1>2, <1>3, <2>1 DEF Course, Stages, Looped
<1>8. OwnTable'
  BY <1>1, <1>2, <1>3, <1>4 DEF OwnTable, Directory
<1>9. pc' = "open" => Present'
  BY <1>1, <1>2, <1>4 DEF FileFound, Present, Directory
<1>10. FileFound' /\ Handle' /\ Shown' /\ Looking'
  BY <1>1, <1>2, <1>3, <1>9, SameShown, SameHandle, SameLooking DEF FileFound, Looking
<1> QED BY <1>6, <1>7, <1>8, <1>10 DEF PInv, ProgramInv

\* The path main finds is that of the edition, in the directory of the table.
LEMMA PathIsFound ==
    ASSUME PInv, pc \in {"avail", "open"}, th[Main].at = "use"
    PROVE  Path = <<Directory, FileName(Editions[type])>> /\ Editions[type] \in First(34)
<1>1. Course /\ OwnTable /\ Looped /\ prog # "threads"
  BY OneProgram DEF PInv, ProgramInv, Course, Stages
<1> QED BY <1>1 DEF OwnTable, Path, Looped

\* Stat
LEMMA StatStep ==
    ASSUME PInv, Stat PROVE PInv'
<1> DEFINE there == Path \in DOMAIN disk
<1>1. /\ pc = "avail" /\ Use(Main)
      /\ type' = (IF there THEN type ELSE type + 1)
      /\ pc' = (IF there THEN "available" ELSE "types")
      /\ UNCHANGED <<raced, look, buffers, prog, opt, disk, gi, handles, results, lines,
                     refused, told>>
  BY DEF Stat, lvars, Goto
<1>2. Course /\ OneThread /\ OwnTable /\ FileFound /\ Handle /\ Shown /\ Looking /\ NamesInv
  BY DEF PInv, ProgramInv
<1>3. prog # "threads" /\ pc \in Stages /\ Looped /\ gi = "none" /\ type \in 1 .. 38
  BY <1>1, <1>2, OneProgram, TypeInRange DEF Stages, Course, Handle
<1>4. UNCHANGED <<custom, current, tables>> /\ th'[Main].at = "idle"
  BY <1>1, <1>2, <1>3, MainUse
<1>5. Call(Main)
  BY <1>1 DEF Call
<1>6. NamesInv' /\ OneThread'
  BY <1>1, <1>2, <1>3, <1>4, <1>5, MainCalls
<1>7. there => Present'
  <2>1. Path = <<Directory, FileName(Editions[type])>> /\ Editions[type] \in First(34)
    BY <1>1, PathIsFound DEF Use
  <2> QED BY <1>1, <1>4, <2>1 DEF Present, Directory
<1> HIDE DEF there
<1>8. Course'
  <2>1. type' \in 1 .. 39 /\ (there => type' <= 38)
    BY <1>1, <1>3
  <2> QED BY <1>1, <1>2, <1>3, <2>1 DEF Course, Stages, Looped
<1>9. OwnTable'
  BY <1>1, <1>2, <1>3, <1>4 DEF OwnTable
<1>10. FileFound' /\ Handle' /\ Shown' /\ Looking'
  BY <1>1, <1>2, <1>3, <1>7, SameShown, SameHandle, SameLooking DEF FileFound, Looking
<1> QED BY <1>6, <1>8, <1>9, <1>10 DEF PInv, ProgramInv

\* OpenType
LEMMA OpenTypeStep ==
    ASSUME PInv, OpenType PROVE PInv'
<1> DEFINE e == disk[Path]
           taken == Opens(e) /\ Takes(e, Editions[type])
<1>1. /\ pc = "open" /\ Use(Main)
      /\ gi' = (IF taken THEN e ELSE "none")
      /\ handles' = (IF taken THEN handles + 1 ELSE handles)
      /\ pc' = (IF taken THEN "show" ELSE "close")
      /\ UNCHANGED <<raced, look, buffers, prog, opt, disk, type, results, lines,
                     refused, told>>
  BY DEF OpenType, lvars, Goto
<1>2. Course /\ OneThread /\ OwnTable /\ FileFound /\ Handle /\ Shown /\ Looking /\ NamesInv
  BY DEF PInv, ProgramInv
<1>3. /\ prog # "threads" /\ pc \in Stages /\ Looped /\ gi = "none" /\ handles = 0
      /\ type \in 1 .. 38 /\ Present
  BY <1>1, <1>2, OneProgram, TypeInRange DEF Stages, Course, Handle, FileFound
<1>4. /\ UNCHANGED <<custom, current, tables>> /\ th'[Main].at = "idle"
      /\ th'[Main].dir = Directory
  BY <1>1, <1>2, <1>3, MainUse
<1>5. Call(Main)
  BY <1>1 DEF Call
<1>6. NamesInv' /\ OneThread'
  BY <1>1, <1>2, <1>3, <1>4, <1>5, MainCalls
<1>7. Path = <<Directory, FileName(Editions[type])>> /\ Path \in DOMAIN disk
  BY <1>1, <1>3, PathIsFound DEF Use, Present
<1>8. e \in Edition /\ e # "none"
  BY <1>2, <1>7, DiskFacts, EditionFacts
<1>9. Path' = Path /\ Present'
  BY <1>1, <1>3, <1>4, <1>7 DEF Path, Present, Directory, Looped
<1>10. Course'
  BY <1>1, <1>2, <1>3 DEF Course, Stages, Looped
<1>11. OwnTable'
  BY <1>1, <1>2, <1>3, <1>4 DEF OwnTable
<1> HIDE DEF taken
<1>12. Handle'
  BY <1>1, <1>3, <1>8 DEF Handle
<1>13. FileFound'
  <2>1. th'[Main].dir = Directory'
    BY <1>4 DEF Directory
  <2> HIDE DEF e
  <2>2. pc' = "show" => gi' = disk'[Path'] /\ Path' \in DOMAIN disk'
    BY <1>1, <1>7, <1>9 DEF e
  <2> QED BY <1>1, <1>9, <2>1, <2>2 DEF FileFound
<1>14. Shown' /\ Looking'
  BY <1>1, <1>2, SameShown, SameLooking DEF Looking
<1> QED BY <1>6, <1>10, <1>11, <1>12, <1>13, <1>14 DEF PInv, ProgramInv

\* The steps that leave the table as it is.
LEMMA NoNames ==
    ASSUME PInv, UNCHANGED <<nvars, prog, opt, disk>>, pc \in Stages, pc' \in Stages,
           pc \notin {"options", "names", "file", "types", "avail", "available", "open"},
           pc' \notin {"options", "names", "file", "avail", "available", "open"}
    PROVE  /\ NamesInv' /\ OneThread' /\ OwnTable'
           /\ UNCHANGED <<custom, current, tables, paths, th, broken, raced>>
<1>1. UNCHANGED <<custom, current, tables, paths, th, broken, raced, prog, opt, disk>>
      /\ UNCHANGED nvars
  BY DEF nvars
<1>2. Course /\ OneThread /\ OwnTable /\ NamesInv
  BY DEF PInv, ProgramInv
<1>3. OneThread' /\ OwnTable'
  BY <1>1, <1>2 DEF OneThread, OwnTable, Stages
<1> QED BY <1>1, <1>2, <1>3, SameNames

\* A file that was found stays.
LEMMA FoundStays ==
    ASSUME FileFound, UNCHANGED <<custom, th, opt, disk, type, gi>>,
           pc \in {"show", "resolve"}, pc' \in {"show", "resolve", "close"}
    PROVE  FileFound'
BY DEF FileFound, Present, Directory, Looped, Path

\* Describe
LEMMA DescribeStep ==
    ASSUME PInv, Describe PROVE PInv'
<1>1. /\ pc = "show" /\ pc' = "close" /\ UNCHANGED <<nvars, prog, opt, disk>>
      /\ UNCHANGED <<look, buffers, type, gi, handles, results, refused, told>>
  BY DEF Describe, lvars, Goto
<1>2. PICK what \in {"info", "null"} : lines' = Append(lines, Line(what))
  BY DEF Describe
<1>3. Course /\ FileFound /\ Handle /\ Shown /\ Looking /\ NamesInv
  BY DEF PInv, ProgramInv
<1>4. pc \in Stages /\ pc' \in Stages /\ (Looped => Editions[type] \in First(34))
  BY <1>1, <1>3 DEF Stages, FileFound, Present
<1>5. NamesInv' /\ OneThread' /\ OwnTable' /\ UNCHANGED <<custom, th>>
  BY <1>1, <1>4, NoNames
<1>6. Course'
  BY <1>1, <1>3, <1>4 DEF Course, Looped, Stages
<1>7. FileFound' /\ Handle' /\ Looking'
  BY <1>1, <1>3, <1>5, FoundStays, SameHandle, SameLooking DEF Looking
<1>8. Shown'
  <2>1. Line(what) \in Lines /\ Line(what).what # "found"
    BY <1>1, <1>3, <1>4, LineType DEF Texts
  <2>2. lines' \in Seq(Lines) /\ Cardinality(Kept') = Cardinality(Kept)
    BY <1>2, <1>3, <2>1, ShownMore DEF Shown
  <2> QED BY <1>1, <1>3, <2>2 DEF Shown
<1> QED BY <1>5, <1>6, <1>7, <1>8 DEF PInv, ProgramInv

\* Close
LEMMA CloseStep ==
    ASSUME PInv, Close PROVE PInv'
<1>1. /\ pc = "close" /\ pc' = (IF Looped THEN "types" ELSE "done")
      /\ UNCHANGED <<nvars, prog, opt, disk>>
      /\ handles' = (IF gi = "none" THEN handles ELSE handles - 1) /\ gi' = "none"
      /\ type' = (IF Looped THEN type + 1 ELSE type)
      /\ UNCHANGED <<look, buffers, results, lines, refused, told>>
  BY DEF Close, lvars, Goto, Looped
<1>2. Course /\ FileFound /\ Handle /\ Shown /\ Looking /\ NamesInv
  BY DEF PInv, ProgramInv
<1>3. pc \in Stages /\ pc' \in Stages /\ type \in 1 .. 38
  BY <1>1, <1>2, TypeInRange DEF Stages
<1>4. NamesInv' /\ OneThread' /\ OwnTable'
  BY <1>1, <1>3, NoNames
<1>5. Course'
  <2>1. type' \in 1 .. 39
    BY <1>1, <1>3
  <2> QED BY <1>1, <1>2, <1>3, <2>1 DEF Course, Looped, Stages
<1>6. FileFound'
  BY <1>1 DEF FileFound
<1>7. Handle'
  BY <1>1, <1>2 DEF Handle
<1>8. Shown' /\ Looking'
  BY <1>1, <1>2, SameShown, SameLooking DEF Looking
<1> QED BY <1>4, <1>5, <1>6, <1>7, <1>8 DEF PInv, ProgramInv

\* The addresses of a host.
LEMMA HostFacts ==
    ASSUME NEW h \in Hosts
    PROVE  /\ InetAddr(h) \in Addresses /\ h.answer \in Addresses
           /\ 0 \in Addresses /\ NoAddress \in Addresses
           /\ h.answer6 \in Addresses /\ h.text \in Addresses
           /\ InetAddr(h) # INADDR_NONE => InetAddr(h) = h.text /\ h.text # NoAddress
           /\ h.needs \in Nat
BY LookupConstants DEF InetAddr, Addresses

\* The resolver between two calls.
LEMMA AsleepType == Asleep \in Looks /\ Asleep.at = "idle" /\ Asleep.herr = 0
<1>1. 0 \in Addresses /\ NoAddress \in Addresses
  BY DEF Addresses
<1> QED BY <1>1 DEF Asleep, Looks

\* The end of either lookup.
LEMMA Returned ==
    ASSUME NEW v \in Addresses, NEW x, x = [Asleep EXCEPT !.at = "returned", !.value = v]
    PROVE  x \in Looks /\ x.at = "returned" /\ x.value = v
<1>1. x \in Looks
  BY AsleepType DEF Looks
<1>2. x.at = "returned" /\ x.value = v
  BY DEF Asleep
<1> QED BY <1>1, <1>2

\* What a lookup is about does not change before it returns.
Lookups(h) == look \in Looks /\ Asked(h)
              /\ buffers = IF look.at \in {"idle", "returned"} THEN 0 ELSE 1

\* The resolver's steps: begun, asked, tried again with a larger buffer, returned.
LEMMA BeginLooks ==
    ASSUME NEW h \in Hosts, Lookups(h), BeginLookup(h)
    PROVE  Lookups(h)' /\ look'.at \in {"query", "return"}
<1> DEFINE where == IF InetAddr(h) = INADDR_NONE THEN "query" ELSE "return"
           x == [Asleep EXCEPT !.addr = InetAddr(h), !.buflength = FirstBuffer, !.at = where]
<1>1. look' = x /\ buffers' = buffers + 1 /\ look.at = "idle"
  BY DEF BeginLookup
<1>2. InetAddr(h) \in Addresses /\ (InetAddr(h) # INADDR_NONE => InetAddr(h) = h.text)
  BY HostFacts
<1>3. x \in Looks /\ x.at = where /\ x.addr = InetAddr(h) /\ x.buflength = FirstBuffer
  <2>1. where \in {"query", "return"}
    OBVIOUS
  <2> HIDE DEF where
  <2>2. x \in Looks
    BY <1>2, <2>1, AsleepType, LookupConstants DEF Looks
  <2>3. x.at = where /\ x.addr = InetAddr(h) /\ x.buflength = FirstBuffer
    BY DEF Asleep
  <2> QED BY <2>2, <2>3
<1> HIDE DEF x
<1>4. FirstBuffer >= FirstBuffer
  BY LookupConstants
<1>5. Asked(h)'
  BY <1>1, <1>2, <1>3, <1>4 DEF Asked, ResolvedTo
<1> QED BY <1>1, <1>3, <1>5 DEF Lookups

\* gethostbyname_r
LEMMA QueryLooks ==
    ASSUME NEW h \in Hosts, Lookups(h), GetHostByName(h)
    PROVE  Lookups(h)' /\ look'.at = "test"
<1>1. /\ look \in Looks /\ look.at = "query" /\ buffers' = buffers
      /\ InetAddr(h) = INADDR_NONE /\ look.buflength >= FirstBuffer
  BY DEF GetHostByName, Lookups, Asked
<1>2. h.answer \in Addresses /\ NoAddress \in Addresses /\ h.needs \in Nat
  BY HostFacts
<1>3. CASE h.needs > look.buflength /\ \E tells \in TellsRange :
               look' = [look EXCEPT !.at = "test", !.result = ERANGE,
                          !.phe = NoAddress,
                          !.herr = IF tells THEN ERANGE ELSE NETDB_INTERNAL]
  <2>1. PICK tells \in TellsRange :
               look' = [look EXCEPT !.at = "test", !.result = ERANGE,
                          !.phe = NoAddress,
                          !.herr = IF tells THEN ERANGE ELSE NETDB_INTERNAL]
    BY <1>3
  <2> DEFINE herr == IF tells THEN ERANGE ELSE NETDB_INTERNAL
  <2>2. herr \in Int /\ (herr # ERANGE => FALSE \in TellsRange)
    <3>1. tells \in BOOLEAN
      BY LookupConstants
    <3>2. CASE tells = TRUE
      BY <3>2 DEF ERANGE
    <3>3. CASE tells = FALSE
      <4>1. FALSE \in TellsRange
        BY <3>3
      <4>2. herr = NETDB_INTERNAL
        BY <3>3
      <4>3. NETDB_INTERNAL \in Int
        BY DEF NETDB_INTERNAL
      <4> QED BY <4>1, <4>2, <4>3, Zenon
    <3> QED BY <3>1, <3>2, <3>3
  <2>3. look' = [look EXCEPT !.at = "test", !.result = ERANGE, !.phe = NoAddress, !.herr = herr]
    BY <2>1
  <2> HIDE DEF herr
  <2>4. /\ look' \in Looks /\ look'.at = "test" /\ look'.result = ERANGE
        /\ look'.phe = NoAddress /\ look'.herr = herr /\ look'.buflength = look.buflength
    BY <1>1, <1>2, <2>2, <2>3 DEF Looks
  <2>5. Asked(h)'
    BY <1>1, <1>3, <2>2, <2>4 DEF Asked, ResolvedTo
  <2> QED BY <1>1, <2>4, <2>5 DEF Lookups
<1>4. CASE \E herr \in IF h.answer = NoAddress THEN {HOST_NOT_FOUND} ELSE {0, look.herr} :
               look' = [look EXCEPT !.at = "test", !.result = 0,
                          !.phe = h.answer, !.herr = herr]
  <2>1. PICK herr \in IF h.answer = NoAddress THEN {HOST_NOT_FOUND} ELSE {0, look.herr} :
               look' = [look EXCEPT !.at = "test", !.result = 0,
                          !.phe = h.answer, !.herr = herr]
    BY <1>4
  <2>2. herr \in Int
    BY <1>1, <2>1 DEF Looks, HOST_NOT_FOUND
  <2>3. /\ look' \in Looks /\ look'.at = "test" /\ look'.result = 0
        /\ look'.phe = h.answer /\ look'.buflength = look.buflength
    BY <1>1, <1>2, <2>1, <2>2 DEF Looks
  <2>4. Asked(h)'
    BY <1>1, <2>3 DEF Asked, ResolvedTo
  <2> QED BY <1>1, <2>3, <2>4 DEF Lookups
<1> QED BY <1>3, <1>4 DEF GetHostByName

\* A longer answer is waited for, or, where its length was not told, lost.
LEMMA GrowLooks ==
    ASSUME NEW h \in Hosts, Lookups(h), Grow
    PROVE  Lookups(h)' /\ look'.at \in {"query", "return"}
<1>1. /\ look \in Looks /\ look.at = "test" /\ buffers' = buffers
      /\ InetAddr(h) = INADDR_NONE /\ look.buflength >= FirstBuffer /\ look.buflength \in Nat
      /\ \/ look.result = 0 /\ look.phe = h.answer
         \/ /\ look.result = ERANGE /\ look.phe = NoAddress /\ h.needs > look.buflength
            /\ look.herr # ERANGE => FALSE \in TellsRange
  BY DEF Grow, Lookups, Asked, Looks
<1>2. h.needs \in Nat /\ FirstBuffer \in Nat
  BY HostFacts, LookupConstants
<1>3. CASE look.herr = ERANGE /\ look.result # 0
  <2> DEFINE n == 2 * look.buflength
  <2>1. look' = [look EXCEPT !.at = "query", !.buflength = n]
    BY <1>3 DEF Grow
  <2>n. n \in Nat /\ n >= FirstBuffer
    BY <1>1, <1>2
  <2> HIDE DEF n
  <2>2. look' \in Looks /\ look'.at = "query" /\ look'.buflength = n
    BY <1>1, <2>1, <2>n DEF Looks
  <2>3. Asked(h)'
    BY <1>1, <2>n, <2>2 DEF Asked, ResolvedTo
  <2> QED BY <1>1, <2>2, <2>3 DEF Lookups
<1>4. CASE ~(look.herr = ERANGE /\ look.result # 0)
  <2>1. look' = [look EXCEPT !.at = "return", !.addr = look.phe]
    BY <1>4 DEF Grow
  <2>2. look' \in Looks /\ look'.at = "return" /\ look'.addr = look.phe
    BY <1>1, <2>1 DEF Looks
  <2>3. look.phe \in {h.answer} \cup (IF TooSmall(h) THEN {NoAddress} ELSE {})
    <3>1. CASE look.result = 0 /\ look.phe = h.answer
      BY <3>1
    <3>2. CASE /\ look.result = ERANGE /\ look.phe = NoAddress /\ h.needs > look.buflength
               /\ look.herr # ERANGE => FALSE \in TellsRange
      <4>1. look.herr # ERANGE
        BY <1>4, <3>2 DEF ERANGE
      <4>2. h.needs > FirstBuffer
        BY <1>1, <1>2, <3>2
      <4> QED BY <3>2, <4>1, <4>2 DEF TooSmall
    <3> QED BY <1>1, <3>1, <3>2
  <2>4. Asked(h)'
    BY <1>1, <2>2, <2>3 DEF Asked, ResolvedTo
  <2> QED BY <1>1, <2>2, <2>4 DEF Lookups
<1> QED BY <1>3, <1>4

\* The number of the host, or 0; its buffer is released.
LEMMA ReturnLooks ==
    ASSUME NEW h \in Hosts, Lookups(h), Return
    PROVE  Lookups(h)' /\ look'.at = "returned"
<1> DEFINE v == IF look.addr = NoAddress THEN 0 ELSE look.addr
<1>1. /\ look \in Looks /\ look.at = "return" /\ buffers' = buffers - 1 /\ buffers = 1
      /\ look' = [Asleep EXCEPT !.at = "returned", !.value = v]
      /\ look.addr \in IF InetAddr(h) # INADDR_NONE THEN {h.text}
                       ELSE {h.answer} \cup (IF TooSmall(h) THEN {NoAddress} ELSE {})
  BY DEF Return, Lookups, Asked
<1>2. v \in Addresses
  BY <1>1, HostFacts DEF Looks
<1>3. v \in IF InetAddr(h) # INADDR_NONE THEN {h.text}
            ELSE (IF h.answer = NoAddress THEN {0} ELSE {h.answer})
                 \cup (IF TooSmall(h) THEN {0} ELSE {})
  BY <1>1, HostFacts
<1> HIDE DEF v
<1>4. look' \in Looks /\ look'.at = "returned" /\ look'.value = v
  BY <1>1, <1>2, Returned
<1>5. ResolvedTo(h)'
  BY <1>3, <1>4 DEF ResolvedTo, TooSmall
<1>6. Asked(h)'
  BY <1>4, <1>5 DEF Asked
<1> QED BY <1>1, <1>4, <1>6 DEF Lookups

\* These steps, for the host of the command line.
LEMMA LooksAt ==
    ASSUME opt.host \in Hosts, opt' = opt, Lookups(opt.host),
           BeginLookup(opt.host) \/ GetHostByName(opt.host) \/ Grow \/ Return
    PROVE  /\ Lookups(opt.host)'
           /\ BeginLookup(opt.host) => look'.at \in {"query", "return"}
<1>1. PICK h \in Hosts : h = opt.host
  OBVIOUS
<1>2. Lookups(h)' /\ (BeginLookup(h) => look'.at \in {"query", "return"})
  <2>1. Lookups(h) /\ (BeginLookup(h) \/ GetHostByName(h) \/ Grow \/ Return)
    BY <1>1
  <2> QED BY <2>1, BeginLooks, QueryLooks, GrowLooks, ReturnLooks
<1>3. h = opt'.host
  BY <1>1
<1>4. Lookups(opt.host)'
  BY <1>2, <1>3 DEF Lookups, Asked, ResolvedTo
<1> QED BY <1>1, <1>2, <1>4

\* Resolve
LEMMA ResolveStep ==
    ASSUME PInv, Resolve PROVE PInv'
<1>1. /\ pc = "show" /\ pc' = "resolve" /\ UNCHANGED <<nvars, prog, opt, disk>>
      /\ UNCHANGED <<type, gi, handles, results, lines, refused, told>>
      /\ IF prog = "geoiplookup" THEN BeginLookup(opt.host) ELSE LookupV6(opt.host)
  BY DEF Resolve, Goto
<1>2. Course /\ FileFound /\ Handle /\ Shown /\ Looking /\ NamesInv
  BY DEF PInv, ProgramInv
<1>3. pc \in Stages /\ pc' \in Stages /\ prog \in {"geoiplookup", "geoiplookup6"}
      /\ opt.host \in Hosts
  BY <1>1, <1>2, OneProgram DEF Stages, Course
<1>4. NamesInv' /\ OneThread' /\ OwnTable' /\ UNCHANGED <<custom, th>>
  BY <1>1, <1>3, NoNames
<1>5. Course'
  BY <1>1, <1>2, <1>3 DEF Course, Looped, Stages
<1>6. FileFound' /\ Handle' /\ Shown'
  BY <1>1, <1>2, <1>4, FoundStays, SameHandle, SameShown DEF Handle
<1>7. Looking'
  <2>1. CASE prog = "geoiplookup"
    <3>1. Lookups(opt.host) /\ BeginLookup(opt.host)
      BY <1>1, <1>2, <2>1 DEF Looking, Lookups
    <3>2. Lookups(opt.host)' /\ look'.at \in {"query", "return"}
      BY <1>1, <1>3, <3>1, LooksAt
    <3> QED BY <1>1, <2>1, <3>2 DEF Looking, Lookups
  <2>2. CASE prog = "geoiplookup6"
    <3> DEFINE v == IF opt.host.answer6 = NoAddress THEN 0 ELSE opt.host.answer6
    <3>1. /\ look' = [Asleep EXCEPT !.at = "returned", !.value = v] /\ buffers' = buffers
          /\ look.at = "idle" /\ buffers = 0
      BY <1>1, <1>2, <2>2 DEF LookupV6, Looking
    <3>2. v \in Addresses
      BY <1>3, HostFacts
    <3>3. look' \in Looks /\ look'.at = "returned" /\ look'.value = v
      <4> HIDE DEF v
      <4> QED BY <3>1, <3>2, Returned
    <3>4. ResolvedToV6(opt.host)'
      BY <1>1, <3>3 DEF ResolvedToV6
    <3> QED BY <1>1, <2>2, <3>1, <3>3, <3>4 DEF Looking
  <2> QED BY <1>3, <2>1, <2>2
<1> QED BY <1>4, <1>5, <1>6, <1>7 DEF PInv, ProgramInv

\* Resolving
LEMMA ResolvingStep ==
    ASSUME PInv, Resolving PROVE PInv'
<1>1. /\ pc = "resolve" /\ UNCHANGED nvars
      /\ UNCHANGED <<prog, opt, disk, pc, type, gi, handles, results, lines, refused, told>>
      /\ GetHostByName(opt.host) \/ Grow \/ Return
  BY DEF Resolving, pvars
<1>2. Course /\ FileFound /\ Handle /\ Shown /\ Looking /\ NamesInv
  BY DEF PInv, ProgramInv
<1>3. pc \in Stages /\ pc' \in Stages /\ prog \in {"geoiplookup", "geoiplookup6"}
      /\ opt.host \in Hosts
  BY <1>1, <1>2, OneProgram DEF Stages, Course
<1>4. NamesInv' /\ OneThread' /\ OwnTable' /\ UNCHANGED <<custom, th>>
  BY <1>1, <1>3, NoNames
<1>5. Course'
  BY <1>1, <1>2, <1>3 DEF Course, Looped
<1>6. FileFound' /\ Handle' /\ Shown'
  BY <1>1, <1>2, <1>4, FoundStays, SameHandle, SameShown DEF Handle
<1>7. prog # "geoiplookup6"
  BY <1>1, <1>2 DEF Looking, GetHostByName, Grow, Return
<1>8. Lookups(opt.host)
  BY <1>2, <1>7 DEF Looking, Lookups
<1>9. Lookups(opt.host)'
  BY <1>1, <1>3, <1>8, LooksAt
<1>10. Looking'
  BY <1>1, <1>7, <1>9 DEF Looking, Lookups
<1> QED BY <1>4, <1>5, <1>6, <1>10 DEF PInv, ProgramInv

\* geoiplookup has released what it looked up, geoiplookup6 keeps every name
\* and record, which is what it shows of any edition but COUNTRY_V6.
LEMMA AccessorOf6 ==
    ASSUME NEW i, Accessor6(i) # "none"
    PROVE  /\ i # "NETSPEED"
           /\ Accessor6(i) \in {"name_v6", "record_v6"} <=> i # "COUNTRY_V6"
           /\ Accessor6(i) \in {"name_v6", "record_v6", "id_v6"}
BY DEF Accessor6

\* The accessors of geoiplookup.
LEMMA AccessorOf4 ==
    ASSUME NEW i PROVE Accessor4(i) \in {"name", "id", "region", "record", "none"}
BY DEF Accessor4

\* Lookup
LEMMA LookupStep ==
    ASSUME PInv, Lookup PROVE PInv'
<1> DEFINE i == Editions[type]
           accessor == Accessor(i)
<1>1. /\ pc = "resolve" /\ pc' = "close" /\ UNCHANGED <<nvars, prog, opt, disk>>
      /\ look.at = "returned" /\ look' = Asleep
      /\ UNCHANGED <<buffers, type, gi, handles, told>>
  BY DEF Lookup, Goto
<1>2. Course /\ FileFound /\ Handle /\ Shown /\ Looking /\ NamesInv
  BY DEF PInv, ProgramInv
<1>3. pc \in Stages /\ pc' \in Stages /\ prog \in {"geoiplookup", "geoiplookup6"}
      /\ prog # "threads" /\ (Looped => Editions[type] \in First(34))
      /\ opt.host \in Hosts
  BY <1>1, <1>2, OneProgram DEF Stages, FileFound, Present, Course
<1>4. NamesInv' /\ OneThread' /\ OwnTable' /\ UNCHANGED <<custom, th>>
  BY <1>1, <1>3, NoNames
<1>5. Course'
  BY <1>1, <1>2, <1>3 DEF Course, Looped, Stages
<1>6. FileFound' /\ Handle'
  BY <1>1, <1>2, <1>4, FoundStays, SameHandle DEF Handle
<1>7. Looking'
  <2>1. look' \in Looks /\ look'.at = "idle"
    BY <1>1, AsleepType
  <2> QED BY <1>1, <1>2, <2>1 DEF Looking, Asked, ResolvedTo, ResolvedToV6
<1>8. PICK what \in Texts :
        /\ lines' = Append(lines, Line(what))
        /\ results' = IF what = "found" /\ prog = "geoiplookup6" /\ i # "COUNTRY_V6"
                      THEN results + 1 ELSE results
  <2>1. prog = "geoiplookup" => accessor \in {"name", "id", "region", "record", "none"}
    BY AccessorOf4 DEF Accessor
  <2>2. prog = "geoiplookup6" /\ accessor # "none" =>
            /\ i # "NETSPEED" /\ (accessor \in {"name_v6", "record_v6"} <=> i # "COUNTRY_V6")
    BY AccessorOf6 DEF Accessor
  <2> HIDE DEF accessor
  <2>3. CASE look.value = 0
    BY <2>3 DEF Lookup, Texts
  <2>4. CASE look.value # 0 /\ accessor = "none"
    BY <2>4 DEF Lookup, Texts, accessor
  <2>5. CASE look.value # 0 /\ accessor # "none" /\ gi \notin Accepts[accessor]
    <3>1. lines' = Append(lines, Line(Refusal(i))) /\ results' = results
      BY <2>5 DEF Lookup, accessor
    <3>2. Refusal(i) \in Texts /\ (prog = "geoiplookup6" => Refusal(i) # "found")
      BY <2>2, <2>5 DEF Refusal, Texts
    <3> QED BY <3>1, <3>2
  <2>6. CASE look.value # 0 /\ accessor # "none" /\ gi \in Accepts[accessor]
    <3>1. PICK answer \in Answers(i, accessor) :
            /\ lines' = Append(lines, Line(answer))
            /\ results' = IF answer = "found" /\ accessor \in {"name_v6", "record_v6"}
                          THEN results + 1 ELSE results
      BY <2>6 DEF Lookup, accessor
    <3>2. answer \in Texts
      BY DEF Answers, Texts
    <3>3. accessor \in {"name_v6", "record_v6"} <=> prog = "geoiplookup6" /\ i # "COUNTRY_V6"
      BY <1>3, <2>1, <2>2, <2>6
    <3> QED BY <3>1, <3>2, <3>3
  <2> QED BY <2>3, <2>4, <2>5, <2>6
<1>9. Shown'
  <2>1. Line(what) \in Lines /\ Line(what).what = what /\ Line(what).type = i
    BY <1>1, <1>2, <1>3, LineType
  <2>2. /\ lines' \in Seq(Lines) /\ Cardinality(Kept) \in Nat
        /\ Cardinality(Kept') = Cardinality(Kept)
             + (IF what = "found" /\ i # "COUNTRY_V6" THEN 1 ELSE 0)
    BY <1>2, <1>8, <2>1, ShownMore DEF Shown
  <2> HIDE DEF i
  <2>3. CASE prog = "geoiplookup6"
    BY <1>1, <1>2, <1>8, <2>2, <2>3 DEF Shown
  <2>4. CASE prog # "geoiplookup6"
    BY <1>1, <1>2, <1>8, <2>2, <2>4 DEF Shown
  <2> QED BY <2>3, <2>4
<1> QED BY <1>4, <1>5, <1>6, <1>7, <1>9 DEF PInv, ProgramInv

\* The other programs show nothing.
LEMMA OtherPrograms ==
    ASSUME PInv,
           UNCHANGED <<lvars, prog, opt, disk, type, gi, handles, results, lines, refused>>,
           pc \in {"record", "threads"}, prog # "threads" => UNCHANGED nvars,
           IF pc = "record" THEN pc' = "told" ELSE pc' = pc,
           NamesInv'
    PROVE  PInv'
<1>1. /\ UNCHANGED <<look, buffers, prog, opt, disk, type, gi, handles, results, lines,
                     refused>>
      /\ prog # "threads" => UNCHANGED <<custom, current, tables, paths, th, broken, raced>>
  BY DEF lvars, nvars
<1>2. Course /\ OneThread /\ OwnTable /\ FileFound /\ Handle /\ Shown /\ Looking
  BY DEF PInv, ProgramInv
<1>3. prog \in {"test-geoip", "threads"} /\ type <= 38 /\ gi = "none"
      /\ (pc = "record" <=> prog = "test-geoip") /\ look.at = "idle"
  BY <1>2 DEF Course, Stages, Programs, Handle, Looking
<1>4. Course' /\ OneThread'
  BY <1>1, <1>2, <1>3 DEF Course, Looped, OneThread
<1>5. OwnTable'
  BY <1>1, <1>2, <1>3 DEF OwnTable
<1>6. FileFound' /\ Handle' /\ Shown' /\ Looking'
  BY <1>1, <1>2, <1>3, SameHandle, SameShown, SameLooking DEF FileFound
<1> QED BY <1>4, <1>5, <1>6 DEF PInv, ProgramInv

\* A step that changes nothing.
LEMMA Stutter ==
    ASSUME PInv, UNCHANGED avars PROVE PInv'
<1>1. /\ UNCHANGED nvars
      /\ UNCHANGED <<custom, current, tables, paths, th, broken, raced>>
      /\ UNCHANGED <<look, buffers>>
      /\ UNCHANGED <<prog, opt, disk, pc, type, gi, handles, results, lines, refused, told>>
  BY DEF avars, nvars, lvars, pvars
<1>2. Course /\ OneThread /\ OwnTable /\ FileFound /\ Handle /\ Shown /\ Looking /\ NamesInv
  BY DEF PInv, ProgramInv
<1>a. NamesInv' /\ Course'
  BY <1>1, <1>2, SameNames DEF Course, Looped
<1>b. OneThread'
  BY <1>1, <1>2 DEF OneThread
<1>c. OwnTable'
  BY <1>1, <1>2 DEF OwnTable, Directory
<1>4. FileFound' /\ Handle' /\ Shown' /\ Looking'
  BY <1>1, <1>2, SameHandle, SameShown, SameLooking
     DEF FileFound, Present, Directory, Looped, Path, Handle, Looking
<1> QED BY <1>a, <1>b, <1>c, <1>4 DEF PInv, ProgramInv

\* Every step keeps the invariant.
LEMMA ProgramStep ==
    ASSUME PInv, [PNext]_avars PROVE PInv'
<1>1. ASSUME Program PROVE PInv'
  BY <1>1, SetDirectoryStep, CallSetupStep, SetupNamesStep, NamesReturnedStep, OpenFileStep,
     NextTypeStep, FindNameStep, StatStep, CallOpenTypeStep, OpenTypeStep, DescribeStep,
     ResolveStep, ResolvingStep, LookupStep, CloseStep DEF Program
<1>2. ASSUME pc = "record", NEW c \in Countries, NEW r \in Regions, TellRecord(c, r)
      PROVE  PInv'
  <2>1. /\ UNCHANGED nvars /\ pc' = "told"
        /\ UNCHANGED <<lvars, prog, opt, disk, type, gi, handles, results, lines, refused>>
    BY <1>2 DEF TellRecord, Goto
  <2>2. NamesInv'
    BY <2>1, SameNames DEF PInv
  <2> QED BY <1>2, <2>1, <2>2, OtherPrograms
<1>3. ASSUME ThreadsCall PROVE PInv'
  <2>1. pc = "threads" /\ NNext /\ UNCHANGED lvars /\ UNCHANGED pvars
    BY <1>3 DEF ThreadsCall
  <2>2. UNCHANGED <<prog, opt, disk, pc, type, gi, handles, results, lines, refused>>
    BY <2>1 DEF pvars
  <2>3. NamesInv'
    BY <2>1, NextNames DEF PInv
  <2>4. prog = "threads"
    BY <2>1 DEF PInv, ProgramInv, Course, Stages
  <2> QED BY <2>1, <2>2, <2>3, <2>4, OtherPrograms
<1> QED BY <1>1, <1>2, <1>3, Stutter DEF PNext

\* It holds at the start.
LEMMA ProgramInitial ==
    ASSUME PInit PROVE PInv
<1>1. NInit /\ NamesInv
  BY NamesInitial DEF PInit
<1>2. /\ prog \in Programs /\ opt.dir \in Directories \cup {"none"} /\ opt.host \in Hosts
      /\ opt.file \in GivenFiles \cup {NoFile} /\ disk \in Installed \cup {<<>>}
      /\ look = Asleep /\ buffers = 0
      /\ type = 1 /\ gi = "none" /\ handles = 0 /\ results = 0 /\ lines = <<>> /\ refused = {}
  BY DEF PInit, LInit
<1>3. pc = CASE prog = "test-geoip" -> "record"
             [] prog = "threads" -> "threads"
             [] OTHER -> "options"
  BY DEF PInit
<1>4. Course
  BY <1>2, <1>3 DEF Course, Stages, Programs
<1>5. OneThread /\ OwnTable
  <2>1. \A t \in Threads : th[t] = Resting
    BY <1>1 DEF NInit
  <2>2. Resting.at = "idle" /\ Resting.k = 1 /\ Resting.table = 0
    BY DEF Resting
  <2>3. prog # "threads" => pc \in {"record", "options"}
    BY <1>2, <1>3 DEF Programs
  <2> QED BY <1>1, <2>1, <2>2, <2>3, MainType DEF OneThread, OwnTable, NInit
<1>6. pc \in {"record", "threads", "options"}
  BY <1>2, <1>3 DEF Programs
<1>7. FileFound /\ Handle
  BY <1>2, <1>6 DEF FileFound, Handle
<1>8. Shown
  <2>1. Kept = {} /\ lines \in Seq(Lines)
    BY <1>2 DEF Kept
  <2> QED BY <1>2, <2>1, FS_EmptySet DEF Shown
<1>9. Looking
  <2>1. look \in Looks /\ look.at = "idle"
    BY <1>2, AsleepType
  <2> QED BY <1>2, <2>1 DEF Looking, Asked, ResolvedTo, ResolvedToV6
<1> QED BY <1>1, <1>4, <1>5, <1>7, <1>8, <1>9 DEF PInv, ProgramInv

\* What holds at every step of the programs: the table of names is what the calls
\* rely on, a program is its only thread and goes by the directory of its
\* command line, the file it opens is the one it found, and handle, results and
\* resolver are where main is (geoiplookup.c, geoiplookup6.c: main).
THEOREM ProgramsHold == PSpec => []PInv
BY ProgramInitial, ProgramStep, PTL DEF PSpec

\* The table of names serves every call, of the programs and of any number of
\* threads: as long as no call overlaps the one that builds or releases it, no
\* statement of GeoIP_db_avail, GeoIP_open_type or GeoIP_cleanup meets a table that
\* is not there, not filled or released, and no path is lost.
THEOREM TableIsServed == PSpec => []TableServes
<1>1. PInv => TableServes
  BY NamesServe DEF PInv
<1> QED BY <1>1, ProgramsHold, PTL

\* No more than one handle is open, none when main returns, and what geoiplookup
\* looked up is released, whatever is installed and whatever the command line says.
THEOREM ProgramsRelease == PSpec => []ReleasedAtEnd
<1>1. ASSUME PInv PROVE ReleasedAtEnd
  <2>1. Course /\ Handle /\ Shown /\ NamesInv
    BY <1>1 DEF PInv, ProgramInv
  <2>2. Cardinality(Kept) \in Nat
    <3>1. lines \in Seq(Lines) /\ Len(lines) \in Nat /\ DOMAIN lines = 1 .. Len(lines)
      BY <2>1 DEF Shown
    <3>2. Kept \subseteq 1 .. Len(lines)
      BY <3>1 DEF Kept
    <3>3. IsFiniteSet(1 .. Len(lines))
      BY <3>1, FS_Interval
    <3> QED BY <3>2, <3>3, FS_Subset, FS_CardinalityType
  <2>3. ProgramTypeOK
    <3>1. pc \in {"options", "names", "file", "types", "avail", "available", "open",
                  "show", "resolve", "close", "done", "record", "told", "threads"}
      BY <2>1 DEF Course, Stages
    <3>2. results \in Nat
      BY <2>1, <2>2 DEF Shown
    <3>3. handles \in {0, 1} /\ (gi # "none" <=> handles = 1) /\ gi \in Edition \cup {"none"}
      BY <2>1 DEF Handle
    <3>4. prog # "threads" => broken = "none"
      BY <1>1 DEF PInv, ProgramInv, OneThread, NamesInv, Served
    <3> QED BY <2>1, <3>1, <3>2, <3>3, <3>4, EditionFacts DEF ProgramTypeOK, Course
  <2>4. Done => handles = 0
    BY <2>1 DEF Done, Handle
  <2>5. Done => results = IF prog = "geoiplookup" THEN 0 ELSE Cardinality(Kept)
    <3>1. Done => prog \in {"geoiplookup", "geoiplookup6"}
      BY <2>1 DEF Done, Course, Stages, Programs
    <3> QED BY <2>1, <3>1 DEF Shown
  <2> QED BY <2>3, <2>4, <2>5 DEF ReleasedAtEnd, Kept
<1> QED BY <1>1, ProgramsHold, PTL

\* The lookup goes by the number of the host that was asked for, and no buffer of
\* the resolver is left behind, however long its answer is (_GeoIP_lookupaddress).
THEOREM HostsAreResolved == PSpec => []HostResolved
<1>1. PInv => HostResolved
  BY DEF PInv, ProgramInv, Looking, Asked, HostResolved
<1> QED BY <1>1, ProgramsHold, PTL

-----------------------------------------------------------------------------
(* What is shown *)

\* The database that is open fits the edition that is asked for.
Opened ==
    pc \in {"show", "resolve"} =>
        /\ gi \in Edition
        /\ IF Looped THEN Opens(gi) /\ Takes(gi, Editions[type]) ELSE gi = Editions[type]

\* The loop has shown every edition it has been through, each once.
Serves(i, p) ==
    /\ Editions[i] \in First(34) /\ p = <<Directory, FileName(Editions[i])>>
    /\ Opens(disk[p]) /\ Takes(disk[p], Editions[i])
Through == IF pc = "close" THEN type ELSE type - 1
ListedTo(n) ==
    /\ \A k \in DOMAIN lines : lines[k].file \in DOMAIN disk
          /\ \E i \in 1 .. n : lines[k].type = Editions[i] /\ Serves(i, lines[k].file)
    /\ \A i \in 1 .. n : \A p \in DOMAIN disk : Serves(i, p) =>
          \E k \in DOMAIN lines : lines[k].type = Editions[i] /\ lines[k].file = p
    /\ \A j, k \in DOMAIN lines : lines[j].type = lines[k].type => j = k
Listed ==
    Looped /\ pc \in Stages =>
        /\ pc \in {"options", "names"} => type = 1
        /\ pc = "done" => type = 39
        /\ ListedTo(Through)
Untold == pc \in {"record", "told", "threads"} => lines = <<>> /\ refused = {}
LinesInv == Opened /\ Listed /\ AccessorsFit /\ Untold

\* The name of an edition's file is the one it stands beside in the list.
LEMMA FileOf ==
    ASSUME NEW e \in First(34)
    PROVE  \E j \in 1 .. 34 : e = DbFiles[j][1] /\ FileName(e) = DbFiles[j][2]
<1>1. PICK j \in 1 .. 34 : e = DbFiles[j][1]
  BY DEF First
<1> DEFINE k == CHOOSE k \in DOMAIN DbFiles : DbFiles[k][1] = e
<1>2. k \in DOMAIN DbFiles /\ DbFiles[k][1] = e
  BY <1>1, NameFacts
<1>3. k = j
  BY <1>1, <1>2, NameFacts
<1> QED BY <1>1, <1>3 DEF FileName

\* The editions whose files may hold ORG or ASNUM, by the names of these files.
Seven == {"ORG", "ASNUM", "DOMAIN", "COUNTRYCONF", "CITYCONF", "REGIONCONF", "POSTALCONF"}

\* Each of them has a file of its own.
LEMMA SevenFiles ==
    \A j \in 1 .. 34 :
        /\ DbFiles[j][1] = "ORG" <=> DbFiles[j][2] = "GeoIPOrg.dat"
        /\ DbFiles[j][1] = "ASNUM" <=> DbFiles[j][2] = "GeoIPASNum.dat"
        /\ DbFiles[j][1] = "DOMAIN" <=> DbFiles[j][2] = "GeoIPDomain.dat"
        /\ DbFiles[j][1] = "COUNTRYCONF" <=> DbFiles[j][2] = "GeoIPCountryConf.dat"
        /\ DbFiles[j][1] = "CITYCONF" <=> DbFiles[j][2] = "GeoIPCityConf.dat"
        /\ DbFiles[j][1] = "REGIONCONF" <=> DbFiles[j][2] = "GeoIPRegionConf.dat"
        /\ DbFiles[j][1] = "POSTALCONF" <=> DbFiles[j][2] = "GeoIPPostalConf.dat"
BY DEF DbFiles

\* They are editions with names.
LEMMA SevenNamed == Seven \subseteq First(34)
<1>1. /\ DbFiles[7][1] = "ORG" /\ DbFiles[9][1] = "ASNUM" /\ DbFiles[11][1] = "DOMAIN"
      /\ DbFiles[30][1] = "COUNTRYCONF" /\ DbFiles[31][1] = "CITYCONF"
      /\ DbFiles[32][1] = "REGIONCONF" /\ DbFiles[33][1] = "POSTALCONF"
  BY DEF DbFiles
<1>2. \A j \in 1 .. 34 : DbFiles[j][1] \in First(34)
  BY DEF First
<1>3. 7 \in 1 .. 34 /\ 9 \in 1 .. 34 /\ 11 \in 1 .. 34 /\ 30 \in 1 .. 34 /\ 31 \in 1 .. 34
      /\ 32 \in 1 .. 34 /\ 33 \in 1 .. 34
  OBVIOUS
<1> QED BY <1>1, <1>2, <1>3 DEF Seven

\* A file of these seven is of one edition.
LEMMA SevenApart ==
    ASSUME NEW e \in First(34), NEW s \in Seven, FileName(e) = FileName(s)
    PROVE  e = s
<1>1. PICK j \in 1 .. 34 : e = DbFiles[j][1] /\ FileName(e) = DbFiles[j][2]
  BY FileOf
<1>2. PICK k \in 1 .. 34 : s = DbFiles[k][1] /\ FileName(s) = DbFiles[k][2]
  BY SevenNamed, FileOf
<1>3. \A t \in Seven : DbFiles[k][1] = t /\ DbFiles[k][2] = DbFiles[j][2] =>
         DbFiles[j][1] = t
  BY SevenFiles DEF Seven
<1> QED BY <1>1, <1>2, <1>3

\* A database GeoIP_open_type takes and that fits its file's name is of the
\* edition asked for, or one of the two that may stand in for seven.
LEMMA Fitting ==
    ASSUME NEW e \in First(34), NEW p, p[2] = FileName(e), Takes(disk[p], e), Fits(p)
    PROVE  disk[p] = e \/ (disk[p] \in {"ORG", "ASNUM"} /\ e \in Seven)
<1>1. CASE disk[p] = e
  BY <1>1
<1>2. CASE disk[p] # e
  <2>1. disk[p] \in {"ORG", "ASNUM"}
    BY <1>2 DEF Takes
  <2>2. CASE FileName(disk[p]) = p[2]
    BY <1>2, <2>1, <2>2, SevenApart DEF Seven
  <2>3. CASE p[2] \in Historical
    <3>1. PICK s \in Seven : FileName(s) = p[2]
      BY <2>3 DEF Historical, Seven
    <3> QED BY <2>1, <3>1, SevenApart
  <2> QED BY <2>2, <2>3 DEF Fits
<1> QED BY <1>1, <1>2

\* So no file that fits is taken for two editions.
LEMMA TakenOnce ==
    ASSUME NEW i \in 1 .. 38, NEW j \in 1 .. 38, NEW p, Serves(i, p), Serves(j, p), Fits(p)
    PROVE  Editions[i] = Editions[j]
<1>1. /\ Editions[i] \in First(34) /\ Editions[j] \in First(34)
      /\ p[2] = FileName(Editions[i]) /\ p[2] = FileName(Editions[j])
      /\ Takes(disk[p], Editions[i]) /\ Takes(disk[p], Editions[j])
  BY DEF Serves
<1>2. /\ disk[p] = Editions[i] \/ (disk[p] \in {"ORG", "ASNUM"} /\ Editions[i] \in Seven)
      /\ disk[p] = Editions[j] \/ (disk[p] \in {"ORG", "ASNUM"} /\ Editions[j] \in Seven)
  BY <1>1, Fitting
<1>3. CASE Editions[i] \in Seven
  BY <1>1, <1>3, SevenApart
<1>4. CASE Editions[j] \in Seven
  BY <1>1, <1>4, SevenApart
<1> QED BY <1>2, <1>3, <1>4

\* And one that fits is taken.
LEMMA TakenAtAll ==
    ASSUME Course, NEW p \in DOMAIN disk, p[1] = Directory, Fits(p),
           disk[p] # "LOCATIONA_V6"
    PROVE  \E i \in 1 .. 38 : Serves(i, p)
<1>1. p = <<p[1], p[2]>> /\ disk[p] \in Edition
  <2>1. disk # <<>>
    OBVIOUS
  <2> QED BY <2>1, ProgramConstants, DiskFacts DEF Course
<1>2. \A e \in Edition : \E i \in 1 .. 38 : Editions[i] = e
  BY EditionFacts DEF Edition
<1>3. NamedEdition = First(34)
  BY NameFacts DEF First, NamedEdition
<1>4. CASE disk[p] \in NamedEdition /\ FileName(disk[p]) = p[2]
  <2>1. PICK i \in 1 .. 38 : Editions[i] = disk[p]
    BY <1>1, <1>2
  <2>2. Opens(disk[p])
    <3>1. \A j \in 1 .. 34 : Opens(DbFiles[j][1]) \/ DbFiles[j][1] = "LOCATIONA_V6"
      BY DEF DbFiles, Opens
    <3> QED BY <1>3, <1>4, <3>1 DEF First
  <2>3. Takes(disk[p], Editions[i])
    BY <2>1 DEF Takes
  <2> QED BY <1>1, <1>3, <1>4, <2>1, <2>2, <2>3 DEF Serves
<1>5. CASE disk[p] \in {"ORG", "ASNUM"} /\ p[2] \in Historical
  <2>1. PICK s \in Seven : FileName(s) = p[2]
    BY <1>5 DEF Historical, Seven
  <2>2. s \in First(34) /\ s \in Edition
    BY SevenNamed, AllNamed
  <2>3. PICK i \in 1 .. 38 : Editions[i] = s
    BY <1>2, <2>2
  <2>4. Opens(disk[p]) /\ Takes(disk[p], Editions[i])
    BY <1>5 DEF Opens, Takes
  <2> QED BY <1>1, <2>1, <2>2, <2>3, <2>4 DEF Serves
<1> QED BY <1>4, <1>5 DEF Fits

\* The branches of the programs and the checks of the library.
LEMMA Branches ==
    /\ \A e : Accessor4(e) # "none" => e \in Accepts[Accessor4(e)]
    /\ \A e : Accessor6(e) # "none" => e \in Accepts[Accessor6(e)]
    /\ \A e \in Seven : Accessor4(e) = "name" /\ Accessor6(e) = "none"
    /\ {"ORG", "ASNUM"} \subseteq Accepts["name"]
<1>1. ASSUME NEW e, Accessor4(e) # "none" PROVE e \in Accepts[Accessor4(e)]
  BY <1>1 DEF Accessor4, Accepts, Names
<1>2. ASSUME NEW e, Accessor6(e) # "none" PROVE e \in Accepts[Accessor6(e)]
  BY <1>2 DEF Accessor6, Accepts, NamesV6
<1>3. \A e \in Seven : Accessor4(e) = "name" /\ Accessor6(e) = "none"
  BY DEF Accessor4, Accessor6, Seven
<1>4. {"ORG", "ASNUM"} \subseteq Accepts["name"]
  BY DEF Accepts, Names
<1> QED BY <1>1, <1>2, <1>3, <1>4

\* The editions an accessor accepts and no branch of the programs calls it for.
LEMMA WithoutBranch ==
    /\ \A a \in {"id", "name", "region", "record"} : \A e \in Accepts[a] :
          Accessor4(e) = "none" => e \in {"LARGE_COUNTRY", "PROXY"}
    /\ \A a \in {"id_v6", "name_v6", "record_v6"} : \A e \in Accepts[a] :
          /\ e \notin {"ORG", "ASNUM"}
          /\ Accessor6(e) = "none" => e \in {"LARGE_COUNTRY_V6", "ACCURACYRADIUS_V6"}
<1>1. ASSUME NEW a \in {"id", "name", "region", "record"}, NEW e \in Accepts[a],
             Accessor4(e) = "none"
      PROVE  e \in {"LARGE_COUNTRY", "PROXY"}
  BY <1>1 DEF Accepts, Names, Accessor4
<1>2. ASSUME NEW a \in {"id_v6", "name_v6", "record_v6"}, NEW e \in Accepts[a]
      PROVE  /\ e \notin {"ORG", "ASNUM"}
             /\ Accessor6(e) = "none" => e \in {"LARGE_COUNTRY_V6", "ACCURACYRADIUS_V6"}
  BY <1>2 DEF Accepts, NamesV6, Accessor6
<1> QED BY <1>1, <1>2

\* The directory is set before the table is built.
LEMMA SameCustom ==
    ASSUME PInv, PInv', opt' = opt, prog' = prog, pc \in Stages, pc' \in Stages,
           pc # "options", pc' # "options"
    PROVE  custom' = custom
<1>1. OwnTable /\ OwnTable' /\ prog # "threads"
  BY OneProgram DEF PInv, ProgramInv
<1> QED BY <1>1 DEF OwnTable, Stages

\* Which database serves an edition depends on the directory and the disk.
LEMMA SameServes ==
    ASSUME UNCHANGED <<custom, disk>>
    PROVE  \A i, p : Serves(i, p)' <=> Serves(i, p)
BY DEF Serves, Directory

\* Nothing is shown, and the loop is where it was.
LEMMA SameListed ==
    ASSUME NEW n \in Nat, ListedTo(n), UNCHANGED <<lines, custom, disk>>
    PROVE  ListedTo(n)'
BY SameServes DEF ListedTo

\* Before the first edition no line has been shown.
LEMMA NothingListed ==
    ASSUME ListedTo(0) PROVE DOMAIN lines = {}
<1>1. 1 .. 0 = {}
  OBVIOUS
<1> QED BY <1>1 DEF ListedTo

\* There is no database for the next edition.
LEMMA SkippedListed ==
    ASSUME NEW n \in Nat, ListedTo(n), UNCHANGED <<lines, custom, disk>>,
           \A p \in DOMAIN disk : ~Serves(n + 1, p)
    PROVE  ListedTo(n + 1)'
<1>1. \A i \in 1 .. n + 1 : i \in 1 .. n \/ i = n + 1
  OBVIOUS
<1>2. 1 .. n \subseteq 1 .. n + 1
  OBVIOUS
<1> QED BY <1>1, <1>2, SameServes DEF ListedTo

\* There is one, and it is shown.
LEMMA GrownListed ==
    ASSUME NEW n \in 0 .. 37, ListedTo(n), UNCHANGED <<custom, disk>>,
           lines \in Seq(Lines), NEW x \in Lines, lines' = Append(lines, x),
           x.type = Editions[n + 1], x.file \in DOMAIN disk, Serves(n + 1, x.file)
    PROVE  ListedTo(n + 1)'
<1> DEFINE m == Len(lines)
<1>1. /\ m \in Nat /\ DOMAIN lines = 1 .. m /\ DOMAIN lines' = 1 .. m + 1
      /\ lines'[m + 1] = x /\ \A k \in 1 .. m : lines'[k] = lines[k]
  OBVIOUS
<1> HIDE DEF m
<1>2. /\ \A i \in 1 .. n + 1 : i \in 1 .. n \/ i = n + 1
      /\ \A i \in 1 .. n : i \in 1 .. n + 1 /\ i \in 1 .. 38 /\ i # n + 1
      /\ n + 1 \in 1 .. n + 1 /\ n + 1 \in 1 .. 38
  OBVIOUS
<1>3. /\ \A k \in 1 .. m + 1 : k \in 1 .. m \/ k = m + 1
      /\ \A k \in 1 .. m : k \in 1 .. m + 1 /\ m + 1 \in 1 .. m + 1
      /\ m + 1 \in 1 .. m + 1
  BY <1>1
<1>4. ASSUME NEW k \in DOMAIN lines'
      PROVE  /\ lines'[k].file \in DOMAIN disk'
             /\ \E i \in 1 .. n + 1 : lines'[k].type = Editions[i] /\ Serves(i, lines[k].file)'
  <2>1. CASE k \in 1 .. m
    <3>1. lines'[k] = lines[k]
      BY <1>1, <2>1
    <3>2. PICK i \in 1 .. n : lines[k].type = Editions[i] /\ Serves(i, lines[k].file)
      BY <1>1, <2>1 DEF ListedTo
    <3>3. lines[k].file \in DOMAIN disk
      BY <1>1, <2>1 DEF ListedTo
    <3>4. Serves(i, lines[k].file)'
      BY <3>1, <3>2 DEF Serves, Directory
    <3> QED BY <1>2, <3>1, <3>2, <3>3, <3>4
  <2>2. CASE k = m + 1
    <3>1. Serves(n + 1, lines[k].file)'
      BY <1>1, <2>2 DEF Serves, Directory
    <3> QED BY <1>1, <1>2, <2>2, <3>1
  <2> QED BY <1>1, <1>3, <2>1, <2>2
<1>5. ASSUME NEW i \in 1 .. n + 1, NEW p \in DOMAIN disk', Serves(i, p)'
      PROVE  \E k \in DOMAIN lines' : lines'[k].type = Editions[i] /\ lines'[k].file = p
  <2>1. Serves(i, p) /\ p \in DOMAIN disk
    BY <1>5, SameServes
  <2>2. CASE i \in 1 .. n
    <3>1. PICK k \in DOMAIN lines : lines[k].type = Editions[i] /\ lines[k].file = p
      BY <2>1, <2>2 DEF ListedTo
    <3> QED BY <1>1, <1>3, <3>1
  <2>3. CASE i = n + 1
    <3>1. p = x.file
      BY <2>1, <2>3 DEF Serves
    <3> QED BY <1>1, <1>3, <2>3, <3>1
  <2> QED BY <1>2, <2>2, <2>3
<1>6. ASSUME NEW j \in DOMAIN lines', NEW k \in DOMAIN lines', lines'[j].type = lines'[k].type
      PROVE  j = k
  <2>1. \A l \in 1 .. m : lines'[l].type # x.type
    <3> SUFFICES ASSUME NEW l \in 1 .. m PROVE lines[l].type # x.type
      BY <1>1
    <3>0. l \in DOMAIN lines
      BY <1>1
    <3>1. PICK i \in 1 .. n : lines[l].type = Editions[i] /\ Serves(i, lines[l].file)
      BY <3>0 DEF ListedTo
    <3>2. i # n + 1 /\ i \in 1 .. 38 /\ n + 1 \in 1 .. 38
      BY <1>2
    <3>3. Editions[i] # Editions[n + 1]
      BY <3>2, EditionFacts
    <3> QED BY <3>1, <3>3
  <2>2. CASE j \in 1 .. m /\ k \in 1 .. m
    BY <1>1, <1>6, <2>2 DEF ListedTo
  <2> QED BY <1>1, <1>3, <1>6, <2>1, <2>2
<1> QED BY <1>4, <1>5, <1>6 DEF ListedTo

\* Steps that show nothing: the loop is where it was.
LEMMA SameLines ==
    ASSUME PInv, PInv', LinesInv, UNCHANGED <<lines, refused, prog, opt, disk>>,
           pc \in Stages, pc' \in Stages, pc # "options", pc' # "options",
           Looped => Through' = Through /\ (pc' = "names" => type' = 1)
                     /\ (pc' = "done" => type' = 39)
    PROVE  Listed' /\ AccessorsFit' /\ Untold'
<1>1. custom' = custom
  BY SameCustom
<1>2. AccessorsFit'
  BY DEF LinesInv, AccessorsFit, SilentOnPurpose, RefusesOnlyMisplaced, Looped, Fits, Family
<1>3. Untold'
  BY DEF Untold, Stages
<1>4. Listed'
  <2> SUFFICES ASSUME Looped' PROVE ListedTo(Through)' /\ (pc' = "names" => type' = 1)
                                    /\ (pc' = "done" => type' = 39)
    BY DEF Listed
  <2>1. Looped
    BY DEF Looped
  <2>2. Through \in Nat /\ ListedTo(Through)
    BY <2>1 DEF LinesInv, Listed, Through, PInv, ProgramInv, Course
  <2>3. PICK n \in Nat : n = Through
    BY <2>2
  <2>4. ListedTo(n) /\ n = Through'
    BY <2>1, <2>2, <2>3
  <2>5. ListedTo(n)'
    BY <1>1, <2>4, SameListed
  <2> QED BY <2>1, <2>4, <2>5
<1> QED BY <1>2, <1>3, <1>4

\* Steps that find no database for the edition.
LEMMA SkippedLines ==
    ASSUME PInv, PInv', LinesInv, UNCHANGED <<lines, refused, prog, opt, disk>>,
           Looped, pc \in {"avail", "open"}, pc' \in {"types", "close"},
           type' = (IF pc' = "types" THEN type + 1 ELSE type),
           \A p \in DOMAIN disk : ~Serves(type, p)
    PROVE  Listed' /\ AccessorsFit' /\ Untold'
<1>1. custom' = custom
  BY SameCustom DEF Stages
<1>2. AccessorsFit'
  BY DEF LinesInv, AccessorsFit, SilentOnPurpose, RefusesOnlyMisplaced, Looped, Fits, Family
<1>3. Untold'
  BY DEF Untold
<1>4. type \in 1 .. 38
  BY DEF PInv, ProgramInv, Course
<1>5. PICK n \in Nat : n = type - 1
  BY <1>4
<1>6. ListedTo(n)
  BY <1>5 DEF LinesInv, Listed, Through, Stages
<1>7. n + 1 = type /\ Through' = n + 1
  BY <1>4, <1>5 DEF Through
<1>8. ListedTo(n + 1)'
  BY <1>1, <1>6, <1>7, SkippedListed
<1> QED BY <1>2, <1>3, <1>7, <1>8 DEF Listed

\* A silence that has its reason.
Silent(p) ==
    (Looped => Fits(p)) /\ disk[p] \in UNION {Accepts[a] : a \in Family}
    => disk[p] \in {"PROXY", "LARGE_COUNTRY", "ACCURACYRADIUS_V6", "LARGE_COUNTRY_V6",
                    "NETSPEED"}

\* Steps that show the database that is open.
LEMMA MoreLines ==
    ASSUME PInv, PInv', LinesInv, UNCHANGED <<prog, opt, disk, type>>,
           pc \in {"show", "resolve"}, pc' = "close",
           NEW what \in Texts, lines' = Append(lines, Line(what)),
           what = "silence" => Silent(Path),
           \A r \in refused' : r \in refused \/ (Looped /\ ~Fits(r[1]))
    PROVE  Listed' /\ AccessorsFit' /\ Untold'
<1>1. custom' = custom
  BY SameCustom DEF Stages
<1>2. Course /\ Shown /\ NamesInv /\ FileFound /\ Opened /\ Listed /\ AccessorsFit
  BY DEF PInv, ProgramInv, LinesInv
<1>3. Looped => /\ Present /\ th[Main].dir = Directory /\ Path \in DOMAIN disk
                /\ gi = disk[Path] /\ Path = <<Directory, FileName(Editions[type])>>
  BY <1>2 DEF FileFound, Path, Looped
<1>4. /\ Line(what) \in Lines /\ Line(what).type = Editions[type]
      /\ Line(what).file = Path /\ Line(what).what = what
  BY <1>2, <1>3, LineType DEF Present
<1>5. PICK x \in Lines : x = Line(what)
  BY <1>4
<1>6. lines \in Seq(Lines) /\ lines' = Append(lines, x)
  BY <1>2, <1>5 DEF Shown
<1>7. AccessorsFit'
  <2>1. RefusesOnlyMisplaced'
    BY <1>2 DEF AccessorsFit, RefusesOnlyMisplaced, Looped, Fits
  <2>2. \A k \in DOMAIN lines' : lines'[k] = x \/ (k \in DOMAIN lines /\ lines'[k] = lines[k])
    BY <1>6
  <2>3. \A k \in DOMAIN lines : lines[k].what = "silence" => Silent(lines[k].file)
    BY <1>2 DEF AccessorsFit, SilentOnPurpose, Silent
  <2>4. x.what = "silence" => Silent(x.file)
    BY <1>4, <1>5
  <2>5. \A k \in DOMAIN lines' : lines'[k].what = "silence" => Silent(lines'[k].file)
    BY <2>2, <2>3, <2>4
  <2>6. SilentOnPurpose'
    BY <2>5 DEF SilentOnPurpose, Silent, Looped, Fits, Family
  <2> QED BY <2>1, <2>6 DEF AccessorsFit
<1>8. Listed'
  <2> SUFFICES ASSUME Looped PROVE ListedTo(Through)'
    BY DEF Listed, Looped
  <2>1. type \in 1 .. 38
    BY <1>2 DEF Course
  <2>2. PICK n \in 0 .. 37 : n = type - 1
    BY <2>1
  <2>3. ListedTo(n) /\ n + 1 = type /\ Through' = n + 1
    BY <1>2, <2>1, <2>2 DEF Listed, Through, Stages
  <2>4. Serves(type, Path)
    BY <1>2, <1>3 DEF Serves, Opened, Present
  <2>5. /\ x.type = Editions[n + 1] /\ x.file \in DOMAIN disk /\ Serves(n + 1, x.file)
    BY <1>3, <1>4, <1>5, <2>3, <2>4
  <2>6. ListedTo(n + 1)'
    BY <1>1, <1>6, <2>3, <2>5, GrownListed
  <2> QED BY <2>3, <2>6
<1>9. Untold'
  BY DEF Untold
<1> QED BY <1>7, <1>8, <1>9

\* One lemma per action again: what is shown after it.
LEMMA ApartLines ==
    ASSUME PInv, PInv', LinesInv, SetDirectory PROVE LinesInv'
<1>1. /\ pc = "options" /\ pc' = "names"
      /\ UNCHANGED <<prog, opt, disk, type, lines, refused>>
  BY DEF SetDirectory, Goto
<1>2. Opened' /\ Untold'
  BY <1>1 DEF Opened, Untold
<1>3. AccessorsFit'
  BY <1>1 DEF LinesInv, AccessorsFit, SilentOnPurpose, RefusesOnlyMisplaced, Looped, Fits,
     Family
<1>4. Listed'
  <2> SUFFICES ASSUME Looped PROVE type' = 1 /\ ListedTo(0)' /\ Through' = 0
    BY <1>1 DEF Listed, Looped
  <2>1. type = 1 /\ ListedTo(0)
    BY <1>1 DEF LinesInv, Listed, Through, Stages
  <2>2. DOMAIN lines' = {} /\ 1 .. 0 = {}
    BY <1>1, <2>1, NothingListed
  <2> QED BY <1>1, <2>1, <2>2 DEF ListedTo, Through
<1> QED BY <1>2, <1>3, <1>4 DEF LinesInv

\* CallSetup, SetupNames, NamesReturned, NextType, CallOpenType
LEMMA TableLines ==
    ASSUME PInv, PInv', LinesInv,
           CallSetup \/ SetupNames \/ NamesReturned \/ NextType \/ CallOpenType
    PROVE  LinesInv'
<1>1. UNCHANGED <<lines, refused, prog, opt, disk, type>>
  BY DEF CallSetup, SetupNames, NamesReturned, NextType, CallOpenType, pvars
<1>2. \/ pc = "names" /\ pc' \in {"names", IF Looped THEN "types" ELSE "file"}
      \/ pc = "types" /\ pc' \in {"avail", "done"} /\ (pc' = "done" => type = 39)
      \/ pc = "available" /\ pc' = "open"
  BY EditionFacts DEF CallSetup, SetupNames, NamesReturned, NextType, CallOpenType, pvars,
     Goto, Looped
<1>3. pc' \notin {"show", "resolve", "close"} /\ pc \in Stages /\ pc' \in Stages
  BY <1>2 DEF Stages
<1>4. Opened'
  BY <1>3 DEF Opened
<1>5. Looped =>
         Through' = Through /\ (pc' = "names" => type' = 1) /\ (pc' = "done" => type' = 39)
  BY <1>1, <1>2, <1>3 DEF LinesInv, Listed, Through
<1>6. Listed' /\ AccessorsFit' /\ Untold'
  BY <1>1, <1>2, <1>3, <1>5, SameLines
<1> QED BY <1>4, <1>6 DEF LinesInv

\* OpenFile
LEMMA OpenFileLines ==
    ASSUME PInv, PInv', LinesInv, OpenFile PROVE LinesInv'
<1>1. pc = "file" /\ UNCHANGED <<nvars, refused, prog, opt, disk>> /\ ~Looped
  BY DEF OpenFile, PInv, ProgramInv, Course
<1>2. Listed'
  BY <1>1 DEF Listed, Looped
<1>3. CASE opt.file \in DOMAIN disk /\ Opens(disk[opt.file])
  <2>1. /\ gi' = disk[opt.file] /\ lines' = lines /\ pc' = "show"
        /\ type' = CHOOSE k \in DOMAIN Editions : Editions[k] = disk[opt.file]
    BY <1>3 DEF OpenFile, Goto
  <2>2. disk[opt.file] \in Edition
    BY <1>3, DiskFacts DEF PInv, ProgramInv
  <2>3. Opened' /\ Untold'
    <3>1. Editions[type'] = gi'
      BY <2>1, <2>2, EditionNumber
    <3> QED BY <1>1, <2>1, <2>2, <3>1 DEF Opened, Untold, Looped
  <2>4. AccessorsFit'
    BY <1>1, <2>1 DEF LinesInv, AccessorsFit, SilentOnPurpose, RefusesOnlyMisplaced,
       Looped, Fits, Family
  <2> QED BY <1>2, <2>3, <2>4 DEF LinesInv
<1>4. CASE ~(opt.file \in DOMAIN disk /\ Opens(disk[opt.file]))
  <2>1. lines' = Append(lines, Line("not_available")) /\ pc' = "close"
    BY <1>4 DEF OpenFile, Goto
  <2>2. Line("not_available").what = "not_available" /\ lines \in Seq(Lines)
    BY DEF Line, PInv, ProgramInv, Shown
  <2>3. Opened' /\ Untold'
    BY <2>1 DEF Opened, Untold
  <2>4. AccessorsFit'
    <3>1. RefusesOnlyMisplaced'
      BY <1>1 DEF LinesInv, AccessorsFit, RefusesOnlyMisplaced, Looped, Fits
    <3>2. \A k \in DOMAIN lines' : lines'[k].what = "silence" =>
             k \in DOMAIN lines /\ lines'[k] = lines[k]
      BY <2>1, <2>2
    <3>3. SilentOnPurpose'
      BY <1>1, <3>2 DEF LinesInv, AccessorsFit, SilentOnPurpose, Looped, Fits, Family
    <3> QED BY <3>1, <3>3 DEF AccessorsFit
  <2> QED BY <1>2, <2>3, <2>4 DEF LinesInv
<1> QED BY <1>3, <1>4

\* FindName: an edition without a name has no database.
LEMMA FindNameLines ==
    ASSUME PInv, PInv', LinesInv, FindName PROVE LinesInv'
<1> DEFINE unset == th'[Main].at = "idle"
<1>1. /\ pc \in {"avail", "open"} /\ (Setup(Main) \/ Read(Main))
      /\ type' = (IF unset THEN type + 1 ELSE type)
      /\ pc' = (IF unset THEN "types" ELSE pc)
      /\ UNCHANGED <<prog, opt, disk, lines, refused>>
  BY DEF FindName, Goto
<1>2. Course /\ OneThread /\ OwnTable /\ NamesInv /\ prog # "threads" /\ Looped
  BY <1>1, OneProgram DEF PInv, ProgramInv, Stages, Course
<1>3. Opened'
  BY <1>1 DEF Opened
<1>4. CASE ~unset
  <2>1. Looped =>
           Through' = Through /\ (pc' = "names" => type' = 1) /\ (pc' = "done" => type' = 39)
    BY <1>1, <1>4 DEF Through
  <2>2. Listed' /\ AccessorsFit' /\ Untold'
    <3>1. pc' = pc
      BY <1>1, <1>4
    <3> QED BY <1>1, <2>1, <3>1, SameLines DEF Stages
  <2> QED BY <1>3, <2>2 DEF LinesInv
<1>5. CASE unset
  <2>1. ~Setup(Main)
    BY <1>2, <1>5, MainSetup
  <2>2. th'[Main].want \notin First(34) /\ th'[Main].want = th[Main].want
    BY <1>1, <1>2, <1>5, <2>1, MainRead
  <2>3. th[Main].want = Editions[type]
    BY <1>1, <1>2 DEF OwnTable
  <2>4. \A p \in DOMAIN disk : ~Serves(type, p)
    BY <2>2, <2>3 DEF Serves
  <2>5. pc' = "types" /\ type' = type + 1
    BY <1>1, <1>5
  <2>6. Listed' /\ AccessorsFit' /\ Untold'
    BY <1>1, <1>2, <2>4, <2>5, SkippedLines
  <2> QED BY <1>3, <2>6 DEF LinesInv
<1> QED BY <1>4, <1>5

\* Stat: nor has one whose file is not there.
LEMMA StatLines ==
    ASSUME PInv, PInv', LinesInv, Stat PROVE LinesInv'
<1> DEFINE there == Path \in DOMAIN disk
<1>1. /\ pc = "avail" /\ Use(Main)
      /\ type' = (IF there THEN type ELSE type + 1)
      /\ pc' = (IF there THEN "available" ELSE "types")
      /\ UNCHANGED <<prog, opt, disk, lines, refused>>
  BY DEF Stat, Goto
<1>2. Opened' /\ Looped
  BY <1>1 DEF Opened, PInv, ProgramInv, Course
<1>3. CASE there
  <2>1. pc' = "available" /\ type' = type
    BY <1>1, <1>3
  <2>2. Through' = Through
    BY <1>1, <2>1 DEF Through
  <2>3. Listed' /\ AccessorsFit' /\ Untold'
    BY <1>1, <2>1, <2>2, SameLines DEF Stages
  <2> QED BY <1>2, <2>3 DEF LinesInv
<1>4. CASE ~there
  <2>1. Path = <<Directory, FileName(Editions[type])>>
    BY <1>1, PathIsFound DEF Use
  <2>2. \A p \in DOMAIN disk : ~Serves(type, p)
    BY <1>4, <2>1 DEF Serves
  <2>3. pc' = "types" /\ type' = type + 1
    BY <1>1, <1>4
  <2>4. Listed' /\ AccessorsFit' /\ Untold'
    BY <1>1, <1>2, <2>2, <2>3, SkippedLines
  <2> QED BY <1>2, <2>4 DEF LinesInv
<1> QED BY <1>3, <1>4

\* OpenType: nor has one whose file holds another edition.
LEMMA OpenTypeLines ==
    ASSUME PInv, PInv', LinesInv, OpenType PROVE LinesInv'
<1> DEFINE e == disk[Path]
           taken == Opens(e) /\ Takes(e, Editions[type])
<1>1. /\ pc = "open" /\ Use(Main)
      /\ gi' = (IF taken THEN e ELSE "none")
      /\ pc' = (IF taken THEN "show" ELSE "close")
      /\ UNCHANGED <<prog, opt, disk, type, lines, refused>>
  BY DEF OpenType, Goto
<1>2. Looped
  BY <1>1 DEF PInv, ProgramInv, Course
<1>3. Path = <<Directory, FileName(Editions[type])>>
  BY <1>1, PathIsFound DEF Use
<1>4. CASE taken
  <2>1. pc' = "show" /\ gi' = e
    BY <1>1, <1>4
  <2>2. Path \in DOMAIN disk
    BY <1>1, <1>3 DEF PInv, ProgramInv, FileFound, Present
  <2>3. gi' \in Edition
    BY <2>1, <2>2, DiskFacts DEF PInv, ProgramInv
  <2>4. Opened'
    BY <1>1, <1>2, <1>4, <2>1, <2>3 DEF Opened, Looped
  <2>5. Through' = Through
    BY <1>1, <2>1 DEF Through
  <2>6. Listed' /\ AccessorsFit' /\ Untold'
    BY <1>1, <2>1, <2>5, SameLines DEF Stages
  <2> QED BY <2>4, <2>6 DEF LinesInv
<1>5. CASE ~taken
  <2>1. pc' = "close"
    BY <1>1, <1>5
  <2>2. \A p \in DOMAIN disk : ~Serves(type, p)
    BY <1>3, <1>5 DEF Serves
  <2>3. Opened'
    BY <2>1 DEF Opened
  <2>4. Listed' /\ AccessorsFit' /\ Untold'
    BY <1>1, <1>2, <2>1, <2>2, SkippedLines
  <2> QED BY <2>3, <2>4 DEF LinesInv
<1> QED BY <1>4, <1>5

\* Resolve, Resolving
LEMMA ResolveLines ==
    ASSUME PInv, PInv', LinesInv, Resolve \/ Resolving PROVE LinesInv'
<1>1. /\ pc \in {"show", "resolve"} /\ pc' = "resolve"
      /\ UNCHANGED <<prog, opt, disk, type, gi, lines, refused>>
  BY DEF Resolve, Resolving, Goto, pvars
<1>2. Opened'
  BY <1>1 DEF LinesInv, Opened, Looped
<1>3. Through' = Through
  BY <1>1 DEF Through
<1>4. Listed' /\ AccessorsFit' /\ Untold'
  BY <1>1, <1>3, SameLines DEF Stages
<1> QED BY <1>2, <1>4 DEF LinesInv

\* Close
LEMMA CloseLines ==
    ASSUME PInv, PInv', LinesInv, Close PROVE LinesInv'
<1>1. /\ pc = "close" /\ pc' = (IF Looped THEN "types" ELSE "done")
      /\ type' = (IF Looped THEN type + 1 ELSE type)
      /\ UNCHANGED <<prog, opt, disk, lines, refused>>
  BY DEF Close, Goto, Looped
<1>2. Opened'
  BY <1>1 DEF Opened
<1>3. type \in Nat
  BY DEF PInv, ProgramInv, Course
<1>4. Looped => pc' = "types" /\ Through' = Through
  BY <1>1, <1>3 DEF Through
<1>5. Listed' /\ AccessorsFit' /\ Untold'
  BY <1>1, <1>4, SameLines DEF Stages
<1> QED BY <1>2, <1>5 DEF LinesInv

\* Describe: -v
LEMMA DescribeLines ==
    ASSUME PInv, PInv', LinesInv, Describe PROVE LinesInv'
<1>1. /\ pc = "show" /\ pc' = "close" /\ UNCHANGED <<prog, opt, disk, type, gi, refused>>
  BY DEF Describe, Goto
<1>2. PICK what \in {"info", "null"} : lines' = Append(lines, Line(what))
  BY DEF Describe
<1>3. Opened'
  BY <1>1 DEF Opened
<1>4. what \in Texts /\ what # "silence"
  BY DEF Texts
<1>5. Listed' /\ AccessorsFit' /\ Untold'
  BY <1>1, <1>2, <1>4, MoreLines
<1> QED BY <1>3, <1>5 DEF LinesInv

\* Lookup: the accessor of the edition, and the database that is open.
LEMMA LookupLines ==
    ASSUME PInv, PInv', LinesInv, Lookup PROVE LinesInv'
<1> DEFINE i == Editions[type]
           accessor == Accessor(i)
<1>1. pc = "resolve" /\ pc' = "close" /\ UNCHANGED <<prog, opt, disk, type>>
  BY DEF Lookup, Goto
<1>2. Opened' /\ Course /\ Opened /\ FileFound
  BY <1>1 DEF Opened, LinesInv, PInv, ProgramInv
<1>3. prog \in {"geoiplookup", "geoiplookup6"}
  BY <1>1, <1>2, OneProgram DEF Stages
<1>4. /\ Path \in DOMAIN disk /\ gi = disk[Path] /\ gi \in Edition
      /\ ~Looped => gi = i
      /\ Looped => Takes(disk[Path], i) /\ i \in First(34) /\ Path[2] = FileName(i)
  <2>1. Looped => Path = <<Directory, FileName(Editions[type])>>
    BY <1>1, <1>2 DEF FileFound, Path, Looped
  <2> QED BY <1>1, <1>2, <2>1 DEF Opened, FileFound, Present
<1>5. (Looped => Fits(Path)) =>
          gi = i \/ (Looped /\ gi \in {"ORG", "ASNUM"} /\ i \in Seven)
  <2> HIDE DEF i
  <2> QED BY <1>4, Fitting
<1>6. /\ prog = "geoiplookup" =>
            accessor = Accessor4(i) /\ Family = {"id", "name", "region", "record"}
      /\ prog = "geoiplookup6" =>
            accessor = Accessor6(i) /\ Family = {"id_v6", "name_v6", "record_v6"}
  BY <1>3 DEF Accessor, Family
<1> HIDE DEF i, accessor
<1>7. accessor = "none" => Silent(Path)
  <2> SUFFICES ASSUME accessor = "none", Looped => Fits(Path),
                      NEW a \in Family, gi \in Accepts[a]
               PROVE  gi \in {"PROXY", "LARGE_COUNTRY", "ACCURACYRADIUS_V6",
                              "LARGE_COUNTRY_V6", "NETSPEED"}
    BY <1>4 DEF Silent
  <2>1. CASE prog = "geoiplookup"
    <3>1. gi = i
      BY <1>5, <1>6, <2>1, Branches
    <3> QED BY <1>6, <2>1, <3>1, WithoutBranch
  <2>2. CASE prog = "geoiplookup6"
    <3>1. gi = i
      BY <1>5, <1>6, <2>2, WithoutBranch
    <3> QED BY <1>6, <2>2, <3>1, WithoutBranch
  <2> QED BY <1>3, <2>1, <2>2
<1>8. accessor # "none" /\ gi \notin Accepts[accessor] => Looped /\ ~Fits(Path)
  <2> SUFFICES ASSUME accessor # "none", Looped => Fits(Path) PROVE gi \in Accepts[accessor]
    OBVIOUS
  <2>1. CASE gi = i
    BY <1>3, <1>6, <2>1, Branches
  <2>2. CASE Looped /\ gi \in {"ORG", "ASNUM"} /\ i \in Seven
    BY <1>3, <1>6, <2>2, Branches
  <2> QED BY <1>5, <2>1, <2>2
<1>9. gi \in Accepts["id"] /\ i = "NETSPEED" => gi = "NETSPEED"
  BY <1>4 DEF Accepts, Takes
<1>10. \E what \in Texts :
          /\ lines' = Append(lines, Line(what))
          /\ what = "silence" => Silent(Path)
          /\ \A r \in refused' : r \in refused \/ (Looped /\ ~Fits(r[1]))
  <2>1. CASE look.value = 0
    BY <2>1 DEF Lookup, Texts
  <2>2. CASE look.value # 0 /\ accessor = "none"
    BY <1>7, <2>2 DEF Lookup, Texts, accessor, i
  <2>3. CASE look.value # 0 /\ accessor # "none" /\ gi \notin Accepts[accessor]
    <3>1. lines' = Append(lines, Line(Refusal(i))) /\ refused' = refused \cup {<<Path, prog>>}
      BY <2>3 DEF Lookup, accessor, i
    <3>2. Refusal(i) \in Texts /\ Refusal(i) # "silence"
      BY DEF Refusal, Texts
    <3>3. \A r \in refused' : r \in refused \/ (Looped /\ ~Fits(r[1]))
      <4> SUFFICES ASSUME NEW r, r = <<Path, prog>> PROVE Looped /\ ~Fits(r[1])
        BY <3>1
      <4>1. r[1] = Path
        OBVIOUS
      <4> QED BY <1>8, <2>3, <4>1
    <3> QED BY <3>1, <3>2, <3>3
  <2>4. CASE look.value # 0 /\ accessor # "none" /\ gi \in Accepts[accessor]
    <3>1. PICK answer \in Answers(i, accessor) :
            lines' = Append(lines, Line(answer)) /\ refused' = refused
      BY <2>4 DEF Lookup, accessor, i
    <3>2. answer \in Texts
      BY DEF Answers, Texts
    <3>3. answer = "silence" => i = "NETSPEED" /\ accessor \in {"id", "id_v6"}
      BY DEF Answers
    <3>4. answer = "silence" => Silent(Path)
      <4> SUFFICES ASSUME answer = "silence" PROVE Silent(Path)
        OBVIOUS
      <4>1. accessor = "id"
        BY <1>3, <1>6, <2>4, <3>3, AccessorOf4, AccessorOf6
      <4>2. gi = "NETSPEED"
        BY <1>9, <2>4, <3>3, <4>1
      <4> QED BY <1>4, <4>2 DEF Silent
    <3> QED BY <3>1, <3>2, <3>4
  <2> QED BY <2>1, <2>2, <2>3, <2>4
<1>11. Listed' /\ AccessorsFit' /\ Untold'
  BY <1>1, <1>10, MoreLines
<1> QED BY <1>2, <1>11 DEF LinesInv

\* The other programs show nothing.
LEMMA OtherLines ==
    ASSUME PInv, LinesInv,
           UNCHANGED <<prog, opt, disk, lines, refused>>,
           pc \in {"record", "threads"}, pc' \in {"told", "threads"}
    PROVE  LinesInv'
<1>1. pc' \notin Stages /\ pc' \notin {"show", "resolve"}
  BY DEF Stages
<1>2. lines = <<>> /\ refused = {}
  BY DEF LinesInv, Untold
<1>3. AccessorsFit'
  BY <1>2 DEF AccessorsFit, SilentOnPurpose, RefusesOnlyMisplaced
<1> QED BY <1>1, <1>2, <1>3 DEF LinesInv, Opened, Listed, Untold

\* A step that changes nothing.
LEMMA StutterLines ==
    ASSUME PInv, LinesInv, UNCHANGED avars PROVE LinesInv'
<1>1. UNCHANGED <<custom, prog, opt, disk, pc, type, gi, lines, refused>>
  BY DEF avars, nvars, pvars
<1>2. Opened' /\ Untold'
  BY <1>1 DEF LinesInv, Opened, Untold, Looped
<1>3. AccessorsFit'
  BY <1>1 DEF LinesInv, AccessorsFit, SilentOnPurpose, RefusesOnlyMisplaced, Looped, Fits,
     Family
<1>4. Listed'
  <2> SUFFICES ASSUME Looped, pc \in Stages
               PROVE  /\ pc \in {"options", "names"} => type = 1
                      /\ pc = "done" => type = 39
                      /\ ListedTo(Through)'
    BY <1>1 DEF Listed, Looped
  <2>1. /\ pc \in {"options", "names"} => type = 1
        /\ pc = "done" => type = 39
        /\ ListedTo(Through) /\ Through \in Nat /\ Through' = Through
    BY <1>1 DEF LinesInv, Listed, Through, PInv, ProgramInv, Course
  <2>2. PICK n \in Nat : n = Through
    BY <2>1
  <2>3. ListedTo(n)'
    BY <1>1, <2>1, <2>2, SameListed
  <2> QED BY <2>1, <2>2, <2>3
<1> QED BY <1>2, <1>3, <1>4 DEF LinesInv

\* Every step keeps what the lines say.
LEMMA LinesStep ==
    ASSUME PInv, PInv', LinesInv, [PNext]_avars PROVE LinesInv'
<1>1. ASSUME Program PROVE LinesInv'
  BY <1>1, ApartLines, TableLines, OpenFileLines, FindNameLines, StatLines, OpenTypeLines,
     DescribeLines, ResolveLines, LookupLines, CloseLines DEF Program
<1>2. ASSUME pc = "record", NEW c \in Countries, NEW r \in Regions, TellRecord(c, r)
      PROVE  LinesInv'
  BY <1>2, OtherLines DEF TellRecord, Goto
<1>3. ASSUME ThreadsCall PROVE LinesInv'
  BY <1>3, OtherLines DEF ThreadsCall, pvars
<1> QED BY <1>1, <1>2, <1>3, StutterLines DEF PNext

\* No line is shown at the start.
LEMMA LinesInitial ==
    ASSUME PInit PROVE LinesInv
<1>1. /\ pc \in {"record", "threads", "options"} /\ type = 1 /\ lines = <<>> /\ refused = {}
  BY DEF PInit
<1>2. Opened /\ Untold /\ AccessorsFit
  BY <1>1 DEF Opened, Untold, AccessorsFit, SilentOnPurpose, RefusesOnlyMisplaced
<1>3. Listed
  <2>1. Through = 0 /\ 1 .. 0 = {} /\ DOMAIN lines = {}
    BY <1>1 DEF Through
  <2> QED BY <1>1, <2>1 DEF Listed, ListedTo
<1> QED BY <1>2, <1>3 DEF LinesInv

\* Both invariants together.
LEMMA LinesHold == PSpec => [](PInv /\ LinesInv)
<1>1. PInit => PInv /\ LinesInv
  BY ProgramInitial, LinesInitial
<1>2. PInv /\ LinesInv /\ [PNext]_avars => PInv' /\ LinesInv'
  BY ProgramStep, LinesStep
<1> QED BY <1>1, <1>2, PTL DEF PSpec

\* Every database of the directory that holds what its name says is shown exactly
\* once, though editions share files and files may hold ORG or ASNUM in place of
\* seven editions (GeoIP.c:1600); of another directory none is shown.
THEOREM DatabasesShownOnce == PSpec => []EachShownOnce
<1>1. ASSUME PInv, LinesInv, Done, Looped, NEW p \in DOMAIN disk
      PROVE  LET shown == {k \in DOMAIN lines : lines[k].file = p} IN
             /\ Used(p) /\ Fits(p) /\ disk[p] # "LOCATIONA_V6" => Cardinality(shown) = 1
             /\ ~Used(p) => shown = {}
  <2> DEFINE shown == {k \in DOMAIN lines : lines[k].file = p}
  <2>1. ListedTo(38)
    <3>1. Through = 38
      BY <1>1 DEF LinesInv, Listed, Done, Stages, Through
    <3> QED BY <1>1, <3>1 DEF LinesInv, Listed, Done, Stages
  <2>2. Directory = IF opt.dir = "none" THEN DataDir ELSE opt.dir
    <3>1. custom = IF opt.dir = "none" THEN "unset" ELSE opt.dir
      BY <1>1, OneProgram DEF PInv, ProgramInv, OwnTable, Done, Stages
    <3>2. opt.dir # "none" => opt.dir # "unset"
      BY <1>1, NamesConstants DEF PInv, ProgramInv, Course
    <3> QED BY <3>1, <3>2 DEF Directory
  <2>3. Used(p) <=> p[1] = Directory
    BY <2>2 DEF Used
  <2>4. ASSUME Used(p), Fits(p), disk[p] # "LOCATIONA_V6" PROVE Cardinality(shown) = 1
    <3>1. PICK i \in 1 .. 38 : Serves(i, p)
      BY <1>1, <2>3, <2>4, TakenAtAll DEF PInv, ProgramInv
    <3>2. PICK k \in DOMAIN lines : lines[k].type = Editions[i] /\ lines[k].file = p
      BY <2>1, <3>1 DEF ListedTo
    <3>3. ASSUME NEW l \in DOMAIN lines, lines[l].file = p PROVE l = k
      <4>1. PICK j \in 1 .. 38 : lines[l].type = Editions[j] /\ Serves(j, p)
        BY <2>1, <3>3 DEF ListedTo
      <4>2. Editions[i] = Editions[j]
        BY <2>4, <3>1, <4>1, TakenOnce
      <4> QED BY <2>1, <3>2, <4>1, <4>2 DEF ListedTo
    <3>4. shown = {k}
      BY <3>2, <3>3
    <3> QED BY <3>4, FS_Singleton
  <2>5. ASSUME ~Used(p) PROVE shown = {}
    <3> SUFFICES ASSUME NEW k \in DOMAIN lines, lines[k].file = p PROVE FALSE
      OBVIOUS
    <3>1. PICK i \in 1 .. 38 : Serves(i, p)
      BY <2>1 DEF ListedTo
    <3> QED BY <2>3, <2>5, <3>1 DEF Serves
  <2> QED BY <2>4, <2>5
<1>2. PInv /\ LinesInv => EachShownOnce
  BY <1>1 DEF EachShownOnce
<1> QED BY <1>2, LinesHold, PTL

\* No branch of geoiplookup() calls an accessor that refuses the database it was
\* opened for, and none is missing but for five editions, whatever is installed.
THEOREM BranchesFit == PSpec => []AccessorsFit
<1>1. PInv /\ LinesInv => AccessorsFit
  BY DEF LinesInv
<1> QED BY <1>1, LinesHold, PTL
=============================================================================
