---------------------------- MODULE LookupPrograms ----------------------------
(***************************************************************************)
(* The programs around the library: geoiplookup and geoiplookup6 build the *)
(* table of file names and show what every database that is installed      *)
(* knows of one address (or the one file given with -f); test-geoip-city   *)
(* and test-geoip-region look up the names of what a record holds.         *)
(* The library is its table of names (DbFileNames), the resolver it calls  *)
(* (LookupAddress), its tables of regions and zones (TimeZones), and    *)
(* which databases its functions accept.                                   *)
(* What an accessor answers for an accepted database is any answer.        *)
(***************************************************************************)
EXTENDS TimeZones, DbFileNames, LookupAddress

CONSTANTS
    Main,        \* the thread a program runs in
    Installed,   \* the installations: <<directory, file>> |-> edition it holds
    GivenFiles,  \* the files given with -f
    Countries,   \* the country codes of records
    Regions      \* the region codes of records, Null if they have none

ASSUME ProgramConstants ==
    /\ Main \in Threads
    /\ \A d \in Installed : \A f \in DOMAIN d : d[f] \in Edition /\ f = <<f[1], f[2]>>
    /\ Regions \subseteq Seq(0 .. 255) \cup {Null} /\ Null \notin Countries \X Nat

VARIABLES
    prog,     \* the program that runs
    opt,      \* its command line: -d, -f, -v, and its host
    disk,     \* the installation it meets
    pc,
    type,     \* i: the number of the edition
    gi,       \* the edition of the database that is open, or "none"
    handles,  \* handles allocated and not released
    results,  \* names and records allocated and not released
    lines,    \* what was shown: the edition asked for, the file, the text
    refused,  \* the files whose database an accessor refused
    told      \* the record whose names are being shown, with these names

pvars == <<prog, opt, disk, pc, type, gi, handles, results, lines, refused, told>>
avars == <<nvars, lvars, pvars>>

NumDbTypes == Len(Editions) + 1

-----------------------------------------------------------------------------
(* The library's checks of editions *)

\* _setup_segments knows the segments of these; GeoIP_open gives up on others.
Opens(e) == e \notin {"CITYCONFIDENCE", "CITYCONFIDENCEDIST",
                      "CITYCONFIDENCEDIST_ISP_ORG", "CCM_COUNTRY", "LOCATIONA_V6"}

\* GeoIP_open_type: "type must match, but we accept org and asnum" (GeoIP.c:1600).
Takes(e, wanted) == e \in {wanted, "ASNUM", "ORG"}

Names == {"ORG", "ISP", "DOMAIN", "ASNUM", "ACCURACYRADIUS", "NETSPEED_REV1",
          "USERTYPE", "REGISTRAR", "LOCATIONA", "CITYCONF", "COUNTRYCONF",
          "REGIONCONF", "POSTALCONF"}
NamesV6 == {"ORG_V6", "ISP_V6", "DOMAIN_V6", "ASNUM_V6", "ACCURACYRADIUS_V6",
            "NETSPEED_REV1_V6", "USERTYPE_V6", "REGISTRAR_V6", "LOCATIONA_V6"}

\* The databases the accessors accept.
Accepts == [ id        |-> {"COUNTRY", "LARGE_COUNTRY", "PROXY", "NETSPEED"},
             id_v6     |-> {"COUNTRY_V6", "LARGE_COUNTRY_V6"},
             name      |-> Names,
             name_v6   |-> NamesV6,
             region    |-> {"REGION_REV0", "REGION_REV1"},
             record    |-> {"CITY_REV0", "CITY_REV1"},
             record_v6 |-> {"CITY_REV0_V6", "CITY_REV1_V6"} ]

-----------------------------------------------------------------------------
(* geoiplookup() of either program: the accessor for an edition *)

\* Mutants: speeds that are names are looked up like speeds that are numbers,
\* and an edition is missing.
Accessor4SpeedId(i) ==
    CASE i \in {"DOMAIN", "LOCATIONA", "ACCURACYRADIUS", "ASNUM", "USERTYPE",
                "REGISTRAR", "COUNTRYCONF", "CITYCONF",
                "REGIONCONF", "POSTALCONF", "ORG", "ISP"} -> "name"
      [] i \in {"COUNTRY", "NETSPEED", "NETSPEED_REV1"} -> "id"
      [] i \in {"REGION_REV0", "REGION_REV1"} -> "region"
      [] i \in {"CITY_REV0", "CITY_REV1"} -> "record"
      [] OTHER -> "none"

Accessor4NoConf(i) ==
    CASE i \in {"DOMAIN", "LOCATIONA", "ACCURACYRADIUS", "ASNUM", "USERTYPE",
                "REGISTRAR", "NETSPEED_REV1", "COUNTRYCONF", "CITYCONF",
                "REGIONCONF", "ORG", "ISP"} -> "name"
      [] i \in {"COUNTRY", "NETSPEED"} -> "id"
      [] i \in {"REGION_REV0", "REGION_REV1"} -> "region"
      [] i \in {"CITY_REV0", "CITY_REV1"} -> "record"
      [] OTHER -> "none"

Accessor4(i) ==
    CASE i \in {"DOMAIN", "LOCATIONA", "ACCURACYRADIUS", "ASNUM", "USERTYPE",
                "REGISTRAR", "NETSPEED_REV1", "COUNTRYCONF", "CITYCONF",
                "REGIONCONF", "POSTALCONF", "ORG", "ISP"} -> "name"
      [] i \in {"COUNTRY", "NETSPEED"} -> "id"
      [] i \in {"REGION_REV0", "REGION_REV1"} -> "region"
      [] i \in {"CITY_REV0", "CITY_REV1"} -> "record"
      [] OTHER -> "none"

Accessor6(i) ==
    CASE i \in {"LOCATIONA_V6", "ASNUM_V6", "USERTYPE_V6", "REGISTRAR_V6",
                "DOMAIN_V6", "ORG_V6", "ISP_V6", "NETSPEED_REV1_V6"} -> "name_v6"
      [] i \in {"CITY_REV0_V6", "CITY_REV1_V6"} -> "record_v6"
      [] i = "COUNTRY_V6" -> "id_v6"
      [] OTHER -> "none"

Accessor(i) == IF prog = "geoiplookup" THEN Accessor4(i) ELSE Accessor6(i)

\* What an accessor answers, in the words the program shows it with; "silence"
\* is a speed without a word.  A refusal is answered like an address that is
\* not found; as a speed that is UNKNOWN.
Answers(i, accessor) ==
    IF accessor \in {"id", "id_v6"}
    THEN IF i = "NETSPEED" THEN {"found", "silence"}
         ELSE {"found", "not_found", "invalid"}
    ELSE {"found", "not_found"}

Refusal(i) == IF i = "NETSPEED" THEN "found" ELSE "not_found"

-----------------------------------------------------------------------------
(* The programs *)

NoFile == <<"none", "none">>
Path == IF opt.file # NoFile THEN opt.file
        ELSE <<th[Main].dir, FileName(Editions[type])>>

Programs == {"geoiplookup", "geoiplookup6", "test-geoip", "threads"}
NoRecord == [country |-> Null, region |-> Null, name |-> Null, zone |-> FALSE]

PInit ==
    /\ NInit /\ LInit
    /\ prog \in Programs
    /\ opt \in [dir : Directories \cup {"none"}, file : GivenFiles \cup {NoFile},
                version : BOOLEAN, host : Hosts]
    /\ disk \in Installed \cup {<<>>}
    /\ opt.version => opt.host = CHOOSE h \in Hosts : TRUE   \* not looked up
    /\ prog \in {"test-geoip", "threads"} =>
          opt = [dir |-> "none", file |-> NoFile, version |-> FALSE,
                 host |-> CHOOSE h \in Hosts : TRUE] /\ disk = <<>>
    /\ pc = CASE prog = "test-geoip" -> "record"
              [] prog = "threads" -> "threads"
              [] OTHER -> "options"
    /\ type = 1 /\ gi = "none" /\ handles = 0 /\ results = 0
    /\ lines = <<>> /\ refused = {}
    /\ told = NoRecord

Goto(where) == pc' = where

\* -d, and then the table, which main builds itself.
SetDirectory ==
    /\ pc = "options"
    /\ IF opt.dir = "none" THEN UNCHANGED nvars
       ELSE SetupCustomDirectory(Main, opt.dir) /\ UNCHANGED raced
    /\ Goto("names")
    /\ UNCHANGED <<lvars, prog, opt, disk, type, gi, handles, results, lines, refused, told>>

CallSetup ==
    /\ pc = "names" /\ th[Main].at = "idle"
    /\ th' = [th EXCEPT ![Main].at = "test"]
    /\ UNCHANGED <<custom, current, tables, paths, broken, raced, lvars, pvars>>

SetupNames ==
    /\ pc = "names" /\ Setup(Main)
    /\ UNCHANGED <<raced, lvars, pvars>>

NamesReturned ==
    /\ pc = "names" /\ th[Main].at = "read"
    /\ th' = [th EXCEPT ![Main] = Resting]
    /\ Goto(IF opt.file = NoFile THEN "types" ELSE "file")
    /\ UNCHANGED <<custom, current, tables, paths, broken, raced, lvars, prog, opt, disk,
                   type, gi, handles, results, lines, refused, told>>

Line(what) == [type |-> Editions[type], file |-> Path, what |-> what]

\* With -f: the edition of the database is the one asked for.
OpenFile ==
    /\ pc = "file"
    /\ IF opt.file \in DOMAIN disk /\ Opens(disk[opt.file])
       THEN /\ gi' = disk[opt.file] /\ handles' = handles + 1
            /\ type' = CHOOSE k \in DOMAIN Editions : Editions[k] = disk[opt.file]
            /\ Goto("show")
            /\ UNCHANGED lines
       ELSE /\ lines' = Append(lines, Line("not_available"))
            /\ Goto("close")
            /\ UNCHANGED <<gi, handles, type>>
    /\ UNCHANGED <<nvars, lvars, prog, opt, disk, results, refused, told>>

\* The loop; type 0, the first, has no name.
NextType ==
    /\ pc = "types"
    /\ IF type = NumDbTypes THEN Goto("done") /\ UNCHANGED nvars
       ELSE Ask(Main, Editions[type]) /\ UNCHANGED raced /\ Goto("avail")
    /\ UNCHANGED <<lvars, prog, opt, disk, type, gi, handles, results, lines, refused, told>>

\* In GeoIP_db_avail and GeoIP_open_type: the table, and the name.
FindName ==
    /\ pc \in {"avail", "open"}
    /\ Setup(Main) \/ Read(Main)
    /\ LET unset == th'[Main].at = "idle" IN
       /\ type' = IF unset THEN type + 1 ELSE type
       /\ Goto(IF unset THEN "types" ELSE pc)
    /\ UNCHANGED <<raced, lvars, prog, opt, disk, gi, handles, results, lines, refused, told>>

Stat ==
    /\ pc = "avail" /\ Use(Main)
    /\ LET there == Path \in DOMAIN disk IN
       /\ type' = IF there THEN type ELSE type + 1
       /\ Goto(IF there THEN "available" ELSE "types")
    /\ UNCHANGED <<raced, lvars, prog, opt, disk, gi, handles, results, lines, refused, told>>

CallOpenType ==
    /\ pc = "available"
    /\ Ask(Main, Editions[type])
    /\ Goto("open")
    /\ UNCHANGED <<raced, lvars, prog, opt, disk, type, gi, handles, results, lines, refused,
                   told>>

\* Mutant: the handle of a database of another type is not deleted.
OpenTypeKeeps ==
    /\ pc = "open" /\ Use(Main)
    /\ LET e == disk[Path]
           taken == Opens(e) /\ Takes(e, Editions[type]) IN
       /\ gi' = IF taken THEN e ELSE "none"
       /\ handles' = IF Opens(e) THEN handles + 1 ELSE handles
       /\ Goto(IF taken THEN "show" ELSE "close")
    /\ UNCHANGED <<raced, lvars, prog, opt, disk, type, results, lines, refused, told>>

\* A database of another type is deleted, and NULL returned.
OpenType ==
    /\ pc = "open" /\ Use(Main)
    /\ LET e == disk[Path]
           taken == Opens(e) /\ Takes(e, Editions[type]) IN
       /\ gi' = IF taken THEN e ELSE "none"
       /\ handles' = IF taken THEN handles + 1 ELSE handles
       /\ Goto(IF taken THEN "show" ELSE "close")
    /\ UNCHANGED <<raced, lvars, prog, opt, disk, type, results, lines, refused, told>>

\* -v.  A database may have no information; only geoiplookup6, and only in its
\* loop, prints that NULL.
Describe ==
    /\ pc = "show" /\ opt.version
    /\ \E info \in {"info", "null"} :
          LET checked == prog = "geoiplookup" \/ opt.file # NoFile IN
          lines' = Append(lines, Line(IF checked THEN "info" ELSE info))
    /\ Goto("close")
    /\ UNCHANGED <<nvars, lvars, prog, opt, disk, type, gi, handles, results, refused, told>>

Resolve ==
    /\ pc = "show" /\ ~opt.version
    /\ IF prog = "geoiplookup" THEN BeginLookup(opt.host) ELSE LookupV6(opt.host)
    /\ Goto("resolve")
    /\ UNCHANGED <<nvars, prog, opt, disk, type, gi, handles, results, lines, refused,
                   told>>

Resolving ==
    /\ pc = "resolve"
    /\ GetHostByName(opt.host) \/ Grow \/ Return
    /\ UNCHANGED <<nvars, pvars>>

\* geoiplookup releases what it found, geoiplookup6 neither names nor records.
Lookup ==
    LET i == Editions[type]
        accessor == Accessor(i)
    IN
    /\ pc = "resolve" /\ look.at = "returned"
    /\ look' = Asleep
    /\ IF look.value = 0
       THEN lines' = Append(lines, Line("unresolved")) /\ UNCHANGED <<results, refused>>
       ELSE IF accessor = "none"
       THEN lines' = Append(lines, Line("silence")) /\ UNCHANGED <<results, refused>>
       ELSE IF gi \notin Accepts[accessor]
       THEN /\ lines' = Append(lines, Line(Refusal(i)))
            /\ refused' = refused \cup {<<Path, prog>>}
            /\ UNCHANGED results
       ELSE \E answer \in Answers(i, accessor) :
            /\ lines' = Append(lines, Line(answer))
            /\ results' = IF answer = "found" /\ accessor \in {"name_v6", "record_v6"}
                          THEN results + 1 ELSE results
            /\ UNCHANGED refused
    /\ Goto("close")
    /\ UNCHANGED <<nvars, buffers, prog, opt, disk, type, gi, handles, told>>

\* Mutant: the loop stops at the first database that cannot be opened.
CloseStops ==
    /\ pc = "close"
    /\ handles' = IF gi = "none" THEN handles ELSE handles - 1
    /\ gi' = "none"
    /\ type' = type + 1
    /\ Goto(IF opt.file = NoFile /\ gi # "none" THEN "types" ELSE "done")
    /\ UNCHANGED <<nvars, lvars, prog, opt, disk, results, lines, refused, told>>

\* GeoIP_delete takes NULL too.
Close ==
    /\ pc = "close"
    /\ handles' = IF gi = "none" THEN handles ELSE handles - 1
    /\ gi' = "none"
    /\ type' = IF opt.file = NoFile THEN type + 1 ELSE type
    /\ Goto(IF opt.file = NoFile THEN "types" ELSE "done")
    /\ UNCHANGED <<nvars, lvars, prog, opt, disk, results, lines, refused, told>>

\* test-geoip-city and test-geoip-region: the names of one record.
TellRecord(country, region) ==
    /\ pc = "record"
    /\ told' = [country |-> country, region |-> region,
                name |-> RegionName(country, region),
                zone |-> HasZone(country, region)]
    /\ Goto("told")
    /\ UNCHANGED <<nvars, lvars, prog, opt, disk, type, gi, handles, results, lines, refused>>

\* The threads of another program use the table of names.
ThreadsCall == pc = "threads" /\ NNext /\ UNCHANGED <<lvars, pvars>>

Program ==
    \/ SetDirectory \/ CallSetup \/ SetupNames \/ NamesReturned
    \/ OpenFile \/ NextType \/ FindName \/ Stat \/ CallOpenType \/ OpenType
    \/ Describe \/ Resolve \/ Resolving \/ Lookup \/ Close

PNext ==
    \/ Program
    \/ pc = "record" /\ \E c \in Countries, r \in Regions : TellRecord(c, r)
    \/ ThreadsCall

\* A program that was started runs on.
PSpec == PInit /\ [][PNext]_avars /\ WF_avars(Program)

-----------------------------------------------------------------------------
(* Properties *)

\* The editions a file is known to hold: those it is named for, and in the
\* domain and *conf files ORG and ASNUM, "for historical reason" (GeoIP.c:1600).
Historical == {FileName(e) : e \in {"DOMAIN", "COUNTRYCONF", "CITYCONF",
                                    "REGIONCONF", "POSTALCONF"}}
Fits(p) == \/ disk[p] \in NamedEdition /\ FileName(disk[p]) = p[2]
           \/ disk[p] \in {"ORG", "ASNUM"} /\ p[2] \in Historical

\* What main leaves before it returns.
Done == pc = "done"
Looped == opt.file = NoFile
Used(p) == p[1] = (IF opt.dir = "none" THEN DataDir ELSE opt.dir)

ProgramTypeOK ==
    /\ prog \in Programs /\ disk \in Installed \cup {<<>>}
    /\ pc \in {"options", "names", "file", "types", "avail", "available", "open",
              "show", "resolve", "close", "done", "record", "told", "threads"}
    /\ type \in 1 .. NumDbTypes /\ gi \in Edition \cup {"none"}
    /\ handles \in {0, 1} /\ (gi # "none" <=> handles = 1)
    /\ results \in Nat /\ (prog # "threads" => broken = "none")

\* A run shows every database of its directory that holds what its name says
\* exactly once, though files share names (GeoIP.dat may be COUNTRY or
\* LARGE_COUNTRY) and editions files; and none of another directory.  Only
\* GeoIPLocAv6.dat is left out: GeoIP_open does not know its edition, though
\* geoiplookup6 and _get_name_v6_gl do.
EachShownOnce ==
    Done /\ Looped => \A p \in DOMAIN disk :
        LET shown == {k \in DOMAIN lines : lines[k].file = p} IN
        /\ Used(p) /\ Fits(p) /\ disk[p] # "LOCATIONA_V6" => Cardinality(shown) = 1
        /\ ~Used(p) => shown = {}

\* A program has an answer for every database that an accessor of its family
\* accepts, except for these four, for which it has no branch.
Family == IF prog = "geoiplookup" THEN {"id", "name", "region", "record"}
          ELSE {"id_v6", "name_v6", "record_v6"}
SilentOnPurpose ==
    \A k \in DOMAIN lines :
        LET e == disk[lines[k].file] IN
        lines[k].what = "silence" /\ (Looped => Fits(lines[k].file))
        /\ e \in UNION {Accepts[a] : a \in Family}
        => e \in {"PROXY", "LARGE_COUNTRY", "ACCURACYRADIUS_V6", "LARGE_COUNTRY_V6",
                  "NETSPEED"}

\* No accessor refuses the database a program opened for it - with its own
\* name, or given with -f - which it would show as an address not found.
RefusesOnlyMisplaced == \A r \in refused : Looped /\ ~Fits(r[1])

\* The branches of geoiplookup() fit the checks of the accessors they call.
AccessorsFit == SilentOnPurpose /\ RefusesOnlyMisplaced

\* No more than one handle is open, and none when main returns; geoiplookup
\* has then released every name and record, geoiplookup6 none.
ReleasedAtEnd ==
    /\ ProgramTypeOK
    /\ Done => handles = 0
    /\ Done =>
          results = IF prog = "geoiplookup" THEN 0
                    ELSE Cardinality({k \in DOMAIN lines :
                            lines[k].what = "found" /\ lines[k].type # "COUNTRY_V6"})

\* The program goes by the number of its host, and no buffer is left behind.
HostResolved ==
    /\ IF prog = "geoiplookup6" THEN ResolvedToV6(opt.host) ELSE ResolvedTo(opt.host)
    /\ look.at \in {"idle", "returned"} => buffers = 0

\* Every run of geoiplookup and geoiplookup6 comes to its end, whatever is
\* installed and however large the resolver's answer is.
ProgramEnds == pc = "options" ~> Done

\* The number made of a region code stands for that code and no other, so that
\* the name is never that of another region; and what stands behind the two
\* characters of a code, or in place of them, is not read.
NameIsOfRegion ==
    told.region # Null =>
        /\ CharsRead(told.region) \subseteq 1 .. Len(told.region) + 1
        /\ told.name # Null =>
              /\ told.name[1] = told.country
              /\ RegionText(told.name[2])
                   = <<CharAt(told.region, 1), CharAt(told.region, 2)>>

\* In the 20 countries with zones by region, a region has a zone exactly when
\* it has a name, except for the numbers that only one of the two files knows.
NamedOnly ==
    [ EC |-> {23}, MY |-> {17}, NZ |-> {10}, RU |-> {19}, UZ |-> {4, 11, 15},
      MN |-> (1 .. 3) \cup (7 .. 10) \cup (12 .. 16) \cup {5, 18, 22, 23, 24},
      US |-> {848, 852, 863, 866, 1075, 1126, 1371, 1379, 1515, 1759} ]
ZonedOnly ==
    [ CD |-> {3, 7}, ID |-> {6, 9, 16, 19, 20, 23, 25}, NZ |-> {85}, RU |-> {35, 82} ]

NamesAndZonesAgree ==
    told.country \in DOMAIN ZoneRegionsOf /\ told.region # Null =>
        LET among(table) == told.country \in DOMAIN table
                            /\ RegionCode2(told.region) \in table[told.country]
            named == told.name # Null
        IN  /\ told.zone => Len(told.region) = 2
            /\ Len(told.region) = 2 =>
                  /\ named /\ ~told.zone <=> among(NamedOnly)
                  /\ told.zone /\ ~named <=> among(ZonedOnly)
=============================================================================
