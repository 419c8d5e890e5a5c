----------------------------- MODULE DbFileNames ------------------------------
(***************************************************************************)
(* The table of database file names (GeoIPDBFileName): the first call that *)
(* needs it builds it, GeoIP_cleanup releases it.  Threads call            *)
(* GeoIP_setup_custom_directory, GeoIP_db_avail or GeoIP_open_type, and    *)
(* GeoIP_cleanup; nothing guards the table, and every statement reads the  *)
(* global pointer again.  One action per statement that touches it.        *)
(***************************************************************************)
EXTENDS Integers, Sequences, FiniteSets

CONSTANTS
    Threads,
    DataDir,       \* GEOIPDATADIR
    Directories,   \* the directories programs set with -d or the setter
    Wanted,        \* the editions threads ask for
    MaxTables,     \* bound: the tables that are built
    Chunk          \* bound: the assignments between which no other thread
                   \* gets a turn; 1 would be every one

ASSUME NamesConstants ==
    /\ DataDir \notin Directories
    /\ {"garbage", "unset", "none"} \cap (Directories \cup {DataDir}) = {}
    /\ MaxTables \in Nat /\ Chunk \in Nat \ {0}
    /\ IsFiniteSet(Threads)

-----------------------------------------------------------------------------
\* GeoIPDBTypes, by number from 1 to NUM_DB_TYPES - 1.
Editions ==
    << "COUNTRY", "CITY_REV1", "REGION_REV1", "ISP", "ORG", "CITY_REV0",
       "REGION_REV0", "PROXY", "ASNUM", "NETSPEED", "DOMAIN", "COUNTRY_V6",
       "LOCATIONA", "ACCURACYRADIUS", "CITYCONFIDENCE", "CITYCONFIDENCEDIST",
       "LARGE_COUNTRY", "LARGE_COUNTRY_V6", "CITYCONFIDENCEDIST_ISP_ORG",
       "CCM_COUNTRY", "ASNUM_V6", "ISP_V6", "ORG_V6", "DOMAIN_V6",
       "LOCATIONA_V6", "REGISTRAR", "REGISTRAR_V6", "USERTYPE", "USERTYPE_V6",
       "CITY_REV1_V6", "CITY_REV0_V6", "NETSPEED_REV1", "NETSPEED_REV1_V6",
       "COUNTRYCONF", "CITYCONF", "REGIONCONF", "POSTALCONF",
       "ACCURACYRADIUS_V6" >>
Edition == {Editions[i] : i \in DOMAIN Editions}

\* The file names, in the order in which the table is filled.
DbFiles ==
    << <<"COUNTRY", "GeoIP.dat">>, <<"REGION_REV0", "GeoIPRegion.dat">>,
       <<"REGION_REV1", "GeoIPRegion.dat">>, <<"CITY_REV0", "GeoIPCity.dat">>,
       <<"CITY_REV1", "GeoIPCity.dat">>, <<"ISP", "GeoIPISP.dat">>,
       <<"ORG", "GeoIPOrg.dat">>, <<"PROXY", "GeoIPProxy.dat">>,
       <<"ASNUM", "GeoIPASNum.dat">>, <<"NETSPEED", "GeoIPNetSpeed.dat">>,
       <<"DOMAIN", "GeoIPDomain.dat">>, <<"COUNTRY_V6", "GeoIPv6.dat">>,
       <<"LOCATIONA", "GeoIPLocA.dat">>,
       <<"ACCURACYRADIUS", "GeoIPDistance.dat">>,
       <<"LARGE_COUNTRY", "GeoIP.dat">>, <<"LARGE_COUNTRY_V6", "GeoIPv6.dat">>,
       <<"ASNUM_V6", "GeoIPASNumv6.dat">>, <<"ISP_V6", "GeoIPISPv6.dat">>,
       <<"ORG_V6", "GeoIPOrgv6.dat">>, <<"DOMAIN_V6", "GeoIPDomainv6.dat">>,
       <<"LOCATIONA_V6", "GeoIPLocAv6.dat">>,
       <<"REGISTRAR", "GeoIPRegistrar.dat">>,
       <<"REGISTRAR_V6", "GeoIPRegistrarv6.dat">>,
       <<"USERTYPE", "GeoIPUserType.dat">>,
       <<"USERTYPE_V6", "GeoIPUserTypev6.dat">>,
       <<"CITY_REV0_V6", "GeoIPCityv6.dat">>,
       <<"CITY_REV1_V6", "GeoIPCityv6.dat">>,
       <<"NETSPEED_REV1", "GeoIPNetSpeedCell.dat">>,
       <<"NETSPEED_REV1_V6", "GeoIPNetSpeedCellv6.dat">>,
       <<"COUNTRYCONF", "GeoIPCountryConf.dat">>,
       <<"CITYCONF", "GeoIPCityConf.dat">>,
       <<"REGIONCONF", "GeoIPRegionConf.dat">>,
       <<"POSTALCONF", "GeoIPPostalConf.dat">>,
       <<"ACCURACYRADIUS_V6", "GeoIPDistancev6.dat">> >>
NamedEdition == {DbFiles[k][1] : k \in DOMAIN DbFiles}
ASSUME WantedAssumption == Wanted \subseteq Edition

FileName(e) == DbFiles[CHOOSE k \in DOMAIN DbFiles : DbFiles[k][1] = e][2]

-----------------------------------------------------------------------------
VARIABLES
    custom,    \* GeoIP_custom_directory, or "unset"
    current,   \* GeoIPDBFileName: the number of a table, or 0
    tables,    \* the tables built so far: their entries, and whether freed
    paths,     \* path blocks allocated and not released
    th,        \* thread |-> where it is and its local variables
    broken,    \* the undefined behaviour met, or "none"
    raced      \* history: a call overlapped one that writes the table

nvars == <<custom, current, tables, paths, th, broken, raced>>

\* An entry is "garbage" before memset, "unset" after, and then the directory
\* its path leads to.
NewTable == [entry |-> [e \in Edition |-> "garbage"], freed |-> FALSE,
             due |-> custom]
\* Mutant: the directory that was set is ignored.
DirectoryFixed == DataDir
Directory == IF custom = "unset" THEN DataDir ELSE custom

Resting == [at |-> "idle", k |-> 1, want |-> "none", table |-> 0,
            dir |-> "none", due |-> "none"]

NInit ==
    /\ custom = "unset"
    /\ current = 0
    /\ tables = <<>>
    /\ paths = 0
    /\ th = [t \in Threads |-> Resting]
    /\ broken = "none"
    /\ raced = FALSE

Move(t, where) == th' = [th EXCEPT ![t].at = where]
Break(what) == broken' = what /\ UNCHANGED <<custom, current, tables, paths, th>>

\* The table a statement of t writes to or reads, which must be there.
Bad(k) == k = 0 \/ tables[k].freed
Fault(k) == IF k = 0 THEN "null_pointer" ELSE "use_after_free"

-----------------------------------------------------------------------------
SetupCustomDirectory(t, d) ==
    /\ th[t].at = "idle"
    /\ custom' = d
    /\ UNCHANGED <<current, tables, paths, th, broken>>

\* GeoIP_db_avail or GeoIP_open_type.
Ask(t, e) ==
    /\ th[t].at = "idle"
    /\ th' = [th EXCEPT ![t] = [Resting EXCEPT !.at = "test", !.want = e]]
    /\ UNCHANGED <<custom, current, tables, paths, broken>>

(* _GeoIP_setup_dbfilename *)

Test(t) ==
    /\ th[t].at = "test"
    /\ current = 0 => Len(tables) < MaxTables
    /\ Move(t, IF current = 0 THEN "alloc" ELSE "read")
    /\ UNCHANGED <<custom, current, tables, paths, broken>>

\* The pointer is published before there is anything behind it.
Alloc(t) ==
    /\ th[t].at = "alloc"
    /\ tables' = Append(tables, NewTable)
    /\ current' = Len(tables) + 1
    /\ Move(t, "clear")
    /\ UNCHANGED <<custom, paths, broken>>

Clear(t) ==
    /\ th[t].at = "clear"
    /\ IF Bad(current) THEN Break(Fault(current))
       ELSE /\ tables' = [tables EXCEPT ![current].entry =
                            [e \in Edition |-> "unset"]]
            /\ Move(t, "fill")
            /\ UNCHANGED <<custom, current, paths, broken>>

\* Mutant: editions of one name share its path.
FillShared(t) ==
    /\ th[t].at = "fill"
    /\ IF Bad(current) THEN Break(Fault(current))
       ELSE LET first == th[t].k
                last == IF first + Chunk > Len(DbFiles) THEN Len(DbFiles)
                        ELSE first + Chunk - 1
                set == {DbFiles[k][1] : k \in first .. last}
            IN
            /\ tables' = [tables EXCEPT ![current].entry =
                            [e \in Edition |-> IF e \in set THEN Directory ELSE @[e]]]
            /\ paths' = paths + Cardinality({FileName(e) : e \in set})
            /\ th' = [th EXCEPT
                         ![t].k = last + 1,
                         ![t].at = IF last = Len(DbFiles) THEN "read" ELSE @]
            /\ UNCHANGED <<custom, current, broken>>

\* Chunk assignments; each allocates its path (_GeoIP_full_path_to).
Fill(t) ==
    /\ th[t].at = "fill"
    /\ IF Bad(current) THEN Break(Fault(current))
       ELSE LET first == th[t].k
                last == IF first + Chunk > Len(DbFiles) THEN Len(DbFiles)
                        ELSE first + Chunk - 1
                set == {DbFiles[k][1] : k \in first .. last}
            IN
            /\ tables' = [tables EXCEPT ![current].entry =
                            [e \in Edition |-> IF e \in set THEN Directory ELSE @[e]]]
            /\ paths' = paths + last - first + 1
            /\ th' = [th EXCEPT
                         ![t].k = last + 1,
                         ![t].at = IF last = Len(DbFiles) THEN "read" ELSE @]
            /\ UNCHANGED <<custom, current, broken>>

Setup(t) == Test(t) \/ Alloc(t) \/ Clear(t) \/ Fill(t)

\* filePath = GeoIPDBFileName[type], and NULL if there is no name.
Read(t) ==
    /\ th[t].at = "read" /\ th[t].want # "none"
    /\ IF Bad(current) THEN Break(Fault(current))
       ELSE LET d == tables[current].entry[th[t].want] IN
            IF d = "garbage" THEN Break("garbage_pointer")
            ELSE /\ th' = [th EXCEPT
                             ![t].at = IF d = "unset" THEN "idle" ELSE "use",
                             ![t].dir = d, ![t].table = current,
                             ![t].due = tables[current].due]
                 /\ UNCHANGED <<custom, current, tables, paths, broken>>

\* stat, or GeoIP_open of the path.
Use(t) ==
    /\ th[t].at = "use"
    /\ IF Bad(th[t].table) THEN Break("use_after_free")
       ELSE Move(t, "idle") /\ UNCHANGED <<custom, current, tables, paths, broken>>

(* GeoIP_cleanup *)

BeginCleanup(t) ==
    /\ th[t].at = "idle"
    /\ th' = [th EXCEPT ![t] = [Resting EXCEPT !.at = "detach", !.table = current]]
    /\ UNCHANGED <<custom, current, tables, paths, broken>>

\* Mutant: the pointer stays.
DetachNever(t) ==
    /\ th[t].at = "detach"
    /\ UNCHANGED current
    /\ Move(t, "free")
    /\ UNCHANGED <<custom, tables, paths, broken>>

Detach(t) ==
    /\ th[t].at = "detach"
    /\ current' = 0
    /\ Move(t, "free")
    /\ UNCHANGED <<custom, tables, paths, broken>>

Set(table) == {e \in Edition : table.entry[e] \notin {"garbage", "unset"}}

\* Mutant: the loop stops one entry early.
ReleaseFew(t) ==
    /\ th[t].at = "free"
    /\ LET k == th[t].table
           left == IF k = 0 THEN {} ELSE Set(tables[k]) \ {"ACCURACYRADIUS_V6"}
       IN  IF k # 0 /\ Bad(k) THEN Break("use_after_free")
           ELSE /\ tables' = IF k = 0 THEN tables
                             ELSE [tables EXCEPT ![k].freed = TRUE]
                /\ paths' = paths - Cardinality(left)
                /\ th' = [th EXCEPT ![t] = Resting]
                /\ UNCHANGED <<custom, current, broken>>

Release(t) ==
    /\ th[t].at = "free"
    /\ LET k == th[t].table
           left == IF k = 0 THEN {} ELSE Set(tables[k])
       IN  IF k # 0 /\ Bad(k) THEN Break("use_after_free")
           ELSE /\ tables' = IF k = 0 THEN tables
                             ELSE [tables EXCEPT ![k].freed = TRUE]
                /\ paths' = paths - Cardinality(left)
                /\ th' = [th EXCEPT ![t] = Resting]
                /\ UNCHANGED <<custom, current, broken>>

-----------------------------------------------------------------------------
Call(t) ==
    \/ \E d \in Directories : SetupCustomDirectory(t, d)
    \/ \E e \in Wanted : Ask(t, e)
    \/ Setup(t) \/ Read(t) \/ Use(t)
    \/ BeginCleanup(t) \/ Detach(t) \/ Release(t)

\* Two calls overlap, and one of them writes what the other uses.
Writes(t) == th[t].at \in {"alloc", "clear", "fill", "detach", "free"}
Overlap == \E s, t \in Threads : s # t /\ Writes(s) /\ th[t].at # "idle"

NNext ==
    /\ broken = "none"
    /\ \E t \in Threads : Call(t)
    /\ raced' = (raced \/ Overlap'
                 \/ (custom' # custom /\ \E t \in Threads : th[t].at # "idle"))

-----------------------------------------------------------------------------
(* Properties *)

NamesTypeOK ==
    /\ custom \in Directories \cup {"unset"}
    /\ current \in 0 .. Len(tables) /\ Len(tables) <= MaxTables + Cardinality(Threads)
    /\ paths \in Nat
    /\ \A t \in Threads : th[t].k \in 1 .. Len(DbFiles) + 1
    /\ broken \in {"none", "null_pointer", "use_after_free", "garbage_pointer"}

\* Every call finds the name of its edition's file in the directory that was
\* set when the table was built, and a name whenever there is one.
NamesReady ==
    \A t \in Threads :
        th[t].at \in {"use", "idle"} /\ th[t].table # 0 =>
            th[t].dir = (IF th[t].want \notin NamedEdition THEN "unset"
                         ELSE IF th[t].due = "unset" THEN DataDir ELSE th[t].due)

\* Between calls the table holds every path that was allocated, once; none are
\* left after cleanup.
NamesKept ==
    (\A t \in Threads : th[t].at = "idle") =>
        /\ paths = (IF current = 0 THEN 0 ELSE Len(DbFiles))
        /\ \A k \in DOMAIN tables : tables[k].freed <=> k # current

\* As long as no call overlaps the one that builds or releases the table - the
\* first call of the program is made before there are threads, and cleanup
\* after (README.md:165-172) - no name is used that is not there, not set or
\* released, names are ready for every call, and no path is lost.
TableServes ==
    /\ NamesTypeOK
    /\ ~raced => broken = "none" /\ NamesReady /\ NamesKept
=============================================================================
