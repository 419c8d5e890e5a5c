------------------------------- MODULE Answers ------------------------------
(***************************************************************************)
(* Countries and regions of addresses: GeoIP_id_by_*_gl and what the        *)
(* country functions make of it, GeoIP_assign_region_by_inetaddr_gl and    *)
(* GeoIP_region_by_*_gl.  The address comes as a text, read by AddrNum, as *)
(* a number, or from the resolver.  The walk is that of SeekRecord, here   *)
(* the number an address leads to; it may reload the handle.               *)
(***************************************************************************)
EXTENDS AddrNum, FiniteSets

CONSTANTS File,       \* the databases a handle may load: see AnswersConstants
          Ips,        \* addresses given as numbers, or found by the resolver
          Countries,  \* num_GeoIP_countries
          Letters,    \* 26
          States,     \* 1000: first number of a state in the older edition
          Range,      \* FIPS_RANGE
          US, CA,     \* the numbers of two countries
          Unsigned,   \* 2^32, of seek_region
          Lost,       \* no meaning: the walk fails
          Null        \* a NULL result

USOffset == 1
CanadaOffset == USOffset + Letters * Letters
WorldOffset == CanadaOffset + Letters * Letters

\* A database: databaseType, databaseSegments[0], the number the walk of each
\* address returns, and what its author means by it; both lists repeat after
\* period addresses.  A walk that is lost returns 0.
Letter == 0 .. Letters - 1
In(c, r) == [country |-> c, region |-> r]

WritesCountry(n, m) == m \in 0 .. Countries - 1 /\ n = m

WritesRev0(n, m) ==
    \/ \E c \in 0 .. Countries - 1 : n = c /\ m = In(c, <<>>)
    \/ \E a, b \in Letter : n = States + a * Letters + b /\ m = In(US, <<a, b>>)

WritesRev1(n, m) ==
    \/ n = 0 /\ m = In(0, <<>>)
    \/ \E a, b \in Letter : n = USOffset + a * Letters + b /\ m = In(US, <<a, b>>)
    \/ \E a, b \in Letter : n = CanadaOffset + a * Letters + b /\ m = In(CA, <<a, b>>)
    \/ \E c \in 1 .. Countries - 1, k \in 0 .. Range - 1 :
          n = WorldOffset + c * Range + k /\ m = In(c, <<>>)

Writes(f, n, m) == CASE f.edition = "country" -> WritesCountry(n, m)
                     [] f.edition = "region0" -> WritesRev0(n, m)
                     [] f.edition = "region1" -> WritesRev1(n, m)

\* Numbers fit an unsigned int, and 0 less the first number wraps to one that
\* is behind all countries.
ASSUME AnswersConstants ==
    /\ Countries \in Nat \ {0} /\ Letters \in Nat \ {0}
    /\ States \in Nat /\ States >= Countries /\ Range \in Nat \ {0}
    /\ US \in 1 .. Countries - 1 /\ CA \in 1 .. Countries - 1
    /\ Unsigned \in Nat /\ Ips \subseteq Nat
    /\ \A f \in File :
          /\ f.edition \in {"country", "region0", "region1"}
          /\ f.begin \in Nat \ {0} /\ f.period \in Nat \ {0}
          /\ Unsigned - f.begin >= WorldOffset + Countries * Range
          /\ \A k \in 0 .. f.period - 1 :
                \/ f.number[k] = 0 /\ f.means[k] = Lost
                \/ /\ f.means[k] # Lost
                   /\ \E n \in 0 .. Unsigned - 1 :
                        f.number[k] = f.begin + n /\ Writes(f, n, f.means[k])

VARIABLES file,     \* the database the handle has loaded
          asked,    \* history: the last call
          answer    \* what it returned

vars == <<addrVars, file, asked, answer>>

\* ip is the address looked up, or NoIp for one that is not; switched says that
\* the call loaded a database with another first number.
NoIp == -1
NoCall == [op |-> "none", ip |-> NoIp, switched |-> FALSE]

Init ==
    /\ AddrInit
    /\ file \in File
    /\ asked = NoCall
    /\ answer = Null

\* What the walk in f returns.
Seek(f, ip) == f.number[ip % f.period]

IsRegion(f) == f.edition \in {"region0", "region1"}

-----------------------------------------------------------------------------
(* Countries *)

\* Mutant: 0 and negative numbers are taken for indices of the tables.
CodeByIdUnchecked(id) == IF id < Countries THEN id ELSE Null

\* GeoIP_country_code_by_*, GeoIP_country_name_by_*: NULL for 0 and for what
\* is no index of the tables.
CodeById(id) == IF 0 < id /\ id < Countries THEN id ELSE Null

\* The index by GeoIP_id_by_*: seek - databaseSegments[0], as an int.  C leaves
\* open which of the two is evaluated first; the walk may load another file.
Country(f, ip) ==
    \E begin \in {file.begin, f.begin} : answer' = CodeById(Seek(f, ip) - begin)

-----------------------------------------------------------------------------
(* Regions *)

NoRegion == In(0, <<>>)

State(n) == <<n \div Letters, n % Letters>>     \* two letters

World(id) == In(IF id < Countries THEN id ELSE 0, <<>>)

RegionRev0(seek) ==
    IF seek >= States THEN In(US, State(seek - States))
    ELSE World(seek)

\* Mutant: the first number after the American states is still one of them.
RegionRev1OffByOne(seek) ==
    IF seek <= CanadaOffset THEN In(US, State(seek - USOffset))
    ELSE World((seek - WorldOffset) \div Range)

RegionRev1(seek) ==
    IF seek < USOffset THEN NoRegion
    ELSE IF seek < CanadaOffset
    THEN In(US, State(seek - USOffset))
    ELSE IF seek < WorldOffset
    THEN In(CA, State(seek - CanadaOffset))
    ELSE World((seek - WorldOffset) \div Range)

\* GeoIP_assign_region_by_inetaddr_gl: the edition is looked at after the walk;
\* the subtraction is unsigned, and the number begins at STATE_BEGIN_REV0 or
\* STATE_BEGIN_REV1, which is databaseSegments[0] of the edition.
Region(f, ip) ==
    LET seek == (Seek(f, ip) - f.begin) % Unsigned
    IN  answer' = IF f.edition = "region0" THEN RegionRev0(seek) ELSE RegionRev1(seek)

-----------------------------------------------------------------------------
(* The calls *)

\* A lookup of ip; it may reload, from an updater's file of the same kind.
Lookup(op, ip) ==
    \E f \in File :
        /\ IsRegion(f) = IsRegion(file)
        /\ IF op = "region" THEN Region(f, ip) ELSE Country(f, ip)
        /\ asked' = [op |-> op, ip |-> ip, switched |-> f.begin # file.begin]
        /\ file' = f

\* A call that returns before it looks anything up.
Refuse(op) ==
    /\ asked' = [op |-> op, ip |-> NoIp, switched |-> FALSE]
    /\ answer' = Null
    /\ UNCHANGED file

\* The functions for countries want a country edition, those for regions one of
\* the others.
Serves(op) == (op = "region") = IsRegion(file)

Answer(op, ip, looks) ==
    IF Serves(op) /\ looks THEN Lookup(op, ip) ELSE Refuse(op)

\* A text that has been read; 0 if it is no address, which is looked up as well.
ByAddr(op) ==
    /\ pc \in Ends
    /\ Answer(op, value, TRUE)
    /\ pc' = "idle"
    /\ octet' = 0 /\ ipnum' = 0 /\ i' = 3 /\ value' = 0
    /\ source' = Typed /\ rest' = <<>>
    /\ field' = 0 /\ fields' = <<>> /\ wrapped' = FALSE

\* A number, or what the resolver returns: 0 for a name it does not know.  Only
\* the country functions for IPv4 refuse 0 as a number.
ByNumber(op, ip, looks) ==
    /\ pc = "idle"
    /\ Answer(op, ip, looks)
    /\ UNCHANGED addrVars

CountryByAddr == ByAddr("country")
RegionByAddr  == ByAddr("region")
CountryByIpnum(ip) == ByNumber("country", ip, ip # 0)
RegionByIpnum(ip)  == ByNumber("region", ip, TRUE)
CountryByName(ip)  == ByNumber("country", ip, ip # 0)
RegionByName(ip)   == ByNumber("region", ip, ip # 0)

\* GeoIP_addr_to_num begins on a text; what was answered before is forgotten.
ReadText(n) ==
    /\ pc = "idle"
    /\ Read(n)
    /\ asked' = NoCall /\ answer' = Null
    /\ UNCHANGED file

ReadOn == AddrNext /\ UNCHANGED <<file, asked, answer>>

Next ==
    \/ \E n \in Ips \cup {Typed} : ReadText(n)
    \/ ReadOn
    \/ CountryByAddr \/ RegionByAddr
    \/ \E ip \in Ips : \/ CountryByIpnum(ip) \/ RegionByIpnum(ip)
                       \/ CountryByName(ip) \/ RegionByName(ip)

Spec == Init /\ [][Next]_vars

-----------------------------------------------------------------------------
(* Properties *)

\* The variables keep their types.
TypeOK ==
    /\ AddrTypeOK
    /\ file \in File
    /\ asked.ip \in Nat \cup {NoIp}
    /\ answer = Null \/ (IF asked.op = "country" THEN answer \in 1 .. Countries - 1
                         ELSE answer.country \in 0 .. Countries - 1)

\* What the author of the loaded database wrote for the address of the last call.
Means == file.means[asked.ip % file.period]

\* The country functions answer with the country that was written for the
\* address, and with NULL for address and walk without one, however the address
\* was given and whichever database the call itself loaded; if that one begins
\* its numbers elsewhere, the order of evaluation decides.
CountryAsWritten ==
    (asked.op = "country" /\ asked.ip # NoIp /\ ~asked.switched) =>
        answer = IF Means \in {0, Lost} THEN Null ELSE Means

\* The region functions answer with the country and the letters written for the
\* address, in both editions, also by the call that loads the one in place of
\* the other; a lost walk leaves both empty in the later edition (in the earlier
\* one it gives letters of a state).
RegionAsWritten ==
    (asked.op = "region" /\ asked.ip # NoIp) =>
        IF Means = Lost THEN file.edition = "region1" => answer = NoRegion
        ELSE answer = Means
=============================================================================
