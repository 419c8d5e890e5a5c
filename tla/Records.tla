------------------------------ MODULE Records -------------------------------
(***************************************************************************)
(* What lookups make of the number a tree walk returns: _extract_record    *)
(* (GeoIPCity.c) for city editions, _get_name_gl and _get_name_v6_gl       *)
(* (GeoIP.c) for the editions of names, and the iteration over a city      *)
(* database with GeoIP_init_record_iter and GeoIP_next_record.  Bytes come *)
(* from the memory cache or, through a buffer of fixed length, from the    *)
(* file.  The walk itself is in SeekRecord; the bytes of a file and what   *)
(* its author meant by them are constants.                                 *)
(***************************************************************************)
EXTENDS Integers, FiniteSets, SequencesExt

CONSTANTS File,     \* the databases a handle may load: see RecordsConstants
          Full,     \* FULL_RECORD_LENGTH: bytes read for a city record
          NameMax,  \* MAX_ORG_RECORD_LENGTH: bytes read for a name
          US,       \* the country number of the United States
          Null,     \* a NULL result
          MaxHeld   \* bound: results the program has not released yet

CityEditions == {"city0", "city1"}
NameEditions == {"name", "name_v6"}

\* What can be made of bytes: a GeoIPRecord and a name.
Bytes8 == Seq(0 .. 255)
CityAnswers == [country : 0 .. 255, region : Bytes8, city : Bytes8,
                postal : Bytes8, position : Bytes8, metro : Bytes8]
NameAnswers == [text : Bytes8]
Results == CityAnswers \cup NameAnswers

\* content is what the author wrote, in the order of the file: of each result
\* at is the number a walk returns for its addresses, length its bytes in the
\* file, and the other fields are those of the answer, in ISO-8859-1.
ASSUME RecordsConstants ==
    /\ \A f \in File :
          /\ f.edition \in CityEditions \cup NameEditions   \* databaseType
          /\ f.segments \in Nat \ {0}                       \* databaseSegments[0]
          /\ f.recLen \in Nat \ {0}                         \* record_length
          /\ f.bytes \in Seq(0 .. 255)                      \* the tree first
          /\ Len(f.content) \in Nat /\ DOMAIN f.content = 1 .. Len(f.content)
          /\ \A k \in DOMAIN f.content :
                f.content[k].at \in Nat /\ f.content[k].at > f.segments
    /\ Full \in Nat \ {0} /\ NameMax \in Nat \ {0} /\ MaxHeld \in Nat
    /\ Null \notin Results

VARIABLES file,     \* the database the handle has loaded
          cached,   \* gi->cache # NULL
          utf8,     \* gi->charset = GEOIP_CHARSET_UTF8
          iter,     \* the program's record_iter, 0 before GeoIP_init_record_iter
          visited,  \* history: calls of GeoIP_next_record since then
          steady,   \* history: no reload since then
          asked,    \* history: the last call, and the result it is about
          answer,   \* what it returned
          held,     \* the results the program has not released
          blocks,   \* blocks allocated and not freed
          fault     \* the undefined behaviour met, or "none"

vars == <<file, cached, utf8, iter, visited, steady, asked, answer, held, blocks,
          fault>>

Init ==
    /\ file \in File
    /\ cached \in BOOLEAN
    /\ utf8 = FALSE
    /\ iter = 0 /\ visited = 0 /\ steady = TRUE
    /\ asked = [op |-> "none", k |-> 0, utf8 |-> FALSE]
    /\ answer = Null
    /\ held = <<>>
    /\ blocks = 0
    /\ fault = "none"

-----------------------------------------------------------------------------
(* Reading bytes *)

\* Byte j of the record or name at position p.
Byte(f, p, j) == f.bytes[p + j + 1]

\* How many bytes from p on are there to read: to the end of the cache, or
\* what pread put into a buffer of the given length.
There(f, p, length) ==
    LET rest == IF p < Len(f.bytes) THEN Len(f.bytes) - p ELSE 0
    IN  IF cached \/ rest < length THEN rest ELSE length

\* Index of the first NUL from s on, below n, or n if there is none.
Nul(f, p, s, n) ==
    LET nuls == {j \in s .. n - 1 : Byte(f, p, j) = 0}
    IN  IF nuls = {} THEN n ELSE CHOOSE j \in nuls : \A i \in nuls : j <= i

\* Bytes s .. e - 1.
Bytes(f, p, s, e) == [j \in 1 .. e - s |-> Byte(f, p, s + j - 1)]

\* record_pointer
Pointer(f, seek) == seek + (2 * f.recLen - 1) * f.segments

\* A record and a name in the file of an author.
CityBytes(c) == <<c.country>> \o c.region \o <<0>> \o c.city \o <<0>>
                    \o c.postal \o <<0>> \o c.position \o c.metro

NameBytes(c) == c.text \o <<0>>

\* What an author can write.  Only a record of the United States in the later
\* edition has metro and area codes.
CityContent(f, c) ==
    /\ c.country \in 0 .. 255
    /\ \A x \in {"region", "city", "postal"} : c[x] \in Seq(1 .. 255)
    /\ c.position \in [1 .. 6 -> 0 .. 255]
    /\ c.metro \in IF f.edition = "city1" /\ c.country = US
                   THEN [1 .. 3 -> 0 .. 255] ELSE {<<>>}

NameContent(c) == c.text \in Seq(1 .. 255)

\* The results stand behind the tree and a byte 0, one after the other.
ASSUME FilesAsWritten ==
    \A f \in File : \A k \in DOMAIN f.content :
        LET c == f.content[k]
            p == Pointer(f, c.at)
            city == f.edition \in CityEditions
            written == IF city THEN CityBytes(c) ELSE NameBytes(c)
        IN  /\ IF city THEN CityContent(f, c) ELSE NameContent(c)
            /\ c.length = Len(written)
            /\ c.at = IF k = 1 THEN f.segments + 1
                     ELSE f.content[k - 1].at + f.content[k - 1].length
            /\ p + c.length <= Len(f.bytes)
            /\ \A j \in 1 .. c.length : f.bytes[p + j] = written[j]

\* Mutant: one lead byte for all characters.
Utf8CharOneLead(c) == IF c < 128 THEN <<c>> ELSE <<194, (c % 64) + 128>>

\* Characters from 128 on become two bytes.
Utf8Char(c) == IF c < 128 THEN <<c>>
               ELSE IF c >= 192 THEN <<195, c - 64>> ELSE <<194, c>>

\* _GeoIP_iso_8859_1__utf8
Utf8(s) ==
    LET out[n \in 0 .. Len(s)] ==
            IF n = 0 THEN <<>> ELSE out[n - 1] \o Utf8Char(s[n])
    IN  out[Len(s)]

Text(s) == IF utf8 THEN Utf8(s) ELSE s

\* Reading behind the cache or a full buffer, or bytes pread did not write.
Beyond(n, length) == IF cached \/ n = length THEN "overrun" ELSE "unset"

\* The blocks of a result: itself and the strings in it that are not empty.
Owns(a) == 1 + Cardinality({s \in DOMAIN a \cap {"region", "city", "postal"} :
                                a[s] # <<>>})

-----------------------------------------------------------------------------
(* City records *)

\* Country, three strings that end with NUL, latitude and longitude, and for
\* the United States the metro and area codes in later editions; of the n
\* bytes that are there, used are read, or would be.
Parse(f, p, n) ==
    LET r == Nul(f, p, 1, n)
        c == Nul(f, p, r + 1, n)
        z == Nul(f, p, c + 1, n)
        combo == f.edition = "city1" /\ Byte(f, p, 0) = US
        used == z + 7 + (IF combo THEN 3 ELSE 0)
    IN  IF used > n THEN [used |-> used, record |-> Null]
        ELSE [used   |-> used,
              record |-> [country  |-> Byte(f, p, 0),
                          region   |-> Bytes(f, p, 1, r),
                          city     |-> Text(Bytes(f, p, r + 1, c)),
                          postal   |-> Bytes(f, p, c + 1, z),
                          position |-> Bytes(f, p, z + 1, z + 7),
                          metro    |-> Bytes(f, p, z + 7, used)]]

\* What a call returns and the program then holds; extra blocks stay.
Return(a, extra) ==
    /\ answer' = a
    /\ held' = IF a = Null THEN held ELSE Append(held, a)
    /\ blocks' = blocks + extra + (IF a = Null THEN 0 ELSE Owns(a))

\* _extract_record, with what it leaves allocated at the end of the file, and
\* whether it stops short of what it has read when it steps the iterator on.
ExtractWith(f, seek, stepping, left, short) ==
    LET p == Pointer(f, seek)
        n == There(f, p, Full)
        parsed == Parse(f, p, n)
        step == IF short THEN parsed.used - Len(parsed.record.metro) ELSE parsed.used
    IN
    \/ /\ seek = f.segments
       /\ Return(Null, 0)
       /\ UNCHANGED <<iter, fault>>
    \/ /\ seek # f.segments /\ n = 0
       /\ Return(Null, left)
       /\ UNCHANGED <<iter, fault>>
    \/ /\ seek # f.segments /\ n > 0 /\ parsed.used <= n
       /\ Return(parsed.record, 0)
       /\ iter' = IF stepping THEN seek + step ELSE iter
       /\ UNCHANGED fault
    \/ /\ seek # f.segments /\ n > 0 /\ parsed.used > n
       /\ fault' = Beyond(n, Full)
       /\ Return(Null, 0)
       /\ UNCHANGED iter

\* Mutants: the record is not freed at the end of the file; the iterator does
\* not step over the metro and area codes.
ExtractKeepsAtEnd(f, seek, stepping) == ExtractWith(f, seek, stepping, 1, FALSE)
ExtractStepsShort(f, seek, stepping) == ExtractWith(f, seek, stepping, 0, TRUE)

\* The buffer is freed on every path, the record on those without one.
Extract(f, seek, stepping) == ExtractWith(f, seek, stepping, 0, FALSE)

-----------------------------------------------------------------------------
(* Names *)

\* _get_name_gl and _get_name_v6_gl behind the walk.  A read that is short,
\* or empty, is no error; only the IPv6 variant ends its buffer with NUL.
NameWith(f, seek, terminated) ==
    LET p == Pointer(f, seek)
        n == There(f, p, NameMax)
        e == Nul(f, p, 0, n)
        full == ~cached /\ n = NameMax
    IN
    \/ /\ seek = f.segments
       /\ Return(Null, 0)
       /\ UNCHANGED fault
    \/ /\ seek # f.segments
       /\ e < n \/ (full /\ terminated)
       /\ Return([text |-> Text(Bytes(f, p, 0, e))], 0)
       /\ UNCHANGED fault
    \/ /\ seek # f.segments
       /\ e = n /\ ~(full /\ terminated)
       /\ fault' = Beyond(n, NameMax)
       /\ Return(Null, 0)

\* Mutant: the IPv6 variant does not end its buffer either.
NameUnterminated(f, seek) == NameWith(f, seek, FALSE)

NameAt(f, seek) == NameWith(f, seek, f.edition = "name_v6")

-----------------------------------------------------------------------------
(* The calls *)

None == 0       \* the address has no result
Lost == -1      \* the walk fails, in a tree that is not one
Stray == -2     \* the tree leads behind the end of the file

\* What the walk returns for an address whose result is number k.
Seek(f, k) == IF k = None THEN f.segments
              ELSE IF k = Lost THEN 0
              ELSE IF k = Stray THEN Len(f.bytes) ELSE f.content[k].at

Call(op, k) == /\ fault = "none" /\ Len(held) < MaxHeld
               /\ asked' = [op |-> op, k |-> k, utf8 |-> utf8]

\* A walk may reload the handle first; an updater replaces a database by one
\* of the same kind.
Kind(f) == IF f.edition \in CityEditions THEN CityEditions ELSE NameEditions
Walk(f) == /\ file' = f /\ Kind(f) = Kind(file)
           /\ steady' = (steady /\ f = file)
           /\ UNCHANGED <<cached, utf8, visited>>

\* GeoIP_record_by_*, GeoIP_name_by_*.
RecordBy(f, k) ==
    /\ file.edition \in CityEditions
    /\ Call("record", k)
    /\ Walk(f)
    /\ Extract(f, Seek(f, k), FALSE)

NameBy(f, k) ==
    /\ file.edition \in NameEditions
    /\ Call("name", k)
    /\ Walk(f)
    /\ NameAt(f, Seek(f, k))
    /\ UNCHANGED iter

\* Either kind of call on an edition of the other kind.
WrongEdition ==
    /\ Call("wrong", None)
    /\ Return(Null, 0)
    /\ UNCHANGED <<file, cached, utf8, iter, visited, steady, fault>>

InitRecordIterAt(start) ==
    /\ file.edition \in CityEditions
    /\ Call("init", None)
    /\ iter' = start
    /\ visited' = 0 /\ steady' = TRUE
    /\ Return(Null, 0)
    /\ UNCHANGED <<file, cached, utf8, fault>>

\* Mutant: the number the walk returns for no result is taken for the first.
InitRecordIterEarly == InitRecordIterAt(file.segments)

InitRecordIter == InitRecordIterAt(file.segments + 1)

\* GeoIP_next_record; no walk, so no reload.
NextRecord ==
    /\ iter # 0 /\ file.edition \in CityEditions
    /\ \/ /\ cached                             \* not supported
          /\ Call("unsupported", None)
          /\ Return(Null, 0)
          /\ UNCHANGED <<iter, visited, fault>>
       \/ /\ ~cached
          /\ visited' = IF visited > Len(file.content) THEN visited ELSE visited + 1
          /\ Call("next", visited')
          /\ Extract(file, iter, TRUE)
    /\ UNCHANGED <<file, cached, utf8, steady>>

SetCharset(u) ==
    /\ fault = "none"
    /\ utf8' = u
    /\ UNCHANGED <<file, cached, iter, visited, steady, asked, answer, held, blocks,
                   fault>>

\* GeoIPRecord_delete, or free of a name.
Release(i) ==
    /\ fault = "none"
    /\ held' = RemoveAt(held, i)
    /\ blocks' = blocks - Owns(held[i])
    /\ UNCHANGED <<file, cached, utf8, iter, visited, steady, asked, answer, fault>>

Next ==
    \/ \E f \in File : \E k \in {None, Lost, Stray} \cup DOMAIN f.content :
          RecordBy(f, k) \/ NameBy(f, k)
    \/ WrongEdition
    \/ InitRecordIter
    \/ NextRecord
    \/ \E u \in BOOLEAN : SetCharset(u)
    \/ \E i \in DOMAIN held : Release(i)

Spec == Init /\ [][Next]_vars

-----------------------------------------------------------------------------
(* Properties *)

\* Fields keep their types; the iterator never points into the tree.
TypeOK ==
    /\ file \in File /\ cached \in BOOLEAN /\ utf8 \in BOOLEAN
    /\ iter = 0 \/ (steady => iter > file.segments)
    /\ visited \in Nat /\ steady \in BOOLEAN
    /\ answer \in Results \cup {Null} /\ held \in Seq(Results)
    /\ Len(held) <= MaxHeld /\ blocks \in Nat
    /\ fault \in {"none", "overrun", "unset"}

\* The reader of an answer in UTF-8, of which lead bytes 194 and 195 occur.
Decoded(s) ==
    LET at[n \in 1 .. Len(s) + 2] ==
            IF n > Len(s) THEN <<>>
            ELSE IF s[n] < 128 THEN <<s[n]>> \o at[n + 1]
            ELSE <<(s[n] - 192) * 64 + s[n + 1] - 128>> \o at[n + 2]
    IN  at[1]

\* An answer says what the author wrote as c; u: it is in UTF-8.
Says(a, c, u) ==
    /\ a # Null
    /\ \A x \in DOMAIN a :
          (IF u /\ x \in {"city", "text"} THEN Decoded(a[x]) ELSE a[x]) = c[x]

\* A lookup (GeoIP_record_by_*, GeoIP_name_by_*) answers with every field its
\* author wrote for the address and with nothing else, the same in memory and
\* from the file and in both character sets, whichever reload came before.  Of a
\* name longer than the buffer of the IPv6 variant its first bytes are returned;
\* a city record that would be behind the end of a broken file is none.
AnswerAsWritten ==
    (fault = "none" /\ asked.op \in {"record", "name"} /\ asked.k # Lost) =>
        IF asked.k \in {None, Stray} THEN answer = Null
        ELSE LET c == file.content[asked.k] IN
             IF asked.op = "name" /\ ~cached /\ c.length > NameMax
             THEN Says(answer, [text |-> SubSeq(c.text, 1, NameMax)], asked.utf8)
             ELSE Says(answer, c, asked.utf8)

\* As long as nothing reloads the handle, the n-th GeoIP_next_record since
\* GeoIP_init_record_iter returns the n-th record of the file, whatever other
\* lookups the program makes in between.
IterationInOrder ==
    (fault = "none" /\ steady /\ asked.op = "next"
        /\ asked.k \in DOMAIN file.content) =>
        Says(answer, file.content[asked.k], asked.utf8)

\* Nothing stays allocated by any path of a lookup or an iteration once the
\* program has released the results it was given.
NoLeak == held = <<>> => blocks = 0

\* Reads stay inside the buffer or cache and see only what pread wrote, but for
\* results of walks in a broken tree, iteration behind the last record (nothing tells its
\* end) or across a reload, and records and names too long for the buffer.
FaultsExplained ==
    fault # "none" =>
        \/ asked.k = Lost \/ (asked.op = "name" /\ asked.k = Stray)
        \/ asked.op = "next" /\ (~steady \/ asked.k > Len(file.content))
        \/ /\ ~cached /\ asked.k \in DOMAIN file.content
           /\ LET c == file.content[asked.k] IN
              \/ asked.op # "name" /\ c.length > Full
              \/ file.edition = "name" /\ c.length > NameMax
=============================================================================
