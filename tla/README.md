# GeoIP C API: TLA+ models, model checking and proofs

This directory models the lookup library of the repository
(`src/libGeoIP`): how it opens, caches and reloads a database file, walks its
tree, reads bytes through a descriptor that threads share, reads addresses,
turns what a walk finds into countries, regions, city records and names,
computes the range around an address, finds its files, resolves names and names
regions; and the two programs that use it (`src/apps`). TLC checks the modules on small instances; TLAPS
proves the most important properties for every value of the constants.

Line numbers refer to `src/libGeoIP/GeoIP.c` unless another file is named.

## 1. The system

### 1.1 Components

| Component | Code | State it keeps | Operations |
|---|---|---|---|
| Positional reads | `pread.c`, macro at 94-97 | position of the descriptor, critical section `preadsc` | `pread` |
| Database handle | `GeoIP_open` 1621-1733, `_setup_segments` 1077-1201, `get_index_size` 1052-1075, `_check_mtime` 1203-1355, `GeoIP_delete` 1735-1758, `GeoIP_database_info` 2101-2167 | `struct GeoIPTag`: FILE, caches, segments, record length, size, modification time, flags | open, reload, delete, describe |
| Tree walk | `_GeoIP_seek_record_gl` 1459-1543, `_v6_gl` 1358-1449, Teredo macro 784-805 | `gi->netmask`, the caller's `GeoIPLookup` | look one address up |
| Range of an address | `GeoIP_range_by_ip_gl` 2553-2598 | the two ends of the range, `gi->netmask` | range around an address |
| Contents of records | `GeoIPCity.c` 56-182 and 311-330, `_get_name_gl` 2407-2524 | the caller's iterator; results the caller frees | city record, iterate over records, organisation name |
| Region and country results | 2032-2099, 2171-2402 | none | country index, region codes |
| Address conversion | 1545-1577, 2526-2551 | none | text to number and back |
| Database file names | 848-978, 1026-1037, 1579-1619, 2748-2766 | `GeoIPDBFileName`, `GeoIP_custom_directory` | set the directory, open by type, availability, cleanup |
| Name resolution | 1803-1878 | none (a growing buffer) | host name to address |
| Settings of a handle | 2662-2683 | `gi->charset`, Teredo bit | get, set (the character set in `Records`, the Teredo bit in `SeekRecord`) |
| Deprecated wrappers | `GeoIP_deprecated.c` | none | forward to the `_gl` functions |
| Programs | `src/apps/geoiplookup.c`, `geoiplookup6.c` | none | open every database that is there, print |
| Tables | `regionName.c`, `timeZone.c` | none | name of a region, time zone of a region |

### 1.2 How they interact

* A lookup (`GeoIP_country_code_by_addr`, `GeoIP_record_by_ipnum`, ...) converts
  the address, calls a tree walk and turns the number it returns into a result.
* The tree walk first calls `_check_mtime`, which with `GEOIP_CHECK_CACHE` may
  close the file, open its successor and replace every cached part of the
  handle. `GeoIP_database_info` does the same. What the caller had read from
  the handle *before* that call is not read again.
* The walk reads from the index cache, from the memory cache or mapping, or
  from the file through `pread`. Where the C library has no `pread` the
  descriptor's position is shared state: `pread.c` (Windows) serialises the
  threads with a critical section, the macro at 94-97 does not.
* `GeoIP_range_by_ip_gl` is a loop over tree walks; it uses the netmask each
  one leaves in the `GeoIPLookup`, and any of them may reload the database.
* The functions that open by type build the table of file names on first use;
  the programs build it at once, ask for each edition whether its file is there,
  open it, and show what the accessor for the edition answers.
* Name lookups ask the resolver with a buffer that grows until the answer fits.
* What a record says of country and region is given to the two tables, one of
  which compares numbers made of the region code, the other its text.
* Outside the library: an updater that renames a new file over the old one,
  removes it or writes it in place; the clock; and other code of the program
  that opens and closes descriptors.

### 1.3 What is hard here

| Hazard | Where it bites | What makes each component correct |
|---|---|---|
| interleaving | two threads between `lseek` and `read` | each read returns the bytes of its own offset |
| stale state | values read before `_check_mtime` and used after it | a lookup answers from one version of the file |
| partial failure | any step of `GeoIP_open` or of a reload | nothing is leaked or freed twice; a failed call is reported |
| ordering, crash-like states | a reload replaces seven fields one after the other | between calls all of them come from one file |
| races with the updater | between `stat`, `fopen` and the reads | only a file at rest is loaded; in the end the new file is served |
| numeric edges | netmask of a walk, ends of a range, size of the index, octets of an address, first numbers of states and countries, ends of records | netmask, block and value agree; reads stay inside; answers are what the author of the database wrote |
| sequences of calls | iterator, results the caller frees, settings changed in between | the n-th call returns the n-th record; nothing leaks |
| publication | the table of names is set before its names are | no name is used that is not there, unless calls overlap its building or release |
| two tables of the same regions | `regionName.c` by number, `timeZone.c` by text | a number stands for one code; both know the same regions |
| files under other names | five names stand for two editions each, old files hold other ones | every database is shown once, none is refused without cause |
| retries | the resolver's buffer | the answer is found, the loop ends |
| liveness | one check a second, 60 seconds of rest | a replaced file is served in the end; loops end |

`PROJECT.json` lists every hazard with its line and the properties about it.

## 2. The modules

| Module | Models | Its place |
|---|---|---|
| `FileBytes` | what reading `Count` bytes at an offset gives | shared by the two below |
| `PositionalRead` | the abstract `pread`: a call is asked, a call is answered with the bytes of its offset, and the position nobody asked to move stays | specification |
| `Pread` | `pread.c`, one action per system call | implements `PositionalRead` |
| `PreadMacro` | the macro at 94-97, which takes the place of both functions elsewhere | beside `Pread`, in a build of its own |
| `GeoIPHandle` | a handle from open to delete, beside updater, clock and rest of the program | core |
| `HandleFailures` | the same handle with every failure, and a history of what failed | extends `GeoIPHandle` |
| `SeekRecord` | both tree walks, one loop iteration a step | threads on one handle |
| `Records` | city records, names and the iteration over a city database, byte by byte | what `SeekRecord`'s result is used for |
| `AddrNum` | text to number, a character a step, and number to text | part of `Answers` |
| `Answers` | countries and regions of addresses, given as text, number or name | extends `AddrNum`; what `SeekRecord`'s result is used for |
| `RangeByIp` | the two loops of `GeoIP_range_by_ip_gl`, one lookup a step | uses what `SeekRecord` proves |
| `RegionCodes`, `RegionTables`, `TimeZones` | region codes, the regions that have names, and those that have time zones | functions |
| `DbFileNames` | the table of file names, one action per statement that touches it | threads |
| `LookupAddress` | the resolver's answer and its buffer | called by the programs |
| `LookupPrograms` | `geoiplookup`, `geoiplookup6`, and the step from a record to its names | composes the modules above |
| `MC*` | instances for TLC | |
| `*_proofs` | theorems | |

How they compose: `GeoIPHandle` treats a whole walk as one action
(`Lookup`), which reads the content that the handle's caches and descriptor
lead to; `SeekRecord` opens that action up for a fixed database. `SeekRecord`
treats a read as one action; `Pread` shows that this is what the positional
read gives. `RangeByIp` treats a lookup as a function from addresses to value
and netmask and assumes of it (`BlocksAssumption`) exactly what
`SeekRecord_proofs!NetmaskIsABlock` proves. `LookupPrograms` runs `DbFileNames`
and `LookupAddress` statement by statement, takes a handle as the edition it
serves, and an accessor's answer as any answer its edition has.

### 2.1 Pread

One action per statement of `pread.c:45-66` (`Tell`, `Seek`, `Read`,
`Restore`), with entering and leaving the critical section apart; each of the
C library's calls may fail. The 32-bit variant (68-90) has the same statements.
The refinement maps the position to the saved one (`prev`) while a call has
moved it (`positionBar`), because that is the position others rely on.

`PreadMacro` has a descriptor of its own: `MacroSeek`, `MacroRead`, and
`disturbed`, the threads between whose two calls another one moved the position.
`MCPread` runs either of the two builds.

### 2.2 GeoIPHandle

The variable `gi` is the handle, field by field; `fds`, `disk` and `path` are
the process's descriptors, the inodes and the directory entry; `live` counts
what was allocated and not released; `loc` holds the locals of the call in
progress, among them those that were read before `_check_mtime` (`fno`, `pair`,
`end`). A content of a file is abstracted to what the code tells apart: its
size, the number of nodes and record length its structure information leads
to, whether that information is found, and whether a writer has finished.

| Action | Lines |
|---|---|
| `OpenFile`, `OpenStat`, `OpenCache`, `OpenSegments`, `OpenIndex` | 1621-1733, one per system call whose failure has a path of its own |
| `Begin` | what a lookup or `GeoIP_database_info` reads before `_check_mtime`: 1469-1472, 2106 |
| `CheckTime`, `StatPath` | 1214-1250 |
| `ReleaseCache`, `RefreshHandle`, `ReloadCache`, `ReloadSegments`, `ReloadIndex` | 1251-1355 |
| `Lookup`, `DatabaseInfo` | what the callers do afterwards: 1474-1543, 2107-2167 |
| `Delete` | 1735-1758 |
| `Replace`, `Unlink`, `BeginRewrite`, `EndRewrite`, `Tick`, `OtherOpen`, `OtherClose` | the environment |

`fault` records undefined behaviour the code meets (a NULL FILE, a NULL segment
array, a read behind a cache, a wrong `free`); such a run stops there.

`HandleFailures` adds two histories to it: `harm`, the statements at which an
open or a reload gave up since the handle was last whole, and `ever`, those at
which any did. A handle is made whole by a reload that completes.

### 2.3 SeekRecord

A database is a function from pair number and bit to a value; a value below
`segments` is a node. Widths 32 and 128 are the constant `Width`; the Teredo
rewriting of the IPv6 walk is part of `Start`, and depends on the bit that
`EnableTeredo` (2662-2670) leaves at any moment: it ORs its argument, not the
bit, into the flags, so that `true_false` counts by its parity. `under` notes the
argument in force when a lookup began. `d.cached` says that reads go to
the index cache, which ends behind pair `segments - 1`.

### 2.4 RangeByIp

Addresses are numbers, a database is what a lookup returns for each; a lookup
that fails does not write the netmask (`Lost`), so the caller sees any. `seen`
notes the databases loaded during the call.

### 2.5 Records

The constant `File` holds databases as bytes, beside what their author meant by
them (`content`); a walk is the number it returns. `Parse` is the reader of
`_extract_record` (GeoIPCity.c:56-182) over the bytes that are `There`: to the
end of the cache, or what `pread` put into a buffer of `Full` bytes. `CityBytes`, `CityContent`, `NameBytes` and `NameContent` are the
author's side, and `FilesAsWritten` says that the files of `File` are laid out by
it.

| Operator, action | Lines |
|---|---|
| `Parse`, `Extract`, `Pointer`, `There` | GeoIPCity.c:56-182 |
| `RecordBy` | GeoIPCity.c:184-309, one action for all `GeoIP_record_by_*`, a reload within it |
| `InitRecordIter`, `NextRecord` | GeoIPCity.c:311-320 |
| `NameAt`, `NameBy` | 2407-2524, the IPv6 variant with its buffer ended by NUL |
| `WrongEdition` | the checks of the edition in both |
| `Utf8`, `SetCharset` | 980-1009, 2677-2683 |
| `Release` | GeoIPCity.c:322-330 |

`blocks` counts allocated blocks: one for a result and one for each string in
it that is not empty. The scaling of coordinates is left out: their bytes are
compared. An updater replaces a city database by a city database and a database
of names by one of names. `asked.k` is which of the author's results the address
has, `None`, or one of two ways a broken tree misleads: `Lost` (0, "not found")
and `Stray` (behind the end of the file).

### 2.6 AddrNum and Answers

`AddrNum` reads a text one character a step, as the loop of 1545-1577 does; a
text is either typed, and every next character is possible, or was written by
`NumToAddr` (2526-2551). `field` and `fields` are what a reader would see
without the wrapping of an `unsigned int`. `ipnum` needs no such width: where it
would overflow, `i` is negative already and the text is rejected.

`Answers` continues with what was read (`ByAddr`), with a number, or with what
the resolver returns (`ByNumber`), for countries (2032-2099) and regions
(2171-2402); the guards tell apart who refuses 0 and which editions serve. A
database gives each address a number and a meaning, and `AnswersConstants` says
that the numbers are written by the rules of the edition (`WritesCountry`,
`WritesRev0`, `WritesRev1`), so that the arithmetic of the reader is compared
with that of the writer and not with itself. `Unsigned` is the width of
`seek_region`, apart from `Word`, the width of an octet, so that an instance may
choose them apart. The code "--" of country 0 is `Null` for the functions that
return it as NULL.

### 2.7 RegionCodes, RegionTables and TimeZones

`RegionCode2` is the number `GeoIP_region_name_by_code` makes of the first two
characters (9584-9609 of `regionName.c`), `CharsRead` which characters it looks
at. `get_region_name_XX` is the set of numbers the function of that name has a
case for, `RegionsOf` the dispatch (9611-10197), a function of the country; `zone_regions_XX` are the
numbers of the texts `timeZone.c` compares with in country XX, `OneZone` the
countries with one zone. A name is the country and the number it stands under.

### 2.8 DbFileNames

A table's entry is `"garbage"` after `malloc`, `"unset"` after `memset`, and
then the directory its path leads to. `Alloc` publishes the pointer, `Clear` and
`Fill` write behind it, through the pointer that is then current, as the code
does. `Fill` makes `Chunk` assignments at a time. `Test`, `Read` and `Use` are
what `GeoIP_db_avail` and `GeoIP_open_type` share; `BeginCleanup`, `Detach`,
`Release` are `GeoIP_cleanup` (2748-2766). `broken` is the undefined behaviour
met, `raced` whether a call has overlapped one that writes. The three words are
assumed to be no directory's name, and `Wanted` to hold editions only: the code
asks for editions by number, and tells NULL from a path by value.

### 2.9 LookupAddress

`BeginLookup`, `GetHostByName`, `Grow`, `Return` are the statements of
`_GeoIP_lookupaddress` (1803-1854). The loop ends unless `herr`, the `*h_errnop`
argument, is `ERANGE` (1826); POSIX has no such function, and what it reports
there differs: glibc puts `ERANGE` in the result and `NETDB_INTERNAL` in
`*h_errnop`. `TellsRange` has both kinds.

### 2.10 LookupPrograms

| Action | Code |
|---|---|
| `SetDirectory`, `CallSetup`, `SetupNames`, `NamesReturned` | geoiplookup.c:88-93, geoiplookup6.c the same |
| `OpenFile` | geoiplookup.c:93-100, with `-f` |
| `NextType`, `FindName`, `Stat`, `CallOpenType`, `OpenType` | geoiplookup.c:114-123, with 1026-1037 and 1579-1619 |
| `Describe` | `-v` |
| `Resolve`, `Resolving`, `Lookup` | `geoiplookup()`: geoiplookup.c:249-373, geoiplookup6.c:121-195 |
| `Close` | geoiplookup.c:111-139 |
| `TellRecord` | `src/test/test-geoip-city.c:26-72`, from a record to its names |
| `ThreadsCall` | another program, with `DbFileNames` in its threads |

`Accessor4` and `Accessor6` are the branches of `geoiplookup()` by edition,
`Accepts` the check of the edition in each accessor, `Opens` and `Takes` those
of `_setup_segments` and `GeoIP_open_type`. A line that is shown is told by what
it says (an answer, "not found", silence), not by its wording.

## 3. Runs

Every run finishes in about two minutes or less on two workers. Where the type
invariant of a module is a theorem (section 4), and so are `MutualExclusion` and
`ZeroMeansLost`, no run repeats it; `TableServes` and `ReleasedAtEnd` contain
those of the table and of the programs.

| Run | Question | Instance and why it is enough |
|---|---|---|
| `pread` | does a shared position ever hurt? | three threads, offsets before, at, inside and behind the end of a 4-byte file, in either build; a seek and a read of two threads with a third in the queue is the smallest case in which the section can be passed on |
| `handle_reload` | is a handle right through any sequence of reloads? | all 16 sets of flags, three contents (two cities, one smaller edition without nodes), three files, 5 seconds, another user of descriptors: opens, reloads, removes and reloads again |
| `handle_failures` | which failure is to blame for what? | every allocation, `mmap`, `fopen`, read and `stat` of an open or a reload may fail, contents without segments, and with records of another length and an index larger than the file, replaced or rewritten in place between two loads; two files, four sets of flags; two failures in a row are reached |
| `handle_race_heals` | is the newest file served in the end, even when it arrives in the middle of a reload? | all checked modes; two files, also of the same second, renamed into place at any moment, the middle of a reload included, or rewritten in place between two loads |
| `seek` | is the netmask of a walk what it promises? | trees of two nodes (cyclic and truncated ones among them) and of three with an index, addresses of three bits, two threads; `GeoIP_enable_teredo` with 0, 1 and 2 at any moment |
| `range` | is the range right and largest? | every tree of three nodes over eight addresses; nine of the trees replace one another up to twice during a call |
| `records` | does a lookup or an iteration answer with what the file says, in memory and from the file, in both character sets? | city files of both editions and of names, records that end at the last byte, are longer than the buffer (`Full = 15`, `NameMax = 4`) or are empty, characters on both sides of 192; two results held at a time |
| `answers` | are addresses read right, and do countries and regions come out as written? | base 2, octets of 4, an unsigned int of 8 and fields up to 8, so that a field may fill an octet, exceed it and wrap; up to 4 dots; 2 letters, 4 countries, and all four states of either country |
| `programs` | do the programs show what is installed, and the tables name what they should? | every file by itself with each edition it may hold, with `ORG` and with one it may not; files that share names, two directories, `-f`, `-d`, `-v`; five hosts; two threads on the table, built twice; every country of either table with every code, and with texts at the edges, shorter and longer |
| `handle_corrupt_reload` | violation | a new file without segments |
| `handle_record_length` | violation | a new file with records of another length |
| `range_lost` | violation | a tree with a cycle |

What the code does not promise is stated by the properties or shown by the runs
that end in a violation:

* *A corrupt new file*: `_check_mtime` has freed the old segments and returns
  without new ones (1318-1322), and the lookup that called it dereferences NULL
  — `handle_corrupt_reload`. `handle_reload` has sound files only.
* *Another record length*: `record_pair_length` is computed at 1471, before
  `_check_mtime` — `handle_record_length`.
* *Another descriptor*: `fileno` is called at 1469, before `_check_mtime`. When
  other code has closed a lower descriptor meanwhile, the reopened file gets
  that one and a lookup without caches reads through a closed one; `LookupsFresh`
  says that it then finds nothing, and that this is the only such case.
* *Failures of a reload* (1266, 1276, 1288, 1313, 1321, 1331) leave the handle
  without FILE, cache, segments or index, for the lookup that called to use;
  after two in turn a heap block is unmapped or memory lost (1260, 1284).
  `mmap` failing in `GeoIP_open` leads to `free(MAP_FAILED)`, because
  `gi->flags` is set only at 1695. `FaultsHaveACause` and `LeaksHaveACause` name
  for each fault and each leak the failures it takes; `WholeUnlessHarmed` and
  `AnswersUnlessHarmed` say that nothing else goes wrong, and that the next
  reload that completes repairs all of it. A read behind the index cache takes no
  failure when the lookup's `record_pair_length * 2` is of another record length
  than the file it has just loaded: the same hazard as `handle_record_length`.
* *The updater acts between the statements of a reload* (`Racing = {"rename"}`): the
  size of one file meets the contents of another, no segments are found, and the
  call faults; `handle_race_heals` shows what is left then.
* *Two versions of one modification second* (`SameSecond = TRUE`) are the same
  file to 1249: `EventuallyServed` excepts exactly these (`Unnoticed`, for files renamed
  into place and, by the ghost `was`, for rewrites in place), and is violated
  without the exception.
* *The macro* answers with other bytes as soon as another thread comes between
  its two calls: `MacroOwnBytes` speaks of the calls where none did.
* *Overlapping the building or the release of the table of names*: a null, freed
  or uninitialised pointer is used; `TableServes` says that this takes an overlap, which the order of calls that README.md:165-172
  recommends avoids only if something built the table before the threads.

`range_lost` shows the condition `AllFound` of the theorems about ranges: the
netmask of an address that is not found is not written, and the code reads it
anyway (2572, 2580, 2590).

The properties of `records` and `answers` carry their exceptions in their text,
and each of them is reached: a city record longer than `FULL_RECORD_LENGTH` and
a name longer than the buffer of the IPv4 variant are read beyond
(`FaultsExplained`; the IPv6 variant cuts such a name); `GeoIP_next_record` does
not know the end of the file and reads on into what follows; a walk that is
lost returns 0, which the older region edition turns into letters of a state;
a text with a field of 2^32 or more is taken for its remainder (`wrapped`); and
`GeoIP_id_by_*_gl` subtracts `databaseSegments[0]` in an expression whose order
of evaluation C leaves open, while the walk in it may load a file whose tree has
another size (`asked.switched`).

Those of `programs` do so too: `GeoIPLocAv6.dat` is never shown, because
`_setup_segments` does not know the edition that `geoiplookup6` has a branch for;
four editions and the unknown speed are passed over in silence
(`AccessorsFit`); `geoiplookup6` frees neither names nor records
(`ReleasedAtEnd`); an answer that needs more than
the first buffer is lost where only the result tells `ERANGE` (`HostResolved`);
and `NamedOnly` and `ZonedOnly` list the regions only one of the two tables
knows, among them the military addresses and the island territories of the US.

### Bounds

`MaxTime`, `Settled`, `MaxInode`, `MaxFd` (handle), `MaxReloads` (range),
`MaxHeld` (records), `MaxField`, `MaxDots` (addresses), `MaxTables`, `Chunk`
(table of names: 34 assignments in two turns) and the finite sets of
contents, offsets, trees, files, hosts and addresses. `FirstBuffer` is 2 instead
of 16384. The iterator is followed to one
call behind the last record. `Grace` is 1 second, or 0 where files are
rewritten and reloaded in turn, instead of 60: the code only compares with it. After `Settled` nothing fails or changes, except
that a writer at work finishes, so that "in the end" has a meaning in a finite
run; a file finished too late to have been left alone for `Grace` seconds by
`MaxTime` is not counted.

### Fairness

* `Pread`: a thread inside the critical section keeps running. Nothing is
  assumed about who enters next, and nothing is promised about it.
* `GeoIPHandle`: the thread keeps running, the clock ticks, and the program
  keeps calling while its handle is open — the check is made by lookups, so a
  program that stops calling is never up to date.
* `LookupPrograms`: a program that was started runs on (`Program`), which is what
  an operating system gives a single-threaded program; the threads of
  `ThreadsCall` are promised nothing.
* `RangeByIp`: the loops run while their conditions hold.

## 4. Proofs

| Module | Theorems | Argument |
|---|---|---|
| `Pread_proofs` | `TypeCorrect`, `ExclusiveSection`, `ReadsOwnBytes`, `PreadRefinesPositionalRead`, `MacroReadsOwnBytes` | the invariant adds to mutual exclusion that a thread about to read finds the position at its own offset, and that one that has read holds the bytes of its offset; with the macro, one that is not disturbed does, and every step that moves the position disturbs all others about to read |
| `SeekRecord_proofs` | `TypeCorrect`, `IndexIsEnough`, `ZeroIsFailure`, `NetmaskIsABlock`, `BlocksAreFoundWhole`, `TeredoAnswersForClient` | a history (`trail`) of the nodes of a walk: two walks with the same first bits have the same trail, by induction along the steps of each, so they end alike; with the bit on, a Teredo address and its client's are walked as the same address |
| `RangeByIp_proofs` | `TypeCorrect`, `RangeIsRight`, `RangeCannotGrow`, `RangeMixesOnlyVersions` | the loop invariant: every address between the ends has the value; a block that is joined has one value and touches the range; under reloads, the value in some version that was read; behind an end that a loop has left alone stands another value |
| `GeoIPHandle_proofs` | `TypeCorrect`, `ReloadStartsAtRest` | a writer at work keeps the file young (`Tick`); what `_check_mtime` compares is a time not later than now, so an old file has no writer |
| `HandleFailures_proofs` | `LeaksCaused`, `FaultsCaused`, `WholeHandle`, `AnswersCaused`, `HandleCoherent`, `HandleLeaksNothing`, `HandleFaultless`, `LookupsAreFresh`, `InfoIsOfServed` | section 4.1 |
| `Answers_proofs` | `TypeCorrect`, `AddressesAreRead`, `TextsAreReadBack`, `CountriesAreRight`, `RegionsAreRight` | while nothing has wrapped, `octet` is the field, `ipnum` the number of the fields before it and `i` counts them; a number below `Unsigned` survives the subtraction, and division by `Letters` and `Range` undoes the writer's multiplication (`OneQuotient`); the text of a number leads the reader, character by character, from nothing through its four octets (`Leads`, by induction over the digits) |
| `LookupPrograms_proofs` | `NamesAreOfRegions`, `NamesFitZones`, `TableIsServed`, `ProgramsRelease`, `HostsAreResolved`, `DatabasesShownOnce`, `BranchesFit` | section 4.2 |
| `Records_proofs` | `RecordTypes`, `RecordsLeakNothing`, `RecordsInvariant`, `AnswersAreWritten`, `RecordsInOrder`, `ReadsExplained` | section 4.3 |

The invariants are not inductive as the properties state them. `OwnBytes` says
something of returned calls only; `BlockHasOneValue` of finished walks only;
`RangeHasOneValue` of finished calls only. Each proof adds what holds on the
way there.

Assumptions: the named `ASSUME`s of the modules (that of `Answers` says that
databases are written by the rules of their edition, `FilesAsWritten` of `Records`
how records are laid out), `AllFound` (every address
of every database is found) for the theorems about ranges, and the conditions of
section 4.1 for those about the handle.

### 4.1 The handle

The proof is in three parts, each under what it takes, and each an inductive
invariant of its own. The invariants have the history of failures as a parameter
`h`, so that the same lemmas serve `HSpec`, where it is `harm`, and `Spec` without
failures, where it is `{}`.

1. *The ledger* (`Ledger`) holds for any failures, contents and updates, those in
   the middle of a reload included. What is allocated is what the fields of the
   handle lead to, unless a `realloc` or `mmap` of a reload has failed
   (`Accounts`); what kind of memory `gi->cache` points to follows from the flags
   and the failures (`CacheKinds`), and so does which field may be missing (`Lost`)
   and what the caller of `_check_mtime` still believes (`Buffers`). `LeaksCaused`
   follows. The invariant is needed because `GeoIP_open` sets the flags last: what
   a clean-up may free is told by how far the open has got (`Opening`).
2. *The pieces* (`Pieces`), for `Racing = {}`: updates between two loads only.
   What has been loaded so far is of the file that is open, and a handle without
   harm is in one piece (`OnePiece`: segments, cache and index of one content).
   `FaultsCaused` and `WholeHandle` follow, and with `HoldsNode` (a content whose
   segments are found holds a node) `AnswersCaused`: without a node there is
   nothing to walk inside the file.
3. *In order* (`InOrder`), for `Undisturbed`: nothing fails, and sound files are
   renamed into place or removed between two loads. The handle is then always in one piece
   (`Steady`), from which `HandleCoherent` and `HandleLeaksNothing` follow. With
   `OneLength` (all versions have one record length) a version that is due stays due at each test
   `_check_mtime` makes (`Timely`), and what the caller read before it is still
   true where it is used (`Lengths`, `Unmoved`); so `HandleFaultless`,
   `LookupsAreFresh` and `InfoIsOfServed`.

None of the conditions is about the code, and each is needed: without `OneLength`
the run `handle_record_length` violates `LookupsFresh`, with unsound files
`handle_corrupt_reload` violates `NoFault`, and with updates in the middle of a
load (`handle_race_heals`) the size of one file meets the contents of another. With
failures, the properties of `HandleFailures` say what remains. The instances of the
runs meet the conditions, which TLC evaluates there (`ReloadConditions`,
`FailureConditions`).

### 4.2 Names, tables, resolver and programs

* *Regions.* 48 is taken off both characters of a code, which leaves the second
  below 43, so that division by 43 gives them back, and below 100 the same with
  10: a number is of one code (`NamesAreOfRegions`). `NamesFitZones` adds the comparison of
  the two tables for each of the 20 countries, in numbers, and that a text of two
  characters is the text of its number; it holds for any set of countries and
  region codes, the run has a part of them.
* *The table of names* (`NamesInv`), for any number of threads. `Shape` bounds
  what any interleaving reaches; `FewTables` and `PathsCounted` count, by
  cardinalities, so that no release is of more than was allocated; and while no call has overlapped
  a building or release (`~raced`), the thread that writes is alone (`Alone`), the
  table is filled up to its counter (`Local`), and is whole for all others
  (`Ready`, `Whole`). `TableIsServed` follows.
* *The programs* (`ProgramInv`) run one thread (`OneThread`), so that `~raced` and
  the part above holds of them; `OwnTable` says which directory the names are of,
  `FileFound`, `Handle`, `Shown` what is open and kept at each place, `Looking`
  where the resolver's call is and what its answer will be. `ProgramsRelease` and
  `HostsAreResolved` follow.
* *What was shown* (`LinesInv`): the files shown so far are exactly those of the
  editions already passed (`Listed`), and the branches of `geoiplookup()` agree
  with the checks of the accessors for each of the 38 editions (`AccessorsFit`,
  by cases). Files that share a name are told apart by the edition they hold: of the editions
  under one name only one takes a given file (`TakenOnce`), and one
  does if the name fits (`TakenAtAll`). `DatabasesShownOnce` and `BranchesFit` follow.

What these take of the constants: `Threads` is finite; the directories are not
the words that mark an entry without a path; `Wanted` and what is
installed are editions; a file is a pair of directory and name; the marker for
"no name" is not a name. None restricts what the code can be run on.

### 4.3 Records

* *Blocks.* `NoLeak` speaks of a program that has released everything.
  `Accounted` says at all times that the number of allocated blocks is the sum of
  what the results held own, as a running total over the sequence (`Totals`): a
  result more adds one entry (`TotalsAppend`), a released one shortens the total by
  what it owned, wherever it stood (`TotalsRemove`).
* *The layout.* `FilesAsWritten` says how an author lays a file out: behind the
  tree and a byte 0 the records, one after the other, each a country, three texts
  ended by NUL, six bytes of position and, for the United States in the later
  edition, three more. It is the format `_extract_record` and `_get_name_gl`
  decode (GeoIPCity.c:102-166, GeoIP.c:2407-2466); nothing is assumed about what the
  texts say, about the tree or about the bytes elsewhere. TLC evaluates it for the
  files of the run.
* *Reading.* A text ends at the first NUL or where the bytes that were read do
  (`NulAt`); so all of a record is read back, and of fewer bytes than it has the
  parser asks for more than there are (`ParseWritten`), which is how a short
  buffer is told from a record that fits. `DecodedUtf8` says that what
  `_GeoIP_iso_8859_1__utf8` makes of any bytes reads as those bytes again: at each
  character boundary of the result, what is still to be read is what was still to
  be written.
* *In order.* `InPlace` is what makes `IterationInOrder` inductive: between two
  calls the iterator of the program points at the next record of the file, as long
  as no reload has changed it. It rests on `NextStarts` (where a record ends, the
  next begins) and on the step by the number of bytes the parser has used.

The recursive functions (`Utf8` and `Decoded`, and `Digits` of `AddrNum`) are
reasoned about without an induction theorem that takes an operator: a set of numbers
that is not empty has a least one (`LeastNat`, from `WFMin` and the well-foundedness
of `<`), so one with 0 and all successors has them all (`SetInduction`), and the
induction is over the set of the numbers for which the claim holds. `IsUtf8`,
`IsDecoded` and `AreDigits` say what such a function is, one is shown to exist at
every length, and `CHOOSE` takes one.

The properties exclude what the code gets wrong or cannot tell, and so do the
theorems: results of a broken tree, iteration behind the last record, records longer
than the buffers (`FaultsExplained` lists them; hazards in `PROJECT.json`).

### 4.4 What is only model-checked

* `EnteredCallsReturn`, `EventuallyServed`, `CallsEnd` and `ProgramEnds`: liveness
  under fairness is not within reach of the prover, and `PreadRefinesPositionalRead`
  says nothing about it.

Every safety and action property of a passing run is a theorem, those of the handle
under the conditions of section 4.1.

## 5. Not modelled

* The bytes of the structure information (`_setup_segments` scans backwards for
  a delimiter) and of descriptions: found or not found is what matters.
* `printf` of diagnostics, the wording of names, zones and of what the programs
  print, their usage messages, and the ranges that `geoiplookup -i` prints
  (`RangeByIp` has what they are computed by).
* Allocations that fail in `_GeoIP_lookupaddress`, `_GeoIP_setup_dbfilename` and
  `_GeoIP_full_path_to`: the code looks at the result of none of them.
* `GeoIP_deprecated.c`: every function forwards to its `_gl` function with a
  lookup of its own; `GeoIP_last_netmask` returns the `gi_netmask` of
  `SeekRecord`, which `GeoIP.h:433` documents as not thread safe. No state or
  control of its own.
* Concurrent reloads of one handle: NEWS.md:37 excludes threads with
  `GEOIP_CHECK_CACHE`.
* The rest of `src/test`, the build files, `man`, `data`: not part of the library.

## 6. Plan

1. Positional reads, handle, walk, range, with theorems (done).
2. `Records`: city records, iteration, names (done, proved).
3. `AddrNum` and `Answers`: addresses, countries, regions, with theorems (done).
4. `DbFileNames`, `LookupAddress`, `RegionTables` and `LookupPrograms`: file
   names, resolver, tables and programs, with theorems (done).
5. `HandleFailures` and `PreadMacro`: what goes wrong and what it takes (done, with
   theorems). The Teredo setter (done, proved).
6. `GeoIPHandle`: `NoLeak`, `Coherent`, `NoFault`, `LookupsFresh`, `InfoOfServed`
   without failures (done, proved).
7. `AddrNum`: `RoundTrip`, what is written is read back (done, proved).
8. `SeekRecord` with a database that changes between walks.

Runs are kept few: a module that comes to stand for a component is checked in
one run, with its instances behind the constants, and a question that another
run already answers is moved there.
