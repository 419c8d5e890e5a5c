---------------------------- MODULE GeoIPHandle -----------------------------
(***************************************************************************)
(* One GeoIP handle (struct GeoIPTag, GeoIP.h:59-77) used by one thread,   *)
(* while an updater changes the database file and time passes: GeoIP_open, *)
(* lookups and GeoIP_database_info with their _check_mtime, GeoIP_delete.  *)
(* One action per system call or group of statements that nothing outside  *)
(* can interrupt.  The walk down the tree is one action here; the module   *)
(* that models it step by step is SeekRecord.                              *)
(***************************************************************************)
EXTENDS Integers, FiniteSets

CONSTANTS
    Content,     \* what the database file may hold, see HandleConstants
    Null,        \* a NULL pointer, or the absence of a content
    Default,     \* the segments _setup_segments falls back to
    FlagChoices, \* the sets of flags programs open the file with
    Calls,       \* the calls programs make: "lookup", "info"
    Updates,     \* what updaters do: "rename", "unlink", "rewrite"
    Failures,    \* the calls that may fail: "alloc", "mmap", "fopen", "read",
                 \* "stat", "time"
    Racing,      \* the updates that may come while a file is being loaded
    SameSecond,  \* whether two versions may have the same modification second
    Grace,       \* the seconds a file must have been left alone: 60
    Settled,     \* bound: nothing changes or fails after this second
    MaxTime,     \* bound: the last second
    MaxInode,    \* bound: the number of files the updater creates
    MaxFd        \* bound: the number of file descriptors

ASSUME HandleConstants ==
    /\ \A c \in Content :
          /\ c.size \in Nat          \* bytes
          /\ c.nodes \in Nat         \* databaseSegments[0] it leads to
          /\ c.recLen \in {3, 4}     \* record_length it leads to
          /\ c.fixed \in BOOLEAN     \* an edition without content records
          /\ c.sound \in BOOLEAN     \* _setup_segments finds its segments
          /\ c.whole \in BOOLEAN     \* not in the middle of being written
    /\ Null \notin Content /\ Default \notin Content /\ Null # Default
    /\ FlagChoices \subseteq SUBSET {"MEMORY", "MMAP", "CHECK", "INDEX"}
    /\ Racing \subseteq Updates /\ SameSecond \in BOOLEAN
    /\ Grace \in Nat /\ Settled \in Nat /\ MaxTime \in Nat
    /\ MaxInode \in Nat \ {0} /\ MaxFd \in Nat \ {0}

VARIABLES
    now,         \* seconds, as gettimeofday and stat count them
    path,        \* inode that file_path names, or 0
    disk,        \* inode |-> its content, its modification time, and (ghost)
                 \* gi->mtime if a content it had before is of that second
    made,        \* number of inodes created so far
    writing,     \* a rewrite in place of the file at path is under way
    fds,         \* descriptor |-> inode, Free or Other
    gi,          \* the handle's fields
    pc,          \* where the calling thread is
    loc,         \* the local variables and arguments of the call
    live,        \* blocks, mappings and FILEs allocated and not released
    answer,      \* what the last call returned
    fault        \* the undefined behaviour met, or "none"

files == <<path, disk, made, writing>>
vars == <<now, path, disk, made, writing, fds, gi, pc, loc, live, answer, fault>>

-----------------------------------------------------------------------------
(* Memory, descriptors and files *)

Inode == 1 .. MaxInode
Fd == 1 .. MaxFd
Free == 0
Other == MaxInode + 1          \* opened by another part of the program

NoMem == [kind |-> "null", len |-> 0, holds |-> Null, inode |-> 0]
Heap(n, c) == [kind |-> "heap", len |-> n, holds |-> c, inode |-> 0]
Map(n, i) == [kind |-> "map", len |-> n, holds |-> Null, inode |-> i]
MapFailed == [NoMem EXCEPT !.kind = "failed"]

LowestFree == CHOOSE f \in Fd : fds[f] = Free
                                 /\ \A g \in Fd : fds[g] = Free => f <= g
SomeFree == \E f \in Fd : fds[f] = Free

IsFile(f) == f \in Fd /\ fds[f] \in Inode
ContentAt(f) == disk[fds[f]].c              \* for f with IsFile(f)
Stat(i) == [size |-> disk[i].c.size, mtime |-> disk[i].mtime]

\* Whether an injected failure of this kind may hit now.
MayFail(kind) == kind \in Failures /\ now <= Settled

\* What memory shows: a mapping shows its file as it is now.
Shows(m) == IF m.kind = "map" THEN disk[m.inode].c ELSE m.holds
Readable(m) == IF m.kind = "map" /\ disk[m.inode].c.size < m.len
               THEN disk[m.inode].c.size ELSE m.len

-----------------------------------------------------------------------------
(* _setup_segments and get_index_size *)

\* The segments found in content c when gi->size is n: the structure
\* information is looked for from n - 3 backwards.  Beyond the end the read
\* is short; inside another file it is not there, and the country edition is
\* assumed.
SegmentsFound(c, n) ==
    IF n > c.size THEN Null
    ELSE IF n = c.size THEN (IF c.sound THEN c ELSE Null)
    ELSE Default

RecordLength(segs) == IF segs \in Content THEN segs.recLen ELSE 3

\* databaseSegments[0]; the country editions' constant exceeds any offset.
SegmentStart(segs, n) ==
    IF segs \in Content /\ ~segs.fixed THEN segs.nodes ELSE n

\* -1: the index would not fit in a file of n bytes.
IndexSize(segs, n) ==
    IF segs \in Content /\ ~segs.fixed
    THEN LET idx == segs.nodes * segs.recLen * 2
         IN  IF idx > n THEN -1 ELSE idx
    ELSE n

-----------------------------------------------------------------------------
Zeroed == [file |-> 0, cache |-> NoMem, index |-> NoMem, size |-> 0,
           mtime |-> 0, recLen |-> 0, segs |-> Null, flags |-> {},
           lastCheck |-> 0]
NoLocals == [op |-> "none", flags |-> {}, st |-> [size |-> 0, mtime |-> 0],
             buf |-> "null", fno |-> 0, pair |-> 0, end |-> 0, due |-> Null,
             reloaded |-> FALSE]
NoAnswer == [op |-> "none", found |-> "nothing", is |-> Null,
             due |-> Null, reloaded |-> FALSE]

Init ==
    /\ now = Grace + 2
    /\ path = 1
    /\ \E c \in Content :
          c.whole /\ disk = [i \in Inode |-> [c |-> c, mtime |-> Grace + 1, was |-> {}]]
    /\ made = 1
    /\ writing = FALSE
    /\ fds = [f \in Fd |-> Free]
    /\ gi = Zeroed
    /\ pc = "closed"
    /\ loc = NoLocals
    /\ live = [blocks |-> 0, maps |-> 0, files |-> 0]
    /\ answer = NoAnswer
    /\ fault = "none"

Crash(what) ==
    /\ fault' = what
    /\ pc' = "crashed"

Goto(where) == pc' = where
Frame == UNCHANGED <<now, files>>      \* the library changes no file

-----------------------------------------------------------------------------
(* GeoIP_open: a failure leads to GeoIP_delete and NULL. *)

OpenFile(flags) ==
    /\ pc = "closed"
    /\ loc' = [NoLocals EXCEPT !.op = "open", !.flags = flags]
    /\ \/ /\ MayFail("alloc")          \* calloc or malloc of file_path
          /\ UNCHANGED <<pc, gi, fds, live>>
       \/ /\ path = 0 \/ ~SomeFree \/ MayFail("fopen")
          /\ UNCHANGED <<pc, gi, fds, live>>
       \/ /\ path # 0 /\ SomeFree
          /\ fds' = [fds EXCEPT ![LowestFree] = path]
          /\ gi' = [Zeroed EXCEPT !.file = LowestFree]
          /\ live' = [live EXCEPT !.files = @ + 1]
          /\ Goto("open_stat")
    /\ answer' = NoAnswer
    /\ Frame /\ UNCHANGED fault

\* fstat, gi->size; gi->mtime only for the flags that need it.
OpenStat ==
    /\ pc = "open_stat"
    /\ \/ /\ MayFail("stat")
          /\ Goto("delete")
          /\ UNCHANGED <<gi, loc>>
       \/ LET st == Stat(fds[gi.file]) IN
          /\ loc' = [loc EXCEPT !.st = st]
          /\ gi' = [gi EXCEPT !.size = st.size]
          /\ Goto("open_cache")
    /\ Frame /\ UNCHANGED <<fds, live, answer, fault>>

\* mmap, or malloc and pread of the whole file, or, for CHECK, a second fstat.
OpenCache ==
    /\ pc = "open_cache"
    /\ LET n == loc.st.size
           c == ContentAt(gi.file)
       IN
       \/ /\ "MMAP" \in loc.flags
          /\ \/ /\ n = 0 \/ MayFail("mmap")
                /\ gi' = [gi EXCEPT !.mtime = loc.st.mtime, !.cache = MapFailed]
                /\ Goto("delete")
                /\ UNCHANGED live
             \/ /\ n > 0
                /\ gi' = [gi EXCEPT !.mtime = loc.st.mtime,
                                    !.cache = Map(n, fds[gi.file])]
                /\ live' = [live EXCEPT !.maps = @ + 1]
                /\ Goto("open_segments")
          /\ UNCHANGED loc
       \/ /\ "MEMORY" \in loc.flags /\ "MMAP" \notin loc.flags
          /\ \/ /\ MayFail("alloc")    \* tolerated: lookups read the file
                /\ gi' = [gi EXCEPT !.mtime = loc.st.mtime]
                /\ Goto("open_segments")
                /\ UNCHANGED live
             \/ /\ gi' = [gi EXCEPT !.mtime = loc.st.mtime, !.cache = Heap(n, c)]
                /\ live' = [live EXCEPT !.blocks = @ + 1]
                /\ \/ n <= c.size /\ Goto("open_segments")
                   \/ (n > c.size \/ MayFail("read")) /\ Goto("delete")
          /\ UNCHANGED loc
       \/ /\ loc.flags \cap {"MEMORY", "MMAP"} = {}
          /\ \/ /\ "CHECK" \notin loc.flags
                /\ Goto("open_segments")
                /\ UNCHANGED <<gi, loc>>
             \/ /\ "CHECK" \in loc.flags /\ MayFail("stat")
                /\ Goto("delete")
                /\ UNCHANGED <<gi, loc>>
             \/ /\ "CHECK" \in loc.flags
                /\ loc' = [loc EXCEPT !.st = Stat(fds[gi.file])]
                /\ gi' = [gi EXCEPT !.mtime = disk[fds[gi.file]].mtime]
                /\ Goto("open_segments")
          /\ UNCHANGED live
    /\ Frame /\ UNCHANGED <<fds, answer, fault>>

\* Mutant: a failing _setup_segments returns before the flags are stored.
OpenSegmentsLateFlags ==
    /\ pc = "open_segments"
    /\ \E segs \in {SegmentsFound(ContentAt(gi.file), gi.size)}
                    \cup (IF MayFail("read") \/ MayFail("alloc")
                          THEN {Null} ELSE {}) :
          /\ gi' = [gi EXCEPT !.flags = IF segs = Null THEN @ ELSE loc.flags,
                              !.segs = segs, !.recLen = RecordLength(segs)]
          /\ live' = IF segs = Null THEN live
                                    ELSE [live EXCEPT !.blocks = @ + 1]
          /\ Goto(IF segs = Null THEN "delete" ELSE "open_index")
    /\ Frame /\ UNCHANGED <<fds, loc, answer, fault>>

\* Only here does the handle learn its flags.
OpenSegments ==
    /\ pc = "open_segments"
    /\ \E segs \in {SegmentsFound(ContentAt(gi.file), gi.size)}
                    \cup (IF MayFail("read") \/ MayFail("alloc")
                          THEN {Null} ELSE {}) :
          /\ gi' = [gi EXCEPT !.flags = loc.flags, !.segs = segs,
                              !.recLen = RecordLength(segs)]
          /\ live' = IF segs = Null THEN live
                                    ELSE [live EXCEPT !.blocks = @ + 1]
          /\ Goto(IF segs = Null THEN "delete" ELSE "open_index")
    /\ Frame /\ UNCHANGED <<fds, loc, answer, fault>>

OpenIndex ==
    /\ pc = "open_index"
    /\ LET idx == IndexSize(gi.segs, loc.st.size)
           c == ContentAt(gi.file)
       IN
       \/ /\ idx < 0
          /\ Goto("delete")
          /\ UNCHANGED <<gi, live>>
       \/ /\ idx >= 0
          /\ "INDEX" \notin loc.flags \/ MayFail("alloc")
          /\ Goto("idle")
          /\ UNCHANGED <<gi, live>>
       \/ /\ idx >= 0 /\ "INDEX" \in loc.flags
          /\ gi' = [gi EXCEPT !.index = Heap(idx, c)]
          /\ live' = [live EXCEPT !.blocks = @ + 1]
          /\ \/ idx <= c.size /\ Goto("idle")
             \/ (idx > c.size \/ MayFail("read")) /\ Goto("delete")
    /\ Frame /\ UNCHANGED <<fds, loc, answer, fault>>

One(b) == IF b THEN 1 ELSE 0

\* What the handle's fields point to, in the units of live.
Owned(g) == [files  |-> One(g.file # 0),
             maps   |-> One(g.cache.kind = "map"),
             blocks |-> One(g.cache.kind = "heap") + One(g.index.kind = "heap")
                        + One(g.segs # Null)]

\* Mutant: the index cache is forgotten.
DeleteKeepsIndex ==
    /\ pc \in {"idle", "delete"}
    /\ LET cached == gi.cache.kind # "null"
           unmaps == cached /\ "MMAP" \in gi.flags
           frees  == cached /\ "MMAP" \notin gi.flags
       IN  live' = [files  |-> live.files - One(gi.file # 0),
                    maps   |-> live.maps - One(unmaps),
                    blocks |-> live.blocks - One(frees) - One(gi.segs # Null)]
    /\ fds' = [f \in Fd |-> IF f = gi.file THEN Free ELSE fds[f]]
    /\ gi' = Zeroed
    /\ loc' = NoLocals
    /\ answer' = NoAnswer
    /\ Goto("closed")
    /\ Frame /\ UNCHANGED fault

\* GeoIP_delete, called by the program or by a failing GeoIP_open: gi->flags
\* decide how the cache is released.
Delete ==
    /\ pc \in {"idle", "delete"}
    /\ LET cached == gi.cache.kind # "null"
           unmaps == cached /\ "MMAP" \in gi.flags
           frees  == cached /\ "MMAP" \notin gi.flags
       IN  /\ live' = [files  |-> live.files - One(gi.file # 0),
                       maps   |-> live.maps - One(unmaps),
                       blocks |-> live.blocks - One(frees) - One(gi.segs # Null)
                                  - One(gi.index.kind # "null")]
           /\ \/ /\ unmaps => gi.cache.kind = "map"
                 /\ frees => gi.cache.kind = "heap"
                 /\ Goto("closed") /\ UNCHANGED fault
              \/ /\ frees /\ gi.cache.kind # "heap"
                 /\ Crash("bad_free")
              \/ /\ unmaps /\ gi.cache.kind # "map"
                 /\ Crash("bad_unmap")
    /\ fds' = [f \in Fd |-> IF f = gi.file THEN Free ELSE fds[f]]
    /\ gi' = Zeroed
    /\ loc' = NoLocals
    /\ answer' = NoAnswer
    /\ Frame

-----------------------------------------------------------------------------
(* _check_mtime, at the start of every lookup and of GeoIP_database_info.   *)
(* The caller has already taken fileno, record_length * 2 and whether there  *)
(* is a cache (lookups), or gi->size - 3 (database_info).                    *)

\* The content an update check of this second has to bring in: the file at
\* path was replaced, and nobody has touched it for more than Grace seconds.
Due == IF /\ "CHECK" \in gi.flags /\ gi.lastCheck # now
          /\ path # 0 /\ ~writing
          /\ disk[path].mtime # gi.mtime /\ disk[path].mtime + Grace < now
       THEN disk[path].c ELSE Null

Begin(op) ==
    /\ pc = "idle"
    /\ IF gi.file = 0
       THEN Crash("null_file") /\ UNCHANGED loc          \* fileno(NULL)
       ELSE /\ loc' = [NoLocals EXCEPT
                         !.op = op, !.fno = gi.file, !.pair = 2 * gi.recLen,
                         !.buf = IF gi.cache.kind = "null" THEN "stack" ELSE "null",
                         !.end = gi.size, !.due = Due]
            /\ Goto("check") /\ UNCHANGED fault
    /\ answer' = NoAnswer
    /\ Frame /\ UNCHANGED <<fds, gi, live>>

\* At most one stat a second.
CheckTime ==
    /\ pc = "check"
    /\ \/ /\ "CHECK" \notin gi.flags \/ now = gi.lastCheck \/ MayFail("time")
          /\ Goto("use") /\ UNCHANGED gi
       \/ /\ "CHECK" \in gi.flags /\ now # gi.lastCheck
          /\ gi' = [gi EXCEPT !.lastCheck = now]
          /\ Goto("stat")
    /\ Frame /\ UNCHANGED <<fds, loc, live, answer, fault>>

\* Mutants: the rule of 60 seconds is off by one, or missing.
Compare(reload(_)) ==
    /\ pc = "stat"
    /\ \/ /\ path = 0 \/ MayFail("stat")
          /\ Goto("use") /\ UNCHANGED loc
       \/ /\ path # 0
          /\ loc' = [loc EXCEPT !.st = Stat(path)]
          /\ Goto(IF reload(disk[path].mtime) THEN "release" ELSE "use")
    /\ Frame /\ UNCHANGED <<fds, gi, live, answer, fault>>

StatPathLater ==
    LET reload(m) == m # gi.mtime /\ m + Grace + 1 < gi.lastCheck
    IN  Compare(reload)
StatPathAnyAge ==
    LET reload(m) == m # gi.mtime
    IN  Compare(reload)

StatPath ==
    /\ pc = "stat"
    /\ \/ /\ path = 0 \/ MayFail("stat")
          /\ Goto("use") /\ UNCHANGED loc
       \/ /\ path # 0
          /\ LET st == Stat(path) IN
             /\ loc' = [loc EXCEPT !.st = st]
             /\ Goto(IF st.mtime # gi.mtime /\ st.mtime + Grace < gi.lastCheck
                     THEN "release" ELSE "use")
    /\ Frame /\ UNCHANGED <<fds, gi, live, answer, fault>>

\* Mutant: the old mapping is not released.
ReleaseNothing ==
    /\ pc = "release"
    /\ Goto("refresh")
    /\ Frame /\ UNCHANGED <<gi, live, fds, loc, answer, fault>>

\* munmap, or realloc for the new size.
ReleaseCache ==
    /\ pc = "release"
    /\ LET n == loc.st.size
           old == gi.cache.kind
       IN
       \/ /\ gi.flags \cap {"MEMORY", "MMAP"} = {}
          /\ Goto("refresh") /\ UNCHANGED <<gi, live>>
       \/ /\ "MMAP" \in gi.flags /\ old # "null"
          /\ gi' = [gi EXCEPT !.cache = NoMem]
          /\ live' = [live EXCEPT !.maps = @ - 1]
          /\ Goto("refresh")
       \/ /\ gi.flags \cap {"MEMORY", "MMAP"} # {}
          /\ "MMAP" \notin gi.flags \/ old = "null"
          /\ \/ /\ MayFail("alloc")
                /\ gi' = [gi EXCEPT !.cache = NoMem]
                /\ Goto("use") /\ UNCHANGED live
             \/ /\ n = 0 /\ old = "heap"        \* realloc(p, 0) frees p
                /\ gi' = [gi EXCEPT !.cache = NoMem]
                /\ live' = [live EXCEPT !.blocks = @ - 1]
                /\ Goto("use")
             \/ /\ n > 0 \/ old = "null"
                /\ gi' = [gi EXCEPT !.cache = Heap(n, gi.cache.holds)]
                /\ live' = [live EXCEPT !.blocks = @ + One(old = "null")]
                /\ Goto("refresh")
    /\ Frame /\ UNCHANGED <<fds, loc, answer, fault>>

\* Mutants: gi->size is not updated, and gi->mtime is taken from the file that
\* was opened.
Refresh(g) ==
    /\ pc = "refresh" /\ path # 0
    /\ fds' = [fds EXCEPT ![gi.file] = path]
    /\ gi' = g
    /\ loc' = [loc EXCEPT !.reloaded = TRUE]
    /\ Goto("reload")
    /\ Frame /\ UNCHANGED <<live, fault, answer>>

RefreshKeepsSize ==
    Refresh([gi EXCEPT !.mtime = loc.st.mtime])
RefreshTakesMtime ==
    Refresh([gi EXCEPT !.mtime = disk[path].mtime, !.size = loc.st.size])

\* fclose and fopen, then gi->mtime and gi->size from the stat before.
RefreshHandle ==
    /\ pc = "refresh"
    /\ LET closed == [fds EXCEPT ![gi.file] = Free]
           fd == CHOOSE f \in Fd : closed[f] = Free
                                   /\ \A g \in Fd : closed[g] = Free => f <= g
       IN
       \/ /\ gi.file = 0
          /\ Crash("null_file")
          /\ UNCHANGED <<fds, gi, live, loc>>
       \/ /\ gi.file # 0
          /\ path = 0 \/ MayFail("fopen")
          /\ fds' = closed
          /\ gi' = [gi EXCEPT !.file = 0]
          /\ live' = [live EXCEPT !.files = @ - 1]
          /\ Goto("use") /\ UNCHANGED <<fault, loc>>
       \/ /\ gi.file # 0 /\ path # 0
          /\ fds' = [closed EXCEPT ![fd] = path]
          /\ gi' = [gi EXCEPT !.file = fd, !.mtime = loc.st.mtime,
                              !.size = loc.st.size]
          /\ loc' = [loc EXCEPT !.reloaded = TRUE]
          /\ Goto("reload") /\ UNCHANGED <<live, fault>>
    /\ Frame /\ UNCHANGED answer

\* mmap, or pread into the resized block.
ReloadCache ==
    /\ pc = "reload"
    /\ LET n == loc.st.size
           c == ContentAt(gi.file)
       IN
       \/ /\ "MMAP" \in gi.flags
          /\ \/ /\ n = 0 \/ MayFail("mmap")
                /\ gi' = [gi EXCEPT !.cache = NoMem]
                /\ Goto("use") /\ UNCHANGED live
             \/ /\ n > 0
                /\ gi' = [gi EXCEPT !.cache = Map(n, fds[gi.file])]
                /\ live' = [live EXCEPT !.maps = @ + 1]
                /\ Goto("segments")
       \/ /\ "MEMORY" \in gi.flags /\ "MMAP" \notin gi.flags
          /\ \/ /\ n <= c.size
                /\ gi' = [gi EXCEPT !.cache.holds = c]
                /\ Goto("segments")
             \/ /\ n > c.size \/ MayFail("read")
                /\ gi' = [gi EXCEPT !.cache.holds = Null]
                /\ Goto("use")
          /\ UNCHANGED live
       \/ /\ gi.flags \cap {"MEMORY", "MMAP"} = {}
          /\ Goto("segments") /\ UNCHANGED <<gi, live>>
    /\ Frame /\ UNCHANGED <<fds, loc, answer, fault>>

ReloadSegments ==
    /\ pc = "segments"
    /\ \E segs \in {SegmentsFound(ContentAt(gi.file), gi.size)}
                    \cup (IF MayFail("read") \/ MayFail("alloc")
                          THEN {Null} ELSE {}) :
          /\ gi' = [gi EXCEPT !.segs = segs, !.recLen = RecordLength(segs)]
          /\ live' = [live EXCEPT !.blocks =
                        @ - One(gi.segs # Null) + One(segs # Null)]
          /\ Goto(IF segs = Null THEN "use" ELSE "index")
    /\ Frame /\ UNCHANGED <<fds, loc, answer, fault>>

\* Mutant: the index cache stays as it was.
ReloadIndexNever ==
    /\ pc = "index"
    /\ Goto("use")
    /\ Frame /\ UNCHANGED <<gi, live, fds, loc, answer, fault>>

ReloadIndex ==
    /\ pc = "index"
    /\ LET idx == IndexSize(gi.segs, loc.st.size)
           c == ContentAt(gi.file)
       IN
       \/ /\ idx < 0 \/ "INDEX" \notin gi.flags
          /\ UNCHANGED <<gi, live>>
       \/ /\ idx >= 0 /\ "INDEX" \in gi.flags /\ MayFail("alloc")
          /\ gi' = [gi EXCEPT !.index = NoMem]
          /\ UNCHANGED live
       \/ /\ idx >= 0 /\ "INDEX" \in gi.flags
          /\ \/ idx <= c.size /\ gi' = [gi EXCEPT !.index = Heap(idx, c)]
             \/ /\ idx > c.size \/ MayFail("read")
                /\ gi' = [gi EXCEPT !.index = Heap(idx, Null)]
          /\ live' = [live EXCEPT !.blocks = @ + One(gi.index.kind = "null")]
    /\ Goto("use")
    /\ Frame /\ UNCHANGED <<fds, loc, answer, fault>>

-----------------------------------------------------------------------------
(* What the callers do after _check_mtime *)

Return(is, found) ==
    /\ answer' = [op |-> loc.op, found |-> found, is |-> is,
                  due |-> loc.due, reloaded |-> loc.reloaded]
    /\ Goto("idle") /\ UNCHANGED fault

\* The walk reads a pair of records at pair * x for nodes x below
\* databaseSegments[0], after comparing pair * x with gi->size - pair, and it
\* takes record_length bytes of either.
Overruns(m) ==
    \E x \in 0 .. SegmentStart(gi.segs, gi.size) - 1 :
        /\ loc.pair * x <= gi.size - loc.pair
        /\ loc.pair * x + 2 * gi.recLen > Readable(m)

\* The walk read content c with the segments and lengths of the handle.
Walked(c) ==
    IF gi.segs = Null THEN Crash("null_segments") /\ UNCHANGED answer
    ELSE IF c # Null /\ gi.segs = c /\ loc.pair = 2 * c.recLen
         THEN Return(c, "found")
         ELSE Return(Null, "wrong")

WalkMemory(m) ==
    IF gi.segs # Null /\ Overruns(m)
    THEN Crash("overrun") /\ UNCHANGED answer
    ELSE Walked(Shows(m))

\* In the file, through the descriptor number taken before _check_mtime; the
\* bytes go to the stack buffer, and are looked for in buf.
WalkFile ==
    \/ /\ ~IsFile(loc.fno) \/ MayFail("read")
       /\ Return(Null, "nothing")
    \/ /\ IsFile(loc.fno)
       /\ IF loc.buf = "null" THEN Crash("null_buf") /\ UNCHANGED answer
                              ELSE Walked(ContentAt(loc.fno))

Lookup ==
    /\ pc = "use" /\ loc.op = "lookup"
    /\ \/ /\ gi.size < loc.pair
          /\ Return(Null, "nothing")
       \/ /\ gi.size >= loc.pair
          /\ \/ gi.index.kind # "null" /\ WalkMemory(gi.index)
             \/ /\ gi.index.kind = "null" /\ gi.cache.kind # "null"
                /\ WalkMemory(gi.cache)
             \/ gi.index.kind = "null" /\ gi.cache.kind = "null" /\ WalkFile
    /\ Frame /\ UNCHANGED <<fds, gi, loc, live>>

\* Mutant: the description is read from the file that is at path now.
DatabaseInfoOfPath ==
    /\ pc = "use" /\ loc.op = "info"
    /\ IF path # 0 /\ disk[path].c.sound /\ loc.end = disk[path].c.size
       THEN Return(disk[path].c, "found")
       ELSE Return(Null, "nothing")
    /\ Frame /\ UNCHANGED <<fds, gi, loc, live>>

\* GeoIP_database_info reads the description at the end of the file, through
\* fno, from the end it computed before _check_mtime.
DatabaseInfo ==
    /\ pc = "use" /\ loc.op = "info"
    /\ \/ /\ ~IsFile(loc.fno) \/ MayFail("read") \/ MayFail("alloc")
          /\ Return(Null, "nothing")
       \/ /\ IsFile(loc.fno)
          /\ LET c == ContentAt(loc.fno) IN
             \/ loc.end > c.size /\ Return(Null, "nothing")
             \/ loc.end = c.size /\ c.sound /\ Return(c, "found")
             \/ /\ loc.end < c.size \/ (loc.end = c.size /\ ~c.sound)
                /\ Return(Null, "nothing") \/ Return(Null, "wrong")
    /\ Frame /\ UNCHANGED <<fds, gi, loc, live>>

-----------------------------------------------------------------------------
(* The updater, the clock and the rest of the program *)

Loading == pc \in {"open_stat", "open_cache", "open_segments", "open_index",
                   "release", "refresh", "reload", "segments", "index"}
Comes(update) == update \in Updates /\ (Loading => update \in Racing)
MayUpdate(update) == now <= Settled /\ Comes(update)
Library == UNCHANGED <<gi, pc, live, answer, fault>>

\* mv new.dat GeoIP.dat: another inode, possibly written long before, in
\* a second of its own unless SameSecond.
Replace(c, m) ==
    /\ MayUpdate("rename") /\ ~writing
    /\ made < MaxInode /\ c.whole
    /\ SameSecond \/ \A i \in 1 .. made : disk[i].mtime # m
    /\ made' = made + 1
    /\ disk' = [disk EXCEPT ![made + 1] = [c |-> c, mtime |-> m, was |-> {}]]
    /\ path' = made + 1
    /\ loc' = [loc EXCEPT !.due = Null]
    /\ Library /\ UNCHANGED <<now, writing, fds>>

Unlink ==
    /\ MayUpdate("unlink") /\ path # 0 /\ ~writing
    /\ path' = 0
    /\ loc' = [loc EXCEPT !.due = Null]
    /\ Library /\ UNCHANGED <<now, disk, made, writing, fds>>

\* cp new.dat GeoIP.dat: the same inode, truncated, then written in pieces.
BeginRewrite(c) ==
    /\ MayUpdate("rewrite") /\ path # 0 /\ ~writing /\ ~c.whole
    /\ writing' = TRUE
    /\ LET seconds == disk[path].was \cup {disk[path].mtime}
       IN  disk' = [disk EXCEPT ![path] = [c |-> c, mtime |-> now,
                                           was |-> seconds \cap {gi.mtime}]]
    /\ loc' = [loc EXCEPT !.due = Null]
    /\ Library /\ UNCHANGED <<now, path, made, fds>>

EndRewrite(c) ==
    /\ writing /\ c.whole /\ Comes("rewrite")
    /\ writing' = FALSE
    /\ disk' = [disk EXCEPT ![path].c = c, ![path].mtime = now]
    /\ loc' = [loc EXCEPT !.due = Null]
    /\ Library /\ UNCHANGED <<now, path, made, fds>>

\* A writer at work touches the file at least every Grace seconds.
Tick ==
    /\ now < MaxTime
    /\ now' = now + 1
    /\ \/ ~writing /\ UNCHANGED disk
       \/ writing /\ now' <= disk[path].mtime + Grace /\ UNCHANGED disk
       \/ writing /\ disk' = [disk EXCEPT ![path].mtime = now']
    /\ Library /\ UNCHANGED <<path, made, writing, fds, loc>>

\* Other parts of the program open and close files between calls.
OtherOpen ==
    /\ pc \in {"idle", "closed"} /\ SomeFree
    /\ fds' = [fds EXCEPT ![LowestFree] = Other]
    /\ Frame /\ Library /\ UNCHANGED loc

OtherClose(f) ==
    /\ pc \in {"idle", "closed"} /\ fds[f] = Other
    /\ fds' = [fds EXCEPT ![f] = Free]
    /\ Frame /\ Library /\ UNCHANGED loc

Environment ==
    \/ \E c \in Content, m \in 1 .. now : Replace(c, m)
    \/ Unlink
    \/ \E c \in Content : BeginRewrite(c) \/ EndRewrite(c)
    \/ Tick
    \/ OtherOpen
    \/ \E f \in Fd : OtherClose(f)

\* The thread inside a call.
Step ==
    \/ OpenStat \/ OpenCache \/ OpenSegments \/ OpenIndex
    \/ pc = "delete" /\ Delete
    \/ CheckTime \/ StatPath
    \/ ReleaseCache \/ RefreshHandle \/ ReloadCache
    \/ ReloadSegments \/ ReloadIndex
    \/ Lookup \/ DatabaseInfo

BeginCall == \E op \in Calls : Begin(op)

Program ==
    \/ \E flags \in FlagChoices : OpenFile(flags)
    \/ BeginCall
    \/ pc = "idle" /\ Delete

Next == Environment \/ Step \/ Program

Spec == Init /\ [][Next]_vars

\* The thread keeps running, the clock keeps ticking, and the program keeps
\* calling as long as its handle is open.
FairSpec == Spec /\ WF_vars(Step) /\ WF_vars(BeginCall) /\ WF_vars(Tick)

-----------------------------------------------------------------------------
(* Properties *)

Points == {"closed", "open_stat", "open_cache", "open_segments", "open_index",
           "delete", "idle", "check", "stat", "release", "refresh", "reload",
           "segments", "index", "use", "crashed"}
Memory == [kind : {"null", "heap", "map", "failed"}, len : Nat,
           holds : Content \cup {Null}, inode : 0 .. MaxInode]
FlagSets == SUBSET {"MEMORY", "MMAP", "CHECK", "INDEX"}
Handles == [file : 0 .. MaxFd, cache : Memory, index : Memory, size : Nat,
            mtime : Nat, recLen : {0, 3, 4}, segs : Content \cup {Null, Default},
            flags : FlagSets, lastCheck : Nat]
Stats == [size : Nat, mtime : Nat]
Locals == [op : {"none", "open"} \cup Calls, flags : FlagSets, st : Stats,
           buf : {"stack", "null"}, fno : 0 .. MaxFd, pair : Nat, end : Nat,
           due : Content \cup {Null}, reloaded : BOOLEAN]
Results == [op : {"none", "open"} \cup Calls, found : {"nothing", "wrong", "found"},
            is : Content \cup {Null}, due : Content \cup {Null},
            reloaded : BOOLEAN]
Faults == {"none", "bad_free", "bad_unmap", "null_file", "null_segments",
           "null_buf", "overrun"}

TypeOK ==
    /\ now \in Nat
    /\ path \in 0 .. MaxInode
    /\ disk \in [Inode -> [c : Content, mtime : Nat, was : SUBSET Nat]]
    /\ made \in 0 .. MaxInode
    /\ writing \in BOOLEAN
    /\ fds \in [Fd -> 0 .. Other]
    /\ gi \in Handles
    /\ pc \in Points
    /\ loc \in Locals
    /\ live \in [blocks : Int, maps : Int, files : Int]
    /\ answer \in Results
    /\ fault \in Faults

\* No call dereferences a NULL FILE, cache, buffer or segment array, reads
\* beyond the cached copy or releases memory it did not allocate: "error
\* conditions are detectable via the return values" (README.md:104-105).
NoFault == fault = "none"

\* Between calls the handle reaches everything it allocated, and no more: no
\* block, mapping or FILE is lost or released twice over any sequence of
\* reloads, failing opens and deletes, and a closed handle holds nothing.
NoLeak ==
    pc \in {"idle", "closed"} =>
        /\ live = Owned(gi)
        /\ Cardinality({f \in Fd : IsFile(f)}) = live.files

\* Between calls every part of the handle (descriptor, size, segments, record
\* length, cache, index cache) comes from one version of the file; a reload
\* replaces them one after the other and must not stop in the middle.
Coherent ==
    pc = "idle" =>
        LET c == ContentAt(gi.file) IN
        /\ gi.segs = c /\ gi.recLen = c.recLen /\ gi.size = c.size
        /\ gi.cache.kind # "null" => Shows(gi.cache) = c /\ Readable(gi.cache) = c.size
        /\ gi.index.kind # "null" =>
              gi.index.holds = c /\ gi.index.len = IndexSize(c, c.size)

\* Every lookup answers from one version of the file, read with that version's
\* segments and record length, and from the new version if the lookup itself
\* found that the file was replaced: "If database has been updated, reload
\* file handle and/or memory cache" (README.md:94-95).  Only when other code
\* has closed a lower descriptor since the file was opened, so that the reload
\* gets another one than the lookup goes on to read from, does it fail; and it
\* never reads what it should not.
LookupsFresh ==
    pc = "idle" /\ answer.op = "lookup" =>
        IF loc.fno # gi.file /\ gi.cache.kind = "null" /\ gi.index.kind = "null"
        THEN answer.found = "nothing"
        ELSE /\ answer.found = "found"
             /\ answer.due # Null => answer.is = answer.due

\* GeoIP_database_info describes the version the handle serves, unless this
\* very call reloaded the file.
InfoOfServed ==
    pc = "idle" /\ answer.op = "info" /\ ~answer.reloaded =>
        answer.found = "found" /\ answer.is = ContentAt(gi.file)

\* A reload starts only from a file that is complete: no writer is at work on
\* it, because a writer would have touched it in the last Grace seconds.
ReloadsSettledFile ==
    [][pc = "stat" /\ pc' = "release" => ~writing /\ disk[path].c.whole]_vars

\* Lookups would answer from c, and read it with its own segments.
Serves(c) ==
    LET src == IF gi.index.kind # "null" THEN gi.index.holds
               ELSE IF gi.cache.kind # "null" THEN Shows(gi.cache)
               ELSE IF IsFile(gi.file) THEN ContentAt(gi.file) ELSE Null
    IN  src = c /\ gi.segs = c
Watches == pc \notin {"closed", "crashed", "delete"} /\ "CHECK" \in gi.flags

Unnoticed ==
    \/ disk[path].mtime \in disk[path].was
    \/ \E i \in 1 .. made : i # path
                          /\ disk[path].mtime \in disk[i].was \cup {disk[i].mtime}

\* A sound version that is left alone at path for Grace seconds is what a handle
\* opened with GEOIP_CHECK_CACHE ends up serving, as long as the program keeps
\* calling; only a version of the very second of an earlier one may go unnoticed
\* for good (GeoIP.c:1248 compares modification times).
EventuallyServed ==
    \A c \in Content :
        (/\ now = MaxTime /\ Watches /\ ~writing /\ path # 0
         /\ disk[path].c = c /\ c.sound /\ disk[path].mtime + Grace < now)
            ~> (Serves(c) \/ ~Watches \/ Unnoticed)

-----------------------------------------------------------------------------
(* Conditions under which the properties above hold for every content, file *)
(* and descriptor; the properties of HandleFailures say what goes wrong      *)
(* without them.                                                             *)

\* A content with segments holds at least one node.
HoldsNode == \A c \in Content : c.sound => 2 * c.recLen <= c.size

\* Every content has segments, and room for a node and for its index.
Sound == \A c \in Content :
    c.sound /\ 2 * c.recLen <= c.size /\ IndexSize(c, c.size) # -1

\* All versions of the file have one record length.
OneLength == \A c, d \in Content : c.recLen = d.recLen

\* Sound files are renamed into place or removed between two loads, and no
\* system call fails.
Undisturbed == Failures = {} /\ Racing = {} /\ "rewrite" \notin Updates /\ Sound
=============================================================================
