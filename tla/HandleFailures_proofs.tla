------------------------ MODULE HandleFailures_proofs ------------------------
(***************************************************************************)
(* What a handle keeps right, for any contents, files and descriptors.     *)
(* The first part is about bookkeeping and holds whatever fails and        *)
(* whenever files change: what is allocated is what the handle points to,  *)
(* and every fault and leak has the failure it takes.  The second is about *)
(* contents, for updates between two loads (Racing = {}): the parts of a   *)
(* handle come from one version of the file unless a reload gave up.  The  *)
(* third is about handles that nothing disturbs (Undisturbed): they never  *)
(* meet a fault and answer from the newest version.                        *)
(*                                                                         *)
(* The invariants take the history harm as a parameter h, so that the      *)
(* third part can say that it stays empty in a system that has no history. *)
(***************************************************************************)
EXTENDS HandleFailures, GeoIPHandle_proofs, FiniteSetTheorems

-----------------------------------------------------------------------------
(* The ledger: what is allocated, and what may be missing after which failure *)

\* The places where a handle is open and GeoIP_open has returned it.
Serving == {"idle", "check", "stat", "release", "refresh", "reload",
            "segments", "index", "use"}

\* The handle was opened with one of the flags that cache the whole file.
Cached(flags) == "MEMORY" \in flags \/ "MMAP" \in flags

\* The descriptor of a closed FILE is free or somebody else's: the process has
\* no file of the updater open but the one gi->gi_file points to.
Descriptors ==
    /\ path <= made
    /\ gi.file # 0 => IsFile(gi.file)
    /\ \A f \in Fd : IsFile(f) => f = gi.file /\ fds[f] <= made

\* The library stops where it met undefined behaviour, and only there.
Stopped == (fault # "none") <=> (pc = "crashed")

\* In GeoIP_open: which fields are still those of calloc, and how the cache
\* follows from the flags, which the handle does not know yet.
Opening ==
    /\ pc = "closed" => gi = Zeroed
    /\ pc \in {"open_stat", "open_cache", "open_segments"} =>
          gi.flags = {} /\ gi.segs = Null /\ gi.index = NoMem
    /\ pc \in {"open_stat", "open_cache"} => gi.cache = NoMem
    /\ pc = "open_index" =>
          gi.flags = loc.flags /\ gi.segs # Null /\ gi.index = NoMem
    /\ pc \in {"open_segments", "open_index"} =>
          \/ gi.cache.kind = "null" /\ "MMAP" \notin loc.flags
          \/ gi.cache.kind = "map" /\ "MMAP" \in loc.flags
          \/ gi.cache.kind = "heap" /\ "MMAP" \notin loc.flags /\ "MEMORY" \in loc.flags

\* What gi->cache may point to when, by gi->flags; with the failures after which
\* it is a block although the flags say mapping, or NULL although they say cache.
CacheKinds(h) ==
    /\ gi.index.kind = "null" \/ (gi.index.kind = "heap" /\ "INDEX" \in gi.flags)
    /\ pc = "delete" =>
          \/ gi.cache.kind = "null"
          \/ gi.cache.kind = "map" /\ "MMAP" \in gi.flags
          \/ gi.cache.kind = "heap" /\ "MMAP" \notin gi.flags
          \/ gi.cache.kind = "failed" /\ gi.flags = {} /\ "open_cache" \in h
    /\ pc \in Serving =>
          \/ gi.cache.kind = "null"
          \/ gi.cache.kind = "map" /\ "MMAP" \in gi.flags
          \/ gi.cache.kind = "heap" /\ "MMAP" \notin gi.flags /\ "MEMORY" \in gi.flags
          \/ /\ gi.cache.kind = "heap" /\ "MMAP" \in gi.flags /\ "reload" \in h
             /\ pc \in {"refresh", "reload"} \/ "refresh" \in h
    /\ pc \in Serving /\ gi.cache.kind = "null" /\ "MMAP" \in gi.flags =>
          pc \in {"refresh", "reload"} \/ "reload" \in h \/ gi.file = 0
    /\ pc \in {"refresh", "reload"} =>
          /\ gi.cache.kind # "map"
          /\ "MEMORY" \in gi.flags /\ "MMAP" \notin gi.flags => gi.cache.kind = "heap"
    /\ pc \in {"segments", "index"} =>
          gi.cache.kind = IF "MMAP" \in gi.flags THEN "map"
                          ELSE IF "MEMORY" \in gi.flags THEN "heap" ELSE "null"

\* What a handle may lack after which failure: its segments (1321), its FILE
\* (1276).
Lost(h) ==
    /\ pc \in Serving /\ gi.segs = Null => "segments" \in h
    /\ pc = "index" => gi.segs # Null
    /\ pc \in Serving /\ gi.file = 0 => "refresh" \in h /\ pc \in {"idle", "use"}

\* What the caller of _check_mtime read before it: the descriptor, and NULL for a
\* buffer if there was a cache; and when the cache may be gone where it is used.
Buffers(h) ==
    /\ pc \in {"check", "stat", "release", "refresh"} => loc.fno = gi.file
    /\ pc \in Serving \ {"idle", "use"} /\ loc.buf = "null" => Cached(gi.flags)
    /\ pc \in {"check", "stat", "release"} /\ loc.buf = "null" => gi.cache.kind # "null"
    /\ pc = "use" /\ loc.buf = "null" /\ gi.cache.kind = "null" =>
          "release" \in h \/ "reload" \in h \/ ~IsFile(loc.fno)

\* What is allocated and not released is what the fields of the handle lead to,
\* unless a realloc or an mmap failed in some reload.
Accounts(h, e) ==
    /\ h \subseteq e
    /\ pc # "crashed" =>
          /\ live.files = One(gi.file # 0)
          /\ "release" \notin e /\ "reload" \notin e /\ "index" \notin e =>
                 live = Owned(gi)

\* The faults that each take a failure of their own.
Blamed(h) ==
    /\ fault = "bad_free" => "open_cache" \in h
    /\ fault = "null_file" => "refresh" \in h
    /\ fault = "null_segments" => "segments" \in h
    /\ fault = "null_buf" => "release" \in h \/ "reload" \in h
    /\ fault = "bad_unmap" => {"reload", "refresh"} \subseteq h

\* The bookkeeping of a handle with the failures h since it was last whole and
\* the failures e since the program started.
Ledger(h, e) ==
    /\ Descriptors /\ Stopped /\ Opening /\ CacheKinds(h) /\ Lost(h)
    /\ Buffers(h) /\ Accounts(h, e) /\ Blamed(h)

\* What a step makes of harm.
After(h) == IF Completes \/ pc' = "closed" THEN {} ELSE h \cup NewHarm

-----------------------------------------------------------------------------
(* Every step keeps the ledger *)

\* A step adds at most its own failure to harm, and forgets nothing in ever.
LEMMA History ==
    ASSUME NEW h, NEW e, NEW k, NEW l, k = After(h), l = e \cup NewHarm
    PROVE  /\ k \subseteq h \cup NewHarm /\ NewHarm \subseteq l /\ e \subseteq l
           /\ pc' # "closed" /\ pc # "index" => k = h \cup NewHarm
BY DEF After, Completes

\* Only GeoIP_delete, and the end of a reload, make harm smaller.
LEMMA Kept ==
    ASSUME NEW h, pc' # "closed", pc # "index"
    PROVE  After(h) = h \cup NewHarm
BY DEF After, Completes

\* GeoIP_open begins with a handle of zeroes, and a FILE or nothing.
LEMMA OpenFileLedger ==
    ASSUME IInv, NEW h, NEW e, NEW k, NEW l, Ledger(h, e),
           k = After(h), l = e \cup NewHarm,
           NEW flags \in FlagChoices, OpenFile(flags)
    PROVE  Ledger(k, l)'
<1>1. /\ TypeOK /\ Frame /\ fault' = fault /\ pc = "closed" /\ gi = Zeroed
      /\ live.files = 0 /\ h \subseteq e /\ gi.file = 0
      /\ \A f \in Fd : ~IsFile(f)
  BY DEF IInv, OpenFile, Ledger, Opening, Accounts, Zeroed, One, Descriptors, IsFile, Fd
<1>2. k \subseteq l /\ e \subseteq l
  BY <1>1, History
<1>3. CASE UNCHANGED <<pc, gi, fds, live>>
  BY <1>1, <1>2, <1>3 DEF Ledger, Descriptors, Stopped, Opening, CacheKinds, Lost,
     Buffers, Accounts, Blamed, Serving, Frame, files, IsFile, Owned
<1>4. CASE /\ path # 0 /\ SomeFree
           /\ fds' = [fds EXCEPT ![LowestFree] = path]
           /\ gi' = [Zeroed EXCEPT !.file = LowestFree]
           /\ live' = [live EXCEPT !.files = @ + 1]
           /\ Goto("open_stat")
  <2>1. /\ LowestFree \in Fd /\ LowestFree # 0 /\ fds \in [Fd -> 0 .. Other]
        /\ path \in Inode /\ live \in [blocks : Int, maps : Int, files : Int]
    BY <1>1, <1>4, LowestFreeIsFd, Numbers DEF TypeOK, Fd, Inode
  <2>2. Descriptors'
    BY <1>1, <1>4, <2>1 DEF Ledger, Descriptors, IsFile, Frame, files, Zeroed, Inode
  <2>3. Stopped' /\ Opening' /\ CacheKinds(k)' /\ Lost(k)' /\ Buffers(k)' /\ Blamed(k)'
    BY <1>1, <1>4, <2>1 DEF Ledger, Stopped, Opening, CacheKinds, Lost, Buffers,
       Blamed, Serving, Zeroed, NoMem, Goto
  <2>4. Accounts(k, l)'
    BY <1>1, <1>2, <1>4, <2>1 DEF Ledger, Accounts, Owned, One, Zeroed, NoMem, Goto
  <2> QED BY <2>2, <2>3, <2>4 DEF Ledger
<1> QED BY <1>3, <1>4 DEF OpenFile

\* fstat changes no allocation.
LEMMA OpenStatLedger ==
    ASSUME IInv, NEW h, NEW e, NEW k, NEW l, Ledger(h, e),
           k = After(h), l = e \cup NewHarm, OpenStat
    PROVE  Ledger(k, l)'
<1>1. /\ TypeOK /\ Frame /\ UNCHANGED <<fds, live, answer, fault>> /\ gi \in Handles
      /\ pc = "open_stat"
  BY DEF IInv, OpenStat, TypeOK
<1>2. /\ gi'.file = gi.file /\ gi'.cache = gi.cache /\ gi'.index = gi.index
      /\ gi'.flags = gi.flags /\ gi'.segs = gi.segs
      /\ pc' \in {"delete", "open_cache"}
  BY <1>1 DEF Handles, OpenStat, Goto
<1>3. k = h \cup NewHarm /\ k \subseteq l /\ e \subseteq l
  BY <1>1, <1>2, History DEF Ledger, Accounts
<1> QED BY <1>1, <1>2, <1>3 DEF Ledger, Descriptors, Stopped, Opening, CacheKinds,
        Lost, Buffers, Accounts, Blamed, Serving, Frame, files, IsFile, Owned, NoMem

\* GeoIP_open maps the file, or allocates a block and reads the file into it.
LEMMA OpenCacheLedger ==
    ASSUME IInv, NEW h, NEW e, NEW k, NEW l, Ledger(h, e),
           k = After(h), l = e \cup NewHarm, OpenCache
    PROVE  Ledger(k, l)'
<1>1. /\ TypeOK /\ Frame /\ UNCHANGED <<fds, answer, fault>> /\ gi \in Handles
      /\ pc = "open_cache" /\ loc \in Locals
  BY DEF IInv, OpenCache, TypeOK
<1>2. /\ gi'.file = gi.file /\ gi'.index = gi.index /\ loc'.flags = loc.flags
      /\ gi'.flags = gi.flags /\ gi'.segs = gi.segs
      /\ pc' \in {"delete", "open_segments"}
  BY <1>1 DEF Handles, Locals, OpenCache, Goto
<1>3. k = h \cup NewHarm /\ k \subseteq l /\ e \subseteq l
  BY <1>1, <1>2, History DEF Ledger, Accounts
<1> DEFINE map == Map(loc.st.size, fds[gi.file])
           block == Heap(loc.st.size, ContentAt(gi.file))
<1>4. \/ gi'.cache = gi.cache /\ live' = live
         /\ (pc' = "open_segments" => "MMAP" \notin loc.flags)
      \/ gi'.cache = MapFailed /\ live' = live /\ pc' = "delete"
      \/ gi'.cache = map /\ "MMAP" \in loc.flags /\ pc' = "open_segments"
         /\ live' = [live EXCEPT !.maps = @ + 1]
      \/ gi'.cache = block /\ "MMAP" \notin loc.flags /\ "MEMORY" \in loc.flags
         /\ live' = [live EXCEPT !.blocks = @ + 1]
  <2>1. CASE "MMAP" \in loc.flags
    BY <1>1, <2>1 DEF Handles, OpenCache, Goto
  <2>2. CASE "MMAP" \notin loc.flags /\ "MEMORY" \in loc.flags
    BY <1>1, <2>2 DEF Handles, OpenCache, Goto
  <2>3. CASE loc.flags \cap {"MEMORY", "MMAP"} = {}
    BY <1>1, <2>3 DEF Handles, OpenCache, Goto
  <2> QED BY <2>1, <2>2, <2>3
<1>a. map.kind = "map" /\ block.kind = "heap" /\ MapFailed.kind = "failed"
  BY DEF Map, Heap, MapFailed, NoMem
<1> HIDE DEF map, block
<1>5. gi'.cache = MapFailed => "open_cache" \in k
  BY <1>1, <1>3, <1>a DEF NewHarm, GivesUp
<1>6. Descriptors' /\ Stopped' /\ Lost(k)' /\ Buffers(k)' /\ Blamed(k)'
  BY <1>1, <1>2, <1>3 DEF Ledger, Descriptors, IsFile, Frame, files, Stopped, Lost,
     Buffers, Blamed, Serving
<1>7. Opening' /\ CacheKinds(k)'
  BY <1>1, <1>2, <1>4, <1>5, <1>a DEF Ledger, Opening, CacheKinds, Serving, NoMem
<1>8. Accounts(k, l)'
  <2>1. gi.cache.kind = "null" /\ live \in [blocks : Int, maps : Int, files : Int]
    BY <1>1 DEF Ledger, Opening, NoMem, TypeOK
  <2>2. live'.files = live.files
    BY <1>4, <2>1
  <2> QED BY <1>1, <1>2, <1>3, <1>4, <1>a, <2>1, <2>2 DEF Ledger, Accounts, Owned, One
<1> QED BY <1>6, <1>7, <1>8 DEF Ledger

\* _setup_segments allocates the segments, and only then the handle gets its flags.
LEMMA OpenSegmentsLedger ==
    ASSUME IInv, NEW h, NEW e, NEW k, NEW l, Ledger(h, e),
           k = After(h), l = e \cup NewHarm, OpenSegments
    PROVE  Ledger(k, l)'
<1>1. /\ TypeOK /\ Frame /\ UNCHANGED <<fds, loc, answer, fault>> /\ gi \in Handles
      /\ pc = "open_segments"
  BY DEF IInv, OpenSegments, TypeOK
<1>2. PICK segs :
          /\ gi' = [gi EXCEPT !.flags = loc.flags, !.segs = segs,
                              !.recLen = RecordLength(segs)]
          /\ live' = IF segs = Null THEN live
                                    ELSE [live EXCEPT !.blocks = @ + 1]
          /\ Goto(IF segs = Null THEN "delete" ELSE "open_index")
  BY DEF OpenSegments
<1>3. /\ gi'.file = gi.file /\ gi'.cache = gi.cache /\ gi'.index = gi.index
      /\ gi'.flags = loc.flags /\ gi'.segs = segs
      /\ pc' = IF segs = Null THEN "delete" ELSE "open_index"
  BY <1>1, <1>2 DEF Handles, Goto
<1>4. k = h \cup NewHarm /\ k \subseteq l /\ e \subseteq l
  BY <1>1, <1>3, History DEF Ledger, Accounts
<1>5. Descriptors' /\ Stopped' /\ Lost(k)' /\ Buffers(k)' /\ Blamed(k)'
  BY <1>1, <1>3, <1>4 DEF Ledger, Descriptors, IsFile, Frame, files, Stopped, Lost,
     Buffers, Blamed, Serving
<1>6. Opening' /\ CacheKinds(k)'
  BY <1>1, <1>3 DEF Ledger, Opening, CacheKinds, Serving, NoMem
<1>7. Accounts(k, l)'
  BY <1>1, <1>2, <1>3, <1>4 DEF Ledger, Accounts, Opening, Owned, One, TypeOK
<1> QED BY <1>5, <1>6, <1>7 DEF Ledger

\* GeoIP_open allocates the index cache for GEOIP_INDEX_CACHE only.
LEMMA OpenIndexLedger ==
    ASSUME IInv, NEW h, NEW e, NEW k, NEW l, Ledger(h, e),
           k = After(h), l = e \cup NewHarm, OpenIndex
    PROVE  Ledger(k, l)'
<1> DEFINE idx == IndexSize(gi.segs, loc.st.size)
           block == Heap(idx, ContentAt(gi.file))
<1>1. /\ TypeOK /\ Frame /\ UNCHANGED <<fds, loc, answer, fault>> /\ gi \in Handles
      /\ pc = "open_index" /\ gi.flags = loc.flags /\ FileOpen
  BY DEF IInv, OpenIndex, TypeOK, Ledger, Opening
<1>2. /\ \/ gi' = gi /\ live' = live
         \/ /\ gi' = [gi EXCEPT !.index = block] /\ "INDEX" \in loc.flags
            /\ live' = [live EXCEPT !.blocks = @ + 1]
      /\ pc' \in {"delete", "idle"}
  BY DEF OpenIndex, Goto
<1>a. block.kind = "heap"
  BY DEF Heap
<1> HIDE DEF block
<1>3. /\ gi'.file = gi.file /\ gi'.cache = gi.cache /\ gi'.flags = gi.flags
      /\ gi'.segs = gi.segs
      /\ \/ gi'.index = gi.index /\ live' = live
         \/ /\ gi'.index.kind = "heap" /\ "INDEX" \in loc.flags
            /\ live' = [live EXCEPT !.blocks = @ + 1]
  BY <1>1, <1>2, <1>a DEF Handles
<1>4. k = h \cup NewHarm /\ k \subseteq l /\ e \subseteq l
  BY <1>1, <1>2, History DEF Ledger, Accounts
<1>5. Descriptors' /\ Stopped' /\ Lost(k)' /\ Buffers(k)' /\ Blamed(k)'
  BY <1>1, <1>2, <1>3, <1>4 DEF Ledger, Descriptors, IsFile, Frame, files, Stopped,
     Lost,
     Buffers, Blamed, Serving, Opening, FileOpen, Fd
<1>6. Opening' /\ CacheKinds(k)'
  BY <1>1, <1>2, <1>3 DEF Ledger, Opening, CacheKinds, Serving, NoMem
<1>7. Accounts(k, l)'
  BY <1>1, <1>2, <1>3, <1>4 DEF Ledger, Accounts, Opening, Owned, One, TypeOK, NoMem
<1> QED BY <1>5, <1>6, <1>7 DEF Ledger

\* GeoIP_delete releases everything the handle points to; with a cache its flags
\* do not describe, it meets the fault that goes with it.
LEMMA DeleteLedger ==
    ASSUME IInv, NEW h, NEW e, NEW k, NEW l, Ledger(h, e),
           k = After(h), l = e \cup NewHarm, Delete
    PROVE  Ledger(k, l)'
<1>1. TypeOK /\ Frame /\ pc \in {"idle", "delete"} /\ gi' = Zeroed
      /\ fds' = [f \in Fd |-> IF f = gi.file THEN Free ELSE fds[f]]
  BY DEF IInv, Delete
<1>2. k \subseteq l /\ e \subseteq l /\ h \subseteq e /\ (pc' = "crashed" =>
          h \subseteq k)
  BY <1>1, History DEF Ledger, Accounts
<1> DEFINE cached == gi.cache.kind # "null"
           mapped == "MMAP" \in gi.flags
<1>3. \/ /\ pc' = "closed" /\ fault' = fault
         /\ cached => gi.cache.kind = IF mapped THEN "map" ELSE "heap"
      \/ /\ pc' = "crashed" /\ fault' = "bad_free"
         /\ cached /\ ~mapped /\ gi.cache.kind # "heap"
      \/ /\ pc' = "crashed" /\ fault' = "bad_unmap"
         /\ cached /\ mapped /\ gi.cache.kind # "map"
  BY DEF Delete, Goto, Crash
<1>4. Descriptors'
  BY <1>1 DEF Ledger, Descriptors, IsFile, Frame, files, Zeroed, Free, Inode
<1>5. Stopped' /\ Opening' /\ CacheKinds(k)' /\ Lost(k)' /\ Buffers(k)'
  BY <1>1, <1>3 DEF Ledger, Stopped, Opening, CacheKinds, Lost, Buffers, Serving,
     Zeroed, NoMem
<1>6. Blamed(k)'
  BY <1>1, <1>2, <1>3 DEF Ledger, Stopped, CacheKinds, Blamed, Serving
<1>7. Accounts(k, l)'
  <2>1. live' = [files  |-> live.files - One(gi.file # 0),
                 maps   |-> live.maps - One(cached /\ mapped),
                 blocks |-> live.blocks - One(cached /\ ~mapped) - One(gi.segs # Null)
                                - One(gi.index.kind # "null")]
    BY DEF Delete
  <2>2. live \in [blocks : Int, maps : Int, files : Int]
    BY <1>1 DEF TypeOK
  <2>3. gi.index.kind \in {"null", "heap"}
    BY DEF Ledger, CacheKinds
  <2>4. CASE pc' = "crashed"
    BY <1>1, <1>2, <2>4 DEF Ledger, Accounts
  <2>5. CASE pc' = "closed"
    <3>1. cached => gi.cache.kind = IF mapped THEN "map" ELSE "heap"
      BY <1>3, <2>5
    <3>2. live.files = One(gi.file # 0)
          /\ (("release" \notin e /\ "reload" \notin e /\ "index" \notin e) =>
                live = Owned(gi))
      BY <1>1 DEF Ledger, Accounts
    <3> QED BY <1>1, <1>2, <2>1, <2>2, <2>3, <3>1, <3>2
            DEF Accounts, Owned, One, Zeroed, NoMem
  <2> QED BY <1>3, <2>4, <2>5
<1> QED BY <1>4, <1>5, <1>6, <1>7 DEF Ledger

\* A call reads the descriptor of the FILE, if there is one, and whether there is
\* a cache.
LEMMA BeginLedger ==
    ASSUME IInv, NEW h, NEW e, NEW k, NEW l, Ledger(h, e),
           k = After(h), l = e \cup NewHarm, NEW op \in Calls, Begin(op)
    PROVE  Ledger(k, l)'
<1>1. /\ TypeOK /\ Frame /\ UNCHANGED <<fds, gi, live>> /\ pc = "idle"
  BY DEF IInv, Begin
<1>2. \/ pc' = "crashed" /\ fault' = "null_file" /\ gi.file = 0
      \/ /\ pc' = "check" /\ fault' = fault /\ gi.file # 0 /\ loc'.fno = gi.file
         /\ loc'.buf = IF gi.cache.kind = "null" THEN "stack" ELSE "null"
  BY DEF Begin, Crash, Goto, NoLocals
<1>3. k = h \cup NewHarm /\ k \subseteq l /\ e \subseteq l
  BY <1>1, <1>2, History DEF Ledger, Accounts
<1>4. Descriptors' /\ Stopped' /\ Opening' /\ CacheKinds(k)' /\ Accounts(k, l)'
  BY <1>1, <1>2, <1>3 DEF Ledger, Descriptors, IsFile, Frame, files, Stopped, Opening,
     CacheKinds, Accounts, Owned, Serving
<1>5. Lost(k)' /\ Buffers(k)' /\ Blamed(k)'
  BY <1>1, <1>2, <1>3 DEF Ledger, Stopped, CacheKinds, Lost, Buffers, Blamed,
     Serving, Cached
<1> QED BY <1>4, <1>5 DEF Ledger

\* The check of the time allocates nothing.
LEMMA CheckTimeLedger ==
    ASSUME IInv, NEW h, NEW e, NEW k, NEW l, Ledger(h, e),
           k = After(h), l = e \cup NewHarm, CheckTime
    PROVE  Ledger(k, l)'
<1>1. TypeOK /\ Frame /\ UNCHANGED <<fds, loc, live, answer, fault>> /\ gi \in Handles
  BY DEF IInv, CheckTime, TypeOK
<1>2. /\ gi' = gi \/ gi' = [gi EXCEPT !.lastCheck = now]
      /\ pc' \in {"use", "stat"} /\ pc = "check"
  BY DEF CheckTime, Goto
<1>3. /\ gi'.file = gi.file /\ gi'.cache = gi.cache /\ gi'.index = gi.index
      /\ gi'.flags = gi.flags /\ gi'.segs = gi.segs
  BY <1>1, <1>2 DEF Handles
<1>4. k = h \cup NewHarm /\ k \subseteq l /\ e \subseteq l
  BY <1>2, History DEF Ledger, Accounts
<1> QED BY <1>1, <1>2, <1>3, <1>4 DEF Ledger, Descriptors, Stopped, Opening,
        CacheKinds, Lost, Buffers, Accounts, Blamed, Serving, Frame, files, IsFile,
        Owned

\* stat of the path allocates nothing.
LEMMA StatPathLedger ==
    ASSUME IInv, NEW h, NEW e, NEW k, NEW l, Ledger(h, e),
           k = After(h), l = e \cup NewHarm, StatPath
    PROVE  Ledger(k, l)'
<1>1. /\ TypeOK /\ Frame /\ UNCHANGED <<fds, gi, live, answer, fault>>
      /\ loc \in Locals /\ pc = "stat" /\ pc' \in {"use", "release"}
  BY DEF IInv, StatPath, TypeOK, Goto
<1>2. loc'.fno = loc.fno /\ loc'.buf = loc.buf
  BY <1>1 DEF StatPath, Locals
<1>3. k = h \cup NewHarm /\ k \subseteq l /\ e \subseteq l
  BY <1>1, History DEF Ledger, Accounts
<1>4. Descriptors' /\ Stopped' /\ Opening' /\ CacheKinds(k)' /\ Accounts(k, l)'
  BY <1>1, <1>2, <1>3 DEF Ledger, Descriptors, IsFile, Frame, files, Stopped, Opening,
     CacheKinds, Accounts, Owned, Serving
<1>5. Lost(k)' /\ Buffers(k)' /\ Blamed(k)'
  BY <1>1, <1>2, <1>3 DEF Ledger, CacheKinds, Lost, Buffers, Blamed, Serving
<1> QED BY <1>4, <1>5 DEF Ledger

\* A reload unmaps the cache, or reallocates it to the new size; a realloc that
\* fails has lost the block.
LEMMA ReleaseLedger ==
    ASSUME IInv, NEW h, NEW e, NEW k, NEW l, Ledger(h, e),
           k = After(h), l = e \cup NewHarm, ReleaseCache
    PROVE  Ledger(k, l)'
<1> DEFINE block == Heap(loc.st.size, gi.cache.holds)
           mapped == "MMAP" \in gi.flags
           inMemory == "MEMORY" \in gi.flags
<1>1. /\ TypeOK /\ Frame /\ UNCHANGED <<fds, loc, answer, fault>> /\ gi \in Handles
      /\ pc = "release" /\ pc' \in {"use", "refresh"} /\ IsFile(gi.file) /\ gi.file # 0
      /\ live \in [blocks : Int, maps : Int, files : Int]
  BY DEF IInv, ReleaseCache, TypeOK, Goto, Ledger, Lost, Serving, Descriptors
<1>a. block.kind = "heap" /\ NoMem.kind = "null"
  BY DEF Heap, NoMem
<1>2. \/ /\ pc' = "refresh" /\ ~mapped /\ ~inMemory
         /\ gi' = gi /\ live' = live
      \/ /\ pc' = "refresh" /\ mapped /\ gi.cache.kind # "null"
         /\ gi' = [gi EXCEPT !.cache = NoMem] /\ live' = [live EXCEPT !.maps = @ - 1]
      \/ /\ pc' = "use" /\ (mapped \/ inMemory) /\ (mapped => gi.cache.kind = "null")
         /\ gi' = [gi EXCEPT !.cache = NoMem]
      \/ /\ pc' = "refresh" /\ (mapped \/ inMemory) /\ (mapped =>
             gi.cache.kind = "null")
         /\ gi' = [gi EXCEPT !.cache = block]
         /\ live' = [live EXCEPT !.blocks = @ + One(gi.cache.kind = "null")]
  BY DEF ReleaseCache, Goto
<1>3. /\ gi'.file = gi.file /\ gi'.index = gi.index /\ gi'.flags = gi.flags
      /\ gi'.segs = gi.segs /\ gi'.cache \in {gi.cache, NoMem, block}
  BY <1>1, <1>2 DEF Handles
<1>4. k = h \cup NewHarm /\ k \subseteq l /\ e \subseteq l
  BY <1>1, <1>2, History DEF Ledger, Accounts
<1>5. pc' = "use" => "release" \in k
  BY <1>1, <1>4 DEF NewHarm, GivesUp
<1>6. Descriptors' /\ Stopped' /\ Opening' /\ Lost(k)' /\ Blamed(k)'
  BY <1>1, <1>2, <1>3, <1>4 DEF Ledger, Descriptors, IsFile, Frame, files, Stopped,
     Opening,
     Lost, Blamed, Serving
<1> HIDE DEF block
<1>7. gi'.cache = IF pc' = "use" THEN NoMem
                  ELSE IF ~mapped /\ ~inMemory THEN gi.cache
                  ELSE IF mapped /\ gi.cache.kind # "null" THEN NoMem ELSE block
  BY <1>1, <1>2 DEF Handles
<1>8. CacheKinds(k)'
  BY <1>1, <1>2, <1>3, <1>4, <1>5, <1>7, <1>a DEF Ledger, CacheKinds, Serving
<1>9. Buffers(k)'
  BY <1>1, <1>2, <1>3, <1>4, <1>5, <1>7, <1>a DEF Ledger, Buffers, Serving
<1>10. Accounts(k, l)'
  <2>1. h \subseteq e /\ live.files = One(gi.file # 0)
        /\ (("release" \notin e /\ "reload" \notin e /\ "index" \notin e) =>
               live = Owned(gi))
    BY <1>1 DEF Ledger, Accounts
  <2>2. live'.files = live.files
    BY <1>1 DEF ReleaseCache
  <2>3. CASE pc' = "use"
    BY <1>1, <1>3, <1>4, <1>5, <2>1, <2>2, <2>3 DEF Accounts
  <2>4. CASE pc' = "refresh"
    <3>1. "reload" \notin h =>
              gi.cache.kind = "null" \/ gi.cache.kind = IF mapped THEN "map" ELSE "heap"
      BY <1>1 DEF Ledger, CacheKinds, Serving
    <3> QED BY <1>1, <1>2, <1>3, <1>4, <1>7, <1>a, <2>1, <2>2, <2>4, <3>1
            DEF Accounts, Owned, One
  <2> QED BY <1>1, <2>3, <2>4
<1> QED BY <1>6, <1>8, <1>9, <1>10 DEF Ledger

\* freopen of the path, with the old descriptor closed first: the descriptor that
\* leads to the new file is the only one that does.
LEMMA ReopenFacts ==
    ASSUME IInv, IsFile(gi.file), path # 0, RefreshHandle, pc' = "reload"
    PROVE  /\ gi'.file \in Fd /\ gi'.file # 0 /\ path \in Inode /\ fds'[gi'.file] = path
           /\ \A f \in Fd : f # gi'.file =>
                  fds'[f] = IF f = gi.file THEN Free ELSE fds[f]
           /\ gi' = [gi EXCEPT !.file = gi'.file, !.mtime = loc.st.mtime,
                               !.size = loc.st.size]
           /\ loc' = [loc EXCEPT !.reloaded = TRUE]
<1> DEFINE closed == [fds EXCEPT ![gi.file] = Free]
           fd == CHOOSE f \in Fd : closed[f] = Free
                                   /\ \A g \in Fd : closed[g] = Free => f <= g
           S == {f \in Fd : closed[f] = Free}
<1>1. fds \in [Fd -> 0 .. Other] /\ gi.file \in Fd /\ gi \in Handles /\ path \in Inode
      /\ gi.file # 0
  BY Numbers DEF IInv, TypeOK, IsFile, Fd, Inode
<1>2. closed[gi.file] = Free /\ S \subseteq Nat /\ S # {}
  BY <1>1, Numbers DEF Fd
<1>3. PICK f \in S : \A g \in S : f <= g
  BY <1>2, LowestExists
<1>4. f \in Fd /\ closed[f] = Free /\ \A g \in Fd : closed[g] = Free => f <= g
  BY <1>3
<1>5. /\ fds' = [closed EXCEPT ![fd] = path]
      /\ gi' = [gi EXCEPT !.file = fd, !.mtime = loc.st.mtime, !.size = loc.st.size]
      /\ loc' = [loc EXCEPT !.reloaded = TRUE]
  BY <1>1 DEF RefreshHandle, Goto, Crash
<1>6. /\ closed \in [Fd -> 0 .. Other]
      /\ \A x \in Fd : closed[x] = IF x = gi.file THEN Free ELSE fds[x]
  BY <1>1, Numbers DEF Free, Other
<1> HIDE DEF closed
<1>7. fd \in Fd
  BY <1>4
<1> HIDE DEF fd
<1>8. gi'.file = fd
  BY <1>1, <1>5 DEF Handles
<1> QED BY <1>1, <1>5, <1>6, <1>7, <1>8, Numbers DEF Fd

\* A reload closes the old FILE before it opens the new one, or has none.
LEMMA RefreshLedger ==
    ASSUME IInv, NEW h, NEW e, NEW k, NEW l, Ledger(h, e),
           k = After(h), l = e \cup NewHarm, RefreshHandle
    PROVE  Ledger(k, l)'
<1>1. /\ TypeOK /\ Frame /\ UNCHANGED answer /\ gi \in Handles /\ loc \in Locals
      /\ pc = "refresh" /\ gi.file # 0 /\ IsFile(gi.file) /\ fds \in [Fd -> 0 .. Other]
      /\ live \in [blocks : Int, maps : Int, files : Int]
  BY DEF IInv, RefreshHandle, TypeOK, Ledger, Lost, Serving, Descriptors
<1>2. \/ /\ fds' = [fds EXCEPT ![gi.file] = Free]
         /\ gi' = [gi EXCEPT !.file = 0] /\ live' = [live EXCEPT !.files = @ - 1]
         /\ pc' = "use" /\ UNCHANGED <<fault, loc>>
      \/ pc' = "reload" /\ path # 0 /\ UNCHANGED <<live, fault>>
  BY <1>1 DEF RefreshHandle, Goto, Crash
<1>3. k = h \cup NewHarm /\ k \subseteq l /\ e \subseteq l
  BY <1>1, <1>2, History DEF Ledger, Accounts
<1>4. CASE pc' = "use"
  <2>1. /\ gi'.file = 0 /\ gi'.cache = gi.cache /\ gi'.index = gi.index
        /\ gi'.flags = gi.flags /\ gi'.segs = gi.segs /\ loc' = loc /\ fault' = fault
        /\ live' = [live EXCEPT !.files = @ - 1]
        /\ fds' = [fds EXCEPT ![gi.file] = Free]
    BY <1>1, <1>2, <1>4 DEF Handles
  <2>2. "refresh" \in k
    BY <1>1, <1>3, <1>4 DEF NewHarm, GivesUp
  <2>3. \A f \in Fd : ~IsFile(f)'
    BY <1>1, <2>1 DEF Ledger, Descriptors, IsFile, Free, Inode
  <2>4. Descriptors' /\ Stopped' /\ Opening' /\ Lost(k)' /\ Blamed(k)'
    BY <1>1, <1>3, <1>4, <2>1, <2>2, <2>3 DEF Ledger, Descriptors, Frame, files,
       Stopped,
       Opening, Lost, Blamed, Serving
  <2>5. CacheKinds(k)'
    BY <1>1, <1>3, <1>4, <2>1, <2>2 DEF Ledger, CacheKinds, Serving
  <2>6. Buffers(k)'
    BY <1>1, <1>3, <1>4, <2>1, <2>3 DEF Ledger, Buffers, Serving, IsFile
  <2>7. Accounts(k, l)'
    BY <1>1, <1>3, <1>4, <2>1 DEF Ledger, Accounts, Owned, One
  <2> QED BY <2>4, <2>5, <2>6, <2>7 DEF Ledger
<1>5. CASE pc' = "reload"
  <2>1. /\ gi'.file \in Fd /\ gi'.file # 0 /\ path \in Inode /\ fds'[gi'.file] = path
        /\ \A f \in Fd : f # gi'.file => fds'[f] = IF f = gi.file THEN Free ELSE fds[f]
        /\ gi'.cache = gi.cache /\ gi'.index = gi.index
        /\ gi'.flags = gi.flags /\ gi'.segs = gi.segs
        /\ loc'.buf = loc.buf /\ live' = live /\ fault' = fault
    BY <1>1, <1>2, <1>5, ReopenFacts DEF Handles, Locals
  <2>2. Descriptors'
    BY <1>1, <2>1 DEF Ledger, Descriptors, IsFile, Frame, files, Free, Inode
  <2>3. Stopped' /\ Opening' /\ Lost(k)' /\ Blamed(k)'
    BY <1>1, <1>3, <1>5, <2>1 DEF Ledger, Stopped, Opening, Lost, Blamed, Serving
  <2>4. CacheKinds(k)' /\ Buffers(k)'
    BY <1>1, <1>3, <1>5, <2>1 DEF Ledger, CacheKinds, Buffers, Serving
  <2>5. Accounts(k, l)'
    BY <1>1, <1>3, <1>5, <2>1 DEF Ledger, Accounts, Owned, One
  <2> QED BY <2>2, <2>3, <2>4, <2>5 DEF Ledger
<1> QED BY <1>2, <1>4, <1>5

\* A reload maps or reads the new file.
LEMMA ReloadCacheLedger ==
    ASSUME IInv, NEW h, NEW e, NEW k, NEW l, Ledger(h, e),
           k = After(h), l = e \cup NewHarm, ReloadCache
    PROVE  Ledger(k, l)'
<1> DEFINE map == Map(loc.st.size, fds[gi.file])
           mapped == "MMAP" \in gi.flags
           inMemory == "MEMORY" \in gi.flags
<1>1. /\ TypeOK /\ Frame /\ UNCHANGED <<fds, loc, answer, fault>> /\ gi \in Handles
      /\ pc = "reload" /\ pc' \in {"use", "segments"} /\ IsFile(gi.file) /\ gi.file # 0
      /\ live \in [blocks : Int, maps : Int, files : Int]
  BY DEF IInv, ReloadCache, TypeOK, Goto, Ledger, Lost, Serving, Descriptors
<1>2. /\ gi'.file = gi.file /\ gi'.index = gi.index /\ gi'.flags = gi.flags
      /\ gi'.segs = gi.segs
      /\ \/ mapped /\ pc' = "use" /\ gi'.cache = NoMem /\ live' = live
         \/ mapped /\ pc' = "segments" /\ gi'.cache = map
            /\ live' = [live EXCEPT !.maps = @ + 1]
         \/ ~mapped /\ inMemory /\ live' = live /\ gi'.cache.kind = gi.cache.kind
         \/ ~mapped /\ ~inMemory /\ pc' = "segments" /\ live' = live
            /\ gi'.cache = gi.cache
  <2>1. CASE mapped
    BY <1>1, <2>1 DEF ReloadCache, Goto, Handles
  <2>2. CASE ~mapped /\ inMemory
    <3>1. \E v : gi' = [gi EXCEPT !.cache.holds = v]
      BY <2>2 DEF ReloadCache
    <3>2. gi.cache \in Memory
      BY <1>1 DEF Handles
    <3>3. live' = live
      BY <2>2 DEF ReloadCache
    <3> QED BY <1>1, <2>2, <3>1, <3>2, <3>3 DEF Handles, Memory
  <2>3. CASE ~mapped /\ ~inMemory
    BY <1>1, <2>3 DEF ReloadCache, Goto
  <2> QED BY <2>1, <2>2, <2>3
<1>a. map.kind = "map" /\ NoMem.kind = "null"
  BY DEF Map, NoMem
<1> HIDE DEF map
<1>3. k = h \cup NewHarm /\ k \subseteq l /\ e \subseteq l
  BY <1>1, History DEF Ledger, Accounts
<1>4. pc' = "use" => "reload" \in k
  BY <1>1, <1>3 DEF NewHarm, GivesUp
<1>5. Descriptors' /\ Stopped' /\ Opening' /\ Lost(k)' /\ Blamed(k)'
  BY <1>1, <1>2, <1>3 DEF Ledger, Descriptors, IsFile, Frame, files, Stopped, Opening,
     Lost, Blamed, Serving
<1>6. inMemory \/ mapped \/ gi.cache.kind = "null"
  BY <1>1 DEF Ledger, CacheKinds, Serving
<1>7. CacheKinds(k)'
  BY <1>1, <1>2, <1>3, <1>4, <1>a DEF Ledger, CacheKinds, Serving
<1>8. Buffers(k)'
  BY <1>1, <1>2, <1>3, <1>4, <1>a DEF Ledger, Buffers, Serving
<1>9. Accounts(k, l)'
  BY <1>1, <1>2, <1>3, <1>4, <1>a DEF Ledger, Accounts, CacheKinds, Owned, One, Serving
<1> QED BY <1>5, <1>7, <1>8, <1>9 DEF Ledger

\* A reload frees the old segments and has new ones, or none.
LEMMA ReloadSegmentsLedger ==
    ASSUME IInv, NEW h, NEW e, NEW k, NEW l, Ledger(h, e),
           k = After(h), l = e \cup NewHarm, ReloadSegments
    PROVE  Ledger(k, l)'
<1>1. /\ TypeOK /\ Frame /\ UNCHANGED <<fds, loc, answer, fault>> /\ gi \in Handles
      /\ pc = "segments" /\ IsFile(gi.file) /\ gi.file # 0
      /\ live \in [blocks : Int, maps : Int, files : Int]
  BY DEF IInv, ReloadSegments, TypeOK, Ledger, Lost, Serving, Descriptors
<1>2. PICK segs :
          /\ gi' = [gi EXCEPT !.segs = segs, !.recLen = RecordLength(segs)]
          /\ live' = [live EXCEPT !.blocks =
                        @ - One(gi.segs # Null) + One(segs # Null)]
          /\ Goto(IF segs = Null THEN "use" ELSE "index")
  BY DEF ReloadSegments
<1>3. /\ gi'.file = gi.file /\ gi'.cache = gi.cache /\ gi'.index = gi.index
      /\ gi'.flags = gi.flags /\ gi'.segs = segs
      /\ pc' = IF segs = Null THEN "use" ELSE "index"
  BY <1>1, <1>2 DEF Handles, Goto
<1>4. k = h \cup NewHarm /\ k \subseteq l /\ e \subseteq l
  BY <1>1, <1>3, History DEF Ledger, Accounts
<1>5. pc' = "use" => "segments" \in k
  BY <1>1, <1>4 DEF NewHarm, GivesUp
<1>6. Descriptors' /\ Stopped' /\ Opening' /\ Lost(k)' /\ Blamed(k)'
  BY <1>1, <1>3, <1>4, <1>5 DEF Ledger, Descriptors, IsFile, Frame, files, Stopped,
     Opening,
     Lost, Blamed, Serving
<1>7. CacheKinds(k)' /\ Buffers(k)'
  BY <1>1, <1>3, <1>4 DEF Ledger, CacheKinds, Buffers, Serving, Cached
<1>8. Accounts(k, l)'
  BY <1>1, <1>2, <1>3, <1>4 DEF Ledger, Accounts, Owned, One
<1> QED BY <1>6, <1>7, <1>8 DEF Ledger

\* A reload reallocates the index cache; a realloc that fails has lost it.
LEMMA ReloadIndexLedger ==
    ASSUME IInv, NEW h, NEW e, NEW k, NEW l, Ledger(h, e),
           k = After(h), l = e \cup NewHarm, ReloadIndex
    PROVE  Ledger(k, l)'
<1> DEFINE idx == IndexSize(gi.segs, loc.st.size)
           c == ContentAt(gi.file)
<1>1. /\ TypeOK /\ Frame /\ UNCHANGED <<fds, loc, answer, fault>> /\ gi \in Handles
      /\ pc = "index" /\ pc' = "use" /\ IsFile(gi.file) /\ gi.file # 0
      /\ live \in [blocks : Int, maps : Int, files : Int] /\ gi.segs # Null
  BY DEF IInv, ReloadIndex, TypeOK, Goto, Ledger, Lost, Serving, Descriptors
<1>2. /\ gi'.file = gi.file /\ gi'.cache = gi.cache /\ gi'.flags = gi.flags
      /\ gi'.segs = gi.segs
      /\ \/ gi' = gi /\ live' = live
         \/ gi'.index.kind = "null" /\ live' = live
            /\ gi'.index = NoMem /\ "INDEX" \in gi.flags
         \/ gi'.index.kind = "heap" /\ "INDEX" \in gi.flags
            /\ live' = [live EXCEPT !.blocks = @ + One(gi.index.kind = "null")]
  <2>1. \/ gi' = gi /\ live' = live
        \/ gi' = [gi EXCEPT !.index = NoMem] /\ live' = live /\ "INDEX" \in gi.flags
        \/ /\ \E v : gi' = [gi EXCEPT !.index = Heap(idx, v)]
           /\ "INDEX" \in gi.flags
           /\ live' = [live EXCEPT !.blocks = @ + One(gi.index.kind = "null")]
    BY DEF ReloadIndex
  <2>2. \A v : Heap(idx, v).kind = "heap"
    BY DEF Heap
  <2> HIDE DEF idx
  <2> QED BY <1>1, <2>1, <2>2 DEF Handles, NoMem
<1> HIDE DEF idx
<1>3. k \subseteq l /\ NewHarm \subseteq l /\ e \subseteq l /\ h \subseteq e
      /\ k \subseteq h \cup NewHarm
  BY History DEF Ledger, Accounts
<1>4. gi'.index.kind = "null" /\ gi.index.kind = "heap" => "index" \in l
  BY <1>1, <1>2, <1>3 DEF NewHarm, IndexLost, IndexFilled, Heap, NoMem
<1>5. Descriptors' /\ Stopped' /\ Opening' /\ Lost(k)' /\ Blamed(k)'
  BY <1>1, <1>2, <1>3 DEF Ledger, Descriptors, IsFile, Frame, files, Stopped, Opening,
     Lost, Blamed, Serving
<1>6. CacheKinds(k)'
  BY <1>1, <1>2, <1>3 DEF Ledger, CacheKinds, Serving
<1>7. Buffers(k)'
  BY <1>1, <1>2, <1>3 DEF Ledger, CacheKinds, Buffers, Serving, Cached
<1>8. Accounts(k, l)'
  <2>1. k \subseteq l
    BY <1>3
  <2>2. live'.files = One(gi'.file # 0)
    BY <1>1, <1>2 DEF Ledger, Accounts
  <2>3. ASSUME "release" \notin l, "reload" \notin l, "index" \notin l
        PROVE  live' = Owned(gi')
    <3>1. live = Owned(gi) /\ gi.index.kind \in {"null", "heap"}
      BY <1>1, <1>3, <2>3 DEF Ledger, Accounts, CacheKinds
    <3> QED BY <1>1, <1>2, <1>4, <2>3, <3>1 DEF Owned, One
  <2> QED BY <1>1, <2>1, <2>2, <2>3 DEF Accounts
<1> QED BY <1>5, <1>6, <1>7, <1>8 DEF Ledger

\* A lookup changes nothing of the handle, and meets a fault only without
\* segments, without a buffer, or behind the end of what it reads from.
LEMMA LookupOutcomes ==
    ASSUME Lookup
    PROVE  /\ Frame /\ UNCHANGED <<fds, gi, loc, live>> /\ pc = "use"
           /\ \/ pc' = "idle" /\ fault' = fault
              \/ pc' = "crashed" /\ fault' = "overrun"
              \/ pc' = "crashed" /\ fault' = "null_segments" /\ gi.segs = Null
              \/ /\ pc' = "crashed" /\ fault' = "null_buf"
                 /\ loc.buf = "null" /\ gi.cache.kind = "null" /\ IsFile(loc.fno)
<1>1. \A c : Walked(c) =>
          \/ pc' = "idle" /\ fault' = fault
          \/ pc' = "crashed" /\ fault' = "null_segments" /\ gi.segs = Null
  BY DEF Walked, Return, Crash, Goto
<1>2. \A m : WalkMemory(m) =>
          \/ pc' = "idle" /\ fault' = fault
          \/ pc' = "crashed" /\ fault' = "overrun"
          \/ pc' = "crashed" /\ fault' = "null_segments" /\ gi.segs = Null
  BY <1>1 DEF WalkMemory, Crash
<1>3. WalkFile =>
          \/ pc' = "idle" /\ fault' = fault
          \/ pc' = "crashed" /\ fault' = "null_segments" /\ gi.segs = Null
          \/ pc' = "crashed" /\ fault' = "null_buf" /\ loc.buf = "null"
               /\ IsFile(loc.fno)
  BY <1>1 DEF WalkFile, Crash, Return, Goto
<1> QED BY <1>2, <1>3 DEF Lookup, Return, Goto

\* A lookup keeps the ledger.
LEMMA LookupLedger ==
    ASSUME IInv, NEW h, NEW e, NEW k, NEW l, Ledger(h, e),
           k = After(h), l = e \cup NewHarm, Lookup
    PROVE  Ledger(k, l)'
<1>1. /\ Frame /\ UNCHANGED <<fds, gi, loc, live>> /\ pc = "use"
      /\ \/ pc' = "idle" /\ fault' = fault
         \/ pc' = "crashed" /\ fault' = "overrun"
         \/ pc' = "crashed" /\ fault' = "null_segments" /\ gi.segs = Null
         \/ /\ pc' = "crashed" /\ fault' = "null_buf"
            /\ loc.buf = "null" /\ gi.cache.kind = "null" /\ IsFile(loc.fno)
  BY LookupOutcomes
<1>2. k = h \cup NewHarm /\ k \subseteq l /\ e \subseteq l
  BY <1>1, History DEF Ledger, Accounts
<1>3. Descriptors' /\ Stopped' /\ Opening' /\ CacheKinds(k)' /\ Accounts(k, l)'
  BY <1>1, <1>2 DEF Ledger, Descriptors, IsFile, Frame, files, Stopped, Opening,
     CacheKinds, Accounts, Owned, Serving
<1>4. Lost(k)' /\ Buffers(k)'
  BY <1>1, <1>2 DEF Ledger, Lost, Buffers, Serving
<1>5. Blamed(k)'
  BY <1>1, <1>2 DEF Ledger, Stopped, Lost, Buffers, Blamed, Serving
<1> QED BY <1>3, <1>4, <1>5 DEF Ledger

\* GeoIP_database_info keeps the ledger.
LEMMA DatabaseInfoLedger ==
    ASSUME IInv, NEW h, NEW e, NEW k, NEW l, Ledger(h, e),
           k = After(h), l = e \cup NewHarm, DatabaseInfo
    PROVE  Ledger(k, l)'
<1>1. /\ Frame /\ UNCHANGED <<fds, gi, loc, live, fault>> /\ pc = "use" /\ pc' = "idle"
  BY DEF DatabaseInfo, Return, Goto
<1>2. k = h \cup NewHarm /\ k \subseteq l /\ e \subseteq l
  BY <1>1, History DEF Ledger, Accounts
<1> QED BY <1>1, <1>2 DEF Ledger, Descriptors, Stopped, Opening, CacheKinds, Lost,
        Buffers, Accounts, Blamed, Serving, Frame, files, IsFile, Owned

\* Whatever the updater, the clock and the rest of the program do, the handle, its
\* descriptor and the inode behind that stay.
LEMMA Outside ==
    ASSUME IInv, Descriptors, Environment
    PROVE  /\ Library /\ path' <= made'
           /\ \A f : IsFile(f)' = IsFile(f)
           /\ \A f : IsFile(f) => fds'[f] = fds[f]
           /\ made <= made' /\ made' \in Nat
           /\ loc' = loc \/ loc' = [loc EXCEPT !.due = Null]
<1>1. path \in 0 .. MaxInode /\ made \in 0 .. MaxInode /\ path <= made
      /\ fds \in [Fd -> 0 .. Other]
  BY DEF IInv, TypeOK, Descriptors
<1>2. Free \notin Inode /\ Other \notin Inode
  BY Numbers DEF Free, Other, Inode
<1>3. CASE UNCHANGED fds
  <2>1. \/ path' \in {path, 0} /\ made' = made
        \/ path' = made + 1 /\ made' = made + 1
    BY <1>2, <1>3 DEF Environment, Replace, Unlink, BeginRewrite, EndRewrite, Tick,
       OtherOpen, OtherClose, Frame, files
  <2>2. Library /\ (loc' = loc \/ loc' = [loc EXCEPT !.due = Null])
    BY DEF Environment, Replace, Unlink, BeginRewrite, EndRewrite, Tick,
       OtherOpen, OtherClose
  <2>3. path' <= made' /\ made <= made' /\ made' \in Nat
    BY <1>1, <2>1, Numbers
  <2> QED BY <1>3, <2>2, <2>3 DEF IsFile
<1>4. CASE OtherOpen
  <2>1. SomeFree /\ Frame /\ Library /\ loc' = loc
        /\ fds' = [fds EXCEPT ![LowestFree] = Other]
    BY <1>4 DEF OtherOpen
  <2> DEFINE S == {f \in Fd : fds[f] = Free}
  <2>a. S \subseteq Nat /\ S # {}
    BY <2>1, Numbers DEF SomeFree, Fd
  <2>2. PICK f \in S : \A g \in S : f <= g
    BY <2>a, LowestExists
  <2>b. f \in Fd /\ fds[f] = Free /\ \A g \in Fd : fds[g] = Free => f <= g
    BY <2>2
  <2>3. LowestFree \in Fd /\ fds[LowestFree] = Free
    BY <2>b DEF LowestFree
  <2> QED BY <1>1, <1>2, <2>1, <2>3, Numbers DEF IsFile, Frame, files
<1>5. ASSUME NEW f \in Fd, OtherClose(f)
      PROVE  /\ \A g : IsFile(g)' = IsFile(g)
             /\ \A g : IsFile(g) => fds'[g] = fds[g]
             /\ Library /\ loc' = loc /\ UNCHANGED <<path, made>>
  <2>1. fds[f] = Other /\ fds' = [fds EXCEPT ![f] = Free]
    BY <1>5 DEF OtherClose
  <2> QED BY <1>1, <1>2, <1>5, <2>1 DEF OtherClose, IsFile, Frame, files
<1>6. CASE \E f \in Fd : OtherClose(f)
  BY <1>1, <1>5, <1>6, Numbers
<1> QED BY <1>3, <1>4, <1>6 DEF Environment, Replace, Unlink, BeginRewrite,
        EndRewrite, Tick

\* The environment keeps the ledger.
LEMMA EnvironmentLedger ==
    ASSUME IInv, NEW h, NEW e, NEW k, NEW l, Ledger(h, e),
           k = After(h), l = e \cup NewHarm, Environment
    PROVE  Ledger(k, l)'
<1>1. /\ UNCHANGED <<gi, pc, live, answer, fault>> /\ path' <= made'
      /\ \A f : IsFile(f)' = IsFile(f)
      /\ \A f : IsFile(f) => fds'[f] = fds[f]
      /\ made <= made' /\ made' \in Nat
      /\ loc' = loc \/ loc' = [loc EXCEPT !.due = Null]
  BY Outside DEF Ledger, Library
<1>2. loc'.fno = loc.fno /\ loc'.buf = loc.buf /\ loc'.flags = loc.flags
      /\ loc'.pair = loc.pair
  BY <1>1 DEF IInv, TypeOK, Locals
<1>3. k \subseteq l /\ (pc # "closed" =>
          k = h \cup NewHarm) /\ h \subseteq e /\ e \subseteq l
  BY <1>1, History DEF Ledger, Accounts, After, Completes
<1>4. Descriptors'
  <2>1. fds \in [Fd -> 0 .. Other] /\ made \in Nat
    BY Numbers DEF IInv, TypeOK
  <2>2. ASSUME NEW f \in Fd, IsFile(f)' PROVE (f = gi.file /\ fds[f] <= made)'
    <3>1. f = gi.file /\ fds[f] <= made /\ fds'[f] = fds[f] /\ fds[f] \in Nat
      BY <1>1, <2>1, <2>2, Numbers DEF Ledger, Descriptors, Other
    <3> QED BY <1>1, <2>1, <3>1
  <2> QED BY <1>1, <2>2 DEF Ledger, Descriptors
<1>5. Stopped' /\ Opening' /\ CacheKinds(k)' /\ Lost(k)' /\ Accounts(k, l)'
  BY <1>1, <1>2, <1>3 DEF Ledger, Stopped, Opening, CacheKinds, Lost, Accounts,
     Owned, Serving
<1>6. Buffers(k)' /\ Blamed(k)'
  BY <1>1, <1>2, <1>3 DEF Ledger, Stopped, Buffers, Blamed, Serving
<1> QED BY <1>4, <1>5, <1>6 DEF Ledger

\* Every step keeps the ledger.
LEMMA StepLedger ==
    ASSUME IInv, NEW h, NEW e, NEW k, NEW l, Ledger(h, e),
           k = After(h), l = e \cup NewHarm, Next
    PROVE  Ledger(k, l)'
<1>1. CASE Environment
  BY <1>1, EnvironmentLedger
<1>2. CASE Step
  BY <1>2, OpenStatLedger, OpenCacheLedger, OpenSegmentsLedger, OpenIndexLedger,
     DeleteLedger, CheckTimeLedger, StatPathLedger, ReleaseLedger, RefreshLedger,
     ReloadCacheLedger, ReloadSegmentsLedger, ReloadIndexLedger, LookupLedger,
     DatabaseInfoLedger DEF Step
<1>3. CASE Program
  BY <1>3, OpenFileLedger, BeginLedger, DeleteLedger DEF Program, BeginCall
<1> QED BY <1>1, <1>2, <1>3 DEF Next

\* The ledger of a program that has opened nothing.
LEMMA InitLedger == Init => Ledger({}, {})
<1> SUFFICES ASSUME Init PROVE Ledger({}, {})
  OBVIOUS
<1>1. \A f : ~IsFile(f)
  BY DEF Init, IsFile, Free, Inode
<1> QED BY <1>1 DEF Init, Ledger, Descriptors, Stopped, Opening, CacheKinds, Lost,
        Buffers,
        Accounts, Blamed, Serving, Zeroed, NoMem, Owned, One

\* The inductive invariant of the bookkeeping.
Booked == IInv /\ Ledger(harm, ever)

\* It is inductive.
LEMMA HNextBooked == Booked /\ [HNext]_hvars => Booked'
<1> SUFFICES ASSUME Booked, [HNext]_hvars PROVE Booked'
  OBVIOUS
<1>1. CASE HNext
  <2>1. Next /\ harm' = After(harm) /\ ever' = ever \cup NewHarm
    BY <1>1 DEF HNext, After
  <2>2. IInv'
    BY <2>1, StepIInv DEF Booked
  <2>3. \A h, e, k, l : Ledger(h, e) /\ k = After(h) /\ l = e \cup NewHarm =>
            Ledger(k, l)'
    BY <2>1, StepLedger DEF Booked
  <2>4. PICK h, e, k, l : h = harm /\ e = ever /\ k = harm' /\ l = ever'
    OBVIOUS
  <2>5. Ledger(h, e)
    BY <2>4 DEF Booked
  <2>6. Ledger(k, l)'
    BY <2>1, <2>3, <2>4, <2>5
  <2>7. Ledger(harm, ever)'
    BY <2>4, <2>6 DEF Ledger, CacheKinds, Lost, Buffers, Accounts, Blamed
  <2> QED BY <2>2, <2>7 DEF Booked
<1>2. CASE UNCHANGED hvars
  <2>1. UNCHANGED vars /\ harm' = harm /\ ever' = ever
    BY <1>2 DEF hvars
  <2>2. IInv'
    BY <2>1, StepIInv DEF Booked
  <2>3. Ledger(harm, ever)'
    BY <2>1 DEF Booked, vars, Ledger, Descriptors, Stopped, Opening, CacheKinds, Lost,
       Buffers, Accounts, Blamed, IsFile, Owned
  <2> QED BY <2>2, <2>3 DEF Booked
<1> QED BY <1>1, <1>2

\* For any failures, contents and updates, at any moment, the bookkeeping holds.
THEOREM BookedHolds == HSpec => []Booked
<1>1. HInit => Booked
  BY InitIInv, InitLedger DEF HInit, Booked
<1> QED BY <1>1, HNextBooked, PTL DEF HSpec

\* One descriptor of the process leads to a database file if the handle has a
\* FILE, and none if not.
LEMMA FilesCounted ==
    ASSUME IInv, Descriptors
    PROVE  Cardinality({f \in Fd : IsFile(f)}) = One(gi.file # 0)
<1>1. CASE gi.file = 0
  <2>1. {f \in Fd : IsFile(f)} = {}
    BY <1>1, Numbers DEF Descriptors, Fd
  <2> QED BY <1>1, <2>1, FS_EmptySet DEF One
<1>2. CASE gi.file # 0
  <2>1. {f \in Fd : IsFile(f)} = {gi.file}
    BY <1>2 DEF Descriptors, IsFile
  <2> QED BY <1>2, <2>1, FS_Singleton DEF One
<1> QED BY <1>1, <1>2

\* For any failures, contents and updates, in the middle of a reload too: between
\* calls a FILE is never lost, and blocks and mappings are only lost after a
\* realloc or an mmap of a reload that failed (1264, 1284, 1331).
THEOREM LeaksCaused == HSpec => []LeaksHaveACause
<1>1. Booked => LeaksHaveACause
  BY FilesCounted DEF LeaksHaveACause, Booked, Ledger, Accounts, Owned
<1> QED BY <1>1, BookedHolds, PTL

-----------------------------------------------------------------------------
(* Contents: every part of a handle comes from one version of its file *)

\* The cache, if there is one, holds content c from its first to its last byte.
CacheOf(c) ==
    gi.cache.kind # "null" =>
        /\ gi.cache.kind \in {"heap", "map"}
        /\ gi.cache.len = c.size
        /\ gi.cache.kind = "map" => gi.cache.inode = fds[gi.file]
        /\ gi.cache.kind = "heap" => gi.cache.holds = c

\* The index cache, if there is one, holds the index of content c.
IndexOf(c) == gi.index.kind # "null" => gi.index = Heap(IndexSize(c, c.size), c)

\* Segments, record length and size are those of content c.
SegmentsOf(c) == gi.segs = c /\ gi.recLen = c.recLen /\ gi.size = c.size /\ c.sound

\* Every part of the handle comes from the file it has open.
OnePiece ==
    /\ IsFile(gi.file)
    /\ SegmentsOf(ContentAt(gi.file))
    /\ CacheOf(ContentAt(gi.file))
    /\ IndexOf(ContentAt(gi.file))

\* How far an open or a reload has got: the size it has stat'ed is that of the
\* file it opens, what it has loaded is of this file; and outside of it a handle
\* without harm is in one piece.
Pieces(h) ==
    /\ pc \in {"release", "refresh"} => path # 0 /\ loc.st.size = disk[path].c.size
    /\ pc \in {"open_cache", "open_segments", "open_index",
               "reload", "segments", "index"} =>
          gi.size = loc.st.size /\ gi.size = ContentAt(gi.file).size
    /\ pc \in {"refresh", "reload"} /\ gi.cache.kind = "heap" =>
          gi.cache.len = loc.st.size
    /\ pc \in {"open_segments", "open_index", "segments", "index"} =>
          CacheOf(ContentAt(gi.file))
    /\ pc \in {"open_index", "index"} => SegmentsOf(ContentAt(gi.file))
    /\ pc \in {"idle", "check", "stat", "release", "use"} /\ h = {} => OnePiece

-----------------------------------------------------------------------------
(* Every step keeps the pieces together *)

\* Up to its fstat GeoIP_open knows nothing, then the size.
LEMMA OpenPieces ==
    ASSUME IInv, NEW h, NEW e, NEW k, Ledger(h, e), Pieces(h), k = After(h),
           \/ \E flags \in FlagChoices : OpenFile(flags)
           \/ OpenStat \/ Delete
    PROVE  Pieces(k)'
<1>1. CASE \E flags \in FlagChoices : OpenFile(flags)
  BY <1>1 DEF OpenFile, Pieces, Goto
<1>2. CASE Delete
  BY <1>2 DEF Delete, Pieces, Goto, Crash
<1>3. CASE OpenStat
  <2>1. /\ Frame /\ fds' = fds /\ pc = "open_stat" /\ gi \in Handles /\ loc \in Locals
        /\ IsFile(gi.file)
    BY <1>3 DEF IInv, TypeOK, OpenStat, FileOpen
  <2>2. \/ pc' = "delete"
        \/ /\ pc' = "open_cache"
           /\ loc' = [loc EXCEPT !.st = Stat(fds[gi.file])]
           /\ gi' = [gi EXCEPT !.size = Stat(fds[gi.file]).size]
    BY <1>3 DEF OpenStat, Goto
  <2>3. pc' = "open_cache" =>
          gi'.file = gi.file /\ gi'.size = loc'.st.size
            /\ gi'.size = ContentAt(gi.file).size
    BY <2>1, <2>2 DEF Handles, Locals, Stat, ContentAt
  <2> QED BY <2>1, <2>2, <2>3 DEF Pieces, ContentAt, Frame, files
<1> QED BY <1>1, <1>2, <1>3

\* The cache GeoIP_open fills is of the size and contents of its file.
LEMMA OpenCachePieces ==
    ASSUME IInv, NEW h, NEW e, NEW k, Ledger(h, e), Pieces(h), k = After(h), OpenCache
    PROVE  Pieces(k)'
<1> DEFINE c == ContentAt(gi.file)
           n == loc.st.size
           map == Map(n, fds[gi.file])
           block == Heap(n, c)
<1>1. /\ Frame /\ fds' = fds /\ gi \in Handles /\ loc \in Locals
      /\ pc = "open_cache" /\ pc' \in {"delete", "open_segments"}
      /\ gi.size = n /\ n = c.size /\ gi.cache = NoMem
  BY DEF IInv, TypeOK, OpenCache, Goto, Pieces, Ledger, Opening
<1>2. pc' = "open_segments" =>
        /\ gi'.file = gi.file /\ gi'.size = gi.size
        /\ gi'.cache \in {NoMem, map, block}
        /\ loc'.st.size = n
  <2>1. CASE "MMAP" \in loc.flags
    BY <1>1, <2>1 DEF OpenCache, Goto, Handles
  <2>2. CASE "MMAP" \notin loc.flags /\ "MEMORY" \in loc.flags
    BY <1>1, <2>2 DEF OpenCache, Goto, Handles
  <2>3. CASE loc.flags \cap {"MEMORY", "MMAP"} = {}
    BY <1>1, <2>3 DEF OpenCache, Goto, Handles, Locals, Stat, ContentAt
  <2> QED BY <2>1, <2>2, <2>3
<1>3. /\ map.kind = "map" /\ map.len = n /\ map.inode = fds[gi.file]
      /\ block.kind = "heap" /\ block.len = n /\ block.holds = c
      /\ NoMem.kind = "null"
  BY DEF Map, Heap, NoMem
<1>4. pc' = "open_segments" => c' = c
  BY <1>1, <1>2 DEF ContentAt, Frame, files
<1> HIDE DEF c, map, block
<1>5. pc' = "open_segments" => CacheOf(c)'
  BY <1>1, <1>2, <1>3, <1>4 DEF CacheOf
<1> QED BY <1>1, <1>2, <1>4, <1>5 DEF Pieces, c

\* Where the whole of a content is read, the segments found are its own.
LEMMA FoundHere ==
    ASSUME NEW c \in Content, SegmentsFound(c, c.size) # Null
    PROVE  SegmentsFound(c, c.size) = c /\ c.sound /\ RecordLength(c) = c.recLen
BY ContentFacts DEF SegmentsFound, RecordLength

\* The segments GeoIP_open finds are those of its file.
LEMMA OpenSegmentsPieces ==
    ASSUME IInv, NEW h, NEW e, NEW k, Ledger(h, e), Pieces(h), k = After(h),
           OpenSegments
    PROVE  Pieces(k)'
<1> DEFINE c == ContentAt(gi.file)
<1>1. /\ Frame /\ fds' = fds /\ loc' = loc /\ gi \in Handles /\ pc = "open_segments"
      /\ c \in Content /\ gi.size = loc.st.size /\ gi.size = c.size /\ CacheOf(c)
  BY FileFacts DEF IInv, TypeOK, OpenSegments, Pieces, FileOpen
<1>2. PICK segs \in {SegmentsFound(c, c.size), Null} :
          /\ gi' = [gi EXCEPT !.flags = loc.flags, !.segs = segs,
                              !.recLen = RecordLength(segs)]
          /\ pc' = IF segs = Null THEN "delete" ELSE "open_index"
  BY <1>1 DEF OpenSegments, Goto
<1>3. gi'.file = gi.file /\ gi'.size = gi.size /\ gi'.cache = gi.cache
      /\ gi'.segs = segs /\ gi'.recLen = RecordLength(segs)
  BY <1>1, <1>2 DEF Handles
<1>4. c' = c
  BY <1>1, <1>3 DEF ContentAt, Frame, files
<1>5. segs # Null => segs = c /\ c.sound /\ RecordLength(c) = c.recLen
  BY <1>1, <1>2, FoundHere
<1> HIDE DEF c
<1>6. pc' = "open_index" => CacheOf(c)' /\ SegmentsOf(c)'
  BY <1>1, <1>2, <1>3, <1>4, <1>5 DEF CacheOf, SegmentsOf
<1> QED BY <1>1, <1>2, <1>3, <1>4, <1>6 DEF Pieces, c

\* GeoIP_open returns a handle in one piece.
LEMMA OpenIndexPieces ==
    ASSUME IInv, NEW h, NEW e, NEW k, Ledger(h, e), Pieces(h), k = After(h), OpenIndex
    PROVE  Pieces(k)'
<1> DEFINE c == ContentAt(gi.file)
           block == Heap(IndexSize(gi.segs, loc.st.size), c)
<1>1. /\ Frame /\ fds' = fds /\ loc' = loc /\ gi \in Handles /\ pc = "open_index"
      /\ IsFile(gi.file) /\ gi.size = loc.st.size /\ CacheOf(c) /\ SegmentsOf(c)
      /\ gi.index = NoMem /\ pc' \in {"delete", "idle"}
  BY DEF IInv, TypeOK, OpenIndex, Pieces, Ledger, Opening, Goto, FileOpen
<1>2. gi' = gi \/ gi' = [gi EXCEPT !.index = block]
  BY DEF OpenIndex
<1>3. block = Heap(IndexSize(c, c.size), c) /\ NoMem.kind = "null"
  BY <1>1 DEF SegmentsOf, NoMem
<1> HIDE DEF block
<1>4. gi'.file = gi.file /\ gi'.size = gi.size /\ gi'.cache = gi.cache
      /\ gi'.segs = gi.segs /\ gi'.recLen = gi.recLen /\ gi'.index \in {NoMem, block}
  BY <1>1, <1>2 DEF Handles
<1>5. c' = c /\ IsFile(gi.file)'
  BY <1>1, <1>4 DEF ContentAt, IsFile, Frame, files
<1> HIDE DEF c
<1>6. CacheOf(c)' /\ SegmentsOf(c)' /\ IndexOf(c)'
  BY <1>1, <1>3, <1>4, <1>5 DEF CacheOf, SegmentsOf, IndexOf
<1> QED BY <1>1, <1>5, <1>6 DEF Pieces, OnePiece, c

\* Up to the decision to reload nothing changes but the stat'ed size.
LEMMA CheckPieces ==
    ASSUME IInv, NEW h, NEW e, NEW k, Ledger(h, e), Pieces(h), k = After(h),
           \/ \E op \in Calls : Begin(op)
           \/ CheckTime \/ StatPath
    PROVE  Pieces(k)'
<1>1. /\ Frame /\ fds' = fds /\ gi \in Handles /\ loc \in Locals
      /\ pc \in {"idle", "check", "stat"}
      /\ pc' \in {"crashed", "check", "stat", "use", "release"}
      /\ gi' = gi \/ gi' = [gi EXCEPT !.lastCheck = now]
  BY DEF IInv, TypeOK, Begin, CheckTime, StatPath, Crash, Goto
<1>2. pc' = "release" => path # 0 /\ loc'.st.size = disk[path].c.size
  BY <1>1 DEF Begin, CheckTime, StatPath, Crash, Goto, Stat, Locals
<1>3. gi'.file = gi.file /\ gi'.size = gi.size /\ gi'.cache = gi.cache
      /\ gi'.segs = gi.segs /\ gi'.recLen = gi.recLen /\ gi'.index = gi.index
  BY <1>1 DEF Handles
<1>4. k = h \cup NewHarm
  BY <1>1, Kept
<1>5. k = {} => OnePiece
  BY <1>1, <1>4 DEF Pieces
<1>6. k = {} => OnePiece'
  BY <1>1, <1>3, <1>5 DEF OnePiece, IsFile, ContentAt, CacheOf, SegmentsOf, IndexOf,
     Frame, files
<1> QED BY <1>1, <1>2, <1>6 DEF Pieces, Frame, files

\* What is left of the old cache has the size of the new file.
LEMMA ReleasePieces ==
    ASSUME IInv, NEW h, NEW e, NEW k, Ledger(h, e), Pieces(h), k = After(h),
           ReleaseCache
    PROVE  Pieces(k)'
<1> DEFINE block == Heap(loc.st.size, gi.cache.holds)
<1>1. /\ Frame /\ fds' = fds /\ loc' = loc /\ gi \in Handles /\ pc = "release"
      /\ path # 0 /\ loc.st.size = disk[path].c.size
      /\ pc' \in {"use", "refresh"}
  BY DEF IInv, TypeOK, ReleaseCache, Goto, Pieces
<1>2. pc' = "refresh" =>
          \/ gi' = gi /\ gi.cache.kind = "null"
          \/ gi' = [gi EXCEPT !.cache = NoMem]
          \/ gi' = [gi EXCEPT !.cache = block]
  BY <1>1 DEF ReleaseCache, Goto, Ledger, CacheKinds, Serving
<1>3. block.len = loc.st.size /\ NoMem.kind = "null"
  BY DEF Heap, NoMem
<1> HIDE DEF block
<1>4. pc' = "refresh" => gi'.cache.kind = "null" \/ gi'.cache = block
  BY <1>1, <1>2, <1>3 DEF Handles
<1>5. pc' = "use" => k # {}
  BY <1>1, Kept DEF NewHarm, GivesUp
<1> QED BY <1>1, <1>3, <1>4, <1>5 DEF Pieces, Frame, files

\* The file that is opened is the one that was stat'ed.
LEMMA RefreshPieces ==
    ASSUME IInv, NEW h, NEW e, NEW k, Ledger(h, e), Pieces(h), k = After(h),
           RefreshHandle
    PROVE  Pieces(k)'
<1>1. /\ Frame /\ gi \in Handles /\ loc \in Locals /\ pc = "refresh"
      /\ IsFile(gi.file) /\ path # 0 /\ loc.st.size = disk[path].c.size
      /\ (gi.cache.kind = "heap" => gi.cache.len = loc.st.size)
      /\ pc' \in {"use", "reload"}
  BY DEF IInv, TypeOK, RefreshHandle, Goto, Pieces, Ledger, Lost, Serving,
     Descriptors, Crash
<1>2. pc' = "use" => k # {}
  BY <1>1, Kept DEF NewHarm, GivesUp
<1>3. CASE pc' = "use"
  BY <1>1, <1>2, <1>3 DEF Pieces
<1>4. CASE pc' = "reload"
  <2>1. /\ fds'[gi'.file] = path /\ gi'.cache = gi.cache
        /\ gi'.size = loc.st.size /\ loc'.st = loc.st
    <3>1. PICK n : /\ gi' = [gi EXCEPT !.file = n, !.mtime = loc.st.mtime,
                                       !.size = loc.st.size]
                   /\ loc' = [loc EXCEPT !.reloaded = TRUE]
                   /\ fds'[gi'.file] = path
      BY <1>1, <1>4, ReopenFacts
    <3>2. gi'.cache = gi.cache /\ gi'.size = loc.st.size
      BY <1>1, <3>1 DEF Handles
    <3>3. loc'.st = loc.st
      BY <1>1, <3>1 DEF Locals
    <3> QED BY <3>1, <3>2, <3>3
  <2> QED BY <1>1, <1>4, <2>1 DEF Pieces, ContentAt, Frame, files
<1> QED BY <1>1, <1>3, <1>4

\* The cache a reload fills is of the size and contents of the new file.
LEMMA ReloadCachePieces ==
    ASSUME IInv, NEW h, NEW e, NEW k, Ledger(h, e), Pieces(h), k = After(h), ReloadCache
    PROVE  Pieces(k)'
<1> DEFINE c == ContentAt(gi.file)
           n == loc.st.size
           map == Map(n, fds[gi.file])
           mapped == "MMAP" \in gi.flags
           inMemory == "MEMORY" \in gi.flags
<1>1. /\ Frame /\ fds' = fds /\ loc' = loc /\ gi \in Handles /\ gi.cache \in Memory
      /\ pc = "reload" /\ pc' \in {"use", "segments"}
      /\ gi.size = n /\ n = c.size /\ (gi.cache.kind = "heap" => gi.cache.len = n)
      /\ (~mapped /\ inMemory => gi.cache.kind = "heap")
      /\ (~mapped /\ ~inMemory => gi.cache.kind = "null")
  BY DEF IInv, TypeOK, Handles, ReloadCache, Goto, Pieces, Ledger, CacheKinds, Serving
<1>2. pc' = "use" => k # {}
  BY <1>1, Kept DEF NewHarm, GivesUp
<1>3. CASE pc' = "use"
  BY <1>2, <1>3 DEF Pieces
<1>4. CASE pc' = "segments"
  <2>1. /\ gi'.file = gi.file /\ gi'.size = gi.size
        /\ \/ gi'.cache = map
           \/ gi'.cache.kind = "heap" /\ gi'.cache.len = n /\ gi'.cache.holds = c
           \/ gi'.cache.kind = "null"
    <3>1. CASE mapped
      BY <1>1, <1>4, <3>1 DEF ReloadCache, Goto, Handles
    <3>2. CASE ~mapped /\ inMemory
      <4>1. gi' = [gi EXCEPT !.cache.holds = c]
        BY <1>1, <1>4, <3>2 DEF ReloadCache, Goto
      <4> QED BY <1>1, <3>2, <4>1 DEF Handles, Memory
    <3>3. CASE ~mapped /\ ~inMemory
      BY <1>1, <1>4, <3>3 DEF ReloadCache, Goto
    <3> QED BY <3>1, <3>2, <3>3
  <2>2. map.kind = "map" /\ map.len = n /\ map.inode = fds[gi.file]
    BY DEF Map
  <2>3. c' = c
    BY <1>1, <2>1 DEF ContentAt, Frame, files
  <2> HIDE DEF c, map
  <2>4. CacheOf(c)'
    BY <1>1, <2>1, <2>2, <2>3 DEF CacheOf
  <2> QED BY <1>1, <1>4, <2>1, <2>3, <2>4 DEF Pieces, c
<1> QED BY <1>1, <1>3, <1>4

\* The segments a reload finds are those of the new file.
LEMMA ReloadSegmentsPieces ==
    ASSUME IInv, NEW h, NEW e, NEW k, Ledger(h, e), Pieces(h), k = After(h),
           ReloadSegments
    PROVE  Pieces(k)'
<1> DEFINE c == ContentAt(gi.file)
<1>1. /\ Frame /\ fds' = fds /\ loc' = loc /\ gi \in Handles /\ pc = "segments"
      /\ c \in Content /\ gi.size = loc.st.size /\ gi.size = c.size /\ CacheOf(c)
  BY FileFacts DEF IInv, TypeOK, ReloadSegments, Pieces, FileOpen
<1>2. PICK segs \in {SegmentsFound(c, c.size), Null} :
          /\ gi' = [gi EXCEPT !.segs = segs, !.recLen = RecordLength(segs)]
          /\ pc' = IF segs = Null THEN "use" ELSE "index"
  BY <1>1 DEF ReloadSegments, Goto
<1>3. gi'.file = gi.file /\ gi'.size = gi.size /\ gi'.cache = gi.cache
      /\ gi'.segs = segs /\ gi'.recLen = RecordLength(segs)
  BY <1>1, <1>2 DEF Handles
<1>4. c' = c
  BY <1>1, <1>3 DEF ContentAt, Frame, files
<1>5. segs # Null => segs = c /\ c.sound /\ RecordLength(c) = c.recLen
  BY <1>1, <1>2, FoundHere
<1>6. pc' = "use" => k # {}
  BY <1>1, <1>2, Kept DEF NewHarm, GivesUp
<1> HIDE DEF c
<1>7. pc' = "index" => CacheOf(c)' /\ SegmentsOf(c)'
  BY <1>1, <1>2, <1>3, <1>4, <1>5 DEF CacheOf, SegmentsOf
<1> QED BY <1>1, <1>2, <1>3, <1>4, <1>6, <1>7 DEF Pieces, c

\* A reload that completes leaves a handle in one piece, whatever it was before.
LEMMA ReloadIndexPieces ==
    ASSUME IInv, NEW h, NEW e, NEW k, Ledger(h, e), Pieces(h), k = After(h), ReloadIndex
    PROVE  Pieces(k)'
<1> DEFINE c == ContentAt(gi.file)
           block == Heap(IndexSize(gi.segs, loc.st.size), c)
<1>1. /\ Frame /\ fds' = fds /\ loc' = loc /\ gi \in Handles /\ pc = "index"
      /\ pc' = "use" /\ IsFile(gi.file) /\ gi.size = loc.st.size
      /\ CacheOf(c) /\ SegmentsOf(c)
      /\ (gi.index.kind # "null" => "INDEX" \in gi.flags)
  BY DEF IInv, TypeOK, ReloadIndex, Pieces, Ledger, CacheKinds, Goto, FileOpen
<1>2. \/ gi' = gi \/ gi' = [gi EXCEPT !.index = NoMem]
      \/ \E v : gi' = [gi EXCEPT !.index = Heap(IndexSize(gi.segs, loc.st.size), v)]
  BY DEF ReloadIndex
<1>3. gi'.file = gi.file /\ gi'.size = gi.size /\ gi'.cache = gi.cache
      /\ gi'.segs = gi.segs /\ gi'.recLen = gi.recLen
  BY <1>1, <1>2 DEF Handles
<1>4. k = {} => Completes
  BY <1>1 DEF After, NewHarm, IndexLost, Completes
<1>5. block = Heap(IndexSize(c, c.size), c)
  BY <1>1 DEF SegmentsOf
<1>6. k = {} => gi'.index.kind = "null" \/ gi'.index = block
  <2>1. "INDEX" \in gi.flags /\ k = {} => gi'.index = block
    BY <1>4 DEF Completes, IndexFilled
  <2>2. "INDEX" \notin gi.flags => gi' = gi
    BY DEF ReloadIndex
  <2> QED BY <1>1, <2>1, <2>2
<1> HIDE DEF block
<1>7. c' = c /\ IsFile(gi.file)'
  BY <1>1, <1>3 DEF ContentAt, IsFile, Frame, files
<1> HIDE DEF c
<1>8. k = {} => CacheOf(c)' /\ SegmentsOf(c)' /\ IndexOf(c)'
  BY <1>1, <1>3, <1>5, <1>6, <1>7 DEF CacheOf, SegmentsOf, IndexOf
<1> QED BY <1>1, <1>7, <1>8 DEF Pieces, OnePiece, c

\* Lookups and GeoIP_database_info take nothing apart.
LEMMA AnswerPieces ==
    ASSUME IInv, NEW h, NEW e, NEW k, Ledger(h, e), Pieces(h), k = After(h),
           Lookup \/ DatabaseInfo
    PROVE  Pieces(k)'
<1>1. /\ Frame /\ UNCHANGED <<fds, gi, loc>> /\ pc = "use"
           /\ pc' \in {"idle", "crashed"}
  BY LookupOutcomes DEF DatabaseInfo, Return, Goto
<1>2. k = h \cup NewHarm
  BY <1>1, Kept
<1> QED BY <1>1, <1>2 DEF Pieces, OnePiece, IsFile, ContentAt, CacheOf, SegmentsOf,
        IndexOf,
        Frame, files

\* During a load the files and descriptors stay what they are.
LEMMA LoadedAlone ==
    ASSUME Racing = {}, IInv, Environment, Loading
    PROVE  /\ path' = path /\ fds' = fds /\ loc' = loc
           /\ \A i \in Inode : disk'[i].c = disk[i].c
<1>1. disk \in [Inode -> [c : Content, mtime : Nat, was : SUBSET Nat]]
  BY DEF IInv, TypeOK
<1>2. Tick
  BY DEF Environment, Replace, Unlink, BeginRewrite, EndRewrite, OtherOpen, OtherClose,
     MayUpdate, Comes, Loading
<1>3. disk' = disk \/ disk' = [disk EXCEPT ![path].mtime = now']
  BY <1>2 DEF Tick
<1> QED BY <1>1, <1>2, <1>3 DEF Tick

\* A handle is taken apart by no update but a rewrite of its file in place, which
\* harm knows of.
LEMMA EnvironmentPieces ==
    ASSUME Racing = {}, IInv, NEW h, NEW e, NEW k, Ledger(h, e), Pieces(h),
           k = After(h),
           Environment
    PROVE  Pieces(k)'
<1>1. /\ UNCHANGED <<gi, pc>>
      /\ \A f : IsFile(f)' = IsFile(f)
      /\ \A f : IsFile(f) => fds'[f] = fds[f] /\ fds[f] \in Inode
  BY Outside DEF Ledger, Library, IsFile
<1>2. CASE Loading
  <2>1. path' = path /\ fds' = fds /\ loc' = loc
          /\ \A i \in Inode : disk'[i].c = disk[i].c
    BY <1>2, LoadedAlone
  <2>2. path # 0 => path \in Inode
    BY Numbers DEF IInv, TypeOK, Inode
  <2>3. pc \notin {"release", "refresh"} => ContentAt(gi.file)' = ContentAt(gi.file)
    BY <1>1, <1>2, <2>1 DEF Loading, IInv, FileOpen, ContentAt
  <2>4. k = {} => h = {}
    BY <1>1, <1>2, Kept DEF Loading, After, Completes
  <2>5. OnePiece => ContentAt(gi.file)' = ContentAt(gi.file)
    BY <1>1, <2>1 DEF OnePiece, ContentAt
  <2>6. OnePiece => OnePiece'
    BY <1>1, <2>1, <2>5 DEF OnePiece, CacheOf, SegmentsOf, IndexOf
  <2> QED BY <1>1, <1>2, <2>1, <2>2, <2>3, <2>4, <2>6
          DEF Pieces, Loading, CacheOf, SegmentsOf
<1>3. CASE ~Loading
  <2>1. ASSUME pc \in {"idle", "check", "stat", "use"}, k = {} PROVE OnePiece'
    <3>1. h = {} /\ ~Rewritten
      BY <1>1, <2>1, Kept DEF NewHarm
    <3>2. OnePiece
      BY <2>1, <3>1 DEF Pieces
    <3>3. ContentAt(gi.file)' = ContentAt(gi.file) /\ fds'[gi.file] = fds[gi.file]
      BY <1>1, <2>1, <3>1, <3>2 DEF OnePiece, Rewritten, ContentAt
    <3> QED BY <1>1, <3>2, <3>3 DEF OnePiece, CacheOf, SegmentsOf, IndexOf
  <2> QED BY <1>1, <1>3, <2>1 DEF Pieces, Loading
<1> QED BY <1>2, <1>3

\* Every step keeps the pieces together.
LEMMA StepPieces ==
    ASSUME Racing = {}, IInv, NEW h, NEW e, NEW k, Ledger(h, e), Pieces(h),
           k = After(h), Next
    PROVE  Pieces(k)'
<1>1. CASE Environment
  BY <1>1, EnvironmentPieces
<1>2. CASE Step
  BY <1>2, OpenPieces, OpenCachePieces, OpenSegmentsPieces, OpenIndexPieces,
     CheckPieces,
     ReleasePieces, RefreshPieces, ReloadCachePieces, ReloadSegmentsPieces,
     ReloadIndexPieces, AnswerPieces DEF Step
<1>3. CASE Program
  BY <1>3, OpenPieces, CheckPieces DEF Program, BeginCall
<1> QED BY <1>1, <1>2, <1>3 DEF Next

-----------------------------------------------------------------------------
(* What lookups make of them *)

\* A handle in one piece reads within its caches, with its own record length, and
\* reads the contents of its file.
LEMMA CachesHoldAll ==
    ASSUME IInv, OnePiece, loc.pair = 2 * gi.recLen
    PROVE  /\ gi.cache.kind # "null" =>
                  ~Overruns(gi.cache) /\ Shows(gi.cache) = ContentAt(gi.file)
           /\ gi.index.kind # "null" =>
                  ~Overruns(gi.index) /\ Shows(gi.index) = ContentAt(gi.file)
<1> DEFINE c == ContentAt(gi.file)
<1>1. /\ c \in Content /\ gi.segs = c /\ gi.size = c.size /\ gi.recLen = c.recLen
      /\ c.size \in Nat /\ c.nodes \in Nat /\ c.recLen \in {3, 4} /\ c.fixed \in BOOLEAN
      /\ CacheOf(c) /\ IndexOf(c)
      /\ loc.pair = 2 * c.recLen /\ gi.index \in Memory
  BY FileFacts, ContentFacts DEF IInv, OnePiece, SegmentsOf, TypeOK, Handles
<1>a. c = disk[fds[gi.file]].c
  BY DEF ContentAt
<1> HIDE DEF c
<1>2. ASSUME gi.cache.kind # "null" PROVE ~Overruns(gi.cache) /\ Shows(gi.cache) = c
  <2>1. Readable(gi.cache) = c.size /\ Shows(gi.cache) = c
    BY <1>1, <1>a, <1>2 DEF CacheOf, Readable, Shows
  <2>2. ASSUME NEW x \in 0 .. SegmentStart(gi.segs, gi.size) - 1,
               loc.pair * x <= gi.size - loc.pair
        PROVE  ~(loc.pair * x + 2 * gi.recLen > c.size)
    <3>1. x \in Int
      OBVIOUS
    <3>2. CASE c.recLen = 3
      BY <1>1, <2>2, <3>1, <3>2
    <3>3. CASE c.recLen = 4
      BY <1>1, <2>2, <3>1, <3>3
    <3> QED BY <1>1, <3>2, <3>3
  <2> QED BY <2>1, <2>2 DEF Overruns
<1>3. ASSUME gi.index.kind # "null" PROVE ~Overruns(gi.index) /\ Shows(gi.index) = c
  <2>1. /\ gi.index = Heap(IndexSize(c, c.size), c)
        /\ Readable(gi.index) = IndexSize(c, c.size) /\ Shows(gi.index) = c
        /\ gi.index.len = IndexSize(c, c.size)
    BY <1>1, <1>3 DEF IndexOf, Readable, Shows, Heap
  <2>2. IndexSize(c, c.size) \in Nat
    BY <1>1, <2>1 DEF Memory
  <2>3. ASSUME NEW x \in 0 .. SegmentStart(gi.segs, gi.size) - 1,
               loc.pair * x <= gi.size - loc.pair
        PROVE  ~(loc.pair * x + 2 * gi.recLen > IndexSize(c, c.size))
    <3>1. x \in Int
      OBVIOUS
    <3>2. CASE c.fixed
      <4>1. IndexSize(c, c.size) = c.size
        BY <3>2 DEF IndexSize
      <4>2. CASE c.recLen = 3
        BY <1>1, <2>3, <3>1, <4>1, <4>2
      <4>3. CASE c.recLen = 4
        BY <1>1, <2>3, <3>1, <4>1, <4>3
      <4> QED BY <1>1, <4>2, <4>3
    <3>3. CASE ~c.fixed
      <4>1. IndexSize(c, c.size) = c.nodes * c.recLen * 2
        <5>1. IndexSize(c, c.size) # -1
          BY <2>2
        <5> QED BY <1>1, <3>3, <5>1 DEF IndexSize
      <4>2. x \in 0 .. c.nodes - 1
        BY <1>1, <2>3, <3>3 DEF SegmentStart
      <4>3. CASE c.recLen = 3
        BY <1>1, <4>1, <4>2, <4>3
      <4>4. CASE c.recLen = 4
        BY <1>1, <4>1, <4>2, <4>4
      <4> QED BY <1>1, <4>3, <4>4
    <3> QED BY <1>1, <3>2, <3>3
  <2> QED BY <2>1, <2>3 DEF Overruns
<1> QED BY <1>2, <1>3 DEF c

\* A lookup of a handle in one piece, with its own record length, finds its file's
\* contents; it finds nothing only in a file smaller than one node, or where it
\* reads the file itself and cannot.
LEMMA WholeLookup ==
    ASSUME IInv, NEW h, Lost(h), h = {}, Descriptors, Stopped,
           OnePiece, loc.pair = 2 * gi.recLen, Lookup
    PROVE  \/ pc' = "crashed" /\ fault' # "overrun"
           \/ pc' = "idle" /\ answer'.found = "found" /\ answer'.is = ContentAt(gi.file)
           \/ /\ pc' = "idle" /\ answer'.found = "nothing"
              /\ \/ gi.size < loc.pair
                 \/ /\ gi.cache.kind = "null" /\ gi.index.kind = "null"
                    /\ ~IsFile(loc.fno) \/ MayFail("read")
<1> DEFINE c == ContentAt(gi.file)
           found == pc' = "idle" /\ answer'.found = "found" /\ answer'.is = c
           nothing == pc' = "idle" /\ answer'.found = "nothing"
<1>1. c \in Content /\ gi.segs = c /\ gi.segs # Null /\ loc.pair = 2 * c.recLen
        /\ c # Null
  BY FileFacts, HandleConstants DEF IInv, OnePiece, SegmentsOf
<1>2. Walked(c) => found
  BY <1>1 DEF Walked, Return, Goto
<1>3. gi.cache.kind # "null" /\ WalkMemory(gi.cache) => found
  BY <1>2, CachesHoldAll DEF WalkMemory
<1>4. gi.index.kind # "null" /\ WalkMemory(gi.index) => found
  BY <1>2, CachesHoldAll DEF WalkMemory
<1>5. IsFile(loc.fno) => loc.fno = gi.file
  BY DEF Descriptors, IsFile
<1>6. WalkFile => \/ nothing /\ (~IsFile(loc.fno) \/ MayFail("read"))
                  \/ pc' = "crashed" /\ fault' = "null_buf"
                  \/ found
  BY <1>2, <1>5 DEF WalkFile, Return, Goto, Crash
<1>7. CASE gi.size < loc.pair /\ Return(Null, "nothing")
  BY <1>7 DEF Return, Goto
<1>8. CASE gi.index.kind # "null" /\ WalkMemory(gi.index)
  BY <1>4, <1>8
<1>9. CASE gi.index.kind = "null" /\ gi.cache.kind # "null" /\ WalkMemory(gi.cache)
  BY <1>3, <1>9
<1>10. CASE gi.index.kind = "null" /\ gi.cache.kind = "null" /\ WalkFile
  BY <1>6, <1>10
<1> QED BY <1>7, <1>8, <1>9, <1>10 DEF Lookup

\* A read behind a cached copy takes a handle in pieces, or a lookup that brought
\* in a file of another record length.
Overran(h) == fault = "overrun" => h # {} \/ loc.pair # 2 * gi.recLen

\* What AnswersUnlessHarmed says, and that no answer is left over in GeoIP_open.
Answered(h) ==
    /\ pc \in {"open_stat", "open_cache", "open_segments", "open_index"} =>
          answer.op # "lookup"
    /\ pc = "idle" /\ answer.op = "lookup" /\ h = {} /\ loc.pair = 2 * gi.recLen =>
        /\ answer.found # "wrong"
        /\ answer.found = "found" => answer.is = ContentAt(gi.file)
        /\ answer.found = "nothing" => gi.cache.kind = "null" /\ gi.index.kind = "null"

\* Every step keeps to that.
LEMMA StepOverran ==
    ASSUME IInv, NEW h, NEW e, NEW k, Ledger(h, e), Pieces(h), Overran(h),
           k = After(h), Next
    PROVE  Overran(k)'
<1> SUFFICES ASSUME fault' = "overrun" PROVE k # {} \/ loc'.pair # 2 * gi'.recLen
  BY DEF Overran
<1>1. CASE Lookup
  <2>1. /\ UNCHANGED <<gi, loc>> /\ pc = "use" /\ pc' # "closed"
        /\ (pc' = "idle" => fault' = fault)
    BY <1>1, LookupOutcomes
  <2>2. k = h \cup NewHarm
    BY <2>1, Kept
  <2>3. pc' # "idle"
    BY <2>1 DEF Ledger, Stopped
  <2>4. ASSUME h = {}, loc.pair = 2 * gi.recLen PROVE FALSE
    <3>1. OnePiece
      BY <2>1, <2>4 DEF Pieces
    <3> QED BY <1>1, <2>3, <2>4, <3>1, WholeLookup DEF Ledger
  <2> QED BY <2>1, <2>2, <2>4
<1>2. CASE Environment
  <2>1. /\ UNCHANGED <<gi, pc, fault>>
             /\ (loc' = loc \/ loc' = [loc EXCEPT !.due = Null])
        /\ loc \in Locals
    BY <1>2, Outside DEF Library, Ledger, IInv, TypeOK
  <2>2. pc = "crashed" /\ k = h \cup NewHarm /\ loc'.pair = loc.pair
    BY <2>1, Kept DEF Ledger, Stopped, Locals
  <2> QED BY <2>1, <2>2 DEF Overran
<1>3. CASE Program \/ (Step /\ ~Lookup)
  <2>1. pc # "crashed"
    BY <1>3 DEF Program, Step, OpenFile, BeginCall, Begin, Delete, OpenStat, OpenCache,
       OpenSegments, OpenIndex, CheckTime, StatPath, ReleaseCache, RefreshHandle,
       ReloadCache, ReloadSegments, ReloadIndex, DatabaseInfo
  <2>2. fault' = fault \/ fault' \in {"bad_free", "bad_unmap", "null_file"}
    BY <1>3 DEF Program, Step, OpenFile, BeginCall, Begin, Delete, OpenStat, OpenCache,
       OpenSegments, OpenIndex, CheckTime, StatPath, ReleaseCache, RefreshHandle,
       ReloadCache, ReloadSegments, ReloadIndex, DatabaseInfo, Crash, Return
  <2> QED BY <2>1, <2>2 DEF Ledger, Stopped
<1> QED BY <1>1, <1>2, <1>3 DEF Next

\* Every step keeps to that, if sound files hold a node.
LEMMA StepAnswered ==
    ASSUME HoldsNode, IInv, NEW h, NEW e, NEW k, Ledger(h, e), Pieces(h), Pieces(k)',
           Answered(h), k = After(h), Next
    PROVE  Answered(k)'
<1>1. CASE Lookup
  <2>1. /\ Frame /\ UNCHANGED <<fds, gi, loc>> /\ pc = "use"
             /\ pc' \in {"idle", "crashed"}
    BY <1>1, LookupOutcomes
  <2>2. k = h \cup NewHarm /\ ContentAt(gi.file)' = ContentAt(gi.file)
    BY <2>1, Kept DEF ContentAt, Frame, files
  <2>3. ASSUME pc' = "idle", k = {}, loc.pair = 2 * gi.recLen
        PROVE  /\ answer'.found # "wrong"
               /\ answer'.found = "found" => answer'.is = ContentAt(gi.file)
               /\ answer'.found = "nothing" =>
                      gi.cache.kind = "null" /\ gi.index.kind = "null"
    <3>1. OnePiece /\ h = {}
      BY <2>1, <2>2, <2>3 DEF Pieces
    <3>2. ~(gi.size < loc.pair)
      <4>1. ContentAt(gi.file) \in Content
        BY <3>1, FileFacts DEF IInv, OnePiece
      <4>2. gi.size \in Nat /\ gi.recLen \in {0, 3, 4}
        BY DEF IInv, TypeOK, Handles
      <4>3. 2 * gi.recLen <= gi.size
        BY <3>1, <4>1 DEF HoldsNode, OnePiece, SegmentsOf
      <4> QED BY <2>3, <4>2, <4>3
    <3> QED BY <1>1, <2>3, <3>1, <3>2, WholeLookup DEF Ledger
  <2> QED BY <2>1, <2>2, <2>3 DEF Answered
<1>2. CASE DatabaseInfo
  BY <1>2 DEF DatabaseInfo, Return, Goto, Answered
<1>3. CASE Environment
  <2>1. /\ UNCHANGED <<gi, pc, answer>>
             /\ (loc' = loc \/ loc' = [loc EXCEPT !.due = Null])
        /\ loc \in Locals
        /\ \A f : IsFile(f) => fds'[f] = fds[f] /\ fds[f] \in Inode
    BY <1>3, Outside DEF Library, Ledger, IInv, TypeOK, IsFile
  <2>2. loc'.pair = loc.pair
    BY <2>1 DEF Locals
  <2>3. ASSUME pc = "idle", k = {}
        PROVE h = {} /\ ContentAt(gi.file)' = ContentAt(gi.file)
    <3>1. h = {} /\ ~Rewritten
      BY <2>1, <2>3, Kept DEF NewHarm
    <3>2. OnePiece
      BY <2>3, <3>1 DEF Pieces
    <3> QED BY <2>1, <2>3, <3>1, <3>2 DEF OnePiece, Rewritten, ContentAt
  <2> QED BY <2>1, <2>2, <2>3 DEF Answered
<1>4. CASE \E flags \in FlagChoices : OpenFile(flags)
  BY <1>4 DEF OpenFile, NoAnswer, Answered, Goto
<1>5. CASE OpenStat \/ OpenCache \/ OpenSegments \/ OpenIndex
  BY <1>5 DEF OpenStat, OpenCache, OpenSegments, OpenIndex, Answered, Goto
<1>6. CASE Delete \/ BeginCall \/ CheckTime \/ StatPath \/ ReleaseCache \/ RefreshHandle
           \/ ReloadCache \/ ReloadSegments \/ ReloadIndex
  BY <1>6 DEF Delete, BeginCall, Begin, CheckTime, StatPath, ReleaseCache,
     RefreshHandle,
     ReloadCache, ReloadSegments, ReloadIndex, Answered, Goto, Crash
<1> QED BY <1>1, <1>2, <1>3, <1>4, <1>5, <1>6 DEF Next, Step, Program

\* A program that has opened nothing.
LEMMA InitPieces == Init => Pieces({}) /\ Overran({}) /\ Answered({})
BY DEF Init, Pieces, Overran, Answered

\* The inductive invariant of contents.
Intact == Booked /\ Pieces(harm) /\ Overran(harm)

\* It is inductive.
LEMMA HNextIntact ==
    ASSUME Racing = {}, Intact, [HNext]_hvars
    PROVE  Intact'
<1>1. Booked'
  BY HNextBooked DEF Intact
<1>2. CASE HNext
  <2>1. Next /\ harm' = After(harm)
    BY <1>2 DEF HNext, After
  <2>2. PICK h, e, k : h = harm /\ e = ever /\ k = harm'
    OBVIOUS
  <2>3. IInv /\ Ledger(h, e) /\ Pieces(h) /\ Overran(h) /\ k = After(h)
    BY <2>1, <2>2 DEF Intact, Booked
  <2>4. Pieces(k)' /\ Overran(k)'
    BY <2>1, <2>3, StepPieces, StepOverran
  <2>5. Pieces(harm)' /\ Overran(harm)'
    BY <2>2, <2>4 DEF Pieces, Overran
  <2> QED BY <1>1, <2>5 DEF Intact
<1>3. CASE UNCHANGED hvars
  BY <1>1, <1>3 DEF Intact, hvars, vars, Pieces, Overran, OnePiece, IsFile, ContentAt,
     CacheOf, SegmentsOf, IndexOf
<1> QED BY <1>2, <1>3

\* With updates between two loads only, and any failures, the pieces of a handle
\* stay together unless harm tells why not.
THEOREM IntactHolds ==
    ASSUME Racing = {}
    PROVE  HSpec => []Intact
<1>1. HInit => Intact
  BY InitIInv, InitLedger, InitPieces DEF HInit, Booked, Intact
<1>2. Intact /\ [HNext]_hvars => Intact'
  BY HNextIntact
<1> QED BY <1>1, <1>2, PTL DEF HSpec

\* With updates between two loads only, and any failures and contents: every fault
\* of the library has the failure that FaultsHaveACause names for it.
THEOREM FaultsCaused ==
    ASSUME Racing = {}
    PROVE  HSpec => []FaultsHaveACause
<1>1. Intact => FaultsHaveACause
  BY DEF Intact, Booked, Ledger, Blamed, Overran, FaultsHaveACause
<1> QED BY <1>1, IntactHolds, PTL

\* A handle in one piece is coherent.
LEMMA PieceCoherent == OnePiece => Coherent
<1> DEFINE c == ContentAt(gi.file)
<1> SUFFICES ASSUME OnePiece
             PROVE  /\ gi.segs = c /\ gi.recLen = c.recLen /\ gi.size = c.size
                    /\ gi.cache.kind # "null" =>
                          Shows(gi.cache) = c /\ Readable(gi.cache) = c.size
                    /\ gi.index.kind # "null" =>
                          gi.index.holds = c /\ gi.index.len = IndexSize(c, c.size)
  BY DEF Coherent
<1>1. SegmentsOf(c) /\ CacheOf(c) /\ IndexOf(c)
  BY DEF OnePiece
<1>2. c = disk[fds[gi.file]].c
  BY DEF ContentAt
<1> HIDE DEF c
<1> QED BY <1>1, <1>2 DEF SegmentsOf, CacheOf, IndexOf, Shows, Readable, Heap

\* With updates between two loads only, and any failures and contents: between
\* calls the handle's parts come from one version of the file, unless the last
\* reload gave up; one that completes repairs what earlier ones left (1203-1355).
THEOREM WholeHandle ==
    ASSUME Racing = {}
    PROVE  HSpec => []WholeUnlessHarmed
<1>1. Intact => WholeUnlessHarmed
  BY PieceCoherent DEF Intact, Pieces, WholeUnlessHarmed, Coherent
<1> QED BY <1>1, IntactHolds, PTL

\* With updates between two loads only, any failures, and contents whose sound ones
\* hold a node: a handle that no failure has left in pieces answers with the
\* contents of its file, or with nothing where it has to read the file.
THEOREM AnswersCaused ==
    ASSUME Racing = {}, HoldsNode
    PROVE  HSpec => []AnswersUnlessHarmed
<1>1. HInit => Intact /\ Answered(harm)
  BY InitIInv, InitLedger, InitPieces DEF HInit, Booked, Intact
<1>2. ASSUME Intact, Answered(harm), [HNext]_hvars
      PROVE  Intact' /\ Answered(harm)'
  <2>1. Intact'
    BY <1>2, HNextIntact
  <2>2. CASE HNext
    <3>1. Next /\ harm' = After(harm)
      BY <2>2 DEF HNext, After
    <3>2. PICK h, e, k : h = harm /\ e = ever /\ k = harm'
      OBVIOUS
    <3>3. IInv /\ Ledger(h, e) /\ Pieces(h) /\ Answered(h) /\ k = After(h)
      BY <1>2, <3>1, <3>2 DEF Intact, Booked
    <3>4. Pieces(k)'
      BY <3>1, <3>3, StepPieces
    <3>5. Answered(k)'
      BY <3>1, <3>3, <3>4, StepAnswered
    <3> QED BY <2>1, <3>2, <3>5 DEF Answered
  <2>3. CASE UNCHANGED hvars
    BY <1>2, <2>1, <2>3 DEF hvars, vars, Answered, ContentAt
  <2> QED BY <1>2, <2>1, <2>2, <2>3
<1>3. Intact /\ Answered(harm) => AnswersUnlessHarmed
  BY DEF Answered, AnswersUnlessHarmed
<1> QED BY <1>1, <1>2, <1>3, PTL DEF HSpec

-----------------------------------------------------------------------------
(* A handle that nothing disturbs *)

\* A sound content has segments, and room for its index.
LEMMA SoundFacts ==
    ASSUME Sound, NEW c \in Content
    PROVE  /\ c.size \in Nat /\ c.size > 0
           /\ SegmentsFound(c, c.size) = c /\ c # Null
           /\ IndexSize(c, c.size) >= 0 /\ IndexSize(c, c.size) <= c.size
<1>1. /\ c.size \in Nat /\ c.nodes \in Nat /\ c.recLen \in {3, 4} /\ c.sound /\ c # Null
      /\ 2 * c.recLen <= c.size /\ IndexSize(c, c.size) # -1
  BY ContentFacts, HandleConstants DEF Sound
<1>2. c.nodes * c.recLen * 2 \in Nat
  BY <1>1
<1>3. IndexSize(c, c.size) >= 0 /\ IndexSize(c, c.size) <= c.size
  <2> DEFINE idx == c.nodes * c.recLen * 2
  <2>1. idx \in Nat
    BY <1>2
  <2>2. IndexSize(c, c.size) = IF ~c.fixed THEN (IF idx > c.size THEN -1 ELSE idx)
                               ELSE c.size
    BY DEF IndexSize
  <2> HIDE DEF idx
  <2> QED BY <1>1, <2>1, <2>2
<1> QED BY <1>1, <1>3 DEF SegmentsFound

\* Without rewriting in place, an inode that was made keeps its contents.
LEMMA KeptContents ==
    ASSUME "rewrite" \notin Updates, IInv, Next
    PROVE  \A i \in Inode : i <= made => disk'[i].c = disk[i].c
<1> SUFFICES ASSUME NEW i \in Inode, i <= made PROVE disk'[i].c = disk[i].c
  OBVIOUS
<1>1. /\ disk \in [Inode -> [c : Content, mtime : Nat, was : SUBSET Nat]]
      /\ made \in Nat /\ i \in Nat
  BY Numbers DEF IInv, TypeOK, Inode
<1>2. CASE Environment
  <2>1. CASE Tick
    BY <1>1, <2>1 DEF Tick
  <2>2. ASSUME NEW c \in Content, NEW m \in 1 .. now, Replace(c, m)
        PROVE  disk'[i].c = disk[i].c
    BY <1>1, <2>2 DEF Replace
  <2>3. CASE Unlink \/ OtherOpen \/ \E f \in Fd : OtherClose(f)
    BY <2>3 DEF Unlink, OtherOpen, OtherClose, Frame, files
  <2>4. ASSUME NEW c \in Content, BeginRewrite(c) \/ EndRewrite(c) PROVE FALSE
    BY <2>4 DEF BeginRewrite, EndRewrite, MayUpdate, Comes
  <2> QED BY <1>2, <2>1, <2>2, <2>3, <2>4 DEF Environment
<1>3. CASE Step \/ Program
  <2>1. Frame
    BY <1>3 DEF Step, Program, OpenFile, OpenStat, OpenCache, OpenSegments,
       OpenIndex, Delete,
       BeginCall, Begin, CheckTime, StatPath, ReleaseCache, RefreshHandle, ReloadCache,
       ReloadSegments, ReloadIndex, Lookup, DatabaseInfo
  <2> QED BY <2>1 DEF Frame, files
<1> QED BY <1>2, <1>3 DEF Next

\* Undisturbed, no open and no reload gives up in the middle.
LEMMA NothingFails ==
    ASSUME Undisturbed, IInv, Ledger({}, {}), Pieces({}), Next
    PROVE  NewHarm = {}
<1>0. \A what : ~MayFail(what)
  BY DEF Undisturbed, MayFail
<1>1. ~Rewritten
  <2>1. ASSUME IsFile(gi.file) PROVE disk'[fds[gi.file]].c = ContentAt(gi.file)
    BY <2>1, KeptContents DEF Undisturbed, Ledger, Descriptors, ContentAt, IsFile
  <2> QED BY <2>1 DEF Rewritten
<1>2. CASE Environment
  <2>1. pc' = pc /\ gi' = gi
    BY <1>2, Outside DEF Ledger, Library
  <2>2. ~GivesUp /\ ~IndexLost
    BY <2>1 DEF GivesUp, IndexLost, Ledger, Opening, NoMem
  <2> QED BY <1>1, <2>2 DEF NewHarm
<1>3. CASE Program
  BY <1>1, <1>3 DEF NewHarm, GivesUp, IndexLost, Program, OpenFile, BeginCall, Begin,
     Delete
<1>4. CASE OpenStat \/ OpenSegments \/ OpenIndex \/ CheckTime \/ StatPath \/ Lookup
           \/ DatabaseInfo \/ (pc = "delete" /\ Delete)
  BY <1>1, <1>4 DEF NewHarm, GivesUp, IndexLost, OpenStat, OpenSegments, OpenIndex,
     CheckTime,
     StatPath, Lookup, DatabaseInfo
<1>5. CASE OpenCache
  <2> DEFINE map == Map(loc.st.size, fds[gi.file])
             block == Heap(loc.st.size, ContentAt(gi.file))
  <2>1. /\ pc = "open_cache" /\ gi \in Handles /\ gi.cache = NoMem
        /\ loc.st.size = ContentAt(gi.file).size /\ ContentAt(gi.file) \in Content
    BY <1>5, FileFacts DEF OpenCache, IInv, TypeOK, Pieces, Ledger, Opening, FileOpen
  <2>2. loc.st.size > 0 /\ loc.st.size \in Nat
    BY <2>1, SoundFacts DEF Undisturbed
  <2>3. gi'.cache \in {NoMem, map, block}
    <3>1. CASE "MMAP" \in loc.flags
      <4>1. gi' = [gi EXCEPT !.mtime = loc.st.mtime, !.cache = map]
        <5>1. ~(loc.st.size = 0) /\ ~MayFail("mmap")
          BY <1>0, <2>2
        <5> QED BY <1>5, <3>1, <5>1 DEF OpenCache
      <4> QED BY <2>1, <4>1 DEF Handles
    <3>2. CASE "MMAP" \notin loc.flags
      BY <1>0, <1>5, <2>1, <2>2, <3>2 DEF OpenCache, Handles
    <3> QED BY <3>1, <3>2
  <2>4. map.kind = "map" /\ block.kind = "heap" /\ NoMem.kind = "null"
    BY DEF Map, Heap, NoMem
  <2> HIDE DEF map, block
  <2> QED BY <1>1, <2>1, <2>3, <2>4 DEF NewHarm, GivesUp, IndexLost
<1>6. CASE ReleaseCache
  <2>1. pc = "release" /\ loc.st.size = disk[path].c.size /\ path \in Inode
    BY <1>6, Numbers DEF ReleaseCache, Pieces, IInv, TypeOK, Inode
  <2>2. loc.st.size # 0
    BY <2>1, FileFacts, SoundFacts DEF Undisturbed, IInv
  <2>3. pc' = "refresh"
    BY <1>0, <1>6, <2>2 DEF ReleaseCache, Goto
  <2> QED BY <1>1, <2>1, <2>3 DEF NewHarm, GivesUp, IndexLost
<1>7. CASE RefreshHandle
  <2>1. pc = "refresh" /\ path # 0
    BY <1>7 DEF RefreshHandle, Pieces
  <2>2. pc' \in {"crashed", "reload"}
    BY <1>0, <1>7, <2>1 DEF RefreshHandle, Goto, Crash
  <2> QED BY <1>1, <2>1, <2>2 DEF NewHarm, GivesUp, IndexLost
<1>8. CASE ReloadCache
  <2>1. /\ pc = "reload" /\ ContentAt(gi.file) \in Content
        /\ loc.st.size = ContentAt(gi.file).size
    BY <1>8, FileFacts DEF ReloadCache, Pieces, IInv, FileOpen
  <2>2. loc.st.size > 0 /\ loc.st.size \in Nat
          /\ ~(loc.st.size > ContentAt(gi.file).size)
    BY <2>1, SoundFacts DEF Undisturbed
  <2>3. pc' = "segments"
    BY <1>0, <1>8, <2>2 DEF ReloadCache, Goto
  <2> QED BY <1>1, <2>1, <2>3 DEF NewHarm, GivesUp, IndexLost
<1>9. CASE ReloadSegments
  <2>1. /\ pc = "segments" /\ ContentAt(gi.file) \in Content
        /\ gi.size = ContentAt(gi.file).size
    BY <1>9, FileFacts DEF ReloadSegments, Pieces, IInv, FileOpen
  <2>2. SegmentsFound(ContentAt(gi.file), gi.size) # Null
    BY <2>1, SoundFacts DEF Undisturbed
  <2>3. pc' = "index"
    BY <1>0, <1>9, <2>2 DEF ReloadSegments, Goto
  <2> QED BY <1>1, <2>1, <2>3 DEF NewHarm, GivesUp, IndexLost
<1>10. CASE ReloadIndex
  <2> DEFINE c == ContentAt(gi.file)
             idx == IndexSize(gi.segs, loc.st.size)
  <2>1. /\ pc = "index" /\ c \in Content /\ gi.segs = c /\ loc.st.size = c.size
        /\ gi \in Handles
    BY <1>10, FileFacts DEF ReloadIndex, Pieces, IInv, TypeOK, FileOpen, SegmentsOf
  <2>2. idx >= 0 /\ ~(idx < 0) /\ ~(idx > c.size)
    <3>1. idx = IndexSize(c, c.size) /\ IndexSize(c, c.size) \in Int
      BY <2>1, LengthFacts, SoundFacts DEF Undisturbed
    <3> QED BY <2>1, <3>1, SoundFacts DEF Undisturbed
  <2>3. "INDEX" \in gi.flags => gi' = [gi EXCEPT !.index = Heap(idx, c)]
    BY <1>0, <1>10, <2>2 DEF ReloadIndex
  <2> HIDE DEF idx
  <2>4. "INDEX" \in gi.flags => gi'.index = Heap(idx, c)
    BY <2>1, <2>3 DEF Handles
  <2> QED BY <1>1, <2>1, <2>4 DEF NewHarm, GivesUp, IndexLost, IndexFilled, idx
<1> QED BY <1>2, <1>3, <1>4, <1>5, <1>6, <1>7, <1>8, <1>9, <1>10 DEF Next, Step

\* The inductive invariant of undisturbed handles: that of the first two parts,
\* with an empty history.
Steady == IInv /\ Ledger({}, {}) /\ Pieces({})

\* It is inductive.
LEMMA StepSteady ==
    ASSUME Undisturbed, Steady, [Next]_vars
    PROVE  Steady'
<1>1. IInv'
  BY StepIInv DEF Steady
<1>2. CASE Next
  <2>1. NewHarm = {}
    BY <1>2, NothingFails DEF Steady
  <2>2. {} = After({}) /\ {} = {} \cup NewHarm
    BY <2>1 DEF After
  <2>3. Ledger({}, {})'
    BY <1>2, <2>2, StepLedger DEF Steady
  <2>4. Pieces({})'
    BY <1>2, <2>2, StepPieces DEF Steady, Undisturbed
  <2> QED BY <1>1, <2>3, <2>4 DEF Steady
<1>3. CASE UNCHANGED vars
  <2>1. Ledger({}, {})'
    BY <1>3 DEF Steady, vars, Ledger, Descriptors, Stopped, Opening, CacheKinds, Lost,
       Buffers, Accounts, Blamed, IsFile, Owned
  <2>2. Pieces({})'
    BY <1>3 DEF Steady, vars, Pieces, OnePiece, IsFile, ContentAt, CacheOf,
       SegmentsOf, IndexOf
  <2> QED BY <1>1, <2>1, <2>2 DEF Steady
<1> QED BY <1>2, <1>3

\* Undisturbed, a handle is always steady.
THEOREM SteadyHolds ==
    ASSUME Undisturbed
    PROVE  Spec => []Steady
<1>1. Init => Steady
  BY InitIInv, InitLedger, InitPieces DEF Steady
<1>2. Steady /\ [Next]_vars => Steady'
  BY StepSteady
<1> QED BY <1>1, <1>2, PTL DEF Spec

\* Undisturbed, for any number of updates, opens and reloads in any order: between
\* calls every part of the handle comes from one version of the file.
THEOREM HandleCoherent ==
    ASSUME Undisturbed
    PROVE  Spec => []Coherent
<1>1. Steady => Coherent
  BY PieceCoherent DEF Steady, Pieces, Coherent
<1> QED BY <1>1, SteadyHolds, PTL

\* Undisturbed: between calls the handle reaches everything that was allocated, and
\* a closed one holds nothing.
THEOREM HandleLeaksNothing ==
    ASSUME Undisturbed
    PROVE  Spec => []NoLeak
<1>1. Steady => NoLeak
  BY FilesCounted DEF Steady, Ledger, Accounts, NoLeak, Owned
<1> QED BY <1>1, SteadyHolds, PTL

-----------------------------------------------------------------------------
(* What its lookups answer *)

\* The record length a lookup took before _check_mtime is that of all versions.
Lengths ==
    /\ pc \in Serving => \A c \in Content : gi.recLen = c.recLen
    /\ pc \in Serving \ {"idle"} => \A c \in Content : loc.pair = 2 * c.recLen

\* The version an update check of this second has to bring in (the ghost due) is
\* followed from the call to the reload: what makes it due is still true at each
\* of the tests _check_mtime makes, and afterwards it is in the file opened.
Timely ==
    /\ pc = "check" /\ loc.due # Null =>
          /\ "CHECK" \in gi.flags /\ gi.lastCheck # now /\ path # 0
          /\ disk[path].mtime # gi.mtime /\ disk[path].mtime + Grace < now
          /\ disk[path].c = loc.due
    /\ pc = "stat" /\ loc.due # Null =>
          /\ path # 0 /\ disk[path].mtime # gi.mtime
          /\ disk[path].mtime + Grace < gi.lastCheck
          /\ disk[path].c = loc.due
    /\ pc \in {"release", "refresh"} /\ loc.due # Null => disk[path].c = loc.due
    /\ pc \in {"reload", "segments", "index", "use"} /\ loc.due # Null =>
          ContentAt(gi.file) = loc.due

\* Without a reload the descriptor and the size that a caller took are the
\* handle's; a reload in progress is marked.
Unmoved ==
    /\ pc \in {"check", "stat", "use"} /\ ~loc.reloaded =>
          loc.fno = gi.file /\ loc.end = gi.size
    /\ pc \in {"reload", "segments", "index"} => loc.reloaded

\* GeoIP_open starts without an answer.
Unasked ==
    pc \in {"open_stat", "open_cache", "open_segments", "open_index"} =>
        answer = NoAnswer

\* What a call in progress knows is still true.
Current == ~writing /\ fault = "none" /\ Lengths /\ Timely /\ Unmoved /\ Unasked

\* What the last call answered is right.
Replied == LookupsFresh /\ InfoOfServed

\* Undisturbed, the environment leaves the file of a handle alone, and either
\* replaces the file at path, after which nothing is due, or leaves that alone too.
LEMMA QuietOutside ==
    ASSUME Undisturbed, Steady, Current, Environment
    PROVE  /\ UNCHANGED <<gi, pc, answer, fault, writing>>
           /\ \/ loc' = [loc EXCEPT !.due = Null]
              \/ /\ loc' = loc /\ path' = path /\ disk' = disk
                 /\ now' = now \/ now' = now + 1
           /\ IsFile(gi.file) => ContentAt(gi.file)' = ContentAt(gi.file)
<1>1. /\ Library /\ \A f : IsFile(f)' = IsFile(f)
      /\ \A f : IsFile(f) => fds'[f] = fds[f]
  BY Outside DEF Steady, Ledger
<1>2. \A c : ~BeginRewrite(c) /\ ~EndRewrite(c)
  BY DEF Undisturbed, BeginRewrite, EndRewrite, MayUpdate, Comes
<1>3. /\ writing' = writing
      /\ \/ loc' = [loc EXCEPT !.due = Null]
         \/ /\ loc' = loc /\ path' = path /\ disk' = disk
            /\ now' = now \/ now' = now + 1
  BY <1>2 DEF Environment, Replace, Unlink, Tick, OtherOpen, OtherClose, Frame,
     files, Current
<1>4. IsFile(gi.file) => ContentAt(gi.file)' = ContentAt(gi.file)
  <2>1. IsFile(gi.file) => fds[gi.file] \in Inode /\ fds[gi.file] <= made
    BY DEF Steady, Ledger, Descriptors, IsFile
  <2>2. Next
    BY DEF Next
  <2> QED BY <1>1, <2>1, <2>2, KeptContents DEF Steady, Undisturbed, ContentAt, Library
<1> QED BY <1>1, <1>3, <1>4 DEF Library

\* Versions of one record length: no step makes a caller's length wrong.
LEMMA StepLengths ==
    ASSUME Undisturbed, OneLength, Steady, Current, Next
    PROVE  Lengths'
<1>1. CASE Environment
  <2>1. UNCHANGED <<gi, pc>> /\ loc'.pair = loc.pair
    BY <1>1, QuietOutside DEF Steady, IInv, TypeOK, Locals
  <2> QED BY <2>1 DEF Current, Lengths
<1>2. CASE BeginCall
  <2>1. gi' = gi /\ pc = "idle"
    BY <1>2 DEF BeginCall, Begin, Crash
  <2>2. /\ pc' \in {"check", "crashed"}
        /\ pc' = "check" => loc'.pair = 2 * gi.recLen
    BY <1>2 DEF BeginCall, Begin, Crash, Goto, NoLocals
  <2> QED BY <2>1, <2>2 DEF Current, Lengths, Serving
<1>3. CASE Lookup \/ DatabaseInfo
  <2>1. UNCHANGED <<gi, loc>> /\ pc = "use" /\ pc' \in {"idle", "crashed"}
    BY <1>3, LookupOutcomes DEF DatabaseInfo, Return, Goto
  <2> QED BY <2>1 DEF Current, Lengths, Serving
<1>4. CASE CheckTime \/ StatPath \/ ReleaseCache \/ RefreshHandle \/ ReloadCache
  <2>1. pc \in Serving \ {"idle"} /\ gi \in Handles /\ loc \in Locals
    BY <1>4 DEF CheckTime, StatPath, ReleaseCache, RefreshHandle, ReloadCache, Serving,
       Steady, IInv, TypeOK
  <2>2. gi'.recLen = gi.recLen /\ loc'.pair = loc.pair
    <3>1. CASE CheckTime \/ StatPath \/ RefreshHandle
      BY <2>1, <3>1 DEF CheckTime, StatPath, RefreshHandle, Handles, Locals
    <3>2. CASE ReleaseCache
      BY <2>1, <3>2 DEF ReleaseCache, Handles
    <3>3. CASE ReloadCache
      BY <2>1, <3>3 DEF ReloadCache, Handles
    <3> QED BY <1>4, <3>1, <3>2, <3>3
  <2> QED BY <2>1, <2>2 DEF Current, Lengths, Serving
<1>5. CASE ReloadSegments \/ ReloadIndex \/ OpenIndex
  <2>1. /\ loc' = loc /\ pc \in {"segments", "index", "open_index"} /\ gi \in Handles
        /\ pc' \in {"use", "index", "idle", "delete"} /\ (pc = "open_index" =>
               pc' # "use")
        /\ (pc = "open_index" => pc' # "index")
    BY <1>5 DEF ReloadSegments, ReloadIndex, OpenIndex, Goto, Steady, IInv, TypeOK
  <2>2. pc = "segments" => \A c \in Content : gi'.recLen = c.recLen
    <3>1. ASSUME pc = "segments"
          PROVE  gi'.recLen = ContentAt(gi.file).recLen
                   /\ ContentAt(gi.file) \in Content
      <4> DEFINE d == ContentAt(gi.file)
      <4>1. d \in Content /\ gi.size = d.size
        BY <3>1, FileFacts DEF Steady, Pieces, IInv, FileOpen
      <4>2. gi' = [gi EXCEPT !.segs = d, !.recLen = RecordLength(d)]
        <5>1. SegmentsFound(d, gi.size) = d /\ ~MayFail("read") /\ ~MayFail("alloc")
          BY <4>1, SoundFacts DEF Undisturbed, MayFail
        <5> QED BY <1>5, <3>1, <5>1 DEF ReloadSegments, ReloadIndex, OpenIndex
      <4>3. RecordLength(d) = d.recLen
        BY <4>1 DEF RecordLength
      <4> HIDE DEF d
      <4>4. gi'.recLen = d.recLen
        BY <2>1, <4>2, <4>3 DEF Handles
      <4> QED BY <4>1, <4>4 DEF d
    <3> QED BY <3>1 DEF OneLength
  <2>3. pc \in {"index", "open_index"} => gi'.recLen = gi.recLen
    BY <1>5, <2>1 DEF ReloadSegments, ReloadIndex, OpenIndex, Handles
  <2>4. pc \in {"index", "open_index"} => \A c \in Content : gi.recLen = c.recLen
    <3>1. ASSUME pc \in {"index", "open_index"}
          PROVE  gi.recLen = ContentAt(gi.file).recLen /\ ContentAt(gi.file) \in Content
      BY <3>1, FileFacts DEF Steady, Pieces, IInv, FileOpen, SegmentsOf
    <3> QED BY <3>1 DEF OneLength
  <2> QED BY <2>1, <2>2, <2>3, <2>4 DEF Current, Lengths, Serving
<1>6. CASE (\E flags \in FlagChoices : OpenFile(flags)) \/ OpenStat \/ OpenCache
           \/ OpenSegments \/ Delete
  BY <1>6 DEF OpenFile, OpenStat, OpenCache, OpenSegments, Delete, Goto, Crash,
     Lengths, Serving
<1> QED BY <1>1, <1>2, <1>3, <1>4, <1>5, <1>6 DEF Next, Step, Program

\* What a caller takes from the handle before _check_mtime.
LEMMA BeginFacts ==
    ASSUME NEW op, Begin(op)
    PROVE  /\ Frame /\ UNCHANGED <<fds, gi, live>> /\ pc = "idle"
           /\ \/ pc' = "crashed"
              \/ /\ pc' = "check" /\ loc'.due = Due /\ loc'.pair = 2 * gi.recLen
                 /\ loc'.fno = gi.file /\ loc'.end = gi.size
<1>1. CASE gi.file = 0
  BY <1>1 DEF Begin, Crash
<1>2. CASE gi.file # 0
  <2> DEFINE due == Due
  <2>1. /\ pc' = "check"
        /\ loc' = [NoLocals EXCEPT
                      !.op = op, !.fno = gi.file, !.pair = 2 * gi.recLen,
                      !.buf = IF gi.cache.kind = "null" THEN "stack" ELSE "null",
                      !.end = gi.size, !.due = due]
    BY <1>2 DEF Begin, Goto
  <2> HIDE DEF due
  <2>2. /\ loc'.due = due /\ loc'.pair = 2 * gi.recLen
        /\ loc'.fno = gi.file /\ loc'.end = gi.size
    BY <2>1 DEF NoLocals
  <2> QED BY <2>1, <2>2 DEF Begin, due
<1> QED BY <1>1, <1>2

\* No step forgets what is due.
LEMMA StepTimely ==
    ASSUME Undisturbed, Steady, Current, Next
    PROVE  Timely'
<1>0. /\ gi \in Handles /\ loc \in Locals /\ now \in Nat /\ gi.lastCheck \in Nat
      /\ gi.lastCheck <= now /\ path \in 0 .. MaxInode /\ Timely /\ Grace \in Nat
      /\ path # 0 => path \in Inode /\ disk[path].mtime \in Nat
      /\ \A what : ~MayFail(what)
  <2>1. path # 0 => path \in Inode
    BY Numbers DEF Steady, IInv, TypeOK, Inode
  <2> QED BY <2>1, FileFacts, Numbers DEF Steady, IInv, TypeOK, Handles,
          CheckedBefore, Current,
          Undisturbed, MayFail
<1>1. CASE Environment
  <2>1. /\ UNCHANGED <<gi, pc>>
        /\ \/ loc' = [loc EXCEPT !.due = Null]
           \/ /\ loc' = loc /\ path' = path /\ disk' = disk
              /\ now' = now \/ now' = now + 1
        /\ IsFile(gi.file) => ContentAt(gi.file)' = ContentAt(gi.file)
    BY <1>1, QuietOutside
  <2>2. CASE loc' = [loc EXCEPT !.due = Null]
    BY <1>0, <2>2 DEF Timely, Locals
  <2>3. CASE loc' = loc /\ path' = path /\ disk' = disk
          /\ (now' = now \/ now' = now + 1)
    <3>1. pc \in {"reload", "segments", "index", "use"} /\ loc.due # Null =>
              ContentAt(gi.file)' = ContentAt(gi.file)
      BY <2>1 DEF Steady, IInv, FileOpen, Pieces, OnePiece
    <3> QED BY <1>0, <2>1, <2>3, <3>1 DEF Timely
  <2> QED BY <2>1, <2>2, <2>3
<1>2. ASSUME NEW op \in Calls, Begin(op) PROVE Timely'
  <2>1. /\ Frame /\ gi' = gi
        /\ pc' = "crashed" \/ (pc' = "check" /\ loc'.due = Due)
    BY <1>2, BeginFacts
  <2>2. Due # Null =>
          /\ "CHECK" \in gi.flags /\ gi.lastCheck # now /\ path # 0
          /\ disk[path].mtime # gi.mtime /\ disk[path].mtime + Grace < now
          /\ disk[path].c = Due
    BY DEF Due
  <2> QED BY <2>1, <2>2 DEF Timely, Frame, files
<1>3. CASE CheckTime
  <2>1. /\ Frame /\ loc' = loc /\ pc = "check"
        /\ \/ pc' = "use" /\ ("CHECK" \notin gi.flags \/ now = gi.lastCheck)
           \/ pc' = "stat" /\ gi' = [gi EXCEPT !.lastCheck = now]
    BY <1>0, <1>3 DEF CheckTime, Goto
  <2>2. pc' = "stat" => gi'.lastCheck = now /\ gi'.mtime = gi.mtime
    BY <1>0, <2>1 DEF Handles
  <2> QED BY <1>0, <2>1, <2>2 DEF Timely, Frame, files
<1>4. CASE StatPath
  <2>1. /\ Frame /\ gi' = gi /\ pc = "stat" /\ loc'.due = loc.due
        /\ \/ path = 0 /\ pc' = "use"
           \/ pc' = "release"
           \/ pc' = "use" /\ ~(/\ disk[path].mtime # gi.mtime
                               /\ disk[path].mtime + Grace < gi.lastCheck)
    BY <1>0, <1>4 DEF StatPath, Goto, Stat, Locals
  <2> QED BY <1>0, <2>1 DEF Timely, Frame, files
<1>5. CASE ReleaseCache
  <2>1. Frame /\ loc' = loc /\ pc = "release" /\ pc' \in {"use", "refresh"}
    BY <1>5 DEF ReleaseCache, Goto
  <2>2. NewHarm = {}
    BY <1>5, NothingFails DEF Steady, Next, Step
  <2>3. pc' = "refresh"
    BY <2>1, <2>2 DEF NewHarm, GivesUp
  <2> QED BY <1>0, <2>1, <2>3 DEF Timely, Frame, files
<1>6. CASE RefreshHandle
  <2>1. Frame /\ pc = "refresh" /\ path # 0 /\ IsFile(gi.file)
        /\ pc' \in {"use", "reload", "crashed"}
    BY <1>6 DEF RefreshHandle, Goto, Crash, Steady, Pieces, Ledger, Lost, Serving,
       Descriptors
  <2>2. NewHarm = {}
    BY <1>6, NothingFails DEF Steady, Next, Step
  <2>3. pc' # "use"
    BY <2>1, <2>2 DEF NewHarm, GivesUp
  <2>4. pc' = "reload" => loc'.due = loc.due /\ fds'[gi'.file] = path
    BY <1>0, <1>6, <2>1, ReopenFacts DEF Locals, Steady
  <2> QED BY <1>0, <2>1, <2>3, <2>4 DEF Timely, Frame, files, ContentAt
<1>7. CASE ReloadCache \/ ReloadSegments \/ ReloadIndex
  <2>1. /\ Frame /\ loc' = loc /\ fds' = fds /\ pc \in {"reload", "segments", "index"}
        /\ pc' \in {"segments", "index", "use"}
    BY <1>7 DEF ReloadCache, ReloadSegments, ReloadIndex, Goto
  <2>2. gi'.file = gi.file
    <3>1. CASE ReloadCache
      BY <1>0, <3>1 DEF ReloadCache, Handles
    <3>2. CASE ReloadSegments \/ ReloadIndex
      BY <1>0, <3>2 DEF ReloadSegments, ReloadIndex, Handles
    <3> QED BY <1>7, <3>1, <3>2
  <2> QED BY <1>0, <2>1, <2>2 DEF Timely, Frame, files, ContentAt
<1>8. CASE Lookup \/ DatabaseInfo
  <2>1. pc' \in {"idle", "crashed"}
    BY <1>8, LookupOutcomes DEF DatabaseInfo, Return, Goto
  <2> QED BY <2>1 DEF Timely
<1>9. CASE (\E flags \in FlagChoices : OpenFile(flags)) \/ OpenStat \/ OpenCache
           \/ OpenSegments \/ OpenIndex \/ Delete
  BY <1>9 DEF OpenFile, OpenStat, OpenCache, OpenSegments, OpenIndex, Delete, Goto,
     Crash, Timely
<1> QED BY <1>1, <1>2, <1>3, <1>4, <1>5, <1>6, <1>7, <1>8, <1>9
        DEF Next, Step, Program, BeginCall

\* No step but a reload moves the descriptor of a caller.
LEMMA StepUnmoved ==
    ASSUME Undisturbed, Steady, Current, Next
    PROVE  Unmoved' /\ Unasked' /\ ~writing'
<1>0. gi \in Handles /\ loc \in Locals /\ Unmoved /\ Unasked /\ ~writing
  BY DEF Steady, IInv, TypeOK, Current
<1>1. CASE Environment
  <2>1. /\ UNCHANGED <<gi, pc, answer, writing>>
        /\ loc' = loc \/ loc' = [loc EXCEPT !.due = Null]
    BY <1>1, QuietOutside
  <2> QED BY <1>0, <2>1 DEF Unmoved, Unasked, Locals
<1>2. CASE BeginCall
  BY <1>0, <1>2, BeginFacts DEF BeginCall, Unmoved, Unasked, Frame, files
<1>3. CASE CheckTime \/ StatPath
  <2>1. /\ Frame /\ pc \in {"check", "stat"} /\ pc' \in {"use", "stat", "release"}
        /\ gi'.file = gi.file /\ gi'.size = gi.size
        /\ loc'.fno = loc.fno /\ loc'.end = loc.end /\ loc'.reloaded = loc.reloaded
    BY <1>0, <1>3 DEF CheckTime, StatPath, Goto, Handles, Locals
  <2> QED BY <1>0, <2>1 DEF Unmoved, Unasked, Frame, files
<1>4. CASE ReleaseCache \/ RefreshHandle
  <2>1. Frame /\ pc \in {"release", "refresh"}
          /\ pc' \in {"use", "refresh", "reload", "crashed"}
    BY <1>4 DEF ReleaseCache, RefreshHandle, Goto, Crash
  <2>2. NewHarm = {}
    BY <1>4, NothingFails DEF Steady, Next, Step
  <2>3. pc' # "use"
    BY <2>1, <2>2 DEF NewHarm, GivesUp
  <2>4. pc' = "reload" => loc'.reloaded
    BY <1>0, <1>4 DEF ReleaseCache, RefreshHandle, Goto, Crash, Locals
  <2> QED BY <1>0, <2>1, <2>3, <2>4 DEF Unmoved, Unasked, Frame, files
<1>5. CASE ReloadCache \/ ReloadSegments \/ ReloadIndex
  <2>1. /\ Frame /\ loc' = loc /\ pc \in {"reload", "segments", "index"}
        /\ pc' \in {"segments", "index", "use"}
    BY <1>5 DEF ReloadCache, ReloadSegments, ReloadIndex, Goto
  <2> QED BY <1>0, <2>1 DEF Unmoved, Unasked, Frame, files
<1>6. CASE Lookup \/ DatabaseInfo
  <2>1. pc' \in {"idle", "crashed"} /\ Frame
    BY <1>6, LookupOutcomes DEF DatabaseInfo, Return, Goto
  <2> QED BY <1>0, <2>1 DEF Unmoved, Unasked, Frame, files
<1>7. CASE (\E flags \in FlagChoices : OpenFile(flags)) \/ OpenStat \/ OpenCache
           \/ OpenSegments \/ OpenIndex \/ Delete
  <2>1. Frame /\ pc' \notin {"check", "stat", "use", "reload", "segments", "index"}
    BY <1>7 DEF OpenFile, OpenStat, OpenCache, OpenSegments, OpenIndex, Delete, Goto,
       Crash
  <2>2. CASE \E flags \in FlagChoices : OpenFile(flags)
    BY <1>0, <2>1, <2>2 DEF OpenFile, Unmoved, Unasked, Frame, files
  <2>3. CASE OpenStat \/ OpenCache \/ OpenSegments \/ OpenIndex
    BY <1>0, <2>1, <2>3 DEF OpenStat, OpenCache, OpenSegments, OpenIndex, Unmoved,
       Unasked,
       Frame, files
  <2>4. CASE Delete
    BY <1>0, <2>1, <2>4 DEF Delete, Goto, Crash, Unmoved, Unasked, Frame, files
  <2> QED BY <1>7, <2>2, <2>3, <2>4
<1> QED BY <1>1, <1>2, <1>3, <1>4, <1>5, <1>6, <1>7 DEF Next, Step, Program

\* Undisturbed, a lookup meets no fault and finds the contents of the file; it finds
\* nothing only where it has no cache and its descriptor is not the handle's.
LEMMA SteadyLookup ==
    ASSUME Undisturbed, Steady, Current, Lookup
    PROVE  /\ pc' = "idle" /\ fault' = "none" /\ UNCHANGED <<gi, loc>>
           /\ answer'.op = "lookup" /\ answer'.due = loc.due
           /\ \/ answer'.found = "found" /\ answer'.is = ContentAt(gi.file)
              \/ /\ answer'.found = "nothing" /\ loc.fno # gi.file
                 /\ gi.cache.kind = "null" /\ gi.index.kind = "null"
<1> DEFINE c == ContentAt(gi.file)
<1>1. /\ pc = "use" /\ loc.op = "lookup" /\ UNCHANGED <<gi, loc>>
      /\ OnePiece /\ c \in Content /\ gi.recLen = c.recLen /\ gi.size = c.size
      /\ loc.pair = 2 * c.recLen /\ 2 * c.recLen <= c.size
      /\ c.size \in Nat /\ c.recLen \in {3, 4} /\ ~MayFail("read") /\ fault = "none"
  <2>1. pc = "use" /\ loc.op = "lookup" /\ UNCHANGED <<gi, loc>> /\ OnePiece
    BY DEF Lookup, Steady, Pieces
  <2>2. c \in Content
    BY <2>1, FileFacts DEF Steady, IInv, OnePiece
  <2> QED BY <2>1, <2>2, ContentFacts
          DEF OnePiece, SegmentsOf, Undisturbed, Sound, MayFail, Current, Lengths,
          Serving
<1>2. loc.pair = 2 * gi.recLen /\ ~(gi.size < loc.pair)
  BY <1>1
<1>3. \/ pc' = "crashed" /\ fault' # "overrun"
      \/ pc' = "idle" /\ answer'.found = "found" /\ answer'.is = c
      \/ /\ pc' = "idle" /\ answer'.found = "nothing"
         /\ gi.cache.kind = "null" /\ gi.index.kind = "null" /\ ~IsFile(loc.fno)
  BY <1>1, <1>2, WholeLookup DEF Steady, Ledger
<1>4. pc' # "crashed"
  <2>1. pc' = "crashed" => fault' \in {"overrun", "null_segments", "null_buf"}
    BY LookupOutcomes
  <2>2. NewHarm = {} /\ Next
    BY NothingFails DEF Steady, Next, Step
  <2>3. {} = After({}) /\ {} = {} \cup NewHarm
    BY <2>2 DEF After
  <2>4. Ledger({}, {})'
    BY <2>2, <2>3, StepLedger DEF Steady
  <2> QED BY <1>3, <2>1, <2>4 DEF Ledger, Blamed
<1>5. IsFile(gi.file) /\ pc' = "idle" /\ fault' = fault
  BY <1>1, <1>3, <1>4, LookupOutcomes DEF OnePiece
<1>6. answer'.op = "lookup" /\ answer'.due = loc.due
  <2> DEFINE given == answer'.op = loc.op /\ answer'.due = loc.due
  <2>1. \A is, found : Return(is, found) => given
    BY DEF Return
  <2>2. \A x : Walked(x) => given \/ pc' = "crashed"
    BY <2>1 DEF Walked, Crash
  <2> HIDE DEF given
  <2>3. given
    BY <1>4, <2>1, <2>2 DEF Lookup, WalkMemory, WalkFile, Crash
  <2> QED BY <1>1, <2>3 DEF given
<1> QED BY <1>1, <1>3, <1>4, <1>5, <1>6

\* Undisturbed, every step leaves right answers and no fault.
LEMMA StepReplied ==
    ASSUME Undisturbed, Steady, Current, Replied, Next
    PROVE  Replied' /\ fault' = "none"
<1>0. fault = "none" /\ Unasked
  BY DEF Current
<1>1. CASE Environment
  <2>1. /\ UNCHANGED <<gi, pc, answer, fault>>
        /\ loc' = loc \/ loc' = [loc EXCEPT !.due = Null]
        /\ IsFile(gi.file) => ContentAt(gi.file)' = ContentAt(gi.file)
    BY <1>1, QuietOutside
  <2>2. loc'.fno = loc.fno
    BY <2>1 DEF Steady, IInv, TypeOK, Locals
  <2>3. pc = "idle" => IsFile(gi.file)
    BY DEF Steady, Pieces, OnePiece
  <2> QED BY <1>0, <2>1, <2>2, <2>3 DEF Replied, LookupsFresh, InfoOfServed
<1>2. CASE Lookup
  <2>1. loc.due # Null => ContentAt(gi.file) = loc.due
    BY <1>2 DEF Lookup, Current, Timely
  <2>2. /\ Frame /\ UNCHANGED <<fds, gi, loc>>
    BY <1>2, LookupOutcomes
  <2>3. loc.fno = gi.file \/ gi.cache.kind # "null" \/ gi.index.kind # "null"
          => answer'.found = "found"
    BY <1>2, SteadyLookup
  <2>4. CASE loc.fno # gi.file /\ gi.cache.kind = "null" /\ gi.index.kind = "null"
    <3>1. ~IsFile(loc.fno)
      BY <2>4 DEF Steady, Ledger, Descriptors, IsFile
    <3>2. answer'.found = "nothing"
      BY <1>2, <2>4, <3>1 DEF Lookup, WalkFile, Return
    <3> QED BY <1>2, <2>2, <2>4, <3>2, SteadyLookup DEF Replied, LookupsFresh,
            InfoOfServed
  <2>5. CASE ~(loc.fno # gi.file /\ gi.cache.kind = "null" /\ gi.index.kind = "null")
    BY <1>2, <2>1, <2>2, <2>5, SteadyLookup DEF Replied, LookupsFresh, InfoOfServed
  <2> QED BY <2>4, <2>5
<1>3. CASE DatabaseInfo
  <2> DEFINE c == ContentAt(gi.file)
  <2>1. /\ Frame /\ UNCHANGED <<fds, gi, loc, fault>> /\ pc = "use" /\ loc.op = "info"
        /\ answer'.op = "info" /\ answer'.reloaded = loc.reloaded
    BY <1>3 DEF DatabaseInfo, Return
  <2>2. OnePiece /\ c \in Content
    BY <2>1, FileFacts DEF Steady, IInv, Pieces, OnePiece
  <2>3. ASSUME ~loc.reloaded PROVE answer'.found = "found" /\ answer'.is = c
    <3>1. loc.fno = gi.file /\ loc.end = c.size /\ c.sound /\ IsFile(gi.file)
            /\ c.size \in Nat
      BY <2>1, <2>2, <2>3, ContentFacts DEF Current, Unmoved, OnePiece, SegmentsOf
    <3>2. ~MayFail("read") /\ ~MayFail("alloc")
      BY DEF Undisturbed, MayFail
    <3> QED BY <1>3, <3>1, <3>2 DEF DatabaseInfo, Return
  <2>4. c' = c
    BY <2>1 DEF ContentAt, Frame, files
  <2> HIDE DEF c
  <2> QED BY <1>0, <2>1, <2>3, <2>4 DEF Replied, LookupsFresh, InfoOfServed, c
<1>4. CASE OpenIndex
  BY <1>0, <1>4 DEF OpenIndex, Unasked, NoAnswer, Replied, LookupsFresh, InfoOfServed
<1>5. CASE (\E flags \in FlagChoices : OpenFile(flags)) \/ OpenStat \/ OpenCache
           \/ OpenSegments \/ Delete \/ BeginCall \/ CheckTime \/ StatPath \/ ReleaseCache
           \/ RefreshHandle \/ ReloadCache \/ ReloadSegments \/ ReloadIndex
  <2>1. pc' # "idle"
    BY <1>5 DEF OpenFile, OpenStat, OpenCache, OpenSegments, Delete, BeginCall, Begin,
       CheckTime, StatPath, ReleaseCache, RefreshHandle, ReloadCache, ReloadSegments,
       ReloadIndex, Goto, Crash
  <2>2. fault' = fault \/ fault' \in {"bad_free", "bad_unmap", "null_file"}
    BY <1>5 DEF OpenFile, OpenStat, OpenCache, OpenSegments, Delete, BeginCall, Begin,
       CheckTime, StatPath, ReleaseCache, RefreshHandle, ReloadCache, ReloadSegments,
       ReloadIndex, Crash
  <2>3. Ledger({}, {})'
    BY StepSteady DEF Steady
  <2> QED BY <1>0, <2>1, <2>2, <2>3
          DEF Ledger, Blamed, Replied, LookupsFresh, InfoOfServed
<1> QED BY <1>1, <1>2, <1>3, <1>4, <1>5 DEF Next, Step, Program

\* The inductive invariant of answers.
InOrder == Steady /\ Current /\ Replied

\* Undisturbed and with one record length, it always holds.
THEOREM InOrderHolds ==
    ASSUME Undisturbed, OneLength
    PROVE  Spec => []InOrder
<1>1. Init => InOrder
  BY InitIInv, InitLedger, InitPieces DEF Init, InOrder, Steady, Current, Lengths,
     Timely,
     Unmoved, Unasked, Serving, Replied, LookupsFresh, InfoOfServed
<1>2. ASSUME InOrder, [Next]_vars PROVE InOrder'
  <2>1. CASE Next
    BY <1>2, <2>1, StepSteady, StepLengths, StepTimely, StepUnmoved, StepReplied
       DEF InOrder, Current
  <2>2. CASE UNCHANGED vars
    <3>1. Steady'
      BY <1>2, StepSteady DEF InOrder
    <3> QED BY <1>2, <2>2, <3>1 DEF InOrder, vars, Current, Lengths, Timely, Unmoved,
            Unasked,
            Replied, LookupsFresh, InfoOfServed, ContentAt
  <2> QED BY <1>2, <2>1, <2>2
<1> QED BY <1>1, <1>2, PTL DEF Spec

\* Undisturbed and with one record length, for any flags and updates: no call meets
\* undefined behaviour.
THEOREM HandleFaultless ==
    ASSUME Undisturbed, OneLength
    PROVE  Spec => []NoFault
<1>1. InOrder => NoFault
  BY DEF InOrder, Current, NoFault
<1> QED BY <1>1, InOrderHolds, PTL

\* Undisturbed and with one record length: every lookup answers from one version of
\* the file, and from the new one if the lookup itself found the file replaced;
\* only without caches, with a reopened file on another descriptor, it finds
\* nothing.
THEOREM LookupsAreFresh ==
    ASSUME Undisturbed, OneLength
    PROVE  Spec => []LookupsFresh
<1>1. InOrder => LookupsFresh
  BY DEF InOrder, Replied
<1> QED BY <1>1, InOrderHolds, PTL

\* Undisturbed and with one record length: GeoIP_database_info describes the version
\* the handle serves, unless this very call reloaded it.
THEOREM InfoIsOfServed ==
    ASSUME Undisturbed, OneLength
    PROVE  Spec => []InfoOfServed
<1>1. InOrder => InfoOfServed
  BY DEF InOrder, Replied
<1> QED BY <1>1, InOrderHolds, PTL
=============================================================================
