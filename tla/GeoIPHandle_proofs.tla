------------------------- MODULE GeoIPHandle_proofs -------------------------
(***************************************************************************)
(* What holds of a handle for any contents, any number of descriptors and  *)
(* files, and any failures: types, and the rule that a reload starts only  *)
(* from a file that nobody is writing.                                     *)
(***************************************************************************)
EXTENDS GeoIPHandle, WellFoundedInduction, TLAPS

(* Helpers *)

\* A nonempty set of descriptors has a lowest one.
LEMMA LowestExists ==
    ASSUME NEW S, S \subseteq Nat, S # {}
    PROVE  \E f \in S : \A g \in S : f <= g
<1>1. \E R : /\ IsWellFoundedOn(R, Nat)
             /\ \A x, y \in Nat : x < y => <<x, y>> \in R
  <2> DEFINE R == OpToRel(<, Nat)
  <2>1. IsWellFoundedOn(R, Nat)
    BY NatLessThanWellFounded
  <2>2. \A x, y \in Nat : x < y => <<x, y>> \in R
    BY DEF OpToRel
  <2> HIDE DEF R
  <2> QED BY <2>1, <2>2
<1>2. PICK R : /\ IsWellFoundedOn(R, Nat)
               /\ \A x, y \in Nat : x < y => <<x, y>> \in R
  BY <1>1
<1>3. PICK f \in S : \A g \in S : ~(<<g, f>> \in R)
  <2>1. IsWellFoundedOn(R, Nat)
    BY <1>2
  <2> QED BY <2>1, WFMin
<1>4. \A g \in S : g \in Nat /\ f \in Nat /\ ~(g < f)
  BY <1>2, <1>3
<1> QED BY <1>4

\* The bounds are numbers.
LEMMA Numbers ==
    /\ Grace \in Nat /\ MaxTime \in Nat
    /\ MaxInode \in Nat /\ MaxInode > 0 /\ MaxFd \in Nat /\ MaxFd > 0
    /\ FlagChoices \subseteq FlagSets
BY HandleConstants DEF FlagSets

\* fopen returns a descriptor of the process.
LEMMA LowestFreeIsFd == SomeFree => LowestFree \in Fd
<1> SUFFICES ASSUME SomeFree PROVE LowestFree \in Fd
  OBVIOUS
<1> DEFINE S == {f \in Fd : fds[f] = Free}
<1>1. S \subseteq Nat /\ S # {}
  BY HandleConstants DEF SomeFree, Fd
<1>2. PICK f \in S : \A g \in S : f <= g
  BY <1>1, LowestExists
<1>3. f \in Fd /\ fds[f] = Free /\ \A g \in Fd : fds[g] = Free => f <= g
  BY <1>2
<1> QED BY <1>3 DEF LowestFree

\* The parts of a file's content that the handle stores are numbers.
LEMMA ContentFacts ==
    ASSUME NEW c \in Content
    PROVE  /\ c.size \in Nat /\ c.nodes \in Nat /\ c.recLen \in {3, 4}
           /\ c.fixed \in BOOLEAN /\ c.sound \in BOOLEAN /\ c.whole \in BOOLEAN
BY HandleConstants

\* What _setup_segments finds is that of a content, the default, or nothing.
LEMMA SegmentFacts ==
    ASSUME NEW c \in Content, NEW n \in Nat
    PROVE  SegmentsFound(c, n) \in Content \cup {Null, Default}
BY DEF SegmentsFound

\* The record length of _setup_segments is 3 or 4, the size of the index a number.
LEMMA LengthFacts ==
    ASSUME NEW segs \in Content \cup {Null, Default}, NEW n \in Nat
    PROVE  /\ RecordLength(segs) \in {3, 4}
           /\ IndexSize(segs, n) \in Int
<1>1. RecordLength(segs) \in {3, 4}
  BY ContentFacts DEF RecordLength
<1>2. IndexSize(segs, n) \in Int
  <2>1. CASE segs \in Content /\ ~segs.fixed
    <3>1. segs.nodes \in Nat /\ segs.recLen \in Nat
      BY <2>1, ContentFacts
    <3>2. segs.nodes * segs.recLen \in Nat
      BY <3>1
    <3>3. segs.nodes * segs.recLen * 2 \in Nat
      BY <3>2
    <3> QED BY <2>1, <3>3 DEF IndexSize
  <2>2. CASE ~(segs \in Content /\ ~segs.fixed)
    BY <2>2 DEF IndexSize
  <2> QED BY <2>1, <2>2
<1> QED BY <1>1, <1>2

\* Every block and mapping the calls make is a value of the type Memory.
LEMMA MemoryFacts ==
    /\ NoMem \in Memory /\ MapFailed \in Memory
    /\ \A n \in Nat, c \in Content \cup {Null} : Heap(n, c) \in Memory
    /\ \A n \in Nat, i \in 0 .. MaxInode : Map(n, i) \in Memory
<1> USE HandleConstants
<1>1. NoMem \in Memory
  BY DEF NoMem, Memory
<1>2. MapFailed \in Memory
  BY DEF MapFailed, NoMem, Memory
<1>3. \A n \in Nat, c \in Content \cup {Null} : Heap(n, c) \in Memory
  BY DEF Heap, Memory
<1>4. \A n \in Nat, i \in 0 .. MaxInode : Map(n, i) \in Memory
  BY DEF Map, Memory
<1> QED BY <1>1, <1>2, <1>3, <1>4

\* stat and reads through a descriptor of a file give values of their types.
LEMMA FileFacts ==
    ASSUME TypeOK
    PROVE  /\ \A i \in Inode : Stat(i) \in Stats /\ disk[i].c \in Content
                               /\ disk[i].mtime \in Nat
           /\ \A f : IsFile(f) => fds[f] \in Inode /\ ContentAt(f) \in Content
<1>1. \A i \in Inode : disk[i].c \in Content /\ disk[i].mtime \in Nat
  BY DEF TypeOK
<1>2. \A i \in Inode : Stat(i) \in Stats
  BY <1>1, ContentFacts DEF Stat, Stats
<1>3. \A f : IsFile(f) => fds[f] \in Inode /\ ContentAt(f) \in Content
  BY <1>1 DEF IsFile, ContentAt
<1> QED BY <1>1, <1>2, <1>3

(* The inductive invariant *)

\* Where a file must be open, the descriptor is the handle's own: only the
\* thread itself closes it in the middle of a call.
FileOpen ==
    pc \in {"open_stat", "open_cache", "open_segments", "open_index", "reload",
           "segments", "index"} => IsFile(gi.file)

\* A mapping maps a file, and the index is never mapped.
Mapped == /\ gi.cache.kind = "map" => gi.cache.inode \in Inode
          /\ gi.index.kind # "map"

\* A file at rest is complete; a writer has touched its file in the last Grace
\* seconds; the second of the last check is not in the future.
AtRest == ~writing /\ path # 0 => disk[path].c.whole
Touched == writing => path # 0 /\ now <= disk[path].mtime + Grace
CheckedBefore == gi.lastCheck <= now

IInv == TypeOK /\ FileOpen /\ Mapped /\ AtRest /\ Touched /\ CheckedBefore

\* The invariant holds before GeoIP_open.
LEMMA InitIInv == Init => IInv
<1> SUFFICES ASSUME Init PROVE IInv
  OBVIOUS
<1> USE HandleConstants
<1>1. PICK c \in Content : c.whole /\ disk = [i \in Inode |-> [c |-> c, mtime |-> Grace + 1, was |-> {}]]
  BY DEF Init
<1>2. disk \in [Inode -> [c : Content, mtime : Nat, was : SUBSET Nat]]
  BY <1>1
<1>3. gi \in Handles
  BY MemoryFacts DEF Init, Zeroed, Handles, FlagSets
<1>4. loc \in Locals
  BY DEF Init, NoLocals, Locals, FlagSets, Stats
<1>5. answer \in Results
  BY DEF Init, NoAnswer, Results
<1>6. TypeOK
  <2>1. fds \in [Fd -> 0 .. Other] /\ path \in 0 .. MaxInode /\ made \in 0 .. MaxInode
    BY Numbers DEF Init, Other, Free
  <2>2. now \in Nat /\ writing \in BOOLEAN
    <3>1. now \in Nat
      BY Numbers DEF Init
    <3>2. writing \in BOOLEAN
      BY DEF Init
    <3> QED BY <3>1, <3>2
  <2>3. pc \in Points /\ fault \in Faults
    BY DEF Init, Points, Faults
  <2>4. live \in [blocks : Int, maps : Int, files : Int]
    BY DEF Init
  <2> QED BY <1>2, <1>3, <1>4, <1>5, <2>1, <2>2, <2>3, <2>4 DEF TypeOK
<1>7. FileOpen /\ Mapped /\ AtRest /\ Touched /\ CheckedBefore
  BY <1>1 DEF Init, FileOpen, Mapped, AtRest, Touched, CheckedBefore, Zeroed, NoMem, Inode
<1> QED BY <1>6, <1>7 DEF IInv

\* A step of the library touches neither the files nor the clock: what is left
\* to show of it is about the handle and the thread.
LEMMA FrameStep ==
    ASSUME IInv, Frame, fds' \in [Fd -> 0 .. Other], gi' \in Handles,
           pc' \in Points, loc' \in Locals,
           live' \in [blocks : Int, maps : Int, files : Int],
           answer' \in Results, fault' \in Faults,
           FileOpen', Mapped', gi'.lastCheck <= now
    PROVE  IInv'
<1>1. TypeOK'
  BY DEF IInv, TypeOK, Frame, files
<1>2. AtRest' /\ Touched' /\ CheckedBefore'
  BY DEF IInv, AtRest, Touched, CheckedBefore, Frame, files
<1> QED BY <1>1, <1>2 DEF IInv

\* fopen in GeoIP_open keeps the invariant.
LEMMA OpenStep ==
    ASSUME IInv, NEW flags \in FlagChoices, OpenFile(flags)
    PROVE  IInv'
<1>1. TypeOK /\ FileOpen /\ Mapped /\ CheckedBefore /\ Frame /\ fault' = fault
  BY DEF IInv, OpenFile
<1>2. loc' \in Locals /\ answer' \in Results
  <2>1. flags \in FlagSets
    BY Numbers
  <2>2. NoLocals \in Locals /\ NoAnswer \in Results
    BY Numbers DEF NoLocals, Locals, NoAnswer, Results, FlagSets, Stats
  <2>3. loc' = [NoLocals EXCEPT !.op = "open", !.flags = flags] /\ answer' = NoAnswer
    BY DEF OpenFile
  <2> QED BY <2>1, <2>2, <2>3 DEF Locals
<1>3. CASE UNCHANGED <<pc, gi, fds, live>>
  <2>1. FileOpen' /\ Mapped' /\ gi'.lastCheck <= now
    BY <1>1, <1>3 DEF FileOpen, Mapped, CheckedBefore, IsFile
  <2> QED BY <1>1, <1>2, <1>3, <2>1, FrameStep DEF TypeOK
<1>4. CASE /\ path # 0 /\ SomeFree
           /\ fds' = [fds EXCEPT ![LowestFree] = path]
           /\ gi' = [Zeroed EXCEPT !.file = LowestFree]
           /\ live' = [live EXCEPT !.files = @ + 1]
           /\ Goto("open_stat")
  <2>1. LowestFree \in Fd /\ LowestFree \in 0 .. MaxFd
    BY <1>4, LowestFreeIsFd, Numbers DEF Fd
  <2>2. path \in Inode /\ path \in 0 .. Other
    BY <1>1, <1>4, Numbers DEF TypeOK, Inode, Other
  <2>3. gi' \in Handles
    BY <1>4, <2>1, MemoryFacts DEF Handles, Zeroed, FlagSets
  <2>4. fds' \in [Fd -> 0 .. Other]
    BY <1>1, <1>4, <2>2 DEF TypeOK
  <2>5. live' \in [blocks : Int, maps : Int, files : Int]
    BY <1>1, <1>4 DEF TypeOK
  <2>6. FileOpen'
    BY <1>1, <1>4, <2>1, <2>2 DEF TypeOK, FileOpen, IsFile, Zeroed
  <2>7. Mapped' /\ gi'.lastCheck <= now
    BY <1>1, <1>4 DEF Mapped, Zeroed, NoMem, TypeOK
  <2>8. pc' \in Points /\ fault' \in Faults
    BY <1>1, <1>4 DEF Goto, Points, TypeOK
  <2> QED BY <1>1, <1>2, <2>3, <2>4, <2>5, <2>6, <2>7, <2>8, FrameStep
<1> QED BY <1>3, <1>4 DEF OpenFile

\* fstat in GeoIP_open keeps the invariant.
LEMMA OpenStatStep ==
    ASSUME IInv, OpenStat
    PROVE  IInv'
<1>1. TypeOK /\ FileOpen /\ Mapped /\ CheckedBefore /\ Frame
      /\ UNCHANGED <<fds, live, answer, fault>> /\ IsFile(gi.file)
  BY DEF IInv, OpenStat, FileOpen
<1>2. Stat(fds[gi.file]) \in Stats
  BY <1>1, FileFacts
<1>3. gi' \in Handles /\ loc' \in Locals /\ pc' \in Points
  BY <1>1, <1>2 DEF OpenStat, TypeOK, Handles, Locals, Stats, Goto, Points
<1>4. FileOpen' /\ Mapped' /\ gi'.lastCheck <= now
  BY <1>1 DEF OpenStat, FileOpen, Mapped, CheckedBefore, IsFile, TypeOK, Handles
<1> QED BY <1>1, <1>3, <1>4, FrameStep DEF TypeOK

\* Allocating or mapping, and reading, in GeoIP_open keep the invariant.
LEMMA OpenCacheStep ==
    ASSUME IInv, OpenCache
    PROVE  IInv'
<1>1. TypeOK /\ FileOpen /\ Mapped /\ CheckedBefore /\ Frame
      /\ UNCHANGED <<fds, answer, fault>> /\ IsFile(gi.file)
  BY DEF IInv, OpenCache, FileOpen
<1>2. /\ Stat(fds[gi.file]) \in Stats /\ ContentAt(gi.file) \in Content
      /\ disk[fds[gi.file]].mtime \in Nat /\ fds[gi.file] \in Inode
  BY <1>1, FileFacts
<1>3. loc.st.size \in Nat /\ loc.st.mtime \in Nat
  BY <1>1 DEF TypeOK, Locals, Stats
<1>4. /\ MapFailed \in Memory /\ Heap(loc.st.size, ContentAt(gi.file)) \in Memory
      /\ Map(loc.st.size, fds[gi.file]) \in Memory
  BY <1>2, <1>3, MemoryFacts, Numbers DEF Inode
<1>5. gi' \in Handles
  <2>1. \/ gi' = gi
        \/ \E t \in Nat : gi' = [gi EXCEPT !.mtime = t]
        \/ \E t \in Nat, m \in Memory : gi' = [gi EXCEPT !.mtime = t, !.cache = m]
    BY <1>2, <1>3, <1>4 DEF OpenCache
  <2> QED BY <1>1, <2>1 DEF TypeOK, Handles
<1>6. loc' \in Locals
  BY <1>1, <1>2 DEF OpenCache, TypeOK, Locals
<1>7. pc' \in Points /\ live' \in [blocks : Int, maps : Int, files : Int]
  BY <1>1 DEF OpenCache, TypeOK, Goto, Points
<1>8. FileOpen'
  BY <1>1 DEF OpenCache, FileOpen, IsFile, TypeOK, Handles
<1>9. Mapped' /\ gi'.lastCheck <= now
  <2>1. /\ gi'.lastCheck = gi.lastCheck /\ gi'.index = gi.index
        /\ gi'.cache \in {gi.cache, MapFailed, Map(loc.st.size, fds[gi.file]),
                         Heap(loc.st.size, ContentAt(gi.file))}
    BY <1>1 DEF OpenCache, TypeOK, Handles
  <2> QED BY <1>1, <1>2, <2>1 DEF Mapped, CheckedBefore, Heap, Map, MapFailed, NoMem
<1> QED BY <1>1, <1>5, <1>6, <1>7, <1>8, <1>9, FrameStep DEF TypeOK
\* _setup_segments in GeoIP_open keeps the invariant.
LEMMA OpenSegmentsStep ==
    ASSUME IInv, OpenSegments
    PROVE  IInv'
<1>1. TypeOK /\ FileOpen /\ Mapped /\ CheckedBefore /\ Frame
      /\ UNCHANGED <<fds, loc, answer, fault>> /\ IsFile(gi.file)
  BY DEF IInv, OpenSegments, FileOpen
<1>2. SegmentsFound(ContentAt(gi.file), gi.size) \in Content \cup {Null, Default}
  BY <1>1, FileFacts, SegmentFacts DEF TypeOK, Handles
<1>3. PICK segs \in Content \cup {Null, Default} :
          /\ gi' = [gi EXCEPT !.flags = loc.flags, !.segs = segs,
                              !.recLen = RecordLength(segs)]
          /\ live' = IF segs = Null THEN live
                                    ELSE [live EXCEPT !.blocks = @ + 1]
          /\ Goto(IF segs = Null THEN "delete" ELSE "open_index")
  BY <1>2 DEF OpenSegments
<1>4. RecordLength(segs) \in {3, 4} /\ loc.flags \in FlagSets
  BY <1>1, LengthFacts DEF TypeOK, Locals
<1>5. gi' \in Handles
  BY <1>1, <1>3, <1>4 DEF TypeOK, Handles
<1>6. pc' \in Points /\ live' \in [blocks : Int, maps : Int, files : Int]
  BY <1>1, <1>3 DEF TypeOK, Goto, Points
<1>7. FileOpen' /\ Mapped' /\ gi'.lastCheck <= now
  BY <1>1, <1>3 DEF FileOpen, Mapped, CheckedBefore, IsFile, TypeOK, Handles
<1> QED BY <1>1, <1>5, <1>6, <1>7, FrameStep DEF TypeOK

\* Reading the index in GeoIP_open keeps the invariant.
LEMMA OpenIndexStep ==
    ASSUME IInv, OpenIndex
    PROVE  IInv'
<1> DEFINE idx == IndexSize(gi.segs, loc.st.size)
           c == ContentAt(gi.file)
<1>1. TypeOK /\ FileOpen /\ Mapped /\ CheckedBefore /\ Frame
      /\ UNCHANGED <<fds, loc, answer, fault>> /\ IsFile(gi.file)
  BY DEF IInv, OpenIndex, FileOpen
<1>2. idx \in Int /\ c \in Content
  <2>1. gi.segs \in Content \cup {Null, Default} /\ loc.st.size \in Nat
    BY <1>1 DEF TypeOK, Handles, Locals, Stats
  <2> QED BY <1>1, <2>1, LengthFacts, FileFacts
<1>3. /\ \/ gi' = gi /\ live' = live
         \/ /\ idx >= 0
            /\ gi' = [gi EXCEPT !.index = Heap(idx, c)]
            /\ live' = [live EXCEPT !.blocks = @ + 1]
      /\ pc' \in {"delete", "idle"}
  BY DEF OpenIndex, Goto
<1>4. idx >= 0 => Heap(idx, c) \in Memory
  BY <1>2, MemoryFacts
<1> HIDE DEF idx, c
<1>5. gi' \in Handles /\ live' \in [blocks : Int, maps : Int, files : Int]
  BY <1>1, <1>3, <1>4 DEF TypeOK, Handles
<1>6. pc' \in Points /\ FileOpen'
  BY <1>3 DEF Points, FileOpen
<1>7. Mapped' /\ gi'.lastCheck <= now
  BY <1>1, <1>3 DEF Mapped, CheckedBefore, TypeOK, Handles, Heap
<1> QED BY <1>1, <1>5, <1>6, <1>7, FrameStep DEF TypeOK

\* GeoIP_delete keeps the invariant.
LEMMA DeleteStep ==
    ASSUME IInv, Delete
    PROVE  IInv'
<1>1. TypeOK /\ Frame
  BY DEF IInv, Delete
<1>2. fds' \in [Fd -> 0 .. Other]
  BY <1>1, Numbers DEF Delete, TypeOK, Free, Other
<1>3. gi' \in Handles /\ gi'.lastCheck <= now
  BY <1>1, MemoryFacts, Numbers DEF Delete, TypeOK, Handles, Zeroed, FlagSets
<1>4. loc' \in Locals /\ answer' \in Results
  BY Numbers DEF Delete, NoLocals, Locals, NoAnswer, Results, FlagSets, Stats
<1>5. pc' \in {"closed", "crashed"} /\ fault' \in Faults
  BY <1>1 DEF Delete, Goto, Crash, TypeOK, Faults
<1>6. live' \in [blocks : Int, maps : Int, files : Int]
  BY <1>1 DEF Delete, TypeOK, One
<1>7. pc' \in Points /\ FileOpen'
  BY <1>5 DEF Points, FileOpen
<1>8. Mapped'
  BY DEF Delete, Mapped, Zeroed, NoMem
<1> QED BY <1>1, <1>2, <1>3, <1>4, <1>5, <1>6, <1>7, <1>8, FrameStep

\* The file a lookup should serve is content, or there is none.
LEMMA DueFacts == TypeOK => Due \in Content \cup {Null}
<1> SUFFICES ASSUME TypeOK PROVE Due \in Content \cup {Null}
  OBVIOUS
<1>1. path # 0 => path \in Inode
  BY Numbers DEF TypeOK, Inode
<1> QED BY <1>1, FileFacts DEF Due

\* What a call reads before _check_mtime keeps the invariant.
LEMMA BeginStep ==
    ASSUME IInv, NEW op \in Calls, Begin(op)
    PROVE  IInv'
<1>1. TypeOK /\ Mapped /\ CheckedBefore /\ Frame /\ UNCHANGED <<fds, gi, live>>
  BY DEF IInv, Begin
<1>2. loc' \in Locals
  <2>1. CASE loc' = loc
    BY <1>1, <2>1 DEF TypeOK
  <2>2. CASE loc' = [NoLocals EXCEPT
                       !.op = op, !.fno = gi.file, !.pair = 2 * gi.recLen,
                       !.buf = IF gi.cache.kind = "null" THEN "stack" ELSE "null",
                       !.end = gi.size, !.due = Due]
    <3>1. /\ gi.file \in 0 .. MaxFd /\ gi.size \in Nat /\ 2 * gi.recLen \in Nat
          /\ Due \in Content \cup {Null}
      BY <1>1, DueFacts DEF TypeOK, Handles
    <3>2. NoLocals \in Locals
      BY Numbers DEF NoLocals, Locals, FlagSets, Stats
    <3> QED BY <2>2, <3>1, <3>2 DEF Locals
  <2> QED BY <2>1, <2>2 DEF Begin
<1>3. answer' \in Results
  BY DEF Begin, NoAnswer, Results
<1>4. pc' \in {"check", "crashed"} /\ fault' \in Faults
  BY <1>1 DEF Begin, Goto, Crash, TypeOK, Faults
<1>5. pc' \in Points /\ FileOpen'
  BY <1>4 DEF Points, FileOpen
<1>6. Mapped' /\ gi'.lastCheck <= now
  BY <1>1 DEF Mapped, CheckedBefore
<1> QED BY <1>1, <1>2, <1>3, <1>4, <1>5, <1>6, FrameStep DEF TypeOK

\* The clock of _check_mtime keeps the invariant.
LEMMA CheckTimeStep ==
    ASSUME IInv, CheckTime
    PROVE  IInv'
<1>1. TypeOK /\ Mapped /\ CheckedBefore /\ Frame
      /\ UNCHANGED <<fds, loc, live, answer, fault>>
  BY DEF IInv, CheckTime
<1>2. /\ gi' = gi \/ gi' = [gi EXCEPT !.lastCheck = now]
      /\ pc' \in {"use", "stat"}
  BY DEF CheckTime, Goto
<1>3. gi' \in Handles
  BY <1>1, <1>2 DEF TypeOK, Handles
<1>4. pc' \in Points /\ FileOpen'
  BY <1>2 DEF Points, FileOpen
<1>5. Mapped' /\ gi'.lastCheck <= now
  BY <1>1, <1>2 DEF Mapped, CheckedBefore, TypeOK, Handles
<1> QED BY <1>1, <1>3, <1>4, <1>5, FrameStep DEF TypeOK

\* stat in _check_mtime decides on a reload only for a file at rest.
LEMMA StatPathStep ==
    ASSUME IInv, StatPath
    PROVE  IInv'
<1>1. TypeOK /\ Mapped /\ CheckedBefore /\ Frame
      /\ UNCHANGED <<fds, gi, live, answer, fault>>
  BY DEF IInv, StatPath
<1>2. path # 0 => Stat(path) \in Stats
  BY <1>1, FileFacts, Numbers DEF TypeOK, Inode
<1>3. loc' \in Locals /\ pc' \in {"use", "release"}
  BY <1>1, <1>2 DEF StatPath, Goto, TypeOK, Locals
<1>4. pc' \in Points /\ FileOpen'
  BY <1>3 DEF Points, FileOpen
<1>5. Mapped' /\ gi'.lastCheck <= now
  BY <1>1 DEF Mapped, CheckedBefore
<1> QED BY <1>1, <1>3, <1>4, <1>5, FrameStep DEF TypeOK

\* Releasing the old cache keeps the invariant.
LEMMA ReleaseStep ==
    ASSUME IInv, ReleaseCache
    PROVE  IInv'
<1>1. TypeOK /\ Mapped /\ CheckedBefore /\ Frame
      /\ UNCHANGED <<fds, loc, answer, fault>>
  BY DEF IInv, ReleaseCache
<1>2. loc.st.size \in Nat /\ gi.cache.holds \in Content \cup {Null}
  BY <1>1 DEF TypeOK, Locals, Stats, Handles, Memory
<1>3. NoMem \in Memory /\ Heap(loc.st.size, gi.cache.holds) \in Memory
  BY <1>2, MemoryFacts
<1>4. /\ \/ gi' = gi
         \/ gi' = [gi EXCEPT !.cache = NoMem]
         \/ gi' = [gi EXCEPT !.cache = Heap(loc.st.size, gi.cache.holds)]
      /\ pc' \in {"refresh", "use"}
  BY DEF ReleaseCache, Goto
<1>5. gi' \in Handles
  BY <1>1, <1>3, <1>4 DEF TypeOK, Handles
<1>6. live' \in [blocks : Int, maps : Int, files : Int]
  BY <1>1 DEF ReleaseCache, TypeOK, One
<1>7. pc' \in Points /\ FileOpen'
  BY <1>4 DEF Points, FileOpen
<1>8. Mapped' /\ gi'.lastCheck <= now
  BY <1>1, <1>4 DEF Mapped, CheckedBefore, TypeOK, Handles, Heap, NoMem
<1> QED BY <1>1, <1>5, <1>6, <1>7, <1>8, FrameStep DEF TypeOK

\* Closing the old file and opening the new one keeps the invariant.
LEMMA RefreshStep ==
    ASSUME IInv, RefreshHandle
    PROVE  IInv'
<1> DEFINE closed == [fds EXCEPT ![gi.file] = Free]
           fd == CHOOSE f \in Fd : closed[f] = Free
                                   /\ \A g \in Fd : closed[g] = Free => f <= g
<1>1. TypeOK /\ Mapped /\ CheckedBefore /\ Frame /\ answer' = answer
  BY DEF IInv, RefreshHandle
<1>2. closed \in [Fd -> 0 .. Other]
  <2>1. Free \in 0 .. Other
    BY Numbers DEF Free, Other
  <2> QED BY <1>1, <2>1 DEF TypeOK
<1>3. loc.st.size \in Nat /\ loc.st.mtime \in Nat
  BY <1>1 DEF TypeOK, Locals, Stats
<1>4. CASE gi.file = 0
  <2>1. UNCHANGED <<fds, gi, live, loc>> /\ pc' = "crashed" /\ fault' = "null_file"
    BY <1>4 DEF RefreshHandle, Crash
  <2>2. pc' \in Points /\ FileOpen' /\ fault' \in Faults
    BY <2>1 DEF Points, FileOpen, Faults
  <2>3. Mapped' /\ gi'.lastCheck <= now
    BY <1>1, <2>1 DEF Mapped, CheckedBefore
  <2> QED BY <1>1, <2>1, <2>2, <2>3, FrameStep DEF TypeOK
<1>5. CASE /\ gi.file # 0 /\ fds' = closed
           /\ gi' = [gi EXCEPT !.file = 0]
           /\ live' = [live EXCEPT !.files = @ - 1]
           /\ Goto("use") /\ UNCHANGED <<fault, loc>>
  <2>1. gi' \in Handles
    BY <1>1, <1>5, Numbers DEF TypeOK, Handles
  <2>2. pc' \in Points /\ FileOpen'
    BY <1>5 DEF Points, FileOpen, Goto
  <2>3. Mapped' /\ gi'.lastCheck <= now
    BY <1>1, <1>5 DEF Mapped, CheckedBefore, TypeOK, Handles
  <2>4. live' \in [blocks : Int, maps : Int, files : Int]
    BY <1>1, <1>5 DEF TypeOK
  <2> HIDE DEF closed
  <2> QED BY <1>1, <1>2, <1>5, <2>1, <2>2, <2>3, <2>4, FrameStep DEF TypeOK
<1>6. CASE /\ gi.file # 0 /\ path # 0
           /\ fds' = [closed EXCEPT ![fd] = path]
           /\ gi' = [gi EXCEPT !.file = fd, !.mtime = loc.st.mtime,
                               !.size = loc.st.size]
           /\ loc' = [loc EXCEPT !.reloaded = TRUE]
           /\ Goto("reload") /\ UNCHANGED <<live, fault>>
  <2>1. fd \in Fd
    <3> DEFINE S == {f \in Fd : closed[f] = Free}
    <3>1. gi.file \in Fd
      BY <1>1, <1>6, Numbers DEF TypeOK, Handles, Fd
    <3>2. closed[gi.file] = Free
      BY <1>1, <3>1 DEF TypeOK
    <3>3. S \subseteq Nat /\ S # {}
      BY <3>1, <3>2, Numbers DEF Fd
    <3>4. PICK f \in S : \A g \in S : f <= g
      BY <3>3, LowestExists
    <3>5. f \in Fd /\ closed[f] = Free /\ \A g \in Fd : closed[g] = Free => f <= g
      BY <3>4
    <3> HIDE DEF closed
    <3> QED BY <3>5
  <2>2. fd \in 0 .. MaxFd /\ path \in Inode /\ path \in 0 .. Other
    BY <1>1, <1>6, <2>1, Numbers DEF TypeOK, Fd, Inode, Other
  <2> HIDE DEF closed, fd
  <2>3. gi' \in Handles
    BY <1>1, <1>3, <1>6, <2>2 DEF TypeOK, Handles
  <2>4. fds' \in [Fd -> 0 .. Other]
    BY <1>2, <1>6, <2>2
  <2>5. loc' \in Locals
    BY <1>1, <1>6 DEF TypeOK, Locals
  <2>6. pc' = "reload" /\ pc' \in Points
    BY <1>6 DEF Goto, Points
  <2>7. FileOpen'
    <3>1. gi'.file = fd
      BY <1>1, <1>6 DEF TypeOK, Handles
    <3>2. fds'[fd] = path
      BY <1>2, <1>6, <2>1
    <3> QED BY <2>1, <2>2, <3>1, <3>2 DEF FileOpen, IsFile
  <2>8. Mapped' /\ gi'.lastCheck <= now
    BY <1>1, <1>6 DEF Mapped, CheckedBefore, TypeOK, Handles
  <2> QED BY <1>1, <1>6, <2>3, <2>4, <2>5, <2>6, <2>7, <2>8, FrameStep DEF TypeOK
<1> QED BY <1>4, <1>5, <1>6 DEF RefreshHandle

\* Filling the new cache keeps the invariant.
LEMMA ReloadCacheStep ==
    ASSUME IInv, ReloadCache
    PROVE  IInv'
<1> DEFINE n == loc.st.size
           c == ContentAt(gi.file)
           i == fds[gi.file]
<1>1. TypeOK /\ FileOpen /\ Mapped /\ CheckedBefore /\ Frame
      /\ UNCHANGED <<fds, loc, answer, fault>> /\ IsFile(gi.file)
  BY DEF IInv, ReloadCache, FileOpen
<1>2. n \in Nat /\ c \in Content /\ i \in Inode
  BY <1>1, FileFacts DEF TypeOK, Locals, Stats
<1>3. NoMem \in Memory /\ Map(n, i) \in Memory
  BY <1>2, MemoryFacts DEF Inode
<1>4. /\ \/ gi' = gi
         \/ gi' = [gi EXCEPT !.cache = NoMem]
         \/ gi' = [gi EXCEPT !.cache = Map(n, i)]
         \/ \E h \in {c, Null} : gi' = [gi EXCEPT !.cache.holds = h]
      /\ pc' \in {"use", "segments"}
  BY DEF ReloadCache, Goto
<1>5. live' \in [blocks : Int, maps : Int, files : Int]
  BY <1>1 DEF ReloadCache, TypeOK
<1>6. fds' = fds
  BY <1>1
<1> HIDE DEF n, c
<1>7. gi' \in Handles /\ gi'.lastCheck = gi.lastCheck /\ gi'.file = gi.file
  BY <1>1, <1>2, <1>3, <1>4 DEF TypeOK, Handles, Memory
<1>8. Mapped'
  BY <1>1, <1>2, <1>4 DEF Mapped, TypeOK, Handles, Memory, Map, NoMem
<1>9. pc' \in Points /\ FileOpen'
  BY <1>1, <1>4, <1>6, <1>7 DEF Points, FileOpen, IsFile
<1> QED BY <1>1, <1>5, <1>7, <1>8, <1>9, FrameStep DEF TypeOK, CheckedBefore

\* _setup_segments in a reload keeps the invariant.
LEMMA ReloadSegmentsStep ==
    ASSUME IInv, ReloadSegments
    PROVE  IInv'
<1>1. TypeOK /\ FileOpen /\ Mapped /\ CheckedBefore /\ Frame
      /\ UNCHANGED <<fds, loc, answer, fault>> /\ IsFile(gi.file)
  BY DEF IInv, ReloadSegments, FileOpen
<1>2. SegmentsFound(ContentAt(gi.file), gi.size) \in Content \cup {Null, Default}
  BY <1>1, FileFacts, SegmentFacts DEF TypeOK, Handles
<1>3. PICK segs \in Content \cup {Null, Default} :
          /\ gi' = [gi EXCEPT !.segs = segs, !.recLen = RecordLength(segs)]
          /\ live' = [live EXCEPT !.blocks =
                        @ - One(gi.segs # Null) + One(segs # Null)]
          /\ Goto(IF segs = Null THEN "use" ELSE "index")
  BY <1>2 DEF ReloadSegments
<1>4. RecordLength(segs) \in {3, 4}
  BY <1>1, LengthFacts
<1>5. gi' \in Handles
  BY <1>1, <1>3, <1>4 DEF TypeOK, Handles
<1>6. pc' \in Points /\ live' \in [blocks : Int, maps : Int, files : Int]
  BY <1>1, <1>3 DEF TypeOK, Goto, Points, One
<1>7. FileOpen' /\ Mapped' /\ gi'.lastCheck <= now
  BY <1>1, <1>3 DEF FileOpen, Mapped, CheckedBefore, IsFile, TypeOK, Handles
<1> QED BY <1>1, <1>5, <1>6, <1>7, FrameStep DEF TypeOK

\* Reading the index in a reload keeps the invariant.
LEMMA ReloadIndexStep ==
    ASSUME IInv, ReloadIndex
    PROVE  IInv'
<1> DEFINE idx == IndexSize(gi.segs, loc.st.size)
           c == ContentAt(gi.file)
<1>1. TypeOK /\ FileOpen /\ Mapped /\ CheckedBefore /\ Frame
      /\ UNCHANGED <<fds, loc, answer, fault>> /\ IsFile(gi.file)
  BY DEF IInv, ReloadIndex, FileOpen
<1>2. idx \in Int /\ c \in Content
  <2>1. gi.segs \in Content \cup {Null, Default} /\ loc.st.size \in Nat
    BY <1>1 DEF TypeOK, Handles, Locals, Stats
  <2> QED BY <1>1, <2>1, LengthFacts, FileFacts
<1>3. /\ \/ gi' = gi
         \/ gi' = [gi EXCEPT !.index = NoMem]
         \/ /\ idx >= 0
            /\ \E h \in {c, Null} : gi' = [gi EXCEPT !.index = Heap(idx, h)]
      /\ pc' = "use"
  BY DEF ReloadIndex, Goto
<1>4. live' \in [blocks : Int, maps : Int, files : Int]
  BY <1>1 DEF ReloadIndex, TypeOK, One
<1>5. NoMem \in Memory /\ (idx >= 0 => \A h \in {c, Null} : Heap(idx, h) \in Memory)
  BY <1>2, MemoryFacts
<1> HIDE DEF idx, c
<1>6. gi' \in Handles
  BY <1>1, <1>3, <1>5 DEF TypeOK, Handles
<1>7. pc' \in Points /\ FileOpen'
  BY <1>3 DEF Points, FileOpen
<1>8. Mapped' /\ gi'.lastCheck <= now
  BY <1>1, <1>3 DEF Mapped, CheckedBefore, TypeOK, Handles, Heap, NoMem
<1> QED BY <1>1, <1>4, <1>6, <1>7, <1>8, FrameStep DEF TypeOK

\* What a walk over content c may answer.
LEMMA WalkedFacts ==
    ASSUME TypeOK, NEW c \in Content \cup {Null}, Walked(c)
    PROVE  answer' \in Results /\ pc' \in {"idle", "crashed"} /\ fault' \in Faults
<1>1. /\ loc.op \in {"none", "open"} \cup Calls /\ loc.due \in Content \cup {Null}
      /\ loc.reloaded \in BOOLEAN /\ answer \in Results /\ fault \in Faults
  BY DEF TypeOK, Locals
<1>2. \/ Crash("null_segments") /\ answer' = answer
      \/ Return(c, "found") \/ Return(Null, "wrong")
  BY DEF Walked
<1> QED BY <1>1, <1>2 DEF Crash, Return, Goto, Results, Faults

\* A lookup behind _check_mtime keeps the invariant.
LEMMA LookupStep ==
    ASSUME IInv, Lookup
    PROVE  IInv'
<1>1. TypeOK /\ Mapped /\ CheckedBefore /\ Frame /\ UNCHANGED <<fds, gi, loc, live>>
  BY DEF IInv, Lookup
<1>2. /\ loc.op \in {"none", "open"} \cup Calls /\ loc.due \in Content \cup {Null}
      /\ loc.reloaded \in BOOLEAN /\ answer \in Results /\ fault \in Faults
  BY <1>1 DEF TypeOK, Locals
<1>3. Shows(gi.cache) \in Content \cup {Null} /\ Shows(gi.index) \in Content \cup {Null}
  <2>1. gi.cache.holds \in Content \cup {Null} /\ gi.index.holds \in Content \cup {Null}
    BY <1>1 DEF TypeOK, Handles, Memory
  <2>2. gi.cache.kind = "map" => disk[gi.cache.inode].c \in Content
    BY <1>1, FileFacts DEF Mapped
  <2> QED BY <1>1, <2>1, <2>2 DEF Shows, Mapped
<1>4. answer' \in Results /\ pc' \in {"idle", "crashed"} /\ fault' \in Faults
  <2>1. CASE Return(Null, "nothing")
    BY <1>2, <2>1 DEF Return, Goto, Results
  <2>2. CASE WalkMemory(gi.index)
    BY <1>1, <1>2, <1>3, <2>2, WalkedFacts DEF WalkMemory, Crash, Faults
  <2>3. CASE WalkMemory(gi.cache)
    BY <1>1, <1>2, <1>3, <2>3, WalkedFacts DEF WalkMemory, Crash, Faults
  <2>4. CASE WalkFile
    <3>1. IsFile(loc.fno) => ContentAt(loc.fno) \in Content \cup {Null}
      BY <1>1, FileFacts
    <3>2. CASE Return(Null, "nothing")
      BY <2>1, <3>2
    <3>3. CASE Crash("null_buf") /\ UNCHANGED answer
      BY <1>2, <3>3 DEF Crash, Faults
    <3>4. CASE IsFile(loc.fno) /\ Walked(ContentAt(loc.fno))
      BY <1>1, <3>1, <3>4, WalkedFacts
    <3> QED BY <2>4, <3>2, <3>3, <3>4 DEF WalkFile
  <2> QED BY <2>1, <2>2, <2>3, <2>4 DEF Lookup
<1>5. pc' \in Points /\ FileOpen'
  BY <1>4 DEF Points, FileOpen
<1>6. Mapped' /\ gi'.lastCheck <= now
  BY <1>1 DEF Mapped, CheckedBefore
<1> QED BY <1>1, <1>4, <1>5, <1>6, FrameStep DEF TypeOK

\* GeoIP_database_info behind _check_mtime keeps the invariant.
LEMMA DatabaseInfoStep ==
    ASSUME IInv, DatabaseInfo
    PROVE  IInv'
<1>1. TypeOK /\ Mapped /\ CheckedBefore /\ Frame /\ UNCHANGED <<fds, gi, loc, live>>
  BY DEF IInv, DatabaseInfo
<1>2. IsFile(loc.fno) => ContentAt(loc.fno) \in Content
  BY <1>1, FileFacts
<1>3. \/ Return(Null, "nothing") \/ Return(Null, "wrong")
      \/ IsFile(loc.fno) /\ Return(ContentAt(loc.fno), "found")
  BY DEF DatabaseInfo
<1>4. /\ loc.op \in {"none", "open"} \cup Calls /\ loc.due \in Content \cup {Null}
      /\ loc.reloaded \in BOOLEAN
  BY <1>1 DEF TypeOK, Locals
<1>5. answer' \in Results /\ pc' = "idle" /\ fault' = fault
  BY <1>2, <1>3, <1>4 DEF Return, Goto, Results
<1>6. pc' \in Points /\ FileOpen'
  BY <1>5 DEF Points, FileOpen
<1>7. Mapped' /\ gi'.lastCheck <= now
  BY <1>1 DEF Mapped, CheckedBefore
<1> QED BY <1>1, <1>5, <1>6, <1>7, FrameStep DEF TypeOK

(* The environment: the thread's part of the invariant is untouched as long *)
(* as descriptors of the handle are.                                        *)

\* Updater, clock and the rest of the program keep the invariant.
LEMMA EnvironmentStep ==
    ASSUME IInv, Environment
    PROVE  IInv'
<1> DEFINE lib == UNCHANGED <<gi, pc, live, answer, fault>>
<1>0. TypeOK /\ FileOpen /\ Mapped /\ AtRest /\ Touched /\ CheckedBefore
  BY DEF IInv
<1>a. /\ disk \in [Inode -> [c : Content, mtime : Nat, was : SUBSET Nat]] /\ now \in Nat
      /\ path \in 0 .. MaxInode /\ made \in 0 .. MaxInode /\ gi.lastCheck \in Nat
      /\ fds \in [Fd -> 0 .. Other] /\ loc \in Locals
  BY <1>0 DEF TypeOK, Handles
<1>b. [loc EXCEPT !.due = Null] \in Locals
  BY <1>a DEF Locals
<1>1. ASSUME NEW c \in Content, NEW m \in 1 .. now, Replace(c, m) PROVE IInv'
  <2>1. lib /\ UNCHANGED <<now, writing, fds>> /\ loc' \in Locals
    BY <1>1, <1>b DEF Replace, Library
  <2>2. /\ made < MaxInode /\ ~writing /\ c.whole /\ path' = made + 1
        /\ made' = made + 1
        /\ disk' = [disk EXCEPT ![made + 1] = [c |-> c, mtime |-> m, was |-> {}]]
    BY <1>1 DEF Replace
  <2>3. made + 1 \in Inode /\ m \in Nat
    BY <1>a, <2>2, Numbers DEF Inode
  <2>4. /\ disk' \in [Inode -> [c : Content, mtime : Nat, was : SUBSET Nat]]
        /\ disk'[made + 1].c = c
        /\ path' \in 0 .. MaxInode /\ made' \in 0 .. MaxInode
    BY <1>a, <2>2, <2>3, Numbers DEF Inode
  <2>5. TypeOK'
    BY <1>0, <2>1, <2>4 DEF TypeOK
  <2>6. AtRest' /\ Touched'
    BY <2>1, <2>2, <2>4 DEF AtRest, Touched
  <2>7. FileOpen' /\ Mapped' /\ CheckedBefore'
    BY <1>0, <2>1 DEF FileOpen, Mapped, CheckedBefore, IsFile
  <2> QED BY <2>5, <2>6, <2>7 DEF IInv
<1>2. CASE Unlink
  <2>1. lib /\ UNCHANGED <<now, disk, made, writing, fds>> /\ loc' \in Locals
        /\ path' = 0 /\ ~writing
    BY <1>2, <1>b DEF Unlink, Library
  <2>2. TypeOK'
    BY <1>0, <2>1, Numbers DEF TypeOK
  <2>3. AtRest' /\ Touched' /\ FileOpen' /\ Mapped' /\ CheckedBefore'
    BY <1>0, <2>1 DEF AtRest, Touched, FileOpen, Mapped, CheckedBefore, IsFile
  <2> QED BY <2>2, <2>3 DEF IInv
<1>3. ASSUME NEW c \in Content, BeginRewrite(c) \/ EndRewrite(c) PROVE IInv'
  <2>1. lib /\ UNCHANGED <<now, path, made, fds>> /\ loc' \in Locals
        /\ path # 0 /\ writing' \in BOOLEAN /\ (~writing' => c.whole)
    BY <1>0, <1>3, <1>b DEF BeginRewrite, EndRewrite, Library, Touched
  <2>2. path \in Inode
    BY <1>a, <2>1, Numbers DEF Inode
  <2>3. /\ disk' \in [Inode -> [c : Content, mtime : Nat, was : SUBSET Nat]]
        /\ disk'[path].c = c /\ disk'[path].mtime = now
    <3>1. CASE BeginRewrite(c)
      <4> DEFINE w == (disk[path].was \cup {disk[path].mtime}) \cap {gi.mtime}
      <4>1. w \in SUBSET Nat
        BY <1>a, <2>2
      <4>2. disk' = [disk EXCEPT ![path] = [c |-> c, mtime |-> now, was |-> w]]
        BY <3>1, <2>2, <1>a DEF BeginRewrite
      <4> HIDE DEF w
      <4> QED BY <1>a, <2>2, <4>1, <4>2
    <3>2. CASE EndRewrite(c)
      BY <1>a, <2>2, <3>2 DEF EndRewrite
    <3> QED BY <1>3, <3>1, <3>2
  <2>4. TypeOK'
    BY <1>0, <2>1, <2>3 DEF TypeOK
  <2>5. AtRest' /\ Touched'
    BY <1>a, <2>1, <2>3, Numbers DEF AtRest, Touched
  <2>6. FileOpen' /\ Mapped' /\ CheckedBefore'
    BY <1>0, <2>1 DEF FileOpen, Mapped, CheckedBefore, IsFile
  <2> QED BY <2>4, <2>5, <2>6 DEF IInv
<1>4. CASE Tick
  <2>1. lib /\ UNCHANGED <<path, made, writing, fds, loc>> /\ now' = now + 1
    BY <1>4 DEF Tick, Library
  <2>2. \/ UNCHANGED disk /\ ~writing
        \/ UNCHANGED disk /\ writing /\ now' <= disk[path].mtime + Grace
        \/ writing /\ disk' = [disk EXCEPT ![path].mtime = now']
    BY <1>4 DEF Tick
  <2>3. writing => path \in Inode
    BY <1>0, <1>a, Numbers DEF Touched, Inode
  <2>4. /\ disk' \in [Inode -> [c : Content, mtime : Nat, was : SUBSET Nat]] /\ now' \in Nat
        /\ writing => now' <= disk'[path].mtime + Grace
    BY <1>a, <2>1, <2>2, <2>3, Numbers
  <2>5. TypeOK'
    BY <1>0, <2>1, <2>4 DEF TypeOK
  <2>6. AtRest' /\ Touched'
    BY <1>0, <2>1, <2>2, <2>4 DEF AtRest, Touched
  <2>7. FileOpen' /\ Mapped' /\ CheckedBefore'
    BY <1>0, <1>a, <2>1 DEF FileOpen, Mapped, CheckedBefore, IsFile
  <2> QED BY <2>5, <2>6, <2>7 DEF IInv
<1>5. ASSUME OtherOpen \/ \E f \in Fd : OtherClose(f) PROVE IInv'
  <2>1. lib /\ Frame /\ loc' = loc /\ pc \in {"idle", "closed"}
    BY <1>5 DEF OtherOpen, OtherClose, Library
  <2>2. fds' \in [Fd -> 0 .. Other]
    <3>1. Free \in 0 .. Other /\ Other \in 0 .. Other
      BY Numbers DEF Free, Other
    <3> QED BY <1>a, <1>5, <3>1 DEF OtherOpen, OtherClose
  <2>3. FileOpen' /\ Mapped' /\ gi'.lastCheck <= now
    BY <1>0, <2>1 DEF FileOpen, Mapped, CheckedBefore
  <2> QED BY <1>0, <2>1, <2>2, <2>3, FrameStep DEF TypeOK
<1> QED BY <1>1, <1>2, <1>3, <1>4, <1>5 DEF Environment

\* Every step keeps the invariant.
LEMMA StepIInv == IInv /\ [Next]_vars => IInv'
<1> SUFFICES ASSUME IInv, [Next]_vars PROVE IInv'
  OBVIOUS
<1>1. CASE Environment
  BY <1>1, EnvironmentStep
<1>2. CASE Step
  BY <1>2, OpenStatStep, OpenCacheStep, OpenSegmentsStep, OpenIndexStep, DeleteStep,
     CheckTimeStep, StatPathStep, ReleaseStep, RefreshStep, ReloadCacheStep,
     ReloadSegmentsStep, ReloadIndexStep, LookupStep, DatabaseInfoStep DEF Step
<1>3. CASE Program
  BY <1>3, OpenStep, BeginStep, DeleteStep DEF Program, BeginCall
<1>4. CASE UNCHANGED vars
  <2>1. Frame /\ UNCHANGED <<fds, gi, pc, loc, live, answer, fault>>
    BY <1>4 DEF vars, Frame, files
  <2>2. FileOpen' /\ Mapped' /\ gi'.lastCheck <= now
    BY <2>1 DEF IInv, FileOpen, Mapped, CheckedBefore, IsFile
  <2> QED BY <2>1, <2>2, FrameStep DEF IInv, TypeOK
<1> QED BY <1>1, <1>2, <1>3, <1>4 DEF Next

(* The theorems *)

\* The inductive invariant of the handle: types, and a writer at work keeps its
\* file young.
THEOREM InvariantHolds == Spec => []IInv
BY InitIInv, StepIInv, PTL DEF Spec

\* The fields of the handle keep their types through any sequence of failing
\* opens, reloads, crashes and updates of the file.
THEOREM TypeCorrect == Spec => []TypeOK
<1>1. IInv => TypeOK
  BY DEF IInv
<1> QED BY <1>1, InvariantHolds, PTL

\* _check_mtime starts to reload only a file at rest: whoever writes it has
\* touched it too recently for the comparison of GeoIP.c:1248 to pass.
THEOREM ReloadStartsAtRest == Spec => ReloadsSettledFile
<1>1. IInv /\ [Next]_vars =>
        [pc = "stat" /\ pc' = "release" => ~writing /\ disk[path].c.whole]_vars
  <2> SUFFICES ASSUME IInv, Next, pc = "stat", pc' = "release"
               PROVE  ~writing /\ disk[path].c.whole
    OBVIOUS
  <2>1. StatPath
    <3>1. CASE Environment
      BY <3>1 DEF Environment, Library, Replace, Unlink, BeginRewrite, EndRewrite,
                  Tick, OtherOpen, OtherClose
    <3>2. CASE Step
      BY <3>2 DEF Step, OpenStat, OpenCache, OpenSegments, OpenIndex, CheckTime,
                  ReleaseCache, RefreshHandle, ReloadCache, ReloadSegments,
                  ReloadIndex, Lookup, DatabaseInfo
    <3>3. CASE Program
      BY <3>3 DEF Program, OpenFile, BeginCall, Begin
    <3> QED BY <3>1, <3>2, <3>3 DEF Next
  <2>2. path # 0 /\ disk[path].mtime + Grace < gi.lastCheck
    BY <2>1 DEF StatPath, Stat, Goto
  <2>3. gi.lastCheck <= now /\ gi.lastCheck \in Nat /\ now \in Nat
    BY DEF IInv, CheckedBefore, TypeOK, Handles
  <2>4. path \in Inode /\ disk[path].mtime \in Nat
    BY <2>2, FileFacts, Numbers DEF IInv, TypeOK, Inode
  <2>5. ~writing
    BY <2>2, <2>3, <2>4, Numbers DEF IInv, Touched
  <2> QED BY <2>2, <2>5 DEF IInv, AtRest
<1> QED BY <1>1, InvariantHolds, PTL DEF Spec, ReloadsSettledFile
=============================================================================
