---------------------------- MODULE HandleFailures ----------------------------
(***************************************************************************)
(* GeoIPHandle with its failures: every system call and allocation of      *)
(* GeoIP_open and _check_mtime may fail, new files may be corrupt, and the *)
(* updater may write in place.  The behaviours are those of GeoIPHandle;   *)
(* two history variables note what has happened to the handle, so that the *)
(* properties can say which failure is to blame for what.                  *)
(***************************************************************************)
EXTENDS GeoIPHandle

VARIABLES
    harm,   \* the statements at which an open or a reload gave up since the
            \* handle was last whole, and "rewritten" if its file was
    ever    \* those at which any did since the program started

hvars == <<vars, harm, ever>>

\* The early returns of _check_mtime (1266, 1276, 1288, 1313, 1321), and of
\* GeoIP_open where mmap failed (1666).
GivesUp ==
    \/ pc = "open_cache" /\ gi'.cache.kind = "failed"
    \/ pc \in {"release", "refresh", "reload", "segments"} /\ pc' = "use"

\* Behind the last one (1326) the index cache is filled, or is not (1331,
\* 1346).
IndexFilled ==
    "INDEX" \in gi.flags =>
        gi'.index = Heap(IndexSize(gi.segs, loc.st.size), ContentAt(gi.file))
Completes == pc = "index" /\ pc' = "use" /\ IndexFilled
IndexLost == pc = "index" /\ pc' = "use" /\ ~IndexFilled

\* The file the handle has open was written to.
Rewritten ==
    /\ pc \notin {"closed", "crashed"} /\ IsFile(gi.file)
    /\ disk'[fds[gi.file]].c # ContentAt(gi.file)

NewHarm == (IF GivesUp \/ IndexLost THEN {pc} ELSE {})
           \cup (IF Rewritten THEN {"rewritten"} ELSE {})

HInit == Init /\ harm = {} /\ ever = {}

HNext ==
    /\ Next
    /\ harm' = IF Completes \/ pc' = "closed" THEN {} ELSE harm \cup NewHarm
    /\ ever' = ever \cup NewHarm

HSpec == HInit /\ [][HNext]_hvars

-----------------------------------------------------------------------------
(* Properties *)

\* Every fault has its failure, and that failure only: memory that was not
\* allocated is freed after a failing mmap of GeoIP_open; a NULL FILE is used
\* after a reload that could not open the file, NULL segments after one that
\* found none, a NULL buffer after one that lost the cache, a heap block is
\* unmapped after two reloads gave up in turn.  Nothing reads behind a cached
\* copy but after a reload that gave up in the middle, on a file cut short in
\* place, or in the lookup that brings in a file of another record length: it
\* took record_length * 2 before _check_mtime.
FaultsHaveACause ==
    /\ fault = "bad_free" => "open_cache" \in harm
    /\ fault = "null_file" => "refresh" \in harm
    /\ fault = "null_segments" => "segments" \in harm
    /\ fault = "null_buf" => harm \cap {"release", "reload"} # {}
    /\ fault = "bad_unmap" => {"reload", "refresh"} \subseteq harm
    /\ fault = "overrun" => harm # {} \/ loc.pair # 2 * gi.recLen

\* Whatever fails in GeoIP_open is released, and of a reload's failures only a
\* realloc (1264, 1331) or an mmap (1284) that failed loses memory; a FILE is
\* never lost.
LeaksHaveACause ==
    pc \in {"idle", "closed"} =>
        /\ Cardinality({f \in Fd : IsFile(f)}) = live.files
        /\ live.files = Owned(gi).files
        /\ ever \cap {"release", "reload", "index"} = {} => live = Owned(gi)

\* A reload that completes makes the handle whole again, whatever had failed
\* before: between calls its parts come from one version of the file unless
\* the last reload gave up.
WholeUnlessHarmed == harm = {} => Coherent

\* A handle that no failure has left in pieces answers with the contents of
\* its file or not at all, also in the lookup that reloads; except that this
\* lookup reads with the old record length, and through the old descriptor
\* when no cache holds the contents.
AnswersUnlessHarmed ==
    pc = "idle" /\ answer.op = "lookup" /\ harm = {} /\ loc.pair = 2 * gi.recLen =>
        /\ answer.found # "wrong"
        /\ answer.found = "found" => answer.is = ContentAt(gi.file)
        /\ answer.found = "nothing" => gi.cache.kind = "null" /\ gi.index.kind = "null"
=============================================================================
