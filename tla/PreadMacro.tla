----------------------------- MODULE PreadMacro -----------------------------
(***************************************************************************)
(* GeoIP.c:94-97: on a system without pread and without pread.c, pread is  *)
(* a macro, lseek followed by read, with no lock between the two and the   *)
(* position left where the read ends.                                      *)
(***************************************************************************)
EXTENDS FileBytes

VARIABLES at,          \* thread |-> "idle", "seek", "read" or "returned"
          fdPosition,  \* the position of the shared descriptor
          wanted,      \* thread |-> the macro's argument offset
          got,         \* thread |-> the value of the macro's expression
          disturbed    \* history: the threads between whose lseek and read
                       \* another one moved the position

mvars == <<at, fdPosition, wanted, got, disturbed>>

MacroInit ==
    /\ at = [t \in Thread |-> "idle"]
    /\ fdPosition \in 0 .. FileSize
    /\ wanted \in [Thread -> Offset]
    /\ got = [t \in Thread |-> NoAnswer]
    /\ disturbed = {}

MacroCall(t, o) ==
    /\ at[t] \in {"idle", "returned"}
    /\ at' = [at EXCEPT ![t] = "seek"]
    /\ wanted' = [wanted EXCEPT ![t] = o]
    /\ got' = [got EXCEPT ![t] = NoAnswer]
    /\ disturbed' = disturbed \ {t}
    /\ UNCHANGED fdPosition

\* t moves the position, which the threads that are about to read lose.
Disturb(t) == disturbed' = disturbed \cup {u \in Thread \ {t} : at[u] = "read"}

\* Mutant: the result of lseek is not compared with offset.
MacroSeekUnchecked(t) ==
    /\ at[t] = "seek"
    /\ \/ wanted[t] >= 0 /\ fdPosition' = wanted[t] /\ Disturb(t)
       \/ UNCHANGED <<fdPosition, disturbed>>
    /\ at' = [at EXCEPT ![t] = "read"]
    /\ UNCHANGED <<wanted, got>>

\* lseek(fd, offset, SEEK_SET) == offset, or the value is -1.
MacroSeek(t) ==
    /\ at[t] = "seek"
    /\ \/ /\ wanted[t] >= 0
          /\ fdPosition' = wanted[t]
          /\ at' = [at EXCEPT ![t] = "read"]
          /\ Disturb(t)
          /\ UNCHANGED got
       \/ /\ at' = [at EXCEPT ![t] = "returned"]
          /\ got' = [got EXCEPT ![t] = Failed]
          /\ UNCHANGED <<fdPosition, disturbed>>
    /\ UNCHANGED wanted

MacroRead(t) ==
    /\ at[t] = "read"
    /\ at' = [at EXCEPT ![t] = "returned"]
    /\ \/ /\ got' = [got EXCEPT ![t] = BytesAt(fdPosition)]
          /\ fdPosition' = fdPosition + Available(fdPosition)
          /\ Disturb(t)
       \/ /\ got' = [got EXCEPT ![t] = Failed]
          /\ UNCHANGED <<fdPosition, disturbed>>
    /\ UNCHANGED wanted

MacroNext ==
    \E t \in Thread :
        \/ \E o \in Offset : MacroCall(t, o)
        \/ MacroSeek(t)
        \/ MacroRead(t)

MacroSpec == MacroInit /\ [][MacroNext]_mvars

-----------------------------------------------------------------------------
\* The macro answers with the bytes of its own offset as long as no other
\* thread moves the position between its two calls, whatever it was left at by
\* earlier lookups and whichever calls fail; "Lookups are thread safe"
\* (README.md:161) is true of it only there.
MacroOwnBytes ==
    \A t \in Thread :
        at[t] = "returned" /\ got[t] # Failed /\ t \notin disturbed =>
            got[t] = BytesAt(wanted[t])
=============================================================================
