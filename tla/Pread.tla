------------------------------- MODULE Pread --------------------------------
(***************************************************************************)
(* src/libGeoIP/pread.c: pread for Windows, where the C library has only   *)
(* lseek and read.  A process-wide critical section is held from reading   *)
(* the current position to restoring it.  One action per system call; the  *)
(* C library's _lseek and _read are external and may fail.                 *)
(***************************************************************************)
EXTENDS FileBytes

CONSTANT NoThread     \* no thread: the critical section is free

ASSUME NoThreadAssumption == NoThread \notin Thread

VARIABLES pc,         \* thread |-> the statement of pread it is at
          preadsc,    \* the thread inside the critical section, or NoThread
          position,   \* the position of the shared descriptor
          offset,     \* thread |-> parameter offset
          prev,       \* thread |-> local prev: the position to restore, or -1
          cc          \* thread |-> what the call has got so far

vars == <<pc, preadsc, position, offset, prev, cc>>

Init ==
    /\ pc = [t \in Thread |-> "idle"]
    /\ preadsc = NoThread
    /\ position \in 0 .. FileSize
    /\ offset \in [Thread -> Offset]
    /\ prev = [t \in Thread |-> -1]
    /\ cc = [t \in Thread |-> NoAnswer]

\* A lookup calls pread: cc = -1, prev = -1.
Call(t, o) ==
    /\ pc[t] \in {"idle", "returned"}
    /\ pc' = [pc EXCEPT ![t] = "enter"]
    /\ offset' = [offset EXCEPT ![t] = o]
    /\ prev' = [prev EXCEPT ![t] = -1]
    /\ cc' = [cc EXCEPT ![t] = Failed]
    /\ UNCHANGED <<preadsc, position>>

\* Mutant: no critical section.
EnterUnlocked(t) ==
    /\ pc[t] = "enter"
    /\ preadsc' = t
    /\ pc' = [pc EXCEPT ![t] = "tell"]
    /\ UNCHANGED <<position, offset, prev, cc>>

EnterCriticalSection(t) ==
    /\ pc[t] = "enter"
    /\ preadsc = NoThread
    /\ preadsc' = t
    /\ pc' = [pc EXCEPT ![t] = "tell"]
    /\ UNCHANGED <<position, offset, prev, cc>>

\* prev = _lseek(fd, 0L, SEEK_CUR); on failure goto done.
Tell(t) ==
    /\ pc[t] = "tell"
    /\ \/ /\ prev' = [prev EXCEPT ![t] = position]
          /\ pc' = [pc EXCEPT ![t] = "seek"]
       \/ /\ pc' = [pc EXCEPT ![t] = "done"]
          /\ UNCHANGED prev
    /\ UNCHANGED <<preadsc, position, offset, cc>>

\* Mutant: a failing _lseek is tried again.
SeekRetries(t) ==
    /\ pc[t] = "seek"
    /\ \/ /\ offset[t] >= 0
          /\ position' = offset[t]
          /\ pc' = [pc EXCEPT ![t] = "read"]
       \/ /\ pc' = [pc EXCEPT ![t] = "tell"]
          /\ UNCHANGED position
    /\ UNCHANGED <<preadsc, offset, prev, cc>>

\* _lseek(fd, offset, SEEK_SET); on failure the position stays, goto done.
Seek(t) ==
    /\ pc[t] = "seek"
    /\ \/ /\ offset[t] >= 0
          /\ position' = offset[t]
          /\ pc' = [pc EXCEPT ![t] = "read"]
       \/ /\ pc' = [pc EXCEPT ![t] = "done"]
          /\ UNCHANGED position
    /\ UNCHANGED <<preadsc, offset, prev, cc>>

\* cc = _read(fd, buf, nbyte): the bytes at the position, which moves on.
Read(t) ==
    /\ pc[t] = "read"
    /\ pc' = [pc EXCEPT ![t] = "done"]
    /\ \/ /\ cc' = [cc EXCEPT ![t] = BytesAt(position)]
          /\ position' = position + Available(position)
       \/ UNCHANGED <<cc, position>>
    /\ UNCHANGED <<preadsc, offset, prev>>

\* Mutant: no seek back.
RestoreNever(t) ==
    /\ pc[t] = "done"
    /\ pc' = [pc EXCEPT ![t] = "leave"]
    /\ UNCHANGED <<preadsc, position, offset, prev, cc>>

\* done: put the position back if it was read.
Restore(t) ==
    /\ pc[t] = "done"
    /\ position' = IF prev[t] # -1 THEN prev[t] ELSE position
    /\ pc' = [pc EXCEPT ![t] = "leave"]
    /\ UNCHANGED <<preadsc, offset, prev, cc>>

LeaveCriticalSection(t) ==
    /\ pc[t] = "leave"
    /\ preadsc' = NoThread
    /\ pc' = [pc EXCEPT ![t] = "returned"]
    /\ UNCHANGED <<position, offset, prev, cc>>

Inside(t) ==
    Tell(t) \/ Seek(t) \/ Read(t) \/ Restore(t) \/ LeaveCriticalSection(t)

Next ==
    \E t \in Thread :
        \/ \E o \in Offset : Call(t, o)
        \/ EnterCriticalSection(t)
        \/ Inside(t)

Spec == Init /\ [][Next]_vars

\* A thread inside the critical section keeps running; which of the waiting
\* threads gets in next, and when, is not promised.
FairSpec == Spec /\ \A t \in Thread : WF_vars(Inside(t))

-----------------------------------------------------------------------------
(* Refinement: a call in progress that has saved the position may have      *)
(* moved it, so what others rely on is the saved one.                       *)

Saved(t) == pc[t] \in {"seek", "read", "done"} /\ prev[t] # -1

phaseBar ==
    [t \in Thread |-> IF pc[t] = "idle" THEN "idle"
                      ELSE IF pc[t] = "returned" THEN "answered" ELSE "asked"]
answerBar ==
    [t \in Thread |-> IF pc[t] = "returned" THEN cc[t] ELSE NoAnswer]
positionBar ==
    IF preadsc \in Thread /\ Saved(preadsc) THEN prev[preadsc] ELSE position

P == INSTANCE PositionalRead WITH phase <- phaseBar, asked <- offset,
                                  answer <- answerBar, position <- positionBar

-----------------------------------------------------------------------------
Points == {"idle", "enter", "tell", "seek", "read", "done", "leave", "returned"}
Answers == [from : Int, n : Int]

\* Types, and the position and the saved positions never become negative.
TypeOK ==
    /\ pc \in [Thread -> Points]
    /\ preadsc \in Thread \cup {NoThread}
    /\ position \in Nat
    /\ offset \in [Thread -> Offset]
    /\ prev \in [Thread -> Nat \cup {-1}]
    /\ cc \in [Thread -> Answers]

\* The critical section of pread.c keeps the others out from the first _lseek
\* to the last: a thread at any of its statements is its owner.
Critical(t) == pc[t] \in {"tell", "seek", "read", "done", "leave"}
MutualExclusion == \A t \in Thread : Critical(t) <=> preadsc = t

\* A pread that returned bytes returned those of its own offset, although the
\* position it read them at is shared with every other thread (the claim
\* "Lookups are thread safe", README.md:161, on builds without a pread).
OwnBytes ==
    \A t \in Thread : pc[t] = "returned" /\ cc[t] # Failed =>
        cc[t] = BytesAt(offset[t])

\* Every behaviour of pread.c is one of the positional read the lookups use:
\* the answers are those of the offsets asked for, and no step of a call
\* moves the position other users of the descriptor rely on.
ImplementsPositionalRead == P!PSpec

\* A thread that entered the critical section leaves it and returns, whichever
\* _lseek or _read fails on the way; otherwise every later lookup would hang.
EnteredCallsReturn ==
    \A t \in Thread : preadsc = t ~> preadsc # t /\ pc[t] = "returned"
=============================================================================
