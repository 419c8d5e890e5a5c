--------------------------- MODULE PositionalRead ---------------------------
(***************************************************************************)
(* What the library asks of pread(fd, buf, count, offset): a call answers  *)
(* with the bytes found at the offset it was given, or with -1, whatever   *)
(* other threads do meanwhile, and the position of the descriptor, which   *)
(* the threads share, is the same after every step.  Every lookup of       *)
(* GeoIP.c and GeoIPCity.c relies on it; pread.c and the macro of          *)
(* GeoIP.c:94-97 stand in for it where the C library has no pread.         *)
(***************************************************************************)
EXTENDS FileBytes

VARIABLES phase,      \* thread |-> "idle", "asked" or "answered"
          asked,      \* thread |-> the offset of its last call
          answer,     \* thread |-> what the last call returned
          position    \* the descriptor's position, as other users see it

pvars == <<phase, asked, answer, position>>

PInit ==
    /\ phase = [t \in Thread |-> "idle"]
    /\ asked \in [Thread -> Offset]
    /\ answer = [t \in Thread |-> NoAnswer]
    /\ position \in 0 .. FileSize

Ask(t, o) ==
    /\ phase[t] # "asked"
    /\ phase' = [phase EXCEPT ![t] = "asked"]
    /\ asked' = [asked EXCEPT ![t] = o]
    /\ answer' = [answer EXCEPT ![t] = NoAnswer]
    /\ UNCHANGED position

Answer(t) ==
    /\ phase[t] = "asked"
    /\ phase' = [phase EXCEPT ![t] = "answered"]
    /\ \/ answer' = [answer EXCEPT ![t] = Failed]
       \/ /\ asked[t] >= 0
          /\ answer' = [answer EXCEPT ![t] = BytesAt(asked[t])]
    /\ UNCHANGED <<asked, position>>

PNext == \E t \in Thread : Answer(t) \/ \E o \in Offset : Ask(t, o)

PSpec == PInit /\ [][PNext]_pvars
=============================================================================
