----------------------------- MODULE FileBytes ------------------------------
(***************************************************************************)
(* What a read of the database file returns.  The bytes themselves do not  *)
(* matter: an answer is where they start and how many there are.           *)
(***************************************************************************)
EXTENDS Integers

CONSTANTS Thread,     \* the threads that share one descriptor
          Offset,     \* the offsets they ask for; a negative one is refused
          FileSize,   \* number of bytes of the file
          Count       \* number of bytes one call asks for

ASSUME ReadConstants ==
    /\ Offset \subseteq Int
    /\ FileSize \in Nat
    /\ Count \in Nat \ {0}

Available(p) ==
    IF p >= FileSize THEN 0
    ELSE IF FileSize - p < Count THEN FileSize - p ELSE Count

BytesAt(p) == [from |-> p, n |-> Available(p)]
Failed == [from |-> -1, n |-> -1]         \* the call returned -1
NoAnswer == [from |-> -2, n |-> -2]       \* the call has not returned yet
=============================================================================
