------------------------------ MODULE MCPread -------------------------------
(***************************************************************************)
(* Three threads on one descriptor, in a library that is built with        *)
(* pread.c or with the macro; the other of the two does not run.           *)
(***************************************************************************)
EXTENDS Pread, PreadMacro

VARIABLE build

MCOffset == {-1, 0, 2, 5}

AllZero == [t \in Thread |-> 0]

BuildInit ==
    /\ build \in {"pread.c", "macro"}
    /\ wanted = AllZero      \* set again by every call
    /\ IF build = "macro" THEN position = 0 /\ offset = AllZero ELSE fdPosition = 0
    /\ Init /\ MacroInit

BuildNext ==
    /\ \/ build = "pread.c" /\ Next /\ UNCHANGED mvars
       \/ build = "macro" /\ MacroNext /\ UNCHANGED vars
    /\ UNCHANGED build

BuildSpec ==
    /\ BuildInit /\ [][BuildNext]_<<vars, mvars, build>>
    /\ \A t \in Thread : WF_vars(build = "pread.c" /\ Inside(t) /\ UNCHANGED <<mvars, build>>)
=============================================================================
