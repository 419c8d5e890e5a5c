----------------------------- MODULE RegionCodes ------------------------------
(***************************************************************************)
(* The number that GeoIP_region_name_by_code (regionName.c) makes of the   *)
(* two characters of a region code, and the way back.                      *)
(***************************************************************************)
EXTENDS Integers, Sequences

(* Texts: sequences of unsigned characters, ended by a NUL. *)

CharAt(text, i) == IF i <= Len(text) THEN text[i] ELSE 0

IsDigit(c) == c \in 48 .. 57
IsCode(c) == IsDigit(c) \/ c \in 65 .. 90

\* Mutant: the base is the number of characters, not the width of their range.
RegionCode2BySize(text) ==
    LET a == CharAt(text, 1)
        b == CharAt(text, 2)
    IN  IF IsDigit(a) /\ IsDigit(b) THEN (a - 48) * 10 + b - 48
        ELSE IF IsCode(a) /\ IsCode(b) THEN (a - 48) * 36 + b - 48 + 100
        ELSE -1

\* The number of a region code, or -1: "any mixture of two letter fips codes
\* matching [A-Z0-9]{2}" (ChangeLog:323).
RegionCode2(text) ==
    LET a == CharAt(text, 1)
        b == CharAt(text, 2)
    IN  IF IsDigit(a) /\ IsDigit(b) THEN (a - 48) * 10 + b - 48
        ELSE IF IsCode(a) /\ IsCode(b) THEN (a - 48) * 43 + b - 48 + 100
        ELSE -1

\* The characters that are looked at to find it.
CharsRead(text) == {1} \cup (IF IsCode(CharAt(text, 1)) THEN {2} ELSE {})

\* The region code that has a number.
RegionText(n) == IF n < 100 THEN <<48 + (n \div 10), 48 + (n % 10)>>
                 ELSE <<48 + ((n - 100) \div 43), 48 + ((n - 100) % 43)>>
=============================================================================
