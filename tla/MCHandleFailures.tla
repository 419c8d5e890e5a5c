--------------------------- MODULE MCHandleFailures ---------------------------
(***************************************************************************)
(* An instance of HandleFailures.  BadIndex is larger than City, has       *)
(* records of another length, and says that its index is larger than       *)
(* itself.                                                                 *)
(***************************************************************************)
EXTENDS HandleFailures, MCGeoIPHandle

Failing == {City, Partial, BadIndex}
FailingFlags == {{"CHECK"}, {"CHECK", "INDEX"}, {"CHECK", "MMAP"},
                 {"CHECK", "MEMORY", "INDEX"}}

\* The instance meets the conditions of the theorems about it.
ASSUME FailureConditions == Racing = {} /\ HoldsNode
=============================================================================
