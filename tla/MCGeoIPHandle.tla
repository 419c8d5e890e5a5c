--------------------------- MODULE MCGeoIPHandle ----------------------------
(***************************************************************************)
(* Instances of GeoIPHandle.  Sizes are a few bytes: what matters is which *)
(* of two versions is larger, and that both hold their index.              *)
(***************************************************************************)
EXTENDS GeoIPHandle

Whole == [size |-> 20, nodes |-> 2, recLen |-> 3, fixed |-> FALSE,
          sound |-> TRUE, whole |-> TRUE, name |-> "city"]
City == Whole
BiggerCity == [Whole EXCEPT !.size = 30, !.nodes = 3, !.name = "bigger"]
Country == [Whole EXCEPT !.size = 15, !.fixed = TRUE, !.name = "country"]
Org == [Whole EXCEPT !.size = 40, !.recLen = 4, !.name = "org"]
Partial == [Whole EXCEPT !.size = 8, !.sound = FALSE, !.whole = FALSE,
                         !.name = "partial"]
Corrupt == [Whole EXCEPT !.sound = FALSE, !.name = "corrupt"]
BadIndex == [Whole EXCEPT !.size = 30, !.nodes = 8, !.recLen = 4,
                          !.name = "badindex"]

SameLength == {City, BiggerCity, Country}
Written == {City, BiggerCity, Partial}
WithOrg == {City, Org}
WithCorrupt == {City, Corrupt}

AnyFlags == SUBSET {"MEMORY", "MMAP", "CHECK", "INDEX"}
Modes == {{}, {"MEMORY"}, {"MMAP"}, {"INDEX"}, {"MEMORY", "INDEX"}}
Checked == {m \cup {"CHECK"} : m \in Modes}

\* The instance of handle_reload meets the conditions of the theorems.
ASSUME ReloadConditions == Content = SameLength => Undisturbed /\ OneLength
=============================================================================
