---------------------------- MODULE MCSeekRecord ----------------------------
(***************************************************************************)
(* Addresses of three bits, in three families of databases: trees of two   *)
(* nodes with two values, some of them cyclic; files that end before the   *)
(* second node; and trees of three nodes with an index cache, where the    *)
(* file holds no more than the index or some more.  Teredo addresses start *)
(* with 1, and their last bit is the client's.                             *)
(***************************************************************************)
EXTENDS SeekRecord, TLC

Cycles == {[segments |-> 2, pairs |-> 2, cached |-> FALSE,
            record |-> [i \in 0 .. 1 |-> IF i = 0 THEN root ELSE left]] :
              root \in {f \in [Bit -> 0 .. 2] : f[0] # 2},
              left \in {f \in [Bit -> 0 .. 3] : f[0] \in {0, 2} /\ f[1] \in {1, 3}}}
Truncated == {[segments |-> 2, pairs |-> 1, cached |-> FALSE, record |-> r] :
                 r \in [{0} -> {f \in [Bit -> 0 .. 2] : f[0] # 2 /\ f[1] # 0}]}

Leaf(x) == [b \in Bit |-> x + b]
Indexed ==
    {[segments |-> 3, pairs |-> n, cached |-> TRUE,
      record |-> [i \in 0 .. n - 1 |-> CASE i = 0 -> root [] i = 1 -> left
                                          [] OTHER -> Leaf(5)]] :
        n \in {3, 4}, root \in [Bit -> {1, 3}], left \in [Bit -> {2, 4}]}

MCDatabase == Cycles \cup Truncated \cup Indexed
MCPrefix == [i \in {0} |-> 1]
Symmetric == Permutations(Thread)
=============================================================================
