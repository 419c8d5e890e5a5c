---------------------------- MODULE MCRangeByIp -----------------------------
(***************************************************************************)
(* Addresses of three bits, and every database that a tree of three nodes  *)
(* with the values 3 and 4 gives, walked the way SeekRecord walks it.      *)
(***************************************************************************)
EXTENDS RangeByIp

MCTop == 7
MCSize == [m \in 0 .. 3 |-> 2 ^ (3 - m)]

Tested(a, k) == (a \div 2 ^ (2 - k)) % 2     \* the bit tested in iteration k

\* What the walk from the root of tree r returns for address a.
Result(r, a) ==
    LET walk[at \in (0 .. 3) \X (0 .. 2)] ==
            LET k == at[1]
                x == r[at[2]][Tested(a, k)]
            IN  IF k = 3 THEN [value |-> 0, netmask |-> Lost]
                ELSE IF x >= 3 THEN [value |-> x, netmask |-> k + 1]
                ELSE walk[<<k + 1, x>>]
    IN  walk[<<0, 0>>]

Lookups(r) == [a \in Address |-> Result(r, a)]

Trees == {[n \in 0 .. 2 |-> CASE n = 0 -> root [] n = 1 -> left [] n = 2 -> right] :
             root \in [{0, 1} -> {1, 2, 3, 4}],
             left \in [{0, 1} -> {2, 3, 4}], right \in [{0, 1} -> {3, 4}]}
Sound == {Lookups(r) : r \in Trees}

\* One with a cycle: some addresses are not found.
Cyclic == {Lookups([n \in 0 .. 2 |-> [b \in {0, 1} |-> IF b = 0 THEN 3 ELSE 0]])}
\* Versions of one file: any may replace any while a range is computed.
Versions == {Lookups([n \in 0 .. 2 |->
                 CASE n = 0 -> [b \in {0, 1} |-> IF b = 0 THEN 1 ELSE 4]
                   [] n = 1 -> left
                   [] n = 2 -> [b \in {0, 1} |-> 3 + b]]) :
                left \in [{0, 1} -> {2, 3, 4}]}
NewerVersions == [d \in Sound |-> IF d \in Versions THEN Versions ELSE {}]
NoVersions == [d \in Cyclic |-> {}]
=============================================================================
