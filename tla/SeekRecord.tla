----------------------------- MODULE SeekRecord -----------------------------
(***************************************************************************)
(* _GeoIP_seek_record_gl and _GeoIP_seek_record_v6_gl (GeoIP.c): the walk  *)
(* down the binary tree that finds the record of an address, one iteration *)
(* of the loop at a time, by any number of threads on one handle.          *)
(*                                                                         *)
(* The file is its sequence of record pairs: pair x starts at byte         *)
(* record_pair_length * x.  Values below databaseSegments[0] are nodes,    *)
(* the others are what a lookup returns.                                   *)
(***************************************************************************)
EXTENDS Integers

CONSTANTS Thread,    \* the threads that look addresses up
          Width,     \* bits of an address: 32, or 128 for IPv6
          Database,  \* the loaded databases: [segments, pairs, cached, record]
          TeredoPrefix, \* the first bits of Teredo addresses: 2001:0::/32
          ClientBits,   \* the last bits, which hold the client's address: 32
          Switches      \* the arguments GeoIP_enable_teredo is called with

Bit == {0, 1}
Address == [0 .. Width - 1 -> Bit]    \* bit 0 is the one tested first

ASSUME SeekConstants ==
    /\ Width \in Nat \ {0}
    /\ \A d \in Database :
          /\ d.segments \in Nat \ {0}       \* databaseSegments[0]
          /\ d.pairs \in Nat                \* whole pairs in gi->size bytes
          /\ d.record \in [0 .. d.pairs - 1 -> [Bit -> Nat]]
          /\ d.cached \in BOOLEAN            \* reads go to the index cache
          \* get_index_size: the index never exceeds the size of the file
          /\ d.cached => d.segments <= d.pairs
    /\ DOMAIN TeredoPrefix \subseteq 0 .. Width - 1
    /\ ClientBits \in 0 .. Width
    /\ Switches \subseteq Int

VARIABLES db,        \* the database the handle has loaded
          teredo,    \* the Teredo bit of gi->ext_flags, as the threads find it
          wanted,    \* history: what GeoIP_enable_teredo was last given
          gi_netmask,\* gi->netmask, shared by the threads
          pc,        \* thread |-> "idle", "walking", "found" or "lost"
          asked,     \* thread |-> the address it was asked to look up
          under,     \* thread |-> history: what was wanted when it started
          ipnum,     \* thread |-> the address it walks down with
          step,      \* thread |-> iterations done: Width - 1 - depth
          offset,    \* thread |-> the node it is at
          netmask,   \* thread |-> gl->netmask, or Unset
          value,     \* thread |-> what the call returned
          trail      \* thread |-> history: the node after each iteration

vars == <<db, teredo, wanted, gi_netmask, pc, asked, under, ipnum, step, offset,
          netmask, value, trail>>

Unset == -1       \* the caller's GeoIPLookup, not initialised

Init ==
    /\ db \in Database
    /\ teredo = TRUE /\ wanted = 1      \* GeoIP_open
    /\ gi_netmask = 0
    /\ pc = [t \in Thread |-> "idle"]
    /\ \E ip \in Address : asked = [t \in Thread |-> ip]
    /\ under = [t \in Thread |-> 1]
    /\ ipnum = asked
    /\ step = [t \in Thread |-> 0]
    /\ offset = [t \in Thread |-> 0]
    /\ netmask = [t \in Thread |-> Unset]
    /\ value = [t \in Thread |-> 0]
    /\ trail = [t \in Thread |-> [i \in 0 .. Width |-> 0]]

\* __GEOIP_PREPARE_TEREDO: the client's address is stored with its bits
\* flipped in the last bits of a Teredo address; the rest is cleared.
IsTeredo(ip) == \A i \in DOMAIN TeredoPrefix : ip[i] = TeredoPrefix[i]
\* Mutant: the client's bits are taken as they are stored.
PrepareUnflipped(ip) ==
    IF IsTeredo(ip)
    THEN [i \in 0 .. Width - 1 |-> IF i < Width - ClientBits THEN 0 ELSE ip[i]]
    ELSE ip

PrepareTeredo(ip) ==
    IF IsTeredo(ip)
    THEN [i \in 0 .. Width - 1 |-> IF i < Width - ClientBits THEN 0 ELSE 1 - ip[i]]
    ELSE ip

Start(t, ip) ==
    /\ pc[t] # "walking"
    /\ pc' = [pc EXCEPT ![t] = "walking"]
    /\ asked' = [asked EXCEPT ![t] = ip]
    /\ under' = [under EXCEPT ![t] = wanted]
    /\ ipnum' = [ipnum EXCEPT ![t] = IF teredo THEN PrepareTeredo(ip) ELSE ip]
    /\ step' = [step EXCEPT ![t] = 0]
    /\ offset' = [offset EXCEPT ![t] = 0]
    /\ netmask' = [netmask EXCEPT ![t] = Unset]
    /\ value' = [value EXCEPT ![t] = 0]
    /\ trail' = [trail EXCEPT ![t] = [i \in 0 .. Width |-> 0]]
    /\ UNCHANGED <<db, teredo, wanted, gi_netmask>>

\* The pointer is invalid: byte_offset > gi->size - record_pair_length.
Invalid(t) == offset[t] >= db.pairs

\* The record of the branch that the address's next bit takes.
Next_x(t) == db.record[offset[t]][ipnum[t][step[t]]]

\* Mutant: the size of the file instead of databaseSegments[0].
DescendBySize(t) ==
    /\ pc[t] = "walking" /\ step[t] < Width /\ ~Invalid(t)
    /\ Next_x(t) < db.pairs
    /\ offset' = [offset EXCEPT ![t] = Next_x(t)]
    /\ step' = [step EXCEPT ![t] = @ + 1]
    /\ trail' = [trail EXCEPT ![t][step[t] + 1] = Next_x(t)]
    /\ UNCHANGED <<db, teredo, wanted, gi_netmask, pc, asked, under, ipnum, netmask,
                   value>>

\* x < databaseSegments[0]: go on from node x.
Descend(t) ==
    /\ pc[t] = "walking" /\ step[t] < Width /\ ~Invalid(t)
    /\ Next_x(t) < db.segments
    /\ offset' = [offset EXCEPT ![t] = Next_x(t)]
    /\ step' = [step EXCEPT ![t] = @ + 1]
    /\ trail' = [trail EXCEPT ![t][step[t] + 1] = Next_x(t)]
    /\ UNCHANGED <<db, teredo, wanted, gi_netmask, pc, asked, under, ipnum, netmask,
                   value>>

\* Mutant: Width - 1 - depth for a netmask.
FindShortNetmask(t) ==
    /\ pc[t] = "walking" /\ step[t] < Width /\ ~Invalid(t)
    /\ Next_x(t) >= db.segments
    /\ netmask' = [netmask EXCEPT ![t] = step[t]]
    /\ gi_netmask' = step[t]
    /\ value' = [value EXCEPT ![t] = Next_x(t)]
    /\ step' = [step EXCEPT ![t] = @ + 1]
    /\ trail' = [trail EXCEPT ![t][step[t] + 1] = Next_x(t)]
    /\ pc' = [pc EXCEPT ![t] = "found"]
    /\ UNCHANGED <<db, teredo, wanted, asked, under, ipnum, offset>>

\* gi->netmask = gl->netmask = Width - depth; return x.
Find(t) ==
    /\ pc[t] = "walking" /\ step[t] < Width /\ ~Invalid(t)
    /\ Next_x(t) >= db.segments
    /\ netmask' = [netmask EXCEPT ![t] = step[t] + 1]
    /\ gi_netmask' = step[t] + 1
    /\ value' = [value EXCEPT ![t] = Next_x(t)]
    /\ step' = [step EXCEPT ![t] = @ + 1]
    /\ trail' = [trail EXCEPT ![t][step[t] + 1] = Next_x(t)]
    /\ pc' = [pc EXCEPT ![t] = "found"]
    /\ UNCHANGED <<db, teredo, wanted, asked, under, ipnum, offset>>

\* An invalid pointer, or no bit left: return 0, both netmasks untouched.
Lose(t) ==
    /\ pc[t] = "walking"
    /\ step[t] = Width \/ Invalid(t)
    /\ pc' = [pc EXCEPT ![t] = "lost"]
    /\ UNCHANGED <<db, teredo, wanted, gi_netmask, asked, under, ipnum, step, offset,
                   netmask, value, trail>>

\* Mutant: the bit that is set is never cleared.
EnableTeredoKeeps(true_false) ==
    /\ teredo' = (teredo \/ true_false % 2 = 1)
    /\ wanted' = true_false
    /\ UNCHANGED <<db, gi_netmask, pc, asked, under, ipnum, step, offset, netmask,
                   value, trail>>

\* The bit is cleared, and the argument itself, not the bit, ORed in: an even
\* one leaves it clear.  No other bit of ext_flags is ever looked at.
EnableTeredo(true_false) ==
    /\ teredo' = (true_false % 2 = 1)
    /\ wanted' = true_false
    /\ UNCHANGED <<db, gi_netmask, pc, asked, under, ipnum, step, offset, netmask,
                   value, trail>>

Walk(t) == Descend(t) \/ Find(t) \/ Lose(t)

Next ==
    \/ \E t \in Thread : Walk(t) \/ \E ip \in Address : Start(t, ip)
    \/ \E true_false \in Switches : EnableTeredo(true_false)

Spec == Init /\ [][Next]_vars

-----------------------------------------------------------------------------
TypeOK ==
    /\ db \in Database
    /\ teredo \in BOOLEAN /\ wanted \in Int
    /\ gi_netmask \in 0 .. Width
    /\ pc \in [Thread -> {"idle", "walking", "found", "lost"}]
    /\ asked \in [Thread -> Address] /\ under \in [Thread -> Int]
    /\ ipnum \in [Thread -> Address]
    /\ step \in [Thread -> 0 .. Width]
    /\ offset \in [Thread -> Nat]
    /\ netmask \in [Thread -> 1 .. Width \cup {Unset}]
    /\ value \in [Thread -> Nat]
    /\ trail \in [Thread -> [0 .. Width -> Nat]]

\* The first n bits of two addresses are the same.
Agree(a, b, n) == \A i \in 0 .. n - 1 : a[i] = b[i]

\* Reads stay inside the index cache.  It is shorter than the file, and the
\* loop compares byte_offset with the size of the file only: what keeps the
\* reads inside is that every node visited is below databaseSegments[0].
IndexReadsInside ==
    \A t \in Thread : db.cached /\ pc[t] = "walking" => offset[t] < db.segments

\* What a netmask promises: every address with the same first netmask bits
\* has the same value and the same netmask, so the block the caller reports
\* (GeoIP_range_by_ip, GeoIP_last_netmask, GeoIPRecord.netmask) is right.
BlockHasOneValue ==
    \A t, u \in Thread :
        /\ pc[t] = "found" /\ pc[u] = "found"
        /\ Agree(ipnum[t], ipnum[u], netmask[t])
        => value[u] = value[t] /\ netmask[u] = netmask[t]

\* Two addresses of the same block never differ in being found at all.
BlockFoundOrNot ==
    \A t, u \in Thread :
        /\ pc[t] = "found" /\ pc[u] = "lost"
        => ~Agree(ipnum[t], ipnum[u], netmask[t])

\* With Teredo on, a Teredo address has the value of its client's own IPv4
\* address, which the database holds at ::a.b.c.d, and the same netmask; with
\* Teredo off every address is looked up as it stands.  It is on from
\* GeoIP_open, and then as GeoIP_enable_teredo was told before the lookup
\* started, whatever others are under way; an even argument, true or not, is off.
TeredoIsItsClient ==
    \A t \in Thread :
        /\ under[t] % 2 = 0 => ipnum[t] = asked[t]
        /\ \A u \in Thread :
              /\ under[t] % 2 = 1 /\ pc[t] = "found" /\ pc[u] = "found"
              /\ IsTeredo(asked[t]) /\ ~IsTeredo(asked[u])
              /\ \A i \in 0 .. Width - 1 :
                    asked[u][i] = IF i < Width - ClientBits THEN 0
                                  ELSE 1 - asked[t][i]
              => value[t] = value[u] /\ netmask[t] = netmask[u]

\* A found value lies behind the tree, and a lookup that fails returns 0,
\* which no successful one does, and leaves gl->netmask as the caller had it.
ZeroMeansLost ==
    \A t \in Thread :
        /\ pc[t] = "found" => value[t] >= db.segments /\ netmask[t] # Unset
        /\ pc[t] = "lost" => value[t] = 0 /\ netmask[t] = Unset
=============================================================================
