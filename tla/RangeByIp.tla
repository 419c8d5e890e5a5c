----------------------------- MODULE RangeByIp ------------------------------
(***************************************************************************)
(* GeoIP_range_by_ip_gl (GeoIP.c:2553-2598): the range of addresses around *)
(* ip that have its value, found by looking up the neighbours of the range *)
(* one after the other.  A lookup is one action here: a database is what   *)
(* _GeoIP_seek_record_gl returns for each address, with the netmask it     *)
(* writes; SeekRecord shows that the netmask delimits a block of one value.*)
(***************************************************************************)
EXTENDS Integers

CONSTANTS Top,        \* the last address: 0xffffffff
          Netmask,    \* the netmasks: 0 .. 32
          Size,       \* netmask |-> number of addresses of its blocks
          Database,   \* sets of lookups: address |-> [value, netmask]
          Newer,      \* database |-> the versions an updater may put in its place
          MaxReloads  \* bound: reloads by GEOIP_CHECK_CACHE during a call

Address == 0 .. Top
Lost == -1            \* netmask of a lookup that failed and did not write it
Lookup == [value : Nat, netmask : Netmask \cup {Lost}]

ASSUME RangeConstants ==
    /\ Top \in Nat
    /\ Netmask \subseteq Nat
    /\ Size \in [Netmask -> Nat \ {0}]
    /\ \A m \in Netmask : (Top + 1) % Size[m] = 0
    /\ Database \subseteq [Address -> Lookup]
    /\ Newer \in [Database -> SUBSET Database]
    /\ MaxReloads \in Nat

\* First and last address of the block of a with netmask m: a & mask, and the
\* same with all bits behind the mask set.
BlockFirst(a, m) == (a \div Size[m]) * Size[m]
BlockLast(a, m) == BlockFirst(a, m) + Size[m] - 1

\* What SeekRecord shows of every tree (NetmaskIsABlock): the addresses of the
\* block of a lookup that succeeds have the same lookup.
ASSUME BlocksAssumption ==
    \A d \in Database : \A a, b \in Address :
        /\ d[a].netmask # Lost
        /\ BlockFirst(a, d[a].netmask) <= b /\ b <= BlockLast(a, d[a].netmask)
        => d[b] = d[a]

VARIABLES db,         \* the database loaded at the moment
          gi_netmask, \* gi->netmask, what GeoIP_last_netmask returns
          pc,         \* "idle", "left", "right" or "done"
          ipnum, target_value, orig_netmask, left_seek, right_seek,
          reloads,    \* reloads so far
          seen        \* history: the databases loaded during this call

vars == <<db, gi_netmask, pc, ipnum, target_value, orig_netmask, left_seek,
          right_seek, reloads, seen>>

Init ==
    /\ db \in Database
    /\ gi_netmask = 0
    /\ pc = "idle"
    /\ ipnum = 0 /\ target_value = 0 /\ orig_netmask = 0
    /\ left_seek = 0 /\ right_seek = 0
    /\ reloads = 0 /\ seen = {}

\* gi->netmask after looking up a: only a lookup that succeeds writes it.
LastNetmask(a) == IF db[a].netmask = Lost THEN gi_netmask ELSE db[a].netmask

\* The netmask the caller sees in its GeoIPLookup: not initialised, so
\* anything, when the lookup failed.
Seen(a) == IF db[a].netmask = Lost THEN Netmask ELSE {db[a].netmask}

Start(ip) ==
    /\ pc \in {"idle", "done"}
    /\ ipnum' = ip
    /\ target_value' = db[ip].value
    /\ gi_netmask' = LastNetmask(ip)
    /\ \E m \in Seen(ip) :
          /\ orig_netmask' = m
          /\ left_seek' = BlockFirst(ip, m)
          /\ right_seek' = BlockLast(ip, m)
    /\ pc' = "left"
    /\ seen' = {db}
    /\ UNCHANGED <<db, reloads>>

\* Mutants: the netmask of the lookup before, and a neighbour that is never
\* stepped over.
GrowLeftStale ==
    /\ pc = "left" /\ left_seek # 0
    /\ db[left_seek - 1].value = target_value
    /\ gi_netmask' = LastNetmask(left_seek - 1)
    /\ left_seek' = BlockFirst(left_seek - 1, gi_netmask)
    /\ UNCHANGED <<db, pc, ipnum, target_value, orig_netmask, right_seek, reloads,
                   seen>>

GrowLeftStays ==
    /\ pc = "left" /\ left_seek # 0
    /\ db[left_seek - 1].value = target_value
    /\ gi_netmask' = LastNetmask(left_seek - 1)
    /\ UNCHANGED <<db, pc, ipnum, target_value, orig_netmask, left_seek, right_seek,
                   reloads, seen>>

GrowLeft ==
    /\ pc = "left" /\ left_seek # 0
    /\ db[left_seek - 1].value = target_value
    /\ gi_netmask' = LastNetmask(left_seek - 1)
    /\ \E m \in Seen(left_seek - 1) : left_seek' = BlockFirst(left_seek - 1, m)
    /\ UNCHANGED <<db, pc, ipnum, target_value, orig_netmask, right_seek, reloads,
                   seen>>

\* Mutant: one neighbour is looked up, not all.
StopLeftEarly ==
    /\ pc = "left"
    /\ UNCHANGED gi_netmask
    /\ pc' = "right"
    /\ UNCHANGED <<db, ipnum, target_value, orig_netmask, left_seek, right_seek,
                   reloads, seen>>

StopLeft ==
    /\ pc = "left"
    /\ \/ left_seek = 0 /\ UNCHANGED gi_netmask
       \/ /\ left_seek # 0
          /\ db[left_seek - 1].value # target_value
          /\ gi_netmask' = LastNetmask(left_seek - 1)
    /\ pc' = "right"
    /\ UNCHANGED <<db, ipnum, target_value, orig_netmask, left_seek, right_seek,
                   reloads, seen>>

GrowRight ==
    /\ pc = "right" /\ right_seek # Top
    /\ db[right_seek + 1].value = target_value
    /\ gi_netmask' = LastNetmask(right_seek + 1)
    /\ \E m \in Seen(right_seek + 1) : right_seek' = BlockLast(right_seek + 1, m)
    /\ UNCHANGED <<db, pc, ipnum, target_value, orig_netmask, left_seek, reloads,
                   seen>>

\* Mutant: the netmask of the last neighbour stays.
StopRightUnrestored ==
    /\ pc = "right"
    /\ right_seek # Top => db[right_seek + 1].value # target_value
    /\ gi_netmask' = IF right_seek = Top THEN gi_netmask
                                         ELSE LastNetmask(right_seek + 1)
    /\ pc' = "done"
    /\ UNCHANGED <<db, ipnum, target_value, orig_netmask, left_seek, right_seek,
                   reloads, seen>>

\* gi->netmask = orig_netmask, whatever the last neighbour wrote.
StopRight ==
    /\ pc = "right"
    /\ right_seek # Top => db[right_seek + 1].value # target_value
    /\ gi_netmask' = orig_netmask
    /\ pc' = "done"
    /\ UNCHANGED <<db, ipnum, target_value, orig_netmask, left_seek, right_seek,
                   reloads, seen>>

\* _check_mtime, inside any of the lookups, may load a newer file.
Reload(d) ==
    /\ pc \in {"left", "right"} /\ reloads < MaxReloads
    /\ db' = d
    /\ reloads' = reloads + 1
    /\ seen' = seen \cup {d}
    /\ UNCHANGED <<gi_netmask, pc, ipnum, target_value, orig_netmask, left_seek,
                   right_seek>>

Grow == GrowLeft \/ StopLeft \/ GrowRight \/ StopRight

Next ==
    \/ \E ip \in Address : Start(ip)
    \/ Grow
    \/ \E d \in Newer[db] : Reload(d)

Spec == Init /\ [][Next]_vars

\* The loops run as long as their condition holds.
FairSpec == Spec /\ WF_vars(Grow)

-----------------------------------------------------------------------------
TypeOK ==
    /\ db \in [Address -> Lookup]
    /\ gi_netmask \in Netmask \cup {0}
    /\ pc \in {"idle", "left", "right", "done"}
    /\ ipnum \in Address /\ left_seek \in Address /\ right_seek \in Address
    /\ target_value \in Nat
    /\ orig_netmask \in Netmask \cup {0}
    /\ reloads \in Nat
    /\ \A d \in seen : d \in [Address -> Lookup]

\* The lookups of the call all read the database that is loaded now.
OneDatabase == pc = "done" /\ seen = {db}

\* A call that no reload interrupts returns a range that holds ip, and nothing
\* but addresses with its value: "This range has a constant value in the GeoIP
\* database" (ChangeLog:386).
RangeHasOneValue ==
    OneDatabase =>
        /\ left_seek <= ipnum /\ ipnum <= right_seek
        /\ \A a \in left_seek .. right_seek : db[a].value = db[ipnum].value

\* No larger range would do: the neighbours have other values.
RangeIsLargest ==
    OneDatabase =>
        /\ left_seek # 0 => db[left_seek - 1].value # db[ipnum].value
        /\ right_seek # Top => db[right_seek + 1].value # db[ipnum].value

\* A reload in the middle of a call may mix two databases, but not more than
\* that: every address of the range had the value of ip in a database that the
\* call has read, and GeoIP_last_netmask is then that of ip in one of them, not
\* that of the last neighbour.
EveryAddressHadTheValue ==
    pc = "done" =>
        /\ left_seek <= ipnum /\ ipnum <= right_seek
        /\ \A a \in left_seek .. right_seek : \E d \in seen : d[a].value = target_value
        /\ \E d \in seen : d[ipnum] = [value |-> target_value, netmask |-> gi_netmask]

\* Both loops end.
CallsEnd == pc \in {"left", "right"} ~> pc = "done"
=============================================================================
