-------------------------- MODULE RangeByIp_proofs --------------------------
(***************************************************************************)
(* The range GeoIP_range_by_ip returns is right, for every database in     *)
(* which every address is found, in any number of iterations and for any   *)
(* width of the addresses; and what is left of that when the database is   *)
(* reloaded during the call, any number of times.                          *)
(***************************************************************************)
EXTENDS RangeByIp, TLAPS

AllFound == \A d \in Database : \A a \in Address : d[a].netmask # Lost

\* The mask arithmetic: an address lies in its block, and blocks do not reach
\* beyond the last address.
LEMMA BlockBounds ==
    ASSUME NEW a \in Address, NEW m \in Netmask
    PROVE  /\ BlockFirst(a, m) \in Nat /\ BlockLast(a, m) \in Nat
           /\ BlockFirst(a, m) <= a /\ a <= BlockLast(a, m)
           /\ BlockLast(a, m) <= Top
<1> DEFINE s == Size[m]
           q == a \div s
           p == (Top + 1) \div s
<1>1. s \in Nat /\ s > 0 /\ Top \in Nat /\ a \in Nat /\ a <= Top
  BY RangeConstants DEF Address
<1>2. (Top + 1) % s = 0
  BY RangeConstants
<1> HIDE DEF s
<1>3. q \in Nat /\ a = q * s + (a % s) /\ a % s \in 0 .. s - 1
  BY <1>1
<1>4. p \in Nat /\ Top + 1 = p * s
  BY <1>1, <1>2
<1> HIDE DEF q, p
<1>5. q * s <= a /\ a < q * s + s /\ q * s \in Nat
  BY <1>1, <1>3
<1>6. q < p
  <2> SUFFICES ASSUME p <= q PROVE FALSE
    BY <1>3, <1>4
  <2>1. p * s <= q * s
    BY <1>1, <1>3, <1>4
  <2> QED BY <2>1, <1>1, <1>4, <1>5
<1>7. (q + 1) * s <= p * s
  BY <1>1, <1>3, <1>4, <1>6
<1>8. q * s + s <= Top + 1
  BY <1>1, <1>3, <1>4, <1>7
<1> QED
  BY <1>1, <1>5, <1>8 DEF BlockFirst, BlockLast, q, s

\* Only databases are loaded, and the one that is has been noted in seen.
Loaded ==
    /\ db \in Database /\ seen \subseteq Database
    /\ pc # "idle" => db \in seen

\* What the loops keep true whatever is reloaded: the range holds ip, and each
\* of its addresses had the value of ip when it was looked up.
Mixed ==
    pc # "idle" =>
        /\ left_seek <= ipnum /\ ipnum <= right_seek
        /\ \A a \in Address : left_seek <= a /\ a <= right_seek =>
              \E d \in seen : d[a].value = target_value
        /\ \E d \in seen : d[ipnum] = [value |-> target_value, netmask |-> orig_netmask]

\* And what they keep true as long as one database is read.
InRange ==
    pc # "idle" /\ seen = {db} =>
        /\ \A a \in Address : left_seek <= a /\ a <= right_seek =>
              db[a].value = target_value
        /\ target_value = db[ipnum].value

\* The left neighbour is settled before the right loop starts.
LeftSettled ==
    pc \in {"right", "done"} /\ seen = {db} /\ left_seek # 0 =>
        db[left_seek - 1].value # target_value

RightSettled ==
    pc = "done" =>
        /\ seen = {db} /\ right_seek # Top => db[right_seek + 1].value # target_value
        /\ gi_netmask = orig_netmask

IInv == TypeOK /\ Loaded /\ Mixed /\ InRange /\ LeftSettled /\ RightSettled

\* The invariant holds before the first call.
LEMMA InitIInv == Init => IInv
BY RangeConstants
   DEF Init, IInv, TypeOK, Loaded, Mixed, InRange, LeftSettled, RightSettled, Address

\* What one lookup of a database in which every address is found says.
LEMMA LookupFacts ==
    ASSUME Loaded, AllFound, NEW a \in Address
    PROVE  /\ Seen(a) = {db[a].netmask}
           /\ db[a].netmask \in Netmask
           /\ LastNetmask(a) = db[a].netmask
           /\ db[a].value \in Nat
           /\ db[a] = [value |-> db[a].value, netmask |-> db[a].netmask]
           /\ BlockFirst(a, db[a].netmask) \in Address
           /\ BlockLast(a, db[a].netmask) \in Address
           /\ BlockFirst(a, db[a].netmask) <= a
           /\ a <= BlockLast(a, db[a].netmask)
           /\ \A b \in Address :
                 /\ BlockFirst(a, db[a].netmask) <= b
                 /\ b <= BlockLast(a, db[a].netmask)
                 => db[b].value = db[a].value
<1>1. db \in Database /\ db[a].netmask # Lost
  BY DEF Loaded, AllFound
<1>2. db[a] \in Lookup
  BY <1>1, RangeConstants
<1>3. db[a].netmask \in Netmask /\ db[a].value \in Nat
  BY <1>1, <1>2 DEF Lookup
<1>4. /\ BlockFirst(a, db[a].netmask) <= a /\ a <= BlockLast(a, db[a].netmask)
      /\ BlockFirst(a, db[a].netmask) \in Nat /\ BlockLast(a, db[a].netmask) \in Nat
      /\ BlockLast(a, db[a].netmask) <= Top
  BY <1>3, BlockBounds
<1>5. \A b \in Address :
         /\ BlockFirst(a, db[a].netmask) <= b
         /\ b <= BlockLast(a, db[a].netmask)
         => db[b].value = db[a].value
  BY <1>1, BlocksAssumption
<1>6. Seen(a) = {db[a].netmask} /\ LastNetmask(a) = db[a].netmask
  BY <1>1 DEF Seen, LastNetmask
<1>7. Top \in Nat /\ a \in Nat /\ a <= Top
  BY RangeConstants DEF Address
<1> HIDE DEF BlockFirst, BlockLast
<1>8. BlockFirst(a, db[a].netmask) \in Address /\ BlockLast(a, db[a].netmask) \in Address
  BY <1>4, <1>7 DEF Address
<1>9. db[a] = [value |-> db[a].value, netmask |-> db[a].netmask]
  BY <1>2 DEF Lookup
<1> QED
  BY <1>3, <1>4, <1>5, <1>6, <1>8, <1>9

\* Each iteration keeps the invariant, and so does a reload.
LEMMA StepIInv ==
    ASSUME AllFound, IInv, [Next]_vars
    PROVE  IInv'
<1> USE DEF IInv
<1>0. Top \in Nat /\ Address = 0 .. Top
  BY RangeConstants DEF Address
<1>1. CASE UNCHANGED vars
  BY <1>1 DEF vars, TypeOK, Loaded, Mixed, InRange, LeftSettled, RightSettled
<1>2. ASSUME NEW ip \in Address, Start(ip) PROVE IInv'
  <2>1. /\ Seen(ip) = {db[ip].netmask}
        /\ left_seek' = BlockFirst(ip, db[ip].netmask)
        /\ right_seek' = BlockLast(ip, db[ip].netmask)
        /\ orig_netmask' = db[ip].netmask /\ gi_netmask' = db[ip].netmask
        /\ target_value' = db[ip].value /\ ipnum' = ip /\ pc' = "left"
        /\ seen' = {db} /\ db' = db /\ reloads' = reloads
    BY <1>2, LookupFacts DEF Start
  <2>2. TypeOK'
    BY <2>1, LookupFacts DEF TypeOK
  <2>3. InRange'
    BY <2>1, LookupFacts DEF InRange
  <2>4. Loaded' /\ Mixed'
    BY <2>1, LookupFacts DEF Loaded, Mixed
  <2> QED BY <2>1, <2>2, <2>3, <2>4 DEF LeftSettled, RightSettled
<1>3. CASE GrowLeft
  <2> DEFINE n == left_seek - 1
  <2>1. n \in Address /\ n \in Int /\ left_seek \in Int /\ right_seek \in Int /\ ipnum \in Int
    BY <1>0, <1>3 DEF GrowLeft, TypeOK
  <2>2. /\ left_seek' = BlockFirst(n, db[n].netmask)
        /\ db[n].value = target_value /\ gi_netmask' = db[n].netmask
        /\ UNCHANGED <<db, pc, ipnum, target_value, orig_netmask, right_seek,
                       reloads, seen>>
        /\ pc = "left"
    BY <1>3, <2>1, LookupFacts DEF GrowLeft
  <2>3. left_seek' \in Address /\ left_seek' <= n /\ n <= BlockLast(n, db[n].netmask)
    BY <2>1, <2>2, LookupFacts
  <2>4. TypeOK'
    BY <2>1, <2>2, <2>3, LookupFacts DEF TypeOK
  <2>5. ASSUME NEW a \in Address, left_seek' <= a, a <= right_seek
        PROVE  left_seek <= a \/ db[a].value = target_value
    <3>1. a \in Int /\ left_seek' \in Int
      BY <1>0, <2>3
    <3>2. CASE left_seek <= a
      BY <3>2
    <3>3. CASE a <= n
      <4>1. BlockFirst(n, db[n].netmask) <= a /\ a <= BlockLast(n, db[n].netmask)
        <5>1. BlockLast(n, db[n].netmask) \in Address
          BY <2>1, LookupFacts
        <5>2. BlockLast(n, db[n].netmask) \in Int
          BY <5>1, <1>0
        <5> HIDE DEF n
        <5> QED BY <5>2, <3>1, <3>3, <2>1, <2>2, <2>3, <2>5
      <4>2. db[a].value = db[n].value
        BY <4>1, <2>1, LookupFacts
      <4> QED BY <4>2, <2>2
    <3> QED BY <3>1, <3>2, <3>3, <2>1
  <2>6. left_seek' <= ipnum
    <3>1. left_seek <= ipnum /\ left_seek' \in Int
      BY <1>0, <2>2, <2>3 DEF Mixed
    <3> QED BY <3>1, <2>1, <2>3
  <2>7. InRange'
    BY <2>2, <2>5 DEF InRange
  <2>8. Mixed'
    BY <2>2, <2>5, <2>6 DEF Mixed, Loaded
  <2> QED BY <2>2, <2>4, <2>7, <2>8 DEF Loaded, LeftSettled, RightSettled
<1>4. CASE StopLeft
  <2>1. left_seek # 0 => left_seek - 1 \in Address
    BY <1>0 DEF TypeOK
  <2>2. gi_netmask' \in Netmask \cup {0}
    <3>1. CASE left_seek = 0
      BY <3>1, <1>4 DEF StopLeft, TypeOK
    <3>2. CASE left_seek # 0
      <4> DEFINE n == left_seek - 1
      <4>1. gi_netmask' = LastNetmask(n)
        BY <3>2, <1>4 DEF StopLeft
      <4>2. n \in Address
        BY <3>2, <2>1
      <4> HIDE DEF n
      <4> QED BY <4>1, <4>2, LookupFacts
    <3> QED BY <3>1, <3>2
  <2>3. TypeOK'
    BY <1>4, <2>2 DEF StopLeft, TypeOK
  <2>4. Loaded' /\ Mixed' /\ InRange' /\ LeftSettled' /\ RightSettled'
    BY <1>4 DEF StopLeft, Loaded, Mixed, InRange, LeftSettled, RightSettled
  <2> QED BY <2>3, <2>4
<1>5. CASE GrowRight
  <2> DEFINE n == right_seek + 1
  <2>1. n \in Address /\ n \in Int /\ left_seek \in Int /\ right_seek \in Int /\ ipnum \in Int
    BY <1>0, <1>5 DEF GrowRight, TypeOK
  <2>2. /\ right_seek' = BlockLast(n, db[n].netmask)
        /\ db[n].value = target_value /\ gi_netmask' = db[n].netmask
        /\ UNCHANGED <<db, pc, ipnum, target_value, orig_netmask, left_seek,
                       reloads, seen>>
        /\ pc = "right"
    BY <1>5, <2>1, LookupFacts DEF GrowRight
  <2>3. right_seek' \in Address /\ n <= right_seek' /\ BlockFirst(n, db[n].netmask) <= n
    BY <2>1, <2>2, LookupFacts
  <2>4. TypeOK'
    BY <2>1, <2>2, <2>3, LookupFacts DEF TypeOK
  <2>5. ASSUME NEW a \in Address, left_seek <= a, a <= right_seek'
        PROVE  a <= right_seek \/ db[a].value = target_value
    <3>1. a \in Int /\ right_seek' \in Int
      BY <1>0, <2>3
    <3>2. CASE a <= right_seek
      BY <3>2
    <3>3. CASE n <= a
      <4>1. BlockFirst(n, db[n].netmask) <= a /\ a <= BlockLast(n, db[n].netmask)
        <5>1. BlockFirst(n, db[n].netmask) \in Address
          BY <2>1, LookupFacts
        <5>2. BlockFirst(n, db[n].netmask) \in Int
          BY <5>1, <1>0
        <5> HIDE DEF n
        <5> QED BY <5>2, <3>1, <3>3, <2>1, <2>2, <2>3, <2>5
      <4>2. db[a].value = db[n].value
        BY <4>1, <2>1, LookupFacts
      <4> QED BY <4>2, <2>2
    <3> QED BY <3>1, <3>2, <3>3, <2>1
  <2>6. ipnum <= right_seek'
    <3>1. ipnum <= right_seek /\ right_seek' \in Int
      BY <1>0, <2>2, <2>3 DEF Mixed
    <3> QED BY <3>1, <2>1, <2>3
  <2>7. InRange'
    BY <2>2, <2>5 DEF InRange
  <2>8. Mixed'
    BY <2>2, <2>5, <2>6 DEF Mixed, Loaded
  <2> QED BY <2>2, <2>4, <2>7, <2>8 DEF Loaded, LeftSettled, RightSettled
<1>6. CASE StopRight
  <2>1. TypeOK'
    BY <1>6 DEF StopRight, TypeOK
  <2> QED
    BY <1>6, <2>1 DEF StopRight, Loaded, Mixed, InRange, LeftSettled, RightSettled
<1>7. ASSUME NEW d \in Newer[db], Reload(d) PROVE IInv'
  <2>1. d \in Database
    BY RangeConstants DEF Loaded
  <2>2. TypeOK'
    BY <1>7, <2>1, RangeConstants DEF Reload, TypeOK
  <2>3. Loaded' /\ Mixed'
    BY <1>7, <2>1 DEF Reload, Loaded, Mixed
  <2>4. ASSUME seen' = {db'} PROVE db' = db /\ seen' = seen
    BY <1>7, <2>4 DEF Reload, Loaded
  <2>5. InRange' /\ LeftSettled' /\ RightSettled'
    BY <1>7, <2>4 DEF Reload, InRange, LeftSettled, RightSettled
  <2> QED BY <2>2, <2>3, <2>5
<1> QED
  BY <1>1, <1>2, <1>3, <1>4, <1>5, <1>6, <1>7 DEF Next, Grow

\* The loop invariant of GeoIP_range_by_ip_gl.
THEOREM InvariantHolds ==
    ASSUME AllFound
    PROVE  Spec => []IInv
BY InitIInv, StepIInv, PTL DEF Spec

\* The ends of the range never leave the addresses: no shift below zero and no
\* carry beyond 0xffffffff, whatever is reloaded.
THEOREM TypeCorrect ==
    ASSUME AllFound
    PROVE  Spec => []TypeOK
<1>1. IInv => TypeOK
  BY DEF IInv
<1> QED BY <1>1, InvariantHolds, PTL

\* The range that a call which reads one database returns holds ip and has its
\* value throughout.
THEOREM RangeIsRight ==
    ASSUME AllFound
    PROVE  Spec => []RangeHasOneValue
<1>1. IInv => RangeHasOneValue
  <2> SUFFICES ASSUME IInv, OneDatabase
               PROVE  /\ left_seek <= ipnum /\ ipnum <= right_seek
                      /\ \A a \in left_seek .. right_seek :
                            db[a].value = db[ipnum].value
    BY DEF RangeHasOneValue
  <2>1. \A a \in left_seek .. right_seek : a \in Address
    BY RangeConstants DEF IInv, TypeOK, Address
  <2> QED BY <2>1 DEF IInv, Mixed, InRange, OneDatabase
<1> QED BY <1>1, InvariantHolds, PTL

\* No larger range has one value: the addresses next to its ends, where there
\* are any, have another one.
THEOREM RangeCannotGrow ==
    ASSUME AllFound
    PROVE  Spec => []RangeIsLargest
<1>1. IInv => RangeIsLargest
  BY DEF IInv, InRange, LeftSettled, RightSettled, RangeIsLargest, OneDatabase
<1> QED BY <1>1, InvariantHolds, PTL

\* Whatever is reloaded during the call, each address of the range had the
\* value of ip in a version the call has read, and the netmask it leaves
\* behind is that of ip in one of them.
THEOREM RangeMixesOnlyVersions ==
    ASSUME AllFound
    PROVE  Spec => []EveryAddressHadTheValue
<1>1. IInv => EveryAddressHadTheValue
  <2> SUFFICES ASSUME IInv, pc = "done"
               PROVE  /\ left_seek <= ipnum /\ ipnum <= right_seek
                      /\ \A a \in left_seek .. right_seek :
                            \E d \in seen : d[a].value = target_value
                      /\ \E d \in seen : d[ipnum] = [value |-> target_value,
                                                      netmask |-> gi_netmask]
    BY DEF EveryAddressHadTheValue
  <2>1. \A a \in left_seek .. right_seek : a \in Address
    BY RangeConstants DEF IInv, TypeOK, Address
  <2> QED BY <2>1 DEF IInv, Mixed, RightSettled
<1> QED BY <1>1, InvariantHolds, PTL
=============================================================================
