-------------------------- MODULE SeekRecord_proofs -------------------------
(***************************************************************************)
(* Proofs about the walk for every database, address width and set of      *)
(* threads: what a netmask promises, and that reads stay in the index.     *)
(***************************************************************************)
EXTENDS SeekRecord, TLAPS

\* The parts of the assumption on the constants.
LEMMA WidthType == Width \in Nat /\ Width > 0
BY SeekConstants

\* A database as its readers use it: a function into numbers, and a size.
LEMMA DatabaseType ==
    ASSUME NEW d \in Database
    PROVE  /\ d.segments \in Nat /\ d.segments > 0
           /\ d.pairs \in Nat
           /\ d.record \in [0 .. d.pairs - 1 -> [Bit -> Nat]]
           /\ d.cached => d.segments <= d.pairs
BY SeekConstants

\* GeoIP_enable_teredo takes an int.
LEMMA SwitchesType == Switches \subseteq Int
BY SeekConstants

USE WidthType

\* The history of a walk: it starts at the root, every node it has left is
\* below databaseSegments[0], and every step followed the record of the bit.
Path(t) ==
    /\ trail[t][0] = 0
    /\ \A i \in 0 .. Width - 1 : i < step[t] =>
          /\ trail[t][i] < db.pairs
          /\ trail[t][i] < db.segments
          /\ trail[t][i + 1] = db.record[trail[t][i]][ipnum[t][i]]

AtNode(t) ==
    pc[t] \in {"walking", "lost"} =>
        /\ offset[t] = trail[t][step[t]]
        /\ offset[t] < db.segments
        /\ netmask[t] = Unset
        /\ value[t] = 0

Outcome(t) ==
    /\ pc[t] = "found" =>
          /\ step[t] > 0
          /\ netmask[t] = step[t]
          /\ value[t] = trail[t][step[t]]
          /\ value[t] >= db.segments
    /\ pc[t] = "lost" => step[t] = Width \/ offset[t] >= db.pairs

Followed(t) == Path(t) /\ AtNode(t) /\ Outcome(t)

\* Two walks are at the same node as long as their addresses agree.
Together(t, u) ==
    \A i \in 0 .. Width :
        /\ i <= step[t] /\ i <= step[u]
        /\ Agree(ipnum[t], ipnum[u], i)
        => trail[t][i] = trail[u][i]

\* The address walked down is the one Teredo makes of the one asked for, or
\* that one, as the bit was when the walk started.
AsTold(t) ==
    IF pc[t] = "idle" THEN under[t] = 1
    ELSE ipnum[t] = IF under[t] % 2 = 1 THEN PrepareTeredo(asked[t]) ELSE asked[t]

Told == (teredo <=> wanted % 2 = 1) /\ \A t \in Thread : AsTold(t)

IInv ==
    /\ TypeOK
    /\ \A t \in Thread : Followed(t)
    /\ \A t, u \in Thread : Together(t, u)
    /\ Told

\* Converting a Teredo address gives an address of the same width.
LEMMA PrepareType ==
    ASSUME NEW ip \in Address
    PROVE  PrepareTeredo(ip) \in Address
<1>1. \A i \in 0 .. Width - 1 : ip[i] \in {0, 1} /\ 1 - ip[i] \in {0, 1}
  BY DEF Address, Bit
<1> QED
  BY <1>1 DEF PrepareTeredo, Address, Bit

\* Initially every thread is at the root.
LEMMA InitIInv == Init => IInv
<1> SUFFICES ASSUME Init PROVE IInv
  OBVIOUS
<1>1. TypeOK
  BY DEF Init, TypeOK, Unset
<1>2. ASSUME NEW t \in Thread PROVE Followed(t)
  <2>1. trail[t][0] = 0 /\ step[t] = 0 /\ pc[t] = "idle"
    BY DEF Init
  <2> QED
    BY <2>1 DEF Followed, Path, AtNode, Outcome
<1>3. \A t, u \in Thread : Together(t, u)
  BY DEF Init, Together
<1>4. Told
  BY DEF Init, Told, AsTold
<1> QED
  BY <1>1, <1>2, <1>3, <1>4 DEF IInv

\* A new walk starts at the root, where all walks meet.
LEMMA StartIInv ==
    ASSUME IInv, NEW t \in Thread, NEW ip \in Address, Start(t, ip)
    PROVE  IInv'
<1> USE DEF IInv
<1>0. ipnum'[t] \in Address /\ ipnum' \in [Thread -> Address]
  BY PrepareType DEF Start, TypeOK
<1>1. TypeOK'
  <2>1. /\ asked' \in [Thread -> Address] /\ under' \in [Thread -> Int]
        /\ pc' \in [Thread -> {"idle", "walking", "found", "lost"}]
    BY DEF Start, TypeOK
  <2>2. /\ step' \in [Thread -> 0 .. Width] /\ offset' \in [Thread -> Nat]
        /\ value' \in [Thread -> Nat]
        /\ netmask' \in [Thread -> 1 .. Width \cup {Unset}]
    BY DEF Start, TypeOK, Unset
  <2>3. trail' \in [Thread -> [0 .. Width -> Nat]]
    BY DEF Start, TypeOK
  <2> QED BY <1>0, <2>1, <2>2, <2>3 DEF Start, TypeOK
<1>2. ASSUME NEW u \in Thread PROVE Followed(u)'
  <2>1. CASE u = t
    <3>1. /\ trail'[t][0] = 0 /\ step'[t] = 0 /\ offset'[t] = 0
          /\ pc'[t] = "walking" /\ netmask'[t] = Unset /\ value'[t] = 0
      BY DEF Start, TypeOK
    <3>2. db' = db /\ 0 < db.segments
      BY DatabaseType DEF Start, TypeOK
    <3> QED BY <2>1, <3>1, <3>2 DEF Followed, Path, AtNode, Outcome
  <2>2. CASE u # t
    <3>1. /\ trail'[u] = trail[u] /\ step'[u] = step[u] /\ offset'[u] = offset[u]
          /\ pc'[u] = pc[u] /\ netmask'[u] = netmask[u] /\ value'[u] = value[u]
          /\ ipnum'[u] = ipnum[u] /\ db' = db
      BY <2>2 DEF Start, TypeOK
    <3> QED BY <3>1 DEF Followed, Path, AtNode, Outcome
  <2> QED BY <2>1, <2>2
<1>3. ASSUME NEW u \in Thread, NEW v \in Thread PROVE Together(u, v)'
  <2>1. CASE u # t /\ v # t
    <3>1. /\ trail'[u] = trail[u] /\ step'[u] = step[u] /\ ipnum'[u] = ipnum[u]
          /\ trail'[v] = trail[v] /\ step'[v] = step[v] /\ ipnum'[v] = ipnum[v]
      BY <2>1 DEF Start, TypeOK
    <3> QED BY <3>1 DEF Together, Agree
  <2>2. CASE u = t \/ v = t
    <3>1. step'[t] = 0 /\ trail'[t][0] = 0
      BY DEF Start, TypeOK
    <3>2. trail'[u][0] = 0 /\ trail'[v][0] = 0
      BY <1>2 DEF Followed, Path
    <3>3. step' \in [Thread -> 0 .. Width]
      BY <1>1 DEF TypeOK
    <3>4. ASSUME NEW i \in 0 .. Width, i <= step'[u], i <= step'[v] PROVE i = 0
      BY <3>1, <3>3, <3>4, <2>2
    <3> QED BY <3>2, <3>4 DEF Together
  <2> QED BY <2>1, <2>2
<1>4. Told'
  <2>1. ASSUME NEW u \in Thread PROVE AsTold(u)'
    <3>1. CASE u = t
      <4>1. /\ pc'[u] = "walking" /\ under'[u] = wanted /\ asked'[u] = ip
            /\ ipnum'[u] = IF teredo THEN PrepareTeredo(ip) ELSE ip
        BY <3>1 DEF Start, TypeOK
      <4> QED BY <4>1 DEF Told, AsTold
    <3>2. CASE u # t
      <4>1. /\ pc'[u] = pc[u] /\ under'[u] = under[u] /\ asked'[u] = asked[u]
            /\ ipnum'[u] = ipnum[u]
        BY <3>2 DEF Start, TypeOK
      <4> QED BY <4>1 DEF Told, AsTold
    <3> QED BY <3>1, <3>2
  <2> QED BY <2>1 DEF Start, Told
<1> QED
  BY <1>1, <1>2, <1>3, <1>4

\* One iteration, to a node or to a value, follows the record of the next bit;
\* a walk that agrees so far and has gone as far has followed the same record.
LEMMA ForwardIInv ==
    ASSUME IInv, NEW t \in Thread, Descend(t) \/ Find(t)
    PROVE  IInv'
<1> USE DEF IInv
<1> DEFINE k == step[t]
           x == Next_x(t)
<1>0. db.pairs \in Nat /\ db.segments \in Nat
  BY DatabaseType DEF TypeOK
<1>1. /\ k \in 0 .. Width - 1 /\ k \in 0 .. Width
      /\ k + 1 \in 0 .. Width /\ k + 1 \in 1 .. Width
      /\ offset[t] \in 0 .. db.pairs - 1
  <2>1. k \in 0 .. Width /\ k < Width /\ offset[t] \in Nat /\ ~(offset[t] >= db.pairs)
    BY DEF Descend, Find, Invalid, TypeOK
  <2> QED BY <2>1, <1>0
<1>2. x \in Nat /\ x = db.record[offset[t]][ipnum[t][k]]
  <2>1. ipnum[t][k] \in Bit
    BY <1>1 DEF TypeOK, Address
  <2>2. db.record[offset[t]] \in [Bit -> Nat]
    BY <1>1, DatabaseType DEF TypeOK
  <2> QED BY <2>1, <2>2 DEF Next_x
<1>3. /\ step' = [step EXCEPT ![t] = k + 1]
      /\ trail' = [trail EXCEPT ![t][k + 1] = x]
      /\ UNCHANGED <<db, teredo, wanted, asked, under, ipnum>>
  BY DEF Descend, Find
<1>4. TypeOK'
  <2>1. trail' \in [Thread -> [0 .. Width -> Nat]] /\ step' \in [Thread -> 0 .. Width]
    BY <1>1, <1>2, <1>3 DEF TypeOK
  <2>2. CASE Descend(t)
    BY <2>1, <2>2, <1>2 DEF Descend, TypeOK
  <2>3. CASE Find(t)
    <3>1. netmask' \in [Thread -> 1 .. Width \cup {Unset}]
      BY <2>3, <1>1 DEF Find, TypeOK
    <3>2. gi_netmask' \in 0 .. Width /\ value' \in [Thread -> Nat]
      BY <2>3, <1>1, <1>2 DEF Find, TypeOK
    <3> QED BY <2>1, <2>3, <3>1, <3>2 DEF Find, TypeOK
  <2> QED BY <2>2, <2>3
<1>5. /\ trail'[t][k + 1] = x
      /\ \A i \in 0 .. k : trail'[t][i] = trail[t][i]
      /\ \A u \in Thread \ {t} : trail'[u] = trail[u] /\ step'[u] = step[u]
      /\ step'[t] = k + 1
  BY <1>1, <1>3 DEF TypeOK
<1>6. trail[t][k] = offset[t] /\ offset[t] < db.segments
  BY DEF Followed, AtNode, Descend, Find
<1>7. ASSUME NEW u \in Thread PROVE Followed(u)'
  <2>1. CASE u # t
    <3>1. /\ trail'[u] = trail[u] /\ step'[u] = step[u] /\ offset'[u] = offset[u]
          /\ pc'[u] = pc[u] /\ netmask'[u] = netmask[u] /\ value'[u] = value[u]
          /\ ipnum'[u] = ipnum[u] /\ db' = db
      BY <2>1, <1>3, <1>5 DEF Descend, Find, TypeOK
    <3> QED BY <3>1 DEF Followed, Path, AtNode, Outcome
  <2>2. CASE u = t
    <3>1. Path(t)'
      <4>1. trail'[t][0] = 0
        BY <1>1, <1>5 DEF Followed, Path
      <4>2. ASSUME NEW i \in 0 .. Width - 1, i < k + 1
            PROVE  /\ trail'[t][i] < db.pairs
                   /\ trail'[t][i] < db.segments
                   /\ trail'[t][i + 1] = db.record[trail'[t][i]][ipnum[t][i]]
        <5>1. CASE i = k
          <6>1. trail'[t][i] = offset[t] /\ trail'[t][i + 1] = x
            BY <5>1, <1>1, <1>5, <1>6
          <6>2. offset[t] < db.pairs
            BY <1>0, <1>1
          <6> QED BY <6>1, <6>2, <5>1, <1>2, <1>6
        <5>2. CASE i # k
          <6>1. i < k /\ i \in 0 .. k /\ i + 1 \in 0 .. k
            BY <5>2, <4>2, <1>1
          <6> QED BY <6>1, <1>5 DEF Followed, Path
        <5> QED BY <5>1, <5>2
      <4> QED BY <4>1, <4>2, <1>3, <1>5 DEF Path
    <3>2. CASE Descend(t)
      <4>1. /\ pc'[t] = "walking" /\ offset'[t] = x /\ x < db.segments
            /\ netmask'[t] = Unset /\ value'[t] = 0
        BY <3>2 DEF Descend, TypeOK, Followed, AtNode
      <4> QED
        BY <2>2, <4>1, <3>1, <1>3, <1>5 DEF Followed, AtNode, Outcome
    <3>3. CASE Find(t)
      <4>1. /\ pc'[t] = "found" /\ value'[t] = x /\ x >= db.segments
            /\ netmask'[t] = k + 1
        BY <3>3 DEF Find, TypeOK
      <4> QED
        BY <2>2, <4>1, <3>1, <1>1, <1>3, <1>5 DEF Followed, AtNode, Outcome
    <3> QED BY <3>2, <3>3
  <2> QED BY <2>1, <2>2
<1>8. ASSUME NEW u \in Thread \ {t}, NEW i \in 0 .. Width,
             i <= k + 1, i <= step[u], Agree(ipnum[t], ipnum[u], i)
      PROVE  trail'[t][i] = trail[u][i]
  <2>1. CASE i <= k
    BY <2>1, <1>1, <1>5, <1>8 DEF Together
  <2>2. CASE i = k + 1
    <3>1. /\ k \in 0 .. i - 1 /\ k < step[u] /\ k <= step[u]
          /\ k \in 0 .. Width - 1 /\ k \in 0 .. Width
      <4>1. step[u] \in 0 .. Width
        BY DEF TypeOK
      <4> QED BY <4>1, <2>2, <1>1, <1>8
    <3>2. Agree(ipnum[t], ipnum[u], k) /\ ipnum[t][k] = ipnum[u][k]
      BY <3>1, <2>2, <1>8 DEF Agree
    <3>3. trail[t][k] = trail[u][k]
      <4>1. Together(t, u) /\ k <= step[t]
        BY <1>1
      <4> QED BY <4>1, <3>1, <3>2 DEF Together
    <3>4. trail[u][k + 1] = db.record[trail[u][k]][ipnum[u][k]]
      BY <3>1 DEF Followed, Path
    <3> QED
      BY <3>2, <3>3, <3>4, <2>2, <1>2, <1>5, <1>6
  <2> QED BY <2>1, <2>2, <1>1, <1>8
<1>9. ASSUME NEW u \in Thread, NEW v \in Thread PROVE Together(u, v)'
  <2>1. CASE u # t /\ v # t
    BY <2>1, <1>3, <1>5 DEF Together
  <2>2. CASE u = t /\ v # t
    BY <2>2, <1>3, <1>5, <1>8 DEF Together
  <2>3. CASE u # t /\ v = t
    <3>1. \A i \in 0 .. Width : Agree(ipnum[u], ipnum[t], i) <=> Agree(ipnum[t], ipnum[u], i)
      BY DEF Agree
    <3> QED
      BY <2>3, <3>1, <1>3, <1>5, <1>8 DEF Together
  <2>4. CASE u = t /\ v = t
    BY <2>4 DEF Together
  <2> QED BY <2>1, <2>2, <2>3, <2>4
<1>10. Told'
  <2>1. \A u \in Thread : pc'[u] = pc[u] \/ (u = t /\ pc[u] = "walking" /\ pc'[u] # "idle")
    BY DEF Descend, Find, TypeOK
  <2> QED BY <2>1, <1>3 DEF Told, AsTold
<1> QED
  BY <1>4, <1>7, <1>9, <1>10

\* Giving up changes nothing but the program counter.
LEMMA LoseIInv ==
    ASSUME IInv, NEW t \in Thread, Lose(t)
    PROVE  IInv'
<1> USE DEF IInv
<1>1. TypeOK'
  BY DEF Lose, TypeOK
<1>2. \A u \in Thread : Followed(u)'
  BY DEF Lose, TypeOK, Followed, Path, AtNode, Outcome, Invalid
<1>3. \A u, v \in Thread : Together(u, v)'
  BY DEF Lose, Together, Agree
<1>4. Told'
  BY DEF Lose, TypeOK, Told, AsTold
<1> QED
  BY <1>1, <1>2, <1>3, <1>4

\* The setter leaves the walks alone.
LEMMA EnableTeredoIInv ==
    ASSUME IInv, NEW true_false \in Switches, EnableTeredo(true_false)
    PROVE  IInv'
<1> USE DEF IInv
<1>1. TypeOK'
  BY SwitchesType DEF EnableTeredo, TypeOK
<1>2. \A u \in Thread : Followed(u)'
  BY DEF EnableTeredo, Followed, Path, AtNode, Outcome
<1>3. \A u, v \in Thread : Together(u, v)'
  BY DEF EnableTeredo, Together, Agree
<1>4. Told'
  BY DEF EnableTeredo, Told, AsTold
<1> QED
  BY <1>1, <1>2, <1>3, <1>4

\* Every step of any thread keeps the invariant of all walks.
LEMMA StepIInv == IInv /\ [Next]_vars => IInv'
<1> SUFFICES ASSUME IInv, [Next]_vars PROVE IInv'
  OBVIOUS
<1>1. CASE UNCHANGED vars
  <2>1. TypeOK'
    BY <1>1 DEF vars, IInv, TypeOK
  <2>2. \A t \in Thread : Followed(t)'
    BY <1>1 DEF vars, IInv, Followed, Path, AtNode, Outcome
  <2>3. \A t, u \in Thread : Together(t, u)'
    BY <1>1 DEF vars, IInv, Together, Agree
  <2>4. Told'
    BY <1>1 DEF vars, IInv, Told, AsTold
  <2> QED BY <2>1, <2>2, <2>3, <2>4 DEF IInv
<1>2. CASE Next
  BY <1>2, StartIInv, ForwardIInv, LoseIInv, EnableTeredoIInv DEF Next, Walk
<1> QED BY <1>1, <1>2

\* The inductive invariant of the tree walks: each has read the nodes on its trail.
THEOREM InvariantHolds == Spec => []IInv
BY InitIInv, StepIInv, PTL DEF Spec

\* Types hold in every reachable state of the walks.
THEOREM TypeCorrect == Spec => []TypeOK
BY InvariantHolds, PTL DEF IInv

\* No read leaves the index cache, in any database whose index size passed
\* get_index_size, cyclic and corrupt trees included.
THEOREM IndexIsEnough == Spec => []IndexReadsInside
<1>1. IInv => IndexReadsInside
  BY DEF IInv, Followed, AtNode, IndexReadsInside
<1> QED
  BY <1>1, InvariantHolds, PTL

\* A return of 0 means that the lookup failed, and it leaves gl alone.
THEOREM ZeroIsFailure == Spec => []ZeroMeansLost
<1>1. IInv => ZeroMeansLost
  <2> SUFFICES ASSUME IInv, NEW t \in Thread
               PROVE  /\ pc[t] = "found" => value[t] >= db.segments /\ netmask[t] # Unset
                      /\ pc[t] = "lost" => value[t] = 0 /\ netmask[t] = Unset
    BY DEF ZeroMeansLost
  <2>1. step[t] \in 0 .. Width
    BY DEF IInv, TypeOK
  <2> QED BY <2>1 DEF IInv, Followed, AtNode, Outcome, Unset
<1> QED
  BY <1>1, InvariantHolds, PTL

\* A walk that agrees with another over its netmask ends with it: it cannot
\* stop before (Path), nor go on (the trail has left the tree there).
LEMMA InvariantGivesBlocks == IInv => BlockHasOneValue /\ BlockFoundOrNot
<1>1. ASSUME IInv, NEW t \in Thread, NEW u \in Thread,
             pc[t] = "found", pc[u] \in {"found", "lost"},
             Agree(ipnum[t], ipnum[u], netmask[t])
      PROVE  pc[u] = "found" /\ value[u] = value[t] /\ netmask[u] = netmask[t]
  <2>t. TypeOK /\ (\A v \in Thread : Followed(v)) /\ Together(t, u)
    BY <1>1 DEF IInv
  <2> USE <2>t
  <2> DEFINE m == netmask[t]
             n == step[u]
  <2>0. /\ Path(t) /\ Outcome(t) /\ Path(u) /\ AtNode(u) /\ Outcome(u)
        /\ db.segments \in Nat /\ db.pairs \in Nat
    <3>1. Followed(t) /\ Followed(u) /\ db \in Database
      BY DEF TypeOK
    <3> QED BY <3>1, DatabaseType DEF Followed
  <2>1. /\ m \in 1 .. Width /\ m = step[t] /\ n \in 0 .. Width
        /\ trail[t][m] >= db.segments /\ value[t] = trail[t][m]
        /\ \A i \in 0 .. Width : trail[t][i] \in Nat /\ trail[u][i] \in Nat
    <3>1. /\ step[t] \in 0 .. Width /\ n \in 0 .. Width
          /\ \A i \in 0 .. Width : trail[t][i] \in Nat /\ trail[u][i] \in Nat
      BY DEF TypeOK
    <3> QED BY <3>1, <1>1, <2>0 DEF Outcome
  <2>2. \A i \in 0 .. Width : i <= m => Agree(ipnum[t], ipnum[u], i)
    BY <1>1, <2>1 DEF Agree
  <2>3. \A i \in 0 .. Width : i <= m /\ i <= n => trail[t][i] = trail[u][i]
    <3>1. Together(t, u)
      OBVIOUS
    <3> QED BY <3>1, <2>1, <2>2 DEF Together
  <2>4. ~(n > m)
    <3> SUFFICES ASSUME n > m PROVE FALSE
      OBVIOUS
    <3>1. m \in 0 .. Width - 1 /\ m < step[u] /\ m \in 0 .. Width
      BY <2>1
    <3>2. trail[u][m] < db.segments
      BY <3>1, <2>0 DEF Path
    <3>3. trail[t][m] = trail[u][m]
      BY <3>1, <2>1, <2>3
    <3> QED BY <3>1, <3>2, <3>3, <2>0, <2>1
  <2>5. n <= m /\ n \in 0 .. Width /\ trail[u][n] = trail[t][n]
    BY <2>1, <2>3, <2>4
  <2>6. ASSUME n < m PROVE trail[u][n] < db.segments /\ trail[u][n] < db.pairs
    <3>1. n \in 0 .. Width - 1 /\ n < step[t]
      BY <2>1, <2>6
    <3> QED BY <3>1, <2>0, <2>5 DEF Path
  <2>7. pc[u] = "found"
    <3> SUFFICES ASSUME pc[u] = "lost" PROVE FALSE
      BY <1>1
    <3>1. trail[u][n] < db.segments /\ trail[u][n] = offset[u]
      BY <2>0 DEF AtNode
    <3>2. n # m
      BY <3>1, <2>0, <2>1, <2>5
    <3>3. offset[u] < db.pairs /\ n # Width
      BY <2>1, <2>5, <2>6, <3>1, <3>2
    <3>4. offset[u] >= db.pairs
      BY <2>0, <3>3 DEF Outcome
    <3>5. offset[u] \in Nat
      BY <3>1, <2>1
    <3> QED BY <3>3, <3>4, <3>5, <2>0
  <2>8. trail[u][n] >= db.segments /\ value[u] = trail[u][n] /\ netmask[u] = n
    BY <2>0, <2>7 DEF Outcome
  <2>9. n = m
    <3> SUFFICES ASSUME n < m PROVE FALSE
      BY <2>1, <2>5
    <3> QED BY <2>0, <2>1, <2>5, <2>6, <2>8
  <2> QED BY <2>1, <2>5, <2>7, <2>8, <2>9
<1> QED
  BY <1>1 DEF BlockHasOneValue, BlockFoundOrNot

\* All the addresses of the block a lookup reports have its value and its
\* netmask, whatever the tree and whichever threads look them up.
THEOREM NetmaskIsABlock == Spec => []BlockHasOneValue
<1>1. IInv => BlockHasOneValue
  BY InvariantGivesBlocks
<1> QED
  BY <1>1, InvariantHolds, PTL

\* And none of them is lost, in any tree, cyclic and truncated ones included.
THEOREM BlocksAreFoundWhole == Spec => []BlockFoundOrNot
<1>1. IInv => BlockFoundOrNot
  BY InvariantGivesBlocks
<1> QED
  BY <1>1, InvariantHolds, PTL

\* A Teredo address has the value and the netmask of its client's address when
\* Teredo is on, and none of it happens when it is off: for any prefix, any
\* number of client's bits and any arguments the setter is called with between
\* and during walks.
THEOREM TeredoAnswersForClient == Spec => []TeredoIsItsClient
<1>1. ASSUME IInv, NEW t \in Thread, under[t] % 2 = 0
      PROVE  ipnum[t] = asked[t]
  BY <1>1 DEF IInv, Told, AsTold
<1>2. ASSUME IInv, NEW t \in Thread, NEW u \in Thread,
             under[t] % 2 = 1, pc[t] = "found", pc[u] = "found",
             IsTeredo(asked[t]), ~IsTeredo(asked[u]),
             \A i \in 0 .. Width - 1 :
                 asked[u][i] = IF i < Width - ClientBits THEN 0 ELSE 1 - asked[t][i]
      PROVE  value[t] = value[u] /\ netmask[t] = netmask[u]
  <2>1. ipnum[t] = PrepareTeredo(asked[t])
    BY <1>2 DEF IInv, Told, AsTold
  <2>2. ipnum[u] = asked[u]
    BY <1>2 DEF IInv, Told, AsTold, PrepareTeredo
  <2>3. \A i \in 0 .. Width - 1 : ipnum[t][i] = ipnum[u][i]
    BY <1>2, <2>1, <2>2 DEF PrepareTeredo
  <2>4. netmask[t] \in 1 .. Width
    <3>1. Outcome(t) /\ step[t] \in 0 .. Width
      BY <1>2 DEF IInv, Followed, TypeOK
    <3> QED BY <3>1, <1>2 DEF Outcome
  <2>5. Agree(ipnum[t], ipnum[u], netmask[t])
    BY <2>3, <2>4 DEF Agree
  <2> QED
    BY <1>2, <2>5, InvariantGivesBlocks DEF BlockHasOneValue
<1>3. IInv => TeredoIsItsClient
  BY <1>1, <1>2 DEF TeredoIsItsClient
<1> QED
  BY <1>3, InvariantHolds, PTL
=============================================================================
