--------------------------- MODULE Records_proofs ---------------------------
(***************************************************************************)
(* What lookups make of bytes, for every file an author can write, every   *)
(* length of the buffers and any order of calls.                           *)
(***************************************************************************)
EXTENDS Records, SequenceTheorems, FiniteSetTheorems, WellFoundedInduction, TLAPS

-----------------------------------------------------------------------------
(* Natural numbers *)

\* A set of numbers that is not empty has a least one.
LEMMA LeastNat ==
    ASSUME NEW T, T \subseteq Nat, T # {}
    PROVE  \E n \in T : \A m \in T : n <= m
<1>1. PICK n \in T : \A m \in T : ~ (<<m, n>> \in OpToRel(<, Nat))
  BY NatLessThanWellFounded, WFMin
<1>2. ASSUME NEW m \in T PROVE n <= m
  <2>1. <<m, n>> \in OpToRel(<, Nat) <=> m < n
    BY DEF OpToRel
  <2>2. ~ (m < n)
    BY <1>1, <2>1
  <2> QED BY <2>2
<1> QED BY <1>2

\* A set of numbers with 0 and the successor of each of its members has all.
LEMMA SetInduction ==
    ASSUME NEW G, 0 \in G, \A n \in Nat : n \in G => n + 1 \in G
    PROVE  Nat \subseteq G
<1> DEFINE T == Nat \ G
<1>1. SUFFICES ASSUME T # {} PROVE FALSE
  OBVIOUS
<1>2. PICK n \in T : \A m \in T : n <= m
  BY <1>1, LeastNat
<1>3. n # 0 /\ n \in Nat /\ n - 1 \in Nat
  BY <1>2
<1>4. n - 1 \in G
  BY <1>2, <1>3
<1> QED BY <1>2, <1>3, <1>4

-----------------------------------------------------------------------------
(* Reading bytes *)

LEMMA FileType ==
    ASSUME NEW f \in File
    PROVE  /\ f.segments \in Nat /\ f.segments > 0
           /\ f.recLen \in Nat /\ f.recLen > 0
           /\ f.bytes \in Seq(0 .. 255) /\ Len(f.bytes) \in Nat
           /\ Len(f.content) \in Nat /\ DOMAIN f.content = 1 .. Len(f.content)
           /\ \A k \in DOMAIN f.content :
                 f.content[k].at \in Nat /\ f.content[k].at > f.segments
BY RecordsConstants, LenProperties

\* Nul finds the first NUL before n, if there is one, and n otherwise.
LEMMA NulIs ==
    ASSUME NEW f, NEW p, NEW s \in Nat, NEW n \in Nat
    PROVE  /\ \/ Nul(f, p, s, n) = n
              \/ /\ Nul(f, p, s, n) \in s .. n - 1
                 /\ Byte(f, p, Nul(f, p, s, n)) = 0
           /\ \A j \in s .. n - 1 :
                 Byte(f, p, j) = 0 => Nul(f, p, s, n) <= j /\ Nul(f, p, s, n) # n
           /\ Nul(f, p, s, n) \in Nat
<1> DEFINE nuls == {j \in s .. n - 1 : Byte(f, p, j) = 0}
           e == CHOOSE j \in nuls : \A i \in nuls : j <= i
<1>1. Nul(f, p, s, n) = IF nuls = {} THEN n ELSE e
  BY DEF Nul
<1>2. nuls # {} => e \in nuls /\ \A i \in nuls : e <= i
  <2>1. nuls \subseteq Nat
    OBVIOUS
  <2> HIDE DEF nuls
  <2> QED BY <2>1, LeastNat
<1>3. \A j : j \in nuls <=> j \in s .. n - 1 /\ Byte(f, p, j) = 0
  OBVIOUS
<1> HIDE DEF nuls, e
<1>4. CASE nuls = {}
  BY <1>1, <1>3, <1>4
<1>5. CASE nuls # {}
  <2>1. e \in s .. n - 1 /\ Byte(f, p, e) = 0 /\ e \in Nat
    BY <1>2, <1>3, <1>5
  <2>2. \A j \in s .. n - 1 : Byte(f, p, j) = 0 => e <= j
    BY <1>2, <1>3, <1>5
  <2> QED BY <1>1, <1>5, <2>1, <2>2
<1> QED BY <1>4, <1>5

\* Positions and lengths are natural numbers, and what is there to read is
\* inside the file.
LEMMA ReadType ==
    ASSUME NEW f \in File, NEW seek \in Nat, NEW length \in Nat
    PROVE  /\ Pointer(f, seek) \in Nat /\ Pointer(f, seek) >= seek
           /\ There(f, Pointer(f, seek), length) \in Nat
           /\ There(f, Pointer(f, seek), length) > 0 =>
                 Pointer(f, seek) + There(f, Pointer(f, seek), length) <= Len(f.bytes)
           /\ Len(f.bytes) \in Nat
<1>1. PICK m \in Nat : m = 2 * f.recLen - 1
  BY FileType
<1>2. PICK t \in Nat : t = f.segments
  BY FileType
<1>3. m * t \in Nat
  BY SMT
<1>4. Pointer(f, seek) = seek + m * t
  BY <1>1, <1>2 DEF Pointer
<1>5. PICK q \in Nat : q = Pointer(f, seek) /\ q >= seek
  BY <1>3, <1>4
<1>6. PICK n \in Nat : n = Len(f.bytes)
  BY FileType
<1>7. There(f, q, length) \in Nat
      /\ (There(f, q, length) > 0 => q + There(f, q, length) <= n)
  BY <1>6 DEF There
<1> QED BY <1>5, <1>6, <1>7

\* A byte inside the file is a byte.
LEMMA ByteType ==
    ASSUME NEW f \in File, NEW p \in Nat, NEW j \in Nat, p + j < Len(f.bytes)
    PROVE  Byte(f, p, j) \in 0 .. 255
<1>1. p + j + 1 \in 1 .. Len(f.bytes)
  BY FileType
<1> QED BY <1>1, FileType, ElementOfSeq DEF Byte

LEMMA BytesType ==
    ASSUME NEW f \in File, NEW p \in Nat, NEW s \in Nat, NEW e \in Nat,
           s <= e, p + e <= Len(f.bytes)
    PROVE  /\ Bytes(f, p, s, e) \in Bytes8
           /\ Len(Bytes(f, p, s, e)) = e - s
<1>1. PICK n \in Nat : n = e - s
  OBVIOUS
<1>2. Len(f.bytes) \in Nat
  BY FileType
<1>3. \A j \in 1 .. n : Byte(f, p, s + j - 1) \in 0 .. 255
  <2> TAKE j \in 1 .. n
  <2>1. s + j - 1 \in Nat /\ p + (s + j - 1) < Len(f.bytes)
    BY <1>1, <1>2
  <2> QED BY <2>1, ByteType
<1>4. Bytes(f, p, s, e) = [j \in 1 .. n |-> Byte(f, p, s + j - 1)]
  BY <1>1 DEF Bytes
<1>5. Bytes(f, p, s, e) \in [1 .. n -> 0 .. 255]
  BY <1>3, <1>4
<1>6. Bytes(f, p, s, e) \in Seq(0 .. 255)
  BY <1>5
<1>7. Len(Bytes(f, p, s, e)) = n
  BY <1>5, <1>6, LenProperties
<1> QED BY <1>1, <1>6, <1>7 DEF Bytes8

-----------------------------------------------------------------------------
(* UTF-8 *)

\* out is what the loop of _GeoIP_iso_8859_1__utf8 has written before each of
\* the first n characters of s.
IsUtf8(out, s, n) ==
    out = [m \in 0 .. n |->
              IF m = 0 THEN <<>> ELSE out[m - 1] \o Utf8Char(s[m])]

\* One more round of the loop.
LEMMA Utf8Longer ==
    ASSUME NEW s, NEW n \in Nat, NEW out, IsUtf8(out, s, n)
    PROVE  \E g : IsUtf8(g, s, n + 1)
<1> DEFINE g == [m \in 0 .. n + 1 |->
                    IF m = n + 1 THEN out[n] \o Utf8Char(s[n + 1]) ELSE out[m]]
<1>1. \A m \in 0 .. n : out[m] = IF m = 0 THEN <<>> ELSE out[m - 1] \o Utf8Char(s[m])
  BY DEF IsUtf8
<1>2. \A m \in 0 .. n + 1 :
         m \in Nat /\ (m = n + 1 \/ m \in 0 .. n) /\ (m # 0 => m - 1 \in 0 .. n)
  OBVIOUS
<1>3. ASSUME NEW m \in 0 .. n + 1
      PROVE  g[m] = IF m = 0 THEN <<>> ELSE g[m - 1] \o Utf8Char(s[m])
  <2>1. m - 1 # n + 1 /\ (m # n + 1 => m - 1 # n)
    BY <1>2
  <2>2. CASE m = n + 1
    <3>1. g[m] = out[n] \o Utf8Char(s[n + 1]) /\ g[n] = out[n] /\ m - 1 = n /\ m # 0
      BY <2>2
    <3> QED BY <2>2, <3>1
  <2>3. CASE m # n + 1
    <3>1. g[m] = out[m] /\ m \in 0 .. n
      BY <1>2, <2>3
    <3>2. m # 0 => g[m - 1] = out[m - 1]
      BY <1>2, <2>1
    <3> QED BY <1>1, <3>1, <3>2
  <2> QED BY <2>2, <2>3
<1>4. g = [m \in 0 .. n + 1 |-> g[m]]
  OBVIOUS
<1> HIDE DEF g
<1>5. IsUtf8(g, s, n + 1)
  BY <1>3, <1>4 DEF IsUtf8
<1> QED BY <1>5

LEMMA Utf8Exists ==
    ASSUME NEW s, NEW n \in Nat
    PROVE  \E out : IsUtf8(out, s, n)
<1> DEFINE G == {m \in Nat : \E out : IsUtf8(out, s, m)}
<1>1. 0 \in G
  <2>1. IsUtf8([m \in 0 .. 0 |-> <<>>], s, 0)
    BY DEF IsUtf8
  <2> QED BY <2>1
<1>2. \A m \in Nat : m \in G => m + 1 \in G
  BY Utf8Longer
<1> HIDE DEF G
<1>3. Nat \subseteq G
  BY <1>1, <1>2, SetInduction
<1> QED BY <1>3 DEF G

\* The definition's function, with a name.
LEMMA Utf8Is ==
    ASSUME NEW s, Len(s) \in Nat
    PROVE  \E out : IsUtf8(out, s, Len(s)) /\ Utf8(s) = out[Len(s)]
<1> DEFINE out == CHOOSE f : IsUtf8(f, s, Len(s))
<1>1. IsUtf8(out, s, Len(s))
  BY Utf8Exists
<1>2. Utf8(s) = out[Len(s)]
  BY DEF Utf8, IsUtf8
<1> QED BY <1>1, <1>2

LEMMA PairType ==
    ASSUME NEW S, NEW a \in S, NEW b \in S
    PROVE  <<a, b>> \in Seq(S) /\ Len(<<a, b>>) = 2
OBVIOUS

LEMMA Utf8CharType ==
    ASSUME NEW c \in 0 .. 255
    PROVE  /\ Utf8Char(c) \in Bytes8
           /\ Len(Utf8Char(c)) = IF c < 128 THEN 1 ELSE 2
<1>1. CASE c < 128
  <2>1. Utf8Char(c) = <<c>>
    BY <1>1 DEF Utf8Char
  <2> QED BY <1>1, <2>1 DEF Bytes8
<1>2. CASE c >= 128
  <2> DEFINE a == IF c >= 192 THEN 195 ELSE 194
             b == IF c >= 192 THEN c - 64 ELSE c
  <2>1. Utf8Char(c) = <<a, b>> /\ a \in 0 .. 255 /\ b \in 0 .. 255
    BY <1>2 DEF Utf8Char
  <2> HIDE DEF a, b
  <2> QED BY <1>2, <2>1, PairType DEF Bytes8
<1> QED BY <1>1, <1>2

\* Bytes become bytes, in every round.
LEMMA Utf8Types ==
    ASSUME NEW s \in Bytes8, NEW out, IsUtf8(out, s, Len(s))
    PROVE  \A m \in 0 .. Len(s) : out[m] \in Bytes8 /\ Len(out[m]) \in Nat
<1>0. PICK l \in Nat : l = Len(s) /\ \A m \in 1 .. l : s[m] \in 0 .. 255
  BY LenProperties, ElementOfSeq DEF Bytes8
<1>1. \A m \in 0 .. l : out[m] = IF m = 0 THEN <<>> ELSE out[m - 1] \o Utf8Char(s[m])
  BY <1>0 DEF IsUtf8
<1> DEFINE G == {m \in Nat : m <= l => out[m] \in Bytes8}
<1>2. 0 \in G
  <2>1. 0 \in 0 .. l
    OBVIOUS
  <2>2. out[0] = <<>>
    BY <1>1, <2>1
  <2> QED BY <2>2, EmptySeq DEF Bytes8
<1>3. ASSUME NEW m \in Nat, m \in G PROVE m + 1 \in G
  <2>1. SUFFICES ASSUME m + 1 <= l PROVE out[m + 1] \in Bytes8
    OBVIOUS
  <2>2. m + 1 \in 0 .. l /\ m + 1 # 0 /\ (m + 1) - 1 = m /\ m + 1 \in 1 .. l /\ m <= l
    BY <2>1
  <2>3. out[m + 1] = out[m] \o Utf8Char(s[m + 1])
    BY <1>1, <2>2
  <2>4. out[m] \in Bytes8
    BY <1>3, <2>2
  <2>5. Utf8Char(s[m + 1]) \in Bytes8
    BY <1>0, <2>2, Utf8CharType
  <2> QED BY <2>3, <2>4, <2>5, ConcatProperties DEF Bytes8
<1> HIDE DEF G
<1>4. Nat \subseteq G
  BY <1>2, <1>3, SetInduction
<1>5. \A m \in 0 .. l : out[m] \in Bytes8
  BY <1>4 DEF G
<1> QED BY <1>0, <1>5, LenProperties DEF Bytes8

LEMMA Utf8Type ==
    ASSUME NEW s \in Bytes8
    PROVE  Utf8(s) \in Bytes8
<1>1. PICK l \in Nat : l = Len(s)
  BY LenProperties DEF Bytes8
<1>2. PICK out : IsUtf8(out, s, l) /\ Utf8(s) = out[l]
  BY <1>1, Utf8Is
<1>3. l \in 0 .. l
  OBVIOUS
<1> QED BY <1>1, <1>2, <1>3, Utf8Types

-----------------------------------------------------------------------------
(* What a lookup returns *)

\* A record read to its end has its three strings inside, and is a record.
LEMMA ParseType ==
    ASSUME NEW f \in File, NEW p \in Nat, NEW n \in Nat, p + n <= Len(f.bytes)
    PROVE  /\ Parse(f, p, n).used \in Nat
           /\ Parse(f, p, n).used <= n => Parse(f, p, n).record \in CityAnswers
<1> DEFINE r == Nul(f, p, 1, n)
           c == Nul(f, p, r + 1, n)
           z == Nul(f, p, c + 1, n)
           combo == f.edition = "city1" /\ Byte(f, p, 0) = US
           used == z + 7 + (IF combo THEN 3 ELSE 0)
           record == [country  |-> Byte(f, p, 0),
                      region   |-> Bytes(f, p, 1, r),
                      city     |-> Text(Bytes(f, p, r + 1, c)),
                      postal   |-> Bytes(f, p, c + 1, z),
                      position |-> Bytes(f, p, z + 1, z + 7),
                      metro    |-> Bytes(f, p, z + 7, used)]
<1>1. Parse(f, p, n) = IF used > n THEN [used |-> used, record |-> Null]
                       ELSE [used |-> used, record |-> record]
  BY DEF Parse
<1>2. r \in Nat /\ (r = n \/ r \in 1 .. n - 1)
  BY NulIs
<1> HIDE DEF r
<1>3. c \in Nat /\ (c = n \/ c \in r + 1 .. n - 1)
  BY <1>2, NulIs
<1> HIDE DEF c
<1>4. z \in Nat /\ (z = n \/ z \in c + 1 .. n - 1)
  BY <1>3, NulIs
<1> HIDE DEF z, combo
<1>5. used \in Nat /\ used >= z + 7
  BY <1>4
<1> HIDE DEF used, record
<1>6. Parse(f, p, n).used = used /\ (used <= n => Parse(f, p, n).record = record)
  BY <1>1, <1>5
<1>7. ASSUME used <= n PROVE record \in CityAnswers
  <2>1. 1 <= r /\ r + 1 <= c /\ c + 1 <= z /\ z + 7 <= used /\ used <= n
    BY <1>2, <1>3, <1>4, <1>5, <1>7
  <2>2. Len(f.bytes) \in Nat
    BY FileType
  <2>3. Byte(f, p, 0) \in 0 .. 255
    <3>1. p + 0 < Len(f.bytes)
      BY <1>2, <1>3, <1>4, <1>5, <2>1, <2>2
    <3> QED BY <3>1, ByteType
  <2>4. Bytes(f, p, 1, r) \in Bytes8
    BY <1>2, <1>3, <1>4, <1>5, <2>1, <2>2, BytesType
  <2>5. Bytes(f, p, r + 1, c) \in Bytes8
    BY <1>2, <1>3, <1>4, <1>5, <2>1, <2>2, BytesType
  <2>6. Bytes(f, p, c + 1, z) \in Bytes8
    BY <1>2, <1>3, <1>4, <1>5, <2>1, <2>2, BytesType
  <2>7. Bytes(f, p, z + 1, z + 7) \in Bytes8
    BY <1>4, <1>5, <2>1, <2>2, BytesType
  <2>8. Bytes(f, p, z + 7, used) \in Bytes8
    BY <1>4, <1>5, <2>1, <2>2, BytesType
  <2>9. Text(Bytes(f, p, r + 1, c)) \in Bytes8
    BY <2>5, Utf8Type DEF Text
  <2> QED BY <2>3, <2>4, <2>6, <2>7, <2>8, <2>9 DEF record, CityAnswers
<1> QED BY <1>5, <1>6, <1>7

\* A name found is text.
LEMMA NameType ==
    ASSUME NEW f \in File, NEW p \in Nat, NEW n \in Nat, n > 0 => p + n <= Len(f.bytes)
    PROVE  /\ Nul(f, p, 0, n) \in 0 .. n
           /\ [text |-> Text(Bytes(f, p, 0, Nul(f, p, 0, n)))] \in NameAnswers
<1>1. PICK e \in Nat : e = Nul(f, p, 0, n) /\ (e = n \/ e \in 0 .. n - 1)
  BY NulIs
<1>2. Bytes(f, p, 0, e) \in Bytes8
  <2>1. CASE n > 0
    <3>1. p + e <= Len(f.bytes) /\ 0 <= e
      BY <1>1, <2>1, FileType
    <3> QED BY <1>1, <3>1, BytesType
  <2>2. CASE n = 0
    <3>1. e = 0
      BY <1>1, <2>2
    <3>2. Bytes(f, p, 0, e) = <<>>
      BY <3>1 DEF Bytes
    <3> QED BY <3>2, EmptySeq DEF Bytes8
  <2> QED BY <2>1, <2>2
<1>3. Text(Bytes(f, p, 0, e)) \in Bytes8
  BY <1>2, Utf8Type DEF Text
<1> QED BY <1>1, <1>3 DEF NameAnswers

-----------------------------------------------------------------------------
(* Types *)

\* A result has a block of its own, and at most three more.
LEMMA OwnsType == ASSUME NEW a PROVE Owns(a) \in Nat /\ Owns(a) > 0
<1> DEFINE T == {s \in DOMAIN a \cap {"region", "city", "postal"} : a[s] # <<>>}
<1>1. IsFiniteSet({"region", "city", "postal"})
  <2>1. {"region", "city", "postal"} = ({"region"} \cup {"city"}) \cup {"postal"}
    OBVIOUS
  <2>2. IsFiniteSet({"region"})
    BY FS_Singleton
  <2>3. IsFiniteSet({"region"} \cup {"city"})
    BY <2>2, FS_AddElement
  <2> QED BY <2>1, <2>3, FS_AddElement
<1>2. T \in SUBSET {"region", "city", "postal"}
  OBVIOUS
<1> HIDE DEF T
<1>3. Cardinality(T) \in Nat
  BY <1>1, <1>2, FS_Subset, FS_CardinalityType
<1>4. Owns(a) = 1 + Cardinality(T)
  BY DEF Owns, T
<1> QED BY <1>3, <1>4

\* total sums up the blocks of the results held.
Totals(total, results) ==
    /\ total \in [0 .. Len(results) -> Nat]
    /\ total[0] = 0
    /\ \A i \in 1 .. Len(results) : total[i] = total[i - 1] + Owns(results[i])
    /\ \A i, j \in 0 .. Len(results) : i <= j => total[i] <= total[j]

\* Every block belongs to a result the program has not released.
Accounted == \E total : Totals(total, held) /\ blocks = total[Len(held)]

Types ==
    /\ TypeOK
    /\ iter \in Nat
    /\ Accounted

\* One more result.
LEMMA TotalsAppend ==
    ASSUME NEW results \in Seq(Results), NEW a \in Results, NEW total,
           Totals(total, results)
    PROVE  \E t : /\ Totals(t, Append(results, a))
                  /\ t[Len(results) + 1] = total[Len(results)] + Owns(a)
<1> DEFINE more == Append(results, a)
<1>1. PICK n \in Nat : n = Len(results)
  BY LenProperties
<1>2. PICK w \in Nat : w = Owns(a) /\ w > 0
  BY OwnsType
<1>3. more \in Seq(Results) /\ Len(more) = n + 1
  BY <1>1
<1>4. /\ \A i \in 1 .. n : more[i] = results[i]
      /\ more[n + 1] = a
  BY <1>1
<1> HIDE DEF more
<1> DEFINE t == [i \in 0 .. n + 1 |-> IF i = n + 1 THEN total[n] + w ELSE total[i]]
<1>5. /\ total \in [0 .. n -> Nat] /\ total[0] = 0
      /\ \A i, j \in 0 .. n : i <= j => total[i] <= total[j]
      /\ \A i \in 1 .. n : total[i] = total[i - 1] + Owns(results[i])
  BY <1>1 DEF Totals
<1>6. t \in [0 .. n + 1 -> Nat] /\ t[n + 1] = total[n] + w /\ \A i \in 0 .. n : t[i] = total[i]
  BY <1>2, <1>5
<1> HIDE DEF t
<1>7. t[0] = 0
  BY <1>5, <1>6
<1>8. ASSUME NEW i \in 1 .. n + 1
      PROVE  t[i] = t[i - 1] + Owns(more[i])
  <2>1. i - 1 \in 0 .. n
    OBVIOUS
  <2>2. CASE i = n + 1
    <3>1. more[i] = a /\ i - 1 = n /\ n \in 0 .. n
      BY <1>4, <2>2
    <3>2. t[i] = total[n] + Owns(a) /\ t[i - 1] = total[n]
      BY <1>2, <1>6, <2>2, <3>1
    <3> QED BY <3>1, <3>2
  <2>3. CASE i # n + 1
    <3>1. i \in 1 .. n /\ i \in 0 .. n
      BY <2>3
    <3> QED BY <1>4, <1>5, <1>6, <2>1, <3>1
  <2> QED BY <2>2, <2>3
<1>9. ASSUME NEW i \in 0 .. n + 1, NEW j \in 0 .. n + 1, i <= j PROVE t[i] <= t[j]
  <2>1. CASE j = n + 1 /\ i # n + 1
    <3>1. i \in 0 .. n /\ n \in 0 .. n /\ i <= n
      BY <2>1
    <3>2. t[i] = total[i] /\ total[i] <= total[n] /\ total[i] \in Nat /\ total[n] \in Nat
      BY <1>5, <1>6, <3>1
    <3> QED BY <1>2, <1>6, <2>1, <3>2
  <2>2. CASE i = n + 1
    <3>1. i = j
      BY <1>9, <2>2
    <3> QED BY <1>6, <3>1
  <2>3. CASE j # n + 1 /\ i # n + 1
    <3>1. i \in 0 .. n /\ j \in 0 .. n
      BY <2>3
    <3> QED BY <1>5, <1>6, <1>9, <3>1
  <2> QED BY <2>1, <2>2, <2>3
<1>10. Totals(t, more)
  BY <1>3, <1>6, <1>7, <1>8, <1>9 DEF Totals
<1> QED BY <1>1, <1>2, <1>6, <1>10 DEF more

LEMMA RemoveAtType ==
    ASSUME NEW results \in Seq(Results), NEW k \in 1 .. Len(results)
    PROVE  /\ RemoveAt(results, k) \in Seq(Results)
           /\ Len(RemoveAt(results, k)) = Len(results) - 1
           /\ \A i \in 1 .. Len(results) - 1 :
                 RemoveAt(results, k)[i] = results[IF i < k THEN i ELSE i + 1]
<1> DEFINE left == RemoveAt(results, k)
<1>1. PICK n \in Nat : n = Len(results) /\ n > 0 /\ k \in 1 .. n
  BY LenProperties
<1>2. /\ left \in Seq(Results) /\ Len(left) = n - 1
      /\ \A i \in 1 .. n - 1 : left[i] = results[IF i < k THEN i ELSE i + 1]
  <2>1. \A i \in 1 .. n : results[i] \in Results
    BY <1>1, ElementOfSeq
  <2> DEFINE s1 == SubSeq(results, 1, k - 1)
             s2 == SubSeq(results, k + 1, n)
  <2>2. /\ s1 \in Seq(Results) /\ Len(s1) = k - 1
        /\ \A i \in 1 .. k - 1 : s1[i] = results[i]
    BY <1>1, <2>1, SubSeqProperties
  <2>3. /\ s2 \in Seq(Results) /\ Len(s2) = n - k
        /\ \A i \in 1 .. n - k : s2[i] = results[k + i]
    BY <1>1, <2>1, SubSeqProperties
  <2>4. left = s1 \o s2
    BY <1>1 DEF RemoveAt
  <2> HIDE DEF s1, s2
  <2> HIDE DEF left
  <2>5. /\ left \in Seq(Results) /\ Len(left) = n - 1
        /\ \A i \in 1 .. n - 1 : left[i] = IF i <= k - 1 THEN s1[i] ELSE s2[i - (k - 1)]
    <3>1. PICK a \in Seq(Results) : a = s1 /\ Len(a) = k - 1
      BY <2>2
    <3>2. PICK b \in Seq(Results) : b = s2 /\ Len(b) = n - k
      BY <2>3
    <3>3. /\ a \o b \in Seq(Results) /\ Len(a \o b) = Len(a) + Len(b)
          /\ \A i \in 1 .. Len(a) + Len(b) :
                (a \o b)[i] = IF i <= Len(a) THEN a[i] ELSE b[i - Len(a)]
      BY ConcatProperties
    <3>4. Len(a) + Len(b) = n - 1
      BY <1>1, <3>1, <3>2
    <3> QED BY <2>4, <3>1, <3>2, <3>3, <3>4
  <2>6. ASSUME NEW i \in 1 .. n - 1
        PROVE  left[i] = results[IF i < k THEN i ELSE i + 1]
    <3>1. CASE i < k
      BY <1>1, <2>2, <2>3, <2>5, <3>1
    <3>2. CASE i >= k
      <4>1. i - (k - 1) \in 1 .. n - k /\ k + (i - (k - 1)) = i + 1
        BY <1>1, <3>2
      <4>2. left[i] = s2[i - (k - 1)]
        <5>1. ~ (i <= k - 1)
          BY <1>1, <3>2
        <5>2. left[i] = IF i <= k - 1 THEN s1[i] ELSE s2[i - (k - 1)]
          BY <2>5
        <5> QED BY <5>1, <5>2
      <4>3. s2[i - (k - 1)] = results[i + 1]
        BY <2>3, <4>1
      <4> QED BY <3>2, <4>2, <4>3
    <3> QED BY <1>1, <3>1, <3>2
  <2> QED BY <1>1, <2>2, <2>3, <2>5, <2>6
<1> QED BY <1>1, <1>2 DEF left

\* One result less.
LEMMA TotalsRemove ==
    ASSUME NEW results \in Seq(Results), NEW k \in DOMAIN results, NEW total,
           Totals(total, results)
    PROVE  \E t : /\ Totals(t, RemoveAt(results, k))
                  /\ t[Len(RemoveAt(results, k))] = total[Len(results)] - Owns(results[k])
<1>1. PICK n \in Nat : n = Len(results) /\ n > 0 /\ DOMAIN results = 1 .. n /\ k \in 1 .. n
  BY LenProperties
<1>2. PICK w \in Nat : w = Owns(results[k])
  BY OwnsType
<1> DEFINE left == RemoveAt(results, k)
<1>3. /\ left \in Seq(Results) /\ Len(left) = n - 1
      /\ \A i \in 1 .. n - 1 : left[i] = results[IF i < k THEN i ELSE i + 1]
  BY <1>1, RemoveAtType
<1> HIDE DEF left
<1>4. /\ total \in [0 .. n -> Nat] /\ total[0] = 0
      /\ \A i, j \in 0 .. n : i <= j => total[i] <= total[j]
      /\ \A i \in 1 .. n : total[i] = total[i - 1] + Owns(results[i])
  BY <1>1 DEF Totals
<1>5. total[k] = total[k - 1] + w /\ total[k] \in Nat /\ total[k - 1] \in Nat
  <2>1. k \in 0 .. n /\ k - 1 \in 0 .. n
    BY <1>1
  <2> QED BY <1>1, <1>2, <1>4, <2>1
<1> DEFINE t == [i \in 0 .. n - 1 |-> IF i < k THEN total[i] ELSE total[i + 1] - w]
<1>6. ASSUME NEW i \in 0 .. n - 1
      PROVE  /\ i < k => t[i] = total[i] /\ t[i] \in Nat /\ t[i] <= total[k - 1]
             /\ i >= k => /\ t[i] = total[i + 1] - w /\ t[i] \in Nat
                          /\ total[k - 1] <= t[i] /\ total[i + 1] \in Nat
  <2>1. i \in 0 .. n /\ i + 1 \in 0 .. n /\ k \in 0 .. n /\ k - 1 \in 0 .. n /\ i \in Nat
    BY <1>1
  <2>2. CASE i < k
    <3>1. t[i] = total[i] /\ i <= k - 1
      BY <1>1, <2>1, <2>2
    <3>2. total[i] \in Nat /\ total[i] <= total[k - 1]
      BY <1>4, <2>1, <3>1
    <3> QED BY <1>1, <2>1, <2>2, <3>1, <3>2
  <2>3. CASE i >= k
    <3>1. t[i] = total[i + 1] - w /\ k <= i + 1
      BY <1>1, <2>1, <2>3
    <3>2. total[i + 1] \in Nat /\ total[k] <= total[i + 1]
      BY <1>4, <2>1, <3>1
    <3> HIDE DEF t
    <3> QED BY <1>1, <1>2, <1>5, <2>1, <2>3, <3>1, <3>2
  <2> QED BY <1>1, <2>1, <2>2, <2>3
<1>7. t = [i \in 0 .. n - 1 |-> t[i]]
  OBVIOUS
<1> HIDE DEF t
<1>8. t \in [0 .. n - 1 -> Nat]
  <2>1. \A i \in 0 .. n - 1 : t[i] \in Nat
    BY <1>1, <1>6
  <2> QED BY <1>7, <2>1
<1>9. t[0] = 0
  <2>1. 0 \in 0 .. n - 1 /\ 0 < k
    BY <1>1
  <2> QED BY <1>4, <1>6, <2>1
<1>10. ASSUME NEW i \in 1 .. n - 1
       PROVE  t[i] = t[i - 1] + Owns(left[i])
  <2>1. i \in 0 .. n - 1 /\ i - 1 \in 0 .. n - 1 /\ i \in 1 .. n /\ i + 1 \in 1 .. n
        /\ i \in 0 .. n /\ i - 1 \in 0 .. n /\ i + 1 \in 0 .. n /\ i \in Nat
    BY <1>1
  <2>2. CASE i < k
    <3>1. t[i] = total[i] /\ t[i - 1] = total[i - 1] /\ left[i] = results[i]
      BY <1>1, <1>3, <1>6, <2>1, <2>2
    <3> QED BY <1>4, <2>1, <3>1
  <2>3. CASE i = k
    <3>1. t[i] = total[k + 1] - w /\ t[i - 1] = total[k - 1] /\ left[i] = results[i + 1]
      BY <1>1, <1>3, <1>6, <2>1, <2>3
    <3>2. total[i + 1] = total[i] + Owns(results[i + 1])
      BY <1>4, <2>1
    <3>3. PICK v \in Nat : v = Owns(left[i]) /\ v = Owns(results[i + 1])
      BY <3>1, OwnsType
    <3> QED BY <1>2, <1>5, <2>3, <3>1, <3>2, <3>3
  <2>4. CASE i > k
    <3>1. t[i] = total[i + 1] - w /\ t[i - 1] = total[i] - w /\ left[i] = results[i + 1]
      BY <1>1, <1>3, <1>6, <2>1, <2>4
    <3>2. total[i + 1] = total[i] + Owns(results[i + 1]) /\ total[i] \in Nat
      BY <1>4, <2>1
    <3>3. PICK v \in Nat : v = Owns(left[i]) /\ v = Owns(results[i + 1])
      BY <3>1, OwnsType
    <3> QED BY <1>2, <2>4, <3>1, <3>2, <3>3
  <2> QED BY <1>1, <2>1, <2>2, <2>3, <2>4
<1>11. ASSUME NEW i \in 0 .. n - 1, NEW j \in 0 .. n - 1, i <= j PROVE t[i] <= t[j]
  <2>1. i \in 0 .. n /\ j \in 0 .. n /\ i + 1 \in 0 .. n /\ j + 1 \in 0 .. n /\ i + 1 <= j + 1
        /\ i \in Nat /\ j \in Nat
    BY <1>1, <1>11
  <2>2. total[i] <= total[j] /\ total[i + 1] <= total[j + 1]
    BY <1>4, <1>11, <2>1
  <2>3. CASE j < k
    <3>1. t[i] = total[i] /\ t[j] = total[j]
      BY <1>1, <1>6, <1>11, <2>1, <2>3
    <3> QED BY <2>2, <3>1
  <2>4. CASE i < k /\ j >= k
    <3>1. t[i] \in Nat /\ t[i] <= total[k - 1] /\ t[j] \in Nat /\ total[k - 1] <= t[j]
      BY <1>6, <2>4
    <3> QED BY <1>5, <3>1
  <2>5. CASE i >= k
    <3>1. /\ t[i] = total[i + 1] - w /\ total[i + 1] \in Nat
          /\ t[j] = total[j + 1] - w /\ total[j + 1] \in Nat
      BY <1>1, <1>6, <1>11, <2>1, <2>5
    <3> QED BY <1>2, <2>2, <3>1
  <2> QED BY <1>1, <2>1, <2>3, <2>4, <2>5
<1>12. Totals(t, left)
  BY <1>1, <1>3, <1>8, <1>9, <1>10, <1>11 DEF Totals
<1>13. t[n - 1] = total[n] - w
  <2>1. n - 1 \in 0 .. n - 1 /\ n \in 0 .. n /\ (n - 1) + 1 = n
    BY <1>1
  <2>2. CASE n - 1 < k
    <3>1. k = n
      BY <1>1, <2>2
    <3>2. t[n - 1] = total[n - 1]
      BY <1>1, <1>6, <2>1, <2>2
    <3> QED BY <1>2, <1>5, <3>1, <3>2
  <2>3. CASE n - 1 >= k
    BY <1>1, <1>6, <2>1, <2>3
  <2> QED BY <1>1, <2>2, <2>3
<1> QED BY <1>1, <1>2, <1>3, <1>12, <1>13 DEF left

\* What a call returns is accounted for, and held if there is room.
LEMMA ReturnKeeps ==
    ASSUME Types, NEW a \in Results \cup {Null}, Len(held) < MaxHeld, Return(a, 0)
    PROVE  /\ answer' \in Results \cup {Null}
           /\ held' \in Seq(Results) /\ Len(held') <= MaxHeld
           /\ blocks' \in Nat /\ Accounted'
<1>1. MaxHeld \in Nat /\ Null \notin Results
  BY RecordsConstants
<1>2. held \in Seq(Results) /\ Len(held) \in Nat
  BY LenProperties DEF Types, TypeOK
<1>3. answer' = a
  BY DEF Return
<1>4. PICK total : Totals(total, held) /\ blocks = total[Len(held)]
  BY DEF Types, Accounted
<1>5. CASE a = Null
  <2>1. held' = held /\ blocks' = blocks
    BY <1>5 DEF Return, Types, TypeOK
  <2> QED BY <1>1, <1>2, <1>3, <1>5, <2>1 DEF Types, TypeOK, Accounted
<1>6. CASE a # Null
  <2>1. a \in Results
    BY <1>6
  <2>2. held' = Append(held, a) /\ blocks' = blocks + Owns(a)
    BY <1>6, OwnsType DEF Return, Types, TypeOK
  <2>3. PICK t : Totals(t, Append(held, a)) /\ t[Len(held) + 1] = total[Len(held)] + Owns(a)
    BY <1>2, <1>4, <2>1, TotalsAppend
  <2>4. Append(held, a) \in Seq(Results) /\ Len(Append(held, a)) = Len(held) + 1
    BY <1>2, <2>1
  <2>5. blocks' \in Nat
    BY <2>2, OwnsType DEF Types, TypeOK
  <2>6. Len(held') <= MaxHeld
    BY <1>1, <1>2, <2>2, <2>4
  <2>7. Totals(t, held') /\ blocks' = t[Len(held')]
    BY <1>4, <2>2, <2>3, <2>4
  <2> QED BY <1>3, <2>1, <2>2, <2>4, <2>5, <2>6, <2>7 DEF Accounted
<1> QED BY <1>5, <1>6

\* A lookup of a city record returns one or none, and an iterator it steps on
\* goes forward.
LEMMA ExtractKeeps ==
    ASSUME Types, NEW f \in File, NEW seek \in Nat, NEW stepping \in BOOLEAN,
           Extract(f, seek, stepping)
    PROVE  /\ \E a \in Results \cup {Null} : Return(a, 0)
           /\ fault' \in {fault, "overrun", "unset"}
           /\ iter' = iter \/ (stepping /\ iter' \in Nat /\ iter' >= seek)
<1> DEFINE p == Pointer(f, seek)
           n == There(f, p, Full)
           parsed == Parse(f, p, n)
<1>1. Full \in Nat
  BY RecordsConstants
<1>2. p \in Nat /\ n \in Nat /\ (n > 0 => p + n <= Len(f.bytes))
  BY <1>1, ReadType
<1>3. \/ Return(Null, 0) /\ UNCHANGED <<iter, fault>>
      \/ /\ n > 0 /\ parsed.used <= n
         /\ Return(parsed.record, 0)
         /\ iter' = IF stepping THEN seek + parsed.used ELSE iter
         /\ UNCHANGED fault
      \/ fault' = Beyond(n, Full) /\ Return(Null, 0) /\ UNCHANGED iter
  BY DEF Extract, ExtractWith
<1>4. Beyond(n, Full) \in {"overrun", "unset"}
  BY DEF Beyond
<1>5. n > 0 => /\ parsed.used \in Nat
               /\ parsed.used <= n => parsed.record \in CityAnswers
  BY <1>2, ParseType
<1> HIDE DEF p, n, parsed
<1>6. CASE Return(Null, 0) /\ UNCHANGED <<iter, fault>>
  BY <1>6
<1>7. CASE /\ n > 0 /\ parsed.used <= n
           /\ Return(parsed.record, 0)
           /\ iter' = IF stepping THEN seek + parsed.used ELSE iter
           /\ UNCHANGED fault
  <2>1. parsed.record \in Results
    BY <1>5, <1>7 DEF Results
  <2>2. seek + parsed.used \in Nat /\ seek + parsed.used >= seek
    BY <1>5, <1>7
  <2>3. iter' = iter \/ (stepping /\ iter' = seek + parsed.used)
    BY <1>7
  <2> QED BY <1>7, <2>1, <2>2, <2>3
<1>8. CASE fault' = Beyond(n, Full) /\ Return(Null, 0) /\ UNCHANGED iter
  BY <1>4, <1>8
<1> QED BY <1>3, <1>6, <1>7, <1>8

\* A lookup of a name returns text or none.
LEMMA NameKeeps ==
    ASSUME Types, NEW f \in File, NEW seek \in Nat, NameAt(f, seek)
    PROVE  /\ \E a \in Results \cup {Null} : Return(a, 0)
           /\ fault' \in {fault, "overrun", "unset"}
<1> DEFINE p == Pointer(f, seek)
           n == There(f, p, NameMax)
           e == Nul(f, p, 0, n)
           a == [text |-> Text(Bytes(f, p, 0, e))]
<1>1. NameMax \in Nat
  BY RecordsConstants
<1>2. p \in Nat /\ n \in Nat /\ (n > 0 => p + n <= Len(f.bytes))
  BY <1>1, ReadType
<1>3. \/ Return(Null, 0) /\ UNCHANGED fault
      \/ Return(a, 0) /\ UNCHANGED fault
      \/ fault' = Beyond(n, NameMax) /\ Return(Null, 0)
  BY DEF NameAt, NameWith
<1>4. Beyond(n, NameMax) \in {"overrun", "unset"}
  BY DEF Beyond
<1>5. a \in Results
  BY <1>2, NameType DEF Results
<1> QED BY <1>3, <1>4, <1>5

\* A walk returns a number.
LEMMA SeekType ==
    ASSUME NEW f \in File, NEW k \in {None, Lost, Stray} \cup DOMAIN f.content
    PROVE  Seek(f, k) \in Nat
<1>1. k = None \/ k = Lost \/ k = Stray \/ k \in DOMAIN f.content
  OBVIOUS
<1>2. f.segments \in Nat /\ Len(f.bytes) \in Nat
  BY FileType
<1>3. k \in DOMAIN f.content => f.content[k].at \in Nat
  BY FileType
<1> QED BY <1>1, <1>2, <1>3 DEF Seek

\* Initially nothing is held.
LEMMA InitTypes == Init => Types
<1> SUFFICES ASSUME Init PROVE Types
  OBVIOUS
<1>1. TypeOK
  <2>1. held \in Seq(Results) /\ Len(held) = 0
    BY EmptySeq DEF Init
  <2>2. MaxHeld \in Nat
    BY RecordsConstants
  <2>3. 0 \in Nat /\ 0 <= MaxHeld
    BY <2>2
  <2>4. /\ file \in File /\ cached \in BOOLEAN /\ utf8 \in BOOLEAN /\ iter = 0 /\ visited = 0
        /\ steady \in BOOLEAN /\ answer = Null /\ blocks = 0 /\ fault = "none"
    BY DEF Init
  <2> QED BY <2>1, <2>3, <2>4 DEF TypeOK
<1>2. Totals([i \in 0 .. 0 |-> 0], held) /\ [i \in 0 .. 0 |-> 0][Len(held)] = blocks
  BY DEF Init, Totals
<1>3. Accounted
  BY <1>2 DEF Accounted
<1> QED BY <1>1, <1>3 DEF Types, Init

\* The rest of a step that returns something.
LEMMA CallTypes ==
    ASSUME Types, Len(held) < MaxHeld,
           \E a \in Results \cup {Null} : Return(a, 0),
           file' \in File, cached' = cached, utf8' = utf8,
           iter' \in Nat, iter' = 0 \/ (steady' => iter' > file'.segments),
           visited' \in Nat, steady' \in BOOLEAN,
           fault' \in {"none", "overrun", "unset"}
    PROVE  Types'
<1>1. /\ answer' \in Results \cup {Null}
      /\ held' \in Seq(Results) /\ Len(held') <= MaxHeld
      /\ blocks' \in Nat /\ Accounted'
  BY ReturnKeeps
<1>2. TypeOK'
  BY <1>1 DEF Types, TypeOK
<1> QED BY <1>1, <1>2 DEF Types

\* Every call keeps the types and the account.
LEMMA StepTypes == Types /\ [Next]_vars => Types'
<1> SUFFICES ASSUME Types, [Next]_vars PROVE Types'
  OBVIOUS
<1>0. /\ file \in File /\ iter \in Nat /\ visited \in Nat /\ steady \in BOOLEAN
      /\ iter = 0 \/ (steady => iter > file.segments)
      /\ fault \in {"none", "overrun", "unset"}
      /\ file.segments \in Nat /\ file.segments > 0 /\ Len(file.content) \in Nat
  BY FileType DEF Types, TypeOK
<1>1. CASE UNCHANGED vars
  BY <1>1 DEF vars, Types, TypeOK, Accounted
<1>2. ASSUME NEW f \in File, NEW k \in {None, Lost, Stray} \cup DOMAIN f.content,
             RecordBy(f, k)
      PROVE  Types'
  <2>1. Len(held) < MaxHeld /\ fault = "none" /\ Walk(f) /\ Extract(f, Seek(f, k), FALSE)
    BY <1>2 DEF RecordBy, Call
  <2>2. Seek(f, k) \in Nat
    BY SeekType
  <2>3. /\ \E a \in Results \cup {Null} : Return(a, 0)
        /\ fault' \in {fault, "overrun", "unset"} /\ iter' = iter
    BY <2>1, <2>2, ExtractKeeps
  <2>4. file' = f /\ steady' = (steady /\ f = file) /\ UNCHANGED <<cached, utf8, visited>>
    BY <2>1 DEF Walk
  <2>5. iter' = 0 \/ (steady' => iter' > file'.segments)
    BY <1>0, <2>3, <2>4
  <2> QED BY <1>0, <2>1, <2>3, <2>4, <2>5, CallTypes
<1>3. ASSUME NEW f \in File, NEW k \in {None, Lost, Stray} \cup DOMAIN f.content,
             NameBy(f, k)
      PROVE  Types'
  <2>1. /\ Len(held) < MaxHeld /\ fault = "none" /\ Walk(f) /\ NameAt(f, Seek(f, k))
        /\ iter' = iter
    BY <1>3 DEF NameBy, Call
  <2>2. Seek(f, k) \in Nat
    BY SeekType
  <2>3. /\ \E a \in Results \cup {Null} : Return(a, 0)
        /\ fault' \in {fault, "overrun", "unset"}
    BY <2>1, <2>2, NameKeeps
  <2>4. file' = f /\ steady' = (steady /\ f = file) /\ UNCHANGED <<cached, utf8, visited>>
    BY <2>1 DEF Walk
  <2>5. iter' = 0 \/ (steady' => iter' > file'.segments)
    BY <1>0, <2>1, <2>4
  <2> QED BY <1>0, <2>1, <2>3, <2>4, <2>5, CallTypes
<1>4. CASE WrongEdition
  <2>1. Len(held) < MaxHeld /\ Return(Null, 0)
        /\ UNCHANGED <<file, cached, utf8, iter, visited, steady, fault>>
    BY <1>4 DEF WrongEdition, Call
  <2> QED BY <1>0, <2>1, CallTypes
<1>5. CASE InitRecordIter
  <2>1. /\ Len(held) < MaxHeld /\ Return(Null, 0) /\ iter' = file.segments + 1
        /\ visited' = 0 /\ steady' = TRUE /\ UNCHANGED <<file, cached, utf8, fault>>
    BY <1>5 DEF InitRecordIter, InitRecordIterAt, Call
  <2>2. iter' \in Nat /\ iter' > file'.segments
    BY <1>0, <2>1
  <2> QED BY <1>0, <2>1, <2>2, CallTypes
<1>6. CASE NextRecord
  <2>1. UNCHANGED <<file, cached, utf8, steady>> /\ Len(held) < MaxHeld /\ iter # 0
    BY <1>6 DEF NextRecord, Call
  <2>2. CASE cached /\ Return(Null, 0) /\ UNCHANGED <<iter, visited, fault>>
    BY <1>0, <2>1, <2>2, CallTypes
  <2>3. CASE /\ visited' = IF visited > Len(file.content) THEN visited ELSE visited + 1
             /\ Extract(file, iter, TRUE)
    <3>1. /\ \E a \in Results \cup {Null} : Return(a, 0)
          /\ fault' \in {fault, "overrun", "unset"}
          /\ iter' = iter \/ (iter' \in Nat /\ iter' >= iter)
      BY <1>0, <2>3, ExtractKeeps
    <3>2. iter' \in Nat /\ (iter' = 0 \/ (steady' => iter' > file'.segments))
      BY <1>0, <2>1, <3>1
    <3>3. visited' \in Nat
      BY <1>0, <2>3
    <3> QED BY <1>0, <2>1, <3>1, <3>2, <3>3, CallTypes
  <2> QED BY <1>6, <2>2, <2>3 DEF NextRecord
<1>7. ASSUME NEW u \in BOOLEAN, SetCharset(u) PROVE Types'
  BY <1>7 DEF SetCharset, Types, TypeOK, Accounted
<1>8. ASSUME NEW i \in DOMAIN held, Release(i) PROVE Types'
  <2>1. /\ held' = RemoveAt(held, i) /\ blocks' = blocks - Owns(held[i])
        /\ UNCHANGED <<file, cached, utf8, iter, visited, steady, asked, answer, fault>>
    BY <1>8 DEF Release
  <2>2. held \in Seq(Results) /\ Len(held) \in Nat /\ Len(held) <= MaxHeld /\ MaxHeld \in Nat
        /\ i \in 1 .. Len(held)
    BY RecordsConstants, LenProperties DEF Types, TypeOK
  <2>3. PICK total : Totals(total, held) /\ blocks = total[Len(held)]
    BY DEF Types, Accounted
  <2>4. PICK t : /\ Totals(t, RemoveAt(held, i))
                 /\ t[Len(RemoveAt(held, i))] = total[Len(held)] - Owns(held[i])
    BY <2>2, <2>3, TotalsRemove
  <2>5. Totals(t, held') /\ blocks' = t[Len(held')]
    BY <2>1, <2>3, <2>4
  <2>6. held' \in Seq(Results) /\ Len(held') = Len(held) - 1
    BY <2>1, <2>2, RemoveAtType
  <2>7. blocks' \in Nat
    <3>1. Len(held') \in 0 .. Len(held')
      BY <2>6, <2>2
    <3> QED BY <2>5, <3>1 DEF Totals
  <2>8. Accounted'
    BY <2>5 DEF Accounted
  <2>9. Len(held') <= MaxHeld
    BY <2>2, <2>6
  <2>10. TypeOK'
    BY <2>1, <2>6, <2>7, <2>9 DEF Types, TypeOK
  <2> QED BY <2>1, <2>8, <2>10 DEF Types
<1> QED
  BY <1>1, <1>2, <1>3, <1>4, <1>5, <1>6, <1>7, <1>8 DEF Next

\* In every run of lookups, iterations and releases fields keep their types, and
\* the program's iterator never points into the tree.
THEOREM RecordTypes == Spec => []TypeOK
<1>1. Types => TypeOK
  BY DEF Types
<1> QED BY <1>1, InitTypes, StepTypes, PTL DEF Spec

\* No path of any call leaves a block allocated that the results the program
\* holds do not own.
THEOREM RecordsLeakNothing == Spec => []NoLeak
<1>1. Types => NoLeak
  BY DEF Types, Accounted, Totals, NoLeak
<1> QED BY <1>1, InitTypes, StepTypes, PTL DEF Spec

-----------------------------------------------------------------------------
(* A record in its file *)

LEMMA Joined ==
    ASSUME NEW s \in Bytes8, NEW t \in Bytes8
    PROVE  /\ s \o t \in Bytes8 /\ Len(s \o t) = Len(s) + Len(t)
           /\ \A i \in 1 .. Len(s) : (s \o t)[i] = s[i]
           /\ \A i \in 1 .. Len(t) : (s \o t)[Len(s) + i] = t[i]
<1>1. Len(s) \in Nat /\ Len(t) \in Nat
  BY LenProperties DEF Bytes8
<1>2. /\ s \o t \in Bytes8 /\ Len(s \o t) = Len(s) + Len(t)
      /\ \A i \in 1 .. Len(s) + Len(t) :
            (s \o t)[i] = IF i <= Len(s) THEN s[i] ELSE t[i - Len(s)]
  BY ConcatProperties DEF Bytes8
<1>3. \A i \in 1 .. Len(t) : Len(s) + i \in 1 .. Len(s) + Len(t) /\ ~ (Len(s) + i <= Len(s))
                                /\ (Len(s) + i) - Len(s) = i
  BY <1>1
<1> QED BY <1>1, <1>2, <1>3

\* w is s and then t, of lengths n and m.
Follows(w, s, t, n, m) ==
    /\ w \in Bytes8 /\ w = s \o t /\ Len(w) = n + m
    /\ \A i \in 1 .. n : w[i] = s[i]
    /\ \A i \in 1 .. m : w[n + i] = t[i]

LEMMA JoinedTo ==
    ASSUME NEW s \in Bytes8, NEW t \in Bytes8, NEW n, NEW m, Len(s) = n, Len(t) = m
    PROVE  \E w : Follows(w, s, t, n, m)
<1>1. Follows(s \o t, s, t, n, m)
  BY Joined DEF Follows
<1> QED BY <1>1

LEMMA OneByte ==
    ASSUME NEW b \in 0 .. 255
    PROVE  <<b>> \in Bytes8 /\ Len(<<b>>) = 1 /\ <<b>>[1] = b
BY DEF Bytes8

\* The fields of a record are bytes.
LEMMA ContentType ==
    ASSUME NEW f, NEW c, CityContent(f, c)
    PROVE  /\ c.country \in 0 .. 255
           /\ c.region \in Bytes8 /\ Len(c.region) \in Nat
           /\ c.city \in Bytes8 /\ Len(c.city) \in Nat
           /\ c.postal \in Bytes8 /\ Len(c.postal) \in Nat
           /\ \A x \in {"region", "city", "postal"} :
                 \A j \in 1 .. Len(c[x]) : c[x][j] \in 1 .. 255
           /\ c.position \in Bytes8 /\ Len(c.position) = 6
           /\ c.metro \in Bytes8
           /\ Len(c.metro) = IF f.edition = "city1" /\ c.country = US THEN 3 ELSE 0
<1>1. c.country \in 0 .. 255 /\ \A x \in {"region", "city", "postal"} : c[x] \in Seq(1 .. 255)
  BY DEF CityContent
<1>2. 1 .. 255 \subseteq 0 .. 255
  OBVIOUS
<1>3. \A x \in {"region", "city", "postal"} :
         /\ c[x] \in Bytes8 /\ Len(c[x]) \in Nat
         /\ \A j \in 1 .. Len(c[x]) : c[x][j] \in 1 .. 255
  <2> TAKE x \in {"region", "city", "postal"}
  <2>1. c[x] \in Seq(1 .. 255)
    BY <1>1
  <2>2. c[x] \in Bytes8
    BY <1>2, <2>1, SeqMonotonic DEF Bytes8
  <2> QED BY <2>1, <2>2, LenProperties, ElementOfSeq
<1>4. \A n \in Nat : \A t \in [1 .. n -> 0 .. 255] : t \in Bytes8 /\ Len(t) = n
  BY DEF Bytes8
<1>5. c.position \in [1 .. 6 -> 0 .. 255]
  BY DEF CityContent
<1>6. c.position \in Bytes8 /\ Len(c.position) = 6
  BY <1>4, <1>5
<1>7. CASE f.edition = "city1" /\ c.country = US
  <2>1. c.metro \in [1 .. 3 -> 0 .. 255]
    BY <1>7 DEF CityContent
  <2>2. c.metro \in Bytes8 /\ Len(c.metro) = 3
    BY <1>4, <2>1
  <2> QED BY <1>1, <1>3, <1>6, <1>7, <2>2
<1>8. CASE ~ (f.edition = "city1" /\ c.country = US)
  <2>1. c.metro = <<>>
    BY <1>8 DEF CityContent
  <2>2. c.metro \in Bytes8 /\ Len(c.metro) = 0
    BY <2>1, EmptySeq DEF Bytes8
  <2> QED BY <1>1, <1>3, <1>6, <1>8, <2>2
<1> QED BY <1>7, <1>8

\* w is made of the fields of c, each behind the one before.
Made(w, c) ==
    LET r == 1 + Len(c.region)
        e == r + 1 + Len(c.city)
        z == e + 1 + Len(c.postal)
    IN  /\ w[1] = c.country
        /\ \A j \in 1 .. Len(c.region) : w[1 + j] = c.region[j]
        /\ w[r + 1] = 0
        /\ \A j \in 1 .. Len(c.city) : w[r + 1 + j] = c.city[j]
        /\ w[e + 1] = 0
        /\ \A j \in 1 .. Len(c.postal) : w[e + 1 + j] = c.postal[j]
        /\ w[z + 1] = 0
        /\ \A j \in 1 .. 6 : w[z + 1 + j] = c.position[j]
        /\ \A j \in 1 .. Len(c.metro) : w[z + 7 + j] = c.metro[j]
        /\ Len(w) = z + 7 + Len(c.metro)

LEMMA CityBytesMade ==
    ASSUME NEW f, NEW c, CityContent(f, c)
    PROVE  Made(CityBytes(c), c)
<1>0. /\ c.country \in 0 .. 255 /\ 0 \in 0 .. 255
      /\ c.region \in Bytes8 /\ c.city \in Bytes8 /\ c.postal \in Bytes8
      /\ c.position \in Bytes8 /\ Len(c.position) = 6 /\ c.metro \in Bytes8
  BY ContentType
<1>a. PICK lr \in Nat : lr = Len(c.region)
  BY ContentType
<1>b. PICK lc \in Nat : lc = Len(c.city)
  BY ContentType
<1>c. PICK lp \in Nat : lp = Len(c.postal)
  BY ContentType
<1>d. PICK lm \in Nat : lm = Len(c.metro)
  BY ContentType
<1>e. PICK n1 \in Nat : n1 = 1 + lr
  OBVIOUS
<1>f. PICK n2 \in Nat : n2 = n1 + 1
  OBVIOUS
<1>g. PICK n3 \in Nat : n3 = n2 + lc
  OBVIOUS
<1>h. PICK n4 \in Nat : n4 = n3 + 1
  OBVIOUS
<1>i. PICK n5 \in Nat : n5 = n4 + lp
  OBVIOUS
<1>j. PICK n6 \in Nat : n6 = n5 + 1
  OBVIOUS
<1>k. PICK n7 \in Nat : n7 = n6 + 6
  OBVIOUS
<1>z. <<0>> \in Bytes8 /\ Len(<<0>>) = 1 /\ <<0>>[1] = 0
  BY <1>0, OneByte
<1>1. PICK s0 : /\ s0 \in Bytes8 /\ s0 = <<c.country>>
                /\ Len(s0) = 1 /\ s0[1] = c.country
  BY <1>0, OneByte
<1>2p. PICK s1 : Follows(s1, s0, c.region, 1, lr)
  BY <1>0, <1>z, <1>1, <1>a, JoinedTo
<1>2. /\ s1 \in Bytes8 /\ Len(s1) = n1
      /\ \A i \in 1 .. 1 : s1[i] = s0[i]
      /\ \A j \in 1 .. lr : s1[1 + j] = c.region[j]
  <2>1. /\ s1 \in Bytes8 /\ Len(s1) = 1 + lr
        /\ \A i \in 1 .. 1 : s1[i] = s0[i]
        /\ \A j \in 1 .. lr : s1[1 + j] = c.region[j]
    BY <1>2p DEF Follows
  <2> QED BY <1>e, <2>1
<1>3p. PICK s2 : Follows(s2, s1, <<0>>, n1, 1)
  BY <1>0, <1>z, <1>2, JoinedTo
<1>3. /\ s2 \in Bytes8 /\ Len(s2) = n2
      /\ \A i \in 1 .. n1 : s2[i] = s1[i]
      /\ s2[n1 + 1] = 0
  <2>1. /\ s2 \in Bytes8 /\ Len(s2) = n1 + 1
        /\ \A i \in 1 .. n1 : s2[i] = s1[i]
        /\ \A j \in 1 .. 1 : s2[n1 + j] = <<0>>[j]
    BY <1>3p DEF Follows
  <2>2. 1 \in 1 .. 1
    OBVIOUS
  <2> QED BY <1>z, <1>f, <2>1, <2>2
<1>4p. PICK s3 : Follows(s3, s2, c.city, n2, lc)
  BY <1>0, <1>z, <1>3, <1>b, JoinedTo
<1>4. /\ s3 \in Bytes8 /\ Len(s3) = n3
      /\ \A i \in 1 .. n2 : s3[i] = s2[i]
      /\ \A j \in 1 .. lc : s3[n2 + j] = c.city[j]
  <2>1. /\ s3 \in Bytes8 /\ Len(s3) = n2 + lc
        /\ \A i \in 1 .. n2 : s3[i] = s2[i]
        /\ \A j \in 1 .. lc : s3[n2 + j] = c.city[j]
    BY <1>4p DEF Follows
  <2> QED BY <1>g, <2>1
<1>5p. PICK s4 : Follows(s4, s3, <<0>>, n3, 1)
  BY <1>0, <1>z, <1>4, JoinedTo
<1>5. /\ s4 \in Bytes8 /\ Len(s4) = n4
      /\ \A i \in 1 .. n3 : s4[i] = s3[i]
      /\ s4[n3 + 1] = 0
  <2>1. /\ s4 \in Bytes8 /\ Len(s4) = n3 + 1
        /\ \A i \in 1 .. n3 : s4[i] = s3[i]
        /\ \A j \in 1 .. 1 : s4[n3 + j] = <<0>>[j]
    BY <1>5p DEF Follows
  <2>2. 1 \in 1 .. 1
    OBVIOUS
  <2> QED BY <1>z, <1>h, <2>1, <2>2
<1>6p. PICK s5 : Follows(s5, s4, c.postal, n4, lp)
  BY <1>0, <1>z, <1>5, <1>c, JoinedTo
<1>6. /\ s5 \in Bytes8 /\ Len(s5) = n5
      /\ \A i \in 1 .. n4 : s5[i] = s4[i]
      /\ \A j \in 1 .. lp : s5[n4 + j] = c.postal[j]
  <2>1. /\ s5 \in Bytes8 /\ Len(s5) = n4 + lp
        /\ \A i \in 1 .. n4 : s5[i] = s4[i]
        /\ \A j \in 1 .. lp : s5[n4 + j] = c.postal[j]
    BY <1>6p DEF Follows
  <2> QED BY <1>i, <2>1
<1>7p. PICK s6 : Follows(s6, s5, <<0>>, n5, 1)
  BY <1>0, <1>z, <1>6, JoinedTo
<1>7. /\ s6 \in Bytes8 /\ Len(s6) = n6
      /\ \A i \in 1 .. n5 : s6[i] = s5[i]
      /\ s6[n5 + 1] = 0
  <2>1. /\ s6 \in Bytes8 /\ Len(s6) = n5 + 1
        /\ \A i \in 1 .. n5 : s6[i] = s5[i]
        /\ \A j \in 1 .. 1 : s6[n5 + j] = <<0>>[j]
    BY <1>7p DEF Follows
  <2>2. 1 \in 1 .. 1
    OBVIOUS
  <2> QED BY <1>z, <1>j, <2>1, <2>2
<1>8p. PICK s7 : Follows(s7, s6, c.position, n6, 6)
  BY <1>0, <1>z, <1>7, JoinedTo
<1>8. /\ s7 \in Bytes8 /\ Len(s7) = n7
      /\ \A i \in 1 .. n6 : s7[i] = s6[i]
      /\ \A j \in 1 .. 6 : s7[n6 + j] = c.position[j]
  <2>1. /\ s7 \in Bytes8 /\ Len(s7) = n6 + 6
        /\ \A i \in 1 .. n6 : s7[i] = s6[i]
        /\ \A j \in 1 .. 6 : s7[n6 + j] = c.position[j]
    BY <1>8p DEF Follows
  <2> QED BY <1>k, <2>1
<1>9p. PICK w : Follows(w, s7, c.metro, n7, lm)
  BY <1>0, <1>z, <1>8, <1>d, JoinedTo
<1>9. /\ w \in Bytes8 /\ Len(w) = n7 + lm
      /\ \A i \in 1 .. n7 : w[i] = s7[i]
      /\ \A j \in 1 .. lm : w[n7 + j] = c.metro[j]
  <2>1. /\ w \in Bytes8 /\ Len(w) = n7 + lm
        /\ \A i \in 1 .. n7 : w[i] = s7[i]
        /\ \A j \in 1 .. lm : w[n7 + j] = c.metro[j]
    BY <1>9p DEF Follows
  <2> QED BY <2>1
<1>10. CityBytes(c) = w
  BY <1>1, <1>2p, <1>3p, <1>4p, <1>5p, <1>6p, <1>7p, <1>8p, <1>9p, Zenon
  DEF CityBytes, Follows
<1>11. \A i \in 1 .. n6 : w[i] = s6[i]
  BY <1>8, <1>9, <1>k
<1>12. \A i \in 1 .. n5 : w[i] = s5[i]
  BY <1>7, <1>11, <1>j
<1>13. \A i \in 1 .. n4 : w[i] = s4[i]
  BY <1>6, <1>12, <1>i
<1>14. \A i \in 1 .. n3 : w[i] = s3[i]
  BY <1>5, <1>13, <1>h
<1>15. \A i \in 1 .. n2 : w[i] = s2[i]
  BY <1>4, <1>14, <1>g
<1>16. \A i \in 1 .. n1 : w[i] = s1[i]
  BY <1>3, <1>15, <1>f
<1>17. w[1] = c.country
  BY <1>1, <1>2, <1>16, <1>e
<1>18. \A j \in 1 .. lr : w[1 + j] = c.region[j]
  BY <1>2, <1>16, <1>e
<1>19. w[n2] = 0
  BY <1>3, <1>15, <1>f
<1>20. \A j \in 1 .. lc : w[n2 + j] = c.city[j]
  BY <1>4, <1>14, <1>g
<1>21. w[n4] = 0
  BY <1>5, <1>13, <1>h
<1>22. \A j \in 1 .. lp : w[n4 + j] = c.postal[j]
  BY <1>6, <1>12, <1>i
<1>23. w[n6] = 0
  BY <1>7, <1>11, <1>j
<1>24. \A j \in 1 .. 6 : w[n6 + j] = c.position[j]
  <2> TAKE j \in 1 .. 6
  <2>1. n6 + j \in 1 .. n7
    BY <1>k
  <2> QED BY <1>8, <1>9, <2>1
<1>25. \A j \in 1 .. lm : w[n7 + j] = c.metro[j]
  BY <1>9
<1> DEFINE r == 1 + lr
           e == r + 1 + lc
           z == e + 1 + lp
<1>26. r + 1 = n2 /\ e + 1 = n4 /\ z + 1 = n6 /\ z + 7 = n7
  BY <1>e, <1>f, <1>g, <1>h, <1>i, <1>j, <1>k
<1> HIDE DEF r, e, z
<1>27. Made(w, c) <=>
        /\ w[1] = c.country
        /\ \A j \in 1 .. lr : w[1 + j] = c.region[j]
        /\ w[r + 1] = 0
        /\ \A j \in 1 .. lc : w[r + 1 + j] = c.city[j]
        /\ w[e + 1] = 0
        /\ \A j \in 1 .. lp : w[e + 1 + j] = c.postal[j]
        /\ w[z + 1] = 0
        /\ \A j \in 1 .. 6 : w[z + 1 + j] = c.position[j]
        /\ \A j \in 1 .. lm : w[z + 7 + j] = c.metro[j]
        /\ Len(w) = z + 7 + lm
  BY <1>a, <1>b, <1>c, <1>d, Zenon DEF Made, r, e, z
<1>28. Made(w, c)
  BY <1>9, <1>17, <1>18, <1>19, <1>20, <1>21, <1>22, <1>23, <1>24, <1>25, <1>26, <1>27
<1> QED BY <1>10, <1>28

\* The bytes of a result in its file are those its author wrote.
LEMMA WrittenThere ==
    ASSUME NEW f \in File, NEW k \in DOMAIN f.content,
           NEW c, c = f.content[k], NEW p, p = Pointer(f, c.at)
    PROVE  LET w == IF f.edition \in CityEditions THEN CityBytes(c) ELSE NameBytes(c)
           IN  /\ c.at \in Nat /\ c.at > f.segments /\ p \in Nat
               /\ IF f.edition \in CityEditions THEN CityContent(f, c) ELSE NameContent(c)
               /\ c.length = Len(w) /\ p + c.length <= Len(f.bytes)
               /\ \A j \in 1 .. c.length : Byte(f, p, j - 1) = w[j]
<1> DEFINE w == IF f.edition \in CityEditions THEN CityBytes(c) ELSE NameBytes(c)
<1>1. /\ IF f.edition \in CityEditions THEN CityContent(f, c) ELSE NameContent(c)
      /\ c.length = Len(w) /\ p + c.length <= Len(f.bytes)
      /\ \A j \in 1 .. c.length : f.bytes[p + j] = w[j]
  BY FilesAsWritten
<1>2. c.at \in Nat /\ c.at > f.segments
  BY FileType
<1>3. p \in Nat
  BY <1>2, ReadType
<1>4. \A j \in 1 .. c.length : Byte(f, p, j - 1) = f.bytes[p + j]
  <2> TAKE j \in 1 .. c.length
  <2>1. p + (j - 1) + 1 = p + j
    BY <1>3
  <2> QED BY <2>1 DEF Byte
<1> QED BY <1>1, <1>2, <1>3, <1>4

\* A result has a length, and the next one follows it.
LEMMA NextStarts ==
    ASSUME NEW f \in File, NEW k \in DOMAIN f.content
    PROVE  /\ k = 1 => f.content[k].at = f.segments + 1
           /\ k + 1 \in DOMAIN f.content =>
                 f.content[k + 1].at = f.content[k].at + f.content[k].length
<1>1. Len(f.content) \in Nat /\ DOMAIN f.content = 1 .. Len(f.content)
  BY FileType
<1>2. \A m \in DOMAIN f.content :
         f.content[m].at = IF m = 1 THEN f.segments + 1
                           ELSE f.content[m - 1].at + f.content[m - 1].length
  BY FilesAsWritten
<1>3. k + 1 # 1 /\ (k + 1) - 1 = k
  BY <1>1
<1> QED BY <1>2, <1>3

\* The first NUL is at e, or behind the n bytes there are.
LEMMA NulAt ==
    ASSUME NEW f, NEW p, NEW s \in Nat, NEW n \in Nat, NEW e \in Nat, s <= e,
           Byte(f, p, e) = 0, \A j \in s .. e - 1 : Byte(f, p, j) # 0
    PROVE  Nul(f, p, s, n) = IF e < n THEN e ELSE n
<1>1. PICK m \in Nat :
         /\ m = Nul(f, p, s, n)
         /\ m = n \/ (m \in s .. n - 1 /\ Byte(f, p, m) = 0)
         /\ \A j \in s .. n - 1 : Byte(f, p, j) = 0 => m <= j /\ m # n
  BY NulIs
<1>2. CASE e < n
  <2>1. m <= e /\ m # n
    BY <1>1, <1>2
  <2>2. m \in s .. n - 1 /\ Byte(f, p, m) = 0
    BY <1>1, <2>1
  <2>3. m \notin s .. e - 1
    BY <2>2
  <2>4. m = e
    BY <2>1, <2>2, <2>3
  <2> QED BY <1>1, <1>2, <2>4
<1>3. CASE ~ (e < n)
  <2>1. \A j \in s .. n - 1 : j \in s .. e - 1
    BY <1>3
  <2>2. m = n
    BY <1>1, <2>1
  <2> QED BY <1>1, <1>3, <2>2
<1> QED BY <1>2, <1>3

LEMMA NulEnd ==
    ASSUME NEW f, NEW p, NEW s \in Nat, NEW n \in Nat, n <= s
    PROVE  Nul(f, p, s, n) = n
<1>1. ~ (Nul(f, p, s, n) \in s .. n - 1)
  BY NulIs
<1> QED BY <1>1, NulIs

\* Bytes behind place s that are those of t make t.
LEMMA BytesBehind ==
    ASSUME NEW f, NEW p, NEW s \in Nat, NEW t \in Bytes8,
           \A j \in 1 .. Len(t) : Byte(f, p, s + j) = t[j]
    PROVE  Bytes(f, p, s + 1, s + 1 + Len(t)) = t
<1>1. PICK n \in Nat : n = Len(t) /\ t = [j \in 1 .. n |-> t[j]]
  BY LenProperties DEF Bytes8
<1>2. (s + 1 + n) - (s + 1) = n
  OBVIOUS
<1>3. \A j \in 1 .. n : (s + 1) + j - 1 = s + j
  OBVIOUS
<1>4. Bytes(f, p, s + 1, s + 1 + n) = [j \in 1 .. n |-> Byte(f, p, (s + 1) + j - 1)]
  BY <1>2 DEF Bytes
<1>5. Bytes(f, p, s + 1, s + 1 + n) = [j \in 1 .. n |-> t[j]]
  BY <1>1, <1>3, <1>4
<1> QED BY <1>1, <1>5

\* What is to be made of a record.
AnswerOf(c) == [country  |-> c.country, region |-> c.region, city  |-> Text(c.city),
                postal   |-> c.postal,  metro  |-> c.metro, position |-> c.position]

\* Of the bytes of a record all are read, and make its answer; of fewer more
\* are read than there are.
LEMMA ParseWritten ==
    ASSUME NEW f \in File, f.edition \in CityEditions, NEW k \in DOMAIN f.content,
           NEW c, c = f.content[k], NEW p, p = Pointer(f, c.at), NEW n \in Nat, n > 0
    PROVE  /\ c.length \in Nat /\ c.length > 0
           /\ n >= c.length => /\ Parse(f, p, n).used = c.length
                               /\ Parse(f, p, n).record = AnswerOf(c)
           /\ n < c.length => Parse(f, p, n).used > n
<1> DEFINE lr == Len(c.region)
           lc == Len(c.city)
           lp == Len(c.postal)
           lm == Len(c.metro)
           r == 1 + lr
           e == r + 1 + lc
           z == e + 1 + lp
           w == CityBytes(c)
<1>1. /\ CityContent(f, c) /\ c.length = Len(w) /\ p \in Nat
      /\ \A j \in 1 .. c.length : Byte(f, p, j - 1) = w[j]
  BY WrittenThere
<1>2. Made(w, c)
  BY <1>1, CityBytesMade
<1>3. /\ lr \in Nat /\ lc \in Nat /\ lp \in Nat
      /\ \A j \in 1 .. lr : c.region[j] # 0
      /\ \A j \in 1 .. lc : c.city[j] # 0
      /\ \A j \in 1 .. lp : c.postal[j] # 0
      /\ lm = IF f.edition = "city1" /\ c.country = US THEN 3 ELSE 0
  <2>1. \A x \in {"region", "city", "postal"} :
           \A j \in 1 .. Len(c[x]) : c[x][j] \in 1 .. 255
    <3>1. CityContent(f, c)
      BY <1>1
    <3> HIDE DEF w, lr, lc, lp, lm
    <3> QED BY <3>1, ContentType, ZenonT(30)
  <2>2. /\ \A j \in 1 .. lr : c.region[j] \in 1 .. 255
        /\ \A j \in 1 .. lc : c.city[j] \in 1 .. 255
        /\ \A j \in 1 .. lp : c.postal[j] \in 1 .. 255
    BY <2>1
  <2>3. \A b \in 1 .. 255 : b # 0
    OBVIOUS
  <2>4. /\ lr \in Nat /\ lc \in Nat /\ lp \in Nat
        /\ lm = IF f.edition = "city1" /\ c.country = US THEN 3 ELSE 0
    BY <1>1, ContentType
  <2> QED BY <2>2, <2>3, <2>4
<1>4. /\ w[1] = c.country
      /\ \A j \in 1 .. lr : w[1 + j] = c.region[j]
      /\ w[r + 1] = 0
      /\ \A j \in 1 .. lc : w[r + 1 + j] = c.city[j]
      /\ w[e + 1] = 0
      /\ \A j \in 1 .. lp : w[e + 1 + j] = c.postal[j]
      /\ w[z + 1] = 0
      /\ \A j \in 1 .. 6 : w[z + 1 + j] = c.position[j]
      /\ \A j \in 1 .. lm : w[z + 7 + j] = c.metro[j]
      /\ Len(w) = z + 7 + lm
  BY <1>2 DEF Made
<1> HIDE DEF w, lr, lc, lp, lm
<1>5. lm \in Nat /\ r \in Nat /\ e \in Nat /\ z \in Nat /\ 1 <= r /\ r + 1 <= e /\ e + 1 <= z
  BY <1>3
<1>6. c.length = z + 7 + lm /\ c.length \in Nat /\ c.length > z
  BY <1>1, <1>4, <1>5
<1>7. \A i \in 0 .. z + 6 + lm : Byte(f, p, i) = w[i + 1]
  <2> TAKE i \in 0 .. z + 6 + lm
  <2>1. i + 1 \in 1 .. c.length /\ (i + 1) - 1 = i
    BY <1>5, <1>6
  <2> QED BY <1>1, <2>1
<1>8. Byte(f, p, 0) = c.country
  BY <1>4, <1>5, <1>7
<1>9. \A j \in 1 .. lr : Byte(f, p, j) = c.region[j]
  <2> TAKE j \in 1 .. lr
  <2>1. j \in 0 .. z + 6 + lm /\ j + 1 = 1 + j
    BY <1>3, <1>5
  <2> QED BY <1>4, <1>7, <2>1
<1>10. \A j \in 1 .. lc : Byte(f, p, r + j) = c.city[j]
  <2> TAKE j \in 1 .. lc
  <2>1. r + j \in 0 .. z + 6 + lm /\ (r + j) + 1 = r + 1 + j
    BY <1>3, <1>5
  <2> QED BY <1>4, <1>7, <2>1
<1>11. \A j \in 1 .. lp : Byte(f, p, e + j) = c.postal[j]
  <2> TAKE j \in 1 .. lp
  <2>1. e + j \in 0 .. z + 6 + lm /\ (e + j) + 1 = e + 1 + j
    BY <1>3, <1>5
  <2> QED BY <1>4, <1>7, <2>1
<1>12. \A j \in 1 .. 6 : Byte(f, p, z + j) = c.position[j]
  <2> TAKE j \in 1 .. 6
  <2>1. PICK i \in Int : i = z + j
    BY <1>5
  <2>2. i \in 0 .. z + 6 + lm /\ i + 1 = z + 1 + j
    BY <1>5, <2>1
  <2>3. w[z + 1 + j] = c.position[j]
    BY <1>4
  <2>4. Byte(f, p, i) = w[i + 1]
    BY <1>7, <2>2
  <2> QED BY <2>1, <2>2, <2>3, <2>4
<1>13. \A j \in 1 .. lm : Byte(f, p, z + 6 + j) = c.metro[j]
  <2> TAKE j \in 1 .. lm
  <2>1. z + 6 + j \in 0 .. z + 6 + lm /\ (z + 6 + j) + 1 = z + 7 + j
    BY <1>3, <1>5
  <2> QED BY <1>4, <1>7, <2>1
<1>14. Byte(f, p, r) = 0 /\ Byte(f, p, e) = 0 /\ Byte(f, p, z) = 0
  <2>1. r \in 0 .. z + 6 + lm /\ e \in 0 .. z + 6 + lm /\ z \in 0 .. z + 6 + lm
    BY <1>5
  <2> QED BY <1>4, <1>7, <2>1
<1>15. Nul(f, p, 1, n) = IF r < n THEN r ELSE n
  <2>1. \A j \in 1 .. r - 1 : Byte(f, p, j) # 0
    BY <1>3, <1>9
  <2> QED BY <1>5, <1>14, <2>1, NulAt
<1>16. Nul(f, p, r + 1, n) = IF e < n THEN e ELSE n
  <2>1. \A j \in r + 1 .. e - 1 : Byte(f, p, j) # 0
    <3> TAKE j \in r + 1 .. e - 1
    <3>1. j - r \in 1 .. lc /\ r + (j - r) = j
      BY <1>3, <1>5
    <3> QED BY <1>3, <1>10, <3>1
  <2> QED BY <1>5, <1>14, <2>1, NulAt
<1>17. Nul(f, p, e + 1, n) = IF z < n THEN z ELSE n
  <2>1. \A j \in e + 1 .. z - 1 : Byte(f, p, j) # 0
    <3> TAKE j \in e + 1 .. z - 1
    <3>1. j - e \in 1 .. lp /\ e + (j - e) = j
      BY <1>3, <1>5
    <3> QED BY <1>3, <1>11, <3>1
  <2> QED BY <1>5, <1>14, <2>1, NulAt
<1>18. Nul(f, p, n + 1, n) = n
  BY NulEnd
<1>a. r = 0 + 1 + lr /\ e = r + 1 + lc /\ z = e + 1 + lp
  BY <1>3
<1>b. lr = Len(c.region) /\ lc = Len(c.city) /\ lp = Len(c.postal) /\ lm = Len(c.metro)
  BY DEF lr, lc, lp, lm
<1> HIDE DEF r, e, z
<1> DEFINE r1 == Nul(f, p, 1, n)
           e1 == Nul(f, p, r1 + 1, n)
           z1 == Nul(f, p, e1 + 1, n)
           combo == f.edition = "city1" /\ Byte(f, p, 0) = US
           used == z1 + 7 + (IF combo THEN 3 ELSE 0)
           record == [country  |-> Byte(f, p, 0),
                      region   |-> Bytes(f, p, 1, r1),
                      city     |-> Text(Bytes(f, p, r1 + 1, e1)),
                      postal   |-> Bytes(f, p, e1 + 1, z1),
                      position |-> Bytes(f, p, z1 + 1, z1 + 7),
                      metro    |-> Bytes(f, p, z1 + 7, used)]
<1>19. Parse(f, p, n) = IF used > n THEN [used |-> used, record |-> Null]
                        ELSE [used |-> used, record |-> record]
  BY DEF Parse
<1>20. IF z < n THEN r1 = r /\ e1 = e /\ z1 = z ELSE z1 = n
  <2>1. CASE r < n /\ e < n
    <3>1. r1 = r
      BY <1>15, <2>1
    <3>2. e1 = e
      BY <1>16, <2>1, <3>1
    <3> HIDE DEF e1
    <3> QED BY <1>17, <3>1, <3>2
  <2>2. CASE ~ (r < n)
    <3>1. r1 = n /\ ~ (z < n)
      BY <1>5, <1>15, <2>2
    <3>2. e1 = n
      BY <1>18, <3>1
    <3> HIDE DEF e1
    <3> QED BY <1>18, <3>1, <3>2
  <2>3. CASE r < n /\ ~ (e < n)
    <3>1. r1 = r /\ ~ (z < n)
      BY <1>5, <1>15, <2>3
    <3>2. e1 = n
      BY <1>16, <2>3, <3>1
    <3> HIDE DEF e1
    <3> QED BY <1>18, <3>1, <3>2
  <2> QED BY <2>1, <2>2, <2>3
<1>21. (IF combo THEN 3 ELSE 0) = lm
  BY <1>3, <1>8
<1> HIDE DEF r1, e1, z1, combo
<1>22. used = z1 + 7 + lm
  BY <1>21
<1> HIDE DEF used
<1>23. used \in Nat /\ Parse(f, p, n).used = used
       /\ (used <= n => Parse(f, p, n).record = record)
  <2>1. z1 \in Nat
    BY <1>5, <1>20
  <2>2. used \in Nat
    BY <1>5, <1>22, <2>1
  <2> HIDE DEF record
  <2> QED BY <1>19, <2>2
<1>24. n < c.length => Parse(f, p, n).used > n
  BY <1>5, <1>6, <1>20, <1>22, <1>23
<1>25. ASSUME n >= c.length
       PROVE  Parse(f, p, n).used = c.length /\ Parse(f, p, n).record = AnswerOf(c)
  <2>1. z < n /\ used = c.length
    BY <1>5, <1>6, <1>20, <1>22, <1>25
  <2>2. record = AnswerOf(c)
    <3>1. r1 = r /\ e1 = e /\ z1 = z
      BY <1>20, <2>1
    <3>2. /\ c.region \in Bytes8 /\ c.city \in Bytes8 /\ c.postal \in Bytes8
          /\ c.position \in Bytes8 /\ Len(c.position) = 6 /\ c.metro \in Bytes8
      BY <1>1, ContentType
    <3>3. Bytes(f, p, 1, r) = c.region
      <4>1. PICK q \in Nat : q = 0 /\ q + 1 = 1 /\ r = q + 1 + lr
        BY <1>5, <1>a
      <4>2. \A j \in 1 .. Len(c.region) : Byte(f, p, q + j) = c.region[j]
        BY <1>9, <1>b, <3>2, <4>1
      <4>3. Bytes(f, p, q + 1, q + 1 + Len(c.region)) = c.region
        <5>1. c.region \in Bytes8
          BY <3>2
        <5> QED BY <4>2, <5>1, BytesBehind
      <4> QED BY <1>b, <3>2, <4>1, <4>3
    <3>4. Bytes(f, p, r + 1, e) = c.city
      <4>1. PICK q \in Nat : q = r /\ q + 1 = r + 1 /\ e = q + 1 + lc
        BY <1>5, <1>a
      <4>2. \A j \in 1 .. Len(c.city) : Byte(f, p, q + j) = c.city[j]
        BY <1>10, <1>b, <3>2, <4>1
      <4>3. Bytes(f, p, q + 1, q + 1 + Len(c.city)) = c.city
        <5>1. c.city \in Bytes8
          BY <3>2
        <5> QED BY <4>2, <5>1, BytesBehind
      <4> QED BY <1>b, <3>2, <4>1, <4>3
    <3>5. Bytes(f, p, e + 1, z) = c.postal
      <4>1. PICK q \in Nat : q = e /\ q + 1 = e + 1 /\ z = q + 1 + lp
        BY <1>5, <1>a
      <4>2. \A j \in 1 .. Len(c.postal) : Byte(f, p, q + j) = c.postal[j]
        BY <1>11, <1>b, <3>2, <4>1
      <4>3. Bytes(f, p, q + 1, q + 1 + Len(c.postal)) = c.postal
        <5>1. c.postal \in Bytes8
          BY <3>2
        <5> QED BY <4>2, <5>1, BytesBehind
      <4> QED BY <1>b, <3>2, <4>1, <4>3
    <3>6. Bytes(f, p, z + 1, z + 7) = c.position
      <4>1. PICK q \in Nat : q = z /\ q + 1 = z + 1 /\ z + 7 = q + 1 + 6
        BY <1>5, <1>a
      <4>2. \A j \in 1 .. Len(c.position) : Byte(f, p, q + j) = c.position[j]
        BY <1>12, <1>b, <3>2, <4>1
      <4>3. Bytes(f, p, q + 1, q + 1 + Len(c.position)) = c.position
        <5>1. c.position \in Bytes8
          BY <3>2
        <5> QED BY <4>2, <5>1, BytesBehind
      <4> QED BY <1>b, <3>2, <4>1, <4>3
    <3>7. Bytes(f, p, z + 7, used) = c.metro
      <4>1. PICK q \in Nat : q = z + 6 /\ q + 1 = z + 7 /\ used = q + 1 + lm
        BY <1>5, <1>22, <3>1
      <4>2. \A j \in 1 .. Len(c.metro) : Byte(f, p, q + j) = c.metro[j]
        BY <1>13, <1>b, <4>1
      <4>3. Bytes(f, p, q + 1, q + 1 + Len(c.metro)) = c.metro
        <5>1. c.metro \in Bytes8
          BY <3>2
        <5> QED BY <4>2, <5>1, BytesBehind
      <4> QED BY <1>b, <4>1, <4>3
    <3> QED BY <1>8, <3>1, <3>3, <3>4, <3>5, <3>6, <3>7, Zenon DEF record, AnswerOf
  <2>3. used <= n
    BY <1>25, <2>1
  <2> QED BY <1>23, <2>1, <2>2, <2>3
<1> QED BY <1>5, <1>6, <1>24, <1>25

LEMMA CutType ==
    ASSUME NEW t \in Bytes8, NEW n \in Nat, n <= Len(t)
    PROVE  SubSeq(t, 1, n) \in Bytes8
<1>1. PICK l \in Nat : l = Len(t) /\ \A j \in 1 .. l : t[j] \in 0 .. 255
  BY LenProperties, ElementOfSeq DEF Bytes8
<1>2. \A j \in 1 .. n : t[j] \in 0 .. 255
  <2> TAKE j \in 1 .. n
  <2>1. j \in 1 .. l
    BY <1>1
  <2> QED BY <1>1, <2>1
<1>3. \A j \in 1 .. n : t[j] \in 0 .. 255 /\ 1 + j - 1 = j
  BY <1>2
<1>4. 1 \in Int /\ n \in Int
  OBVIOUS
<1> QED BY <1>2, <1>4, SubSeqProperties DEF Bytes8

LEMMA FirstOf ==
    ASSUME NEW S, NEW t, NEW n \in Nat, \A j \in 1 .. n : t[j] \in S
    PROVE  SubSeq(t, 1, n) = [j \in 1 .. n |-> t[j]]
<1>1. \A j \in 1 .. n : 1 + j - 1 = j
  OBVIOUS
<1>2. /\ n - 1 + 1 = n /\ (IF 1 <= n THEN n - 1 + 1 ELSE 0) = n
      /\ 1 \in Int /\ n \in Int
  OBVIOUS
<1>3. /\ SubSeq(t, 1, n) \in Seq(S) /\ Len(SubSeq(t, 1, n)) = n
      /\ \A j \in 1 .. n : SubSeq(t, 1, n)[j] = t[j]
  BY <1>1, <1>2, SubSeqProperties
<1> QED BY <1>3, LenProperties

\* The text of a name is found where it ends, or cut off.
LEMMA NameWritten ==
    ASSUME NEW f \in File, f.edition \notin CityEditions, NEW k \in DOMAIN f.content,
           NEW c, c = f.content[k], NEW p, p = Pointer(f, c.at), NEW n \in Nat
    PROVE  /\ c.text \in Bytes8 /\ c.length = Len(c.text) + 1 /\ c.length \in Nat
           /\ c.length > 0
           /\ n >= c.length => /\ Nul(f, p, 0, n) < n
                               /\ Bytes(f, p, 0, Nul(f, p, 0, n)) = c.text
           /\ n < c.length => /\ Nul(f, p, 0, n) = n
                              /\ Bytes(f, p, 0, n) = SubSeq(c.text, 1, n)
<1> DEFINE w == NameBytes(c)
<1>1. /\ NameContent(c) /\ c.length = Len(w) /\ p \in Nat
      /\ \A j \in 1 .. c.length : Byte(f, p, j - 1) = w[j]
  BY WrittenThere
<1>2. c.text \in Seq(1 .. 255)
  BY <1>1 DEF NameContent
<1>3. c.text \in Bytes8
  <2>1. 1 .. 255 \subseteq 0 .. 255
    OBVIOUS
  <2> QED BY <1>2, <2>1, SeqMonotonic DEF Bytes8
<1>4. PICK l \in Nat : l = Len(c.text) /\ c.text = [j \in 1 .. l |-> c.text[j]]
  BY <1>2, LenProperties
<1>5. \A j \in 1 .. l : c.text[j] # 0 /\ c.text[j] \in 1 .. 255
  <2> TAKE j \in 1 .. l
  <2>1. c.text[j] \in 1 .. 255
    <3>1. j \in 1 .. Len(c.text)
      BY <1>4
    <3> QED BY <1>2, <3>1, ElementOfSeq
  <2>2. \A b \in 1 .. 255 : b # 0
    OBVIOUS
  <2> QED BY <2>1, <2>2, Zenon
<1>6. /\ Len(w) = l + 1 /\ w[l + 1] = 0 /\ \A j \in 1 .. l : w[j] = c.text[j]
  <2>1. <<0>> \in Bytes8 /\ Len(<<0>>) = 1 /\ <<0>>[1] = 0
    BY OneByte
  <2>2. PICK v : Follows(v, c.text, <<0>>, l, 1)
    BY <1>3, <1>4, <2>1, JoinedTo
  <2>3. w = v
    BY <2>2 DEF NameBytes, Follows
  <2>4. /\ Len(v) = l + 1 /\ \A j \in 1 .. l : v[j] = c.text[j]
        /\ \A j \in 1 .. 1 : v[l + j] = <<0>>[j]
    BY <2>2 DEF Follows
  <2>5. 1 \in 1 .. 1
    OBVIOUS
  <2>6. v[l + 1] = <<0>>[1]
    BY <2>4, <2>5
  <2> QED BY <2>1, <2>3, <2>4, <2>6
<1> HIDE DEF w
<1>7. c.length = l + 1 /\ c.length \in Nat /\ c.length > 0
  BY <1>1, <1>6
<1>8. Byte(f, p, l) = 0 /\ \A j \in 0 .. l - 1 : Byte(f, p, j) = c.text[j + 1]
  <2>1. l + 1 \in 1 .. c.length /\ (l + 1) - 1 = l
    BY <1>7
  <2>2. Byte(f, p, l) = 0
    BY <1>1, <1>6, <2>1
  <2>3. ASSUME NEW j \in 0 .. l - 1 PROVE Byte(f, p, j) = c.text[j + 1]
    <3>1. j + 1 \in 1 .. c.length /\ j + 1 \in 1 .. l /\ (j + 1) - 1 = j
      BY <1>7
    <3> QED BY <1>1, <1>6, <3>1
  <2> QED BY <2>2, <2>3
<1>9. Nul(f, p, 0, n) = IF l < n THEN l ELSE n
  <2>1. \A j \in 0 .. l - 1 : Byte(f, p, j) # 0
    <3> TAKE j \in 0 .. l - 1
    <3>1. j + 1 \in 1 .. l
      OBVIOUS
    <3>2. Byte(f, p, j) = c.text[j + 1]
      BY <1>8
    <3>3. c.text[j + 1] # 0
      BY <1>5, <3>1
    <3> QED BY <3>2, <3>3
  <2>2. 0 \in Nat /\ 0 <= l
    OBVIOUS
  <2> QED BY <1>8, <2>1, <2>2, NulAt
<1>10. \A m \in 0 .. l : Bytes(f, p, 0, m) = [j \in 1 .. m |-> c.text[j]]
  <2> TAKE m \in 0 .. l
  <2>1. m - 0 = m
    OBVIOUS
  <2>2. Bytes(f, p, 0, m) = [j \in 1 .. m |-> Byte(f, p, 0 + j - 1)]
    BY <2>1 DEF Bytes
  <2>3. \A j \in 1 .. m : Byte(f, p, 0 + j - 1) = c.text[j]
    <3> TAKE j \in 1 .. m
    <3>1. PICK i \in Int : i = 0 + j - 1
      OBVIOUS
    <3>2. i \in 0 .. l - 1 /\ i + 1 = j
      BY <3>1
    <3> QED BY <1>8, <3>1, <3>2
  <2> QED BY <2>2, <2>3
<1>11. ASSUME n < c.length PROVE Bytes(f, p, 0, n) = SubSeq(c.text, 1, n)
  <2>1. n \in 0 .. l
    BY <1>7, <1>11
  <2>2. SubSeq(c.text, 1, n) = [j \in 1 .. n |-> c.text[j]]
    <3>1. \A j \in 1 .. n : c.text[j] \in 1 .. 255
      <4> TAKE j \in 1 .. n
      <4>1. j \in 1 .. l
        BY <2>1
      <4> QED BY <1>5, <4>1
    <3> QED BY <3>1, FirstOf
  <2> QED BY <1>10, <2>1, <2>2
<1>12. l \in 0 .. l
  OBVIOUS
<1>13. Bytes(f, p, 0, l) = c.text
  BY <1>4, <1>10, <1>12
<1>14. n >= c.length => l < n
  BY <1>7
<1>15. n < c.length => ~ (l < n)
  BY <1>7
<1> QED BY <1>3, <1>4, <1>7, <1>9, <1>11, <1>13, <1>14, <1>15

\* Of what an author wrote a lookup sees all, unless its buffer is too short.
LEMMA ThereWritten ==
    ASSUME NEW f \in File, NEW k \in DOMAIN f.content,
           NEW c, c = f.content[k], NEW p, p = Pointer(f, c.at), NEW length \in Nat,
           c.length \in Nat, c.length > 0
    PROVE  /\ There(f, p, length) \in Nat
           /\ cached \/ c.length <= length => There(f, p, length) >= c.length
           /\ ~cached /\ c.length > length => There(f, p, length) = length
<1>1. p \in Nat /\ p + c.length <= Len(f.bytes) /\ Len(f.bytes) \in Nat
  BY WrittenThere, FileType
<1>2. PICK rest \in Nat : rest = Len(f.bytes) - p /\ rest >= c.length
  BY <1>1
<1>3. p < Len(f.bytes)
  BY <1>1
<1>4. There(f, p, length) = IF cached \/ rest < length THEN rest ELSE length
  BY <1>2, <1>3 DEF There
<1> QED BY <1>2, <1>4

-----------------------------------------------------------------------------
(* The reader of UTF-8 *)

\* at is what a reader makes of s from each place on, from lo.
IsDecoded(at, s, lo) ==
    at = [n \in lo .. Len(s) + 2 |->
            IF n > Len(s) THEN <<>>
            ELSE IF s[n] < 128 THEN <<s[n]>> \o at[n + 1]
            ELSE <<(s[n] - 192) * 64 + s[n + 1] - 128>> \o at[n + 2]]

\* One place more.
LEMMA DecodedLonger ==
    ASSUME NEW s, Len(s) \in Nat, NEW lo \in 1 .. Len(s), NEW at,
           IsDecoded(at, s, lo + 1)
    PROVE  \E g : IsDecoded(g, s, lo)
<1>0. PICK l \in Nat : l = Len(s) /\ lo \in 1 .. l /\ lo \in Nat
  OBVIOUS
<1> DEFINE new == IF s[lo] < 128 THEN <<s[lo]>> \o at[lo + 1]
                  ELSE <<(s[lo] - 192) * 64 + s[lo + 1] - 128>> \o at[lo + 2]
           g == [n \in lo .. l + 2 |-> IF n = lo THEN new ELSE at[n]]
<1>1. \A n \in lo + 1 .. l + 2 :
         at[n] = IF n > l THEN <<>>
                 ELSE IF s[n] < 128 THEN <<s[n]>> \o at[n + 1]
                 ELSE <<(s[n] - 192) * 64 + s[n + 1] - 128>> \o at[n + 2]
  BY <1>0 DEF IsDecoded
<1>2. g[lo] = new /\ \A n \in lo + 1 .. l + 2 : g[n] = at[n]
  <2> HIDE DEF new
  <2> QED BY <1>0
<1>3. g = [n \in lo .. l + 2 |-> g[n]]
  OBVIOUS
<1> HIDE DEF g
<1>4. ASSUME NEW n \in lo .. l + 2
      PROVE  g[n] = IF n > l THEN <<>>
                    ELSE IF s[n] < 128 THEN <<s[n]>> \o g[n + 1]
                    ELSE <<(s[n] - 192) * 64 + s[n + 1] - 128>> \o g[n + 2]
  <2>1. CASE n = lo
    <3>1. lo + 1 \in lo + 1 .. l + 2 /\ lo + 2 \in lo + 1 .. l + 2 /\ ~ (lo > l)
      BY <1>0
    <3>2. g[lo + 1] = at[lo + 1] /\ g[lo + 2] = at[lo + 2]
      BY <1>2, <3>1
    <3> QED BY <1>2, <2>1, <3>1, <3>2
  <2>2. CASE n # lo /\ n > l
    <3>1. n \in lo + 1 .. l + 2
      BY <1>0, <2>2
    <3> QED BY <1>1, <1>2, <2>2, <3>1
  <2>3. CASE n # lo /\ ~ (n > l)
    <3>1. n \in lo + 1 .. l + 2 /\ n + 1 \in lo + 1 .. l + 2 /\ n + 2 \in lo + 1 .. l + 2
      BY <1>0, <2>3
    <3>2. g[n] = at[n] /\ g[n + 1] = at[n + 1] /\ g[n + 2] = at[n + 2]
      BY <1>2, <3>1
    <3> QED BY <1>1, <2>3, <3>1, <3>2
  <2> QED BY <2>1, <2>2, <2>3
<1>5. IsDecoded(g, s, lo)
  BY <1>0, <1>3, <1>4 DEF IsDecoded
<1> QED BY <1>5

LEMMA DecodedIs ==
    ASSUME NEW s, Len(s) \in Nat
    PROVE  \E at : IsDecoded(at, s, 1) /\ Decoded(s) = at[1]
<1>0. PICK l \in Nat : l = Len(s)
  OBVIOUS
<1> DEFINE G == {m \in Nat : m <= l => \E at : IsDecoded(at, s, l + 1 - m)}
<1>1. 0 \in G
  <2>1. IsDecoded([n \in l + 1 .. l + 2 |-> <<>>], s, l + 1)
    BY <1>0 DEF IsDecoded
  <2>2. l + 1 - 0 = l + 1
    OBVIOUS
  <2> QED BY <2>1, <2>2
<1>2. ASSUME NEW m \in Nat, m \in G PROVE m + 1 \in G
  <2>1. SUFFICES ASSUME m + 1 <= l PROVE \E at : IsDecoded(at, s, l + 1 - (m + 1))
    OBVIOUS
  <2>2. PICK lo \in 1 .. l : lo = l + 1 - (m + 1) /\ lo + 1 = l + 1 - m
    BY <2>1
  <2>3. PICK at : IsDecoded(at, s, lo + 1)
    BY <1>2, <2>1, <2>2
  <2>4. PICK g : IsDecoded(g, s, lo)
    BY <1>0, <2>3, DecodedLonger
  <2> QED BY <2>2, <2>4
<1> HIDE DEF G
<1>3. Nat \subseteq G
  BY <1>1, <1>2, SetInduction
<1>4. \E at : IsDecoded(at, s, 1)
  <2>1. l + 1 - l = 1 /\ l <= l
    OBVIOUS
  <2> QED BY <1>3, <2>1 DEF G
<1> DEFINE at == CHOOSE f : IsDecoded(f, s, 1)
<1>5. IsDecoded(at, s, 1)
  BY <1>4
<1>6. Decoded(s) = at[1]
  BY DEF Decoded, IsDecoded
<1> QED BY <1>5, <1>6

\* What the author wrote is read again from what _GeoIP_iso_8859_1__utf8 made
\* of it.
LEMMA DecodedUtf8 ==
    ASSUME NEW s \in Bytes8
    PROVE  Decoded(Utf8(s)) = s
<1>0. PICK l \in Nat : l = Len(s) /\ \A n \in 1 .. l : s[n] \in 0 .. 255
  BY LenProperties, ElementOfSeq DEF Bytes8
<1> DEFINE u == Utf8(s)
<1>1. PICK out : IsUtf8(out, s, l) /\ u = out[l]
  BY <1>0, Utf8Is
<1>2. u \in Bytes8
  BY Utf8Type
<1> HIDE DEF u
<1>3. PICK h \in Nat : h = Len(u)
  BY <1>2, LenProperties DEF Bytes8
<1>4. PICK at : IsDecoded(at, u, 1) /\ Decoded(u) = at[1]
  BY <1>3, DecodedIs
<1>5. \A n \in 0 .. l : out[n] \in Bytes8 /\ Len(out[n]) \in Nat
  BY <1>0, <1>1, Utf8Types
<1>6. out[0] = <<>> /\ \A n \in 1 .. l : out[n] = out[n - 1] \o Utf8Char(s[n])
  <2>1. \A n \in 0 .. l : out[n] = IF n = 0 THEN <<>> ELSE out[n - 1] \o Utf8Char(s[n])
    BY <1>0, <1>1 DEF IsUtf8
  <2>2. 0 \in 0 .. l /\ \A n \in 1 .. l : n \in 0 .. l /\ n # 0
    OBVIOUS
  <2> QED BY <2>1, <2>2
<1>7. \A n \in 1 .. h + 2 :
         at[n] = IF n > h THEN <<>>
                 ELSE IF u[n] < 128 THEN <<u[n]>> \o at[n + 1]
                 ELSE <<(u[n] - 192) * 64 + u[n + 1] - 128>> \o at[n + 2]
  <2>1. \A n \in 1 .. Len(u) + 2 :
           at[n] = IF n > Len(u) THEN <<>>
                   ELSE IF u[n] < 128 THEN <<u[n]>> \o at[n + 1]
                   ELSE <<(u[n] - 192) * 64 + u[n + 1] - 128>> \o at[n + 2]
    BY <1>4 DEF IsDecoded
  <2> QED BY <1>3, <2>1, Zenon
<1> DEFINE Read(n) == /\ Len(out[n]) <= h
                      /\ \A j \in 1 .. Len(out[n]) : u[j] = out[n][j]
                      /\ at[Len(out[n]) + 1] = SubSeq(s, n + 1, l)
           G == {m \in Nat : m <= l => Read(l - m)}
<1>8. Read(l)
  <2>1. SubSeq(s, l + 1, l) = <<>>
    BY SubSeqEmpty
  <2>2. h + 1 \in 1 .. h + 2 /\ h + 1 > h /\ h <= h
    OBVIOUS
  <2>3. at[h + 1] = <<>>
    BY <1>7, <2>2
  <2>4. Len(out[l]) = h /\ \A j \in 1 .. h : u[j] = out[l][j]
    BY <1>1, <1>3
  <2> QED BY <2>1, <2>2, <2>3, <2>4
<1>9. ASSUME NEW n \in 1 .. l, Read(n) PROVE Read(n - 1)
  <2>1. PICK a \in Bytes8 : a = out[n - 1]
    BY <1>5
  <2>2. PICK q \in Nat : q = Len(a)
    BY <2>1, LenProperties DEF Bytes8
  <2>3. PICK c \in 0 .. 255 : c = s[n]
    BY <1>0
  <2>4. PICK d \in Nat : d = Len(Utf8Char(c)) /\ d = IF c < 128 THEN 1 ELSE 2
    BY Utf8CharType
  <2>5. Utf8Char(c) \in Bytes8
    BY Utf8CharType
  <2>6. /\ Len(out[n]) = q + d
        /\ \A j \in 1 .. q : out[n][j] = a[j]
        /\ \A j \in 1 .. d : out[n][q + j] = Utf8Char(c)[j]
    <3>1. PICK b \in Bytes8 : b = Utf8Char(c) /\ Len(b) = d
      BY <2>4, <2>5
    <3>2. out[n] = a \o b
      BY <1>6, <2>1, <2>3, <3>1
    <3>3. /\ Len(a \o b) = Len(a) + Len(b)
          /\ \A i \in 1 .. Len(a) : (a \o b)[i] = a[i]
          /\ \A i \in 1 .. Len(b) : (a \o b)[Len(a) + i] = b[i]
      BY Joined
    <3> QED BY <2>2, <3>1, <3>2, <3>3
  <2>7. q + d <= h /\ \A j \in 1 .. q + d : u[j] = out[n][j]
    BY <1>9, <2>6
  <2>8. q <= h /\ \A j \in 1 .. q : u[j] = a[j]
    BY <2>4, <2>6, <2>7
  <2>9. at[q + d + 1] = SubSeq(s, n + 1, l)
    BY <1>9, <2>6
  <2>10. SubSeq(s, n, l) = <<c>> \o SubSeq(s, n + 1, l)
    BY <1>0, <2>3, SubSeqRecursiveFirst DEF Bytes8
  <2>11. q + 1 \in 1 .. h + 2 /\ ~ (q + 1 > h)
    BY <2>4, <2>7
  <2>12. u[q + 1] = Utf8Char(c)[1]
    <3>1. 1 \in 1 .. d /\ q + 1 \in 1 .. q + d
      BY <2>4
    <3> QED BY <2>6, <2>7, <3>1
  <2>13. at[q + 1] = <<c>> \o at[q + d + 1]
    <3>1. CASE c < 128
      <4>1. Utf8Char(c)[1] = c
        BY <3>1 DEF Utf8Char
      <4>2. at[q + 1] = <<u[q + 1]>> \o at[q + 1 + 1]
        <5>1. u[q + 1] = c /\ u[q + 1] < 128
          BY <2>12, <3>1, <4>1
        <5> QED BY <1>7, <2>11, <5>1
      <4>3. q + 1 + 1 = q + d + 1
        BY <2>4, <3>1
      <4> QED BY <2>12, <4>1, <4>2, <4>3
    <3>2. CASE c >= 128
      <4>1. u[q + 2] = Utf8Char(c)[2]
        <5>1. 2 \in 1 .. d /\ q + 2 \in 1 .. q + d
          BY <2>4, <3>2
        <5> QED BY <2>6, <2>7, <5>1
      <4>2. PICK x \in 194 .. 195, y \in 128 .. 191 :
               Utf8Char(c)[1] = x /\ Utf8Char(c)[2] = y /\ (x - 192) * 64 + y - 128 = c
        <5>1. CASE c >= 192
          <6>1. Utf8Char(c) = <<195, c - 64>>
            BY <3>2, <5>1 DEF Utf8Char
          <6>2. 195 \in 194 .. 195 /\ c - 64 \in 128 .. 191 /\ (195 - 192) * 64 + (c - 64) - 128 = c
            BY <5>1
          <6> QED BY <6>1, <6>2
        <5>2. CASE c < 192
          <6>1. Utf8Char(c) = <<194, c>>
            BY <3>2, <5>2 DEF Utf8Char
          <6>2. 194 \in 194 .. 195 /\ c \in 128 .. 191 /\ (194 - 192) * 64 + c - 128 = c
            BY <3>2, <5>2
          <6> QED BY <6>1, <6>2
        <5> QED BY <5>1, <5>2
      <4>3. u[q + 1] = x /\ u[q + 2] = y /\ ~ (x < 128)
        BY <2>12, <4>1, <4>2
      <4>4. q + 1 + 1 = q + 2 /\ q + 1 + 2 = q + d + 1
        BY <2>4, <3>2
      <4>5. at[q + 1] = <<(u[q + 1] - 192) * 64 + u[q + 1 + 1] - 128>> \o at[q + 1 + 2]
        BY <1>7, <2>11, <4>3
      <4>6. (u[q + 1] - 192) * 64 + u[q + 1 + 1] - 128 = c
        BY <4>2, <4>3, <4>4
      <4> QED BY <4>4, <4>5, <4>6
    <3> QED BY <3>1, <3>2
  <2>14. at[q + 1] = SubSeq(s, n, l)
    BY <2>9, <2>10, <2>13
  <2>15. (n - 1) + 1 = n
    OBVIOUS
  <2> QED BY <2>1, <2>2, <2>8, <2>14, <2>15
<1> HIDE DEF Read
<1>10. 0 \in G
  <2>1. l - 0 = l
    OBVIOUS
  <2> QED BY <1>8, <2>1
<1>11. ASSUME NEW m \in Nat, m \in G PROVE m + 1 \in G
  <2>1. SUFFICES ASSUME m + 1 <= l PROVE Read(l - (m + 1))
    OBVIOUS
  <2>2. PICK n \in 1 .. l : n = l - m /\ n - 1 = l - (m + 1)
    BY <2>1
  <2>3. Read(n)
    BY <1>11, <2>1, <2>2
  <2>4. Read(n - 1)
    BY <1>9, <2>3
  <2> QED BY <2>2, <2>4
<1> HIDE DEF G
<1>12. Nat \subseteq G
  BY <1>10, <1>11, SetInduction
<1>13. Read(0)
  <2>1. l - l = 0 /\ l <= l
    OBVIOUS
  <2> QED BY <1>12, <2>1 DEF G
<1>14. Len(out[0]) = 0
  BY <1>6
<1>15. at[1] = SubSeq(s, 1, l)
  <2>1. 0 + 1 = 1
    OBVIOUS
  <2> QED BY <1>13, <1>14, <2>1 DEF Read
<1>16. SubSeq(s, 1, l) = s
  BY <1>0, SubSeqFull DEF Bytes8
<1> QED BY <1>4, <1>15, <1>16 DEF u

-----------------------------------------------------------------------------
(* Lookups of what was written *)

\* A lookup of a record returns it and an iterator goes on behind it, unless
\* the buffer is too short: then bytes behind the buffer are read.
LEMMA ExtractWritten ==
    ASSUME fault = "none", NEW f \in File, f.edition \in CityEditions,
           NEW k \in DOMAIN f.content, NEW c, c = f.content[k],
           NEW stepping \in BOOLEAN, Extract(f, c.at, stepping)
    PROVE  \/ /\ fault' = "none" /\ Return(AnswerOf(c), 0)
              /\ iter' = IF stepping THEN c.at + c.length ELSE iter
           \/ fault' # "none" /\ ~cached /\ c.length > Full
<1>1. PICK p : p = Pointer(f, c.at)
  OBVIOUS
<1>2. PICK n : n = There(f, p, Full)
  OBVIOUS
<1>3. PICK parsed : parsed = Parse(f, p, n)
  OBVIOUS
<1>4. Full \in Nat /\ Full > 0
  BY RecordsConstants
<1>5. c.at \in Nat /\ c.at > f.segments /\ f.segments \in Nat
  BY FileType
<1>6. c.length \in Nat /\ c.length > 0
  <2>1. 1 \in Nat /\ 1 > 0
    OBVIOUS
  <2> QED BY <1>1, <2>1, ParseWritten
<1>7. /\ n \in Nat
      /\ cached \/ c.length <= Full => n >= c.length
      /\ ~cached /\ c.length > Full => n = Full
  BY <1>1, <1>2, <1>4, <1>6, ThereWritten
<1>8. n > 0
  BY <1>4, <1>6, <1>7
<1>9. /\ n >= c.length => parsed.used = c.length /\ parsed.record = AnswerOf(c)
      /\ n < c.length => parsed.used > n
  BY <1>1, <1>3, <1>7, <1>8, ParseWritten
<1>10. \/ /\ parsed.used <= n /\ Return(parsed.record, 0)
          /\ iter' = IF stepping THEN c.at + parsed.used ELSE iter
          /\ UNCHANGED fault
       \/ /\ parsed.used > n /\ fault' = Beyond(n, Full)
  <2>1. c.at # f.segments /\ n # 0
    BY <1>5, <1>7, <1>8
  <2> QED BY <1>1, <1>2, <1>3, <2>1 DEF Extract, ExtractWith
<1>11. CASE n >= c.length
  <2>1. ~ (parsed.used > n)
    BY <1>6, <1>7, <1>9, <1>11
  <2> QED BY <1>9, <1>10, <1>11, <2>1
<1>12. CASE n < c.length
  <2>1. ~cached /\ c.length > Full
    BY <1>4, <1>6, <1>7, <1>12
  <2>2. ~ (parsed.used <= n)
    <3>1. n = Full
      BY <1>7, <2>1
    <3>2. parsed.used \in Nat
      <4>1. p \in Nat /\ p + c.length <= Len(f.bytes) /\ Len(f.bytes) \in Nat
        BY <1>1, WrittenThere, FileType
      <4>2. p + n <= Len(f.bytes)
        BY <1>6, <1>7, <1>12, <4>1
      <4> QED BY <1>3, <1>7, <4>1, <4>2, ParseType
    <3> QED BY <1>7, <1>9, <1>12, <3>2
  <2>3. Beyond(n, Full) # "none"
    BY DEF Beyond
  <2> QED BY <1>10, <2>1, <2>2, <2>3
<1> QED BY <1>6, <1>7, <1>11, <1>12

\* A walk without a result, or one out of the file, makes no record.
LEMMA ExtractNone ==
    ASSUME NEW f \in File, NEW k \in {None, Stray}, NEW stepping \in BOOLEAN,
           Extract(f, Seek(f, k), stepping)
    PROVE  Return(Null, 0) /\ UNCHANGED fault
<1>1. CASE k = None
  <2>1. Seek(f, k) = f.segments
    BY <1>1 DEF Seek
  <2> QED BY <2>1 DEF Extract, ExtractWith
<1>2. CASE k = Stray
  <2>1. Seek(f, k) = Len(f.bytes)
    BY <1>2 DEF Seek, None, Lost, Stray
  <2>2. Len(f.bytes) \in Nat /\ Full \in Nat /\ Full > 0
    BY FileType, RecordsConstants
  <2>3. PICK p \in Nat : p = Pointer(f, Len(f.bytes)) /\ p >= Len(f.bytes)
    BY <2>2, ReadType
  <2>4. There(f, p, Full) = 0
    BY <2>2, <2>3 DEF There
  <2> QED BY <2>1, <2>3, <2>4 DEF Extract, ExtractWith
<1> QED BY <1>1, <1>2

\* A lookup of a name returns its text, or as much as the buffer of the IPv6
\* variant holds; the other variant reads behind its buffer.
LEMMA NameFound ==
    ASSUME fault = "none", NEW f \in File, f.edition \in NameEditions,
           NEW k \in DOMAIN f.content, NEW c, c = f.content[k], NameAt(f, c.at)
    PROVE  \/ /\ fault' = "none"
              /\ Return([text |-> Text(IF ~cached /\ c.length > NameMax
                                       THEN SubSeq(c.text, 1, NameMax) ELSE c.text)], 0)
           \/ fault' # "none" /\ ~cached /\ f.edition = "name" /\ c.length > NameMax
<1>1. PICK p : p = Pointer(f, c.at)
  OBVIOUS
<1>2. PICK n : n = There(f, p, NameMax)
  OBVIOUS
<1>3. PICK e : e = Nul(f, p, 0, n)
  OBVIOUS
<1>4. NameMax \in Nat
  BY RecordsConstants
<1>5. c.at \in Nat /\ c.at > f.segments /\ f.segments \in Nat
  BY FileType
<1>6. f.edition \notin CityEditions
  BY DEF CityEditions, NameEditions
<1>7. c.length \in Nat /\ c.length > 0
  BY <1>1, <1>6, NameWritten
<1>8. /\ n \in Nat
      /\ cached \/ c.length <= NameMax => n >= c.length
      /\ ~cached /\ c.length > NameMax => n = NameMax
  BY <1>1, <1>2, <1>4, <1>7, ThereWritten
<1>9. /\ n >= c.length => e < n /\ Bytes(f, p, 0, e) = c.text
      /\ n < c.length => e = n /\ Bytes(f, p, 0, n) = SubSeq(c.text, 1, n)
  <2>1. /\ n >= c.length => /\ Nul(f, p, 0, n) < n
                            /\ Bytes(f, p, 0, Nul(f, p, 0, n)) = c.text
        /\ n < c.length => /\ Nul(f, p, 0, n) = n
                           /\ Bytes(f, p, 0, n) = SubSeq(c.text, 1, n)
    BY <1>1, <1>6, <1>8, NameWritten
  <2> QED BY <1>3, <2>1
<1>10. \/ /\ e < n \/ (~cached /\ n = NameMax /\ f.edition = "name_v6")
          /\ Return([text |-> Text(Bytes(f, p, 0, e))], 0)
          /\ UNCHANGED fault
       \/ /\ e = n /\ ~ (~cached /\ n = NameMax /\ f.edition = "name_v6")
          /\ fault' = Beyond(n, NameMax)
  <2>1. c.at # f.segments
    BY <1>5
  <2> QED BY <1>1, <1>2, <1>3, <2>1 DEF NameAt, NameWith
<1>11. CASE n >= c.length
  <2>1. ~ (e = n) /\ ~ (~cached /\ c.length > NameMax)
    BY <1>4, <1>7, <1>8, <1>9, <1>11
  <2> QED BY <1>9, <1>10, <1>11, <2>1
<1>12. CASE n < c.length
  <2>1. ~cached /\ c.length > NameMax /\ n = NameMax /\ e = n
    BY <1>4, <1>7, <1>8, <1>9, <1>12
  <2>2. Beyond(n, NameMax) # "none"
    BY DEF Beyond
  <2> QED BY <1>8, <1>9, <1>10, <1>12, <2>1, <2>2 DEF NameEditions
<1> QED BY <1>7, <1>8, <1>11, <1>12

\* A record as it is returned says what its author wrote.
LEMMA RecordSays ==
    ASSUME NEW f \in File, f.edition \in CityEditions, NEW k \in DOMAIN f.content,
           NEW c, c = f.content[k]
    PROVE  AnswerOf(c) \in CityAnswers /\ Says(AnswerOf(c), c, utf8)
<1>1. PICK p : p = Pointer(f, c.at)
  OBVIOUS
<1>2. CityContent(f, c)
  BY <1>1, WrittenThere
<1>3. /\ c.country \in 0 .. 255 /\ c.region \in Bytes8 /\ c.city \in Bytes8
      /\ c.postal \in Bytes8 /\ c.metro \in Bytes8 /\ c.position \in Bytes8
  BY <1>2, ContentType, ZenonT(30)
<1>4. Text(c.city) \in Bytes8
  BY <1>3, Utf8Type DEF Text
<1>5. AnswerOf(c) \in CityAnswers
  BY <1>3, <1>4 DEF AnswerOf, CityAnswers
<1>6. AnswerOf(c) # Null
  BY <1>5, RecordsConstants DEF Results
<1>7. (IF utf8 THEN Decoded(Text(c.city)) ELSE Text(c.city)) = c.city
  BY <1>3, DecodedUtf8 DEF Text
<1> DEFINE a == AnswerOf(c)
<1>8. /\ DOMAIN a = {"country", "region", "city", "postal", "metro", "position"}
      /\ a["country"] = c["country"] /\ a["region"] = c["region"]
      /\ a["postal"] = c["postal"] /\ a["metro"] = c["metro"]
      /\ a["position"] = c["position"] /\ a["city"] = Text(c["city"])
  BY DEF AnswerOf
<1> HIDE DEF a
<1>9. ASSUME NEW x \in DOMAIN a
      PROVE  (IF utf8 /\ x \in {"city", "text"} THEN Decoded(a[x]) ELSE a[x]) = c[x]
  <2>1. CASE x = "city"
    BY <1>7, <1>8, <2>1
  <2>2. CASE x # "city"
    <3>1. x \notin {"city", "text"} /\ a[x] = c[x]
      BY <1>8, <2>2
    <3> QED BY <3>1
  <2> QED BY <2>1, <2>2
<1> QED BY <1>5, <1>6, <1>9 DEF Says, a

\* A name as it is returned says its text.
LEMMA NameSays ==
    ASSUME NEW t \in Bytes8, NEW c, c.text = t
    PROVE  /\ [text |-> Text(t)] \in NameAnswers
           /\ Says([text |-> Text(t)], c, utf8)
<1>1. Text(t) \in Bytes8
  BY Utf8Type DEF Text
<1>2. [text |-> Text(t)] \in NameAnswers
  BY <1>1 DEF NameAnswers
<1>3. [text |-> Text(t)] # Null
  BY <1>2, RecordsConstants DEF Results
<1>4. (IF utf8 THEN Decoded(Text(t)) ELSE Text(t)) = t
  BY DecodedUtf8 DEF Text
<1> DEFINE a == [text |-> Text(t)]
<1>5. DOMAIN a = {"text"} /\ a["text"] = Text(t)
  OBVIOUS
<1> HIDE DEF a
<1>6. ASSUME NEW x \in DOMAIN a
      PROVE  (IF utf8 /\ x \in {"city", "text"} THEN Decoded(a[x]) ELSE a[x]) = c[x]
  <2>1. x = "text"
    BY <1>5
  <2> QED BY <1>4, <1>5, <2>1
<1> QED BY <1>2, <1>3, <1>6 DEF Says, a

-----------------------------------------------------------------------------
(* Every answer as it was written *)

\* While nothing reloads the handle the program's iterator is at the record it
\* has not visited yet.
InPlace ==
    (fault = "none" /\ steady /\ iter # 0 /\ visited + 1 \in DOMAIN file.content) =>
        iter = file.content[visited + 1].at

Answered == AnswerAsWritten /\ IterationInOrder /\ FaultsExplained /\ InPlace

\* Initially nothing was asked.
LEMMA InitAnswered == Init => Answered
BY DEF Init, Answered, AnswerAsWritten, IterationInOrder, FaultsExplained, InPlace

\* A lookup of a city record.
LEMMA RecordByAnswered ==
    ASSUME Types, Answered,
           NEW f \in File, NEW k \in {None, Lost, Stray} \cup DOMAIN f.content,
           RecordBy(f, k)
    PROVE  Answered'
<1>1. /\ fault = "none" /\ asked' = [op |-> "record", k |-> k, utf8 |-> utf8]
      /\ file' = f /\ steady' = (steady /\ f = file) /\ UNCHANGED <<cached, utf8, visited>>
      /\ Extract(f, Seek(f, k), FALSE) /\ f.edition \in CityEditions
  BY DEF RecordBy, Call, Walk, Kind, CityEditions, NameEditions
<1>2. asked'.op = "record" /\ asked'.k = k /\ asked'.utf8 = utf8
  BY <1>1
<1>3. iter' = iter
  <2>1. Seek(f, k) \in Nat
    BY SeekType
  <2> QED BY <1>1, <2>1, ExtractKeeps
<1>4. IterationInOrder'
  BY <1>2 DEF IterationInOrder
<1>5. InPlace'
  BY <1>1, <1>3 DEF Answered, InPlace
<1>6. CASE k = Lost
  BY <1>2, <1>4, <1>5, <1>6 DEF Answered, AnswerAsWritten, FaultsExplained
<1>7. CASE k \in {None, Stray}
  <2>1. answer' = Null /\ fault' = "none"
    BY <1>1, <1>7, ExtractNone DEF Return
  <2> QED BY <1>2, <1>4, <1>5, <1>7, <2>1 DEF Answered, AnswerAsWritten, FaultsExplained
<1>8. CASE k \in DOMAIN f.content /\ k \notin {None, Lost, Stray}
  <2>1. PICK c : c = f.content[k] /\ c = file'.content[asked'.k]
    BY <1>1, <1>2
  <2>2. Extract(f, c.at, FALSE)
    BY <1>1, <1>8, <2>1 DEF Seek
  <2>3. CASE fault' = "none" /\ Return(AnswerOf(c), 0)
    <3>1. Says(answer', c, utf8)
      BY <1>1, <1>8, <2>1, <2>3, RecordSays DEF Return
    <3> QED BY <1>2, <1>4, <1>5, <1>8, <2>1, <2>3, <3>1
          DEF Answered, AnswerAsWritten, FaultsExplained
  <2>4. CASE fault' # "none" /\ ~cached /\ c.length > Full
    BY <1>1, <1>2, <1>4, <1>5, <1>8, <2>1, <2>4
    DEF Answered, AnswerAsWritten, FaultsExplained
  <2> QED BY <1>1, <1>8, <2>1, <2>2, <2>3, <2>4, ExtractWritten
<1> QED BY <1>6, <1>7, <1>8

\* A lookup of a name.
LEMMA NameByAnswered ==
    ASSUME Types, Answered,
           NEW f \in File, NEW k \in {None, Lost, Stray} \cup DOMAIN f.content,
           NameBy(f, k)
    PROVE  Answered'
<1>1. /\ fault = "none" /\ asked' = [op |-> "name", k |-> k, utf8 |-> utf8]
      /\ file' = f /\ steady' = (steady /\ f = file) /\ UNCHANGED <<cached, utf8, visited>>
      /\ NameAt(f, Seek(f, k)) /\ f.edition \in NameEditions /\ iter' = iter
  <2>1. /\ fault = "none" /\ asked' = [op |-> "name", k |-> k, utf8 |-> utf8]
        /\ Walk(f) /\ NameAt(f, Seek(f, k)) /\ iter' = iter
        /\ file.edition \in NameEditions
    BY DEF NameBy, Call
  <2>2. f.edition \in CityEditions \cup NameEditions
    BY RecordsConstants
  <2>3. f.edition \in NameEditions
    BY <2>1, <2>2 DEF Walk, Kind, CityEditions, NameEditions
  <2> QED BY <2>1, <2>3 DEF Walk
<1>2. asked'.op = "name" /\ asked'.k = k /\ asked'.utf8 = utf8
  BY <1>1
<1>3. IterationInOrder'
  BY <1>2 DEF IterationInOrder
<1>4. InPlace'
  BY <1>1 DEF Answered, InPlace
<1>5. CASE k = Lost
  BY <1>2, <1>3, <1>4, <1>5 DEF Answered, AnswerAsWritten, FaultsExplained
<1>6. CASE k = None
  <2>1. Seek(f, k) = f.segments
    BY <1>6 DEF Seek
  <2>2. answer' = Null /\ fault' = "none"
    BY <1>1, <2>1 DEF NameAt, NameWith, Return
  <2> QED BY <1>2, <1>3, <1>4, <1>6, <2>2 DEF Answered, AnswerAsWritten, FaultsExplained
<1>7. CASE k = Stray
  <2>1. Seek(f, k) = Len(f.bytes)
    BY <1>7 DEF Seek, None, Lost, Stray
  <2>2. Len(f.bytes) \in Nat /\ NameMax \in Nat /\ NameMax > 0
    BY FileType, RecordsConstants
  <2>3. PICK p \in Nat : p = Pointer(f, Len(f.bytes)) /\ p >= Len(f.bytes)
    BY <2>2, ReadType
  <2>4. There(f, p, NameMax) = 0
    BY <2>2, <2>3 DEF There
  <2>5. Nul(f, p, 0, 0) = 0
    BY NulEnd
  <2>6. ~ (0 < 0) /\ 0 # NameMax
    BY <2>2
  <2>7. answer' = Null
    BY <1>1, <2>1, <2>3, <2>4, <2>5, <2>6 DEF NameAt, NameWith, Return
  <2> QED BY <1>2, <1>3, <1>4, <1>7, <2>7 DEF Answered, AnswerAsWritten, FaultsExplained
<1>8. CASE k \in DOMAIN f.content /\ k \notin {None, Lost, Stray}
  <2>1. PICK c : c = f.content[k] /\ c = file'.content[asked'.k]
    BY <1>1, <1>2
  <2>2. NameAt(f, c.at)
    BY <1>1, <1>8, <2>1 DEF Seek
  <2>3. PICK p : p = Pointer(f, c.at)
    OBVIOUS
  <2>4. f.edition \notin CityEditions
    BY <1>1 DEF CityEditions, NameEditions
  <2>5. c.text \in Bytes8 /\ c.length = Len(c.text) + 1 /\ NameMax \in Nat
    <3>1. c.text \in Bytes8 /\ c.length = Len(c.text) + 1
      BY <1>8, <2>1, <2>3, <2>4, NameWritten
    <3> QED BY <3>1, RecordsConstants
  <2>6. CASE /\ fault' = "none" /\ ~cached /\ c.length > NameMax
             /\ Return([text |-> Text(SubSeq(c.text, 1, NameMax))], 0)
    <3> DEFINE cut == [text |-> SubSeq(c.text, 1, NameMax)]
    <3>1. SubSeq(c.text, 1, NameMax) \in Bytes8
      <4>1. Len(c.text) \in Nat /\ NameMax <= Len(c.text)
        BY <2>5, <2>6, LenProperties DEF Bytes8
      <4> QED BY <2>5, <4>1, CutType
    <3>2. cut.text = SubSeq(c.text, 1, NameMax)
      OBVIOUS
    <3> HIDE DEF cut
    <3>3. Says([text |-> Text(SubSeq(c.text, 1, NameMax))], cut, utf8)
          /\ [text |-> Text(SubSeq(c.text, 1, NameMax))] \in NameAnswers
      BY <3>1, <3>2, NameSays
    <3>4. answer' = [text |-> Text(SubSeq(c.text, 1, NameMax))]
      BY <2>6 DEF Return
    <3>5. Says(answer', cut, utf8)
      BY <3>3, <3>4
    <3>6. AnswerAsWritten'
      BY <1>1, <1>2, <1>8, <2>1, <2>6, <3>5 DEF AnswerAsWritten, cut
    <3> QED BY <1>3, <1>4, <2>6, <3>6 DEF Answered, FaultsExplained
  <2>7. CASE /\ fault' = "none" /\ ~ (~cached /\ c.length > NameMax)
             /\ Return([text |-> Text(c.text)], 0)
    <3>1. Says([text |-> Text(c.text)], c, utf8)
      BY <2>5, NameSays
    <3>2. answer' = [text |-> Text(c.text)]
      BY <2>7 DEF Return
    <3>3. Says(answer', c, utf8)
      BY <3>1, <3>2
    <3>4. AnswerAsWritten'
      BY <1>1, <1>2, <1>8, <2>1, <2>7, <3>3 DEF AnswerAsWritten
    <3> QED BY <1>3, <1>4, <2>7, <3>4 DEF Answered, FaultsExplained
  <2>8. CASE fault' # "none" /\ ~cached /\ f.edition = "name" /\ c.length > NameMax
    BY <1>1, <1>2, <1>3, <1>4, <1>8, <2>1, <2>8
    DEF Answered, AnswerAsWritten, FaultsExplained
  <2> QED BY <1>1, <1>8, <2>1, <2>2, <2>6, <2>7, <2>8, NameFound
<1> QED BY <1>5, <1>6, <1>7, <1>8

\* A step of the iteration.
LEMMA NextAnswered ==
    ASSUME Types, Answered, NextRecord
    PROVE  Answered'
<1>0. /\ file \in File /\ visited \in Nat /\ iter \in Nat /\ steady \in BOOLEAN
      /\ Len(file.content) \in Nat /\ DOMAIN file.content = 1 .. Len(file.content)
  BY FileType DEF Types, TypeOK
<1>1. /\ iter # 0 /\ file.edition \in CityEditions /\ fault = "none"
      /\ UNCHANGED <<file, cached, utf8, steady>>
  BY DEF NextRecord, Call
<1>2. CASE cached /\ Call("unsupported", None) /\ Return(Null, 0)
           /\ UNCHANGED <<iter, visited, fault>>
  <2>1. asked'.op = "unsupported"
    BY <1>2 DEF Call
  <2> QED BY <1>1, <1>2, <2>1
        DEF Answered, AnswerAsWritten, IterationInOrder, FaultsExplained, InPlace
<1>3. CASE /\ visited' = IF visited > Len(file.content) THEN visited ELSE visited + 1
           /\ Call("next", visited') /\ Extract(file, iter, TRUE)
  <2>1. PICK k \in Nat : k = visited'
    BY <1>0, <1>3
  <2>2. asked'.op = "next" /\ asked'.k = k /\ asked'.utf8 = utf8
    BY <1>3, <2>1 DEF Call
  <2>3. AnswerAsWritten'
    BY <2>2 DEF AnswerAsWritten
  <2>4. CASE ~steady
    BY <1>1, <2>2, <2>3, <2>4
    DEF Answered, IterationInOrder, FaultsExplained, InPlace
  <2>5. CASE visited + 1 \notin DOMAIN file.content
    <3>1. k > Len(file.content) /\ k \notin DOMAIN file.content
          /\ k + 1 \notin DOMAIN file.content
      BY <1>0, <1>3, <2>1, <2>5
    <3> QED BY <1>1, <2>1, <2>2, <2>3, <3>1
          DEF Answered, IterationInOrder, FaultsExplained, InPlace
  <2>6. CASE steady /\ visited + 1 \in DOMAIN file.content
    <3>1. k = visited + 1 /\ k \in DOMAIN file.content
      BY <1>0, <1>3, <2>1, <2>6
    <3>2. PICK c : c = file.content[k]
      OBVIOUS
    <3>3. iter = c.at
      BY <1>1, <2>6, <3>1, <3>2 DEF Answered, InPlace
    <3>4. Extract(file, c.at, TRUE)
      BY <1>3, <3>3
    <3>5. CASE fault' = "none" /\ Return(AnswerOf(c), 0) /\ iter' = c.at + c.length
      <4>1. Says(answer', c, utf8)
        BY <1>0, <1>1, <3>1, <3>2, <3>5, RecordSays DEF Return
      <4>2. IterationInOrder'
        BY <1>1, <2>2, <3>2, <4>1 DEF IterationInOrder
      <4>3. InPlace'
        BY <1>0, <1>1, <2>1, <3>1, <3>2, <3>5, NextStarts DEF InPlace
      <4> QED BY <2>3, <3>5, <4>2, <4>3 DEF Answered, FaultsExplained
    <3>6. CASE fault' # "none" /\ ~cached /\ c.length > Full
      BY <1>1, <2>2, <2>3, <3>1, <3>2, <3>6
      DEF Answered, IterationInOrder, FaultsExplained, InPlace
    <3>7. \/ fault' = "none" /\ Return(AnswerOf(c), 0) /\ iter' = c.at + c.length
          \/ fault' # "none" /\ ~cached /\ c.length > Full
      BY <1>0, <1>1, <3>1, <3>2, <3>4, ExtractWritten
    <3> QED BY <3>5, <3>6, <3>7
  <2> QED BY <1>0, <2>4, <2>5, <2>6
<1> QED BY <1>2, <1>3 DEF NextRecord

\* Every call keeps answers, iteration and faults as they should be.
LEMMA StepAnswered == Types /\ Answered /\ [Next]_vars => Answered'
<1> SUFFICES ASSUME Types, Answered, [Next]_vars PROVE Answered'
  OBVIOUS
<1> USE DEF Answered, AnswerAsWritten, IterationInOrder, FaultsExplained, InPlace
<1>1. CASE UNCHANGED vars
  BY <1>1 DEF vars
<1>2. CASE WrongEdition
  <2>1. /\ asked'.op = "wrong" /\ fault' = fault /\ fault = "none"
        /\ UNCHANGED <<file, cached, utf8, iter, visited, steady>>
    BY <1>2 DEF WrongEdition, Call
  <2> QED BY <2>1
<1>3. CASE InitRecordIter
  <2>1. /\ asked'.op = "init" /\ fault' = fault /\ fault = "none" /\ file' = file
        /\ iter' = file.segments + 1 /\ visited' = 0
    BY <1>3 DEF InitRecordIter, InitRecordIterAt, Call
  <2>2. file \in File
    BY DEF Types, TypeOK
  <2>3. 1 \in DOMAIN file.content => file.content[1].at = file.segments + 1
    BY <2>2, NextStarts
  <2>4. 0 + 1 = 1
    OBVIOUS
  <2> QED BY <2>1, <2>3, <2>4
<1>4. ASSUME NEW u \in BOOLEAN, SetCharset(u) PROVE Answered'
  BY <1>4 DEF SetCharset
<1>5. ASSUME NEW i \in DOMAIN held, Release(i) PROVE Answered'
  BY <1>5 DEF Release
<1>6. ASSUME NEW f \in File, NEW k \in {None, Lost, Stray} \cup DOMAIN f.content,
             RecordBy(f, k) \/ NameBy(f, k)
      PROVE  Answered'
  BY <1>6, RecordByAnswered, NameByAnswered
<1>7. CASE NextRecord
  BY <1>7, NextAnswered
<1> QED
  BY <1>1, <1>2, <1>3, <1>4, <1>5, <1>6, <1>7 DEF Next

\* The inductive invariant of lookups and iterations.
THEOREM RecordsInvariant == Spec => [](Types /\ Answered)
BY InitTypes, InitAnswered, StepTypes, StepAnswered, PTL DEF Spec

\* Whatever an author wrote, every lookup returns it and nothing else, in both
\* character sets and from memory as from the file.
THEOREM AnswersAreWritten == Spec => []AnswerAsWritten
BY RecordsInvariant, PTL DEF Answered

\* The n-th step of an iteration that no reload disturbs returns the n-th record
\* of the file, whatever else is called in between.
THEOREM RecordsInOrder == Spec => []IterationInOrder
BY RecordsInvariant, PTL DEF Answered

\* Bytes outside a buffer or the cache are read only for one of the causes that
\* FaultsExplained lists.
THEOREM ReadsExplained == Spec => []FaultsExplained
BY RecordsInvariant, PTL DEF Answered
=============================================================================
