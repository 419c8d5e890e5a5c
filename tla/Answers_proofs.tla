--------------------------- MODULE Answers_proofs ---------------------------
(***************************************************************************)
(* GeoIP_addr_to_num reads exactly the addresses, in any base and for any  *)
(* size of an octet; and the numbers a database holds are decoded to the   *)
(* countries and regions they were written for, for any sizes of the       *)
(* tables.                                                                 *)
(***************************************************************************)
EXTENDS Answers, WellFoundedInduction, TLAPS

Sequence == INSTANCE SequenceTheorems

USE AddrNumConstants DEF AddrNumConstants

-----------------------------------------------------------------------------
(* Division *)

\* A number has one quotient and one remainder.
LEMMA OneQuotient ==
    ASSUME NEW m \in Nat \ {0}, NEW q \in Int, NEW r \in 0 .. m - 1
    PROVE  (q * m + r) \div m = q /\ (q * m + r) % m = r
<1> DEFINE x == q * m + r
           k == x \div m
           s == x % m
<1>1. x \in Int /\ q * m \in Int
  OBVIOUS
<1>2. k \in Int /\ s \in 0 .. m - 1 /\ x = k * m + s
  BY <1>1
<1>3. q * m + r = k * m + s
  BY <1>2
<1> HIDE DEF x, k, s
<1>4. ~ (k < q)
  <2> SUFFICES ASSUME k + 1 <= q PROVE FALSE
    BY <1>2
  <2>1. (k + 1) * m <= q * m
    BY <1>2
  <2>2. (k + 1) * m = k * m + m
    BY <1>2
  <2> QED BY <2>1, <2>2, <1>1, <1>2, <1>3
<1>5. ~ (q < k)
  <2> SUFFICES ASSUME q + 1 <= k PROVE FALSE
    BY <1>2
  <2>1. (q + 1) * m <= k * m
    BY <1>2
  <2>2. (q + 1) * m = q * m + m
    OBVIOUS
  <2> QED BY <2>1, <2>2, <1>1, <1>2, <1>3
<1>6. k = q
  BY <1>2, <1>4, <1>5
<1>7. s = r
  BY <1>1, <1>2, <1>3, <1>6
<1> QED
  BY <1>6, <1>7 DEF x, k, s

\* An unsigned int holds small numbers as they are, and 0 less b as m less b.
LEMMA SmallModulo ==
    ASSUME NEW m \in Nat \ {0}, NEW r \in 0 .. m - 1
    PROVE  r % m = r
<1>1. 0 * m + r = r
  OBVIOUS
<1> QED
  BY <1>1, OneQuotient, 0 \in Int

\* A negative number wraps around once.
LEMMA NegativeModulo ==
    ASSUME NEW m \in Nat \ {0}, NEW b \in 1 .. m
    PROVE  (0 - b) % m = m - b
<1>1. (-1) * m + (m - b) = 0 - b
  OBVIOUS
<1>2. m - b \in 0 .. m - 1 /\ -1 \in Int
  OBVIOUS
<1> QED
  BY <1>1, <1>2, OneQuotient

\* A set of numbers with 0 and the successor of each of its members has all.
LEMMA SetInduction ==
    ASSUME NEW G, 0 \in G, \A n \in Nat : n \in G => n + 1 \in G
    PROVE  Nat \subseteq G
<1> DEFINE T == Nat \ G
<1>1. SUFFICES ASSUME T # {} PROVE FALSE
  OBVIOUS
<1>2. PICK n \in T : \A m \in T : ~ (<<m, n>> \in OpToRel(<, Nat))
  BY <1>1, NatLessThanWellFounded, WFMin
<1>3. PICK k \in Nat : n = k + 1
  <2>1. n \in Nat /\ n # 0
    BY <1>2
  <2>2. n - 1 \in Nat /\ n = (n - 1) + 1
    BY <2>1
  <2> QED BY <2>2
<1>4. <<k, n>> \in OpToRel(<, Nat)
  BY <1>3 DEF OpToRel
<1>5. k \in G
  BY <1>2, <1>4
<1> QED BY <1>2, <1>3, <1>5

-----------------------------------------------------------------------------
(* The text of a number *)

Characters == {Dot} \cup 0 .. Base - 1

\* One character c of the text of n, read with num fields behind and val in the
\* one being read: a field ends when it is the octet, and does not exceed it.
Turn(n, num, val, c, num2, val2) ==
    \/ /\ c = Dot /\ num \in 0 .. 2 /\ val = OctetOf(n, 3 - num)
       /\ num2 = num + 1 /\ val2 = 0
    \/ /\ c \in 0 .. Base - 1 /\ num \in 0 .. 3 /\ num2 = num
       /\ val2 = Base * val + c /\ val2 <= OctetOf(n, 3 - num)

\* num and val are followed through text.
Path(n, text, num, val) ==
    /\ num \in [0 .. Len(text) -> Nat] /\ val \in [0 .. Len(text) -> Nat]
    /\ \A j \in 1 .. Len(text) :
          Turn(n, num[j - 1], val[j - 1], text[j], num[j], val[j])

\* Reading text leads from a and v to b and w.
Leads(n, text, a, v, b, w) ==
    \E num, val : /\ Path(n, text, num, val)
                  /\ num[0] = a /\ val[0] = v
                  /\ num[Len(text)] = b /\ val[Len(text)] = w

LEMMA LeadsNowhere ==
    ASSUME NEW n, NEW a \in Nat, NEW v \in Nat
    PROVE  Leads(n, <<>>, a, v, a, v)
<1> DEFINE num == [j \in 0 .. 0 |-> a]
           val == [j \in 0 .. 0 |-> v]
<1>1. num \in [0 .. 0 -> Nat] /\ val \in [0 .. 0 -> Nat] /\ num[0] = a /\ val[0] = v
  OBVIOUS
<1> HIDE DEF num, val
<1>2. Len(<<>>) = 0 /\ 1 .. 0 = {}
  OBVIOUS
<1> QED BY <1>1, <1>2 DEF Leads, Path

LEMMA NothingLeads ==
    ASSUME NEW n, NEW a, NEW v, NEW b, NEW w, Leads(n, <<>>, a, v, b, w)
    PROVE  a = b /\ v = w
BY DEF Leads

\* Two texts, one behind the other.
LEMMA LeadsOn ==
    ASSUME NEW n, NEW s \in Seq(Characters), NEW t \in Seq(Characters),
           NEW a, NEW v, NEW b, NEW w, NEW c, NEW x,
           Leads(n, s, a, v, b, w), Leads(n, t, b, w, c, x)
    PROVE  Leads(n, s \o t, a, v, c, x)
<1>1. PICK k \in Nat : k = Len(s)
  BY Sequence!LenProperties
<1>2. PICK l \in Nat : l = Len(t)
  BY Sequence!LenProperties
<1>3. /\ Len(s \o t) = k + l
      /\ \A j \in 1 .. k + l : (s \o t)[j] = IF j <= k THEN s[j] ELSE t[j - k]
  BY <1>1, <1>2, Sequence!ConcatProperties
<1>4. PICK num1, val1 : /\ Path(n, s, num1, val1) /\ num1[0] = a /\ val1[0] = v
                        /\ num1[k] = b /\ val1[k] = w
  BY <1>1 DEF Leads
<1>5. PICK num2, val2 : /\ Path(n, t, num2, val2) /\ num2[0] = b /\ val2[0] = w
                        /\ num2[l] = c /\ val2[l] = x
  BY <1>2 DEF Leads
<1>6. /\ num1 \in [0 .. k -> Nat] /\ val1 \in [0 .. k -> Nat]
      /\ \A j \in 1 .. k : Turn(n, num1[j - 1], val1[j - 1], s[j], num1[j], val1[j])
  BY <1>1, <1>4 DEF Path
<1>7. /\ num2 \in [0 .. l -> Nat] /\ val2 \in [0 .. l -> Nat]
      /\ \A j \in 1 .. l : Turn(n, num2[j - 1], val2[j - 1], t[j], num2[j], val2[j])
  BY <1>2, <1>5 DEF Path
<1> DEFINE num == [j \in 0 .. k + l |-> IF j <= k THEN num1[j] ELSE num2[j - k]]
           val == [j \in 0 .. k + l |-> IF j <= k THEN val1[j] ELSE val2[j - k]]
<1>8. /\ num \in [0 .. k + l -> Nat] /\ val \in [0 .. k + l -> Nat]
      /\ \A j \in 0 .. k : num[j] = num1[j] /\ val[j] = val1[j]
  <2>1. ASSUME NEW j \in 0 .. k + l
        PROVE  num[j] \in Nat /\ val[j] \in Nat
    <3>1. CASE j <= k
      BY <1>6, <3>1
    <3>2. CASE ~ (j <= k)
      <4>1. j - k \in 0 .. l
        BY <3>2
      <4> QED BY <1>7, <3>2, <4>1
    <3> QED BY <3>1, <3>2
  <2>2. \A j \in 0 .. k : num[j] = num1[j] /\ val[j] = val1[j]
    OBVIOUS
  <2> QED BY <2>1, <2>2, Zenon
<1>9. \A j \in 0 .. l : num[k + j] = num2[j] /\ val[k + j] = val2[j]
  <2> TAKE j \in 0 .. l
  <2>1. k + j \in 0 .. k + l /\ (k + j) - k = j /\ (k + j <= k => j = 0 /\ k + j = k)
    OBVIOUS
  <2>2. CASE k + j <= k
    BY <1>4, <1>5, <2>1, <2>2
  <2>3. CASE ~ (k + j <= k)
    BY <2>1, <2>3
  <2> QED BY <2>2, <2>3
<1> HIDE DEF num, val
<1>10. ASSUME NEW j \in 1 .. k + l
       PROVE  Turn(n, num[j - 1], val[j - 1], (s \o t)[j], num[j], val[j])
  <2>1. CASE j <= k
    <3>1. j \in 1 .. k /\ j \in 0 .. k /\ j - 1 \in 0 .. k
      BY <2>1
    <3>2. (s \o t)[j] = s[j]
      BY <1>3, <2>1
    <3> QED BY <1>6, <1>8, <3>1, <3>2
  <2>2. CASE ~ (j <= k)
    <3>1. PICK h \in Nat : h = j - k
      BY <2>2
    <3>2. h \in 1 .. l /\ h \in 0 .. l /\ h - 1 \in 0 .. l /\ k + h = j /\ k + (h - 1) = j - 1
      BY <2>2, <3>1
    <3>3. (s \o t)[j] = t[h]
      BY <1>3, <2>2, <3>1
    <3>4. num[j] = num2[h] /\ val[j] = val2[h]
      BY <1>9, <3>2
    <3>5. num[j - 1] = num2[h - 1] /\ val[j - 1] = val2[h - 1]
      BY <1>9, <3>2
    <3> QED BY <1>7, <3>2, <3>3, <3>4, <3>5
  <2> QED BY <2>1, <2>2
<1>11. 0 \in 0 .. k /\ l \in 0 .. l
  OBVIOUS
<1>12. num[0] = a /\ val[0] = v /\ num[k + l] = c /\ val[k + l] = x
  BY <1>4, <1>5, <1>8, <1>9, <1>11
<1>13. Path(n, s \o t, num, val)
  BY <1>3, <1>8, <1>10 DEF Path
<1> QED BY <1>3, <1>12, <1>13 DEF Leads

\* One character.
LEMMA LeadsOne ==
    ASSUME NEW n, NEW a \in Nat, NEW v \in Nat, NEW b \in Nat, NEW w \in Nat,
           NEW c \in Characters, Turn(n, a, v, c, b, w)
    PROVE  Leads(n, <<c>>, a, v, b, w)
<1> DEFINE num == [j \in 0 .. 1 |-> IF j = 0 THEN a ELSE b]
           val == [j \in 0 .. 1 |-> IF j = 0 THEN v ELSE w]
<1>1. /\ num \in [0 .. 1 -> Nat] /\ val \in [0 .. 1 -> Nat]
      /\ num[0] = a /\ val[0] = v /\ num[1] = b /\ val[1] = w
  OBVIOUS
<1> HIDE DEF num, val
<1>2. Len(<<c>>) = 1 /\ <<c>>[1] = c
  OBVIOUS
<1>3. \A j \in 1 .. 1 : j = 1 /\ j - 1 = 0
  OBVIOUS
<1>4. Path(n, <<c>>, num, val)
  BY <1>1, <1>2, <1>3 DEF Path
<1> QED BY <1>1, <1>2, <1>4 DEF Leads

\* The first character of a text.
LEMMA LeadsFirst ==
    ASSUME NEW n, NEW t \in Seq(Characters), t # <<>>, NEW a, NEW v, NEW b, NEW w,
           Leads(n, t, a, v, b, w)
    PROVE  /\ Head(t) \in Characters /\ Tail(t) \in Seq(Characters)
           /\ \E a2, v2 \in Nat : /\ Turn(n, a, v, Head(t), a2, v2)
                                  /\ Leads(n, Tail(t), a2, v2, b, w)
<1>1. PICK l \in Nat : l = Len(t) /\ l > 0
  BY Sequence!EmptySeq
<1>2. /\ Head(t) \in Characters /\ Tail(t) \in Seq(Characters) /\ Len(Tail(t)) = l - 1
      /\ \A j \in 1 .. l - 1 : Tail(t)[j] = t[j + 1]
  BY <1>1, Sequence!HeadTailProperties
<1>3. Head(t) = t[1]
  OBVIOUS
<1>4. PICK num, val : /\ Path(n, t, num, val) /\ num[0] = a /\ val[0] = v
                      /\ num[l] = b /\ val[l] = w
  BY <1>1 DEF Leads
<1>5. /\ num \in [0 .. l -> Nat] /\ val \in [0 .. l -> Nat]
      /\ \A j \in 1 .. l : Turn(n, num[j - 1], val[j - 1], t[j], num[j], val[j])
  BY <1>1, <1>4 DEF Path
<1>6. 1 \in 1 .. l /\ 1 - 1 = 0 /\ 1 \in 0 .. l
  BY <1>1
<1>7. Turn(n, a, v, Head(t), num[1], val[1]) /\ num[1] \in Nat /\ val[1] \in Nat
  BY <1>3, <1>4, <1>5, <1>6
<1> DEFINE num2 == [j \in 0 .. l - 1 |-> num[j + 1]]
           val2 == [j \in 0 .. l - 1 |-> val[j + 1]]
<1>8. /\ num2 \in [0 .. l - 1 -> Nat] /\ val2 \in [0 .. l - 1 -> Nat]
      /\ \A j \in 0 .. l - 1 : num2[j] = num[j + 1] /\ val2[j] = val[j + 1]
  <2>1. ASSUME NEW j \in 0 .. l - 1
        PROVE  /\ num2[j] = num[j + 1] /\ val2[j] = val[j + 1]
               /\ num[j + 1] \in Nat /\ val[j + 1] \in Nat
    <3>1. j + 1 \in 0 .. l
      OBVIOUS
    <3> QED BY <1>5, <3>1
  <2> QED BY <2>1, Zenon
<1> HIDE DEF num2, val2
<1>9. ASSUME NEW j \in 1 .. l - 1
      PROVE  Turn(n, num2[j - 1], val2[j - 1], Tail(t)[j], num2[j], val2[j])
  <2>1. PICK h \in Nat : h = j + 1
    OBVIOUS
  <2>2. h \in 1 .. l /\ h - 1 = j /\ j \in 0 .. l - 1 /\ j - 1 \in 0 .. l - 1 /\ (j - 1) + 1 = j
    BY <2>1
  <2>3. num2[j] = num[h] /\ val2[j] = val[h] /\ Tail(t)[j] = t[h]
    BY <1>2, <1>8, <2>1, <2>2
  <2>4. num2[j - 1] = num[h - 1] /\ val2[j - 1] = val[h - 1]
    BY <1>8, <2>2
  <2> QED BY <1>5, <2>2, <2>3, <2>4
<1>10. 0 \in 0 .. l - 1 /\ l - 1 \in 0 .. l - 1 /\ (l - 1) + 1 = l /\ 0 + 1 = 1
  BY <1>1
<1>11. num2[0] = num[1] /\ val2[0] = val[1] /\ num2[l - 1] = b /\ val2[l - 1] = w
  BY <1>4, <1>8, <1>10
<1>12. Path(n, Tail(t), num2, val2)
  BY <1>2, <1>8, <1>9 DEF Path
<1>13. Leads(n, Tail(t), num[1], val[1], b, w)
  BY <1>2, <1>11, <1>12 DEF Leads
<1> QED BY <1>2, <1>7, <1>13

\* out is what sprintf makes of each number up to n.
AreDigits(out, n) ==
    out = [m \in 0 .. n |->
              IF m < Base THEN <<m>> ELSE Append(out[m \div Base], m % Base)]

\* A number is made of another, which is less, and a last digit.
LEMMA LastDigit ==
    ASSUME NEW m \in Nat
    PROVE  /\ m \div Base \in Nat /\ m % Base \in 0 .. Base - 1
           /\ m = Base * (m \div Base) + (m % Base)
           /\ m >= Base => m \div Base < m
<1>1. PICK q, d : q = m \div Base /\ d = m % Base
  OBVIOUS
<1>2. q \in Nat /\ d \in 0 .. Base - 1 /\ m = Base * q + d
  BY <1>1
<1>3. m >= Base => q < m
  <2> SUFFICES ASSUME m >= Base, q >= m PROVE FALSE
    BY <1>2
  <2>1. q >= 1 /\ Base >= 2
    BY <1>2
  <2>2. Base * q >= 2 * q
    BY <1>2, <2>1
  <2> QED BY <1>2, <2>1, <2>2
<1> QED BY <1>1, <1>2, <1>3

LEMMA DigitsLonger ==
    ASSUME NEW n \in Nat, NEW out, AreDigits(out, n)
    PROVE  \E g : AreDigits(g, n + 1)
<1> DEFINE r(f, m) == IF m < Base THEN <<m>> ELSE Append(f[m \div Base], m % Base)
           g == [m \in 0 .. n + 1 |-> IF m = n + 1 THEN r(out, n + 1) ELSE out[m]]
<1>1. \A m \in 0 .. n : out[m] = r(out, m)
  BY DEF AreDigits
<1>2. \A m \in 0 .. n : g[m] = out[m]
  OBVIOUS
<1>3. g[n + 1] = r(out, n + 1)
  OBVIOUS
<1>4. g = [m \in 0 .. n + 1 |-> g[m]]
  OBVIOUS
<1> HIDE DEF g
<1>5. ASSUME NEW m \in 0 .. n + 1 PROVE g[m] = r(g, m)
  <2>1. m \in Nat
    OBVIOUS
  <2>2. m >= Base => m \div Base \in 0 .. n
    BY <2>1, LastDigit
  <2>3. m >= Base => g[m \div Base] = out[m \div Base]
    BY <1>2, <2>2
  <2>4. r(g, m) = r(out, m)
    BY <2>1, <2>3
  <2>5. CASE m = n + 1
    BY <1>3, <2>4, <2>5
  <2>6. CASE m # n + 1
    <3>1. m \in 0 .. n
      BY <2>6
    <3> QED BY <1>1, <1>2, <2>4, <3>1
  <2> QED BY <2>5, <2>6
<1>6. AreDigits(g, n + 1)
  BY <1>4, <1>5 DEF AreDigits
<1> QED BY <1>6

LEMMA DigitsAre ==
    ASSUME NEW n \in Nat
    PROVE  \E out : AreDigits(out, n) /\ Digits(n) = out[n]
<1> DEFINE G == {m \in Nat : \E f : AreDigits(f, m)}
<1>1. 0 \in G
  <2>1. AreDigits([m \in 0 .. 0 |-> <<m>>], 0)
    BY DEF AreDigits
  <2> QED BY <2>1
<1>2. \A m \in Nat : m \in G => m + 1 \in G
  BY DigitsLonger
<1> HIDE DEF G
<1>3. Nat \subseteq G
  BY <1>1, <1>2, SetInduction
<1> DEFINE out == CHOOSE f : AreDigits(f, n)
<1>4. AreDigits(out, n)
  BY <1>3 DEF G
<1>5. Digits(n) = out[n]
  BY DEF Digits, AreDigits
<1> QED BY <1>4, <1>5

\* The digits of an octet lead from 0 to the octet.
LEMMA DigitsLead ==
    ASSUME NEW n, NEW a \in 0 .. 3, NEW x \in Nat, x = OctetOf(n, 3 - a)
    PROVE  Digits(x) \in Seq(Characters) /\ Leads(n, Digits(x), a, 0, a, x)
<1>1. PICK out : AreDigits(out, x) /\ Digits(x) = out[x]
  BY DigitsAre
<1>2. \A m \in 0 .. x :
         out[m] = IF m < Base THEN <<m>> ELSE Append(out[m \div Base], m % Base)
  BY <1>1 DEF AreDigits
<1> DEFINE Fine(m) == out[m] \in Seq(Characters) /\ Leads(n, out[m], a, 0, a, m)
           G == {h \in Nat : \A m \in 0 .. h : m <= x => Fine(m)}
<1>3. \A m \in 0 .. Base - 1 : m <= x => Fine(m)
  <2> TAKE m \in 0 .. Base - 1
  <2> SUFFICES ASSUME m <= x PROVE Fine(m)
    OBVIOUS
  <2>1. out[m] = <<m>>
    <3>1. m \in 0 .. x /\ m < Base
      OBVIOUS
    <3> QED BY <1>2, <3>1
  <2>2. m \in Characters /\ 0 \in Nat /\ a \in Nat /\ m \in Nat
    BY DEF Characters
  <2>3. Turn(n, a, 0, m, a, m)
    <3>1. m = Base * 0 + m
      OBVIOUS
    <3> QED BY <3>1 DEF Turn
  <2>4. Leads(n, <<m>>, a, 0, a, m)
    BY <2>2, <2>3, LeadsOne
  <2> QED BY <2>1, <2>2, <2>4
<1>4. 0 \in G
  <2>1. 0 \in 0 .. Base - 1
    OBVIOUS
  <2> HIDE DEF Fine
  <2> QED BY <1>3, <2>1
<1>5. ASSUME NEW h \in Nat, h \in G PROVE h + 1 \in G
  <2>1. SUFFICES ASSUME h + 1 <= x, h + 1 >= Base PROVE Fine(h + 1)
    <3> HIDE DEF Fine
    <3> QED BY <1>3, <1>5
  <2> DEFINE m == h + 1
             q == m \div Base
             d == m % Base
  <2>2. /\ m \in Nat /\ m <= x /\ m >= Base /\ m \in 0 .. x /\ ~ (m < Base)
    BY <2>1
  <2> HIDE DEF m
  <2>3. q \in Nat /\ d \in 0 .. Base - 1 /\ m = Base * q + d /\ q < m
    BY <2>2, LastDigit
  <2>4. out[m] = Append(out[q], d)
    BY <1>2, <2>2
  <2> HIDE DEF q, d
  <2>5. q \in 0 .. h /\ q <= x
    BY <2>2, <2>3 DEF m
  <2>6. Fine(q)
    <3> HIDE DEF Fine
    <3> QED BY <1>5, <2>5
  <2>7. d \in Characters /\ a \in Nat /\ m \in Nat /\ q \in Nat
    BY <2>2, <2>3 DEF Characters
  <2>8. Turn(n, a, q, d, a, m)
    BY <2>2, <2>3 DEF Turn
  <2>9. Leads(n, <<d>>, a, q, a, m) /\ <<d>> \in Seq(Characters)
    BY <2>7, <2>8, LeadsOne
  <2>10. out[q] \o <<d>> = out[m]
    BY <2>4, <2>6, <2>7, Sequence!AppendIsConcat
  <2>11. Leads(n, out[q] \o <<d>>, a, 0, a, m)
    BY <2>6, <2>9, LeadsOn
  <2>12. out[m] \in Seq(Characters)
    BY <2>4, <2>6, <2>7, Sequence!AppendProperties
  <2> QED BY <2>10, <2>11, <2>12 DEF m
<1> HIDE DEF G
<1>6. Nat \subseteq G
  BY <1>4, <1>5, SetInduction
<1>7. Fine(x)
  <2>1. x \in G /\ x \in 0 .. x /\ x <= x
    BY <1>6
  <2> HIDE DEF Fine
  <2> QED BY <2>1 DEF G
<1> QED BY <1>1, <1>7

\* What is left of a number, and what is taken of it.
LEMMA OctetsOf ==
    ASSUME NEW n \in Nat
    PROVE  \E a, b, c \in Nat :
               /\ a = n \div Octet /\ b = a \div Octet /\ c = b \div Octet
               /\ OctetOf(n, 0) = n % Octet /\ OctetOf(n, 1) = a % Octet
               /\ OctetOf(n, 2) = b % Octet /\ OctetOf(n, 3) = c % Octet
<1>1. PICK a \in Nat : a = n \div Octet
  OBVIOUS
<1>2. PICK b \in Nat : b = a \div Octet
  OBVIOUS
<1>3. PICK c \in Nat : c = b \div Octet
  OBVIOUS
<1>4. Left(n) = <<n, a, b, c>>
  BY <1>1, <1>2, <1>3, Zenon DEF Left
<1>5. /\ <<n, a, b, c>>[0 + 1] = n /\ <<n, a, b, c>>[1 + 1] = a
      /\ <<n, a, b, c>>[2 + 1] = b /\ <<n, a, b, c>>[3 + 1] = c
  OBVIOUS
<1> QED BY <1>1, <1>2, <1>3, <1>4, <1>5 DEF OctetOf

LEMMA OctetType ==
    ASSUME NEW n \in Nat, NEW k \in 0 .. 3
    PROVE  OctetOf(n, k) \in Nat /\ OctetOf(n, k) < Octet
<1>1. \A a \in Nat : a % Octet \in Nat /\ a % Octet < Octet
  OBVIOUS
<1>2. k = 0 \/ k = 1 \/ k = 2 \/ k = 3
  OBVIOUS
<1>3. PICK a, b, c \in Nat :
               /\ a = n \div Octet /\ b = a \div Octet /\ c = b \div Octet
               /\ OctetOf(n, 0) = n % Octet /\ OctetOf(n, 1) = a % Octet
               /\ OctetOf(n, 2) = b % Octet /\ OctetOf(n, 3) = c % Octet
  BY OctetsOf
<1> QED BY <1>1, <1>2, <1>3

\* One more octet behind a remainder.
LEMMA MoreOctets ==
    ASSUME NEW n \in Nat, NEW m \in Nat \ {0}, NEW a \in Nat, a = n \div Octet
    PROVE  /\ (a % m) * Octet + (n % Octet) = n % (m * Octet)
           /\ m * Octet \in Nat \ {0}
<1>1. PICK q, r, o : q = a \div m /\ r = a % m /\ o = n % Octet
  OBVIOUS
<1>2. /\ q \in Nat /\ r \in 0 .. m - 1 /\ a = m * q + r
      /\ o \in 0 .. Octet - 1 /\ n = Octet * a + o
  <2>1. q \in Nat /\ r \in 0 .. m - 1 /\ a = m * q + r
    <3>1. \A x \in Nat : \A y \in Nat \ {0} :
             /\ x \div y \in Nat /\ x % y \in 0 .. y - 1
             /\ x = y * (x \div y) + (x % y)
      OBVIOUS
    <3> QED BY <1>1, <3>1, Zenon
  <2>2. o \in 0 .. Octet - 1 /\ n = Octet * a + o
    BY <1>1
  <2> QED BY <2>1, <2>2
<1>3. m * Octet \in Nat /\ q * m \in Nat /\ r * Octet \in Nat /\ m * Octet > 0
  BY <1>2
<1>4. n = q * (m * Octet) + (r * Octet + o)
  <2>1. Octet * a = q * (m * Octet) + r * Octet
    BY <1>2
  <2> QED BY <1>2, <1>3, <2>1
<1>5. r * Octet + o \in 0 .. m * Octet - 1
  <2>1. (r + 1) * Octet <= m * Octet
    BY <1>2
  <2>2. (r + 1) * Octet = r * Octet + Octet
    BY <1>2
  <2> QED BY <1>2, <1>3, <2>1, <2>2
<1>6. m * Octet \in Nat \ {0} /\ q \in Int
  BY <1>2, <1>3
<1>7. n % (m * Octet) = r * Octet + o
  BY <1>4, <1>5, <1>6, OneQuotient
<1> QED BY <1>1, <1>6, <1>7

\* The number of the four octets.
LEMMA FourOctets ==
    ASSUME NEW n \in Nat
    PROVE  Number(OctetOf(n, 3), OctetOf(n, 2), OctetOf(n, 1), OctetOf(n, 0))
             = n % (Octet * Octet * Octet * Octet)
<1>0. \A x, y \in Nat : \A m \in Nat \ {0} :
         y = x \div Octet => /\ (y % m) * Octet + (x % Octet) = x % (m * Octet)
                            /\ m * Octet \in Nat \ {0}
  BY MoreOctets
<1>1. PICK a, b, c \in Nat :
               /\ a = n \div Octet /\ b = a \div Octet /\ c = b \div Octet
               /\ OctetOf(n, 0) = n % Octet /\ OctetOf(n, 1) = a % Octet
               /\ OctetOf(n, 2) = b % Octet /\ OctetOf(n, 3) = c % Octet
  BY OctetsOf
<1>a. a \in Nat /\ a = n \div Octet
  BY <1>1
<1>b. b \in Nat /\ b = a \div Octet
  BY <1>1
<1>c. c \in Nat /\ c = b \div Octet
  BY <1>1
<1>2. /\ (c % Octet) * Octet + (b % Octet) = b % (Octet * Octet)
      /\ Octet * Octet \in Nat \ {0}
  <2>1. Octet \in Nat \ {0}
    OBVIOUS
  <2> QED BY <1>0, <1>b, <1>c, <2>1, ZenonT(40)
<1>3. /\ (b % (Octet * Octet)) * Octet + (a % Octet) = a % (Octet * Octet * Octet)
      /\ Octet * Octet * Octet \in Nat \ {0}
  <2>1. PICK m \in Nat \ {0} : m = Octet * Octet
    BY <1>2
  <2>2. (b % m) * Octet + (a % Octet) = a % (m * Octet) /\ m * Octet \in Nat \ {0}
    BY <1>0, <1>a, <1>b, ZenonT(40)
  <2> QED BY <2>1, <2>2, Zenon
<1>4. (a % (Octet * Octet * Octet)) * Octet + (n % Octet)
        = n % (Octet * Octet * Octet * Octet)
  <2>1. PICK m \in Nat \ {0} : m = Octet * Octet * Octet
    BY <1>3
  <2>2. (a % m) * Octet + (n % Octet) = n % (m * Octet)
    BY <1>0, <1>a, ZenonT(40)
  <2> QED BY <2>1, <2>2, Zenon
<1> QED BY <1>1, <1>2, <1>3, <1>4, Zenon DEF Number

\* The text of a number leads through its four octets.
LEMMA AddrLeads ==
    ASSUME NEW n \in Nat
    PROVE  /\ NumToAddr(n) \in Seq(Characters)
           /\ Leads(n, NumToAddr(n), 0, 0, 3, OctetOf(n, 0))
<1> DEFINE o(k) == OctetOf(n, 3 - k)
           t(k) == Digits(o(k))
           dot == <<Dot>>
<1>1. \A k \in 0 .. 3 : o(k) \in Nat
  <2> TAKE k \in 0 .. 3
  <2>1. 3 - k \in 0 .. 3
    OBVIOUS
  <2> QED BY <2>1, OctetType
<1>2. \A k \in 0 .. 3 : t(k) \in Seq(Characters) /\ Leads(n, t(k), k, 0, k, o(k))
  BY <1>1, DigitsLead
<1>3. \A k \in 0 .. 2 : Leads(n, dot, k, o(k), k + 1, 0)
  <2> TAKE k \in 0 .. 2
  <2>1. Turn(n, k, o(k), Dot, k + 1, 0)
    BY DEF Turn
  <2>2. /\ k \in Nat /\ k + 1 \in Nat /\ 0 \in Nat /\ Dot \in Characters
        /\ k \in 0 .. 3
    BY DEF Characters
  <2> QED BY <1>1, <2>1, <2>2, LeadsOne
<1>4. dot \in Seq(Characters)
  BY DEF Characters
<1>5. \A k \in 0 .. 2 : \A s \in Seq(Characters) :
         Leads(n, s, 0, 0, k, o(k)) =>
             /\ s \o dot \o t(k + 1) \in Seq(Characters)
             /\ Leads(n, s \o dot \o t(k + 1), 0, 0, k + 1, o(k + 1))
  <2> TAKE k \in 0 .. 2
  <2> TAKE s \in Seq(Characters)
  <2> SUFFICES ASSUME Leads(n, s, 0, 0, k, o(k))
               PROVE  /\ s \o dot \o t(k + 1) \in Seq(Characters)
                      /\ Leads(n, s \o dot \o t(k + 1), 0, 0, k + 1, o(k + 1))
    OBVIOUS
  <2>1. k + 1 \in 0 .. 3
    OBVIOUS
  <2>2. t(k + 1) \in Seq(Characters) /\ Leads(n, t(k + 1), k + 1, 0, k + 1, o(k + 1))
    BY <1>2, <2>1
  <2>3. Leads(n, dot, k, o(k), k + 1, 0)
    BY <1>3
  <2> HIDE DEF o, t, dot
  <2>4. s \o dot \in Seq(Characters) /\ Leads(n, s \o dot, 0, 0, k + 1, 0)
    BY <1>4, <2>3, LeadsOn, Sequence!ConcatProperties
  <2> QED BY <2>2, <2>4, LeadsOn, Sequence!ConcatProperties
<1>6. NumToAddr(n) = t(0) \o dot \o t(1) \o dot \o t(2) \o dot \o t(3)
  <2>1. 3 - 0 = 3 /\ 3 - 1 = 2 /\ 3 - 2 = 1 /\ 3 - 3 = 0
    OBVIOUS
  <2> QED BY <2>1, Zenon DEF NumToAddr
<1>7. OctetOf(n, 0) = o(3)
  <2>1. 3 - 3 = 0
    OBVIOUS
  <2> QED BY <2>1, Zenon
<1> HIDE DEF o, t, dot
<1>8. /\ 0 \in 0 .. 3 /\ 0 \in 0 .. 2 /\ 1 \in 0 .. 2 /\ 2 \in 0 .. 2
      /\ 0 + 1 = 1 /\ 1 + 1 = 2 /\ 2 + 1 = 3
  OBVIOUS
<1>9. t(0) \in Seq(Characters) /\ Leads(n, t(0), 0, 0, 0, o(0))
  BY <1>2, <1>8
<1>10. /\ t(0) \o dot \o t(1) \in Seq(Characters)
       /\ Leads(n, t(0) \o dot \o t(1), 0, 0, 1, o(1))
  BY <1>5, <1>8, <1>9
<1>11. /\ t(0) \o dot \o t(1) \o dot \o t(2) \in Seq(Characters)
       /\ Leads(n, t(0) \o dot \o t(1) \o dot \o t(2), 0, 0, 2, o(2))
  BY <1>5, <1>8, <1>10
<1>12. /\ t(0) \o dot \o t(1) \o dot \o t(2) \o dot \o t(3) \in Seq(Characters)
       /\ Leads(n, t(0) \o dot \o t(1) \o dot \o t(2) \o dot \o t(3), 0, 0, 3, o(3))
  BY <1>5, <1>8, <1>11
<1> QED BY <1>6, <1>7, <1>12

-----------------------------------------------------------------------------
(* Texts *)

\* The number that the fields before the one being read stand for.
Before ==
    /\ Len(fields) = 0 => ipnum = 0
    /\ Len(fields) = 1 => ipnum = fields[1]
    /\ Len(fields) = 2 => ipnum = fields[1] * Octet + fields[2]
    /\ Len(fields) = 3 => ipnum = (fields[1] * Octet + fields[2]) * Octet + fields[3]

\* As long as nothing wrapped around, octet is the field, the fields before it
\* are octets, i counts them, and ipnum is the number they stand for.
Reading ==
    ~wrapped =>
        /\ octet = field
        /\ i = 3 - Len(fields)
        /\ \A k \in 1 .. Len(fields) : fields[k] < Octet
        /\ Before

AddrInv == AddrTypeOK /\ Reading /\ ReadsQuads

\* Nothing has been read at the start.
LEMMA AddrInitially == AddrInit => AddrInv
<1> SUFFICES ASSUME AddrInit PROVE AddrInv
  OBVIOUS
<1> USE DEF AddrInit
<1>1. Len(fields) = 0 /\ fields \in Seq(Nat) /\ 0 \in 0 .. Word - 1
  OBVIOUS
<1>2. AddrTypeOK
  <2>1. pc \in {"idle", "reading"} \cup Ends
    OBVIOUS
  <2>2. octet \in 0 .. Word - 1 /\ ipnum \in Nat /\ i \in Int /\ i <= 3
    BY <1>1
  <2>3. value \in Nat
    OBVIOUS
  <2>4. source \in Nat \cup {Typed}
    OBVIOUS
  <2>5. field \in Nat /\ fields \in Seq(Nat)
    BY <1>1
  <2>6. wrapped \in BOOLEAN
    OBVIOUS
  <2> QED BY <2>1, <2>2, <2>3, <2>4, <2>5, <2>6 DEF AddrTypeOK
<1>3. Reading
  BY <1>1 DEF Reading, Before
<1>4. ReadsQuads
  BY DEF ReadsQuads, Ends
<1> QED BY <1>2, <1>3, <1>4 DEF AddrInv

\* A field that ends.
LEMMA DotKeeps ==
    ASSUME AddrInv, ReadDot
    PROVE  AddrInv'
<1> USE DEF AddrInv
<1>1. ASSUME octet >= Octet, Reject("rejected")
      PROVE  AddrInv'
  <2>1. AddrTypeOK'
    BY <1>1 DEF AddrTypeOK, Reject, ReadDot, Comes, Ends
  <2>2. Reading'
    BY <1>1 DEF Reading, Before, Reject
  <2>3. ReadsQuads'
    BY <1>1, <2>2 DEF ReadsQuads, Quad, Reject, Reading, AddrTypeOK
  <2> QED BY <2>1, <2>2, <2>3
<1>2. ASSUME octet < Octet, EndOfField, octet' = 0
      PROVE  AddrInv'
  <2>1. pc = "reading" /\ UNCHANGED source
    BY DEF ReadDot, Comes
  <2>2. AddrTypeOK'
    BY <1>2, <2>1 DEF AddrTypeOK, EndOfField, Ends
  <2>3. /\ Len(fields') = Len(fields) + 1
        /\ fields'[Len(fields) + 1] = field
        /\ \A k \in 1 .. Len(fields) : fields'[k] = fields[k]
        /\ Len(fields) \in Nat
    BY <1>2 DEF AddrTypeOK, EndOfField
  <2>4. Reading'
    <3> SUFFICES ASSUME ~wrapped PROVE Reading'
      BY <1>2 DEF Reading, EndOfField
    <3>1. octet' = field' /\ i' = 3 - Len(fields')
      BY <1>2, <2>3 DEF Reading, EndOfField, AddrTypeOK
    <3>2. \A k \in 1 .. Len(fields') : fields'[k] < Octet
      BY <1>2, <2>3 DEF Reading, AddrTypeOK
    <3>3. ipnum' = ipnum * Octet + field
      BY <1>2 DEF Reading, EndOfField
    <3>4. Before'
      <4>1. CASE Len(fields) = 0
        BY <4>1, <2>3, <3>3 DEF Reading, Before, AddrTypeOK
      <4>2. CASE Len(fields) = 1
        BY <4>2, <2>3, <3>3 DEF Reading, Before, AddrTypeOK
      <4>3. CASE Len(fields) = 2
        BY <4>3, <2>3, <3>3 DEF Reading, Before, AddrTypeOK
      <4>4. CASE Len(fields) > 2
        BY <4>4, <1>2, <2>3 DEF Before, EndOfField, Reading, AddrTypeOK
      <4>5. Len(fields) = 0 \/ Len(fields) = 1 \/ Len(fields) = 2 \/ Len(fields) > 2
        <5>1. Len(fields) \in Nat
          BY DEF AddrTypeOK
        <5>2. \A n \in Nat : n = 0 \/ n = 1 \/ n = 2 \/ n > 2
          OBVIOUS
        <5> QED BY <5>1, <5>2
      <4> QED BY <4>1, <4>2, <4>3, <4>4, <4>5
    <3> QED BY <3>1, <3>2, <3>4 DEF Reading
  <2>5. ReadsQuads'
    BY <1>2, <2>1 DEF ReadsQuads, EndOfField, Ends
  <2> QED BY <2>2, <2>4, <2>5
<1> QED
  BY <1>1, <1>2 DEF ReadDot

\* A digit; the field only wraps when it no longer fits.
LEMMA DigitKeeps ==
    ASSUME AddrInv, NEW d \in 0 .. Base - 1, ReadDigit(d)
    PROVE  AddrInv'
<1> USE DEF AddrInv
<1>1. /\ pc = "reading" /\ pc' = pc
      /\ UNCHANGED <<source, ipnum, i, value, fields>>
      /\ octet' = (Base * octet + d) % Word
      /\ field' = Base * field + d
      /\ wrapped' = (wrapped \/ field' >= Word)
  BY DEF ReadDigit, Comes
<1>2. Base * octet + d \in Nat /\ Base * field + d \in Nat /\ Word \in Nat \ {0}
  BY DEF AddrTypeOK
<1>3. AddrTypeOK'
  BY <1>1, <1>2 DEF AddrTypeOK
<1>4. Reading'
  <2> SUFFICES ASSUME ~wrapped' PROVE Reading'
    BY DEF Reading
  <2>0. ~wrapped /\ ~(field' >= Word)
    BY <1>1, Zenon
  <2>1. octet = field /\ Base * field + d \in 0 .. Word - 1
    BY <1>1, <1>2, <2>0 DEF Reading
  <2>2. octet' = field'
    BY <1>1, <1>2, <2>1, SmallModulo
  <2> QED BY <1>1, <2>2 DEF Reading, Before
<1>5. ReadsQuads'
  BY <1>1 DEF ReadsQuads, Ends
<1> QED BY <1>3, <1>4, <1>5

\* The end of the text.
LEMMA EndKeeps ==
    ASSUME AddrInv, ReadEnd
    PROVE  AddrInv'
<1> USE DEF AddrInv
<1>1. UNCHANGED <<octet, ipnum, i, source, rest, field, fields, wrapped>>
  BY DEF ReadEnd
<1>2. Reading'
  BY <1>1 DEF Reading, Before
<1>3. CASE (octet >= Octet \/ i # 0) /\ pc' = "rejected" /\ value' = 0
  <2>1. AddrTypeOK'
    BY <1>1, <1>3 DEF AddrTypeOK, Ends
  <2>2. ReadsQuads'
    BY <1>1, <1>3 DEF ReadsQuads, Quad, Reading, AddrTypeOK
  <2> QED BY <1>2, <2>1, <2>2
<1>4. CASE octet < Octet /\ i = 0 /\ pc' = "accepted" /\ value' = ipnum * Octet + octet
  <2>1. AddrTypeOK'
    BY <1>1, <1>4 DEF AddrTypeOK, Ends
  <2>2. ASSUME ~wrapped PROVE Quad /\ value' = Value
    <3>1. Len(fields) = 3 /\ octet = field
      BY <1>4, <2>2 DEF Reading, AddrTypeOK
    <3> QED BY <1>4, <2>2, <3>1 DEF Reading, Before, Quad, Value, Number
  <2>3. ReadsQuads'
    BY <1>1, <1>4, <2>2 DEF ReadsQuads, Quad, Value, Number
  <2> QED BY <1>2, <2>1, <2>3
<1> QED BY <1>3, <1>4 DEF ReadEnd

\* Every character keeps the invariant.
LEMMA AddrNextKeeps ==
    ASSUME AddrInv, AddrNext
    PROVE  AddrInv'
<1>1. CASE ReadOther
  BY <1>1 DEF AddrInv, ReadOther, Reject, AddrTypeOK, Reading, Before, ReadsQuads, Ends
<1> QED
  BY <1>1, DotKeeps, DigitKeeps, EndKeeps DEF AddrNext

\* A text is begun, or what was read is forgotten.
LEMMA ResetKeeps ==
    ASSUME pc' \in {"idle", "reading"}, source' \in Nat \cup {Typed},
           octet' = 0, ipnum' = 0, i' = 3, value' = 0, field' = 0,
           fields' = <<>>, wrapped' = FALSE
    PROVE  AddrInv'
<1>1. Len(fields') = 0 /\ fields' \in Seq(Nat) /\ 0 \in 0 .. Word - 1
  OBVIOUS
<1>2. AddrTypeOK'
  <2>1. pc' \in {"idle", "reading"} \cup Ends
    OBVIOUS
  <2>2. octet' \in 0 .. Word - 1 /\ ipnum' \in Nat /\ i' \in Int /\ i' <= 3
    BY <1>1
  <2>3. value' \in Nat /\ source' \in Nat \cup {Typed}
    OBVIOUS
  <2>4. field' \in Nat /\ fields' \in Seq(Nat)
    BY <1>1
  <2>5. wrapped' \in BOOLEAN
    OBVIOUS
  <2> QED BY <2>1, <2>2, <2>3, <2>4, <2>5 DEF AddrTypeOK
<1>3. Reading'
  BY <1>1 DEF Reading, Before
<1>4. ReadsQuads'
  BY DEF ReadsQuads, Ends
<1> QED BY <1>2, <1>3, <1>4 DEF AddrInv

\* So does the beginning of a text.
LEMMA ReadKeeps ==
    ASSUME NEW n \in Nat \cup {Typed}, Read(n)
    PROVE  AddrInv'
BY ResetKeeps DEF Read

\* Of the text of a number nothing is rejected: what has been read are its first
\* octets, and the rest of the text leads through the others.
Returning ==
    source # Typed =>
        /\ pc = "reading" =>
              /\ ~wrapped /\ rest \in Seq(Characters)
              /\ \A k \in 1 .. Len(fields) : fields[k] = OctetOf(source, 4 - k)
              /\ Leads(source, rest, Len(fields), field, 3, OctetOf(source, 0))
        /\ RoundTrip

LEMMA ReadReturns ==
    ASSUME NEW n \in Nat \cup {Typed}, Read(n)
    PROVE  Returning'
<1> SUFFICES ASSUME n # Typed PROVE Returning'
  BY DEF Read, Returning
<1>1. /\ n \in Nat /\ source' = n /\ rest' = NumToAddr(n) /\ pc' = "reading"
      /\ field' = 0 /\ fields' = <<>> /\ wrapped' = FALSE
  BY DEF Read
<1>2. Len(fields') = 0 /\ 1 .. 0 = {}
  BY <1>1
<1>3. RoundTrip'
  BY <1>1 DEF RoundTrip, Ends
<1> QED BY <1>1, <1>2, <1>3, AddrLeads DEF Returning

\* A dot of such a text ends the octet.
LEMMA DotReturns ==
    ASSUME AddrInv, Returning, ReadDot
    PROVE  Returning'
<1>1. pc = "reading" /\ UNCHANGED source
  BY DEF ReadDot, Comes
<1> SUFFICES ASSUME source # Typed PROVE Returning'
  BY <1>1 DEF Returning
<1>2. /\ source \in Nat /\ fields \in Seq(Nat) /\ field \in Nat /\ octet = field
      /\ ~wrapped /\ rest \in Seq(Characters)
      /\ \A k \in 1 .. Len(fields) : fields[k] = OctetOf(source, 4 - k)
      /\ Leads(source, rest, Len(fields), field, 3, OctetOf(source, 0))
  BY <1>1 DEF Returning, AddrInv, AddrTypeOK, Reading
<1>3. rest # <<>> /\ Head(rest) = Dot /\ rest' = Tail(rest)
  BY DEF ReadDot, Comes
<1>4. PICK a2, v2 \in Nat :
          /\ Turn(source, Len(fields), field, Dot, a2, v2)
          /\ rest' \in Seq(Characters)
          /\ Leads(source, rest', a2, v2, 3, OctetOf(source, 0))
  BY <1>2, <1>3, LeadsFirst
<1>5. /\ Len(fields) \in 0 .. 2 /\ field = OctetOf(source, 3 - Len(fields))
      /\ a2 = Len(fields) + 1 /\ v2 = 0
  BY <1>4 DEF Turn, Dot
<1>6. 3 - Len(fields) \in 0 .. 3
  <2>1. \A k \in 0 .. 2 : 3 - k \in 0 .. 3
    OBVIOUS
  <2> QED BY <1>5, <2>1, Zenon
<1>7. octet < Octet /\ ~ (octet >= Octet)
  <2>1. field < Octet
    BY <1>2, <1>5, <1>6, OctetType
  <2> QED BY <1>2, <2>1
<1>8. EndOfField
  BY <1>7 DEF ReadDot
<1>9. /\ fields' = Append(fields, field) /\ field' = 0 /\ pc' = "reading" /\ ~wrapped'
  BY <1>1, <1>2, <1>8 DEF EndOfField
<1>10. /\ Len(fields') = Len(fields) + 1 /\ fields'[Len(fields) + 1] = field
       /\ \A k \in 1 .. Len(fields) : fields'[k] = fields[k]
  BY <1>2, <1>9
<1>11. ASSUME NEW k \in 1 .. Len(fields') PROVE fields'[k] = OctetOf(source, 4 - k)
  <2>1. CASE k \in 1 .. Len(fields)
    BY <1>2, <1>10, <2>1
  <2>2. CASE k = Len(fields) + 1
    <3>1. 4 - k = 3 - Len(fields)
      BY <1>5, <2>2
    <3> QED BY <1>5, <1>10, <2>2, <3>1
  <2> QED BY <1>5, <1>10, <2>1, <2>2
<1>12. RoundTrip'
  BY <1>9 DEF RoundTrip, Ends
<1> QED BY <1>1, <1>4, <1>5, <1>9, <1>10, <1>11, <1>12 DEF Returning

\* A digit of such a text does not wrap.
LEMMA DigitReturns ==
    ASSUME AddrInv, Returning, NEW d \in 0 .. Base - 1, ReadDigit(d)
    PROVE  Returning'
<1>1. pc = "reading" /\ UNCHANGED <<source, pc, fields>>
  BY DEF ReadDigit, Comes
<1> SUFFICES ASSUME source # Typed PROVE Returning'
  BY <1>1 DEF Returning
<1>2. /\ source \in Nat /\ fields \in Seq(Nat) /\ field \in Nat
      /\ ~wrapped /\ rest \in Seq(Characters)
      /\ \A k \in 1 .. Len(fields) : fields[k] = OctetOf(source, 4 - k)
      /\ Leads(source, rest, Len(fields), field, 3, OctetOf(source, 0))
  BY <1>1 DEF Returning, AddrInv, AddrTypeOK
<1>3. rest # <<>> /\ Head(rest) = d /\ rest' = Tail(rest)
  BY DEF ReadDigit, Comes
<1>4. PICK a2, v2 \in Nat :
          /\ Turn(source, Len(fields), field, d, a2, v2)
          /\ rest' \in Seq(Characters)
          /\ Leads(source, rest', a2, v2, 3, OctetOf(source, 0))
  BY <1>2, <1>3, LeadsFirst
<1>5. /\ Len(fields) \in 0 .. 3 /\ a2 = Len(fields)
      /\ v2 = Base * field + d /\ v2 <= OctetOf(source, 3 - Len(fields))
  <2>1. d # Dot
    BY DEF Dot
  <2> QED BY <1>4, <2>1 DEF Turn
<1>6. 3 - Len(fields) \in 0 .. 3
  <2>1. \A k \in 0 .. 3 : 3 - k \in 0 .. 3
    OBVIOUS
  <2> QED BY <1>5, <2>1, Zenon
<1>7. OctetOf(source, 3 - Len(fields)) \in Nat /\ OctetOf(source, 3 - Len(fields)) < Octet
  BY <1>2, <1>6, OctetType
<1>8. field' = v2 /\ ~ (v2 >= Word)
  <2>1. field' = v2
    BY <1>5 DEF ReadDigit
  <2> QED BY <1>5, <1>7, <2>1
<1>9. ~wrapped'
  BY <1>2, <1>8, Zenon DEF ReadDigit
<1>10. RoundTrip'
  BY <1>1 DEF RoundTrip, Ends
<1> QED BY <1>1, <1>2, <1>4, <1>5, <1>8, <1>9, <1>10 DEF Returning

\* At the end of such a text its four octets have been read.
LEMMA EndReturns ==
    ASSUME AddrInv, AddrInv', Returning, ReadEnd
    PROVE  Returning'
<1>1. pc = "reading" /\ UNCHANGED <<octet, i, source, field, fields, wrapped>>
  BY DEF ReadEnd
<1> SUFFICES ASSUME source # Typed PROVE Returning'
  BY <1>1 DEF Returning
<1>2. /\ source \in Nat /\ fields \in Seq(Nat) /\ octet = field /\ ~wrapped
      /\ i = 3 - Len(fields)
      /\ \A k \in 1 .. Len(fields) : fields[k] = OctetOf(source, 4 - k)
      /\ Leads(source, rest, Len(fields), field, 3, OctetOf(source, 0))
  BY <1>1 DEF Returning, AddrInv, AddrTypeOK, Reading
<1>3. rest = <<>>
  BY DEF ReadEnd
<1>4. Len(fields) = 3 /\ field = OctetOf(source, 0)
  BY <1>2, <1>3, NothingLeads
<1>5. octet < Octet /\ i = 0
  <2>1. 0 \in 0 .. 3 /\ 3 - 3 = 0
    OBVIOUS
  <2> QED BY <1>2, <1>4, <2>1, OctetType
<1>6. pc' = "accepted"
  <2>1. octet \in Nat /\ Octet \in Nat
    BY DEF AddrInv, AddrTypeOK
  <2> QED BY <1>5, <2>1 DEF ReadEnd
<1>7. value' = Value'
  BY <1>1, <1>2, <1>6 DEF AddrInv, ReadsQuads
<1>8. /\ fields[1] = OctetOf(source, 3) /\ fields[2] = OctetOf(source, 2)
      /\ fields[3] = OctetOf(source, 1)
  <2>1. /\ 1 \in 1 .. 3 /\ 2 \in 1 .. 3 /\ 3 \in 1 .. 3
        /\ 4 - 1 = 3 /\ 4 - 2 = 2 /\ 4 - 3 = 1
    OBVIOUS
  <2> QED BY <1>2, <1>4, <2>1
<1>9. Value' = Number(OctetOf(source, 3), OctetOf(source, 2),
                      OctetOf(source, 1), OctetOf(source, 0))
  BY <1>1, <1>4, <1>8, Zenon DEF Value
<1>10. value' = source % (Octet * Octet * Octet * Octet)
  BY <1>2, <1>7, <1>9, FourOctets
<1> QED BY <1>1, <1>6, <1>10 DEF Returning, RoundTrip

\* Every character of such a text is read.
LEMMA AddrNextReturns ==
    ASSUME AddrInv, AddrInv', Returning, AddrNext
    PROVE  Returning'
<1>1. CASE ReadOther
  BY <1>1 DEF ReadOther, Returning, RoundTrip
<1> QED
  BY <1>1, DotReturns, DigitReturns, EndReturns DEF AddrNext

-----------------------------------------------------------------------------
(* Countries and regions *)

USE AnswersConstants DEF AnswersConstants

\* Two letters fit a table of Letters times Letters, and come out of it again.
LEMMA LettersOfState ==
    ASSUME NEW a \in Letter, NEW b \in Letter
    PROVE  /\ a * Letters + b \in 0 .. Letters * Letters - 1
           /\ State(a * Letters + b) = <<a, b>>
<1>1. /\ a \in Nat /\ a <= Letters - 1
      /\ b \in Nat /\ b <= Letters - 1
      /\ Letters \in Nat \ {0}
  BY DEF Letter
<1>2. a * Letters <= (Letters - 1) * Letters
  BY <1>1
<1>3. (Letters - 1) * Letters = Letters * Letters - Letters
  BY <1>1
<1>4. a * Letters \in Nat /\ Letters * Letters \in Nat
  BY <1>1
<1>5. b \in 0 .. Letters - 1 /\ a \in Int
  BY <1>1
<1> QED
  BY <1>1, <1>2, <1>3, <1>4, <1>5, OneQuotient DEF State

\* The offsets of the tables are numbers in this order.
LEMMA Offsets ==
    /\ USOffset \in Nat /\ CanadaOffset \in Nat /\ WorldOffset \in Nat
    /\ USOffset = 1
    /\ CanadaOffset = USOffset + Letters * Letters
    /\ WorldOffset = CanadaOffset + Letters * Letters
    /\ Letters * Letters \in Nat
BY DEF USOffset, CanadaOffset, WorldOffset

\* The earlier edition is decoded as it is written.
LEMMA Rev0Decodes ==
    ASSUME NEW n \in Nat, NEW m, WritesRev0(n, m)
    PROVE  RegionRev0(n) = m
<1>1. ASSUME NEW c \in 0 .. Countries - 1, n = c, m = In(c, <<>>)
      PROVE  RegionRev0(n) = m
  BY <1>1 DEF RegionRev0, World
<1>2. ASSUME NEW a \in Letter, NEW b \in Letter, n = States + a * Letters + b,
             m = In(US, <<a, b>>)
      PROVE  RegionRev0(n) = m
  <2>1. a * Letters + b \in Nat /\ State(a * Letters + b) = <<a, b>>
    BY LettersOfState
  <2>2. a \in Nat /\ b \in Nat /\ a * Letters \in Nat
    BY DEF Letter
  <2>3. n >= States /\ n - States = a * Letters + b
    BY <1>2, <2>1, <2>2
  <2> QED BY <1>2, <2>1, <2>3 DEF RegionRev0
<1> QED
  BY <1>1, <1>2 DEF WritesRev0

\* So is the later one, with its two tables of states and its countries.
LEMMA Rev1Decodes ==
    ASSUME NEW n \in Nat, NEW m, WritesRev1(n, m)
    PROVE  RegionRev1(n) = m
<1> USE Offsets
<1>1. CASE n = 0 /\ m = In(0, <<>>)
  BY <1>1 DEF RegionRev1, NoRegion
<1>2. ASSUME NEW a \in Letter, NEW b \in Letter, n = USOffset + a * Letters + b,
             m = In(US, <<a, b>>)
      PROVE  RegionRev1(n) = m
  <2>1. a * Letters + b \in 0 .. Letters * Letters - 1
    BY LettersOfState
  <2>2. a \in Nat /\ b \in Nat /\ a * Letters \in Nat
    BY DEF Letter
  <2>3. n >= USOffset /\ n < CanadaOffset /\ n - USOffset = a * Letters + b
    BY <1>2, <2>1, <2>2
  <2> QED BY <1>2, <2>3, LettersOfState DEF RegionRev1
<1>3. ASSUME NEW a \in Letter, NEW b \in Letter, n = CanadaOffset + a * Letters + b,
             m = In(CA, <<a, b>>)
      PROVE  RegionRev1(n) = m
  <2>1. a * Letters + b \in 0 .. Letters * Letters - 1
    BY LettersOfState
  <2>2. a \in Nat /\ b \in Nat /\ a * Letters \in Nat
    BY DEF Letter
  <2>3. n >= CanadaOffset /\ n < WorldOffset /\ n - CanadaOffset = a * Letters + b
    BY <1>3, <2>1, <2>2
  <2> QED BY <1>3, <2>3, LettersOfState DEF RegionRev1
<1>4. ASSUME NEW c \in 1 .. Countries - 1, NEW k \in 0 .. Range - 1,
             n = WorldOffset + c * Range + k, m = In(c, <<>>)
      PROVE  RegionRev1(n) = m
  <2>1. c * Range \in Nat /\ k \in Nat /\ c \in Int
    OBVIOUS
  <2>2. n >= WorldOffset /\ n - WorldOffset = c * Range + k
    BY <1>4, <2>1
  <2>3. (n - WorldOffset) \div Range = c
    BY <2>1, <2>2, OneQuotient
  <2> QED BY <1>4, <2>2, <2>3 DEF RegionRev1, World
<1> QED
  BY <1>1, <1>2, <1>3, <1>4 DEF WritesRev1

\* What a lost walk comes to: no country, as its number is behind them all.
LEMMA LostDecodes ==
    ASSUME NEW n \in Nat, n >= WorldOffset + Countries * Range
    PROVE  RegionRev1(n) = NoRegion
<1> USE Offsets
<1>1. Countries * Range \in Nat /\ n >= WorldOffset
  OBVIOUS
<1> DEFINE q == (n - WorldOffset) \div Range
           r == (n - WorldOffset) % Range
<1>2. q \in Int /\ r \in 0 .. Range - 1 /\ n - WorldOffset = q * Range + r
  BY <1>1
<1> HIDE DEF q, r
<1>3. q >= Countries
  <2> SUFFICES ASSUME q + 1 <= Countries PROVE FALSE
    BY <1>2
  <2>1. (q + 1) * Range <= Countries * Range
    BY <1>2
  <2>2. (q + 1) * Range = q * Range + Range
    BY <1>2
  <2> QED BY <2>1, <2>2, <1>1, <1>2
<1>4. RegionRev1(n) = World(q)
  BY <1>1 DEF RegionRev1, q
<1> QED BY <1>3, <1>2, <1>4 DEF World, NoRegion

-----------------------------------------------------------------------------
(* The calls *)

\* The type of an answer, by the kind of call.
AnswerTyped ==
    answer = Null \/ (IF asked.op = "country" THEN answer \in 1 .. Countries - 1
                       ELSE answer.country \in 0 .. Countries - 1)

\* Texts are read right, and what is answered is what was written.
AnswersInv ==
    /\ AddrInv
    /\ AnswerTyped
    /\ file \in File
    /\ asked.ip \in Nat \cup {NoIp}
    /\ CountryAsWritten
    /\ RegionAsWritten

\* An address has its place in a database, written by the author or lost.
LEMMA Places ==
    ASSUME NEW f \in File, NEW ip \in Nat
    PROVE  /\ ip % f.period \in 0 .. f.period - 1
           /\ \/ Seek(f, ip) = 0 /\ f.means[ip % f.period] = Lost
              \/ /\ f.means[ip % f.period] # Lost
                 /\ \E n \in 0 .. Unsigned - 1 :
                      Seek(f, ip) = f.begin + n /\ Writes(f, n, f.means[ip % f.period])
<1>1. f.period \in Nat \ {0}
  OBVIOUS
<1>2. ip % f.period \in 0 .. f.period - 1
  BY <1>1
<1> QED BY <1>2 DEF Seek

\* Whatever a walk returns, no answer is outside the tables.
LEMMA LookupTyped ==
    ASSUME AnswersInv, NEW op \in {"country", "region"}, NEW ip \in Nat, Lookup(op, ip)
    PROVE  AnswerTyped'
<1> PICK f \in File :
          /\ IF op = "region" THEN Region(f, ip) ELSE Country(f, ip)
          /\ asked' = [op |-> op, ip |-> ip, switched |-> f.begin # file.begin]
  BY DEF Lookup
<1>1. Seek(f, ip) \in Int /\ f.begin \in Int /\ file.begin \in Int /\ file \in File
  BY Places DEF AnswersInv
<1>2. CASE op = "country"
  <2> PICK begin \in {file.begin, f.begin} : answer' = CodeById(Seek(f, ip) - begin)
    BY <1>2 DEF Country
  <2> QED BY <1>1, <1>2 DEF CodeById, AnswerTyped
<1>3. CASE op = "region"
  <2> DEFINE seek == (Seek(f, ip) - f.begin) % Unsigned
  <2>1. Unsigned \in Nat \ {0}
    <3>1. Countries * Range \in Nat /\ WorldOffset > 0
      BY Offsets
    <3> QED BY <3>1, Offsets
  <2>2. seek \in Nat
    BY <1>1, <2>1
  <2> HIDE DEF seek
  <2>3. \A id \in Int : id >= 0 => World(id).country \in 0 .. Countries - 1
    BY DEF World, In
  <2>4. RegionRev0(seek).country \in 0 .. Countries - 1
    BY <2>2, <2>3 DEF RegionRev0, In
  <2>5. seek >= WorldOffset =>
           (seek - WorldOffset) \div Range \in Int /\ (seek - WorldOffset) \div Range >= 0
    BY <2>2, Offsets
  <2>6. RegionRev1(seek).country \in 0 .. Countries - 1
    BY <2>2, <2>3, <2>5, Offsets DEF RegionRev1, NoRegion, In
  <2>7. answer' = IF f.edition = "region0" THEN RegionRev0(seek) ELSE RegionRev1(seek)
    BY <1>3 DEF Region, seek
  <2> QED BY <1>3, <2>4, <2>6, <2>7 DEF AnswerTyped
<1> QED BY <1>2, <1>3

\* A lookup answers with what is written in the database it loads.
LEMMA LookupAnswers ==
    ASSUME AnswersInv, NEW op \in {"country", "region"}, NEW ip \in Nat, Lookup(op, ip),
           Serves(op)
    PROVE  /\ file' \in File /\ asked'.ip \in Nat
           /\ CountryAsWritten' /\ RegionAsWritten' /\ AnswerTyped'
<1> PICK f \in File :
          /\ IsRegion(f) = IsRegion(file)
          /\ IF op = "region" THEN Region(f, ip) ELSE Country(f, ip)
          /\ asked' = [op |-> op, ip |-> ip, switched |-> f.begin # file.begin]
          /\ file' = f
  BY DEF Lookup
<1>0. AnswerTyped'
  BY LookupTyped
<1> DEFINE m == f.means[ip % f.period]
<1>1. file' \in File /\ asked'.ip = ip /\ asked'.op = op /\ Means' = m
  BY DEF Means
<1>2. f.edition \in {"country", "region0", "region1"} /\ f.begin \in Nat \ {0}
      /\ Unsigned - f.begin >= WorldOffset + Countries * Range
  OBVIOUS
<1>3. /\ WorldOffset + Countries * Range \in Nat
      /\ WorldOffset + Countries * Range > 0
      /\ Unsigned \in Nat \ {0} /\ f.begin \in 1 .. Unsigned
  <2>1. Countries * Range \in Nat /\ WorldOffset > 0
    BY Offsets
  <2> QED BY <2>1, <1>2, Offsets
<1>4. CASE op = "country"
  <2>1. f.edition = "country" /\ file \in File
    BY <1>2, <1>4 DEF Serves, IsRegion, AnswersInv
  <2>2. ASSUME ~asked'.switched
        PROVE  answer' = IF m \in {0, Lost} THEN Null ELSE m
    <3>1. answer' = CodeById(Seek(f, ip) - f.begin)
      BY <1>4, <2>2 DEF Country
    <3>2. CASE Seek(f, ip) = 0 /\ m = Lost
      BY <3>1, <3>2, <1>2 DEF CodeById
    <3>3. CASE m # Lost /\ \E n \in 0 .. Unsigned - 1 :
                   Seek(f, ip) = f.begin + n /\ Writes(f, n, m)
      <4>1. m \in 0 .. Countries - 1 /\ Seek(f, ip) - f.begin = m
        BY <3>3, <2>1, <1>2 DEF Writes, WritesCountry
      <4> QED BY <3>1, <3>3, <4>1 DEF CodeById
    <3> QED BY <3>2, <3>3, Places
  <2> QED BY <1>0, <1>1, <1>4, <2>2 DEF CountryAsWritten, RegionAsWritten
<1>5. CASE op = "region"
  <2>1. f.edition \in {"region0", "region1"}
    BY <1>2, <1>5 DEF Serves, IsRegion
  <2> DEFINE seek == (Seek(f, ip) - f.begin) % Unsigned
  <2>2. answer' = IF f.edition = "region0" THEN RegionRev0(seek) ELSE RegionRev1(seek)
    BY <1>5 DEF Region
  <2>3. CASE Seek(f, ip) = 0 /\ m = Lost
    <3>1. seek = Unsigned - f.begin
      BY <2>3, <1>3, NegativeModulo
    <3>2. seek \in Nat /\ seek >= WorldOffset + Countries * Range
      BY <3>1, <1>2, <1>3
    <3>3. RegionRev1(seek) = NoRegion
      BY <3>2, LostDecodes
    <3> QED
      BY <1>0, <1>1, <1>5, <2>1, <2>2, <2>3, <3>3 DEF CountryAsWritten, RegionAsWritten
  <2>4. CASE m # Lost /\ \E n \in 0 .. Unsigned - 1 :
                 Seek(f, ip) = f.begin + n /\ Writes(f, n, m)
    <3> PICK n \in 0 .. Unsigned - 1 : Seek(f, ip) = f.begin + n /\ Writes(f, n, m)
      BY <2>4
    <3>1. Seek(f, ip) - f.begin = n
      BY <1>2
    <3>2. seek = n /\ n \in Nat
      BY <3>1, <1>3, SmallModulo
    <3>3. answer' = m
      <4>1. CASE f.edition = "region0"
        BY <4>1, <2>2, <3>2, Rev0Decodes DEF Writes
      <4>2. CASE f.edition = "region1"
        BY <4>2, <2>2, <3>2, Rev1Decodes DEF Writes
      <4> QED BY <4>1, <4>2, <2>1
    <3> QED BY <1>0, <1>1, <1>5, <2>4, <3>3 DEF CountryAsWritten, RegionAsWritten
  <2> QED BY <2>3, <2>4, Places
<1> QED BY <1>4, <1>5

\* A call that looks nothing up answers NULL.
LEMMA RefuseAnswers ==
    ASSUME AnswersInv, NEW op \in {"country", "region"}, Refuse(op)
    PROVE  /\ file' \in File /\ asked'.ip \in Nat \cup {NoIp}
           /\ CountryAsWritten' /\ RegionAsWritten' /\ AnswerTyped'
BY DEF Refuse, AnswersInv, CountryAsWritten, RegionAsWritten, AnswerTyped

\* Every step keeps the invariant.
LEMMA AnswersNext ==
    ASSUME AnswersInv, [Next]_vars
    PROVE  AnswersInv'
<1>1. CASE UNCHANGED vars
  BY <1>1 DEF AnswersInv, vars, addrVars, AddrInv, AddrTypeOK, Reading, Before,
              ReadsQuads, Quad, Value, Number, CountryAsWritten, RegionAsWritten,
              Means, AnswerTyped
<1>2. ASSUME NEW n \in Ips \cup {Typed}, ReadText(n)
      PROVE  AnswersInv'
  <2>1. AddrInv'
    BY <1>2, ReadKeeps DEF ReadText, AnswersInv
  <2> QED
    BY <1>2, <2>1 DEF ReadText, AnswersInv, NoCall, CountryAsWritten, RegionAsWritten,
                      AnswerTyped
<1>3. CASE ReadOn
  <2>1. AddrInv'
    BY <1>3, AddrNextKeeps DEF ReadOn, AnswersInv
  <2> QED
    BY <1>3, <2>1 DEF ReadOn, AnswersInv, CountryAsWritten, RegionAsWritten, Means,
                      AnswerTyped
<1>4. ASSUME NEW op \in {"country", "region"}, ByAddr(op)
      PROVE  AnswersInv'
  <2>1. value \in Nat
    BY DEF AnswersInv, AddrInv, AddrTypeOK
  <2>2. Refuse(op) \/ (Serves(op) /\ Lookup(op, value))
    BY <1>4 DEF ByAddr, Answer
  <2>3. /\ file' \in File /\ asked'.ip \in Nat \cup {NoIp}
        /\ CountryAsWritten' /\ RegionAsWritten' /\ AnswerTyped'
    BY <2>1, <2>2, LookupAnswers, RefuseAnswers
  <2>4. AddrInv'
    BY <1>4, ResetKeeps DEF ByAddr
  <2> QED BY <2>3, <2>4 DEF AnswersInv
<1>5. ASSUME NEW op \in {"country", "region"}, NEW ip \in Ips,
             NEW looks \in BOOLEAN, ByNumber(op, ip, looks)
      PROVE  AnswersInv'
  <2>1. ip \in Nat
    OBVIOUS
  <2>2. Refuse(op) \/ (Serves(op) /\ Lookup(op, ip))
    BY <1>5 DEF ByNumber, Answer
  <2>3. /\ file' \in File /\ asked'.ip \in Nat \cup {NoIp}
        /\ CountryAsWritten' /\ RegionAsWritten' /\ AnswerTyped'
    BY <2>1, <2>2, LookupAnswers, RefuseAnswers
  <2>4. UNCHANGED addrVars
    BY <1>5 DEF ByNumber
  <2>5. AddrInv'
    BY <2>4 DEF AnswersInv, addrVars, AddrInv, AddrTypeOK, Reading, Before,
                ReadsQuads, Quad, Value, Number
  <2> QED BY <2>3, <2>5 DEF AnswersInv
<1>6. CASE CountryByAddr
  BY <1>6, <1>4 DEF CountryByAddr
<1>7. CASE RegionByAddr
  BY <1>7, <1>4 DEF RegionByAddr
<1>8. ASSUME NEW ip \in Ips, CountryByIpnum(ip) \/ CountryByName(ip)
      PROVE  AnswersInv'
  BY <1>8, <1>5 DEF CountryByIpnum, CountryByName
<1>9. ASSUME NEW ip \in Ips, RegionByIpnum(ip) \/ RegionByName(ip)
      PROVE  AnswersInv'
  BY <1>9, <1>5 DEF RegionByIpnum, RegionByName
<1> QED
  BY <1>1, <1>2, <1>3, <1>6, <1>7, <1>8, <1>9 DEF Next

LEMMA AnswersInitially == Init => AnswersInv
BY AddrInitially DEF Init, AnswersInv, NoCall, NoIp, CountryAsWritten,
                     RegionAsWritten, AnswerTyped

\* What the properties below rest on.
THEOREM InvariantHolds == Spec => []AnswersInv
BY AnswersInitially, AnswersNext, PTL DEF Spec

\* The variables keep their types; no answer is outside the tables.
THEOREM TypeCorrect == Spec => []TypeOK
<1>1. AnswersInv => TypeOK
  BY DEF AnswersInv, AddrInv, TypeOK, AnswerTyped
<1> QED BY <1>1, InvariantHolds, PTL

\* GeoIP_addr_to_num accepts four fields of an octet and nothing else, and
\* returns the number they stand for; only a field that does not fit an
\* unsigned int can pass for another.
THEOREM AddressesAreRead == Spec => []ReadsQuads
<1>1. AnswersInv => ReadsQuads
  BY DEF AnswersInv, AddrInv
<1> QED BY <1>1, InvariantHolds, PTL

\* The country functions answer with the country written for the address.
THEOREM CountriesAreRight == Spec => []CountryAsWritten
<1>1. AnswersInv => CountryAsWritten
  BY DEF AnswersInv
<1> QED BY <1>1, InvariantHolds, PTL

\* The region functions answer with the region written for the address, in both
\* editions and whatever the numbers of countries and letters.
THEOREM RegionsAreRight == Spec => []RegionAsWritten
<1>1. AnswersInv => RegionAsWritten
  BY DEF AnswersInv
<1> QED BY <1>1, InvariantHolds, PTL

\* The text GeoIP_num_to_addr writes of any number is read back by
\* GeoIP_addr_to_num as the number, less what is beyond four octets.
THEOREM TextsAreReadBack == Spec => []RoundTrip
<1> DEFINE Inv == AnswersInv /\ Returning
<1>1. Init => Inv
  <2> SUFFICES ASSUME Init PROVE Inv
    OBVIOUS
  <2>1. Returning
    BY DEF Init, AddrInit, Returning, RoundTrip
  <2>2. AnswersInv
    BY AnswersInitially
  <2> QED BY <2>1, <2>2
<1>2. Inv /\ [Next]_vars => Inv'
  <2> SUFFICES ASSUME Inv, [Next]_vars PROVE Returning'
    BY AnswersNext
  <2>1. AddrInv /\ AddrInv'
    BY AnswersNext DEF AnswersInv
  <2>2. CASE UNCHANGED addrVars
    BY <2>2 DEF addrVars, Returning, RoundTrip
  <2>3. ASSUME NEW n \in Ips \cup {Typed}, ReadText(n) PROVE Returning'
    BY <2>3, ReadReturns DEF ReadText
  <2>4. CASE ReadOn
    BY <2>1, <2>4, AddrNextReturns DEF ReadOn
  <2>5. ASSUME NEW op, ByAddr(op) PROVE Returning'
    BY <2>5 DEF ByAddr, Returning, RoundTrip
  <2>6. CASE UNCHANGED vars
    BY <2>2, <2>6 DEF vars
  <2>7. ASSUME NEW ip \in Ips,
               \/ CountryByIpnum(ip) \/ RegionByIpnum(ip)
               \/ CountryByName(ip) \/ RegionByName(ip)
        PROVE  Returning'
    BY <2>2, <2>7 DEF CountryByIpnum, RegionByIpnum, CountryByName, RegionByName, ByNumber
  <2> QED
    BY <2>3, <2>4, <2>5, <2>6, <2>7 DEF Next, CountryByAddr, RegionByAddr
<1>3. Inv => RoundTrip
  BY DEF Returning, RoundTrip
<1> QED BY <1>1, <1>2, <1>3, PTL DEF Spec
=============================================================================
