------------------------------- MODULE AddrNum ------------------------------
(***************************************************************************)
(* Addresses as text: GeoIP_addr_to_num, one turn of its loop a step, and  *)
(* GeoIP_num_to_addr.  The programs under src/apps have copies of both.  A *)
(* text is read that somebody typed, one character after the other, or one *)
(* that GeoIP_num_to_addr wrote.                                           *)
(***************************************************************************)
EXTENDS Integers, Sequences

CONSTANTS Base,       \* 10: digits are 0 .. Base - 1
          Octet,      \* 256
          Word,       \* 2^32: an unsigned int is taken modulo Word
          MaxField,   \* bound: value of a field that is typed
          MaxDots     \* bound: dots that are typed

ASSUME AddrNumConstants ==
    /\ Base \in Nat \ {0, 1} /\ Octet \in Nat \ {0, 1}
    /\ Word \in Nat /\ Word > Octet
    /\ MaxField \in Nat /\ MaxDots \in Nat

Typed == -1     \* the text does not come from a number

VARIABLES pc,       \* "idle", "reading", and then one of Ends
          octet, ipnum, i,
          value,    \* what GeoIP_addr_to_num returns
          source,   \* the number whose text is read, or Typed
          rest,     \* the rest of that text
          field,    \* history: the field being read, as a number of any size
          fields,   \* history: those before it
          wrapped   \* history: a field exceeded an unsigned int

addrVars == <<pc, octet, ipnum, i, value, source, rest, field, fields, wrapped>>

\* "malformed": a character that is neither digit nor dot.
Ends == {"accepted", "rejected", "malformed"}

Dot == -1

-----------------------------------------------------------------------------
(* GeoIP_num_to_addr *)

\* What is left of n before each turn of the first loop, and the octet it takes.
Left(n) == << n, n \div Octet, (n \div Octet) \div Octet,
              ((n \div Octet) \div Octet) \div Octet >>

OctetOf(n, k) == Left(n)[k + 1] % Octet

\* sprintf of an octet
Digits(n) ==
    LET out[m \in 0 .. n] ==
            IF m < Base THEN <<m>> ELSE Append(out[m \div Base], m % Base)
    IN  out[n]

\* Mutant: the octets in the order in which they are taken from the number.
NumToAddrReversed(n) ==
    Digits(OctetOf(n, 0)) \o <<Dot>> \o Digits(OctetOf(n, 1)) \o <<Dot>> \o
    Digits(OctetOf(n, 2)) \o <<Dot>> \o Digits(OctetOf(n, 3))

NumToAddr(n) ==
    Digits(OctetOf(n, 3)) \o <<Dot>> \o Digits(OctetOf(n, 2)) \o <<Dot>> \o
    Digits(OctetOf(n, 1)) \o <<Dot>> \o Digits(OctetOf(n, 0))

-----------------------------------------------------------------------------
(* GeoIP_addr_to_num *)

AddrInit ==
    /\ pc = "idle"
    /\ octet = 0 /\ ipnum = 0 /\ i = 3 /\ value = 0
    /\ source = Typed /\ rest = <<>>
    /\ field = 0 /\ fields = <<>> /\ wrapped = FALSE

\* Reading starts: of the text of n, or of one that is typed.
Read(n) ==
    /\ pc # "reading"
    /\ pc' = "reading"
    /\ octet' = 0 /\ ipnum' = 0 /\ i' = 3 /\ value' = 0
    /\ source' = n /\ rest' = IF n = Typed THEN <<>> ELSE NumToAddr(n)
    /\ field' = 0 /\ fields' = <<>> /\ wrapped' = FALSE

\* The next character may be c.
Comes(c) ==
    /\ pc = "reading"
    /\ \/ source = Typed /\ UNCHANGED rest
       \/ source # Typed /\ rest # <<>> /\ c = Head(rest) /\ rest' = Tail(rest)
    /\ UNCHANGED source

Reject(as) == /\ pc' = as /\ value' = 0
              /\ UNCHANGED <<octet, ipnum, i, field, fields, wrapped>>

EndOfField ==
    /\ ipnum' = ipnum * Octet + octet
    /\ i' = i - 1
    /\ fields' = Append(fields, field) /\ field' = 0
    /\ UNCHANGED <<pc, value, wrapped>>

\* Mutant: the field is not checked.
ReadDotUnchecked ==
    /\ Comes(Dot) /\ Len(fields) < MaxDots
    /\ EndOfField /\ octet' = 0

\* ipnum is as wide as four octets at least; where it would overflow i is
\* negative, and the text rejected.
ReadDot ==
    /\ Comes(Dot) /\ Len(fields) < MaxDots
    /\ \/ octet >= Octet /\ Reject("rejected")
       \/ octet < Octet /\ EndOfField /\ octet' = 0

ReadDigit(d) ==
    /\ Comes(d)
    /\ source = Typed => Base * field + d <= MaxField
    /\ octet' = (Base * octet + d) % Word
    /\ field' = Base * field + d
    /\ wrapped' = (wrapped \/ field' >= Word)
    /\ UNCHANGED <<pc, ipnum, i, value, fields>>

\* Any other character; in what GeoIP_num_to_addr wrote there is none.
ReadOther == /\ pc = "reading" /\ source = Typed
             /\ Reject("malformed")
             /\ UNCHANGED <<source, rest>>

ReadEnd ==
    /\ pc = "reading"
    /\ source # Typed => rest = <<>>
    /\ \/ /\ octet >= Octet \/ i # 0
          /\ pc' = "rejected" /\ value' = 0
       \/ /\ octet < Octet /\ i = 0
          /\ pc' = "accepted" /\ value' = ipnum * Octet + octet
    /\ UNCHANGED <<octet, ipnum, i, source, rest, field, fields, wrapped>>

AddrNext == \/ ReadDot \/ ReadOther \/ ReadEnd
            \/ \E d \in 0 .. Base - 1 : ReadDigit(d)

-----------------------------------------------------------------------------
(* Properties *)

AddrTypeOK ==
    /\ pc \in {"idle", "reading"} \cup Ends
    /\ octet \in 0 .. Word - 1 /\ ipnum \in Nat /\ i \in Int /\ i <= 3
    /\ value \in Nat
    /\ source \in Nat \cup {Typed}
    /\ field \in Nat /\ fields \in Seq(Nat) /\ wrapped \in BOOLEAN

\* The number that four fields stand for.
Number(a, b, c, d) == ((a * Octet + b) * Octet + c) * Octet + d

\* The text read so far has four fields, of one octet each.
Quad == /\ Len(fields) = 3
        /\ \A k \in 1 .. 3 : fields[k] < Octet
        /\ field < Octet

Value == Number(fields[1], fields[2], fields[3], field)

\* GeoIP_addr_to_num accepts a text exactly when it is four fields of one octet
\* each, and then returns the number they stand for; of any other it makes 0.
\* Fields beyond an unsigned int, which wrap around, are the one exception.
ReadsQuads ==
    /\ (pc = "accepted" /\ ~wrapped) => Quad /\ value = Value
    /\ (pc = "rejected" /\ ~wrapped) => ~Quad
    /\ pc \in {"rejected", "malformed"} => value = 0

\* The text GeoIP_num_to_addr writes is read back as the number, modulo its
\* four octets.
RoundTrip ==
    (source # Typed /\ pc \in Ends) =>
        pc = "accepted" /\ value = source % (Octet * Octet * Octet * Octet)
=============================================================================
