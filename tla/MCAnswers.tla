----------------------------- MODULE MCAnswers ------------------------------
(***************************************************************************)
(* Small databases for Answers: an author's list of countries or regions,  *)
(* given to the addresses in turn, and the numbers he writes for them.     *)
(***************************************************************************)
EXTENDS Answers

\* The number of a country or region, without the first number of the edition.
CountryNumber(m) == m
Rev0Number(m) ==
    IF m.region = <<>> THEN m.country
    ELSE States + m.region[1] * Letters + m.region[2]
\* A country other than US and CA has Range numbers; the last one is written.
Rev1Number(m) ==
    IF m.region = <<>>
    THEN IF m.country = 0 THEN 0 ELSE WorldOffset + m.country * Range + Range - 1
    ELSE (IF m.country = US THEN USOffset ELSE CanadaOffset)
            + m.region[1] * Letters + m.region[2]

Database(edition, begin, list, number(_)) ==
    [edition |-> edition,
     begin   |-> begin,
     period  |-> Len(list),
     means   |-> [k \in 0 .. Len(list) - 1 |-> list[k + 1]],
     number  |-> [k \in 0 .. Len(list) - 1 |->
                    IF list[k + 1] = Lost THEN 0 ELSE begin + number(list[k + 1])]]

StatesOf(c) == <<In(c, <<0, 0>>), In(c, <<0, 1>>),
                 In(c, <<1, 0>>), In(c, <<1, 1>>)>>

MCFile ==
    { Database("country", 20, <<0, 1, Countries - 1, Lost>>, CountryNumber),
      Database("country", 18, <<1, 3, 0>>, CountryNumber),
      Database("region0", 20,
               StatesOf(US) \o <<In(0, <<>>), In(3, <<>>), Lost>>, Rev0Number),
      Database("region1", 16,
               StatesOf(US) \o StatesOf(CA)
                 \o <<In(0, <<>>), In(3, <<>>), Lost>>, Rev1Number) }
=============================================================================
