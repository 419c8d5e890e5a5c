----------------------------- MODULE MCRecords ------------------------------
(***************************************************************************)
(* Small databases for Records, written here by an author who lays records *)
(* out as the database format does: the tree, a byte 0, the records one    *)
(* after the other, the structure information.                             *)
(***************************************************************************)
EXTENDS Records

Place == <<0, 1, 0, 2, 0, 0>>

City(country, region, city, postal, metro) ==
    [country |-> country, region |-> region, city |-> city, postal |-> postal,
     position |-> Place, metro |-> metro]

\* The database with the given results, each written by bytes.
Written(edition, segments, recLen, results, bytes(_)) ==
    LET before(k) == FlattenSeq([i \in 1 .. k - 1 |-> bytes(results[i])])
        tree == [i \in 1 .. 2 * recLen * segments |-> 7]
    IN  [edition  |-> edition,
         segments |-> segments,
         recLen   |-> recLen,
         bytes    |-> tree \o <<0>> \o before(Len(results) + 1)
                        \o <<255, 255, 255, 2, segments, 0, 0>>,
         content  |-> [k \in DOMAIN results |->
                        results[k] @@ [at |-> segments + 1 + Len(before(k)),
                                       length |-> Len(bytes(results[k]))]]]

Cities == << City(1, <<>>, <<228>>, <<>>, <<>>),
             City(US, <<65>>, <<>>, <<57>>, <<3, 0, 1>>),
             City(2, <<66>>, <<90, 191>>, <<>>, <<>>) >>

Metroless(results) == [k \in DOMAIN results |-> [results[k] EXCEPT !.metro = <<>>]]

MCFile ==
    { Written("city1", 1, 3, Cities, CityBytes),
      Written("city0", 2, 3, Metroless(Tail(Cities)), CityBytes),
      Written("city1", 1, 3,
              <<City(3, <<65>>, <<66, 66, 66, 66, 66>>, <<>>, <<>>)>>, CityBytes),
      Written("name", 1, 4,
              <<[text |-> <<>>], [text |-> <<65, 200, 66>>],
                [text |-> <<65, 200, 66, 67, 68>>]>>, NameBytes),
      Written("name_v6", 1, 4,
              <<[text |-> <<176>>], [text |-> <<65, 66, 67, 200>>],
                [text |-> <<65, 200, 66, 67, 68>>]>>, NameBytes) }
=============================================================================
