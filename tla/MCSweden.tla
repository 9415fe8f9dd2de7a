------------------------------ MODULE MCSweden ------------------------------
(***************************************************************************)
(* Small countries for Sweden: two in which the outlines of counties come  *)
(* in all orders and many directions, and one with roads of all kinds.     *)
(***************************************************************************)
EXTENDS Sweden, TLC

P(x, y) == [x |-> x, y |-> y]
Way(id, role) == [type |-> "Way", id |-> id, role |-> role]
Label(letters, number) == [letters |-> letters, number |-> number, link |-> FALSE, readable |-> TRUE]
Link(letters, number) == [Label(letters, number) EXCEPT !.link = TRUE]
Unreadable == [Label("", 0) EXCEPT !.readable = FALSE]
Ref(way, ref) == [way |-> way, ref |-> ref]
Code(kind, code, relation) == [kind |-> kind, code |-> code, relation |-> relation]
Name(name, level, relation) == [name |-> name, level |-> level, relation |-> relation]

MCNormal == ("uppsala" :> 5) @@ ("uppsala kommun" :> 5) @@ ("knivsta" :> 3) @@ ("norge" :> 4)
            @@ ("ekeby" :> 1) @@ ("visby" :> 7)
MCPoints == {P(x, y) : x \in 1..15, y \in {1, 3, 5, 6, 7, 8, 11, 13}}

\* Two triangles apart from each other, or that touch in a point, and a
\* county with a dent.
TwoTriangles == (1 :> P(2, 2)) @@ (2 :> P(2, 12)) @@ (3 :> P(7, 7)) @@ (4 :> P(14, 2)) @@ (5 :> P(14, 12))
                @@ (6 :> P(9, 7)) @@ (7 :> P(4, 7)) @@ (8 :> P(8, 2))
Apart    == << <<1, 2>>, <<2, 3>>, <<3, 1>>, <<6, 4>>, <<4, 5>>, <<5, 6>> >>
Touching == << <<1, 2>>, <<2, 3>>, <<3, 1>>, <<3, 4>>, <<4, 5>>, <<5, 3>> >>
Dented   == << <<1, 2>>, <<2, 3, 5>>, <<5, 8>>, <<8, 1>> >>

Layout(ways, order, turned) ==
  [coord |-> TwoTriangles,
   ways |-> [w \in DOMAIN ways |-> IF w \in turned THEN Reverse(ways[w]) ELSE ways[w]]
            @@ (21 :> <<8, 7, 4>>) @@ (22 :> <<6, 8, 7>>),
   relations |-> (1 :> [i \in DOMAIN order |-> Way(order[i], "outer")]),
   codes |-> {Code("scb", 3, 1)}, refs |-> {Ref(21, <<Label("", 600), Label("", 601)>>), Ref(22, <<Label("", 600)>>)},
   regions |-> {}]
Orders(n) == SetToSeqs(1..n)
Layouts ==
  {Layout(Dented, order, turned) : order \in Orders(4), turned \in SUBSET (1..4)}
  \cup {Layout(Apart, order, {2, 6}) : order \in {o \in Orders(6) : o[1] = 1}}
  \cup {Layout(Touching, order, {4}) : order \in {o \in Orders(6) : o[2] = 5}}

\* Two counties side by side, two municipalities of which one is not wholly in
\* the map, a region that is not in it at all, one with an edge that is long.
Country ==
  [coord |-> (1 :> P(0, 0)) @@ (2 :> P(8, 0)) @@ (3 :> P(8, 10)) @@ (4 :> P(0, 10)) @@ (5 :> P(16, 0))
             @@ (6 :> P(16, 10)) @@ (7 :> P(4, 6)) @@ (8 :> P(12, 6)) @@ (9 :> P(4, 14)) @@ (10 :> P(16, 14)),
   ways |-> (1 :> <<2, 3>>) @@ (2 :> <<3, 4, 1, 2>>) @@ (3 :> <<2, 5, 6, 3>>) @@ (4 :> <<1, 10, 5, 1>>)
            @@ (31 :> <<7, 7>>) @@ (32 :> <<8, 8>>) @@ (33 :> <<9, 9>>) @@ (34 :> <<7, 11>>) @@ (35 :> <<8, 9>>)
            @@ (36 :> <<7, 9>>) @@ (37 :> <<9, 7>>),
   relations |-> (1 :> <<Way(1, "outer"), Way(2, "outer"), Way(31, "none")>>)
                 @@ (2 :> <<Way(3, "outer"), Way(1, "outer")>>)
                 @@ (3 :> <<Way(3, "outer"), Way(40, "outer")>>)
                 @@ (4 :> <<Way(4, "outer")>>),
   codes |-> {Code("scb", 3, 1), Code("scb", 10, 2), Code("scb", 481, 3), Code("scb", 380, 1), Code("nuts3", 121, 1)},
   refs |-> {Ref(31, <<Label("", 600)>>), Ref(32, <<Label("", 600)>>),
             Ref(33, <<Label("", 600), Label("K", 600)>>),
             Ref(34, <<Link("E", 265), Label("", 70), Label("C", 600)>>),
             Ref(35, <<Label("E", 45), Label("E", 5), Unreadable, Label("", 55)>>),
             Ref(36, <<Label("", 55), Label("Y", 5350)>>)},
   regions |-> {Name("uppsala", 4, 1), Name("uppsala kommun", 7, 2), Name("knivsta", 7, 3)}]

\* Nothing but names.
Names ==
  [coord |-> <<>>, ways |-> <<>>, relations |-> <<>>, codes |-> {Code("scb", 10, 2), Code("scb", 10, 3)},
   refs |-> {Ref(50, <<Label("Y", 66136), Label("Y", 600), Link("E", 4), Unreadable, Label("C", 600)>>), Ref(51, <<Label("", 4)>>)},
   regions |-> {Name("uppsala", 4, 1), Name("uppsala kommun", 7, 2), Name("knivsta", 7, 3), Name("norge", 4, 9),
                Name("ekeby", 6, 4), Name("ekeby", 8, 5), Name("visby", 7, 6)}]

\* Nothing but names, two of them of one level, below a third of their name.
Twins ==
  [coord |-> <<>>, ways |-> <<>>, relations |-> <<>>, codes |-> {},
   refs |-> {Ref(51, <<Label("", 4)>>)},
   regions |-> {Name("uppsala", 4, 1), Name("uppsala kommun", 7, 2), Name("uppsala", 7, 3),
                Name("visby", 6, 5), Name("visby", 7, 6)}]

\* A county that reaches over the border of the map.
Border == [Country EXCEPT !.codes = {Code("scb", 3, 1), Code("scb", 4, 3)},
                          !.refs = {Ref(31, <<Label("", 600)>>), Ref(32, <<Label("", 600)>>)}]

MCMaps == Layouts \cup {Country, Names, Twins, Border}
ASSUME CountiesAreRight
=============================================================================
