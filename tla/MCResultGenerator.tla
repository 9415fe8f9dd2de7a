------------------------- MODULE MCResultGenerator -------------------------
(***************************************************************************)
(* A small country for ResultGenerator.  A unit of distance is 100 m.      *)
(***************************************************************************)
EXTENDS ResultGenerator

\* Small letters of ASCII and beyond, and how else they may be written.
a == 97
e == 101
g == 103
l == 108
n == 110
r == 114
s == 115
t == 116
v == 118
aa == 229
ae == 228
Capital(c) == c - 32
Trademark == 174
Dash == 8211
Quote == 8221

Ge == <<g, ae>>
GeCapital == <<Capital(g), Capital(ae)>>
GeApart == <<Capital(g), a, Diaeresis>>
Gens == <<g, ae, n, s>>
Gen == <<g, ae, n>>
La == <<l, a>>
St == <<s, t>>
StTrademark == <<Capital(s), Capital(t), Trademark>>
At == <<a, t>>
Ta == <<t, a>>
Na == <<n, a>>
Naten == <<n, a, t, e, n>>
Aaret == <<aa, r, e, t>>
Odd == <<64, l>>
Odder == <<36, l>>
Road == << <<v, ae, g>>, <<56>> >>

MCStopWords == <<At, Ta>>
MCBlacklisted == {La}

Element(type, id, rwt) == [type |-> type, id |-> id, rwt |-> rwt]
Town == Element("Node", 1, 105)
House == Element("Node", 2, 300)
Hamlet == Element("Node", 6, 115)
FarHouse == Element("Node", 30, 300)
Street == Element("Way", 11, 0)
Avenue == Element("Way", 16, 0)
County == Element("Relation", 21, 0)
MCElements == {Town, House, Hamlet, FarHouse, Street, Avenue, County}

MCPosition == (1 :> 100) @@ (2 :> 103) @@ (3 :> 120) @@ (4 :> 125) @@ (5 :> 160) @@ (6 :> 500) @@ (30 :> 140)
MCWayNodes == (11 :> <<3, 4>>) @@ (16 :> <<4, 5, 7>>)
MCMembers == (21 :> <<House, Avenue>>) @@ (22 :> <<House>>)
MCRegions == {[relation |-> 21, name |-> GeCapital \o <<s>> \o Lan, level |-> 4],
              [relation |-> 22, name |-> Na \o Kommun, level |-> 7],
              [relation |-> 23, name |-> Landskapet \o Na, level |-> 8]}
MCMissing == {<<l, a>>}
MCArea == (21 :> 50..450) @@ (22 :> 90..130) @@ (23 :> {})
MCRoads == {[labels |-> {Road}, nodes |-> <<7, 3, 4, 5>>]}
MCLog10 == [d \in 1..1000 |-> IF d < 2 THEN 2000 ELSE IF d < 5 THEN 2301 ELSE IF d < 10 THEN 2699
                              ELSE IF d < 32 THEN 3000 ELSE IF d < 100 THEN 3500
                              ELSE IF d < 316 THEN 4000 ELSE 4500]

Named(element, key, line) == [element |-> element, tags |-> << <<key, line>> >>]
Centreville == {
  [element |-> Town, tags |-> << <<"alt_name", Gen>>, <<"foreign", Na>>, <<"name", GeCapital>> >>],
  Named(House, "name", Ge \o <<Blank>> \o St),
  Named(Avenue, "name", Na) }
Crossroads == {
  Named(Hamlet, "name", GeApart),
  Named(Street, "name", La \o <<Blank>> \o St),
  Named(Avenue, "name", Na) }
Outskirts == {
  Named(Town, "name", Ge),
  Named(Hamlet, "name", Na \o <<Blank>> \o Ge \o <<Blank>> \o Ge \o <<Blank>> \o St),
  Named(FarHouse, "name", StTrademark \o <<Blank>> \o Ge),
  Named(County, "name", Odd) }
Villages == {
  Named(House, "name", Na), Named(FarHouse, "name", Naten), Named(Street, "name", Na),
  Named(Hamlet, "name", Na \o <<Dash>> \o Na \o <<Blank>> \o Odder) }
MCMaps == {Centreville, Crossroads, Outskirts, Villages}

Line(ws) == FlattenSeq([i \in DOMAIN ws |-> ws[i] \o <<Blank>>])
MCTexts == {
  << Line(<<La, St, Na>>) >>,
  << Line(Road \o <<Gens>>) >>,
  << Line(<<GeApart, Ta, St>>) >>,
  << <<Hash>> \o Line(<<St>>), Line(<<Na \o <<Quote>>, Ge>>) >>,
  << Line(<<GeCapital, <<Capital(l), Capital(ae), Capital(n)>>, Aaret, St>>) >>,
  << Line(<<Odd, <<56, 56>>, Naten>>), Line(<<La>>) >> }
MCUnset == -1000
MCNodeOrders == {<<30, 5, 7, 4, 1, 3, 6, 2>>, <<6, 3, 1, 2, 7, 4, 5, 30>>}
=============================================================================
