--------------------------- MODULE RegionPolygons ---------------------------
(***************************************************************************)
(* The outlines of regions (sweden.cpp): the ways of a relation are joined *)
(* to polygons, in whatever order and direction they come, and a point is  *)
(* inside the region if a line from it to the left crosses an odd number   *)
(* of the edges of one of its polygons.  A map m is a record of            *)
(* coordinates of nodes, nodes of ways and members of relations.           *)
(***************************************************************************)
EXTENDS Integers, Sequences, FiniteSetsExt, Folds, SequencesExt

CONSTANTS
  IntRange,    \* where the rectangle around a region starts before it is known
  IntWidth     \* the bits of an int

IntWidthAssumption == IntWidth \in 2..30

First(seq) == seq[1]
Final(seq) == seq[Len(seq)]
Closed(polygon) == First(polygon) = Final(polygon)

\* The coordinates of those nodes of a way that are known.
CoordsOf(m, nodes) ==
  LET known == SelectSeq(nodes, LAMBDA n : n \in DOMAIN m.coord)
  IN  [i \in DOMAIN known |-> m.coord[known[i]]]

-----------------------------------------------------------------------------
(* addWayToPolygon: an empty polygon takes any way, others one that starts *)
(* or, failing that, ends where they start or end.                         *)

MeetsAt(m, n, polygon) == n \in DOMAIN m.coord /\ m.coord[n] \in {First(polygon), Final(polygon)}

FitsPolygon(m, nodes, polygon) ==
  \/ polygon = <<>>
  \/ /\ First(nodes) \in DOMAIN m.coord
     /\ MeetsAt(m, First(nodes), polygon) \/ MeetsAt(m, Final(nodes), polygon)

AddWayToPolygon(m, nodes, polygon) ==
  LET on   == CoordsOf(m, Tail(nodes))
      back == CoordsOf(m, Tail(Reverse(nodes)))
  IN  CASE polygon = <<>> -> CoordsOf(m, nodes)
        [] m.coord[First(nodes)] = First(polygon) -> Reverse(on) \o polygon
        [] m.coord[First(nodes)] = Final(polygon) -> polygon \o on
        [] m.coord[Final(nodes)] = First(polygon) -> Reverse(back) \o polygon
        [] OTHER -> polygon \o back

-----------------------------------------------------------------------------
(* buildPolygonForRelation.                                                *)

\* The members that are outlines, and those of them whose nodes are known.
\* Outer and inner outlines are not told apart.
OutlineWays(m, r) == SelectSeq(m.relations[r], LAMBDA o : o.type = "Way" /\ o.role # "none")
KnownWays(m, r)   == SelectSeq(OutlineWays(m, r), LAMBDA o : o.id \in DOMAIN m.ways)

\* Each way is added to the first polygon it fits, or starts one.  So all
\* known ways are added in the first round over the members, and the other
\* rounds only look for the unknown ones again.
AddWay(m, polygons, nodes) ==
  LET fitting == {i \in DOMAIN polygons : FitsPolygon(m, nodes, polygons[i])}
  IN  IF fitting = {} THEN Append(polygons, CoordsOf(m, nodes))
      ELSE [polygons EXCEPT ![Min(fitting)] = AddWayToPolygon(m, nodes, @)]
AddedWays(m, r) ==
  FoldLeft(LAMBDA polygons, o : AddWay(m, polygons, m.ways[o.id]), <<>>, KnownWays(m, r))

\* Joining the open polygon at a with the ones behind it.  Its ends are looked
\* up once, by references that go on to name the same two points when others
\* are put before and behind them.
Meets(first, final, q) == {first, final} \cap {First(q), Final(q)} # {}
Joined(p, q, first, final) ==
  CASE first = First(q) -> Reverse(Tail(q)) \o p
    [] first = Final(q) -> Front(q) \o p
    [] final = First(q) -> p \o Tail(q)
    [] OTHER            -> p \o Tail(Reverse(q))
JoinAt(polygons, a) ==
  LET first  == First(polygons[a])
      final  == Final(polygons[a])
      behind == SubSeq(polygons, a + 1, Len(polygons))
      taken  == SelectSeq(behind, LAMBDA q : Meets(first, final, q))
      left   == SelectSeq(behind, LAMBDA q : ~Meets(first, final, q))
  IN  IF Closed(polygons[a]) THEN polygons
      ELSE SubSeq(polygons, 1, a - 1)
           \o << FoldLeft(LAMBDA p, q : Joined(p, q, first, final), polygons[a], taken) >>
           \o left

\* One round over the polygons, and rounds until one joins nothing.
JoinRound(polygons) ==
  FoldLeft(LAMBDA list, a : IF a > Len(list) THEN list ELSE JoinAt(list, a),
           polygons, [a \in 1..Len(polygons) |-> a])
JoinAll(polygons) == FoldLeft(LAMBDA list, k : JoinRound(list), polygons, [k \in 1..Len(polygons) |-> k])

\* The last point of a closed polygon repeats the first and is dropped.
Outlines(m, r) ==
  LET joined == JoinAll(AddedWays(m, r))
  IN  [i \in DOMAIN joined |-> IF Closed(joined[i]) THEN Front(joined[i]) ELSE joined[i]]

\* The rectangle around the region.
Corners(m, r) ==
  LET points == UNION {Range(CoordsOf(m, m.ways[o.id])) : o \in Range(KnownWays(m, r))}
      xs == {c.x : c \in points}
      ys == {c.y : c \in points}
  IN  [minx |-> Min(xs \cup {IntRange}), miny |-> Min(ys \cup {IntRange}),
       maxx |-> Max(xs \cup {-1}), maxy |-> Max(ys \cup {-1})]

\* Only a region all of whose outline ways are known becomes a region to look
\* points up in.
HasPolygons(m, r) ==
  /\ r \in DOMAIN m.relations /\ m.relations[r] # <<>>
  /\ KnownWays(m, r) = OutlineWays(m, r)
BuildPolygon(m, r) == [polygons |-> Outlines(m, r), box |-> Corners(m, r)]

-----------------------------------------------------------------------------
(* nodeInsideRelationRegion, for a region that has polygons.               *)

\* Division of ints rounds towards zero; products are cut to an int's bits.
Quotient(a, b) == IF a >= 0 THEN (IF b > 0 THEN a \div b ELSE -(a \div (-b)))
                  ELSE IF b > 0 THEN -((-a) \div b) ELSE (-a) \div (-b)
AsInt(v) == ((v + 2^(IntWidth - 1)) % 2^IntWidth) - 2^(IntWidth - 1)

InBox(box, c) == c.x \in box.minx..box.maxx /\ c.y \in box.miny..box.maxy

\* Mutant: an edge counts with both its ends, a corner twice.
EdgeCountsTwice(a, b, c) ==
  /\ (a.y <= c.y /\ b.y >= c.y) \/ (b.y <= c.y /\ a.y >= c.y)
  /\ a.x <= c.x \/ b.x <= c.x
  /\ a.y # b.y
  /\ a.x + Quotient(AsInt((c.y - a.y) * (b.x - a.x)), b.y - a.y) < c.x

\* Whether the edge from a to b lies, at the height of c, to the left of c.
EdgeCounts(a, b, c) ==
  /\ (a.y < c.y /\ b.y >= c.y) \/ (b.y < c.y /\ a.y >= c.y)
  /\ a.x <= c.x \/ b.x <= c.x
  /\ a.x + Quotient(AsInt((c.y - a.y) * (b.x - a.x)), b.y - a.y) < c.x

OddEdges(polygon, c) ==
  LET n == Len(polygon)
      Before(i) == IF i = 1 THEN n ELSE i - 1
  IN  Cardinality({i \in 1..n : EdgeCounts(polygon[i], polygon[Before(i)], c)}) % 2 = 1

InsideRegion(region, c) ==
  InBox(region.box, c) /\ \E i \in DOMAIN region.polygons : OddEdges(region.polygons[i], c)

-----------------------------------------------------------------------------
(* What a region is, whatever its ways are joined to.                      *)

\* The edges of the outlines, that lie between known neighbours on a way.
Edges(m, r) ==
  UNION {{<<m.coord[nodes[i]], m.coord[nodes[i + 1]]>> : i \in 1..(Len(nodes) - 1)} :
           nodes \in {m.ways[o.id] : o \in Range(KnownWays(m, r))}}

\* An edge that is to the right of c, at the height of c.
Turn(e, c) == (c.x - e[1].x) * (e[2].y - e[1].y) - (c.y - e[1].y) * (e[2].x - e[1].x)
RightOf(e, c) ==
  \/ e[1].y <= c.y /\ c.y < e[2].y /\ Turn(e, c) < 0
  \/ e[2].y <= c.y /\ c.y < e[1].y /\ Turn(e, c) > 0

\* The point is inside by the edges alone.
Surrounded(m, r, c) == Cardinality({e \in Edges(m, r) : RightOf(e, c)}) % 2 = 1

\* Less than a unit to the left or right of an edge, or on it: there the
\* rounding of the division decides.
Height(e) == IF e[1].y < e[2].y THEN e[2].y - e[1].y ELSE e[1].y - e[2].y
OnEdge(e, c) ==
  /\ c.y \in e[1].y..e[2].y \cup e[2].y..e[1].y
  /\ \/ Height(e) > 0 /\ Turn(e, c) \in (1 - Height(e))..(Height(e) - 1)
     \/ Height(e) = 0 /\ c.x \in e[1].x..e[2].x \cup e[2].x..e[1].x
\* The products of EdgeCounts fit into an int.
Width(e) == IF e[1].x < e[2].x THEN e[2].x - e[1].x ELSE e[1].x - e[2].x
EdgesFit(m, r) == \A e \in Edges(m, r) : Width(e) * Height(e) < 2^(IntWidth - 1)
=============================================================================
