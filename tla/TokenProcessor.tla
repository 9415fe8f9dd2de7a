--------------------------- MODULE TokenProcessor ---------------------------
(***************************************************************************)
(* How the elements found under word combinations become matches           *)
(* (tokenprocessor.cpp), with what they ask of Sweden (sweden.cpp) and of  *)
(* the id trees.  Places lie on a line and are numbers; a quality is in    *)
(* thousandths.                                                            *)
(***************************************************************************)
EXTENDS SwedishTextTree

CONSTANTS
  Position,      \* node2Coord: node ids to positions; some nodes have none
  WayNodes,      \* wayNodes: way ids to sequences of node ids
  Members,       \* relMembers: relation ids to sequences of elements
  Regions,       \* Sweden's administrative regions: records of relation, name and level
  MunicipalitiesMissingS,   \* names that end in an s of their own, without it
  Area,          \* a region's relation to the positions inside it
  Roads,         \* Sweden's roads: records of labels (sequences of words) and nodes (ids, in order)
  Log10,         \* log10 of a positive distance in metres, in thousandths
  ClosePlace, CloseRoad, ClosePrevious, InnerThreshold, OuterThreshold,   \* distances
  CloseId, ManyHits, \* delta_threshold, and the number of hits that is too many
  Unset          \* the quality that has not been set

PlaceLargeArea == 100
PlaceLarge == 105
PlaceMedium == 110
PlaceSmall == 115
IsPlace(e) == e.rwt \in {PlaceLargeArea, PlaceLarge, PlaceMedium, PlaceSmall}

ASSUME WorldAssumption ==
  /\ \A e \in Elements : e.type \in {"Node", "Way", "Relation"} /\ e.id \in Nat \ {0}
  /\ \A w \in DOMAIN WayNodes : WayNodes[w] # <<>>
  /\ DOMAIN Area = {r.relation : r \in Regions}
  /\ Unset \in Int /\ Unset < 0

\* There are only so many nodes, and their distances have logarithms.
ASSUME DistanceAssumption ==
  /\ IsFiniteSet(DOMAIN Position) /\ \A n \in DOMAIN Position : Position[n] \in Nat
  /\ \A n \in DOMAIN Position : \A d \in 1..Position[n] : d \in DOMAIN Log10 /\ Log10[d] \in Int
  /\ InnerThreshold \in Nat /\ OuterThreshold \in Nat
  /\ \A r \in Regions : r.level \in Int
  /\ \A road \in Roads : road.nodes \in Seq(Nat)

Distance(a, b) == IF a < b THEN b - a ELSE a - b
Ids(seq) == {seq[i] : i \in DOMAIN seq}
NodesOfWay(id) == IF id \in DOMAIN WayNodes THEN Ids(WayNodes[id]) ELSE {}
MembersOf(e) == IF e.type = "Relation" /\ e.id \in DOMAIN Members THEN Ids(Members[e.id]) ELSE {}

\* Where a function has its least value.
Least(value) == {x \in DOMAIN value : \A y \in DOMAIN value : value[x] <= value[y]}

-----------------------------------------------------------------------------
(* getCenterOfOSMElement: the mean of some of the nodes.                   *)

CentreOfWay(id) ==
  LET nodes == IF id \in DOMAIN WayNodes THEN WayNodes[id] ELSE <<>>
      n == Len(nodes)
      At(k) == nodes[k + 1]
  IN  IF n = 0 THEN {} ELSE
      {At(0), At(n - 1)}
      \cup (IF n > 3  THEN {At(n \div 2)} ELSE {})
      \cup (IF n > 6  THEN {At(n \div 4), At((n * 3) \div 4)} ELSE {})
      \cup (IF n > 12 THEN {At((n * k) \div 8) : k \in {1, 3, 5, 7}} ELSE {})

\* The element and the members of relations reached from it, in as many steps
\* as there are relations.  More steps reach nothing new; the program's loop
\* would not end if relations were members of each other.
Reached(e) ==
  LET in[k \in 0..Cardinality(DOMAIN Members)] ==
        IF k = 0 THEN {e} ELSE in[k - 1] \cup UNION {MembersOf(m) : m \in in[k - 1]}
  IN  in[Cardinality(DOMAIN Members)]

CentreNodes(e) ==
  UNION {IF m.type = "Node" THEN {m.id} ELSE IF m.type = "Way" THEN CentreOfWay(m.id) ELSE {} :
           m \in Reached(e)}
Placed(e) == CentreNodes(e) \cap DOMAIN Position
HasCentre(e) == Placed(e) # {}
Centre(e) == SumFunctionOnSet(Position, Placed(e)) \div Cardinality(Placed(e))

-----------------------------------------------------------------------------
(* What a combination finds.                                               *)

\* The hits of combinations, each a combination and the number of an element.
Hits(combos) == UNION {{c} \X DOMAIN Retrieve(c) : c \in combos}
Hit(h) == Retrieve(h[1])[h[2]]

TypeQuality(e) ==
  CASE e.rwt = PlaceLargeArea -> 800 [] e.rwt = PlaceLarge -> 1000 [] e.rwt = PlaceMedium -> 850
    [] e.rwt = PlaceSmall -> 700 [] e.rwt = 300 -> 900 [] e.rwt = 400 -> 850 [] e.rwt = 401 -> 800
    [] OTHER -> 500

\* How late b occurs in a, in bytes.
LateQuality(a, b) ==
  LET at    == Min({i \in 0..(Len(a) - Len(b)) : SubSeq(a, i + 1, i + Len(b)) = b})
      After == SubSeq(a, at + 1, Len(a))
  IN  IF ~Occurs(b, a) THEN 1000 ELSE (ByteLength(SubSeq(a, 1, at)) * 1000) \div (ByteLength(After) + 1)

\* Qualities are set by the comparison that std::sort calls, so by none if
\* there is nothing to compare.
QualityAmong(matches, m, quality) == IF matches = {m} THEN Unset ELSE quality

-----------------------------------------------------------------------------
(* Road labels, and the places named next to them.                         *)

\* identifyRoads: the roads whose label is in the text.
IdentifyRoads(words) ==
  {road \in Roads : \E label \in road.labels : Occurs(label, words)}

\* log10 of a distance of 1 km is 3000, of 100 km it is 5000.
RoadQuality(d) == IF d = 0 THEN 1000
                  ELSE Max({0, Min({1000, 1000 - (Log10[d] - 3000) \div 2})})

\* evaluateRoads: per combination and road, the first of the pairs of a place
\* and a node of the road (closestRoadNodeToCoord) that are closest.
PlacesCalled(c) == {i \in DOMAIN Retrieve(c) : /\ IsPlace(Retrieve(c)[i]) /\ Retrieve(c)[i].type = "Node"
                                               /\ Retrieve(c)[i].id \in DOMAIN Position}
NodesKnown(road) == {k \in DOMAIN road.nodes : road.nodes[k] \in DOMAIN Position}
RoadMatch(c, road) ==
  LET far == [x \in PlacesCalled(c) \X NodesKnown(road) |->
                Distance(Position[Retrieve(c)[x[1]].id], Position[road.nodes[x[2]]])]
      i   == Min({x[1] : x \in Least(far)})
      k   == Min({x[2] : x \in {x \in Least(far) : x[1] = i}})
  IN  [combined |-> c, node |-> road.nodes[k], place |-> Retrieve(c)[i].id,
       distance |-> far[<<i, k>>], quality |-> RoadQuality(far[<<i, k>>])]
EvaluateRoads(combos, words) ==
  {RoadMatch(x[1], x[2]) : x \in {x \in combos \X IdentifyRoads(words) :
                                    PlacesCalled(x[1]) # {} /\ NodesKnown(x[2]) # {}}}

-----------------------------------------------------------------------------
(* Places in administrative regions.                                       *)

\* normalizeAdministrativeRegionName: "landskapet" goes, or else the first
\* that fits of "s län", " län", "s kommun" and " kommun".
Landskapet == <<108, 97, 110, 100, 115, 107, 97, 112, 101, 116, Blank>>
Lan        == <<Blank, 108, 228, 110>>
Kommun     == <<Blank, 107, 111, 109, 109, 117, 110>>
Endings    == << <<115>> \o Lan, Lan, <<115>> \o Kommun, Kommun >>
NormalizedName(name) ==
  LET lower == Lowered(name)
      fits  == {i \in DOMAIN Endings : IsSuffix(Endings[i], lower)}
      start == SubSeq(lower, 1, Len(lower) - Len(Endings[Min(fits)]))
  IN  IF IsPrefix(Landskapet, lower) THEN SubSeq(lower, Len(Landskapet) + 1, Len(lower))
      ELSE IF fits = {} THEN lower
      ELSE IF start \in MunicipalitiesMissingS THEN Append(start, 115) ELSE start

\* insertAdministrativeRegion, retrieveAdministrativeRegion and
\* identifyAdministrativeRegions: of the regions of one name the one of the
\* highest administrative level, with a combination that finds it.
RegionFound(c) ==
  LET called == {r \in Regions : r.level < 8 /\ NormalizedName(r.name) = NormalizedName(c)}
  IN  {r \in called : \A o \in called : r.level <= o.level}
IdentifyRegions(combos) ==
  LET Finder(r) == CHOOSE c \in combos : r \in RegionFound(c)
  IN  {[relation |-> r.relation, name |-> Finder(r), level |-> r.level] :
         r \in UNION {RegionFound(c) : c \in combos}}

\* The matches of an element: at most one region of a level, the one that is
\* first by its relation.
RegionsAround(e, regions) ==
  LET around == {r \in regions : r.relation # e.id /\ Centre(e) \in Area[r.relation]}
  IN  {r \in around : \A o \in around : r.level = o.level => r.relation <= o.relation}

\* The elements of a list that are tested: not those that seem to be next to
\* the one before them.
Tested(hits) ==
  LET None == [type |-> "Unknown", id |-> 0, rwt |-> 0]
      CloseIds(e, prev) == e.type = prev.type /\ Distance(e.id, prev.id) <= CloseId
      CentreIfAny(e) == IF HasCentre(e) THEN {Centre(e)} ELSE {}
      before[i \in 1..(Len(hits) + 1)] ==
        IF i = 1 THEN [prev |-> None, near |-> {}]
        ELSE IF HasCentre(hits[i - 1]) \/ CloseIds(hits[i - 1], before[i - 1].prev)
             THEN [prev |-> hits[i - 1], near |-> CentreIfAny(hits[i - 1])]
        ELSE before[i - 1]
  IN  {i \in DOMAIN hits : /\ HasCentre(hits[i]) /\ ~CloseIds(hits[i], before[i].prev)
                           /\ \A x \in before[i].near : Distance(Centre(hits[i]), x) >= ClosePrevious}

\* evaluateAdministrativeRegions
RegionQuality(h, region) ==
  (LateQuality(h[1], region.name) * (IF Hit(h).rwt \in PlaceLarge..PlaceSmall THEN 10 ELSE 9)
   * (Max({2, Min({9, region.level})}) + 18)) \div 270
EvaluateRegions(combos, regions) ==
  LET matches == {m \in Hits(combos) \X regions :
                    m[1][2] \in Tested(Retrieve(m[1][1])) /\ m[2] \in RegionsAround(Hit(m[1]), regions)}
  IN  {[combined |-> m[1][1], element |-> Hit(m[1]), region |-> m[2],
        quality |-> QualityAmong(matches, m, RegionQuality(m[1], m[2]))] : m \in matches}

\* No two regions of a name are of one level.
ASSUME RegionAssumption ==
  \A r, o \in Regions : NormalizedName(r.name) = NormalizedName(o.name) /\ r.level = o.level => r = o

-----------------------------------------------------------------------------
(* Places near places.                                                     *)

\* identifyPlaces
IdentifyPlaces(combos) == {e \in {Hit(h) : h \in Hits(combos)} : IsPlace(e)}

\* evaluateNearPlaces: the elements that are close to the nearest of the places
\* (which one, if there are several, is open).  name maps elements to what they
\* are called.
IsAmong(e, places) == \E p \in places : p.type = e.type /\ p.id = e.id
Nearest(e, places) ==
  CHOOSE p \in Least([p \in {p \in places : HasCentre(p) /\ p.id # e.id} |-> Distance(Centre(e), Centre(p))]) : TRUE
NameQuality(c, p, name) ==
  (LateQuality(c, IF p \in DOMAIN name THEN Lowered(name[p]) ELSE <<>>) * TypeQuality(p)) \div 1000
EvaluateNearPlaces(combos, places, name) ==
  LET matches == {h \in Hits(combos) : /\ ~IsAmong(Hit(h), places) /\ HasCentre(Hit(h))
                                       /\ \E p \in places : HasCentre(p) /\ p.id # Hit(h).id
                                       /\ Distance(Centre(Hit(h)), Centre(Nearest(Hit(h), places))) <= ClosePlace}
  IN  {[combined |-> h[1], global |-> Nearest(Hit(h), places), local |-> Hit(h),
        quality |-> QualityAmong(matches, h, NameQuality(h[1], Nearest(Hit(h), places), name))] : h \in matches}

-----------------------------------------------------------------------------
(* Names that stand for one location.                                      *)

\* The numbers of a walk through n nodes that samples distances.
StepCount(n) == Min({n - 1, 7, Max({1, n \div 2})})
Step(n) == LET t == Min({t \in (n \div StepCount(n))..n : n % t # 0 \/ t = n})
           IN  IF t = n THEN 1 ELSE t

\* interIdEstimatedDistance of n nodes: the steps of the walks, as pairs of the
\* number of the node where a walk begins and the number of the step; a walk
\* may come back to where it began.  nodes are the ids, in the order in which
\* they lie in the set they are collected in.
To(n, x) == (x[1] + x[2] * Step(n)) % n
StepsBetweenKnown(nodes) ==
  LET n == Len(nodes)
  IN  {x \in (0..(n - 1)) \X (1..StepCount(n)) :
         nodes[x[1] + 1] \in DOMAIN Position /\ nodes[To(n, x) + 1] \in DOMAIN Position}
StepLengths(nodes) ==
  [x \in StepsBetweenKnown(nodes) |-> Distance(Position[nodes[x[1] + 1]], Position[nodes[To(Len(nodes), x) + 1]])]

\* The most central node is the first with the least average.
StepsFrom(nodes, a) == {x \in StepsBetweenKnown(nodes) : x[1] = a}
Averages(nodes) ==
  [a \in {x[1] : x \in StepsBetweenKnown(nodes)} |->
     SumFunctionOnSet(StepLengths(nodes), StepsFrom(nodes, a)) \div Cardinality(StepsFrom(nodes, a))]
CentralNode(nodes) == nodes[Min(Least(Averages(nodes))) + 1]

\* The first quartile of the distances, 0 if there are none.
Quartile(nodes) ==
  LET once == {x \in StepsBetweenKnown(nodes) : x[1] < To(Len(nodes), x)}
      NoMore(d) == {x \in once : StepLengths(nodes)[x] <= d}
      At == Cardinality(once) \div 4
  IN  IF Len(nodes) <= 1 \/ once = {} THEN 0
      ELSE Min({d \in {StepLengths(nodes)[x] : x \in once} : Cardinality(NoMore(d)) > At})

\* The nodes of elements, members of relations included.
NodesOf(e) ==
  CASE e.type = "Node" -> {e.id} [] e.type = "Way" -> NodesOfWay(e.id)
    [] OTHER -> UNION {IF m.type = "Node" THEN {m.id} ELSE IF m.type = "Way" THEN NodesOfWay(m.id) ELSE {} :
                         m \in MembersOf(e)}

\* evaluateUniqueMatches.  order is the order in which ids lie in a set.
UniqueMatch(c, order) ==
  LET hits  == Retrieve(c)
      nodes == Within(order, UNION {NodesOf(e) : e \in Ids(hits)})
      far   == [i \in {i \in DOMAIN hits : HasCentre(hits[i])} |->
                  Distance(Centre(hits[i]), Position[CentralNode(nodes)])]
      best  == Min(Least(far))
      Match(i, d) == [combined |-> c, element |-> hits[i],
                      quality |-> IF d > InnerThreshold THEN (TypeQuality(hits[i]) * (4500 - Log10[d])) \div 1500
                                  ELSE TypeQuality(hits[i])]
  IN  IF Len(hits) = 1 THEN {[combined |-> c, element |-> hits[1], quality |-> TypeQuality(hits[1])]}
      ELSE IF hits = <<>> \/ Len(hits) >= ManyHits \/ Quartile(nodes) \notin 1..(OuterThreshold - 1) THEN {}
      ELSE IF DOMAIN far = {} \/ far[best] >= OuterThreshold THEN {}
      ELSE {Match(best, far[best])}
EvaluateUniqueMatches(combos, order) == UNION {UniqueMatch(c, order) : c \in combos}
=============================================================================
