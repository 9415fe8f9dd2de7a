------------------------------- MODULE Sweden -------------------------------
(***************************************************************************)
(* What the program knows about Sweden (sweden.cpp): which relations are   *)
(* the counties and municipalities, the register of administrative         *)
(* regions, and which ways are part of which road.  It is filled while a   *)
(* map is read, roads without a county are then sorted into the counties   *)
(* they lie in, all is saved, and a later run of the program reads it.     *)
(***************************************************************************)
EXTENDS RegionPolygons, AdministrativeRegion

CONSTANTS
  Maps,                  \* maps: coordinates, ways, relations, and what is said of them
  Points,                \* the coordinates that are asked for
  BlacklistedWays, BlacklistedRelations

ASSUME SwedenAssumption == IntWidthAssumption /\ NormalAssumption

VARIABLES
  map, unread,     \* one of Maps, and what of its statements has not been read
  codes,           \* scbcode_to_relationid and nuts3code_to_relationid
  roads,           \* the ways of roads, by type and number; what is missing has none
  regions, sorted, \* administrativeRegion
  stage,           \* "reading", "fixing", "saving", "serving", "down" or "ended"
  cursor,          \* how far fixUnlabeledRegionalRoads is: a number and a place in its ways
  file,            \* the .sweden file
  saved            \* history: what memory held when the file was written

memory == <<codes, roads, regions>>
vars   == <<map, unread, memory, sorted, stage, cursor, file, saved>>

Europe     == "Europe"
National   == "National"
LanUnknown == "LanUnknown"
Unknown    == "UnknownRoadType"

\* RoadType: the county roads, by their letters, in their order.
Counties == <<"M", "K", "I", "H", "G", "N", "O", "F", "E", "D", "AB", "C", "U", "T", "S", "W",
              "X", "Z", "Y", "AC", "BD", LanUnknown>>
CountyLetters == Range(Counties) \ {LanUnknown}

EuropeanLen   == 30
NationalLen   == 500
RegionalLen   == 64 * 64
HighestNumber == 9999
EuropeanRoadNumbers == <<4, 6, 10, 12, 14, 16, 18, 20, 22, 45, 47, 55, 65, 265>>

NoFile == <<>>
Statements(m) == m.refs \cup m.codes \cup m.regions

\* What insertWayAsRoad can make of a ref, and what else a map says.  A way
\* has one ref, and what can be read of it is a number that does not begin with 0.
RefLabels == [letters : CountyLetters \cup {""}, number : Nat, link : BOOLEAN, readable : BOOLEAN]
ASSUME MapsAssumption ==
  \A m \in Maps :
    /\ \A s \in m.refs    : DOMAIN s = {"way", "ref"} /\ s.ref \in Seq(RefLabels)
    /\ \A s \in m.refs    : \A i \in DOMAIN s.ref : s.ref[i].readable => s.ref[i].number > 0
    /\ \A s, t \in m.refs : s.way = t.way => s = t
    /\ \A s \in m.codes   : DOMAIN s = {"kind", "code", "relation"} /\ s.kind \in {"scb", "nuts3"} /\ s.code \in Nat
    /\ \A s \in m.regions : s \in [name : DOMAIN Normal, level : Nat, relation : Nat \ {0}]
    /\ \A n \in DOMAIN m.coord : m.coord[n].x \in Int /\ m.coord[n].y \in Int

Nothing == [scb |-> <<>>, nuts3 |-> <<>>]
Cleared(rest) ==
  /\ codes' = Nothing /\ roads' = <<>> /\ regions' = <<>> /\ sorted' = FALSE
  /\ cursor' = [number |-> 0, place |-> 1]
  /\ unread' = rest

Init ==
  /\ map \in Maps /\ unread = Statements(map)
  /\ codes = Nothing /\ roads = <<>> /\ regions = <<>> /\ sorted = FALSE
  /\ stage = "reading" /\ cursor = [number |-> 0, place |-> 1]
  /\ file = NoFile /\ saved = <<>>

-----------------------------------------------------------------------------
(* Labels of roads.                                                        *)

UInt16(n) == n % 65536

\* identifyEroad: E roads are European or of Östergötland.
IdentifyEroad(number) == IF number \in Range(EuropeanRoadNumbers) THEN Europe ELSE "E"

\* Mutant: all numbers from 40 are taken for two digits.
AnyIndex(number) == IF number < 40 THEN number ELSE (number - 40) % EuropeanLen

EuropeanRoadNumberToIndex(number) ==
  IF number < 40 THEN number
  ELSE IF number < 40 + EuropeanLen THEN number - 40
  ELSE IF number = 265 THEN 1 ELSE 0

\* The letters in front of a number in the map ...
TypeOfRef(letters, number) ==
  CASE letters = ""  -> IF number >= 500 THEN LanUnknown ELSE National
    [] letters = "E" -> IdentifyEroad(UInt16(number))
    [] letters = "K" -> "M"
    [] OTHER         -> letters

\* ... and in a text: lettersToRoadType.
LettersToRoadType(letters, number) ==
  CASE letters = "E" -> IdentifyEroad(number)
    [] letters \in CountyLetters \ {"E"} -> letters
    [] OTHER -> Unknown

\* A ref is a sequence of labels: letters, number, whether a link's number
\* follows after a dot, and whether it can be read at all.  What cannot be
\* read ends the ref; behind a link, numbers without letters are skipped.
RefRoads(ref) ==
  LET read[i \in 0..Len(ref)] ==
        LET s == read[i - 1]
            l == ref[i]
        IN  IF i = 0 THEN [over |-> FALSE, link |-> FALSE, found |-> <<>>]
            ELSE IF s.over \/ (s.link /\ l.letters = "" /\ l.readable) THEN s
            ELSE IF ~l.readable THEN [s EXCEPT !.over = TRUE]
            ELSE [over |-> FALSE, link |-> l.link,
                  found |-> Append(s.found, <<TypeOfRef(l.letters, l.number), l.number>>)]
  IN  read[Len(ref)].found

\* Words that are labels of roads; a word is letters, a number, both, or one
\* of the words for a road that has no letters.
OneLetter(word) == word.letters \in CountyLetters \ {"AB", "AC", "BD"}
IdentifyRoads(words) ==
  LET number(i) == UInt16(words[i].number)
      before    == {i \in DOMAIN words : i < Len(words) /\ words[i].kind # "number" /\ words[i + 1].kind = "number"}
      lettered  == {i \in before : words[i].kind = "letters"}
      named     == {i \in before : words[i].kind = "way"}
      joined    == {i \in DOMAIN words : words[i].kind = "label" /\ (OneLetter(words[i]) => number(i) < HighestNumber)}
      found     == {<<LettersToRoadType(words[i].letters, number(i + 1)), number(i + 1)>> : i \in lettered}
                   \cup {<<LettersToRoadType(words[i].letters, number(i)), number(i)>> : i \in joined}
                   \cup {<<IF number(i + 1) < 500 THEN National ELSE LanUnknown, number(i + 1)>> : i \in named}
  IN  {road \in found : road[1] # Unknown /\ road[2] > 0}

-----------------------------------------------------------------------------
(* The table of roads.                                                     *)

Ways(table, key) == IF key \in DOMAIN table THEN table[key] ELSE <<>>
PushBack(table, key, way) ==
  [k \in DOMAIN table \cup {key} |-> IF k = key THEN Append(Ways(table, key), way) ELSE table[k]]

KeyOf(type, number) == <<type, IF type = Europe THEN EuropeanRoadNumberToIndex(number) ELSE number>>

\* What insertWayAsRoad takes.
Storable(way, type, number) ==
  /\ way \notin BlacklistedWays
  /\ ~(number \in 5300..5399 /\ type \in {LanUnknown, "Y"})
  /\ number <= HighestNumber
  /\ type = National => number < NationalLen
  /\ type \in Range(Counties) => number < RegionalLen

InsertWayAsRoad(table, way, type, number) ==
  IF Storable(way, type, UInt16(number)) THEN PushBack(table, KeyOf(type, UInt16(number)), way) ELSE table

\* A way is put into the list of each road of its ref.
WithRoads(table, way, found) ==
  LET with[i \in 0..Len(found)] ==
        IF i = 0 THEN table ELSE InsertWayAsRoad(with[i - 1], way, found[i][1], found[i][2])
  IN  with[Len(found)]

Memorise(statement) ==
  /\ stage = "reading" /\ statement \in unread
  /\ unread' = unread \ {statement}
  /\ UNCHANGED <<map, stage, cursor, file, saved>>

ReadRef(s) ==
  /\ s \in map.refs /\ Memorise(s)
  /\ roads' = WithRoads(roads, s.way, RefRoads(s.ref))
  /\ UNCHANGED <<codes, regions, sorted>>

\* std::map::insert keeps the relation that came first.
ReadCode(s) ==
  /\ s \in map.codes /\ Memorise(s)
  /\ codes' = [codes EXCEPT ![s.kind] =
                 [c \in DOMAIN @ \cup {s.code} |-> IF c \in DOMAIN @ THEN @[c] ELSE s.relation]]
  /\ UNCHANGED <<roads, regions, sorted>>

\* insertAdministrativeRegion
Registered(s) == s.level < 8 /\ s.relation \notin BlacklistedRelations
ReadRegion(s) ==
  /\ s \in map.regions /\ Memorise(s)
  /\ IF Registered(s) THEN /\ regions' = Append(regions, RegionOf(s.name, s.level, s.relation))
                           /\ sorted' = FALSE
                      ELSE UNCHANGED <<regions, sorted>>
  /\ UNCHANGED <<codes, roads>>

ReadAll ==
  /\ stage = "reading" /\ unread = {}
  /\ stage' = "fixing"
  /\ UNCHANGED <<map, unread, memory, sorted, cursor, file, saved>>

-----------------------------------------------------------------------------
(* Where a point is.                                                       *)

\* relationId_to_polygons: what is built when a region is first asked for.
\* Nothing is asked for before the map is read, so it does not change.
Polygons == [m \in Maps |-> [r \in {r \in DOMAIN m.relations : HasPolygons(m, r)} |-> BuildPolygon(m, r)]]

\* A region without polygons ends the program: map::at throws.
Throws(relation) == relation \notin DOMAIN Polygons[map]
Inside(c, relation) == InsideRegion(Polygons[map][relation], c)

LevelMunicipality == {c \in DOMAIN codes.scb : c >= 100}
LevelCounty       == {c \in DOMAIN codes.scb : c < 100}

\* insideSCBarea: the first code, in ascending order, whose region has the
\* point; -1 if none has.
EndOfSearch == 0
InsideSCBarea(c, level) ==
  LET stops == {code \in level : Throws(codes.scb[code]) \/ Inside(c, codes.scb[code])}
  IN  IF stops = {} THEN -1
      ELSE IF Throws(codes.scb[Min(stops)]) THEN EndOfSearch ELSE Min(stops)

\* roadTypeForSCBarea
LettersOf ==
  [c \in {1, 3, 4, 5, 6, 7, 8, 9, 10, 12, 13, 14} \cup 17..25 |->
     CASE c = 1 -> "AB" [] c = 3 -> "C" [] c = 4 -> "D" [] c = 5 -> "E" [] c = 6 -> "F" [] c = 7 -> "G"
       [] c = 8 -> "H" [] c = 9 -> "I" [] c = 10 -> "K" [] c = 12 -> "M" [] c = 13 -> "N" [] c = 14 -> "O"
       [] c = 17 -> "S" [] c = 18 -> "T" [] c = 19 -> "U" [] c = 20 -> "W" [] c = 21 -> "X" [] c = 22 -> "Y"
       [] c = 23 -> "Z" [] c = 24 -> "AC" [] c = 25 -> "BD"]
\* Codes are those of counties that have letters, or longer ones.  With another
\* short code, a road would be put into the list that is being gone through.
ASSUME CodesAssumption ==
  \A m \in Maps : \A s \in {s \in m.codes : s.kind = "scb"} : s.code \in DOMAIN LettersOf \/ s.code >= 100

RoadTypeForSCBarea(code) ==
  LET county == IF code > 100 THEN code \div 100 ELSE code
  IN  IF county \in DOMAIN LettersOf THEN LettersOf[county] ELSE LanUnknown

-----------------------------------------------------------------------------
(* fixUnlabeledRegionalRoads, one way per step.                            *)

Unlabeled == {key[2] : key \in {k \in DOMAIN roads : k[1] = LanUnknown}}
Ahead     == {n \in Unlabeled : n >= cursor.number}
Current   == Min(Ahead)
Place     == IF cursor.number = Current THEN cursor.place ELSE 1
List      == roads[<<LanUnknown, Current>>]

\* The node in the middle of a way, if it and its coordinates are known.
Pivot(way) ==
  LET nodes == IF way \in DOMAIN map.ways THEN map.ways[way] ELSE <<>>
      node  == nodes[Len(nodes) \div 2 + 1]
  IN  IF nodes # <<>> /\ node \in DOMAIN map.coord THEN {map.coord[node]} ELSE {}

\* -1 if no county is found, 0 if the search ends the program.
CountyOf(way) == IF Pivot(way) = {} THEN -1
                 ELSE InsideSCBarea(CHOOSE c \in Pivot(way) : TRUE, LevelCounty)

Fixing == stage = "fixing" /\ Ahead # {}
Advance(place) == cursor' = [number |-> Current, place |-> place]
EndsProgram == stage' = "ended" /\ Cleared({})

\* Mutant: the way behind one that is taken out is passed over.
FixWaySkips ==
  /\ Fixing /\ Place <= Len(List)
  /\ UNCHANGED <<map, file, saved>>
  /\ \E way \in {List[Place]} : \E area \in {CountyOf(way)} :
       \/ area = EndOfSearch /\ EndsProgram
       \/ /\ area # EndOfSearch
          /\ UNCHANGED <<unread, codes, regions, sorted, stage>>
          /\ Advance(Place + 1)
          /\ IF area > 0
             THEN roads' = LET added == PushBack(roads, <<RoadTypeForSCBarea(area), Current>>, way)
                           IN  [added EXCEPT ![<<LanUnknown, Current>>] = RemoveAt(@, Place)]
             ELSE UNCHANGED roads

FixWay ==
  /\ Fixing /\ Place <= Len(List)
  /\ UNCHANGED <<map, file, saved>>
  /\ \E way \in {List[Place]} : \E area \in {CountyOf(way)} :
       \/ area = EndOfSearch /\ EndsProgram
       \/ /\ area # EndOfSearch
          /\ UNCHANGED <<unread, codes, regions, sorted, stage>>
          /\ IF area > 0
             THEN /\ roads' = LET added == PushBack(roads, <<RoadTypeForSCBarea(area), Current>>, way)
                              IN  [added EXCEPT ![<<LanUnknown, Current>>] = RemoveAt(@, Place)]
                  /\ Advance(Place)
             ELSE Advance(Place + 1) /\ UNCHANGED roads

\* Mutant: an empty list is kept.
FixNextKeeps ==
  /\ Fixing /\ Place > Len(List)
  /\ cursor' = [number |-> Current + 1, place |-> 1]
  /\ UNCHANGED <<map, unread, memory, sorted, stage, file, saved>>

\* At the end of the ways of a number: the list is freed if it is empty.
FixNext ==
  /\ Fixing /\ Place > Len(List)
  /\ cursor' = [number |-> Current + 1, place |-> 1]
  /\ roads' = [k \in {k \in DOMAIN roads : k # <<LanUnknown, Current>> \/ List # <<>>} |-> roads[k]]
  /\ UNCHANGED <<map, unread, codes, regions, sorted, stage, file, saved>>

FixDone ==
  /\ stage = "fixing" /\ Ahead = {}
  /\ stage' = "saving"
  /\ UNCHANGED <<map, unread, memory, sorted, cursor, file, saved>>

-----------------------------------------------------------------------------
(* The .sweden file.                                                       *)

\* The ways of each European road under its own number, those of national
\* roads up to a terminator, those of the counties, and the sorted regions.
Written(r) ==
  [codes    |-> codes,
   european |-> [i \in DOMAIN EuropeanRoadNumbers |-> Ways(roads, KeyOf(Europe, EuropeanRoadNumbers[i]))],
   national |-> {<<k[2], roads[k]>> : k \in {k \in DOMAIN roads : k[1] = National}},
   counties |-> {<<k, roads[k]>> : k \in {k \in DOMAIN roads : k[1] \in Range(Counties)}},
   regions  |-> r]

Write ==
  /\ stage = "saving"
  /\ \E r \in IF sorted THEN {regions} ELSE SortRegions(regions) :
       /\ regions' = r /\ sorted' = TRUE
       /\ file' = Written(r)
       /\ saved' = <<codes, roads, r>>
  /\ stage' = "serving"
  /\ UNCHANGED <<map, unread, codes, roads, cursor>>

\* The first of the national roads is tested to be a number of a road before
\* it is tested to be the terminator.
CannotRead(f) == f.national = {}

\* The ways that are read for European roads are added at their index, those
\* of one number behind those of the numbers before it.
ReadAt(f, key) ==
  LET read[i \in 0..Len(EuropeanRoadNumbers)] ==
        IF i = 0 THEN <<>>
        ELSE read[i - 1] \o (IF KeyOf(Europe, EuropeanRoadNumbers[i]) = key THEN f.european[i] ELSE <<>>)
  IN  read[Len(EuropeanRoadNumbers)]
EuropeanRead(f) ==
  LET inUse == {i \in DOMAIN EuropeanRoadNumbers : f.european[i] # <<>>}
  IN  [key \in {KeyOf(Europe, EuropeanRoadNumbers[i]) : i \in inUse} |-> ReadAt(f, key)]
AsTable(pairs) == [k \in {p[1] : p \in pairs} |-> (CHOOSE p \in pairs : p[1] = k)[2]]
RoadsRead(f) ==
  LET european == EuropeanRead(f)
      national == AsTable({<< <<National, p[1]>>, p[2]>> : p \in f.national})
      counties == AsTable(f.counties)
  IN  [k \in DOMAIN european \cup DOMAIN national \cup DOMAIN counties |->
         CASE k[1] = Europe -> european[k] [] k[1] = National -> national[k] [] OTHER -> counties[k]]

Stop ==
  /\ stage = "serving"
  /\ stage' = "down" /\ Cleared({})
  /\ UNCHANGED <<map, file, saved>>

Read ==
  /\ stage = "down" /\ file # NoFile
  /\ IF CannotRead(file) THEN EndsProgram
     ELSE /\ codes' = file.codes /\ roads' = RoadsRead(file)
          /\ regions' = file.regions /\ sorted' = TRUE
          /\ stage' = "serving"
          /\ UNCHANGED <<unread, cursor>>
  /\ UNCHANGED <<map, file, saved>>

\* Without a file the map is read again.
StartAgain ==
  \/ /\ stage = "ended" /\ file # NoFile
     /\ stage' = "down" /\ UNCHANGED <<map, unread, memory, sorted, cursor, file, saved>>
  \/ /\ stage = "ended" /\ file = NoFile
     /\ stage' = "reading" /\ Cleared(Statements(map)) /\ UNCHANGED <<map, file, saved>>

-----------------------------------------------------------------------------
(* What a query asks, and what an answer page adds to a result.            *)

AskMunicipality(c) ==
  /\ stage = "serving" /\ InsideSCBarea(c, LevelMunicipality) = EndOfSearch
  /\ EndsProgram /\ UNCHANGED <<map, file, saved>>

AskRegion(name) ==
  /\ stage = "serving" /\ Retrieve(regions, name) # 0 /\ Throws(Retrieve(regions, name))
  /\ EndsProgram /\ UNCHANGED <<map, file, saved>>

Next ==
  \/ \E s \in unread : ReadRef(s) \/ ReadCode(s) \/ ReadRegion(s)
  \/ ReadAll \/ FixWay \/ FixNext \/ FixDone
  \/ Write \/ Stop \/ Read \/ StartAgain
  \/ \E c \in Points : AskMunicipality(c)
  \/ \E name \in DOMAIN Normal : AskRegion(name)

Spec == Init /\ [][Next]_vars

-----------------------------------------------------------------------------
(* closestRoadNodeToCoord.                                                 *)

SqDistance(a, b) == (a.x - b.x) * (a.x - b.x) + (a.y - b.y) * (a.y - b.y)
Places(way) ==
  IF way \in DOMAIN map.ways THEN {map.coord[node] : node \in Range(map.ways[way]) \cap DOMAIN map.coord} ELSE {}

\* The ways of a road; of one whose county is not known, those of all
\* counties, one county after the other.
OfCounty(i, number) == IF number < RegionalLen THEN Ways(roads, <<Counties[i], number>>) ELSE <<>>
WaysOfRoad(type, number) ==
  IF type = LanUnknown THEN FlattenSeq([i \in DOMAIN Counties |-> OfCounty(i, number)])
  ELSE Ways(roads, KeyOf(type, number))
Start(i, number) == Len(FlattenSeq([k \in 1..(i - 1) |-> OfCounty(k, number)]))

\* Mutant: the county is the first that starts behind the way.
CountyBehind(best, number) ==
  Counties[Min({i \in DOMAIN Counties : i = Len(Counties) \/ Start(i, number) >= best - 1})]

\* The county whose ways begin before the best one, and the next county's do not.
CountyOfBest(best, number) ==
  Counties[CHOOSE i \in DOMAIN Counties :
             /\ Start(i, number) <= best - 1
             /\ i = Len(Counties) \/ Start(i + 1, number) > best - 1]

\* The first of the nearest ways, if any has a place.
ClosestRoadNodeToCoord(c, type, number) ==
  LET ways    == WaysOfRoad(type, number)
      placed  == {i \in DOMAIN ways : Places(ways[i]) # {}}
      away(i) == Min({SqDistance(p, c) : p \in Places(ways[i])})
      best    == Min({i \in placed : \A j \in placed : away(i) <= away(j)})
  IN  IF placed = {} THEN {}
      ELSE {[way |-> ways[best], distance |-> away(best),
             type |-> IF type = LanUnknown THEN CountyOfBest(best, number) ELSE type]}

-----------------------------------------------------------------------------
(* Properties.                                                             *)

Tables == {"reading", "fixing", "saving", "serving"}

\* The types of all variables: keys of roads are what the arrays have room
\* for, and outside of the loop that sorts roads into counties there is no
\* empty list of ways (sweden.cpp:239-243, 1822-1825).
TypeOK ==
  /\ map \in Maps /\ unread \subseteq Statements(map)
  /\ stage \in Tables \cup {"down", "ended"}
  /\ \A k \in DOMAIN roads :
       /\ \/ k[1] = Europe /\ k[2] \in 0..(EuropeanLen - 1)
          \/ k[1] = National /\ k[2] \in 0..(NationalLen - 1)
          \/ k[1] \in Range(Counties) /\ k[2] \in 0..(RegionalLen - 1)
       /\ roads[k] = <<>> => stage = "fixing"
  /\ sorted \in BOOLEAN /\ cursor.number \in Nat /\ cursor.place \in Nat \ {0}
  /\ stage \in {"down", "ended"} => memory = <<Nothing, <<>>, <<>>>>

\* The labels in the refs of the map that count: those up to the first that
\* cannot be read, but not bare numbers behind a link.
Labels ==
  UNION {{[way |-> s.way, place |-> i, letters |-> s.ref[i].letters, number |-> s.ref[i].number] :
            i \in {i \in DOMAIN s.ref :
                     /\ \A j \in 1..i : s.ref[j].readable
                     /\ i > 1 /\ s.ref[i].letters = "" => \A j \in 1..(i - 1) :
                                                            s.ref[j].link => \E k \in (j + 1)..i : s.ref[k].letters # ""}} :
           s \in map.refs \ unread}
Type(l) == TypeOfRef(l.letters, l.number)
Kept    == {l \in Labels : Storable(l.way, Type(l), UInt16(l.number))}

\* How a text may write a label.
Spellings(l) ==
  LET word(kind, letters, number) == [kind |-> kind, letters |-> letters, number |-> number]
  IN  IF l.letters = "" THEN {<<word("way", "", 0), word("number", "", l.number)>>}
      ELSE {<<word("letters", l.letters, 0), word("number", "", l.number)>>, <<word("label", l.letters, l.number)>>}

\* Whoever stands on a road and writes its label as a text would is told that
\* this road is right here, and of which county: through the rules for refs,
\* the move into counties, the file, the rules for words, and the search over
\* all counties (sweden.cpp:1373-1525, 609-660, 1618-1783).
FindsTheirWays(labels) ==
  stage = "serving" =>
    \A l \in labels : \A c \in Places(l.way), words \in Spellings(l) :
      \E road \in IdentifyRoads(words) : \E hit \in ClosestRoadNodeToCoord(c, road[1], road[2]) :
        /\ hit.distance = 0
        /\ hit.way \in Range(Ways(roads, KeyOf(hit.type, l.number)))
LabelsFindTheirWays == FindsTheirWays({l \in Kept : l.letters # "K" /\ UInt16(l.number) = l.number})

\* Whether a place is inside a region by its edges; on an edge it may be either.
Edged(m, r, c)       == \E e \in Edges(m, r) : OnEdge(e, c)
MayBeInside(m, r, c) == Edged(m, r, c) \/ Surrounded(m, r, c)
IsInside(m, r, c)    == ~Edged(m, r, c) /\ Surrounded(m, r, c)

\* The search of a county is right about the nodes of the map, as InsideIsRight
\* says of regions: it is what a way is moved by.
CountiesAreRight ==
  \A m \in Maps : \A s \in {s \in m.codes : s.kind = "scb" /\ s.code < 100 /\ s.relation \in DOMAIN Polygons[m]} :
    \A n \in DOMAIN m.coord :
      /\ InsideRegion(Polygons[m][s.relation], m.coord[n]) => MayBeInside(m, s.relation, m.coord[n])
      /\ IsInside(m, s.relation, m.coord[n]) => InsideRegion(Polygons[m][s.relation], m.coord[n])

\* However roads are moved while the lists they are in are gone through, each
\* way is listed under its number once per label; one without a county ends
\* up in the county it lies in, one with a county stays there, and one that
\* lies in no county stays where it was (sweden.cpp:1785-1844).
Copies(way, number) ==
  Cardinality(UNION {{<<i, j>> : j \in {j \in DOMAIN OfCounty(i, number) : OfCounty(i, number)[j] = way}} :
                       i \in DOMAIN Counties})
RoadsAreWhereTheyLie ==
  /\ stage \in Tables =>
       \A l \in {l \in Kept : Type(l) \in Range(Counties)} :
         Copies(l.way, UInt16(l.number)) =
           Cardinality({o \in Kept : /\ o.way = l.way /\ UInt16(o.number) = UInt16(l.number)
                                     /\ Type(o) \in Range(Counties)})
  /\ stage \in {"saving", "serving"} =>
       \A k \in DOMAIN roads : \A way \in Range(roads[k]) :
         /\ k[1] = LanUnknown =>
              \A c \in Pivot(way), code \in LevelCounty :
                ~IsInside(map, codes.scb[code], c)
         /\ k[1] \in CountyLetters =>
              \/ \E l \in Kept : l.way = way /\ UInt16(l.number) = k[2] /\ Type(l) = k[1]
              \/ \E c \in Pivot(way), code \in LevelCounty :
                   RoadTypeForSCBarea(code) = k[1] /\ MayBeInside(map, codes.scb[code], c)

\* What a later run reads is what was in memory when the file was written
\* (sweden.cpp:707-920).
ReadAsWritten == stage = "serving" => memory = saved

\* A name finds a region of that name, wherever the halving of the list has
\* ended: the one of the highest level, unless it shares its level with
\* another, where the steps back end (sweden.cpp:177-216).
HighestUnlessTwins ==
  stage = "serving" =>
    \A name \in DOMAIN Normal :
      LET same == {s \in map.regions : Registered(s) /\ Normal[s.name] = Normal[name]}
      IN  IF same = {} THEN Retrieve(regions, name) = 0
          ELSE \E s \in same : /\ s.relation = Retrieve(regions, name)
                               /\ \/ \A o \in same : s.level <= o.level
                                  \/ \E t \in same \ {s} : t.level = s.level

\* In whatever order and direction a region's ways are listed, a point is
\* found inside exactly if the outline surrounds it, if no edge is so long that
\* products of its extents overflow (sweden.cpp:304-553).
InsideIsRight ==
  stage = "saving" =>
    \A r \in {r \in DOMAIN Polygons[map] : EdgesFit(map, r)}, c \in Points :
      (Inside(c, r) => MayBeInside(map, r, c)) /\ (IsInside(map, r, c) => Inside(c, r))

\* A region that is not wholly in the map is left out of the analysis: it does
\* not end the program (sweden.cpp:493-497 against 525).
PartialRegionsAreIgnored == stage = "ended" => file # NoFile /\ CannotRead(file)
=============================================================================
