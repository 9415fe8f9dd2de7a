---------------------------- MODULE SwedenProofs ----------------------------
(***************************************************************************)
(* Proofs about Sweden: what a saved file holds is what is loaded; every   *)
(* label that a map has is listed, counted once per label, and no way is   *)
(* listed where neither a label nor its place puts it; so roads are in     *)
(* their counties, and labels find their ways.                             *)
(***************************************************************************)
EXTENDS Sweden, NatSetTheorems

-----------------------------------------------------------------------------
(* The keys and lists of the table of roads.                               *)

LEMMA CountyNames ==
  Range(Counties) = {"M", "K", "I", "H", "G", "N", "O", "F", "E", "D", "AB", "C", "U", "T", "S", "W",
                     "X", "Z", "Y", "AC", "BD", LanUnknown}
PROOF
  <1>1. DOMAIN Counties = 1..22
    BY DEF Counties
  <1>2. \A i \in 1..22 : \/ i = 1 \/ i = 2 \/ i = 3 \/ i = 4 \/ i = 5 \/ i = 6 \/ i = 7 \/ i = 8 \/ i = 9
                         \/ i = 10 \/ i = 11 \/ i = 12 \/ i = 13 \/ i = 14 \/ i = 15 \/ i = 16 \/ i = 17
                         \/ i = 18 \/ i = 19 \/ i = 20 \/ i = 21 \/ i = 22
    OBVIOUS
  <1> DEFINE names == {"M", "K", "I", "H", "G", "N", "O", "F", "E", "D", "AB", "C", "U", "T", "S", "W",
                       "X", "Z", "Y", "AC", "BD", LanUnknown}
  <1>3. \A i \in 1..22 : Counties[i] \in names
    BY <1>2 DEF Counties
  <1>4. \A name \in names : \E i \in 1..22 : Counties[i] = name
    BY DEF Counties
  <1> HIDE DEF names
  <1>5. Range(Counties) = names
    BY <1>1, <1>3, <1>4 DEF Range
  <1> QED BY <1>5 DEF names

LEMMA EuropeanNumbers ==
  /\ EuropeanRoadNumbers \in Seq(Nat) /\ Len(EuropeanRoadNumbers) = 14
  /\ DOMAIN EuropeanRoadNumbers = 1..14
  /\ Range(EuropeanRoadNumbers) = {4, 6, 10, 12, 14, 16, 18, 20, 22, 45, 47, 55, 65, 265}
PROOF
  <1>1. DOMAIN EuropeanRoadNumbers = 1..14 /\ Len(EuropeanRoadNumbers) = 14
    BY DEF EuropeanRoadNumbers
  <1>2. \A i \in 1..14 : \/ i = 1 \/ i = 2 \/ i = 3 \/ i = 4 \/ i = 5 \/ i = 6 \/ i = 7 \/ i = 8 \/ i = 9
                         \/ i = 10 \/ i = 11 \/ i = 12 \/ i = 13 \/ i = 14
    OBVIOUS
  <1> DEFINE numbers == {4, 6, 10, 12, 14, 16, 18, 20, 22, 45, 47, 55, 65, 265}
  <1>3. \A i \in 1..14 : EuropeanRoadNumbers[i] \in numbers
    BY <1>2 DEF EuropeanRoadNumbers
  <1>4. \A n \in numbers : \E i \in 1..14 : EuropeanRoadNumbers[i] = n
    BY DEF EuropeanRoadNumbers
  <1>5. Range(EuropeanRoadNumbers) = numbers
    <2> HIDE DEF numbers
    <2> QED BY <1>1, <1>3, <1>4 DEF Range
  <1>6. EuropeanRoadNumbers \in Seq(Nat)
    BY DEF EuropeanRoadNumbers
  <1> QED BY <1>1, <1>5, <1>6

\* No two European roads share a place in the table.
LEMMA EuropeanIndices ==
  /\ \A n \in Range(EuropeanRoadNumbers) : EuropeanRoadNumberToIndex(n) \in 0..(EuropeanLen - 1)
  /\ \A m, n \in Range(EuropeanRoadNumbers) :
       EuropeanRoadNumberToIndex(m) = EuropeanRoadNumberToIndex(n) => m = n
PROOF
  BY EuropeanNumbers DEF EuropeanRoadNumberToIndex, EuropeanLen

LEMMA EuropeanPlaces ==
  \A i, j \in 1..14 : EuropeanRoadNumbers[i] = EuropeanRoadNumbers[j] => i = j
PROOF
  <1>1. \A i \in 1..14 : \/ i = 1 \/ i = 2 \/ i = 3 \/ i = 4 \/ i = 5 \/ i = 6 \/ i = 7 \/ i = 8 \/ i = 9
                         \/ i = 10 \/ i = 11 \/ i = 12 \/ i = 13 \/ i = 14
    OBVIOUS
  <1>2. \A i, j \in 1..14 : i < j => EuropeanRoadNumbers[i] < EuropeanRoadNumbers[j]
    BY <1>1 DEF EuropeanRoadNumbers
  <1>3. \A i \in 1..14 : EuropeanRoadNumbers[i] \in Nat
    BY <1>1 DEF EuropeanRoadNumbers
  <1> SUFFICES ASSUME NEW i \in 1..14, NEW j \in 1..14, EuropeanRoadNumbers[i] = EuropeanRoadNumbers[j]
               PROVE  i = j
    OBVIOUS
  <1>4. ~(i < j) /\ ~(j < i)
    <2>1. EuropeanRoadNumbers[i] \in Nat /\ EuropeanRoadNumbers[j] \in Nat
      BY <1>3
    <2>2. ~(EuropeanRoadNumbers[i] < EuropeanRoadNumbers[j]) /\ ~(EuropeanRoadNumbers[j] < EuropeanRoadNumbers[i])
      BY <2>1
    <2> QED BY <2>2, <1>2
  <1> QED BY <1>4

-----------------------------------------------------------------------------
\* The ways that refs speak of; the keys that have a list; what the table can
\* be, and when it has no list without ways.
AllWays == {s.way : s \in UNION {m.refs : m \in Maps}}
EuropeanKeys == {KeyOf(Europe, n) : n \in Range(EuropeanRoadNumbers)}
Keys == EuropeanKeys \cup ({National} \X (0..(NationalLen - 1)))
        \cup (Range(Counties) \X (0..(RegionalLen - 1)))
IsTable(table) == DOMAIN table \in SUBSET Keys /\ table \in [DOMAIN table -> Seq(AllWays)]
IsFull(table) == \A k \in DOMAIN table : table[k] # <<>>

\* What a label says: the kind of road, and that of a European road the number.
RoadTypes == {Europe, National} \cup Range(Counties)
Roads == {road \in RoadTypes \X Nat : road[1] = Europe => UInt16(road[2]) \in Range(EuropeanRoadNumbers)}

\* A key is of one of three kinds.
LEMMA KindsOfKeys ==
  /\ Europe # National /\ Europe \notin Range(Counties) /\ National \notin Range(Counties)
  /\ LanUnknown \in Range(Counties) /\ CountyLetters \subseteq Range(Counties)
  /\ \A k \in Keys : k = <<k[1], k[2]>> /\ k[1] \in RoadTypes /\ k[2] \in Nat
  /\ \A k \in Keys : k[1] = Europe   => k \in EuropeanKeys /\ k[2] \in 0..(EuropeanLen - 1)
  /\ \A k \in Keys : k[1] = National => k[2] \in 0..(NationalLen - 1)
  /\ \A k \in Keys : k[1] \in Range(Counties) => k[2] \in 0..(RegionalLen - 1)
  /\ \A k \in EuropeanKeys : k[1] = Europe
PROOF
  <1>1. /\ Europe # National /\ Europe \notin Range(Counties) /\ National \notin Range(Counties)
        /\ LanUnknown \in Range(Counties) /\ CountyLetters \subseteq Range(Counties)
    BY CountyNames DEF Europe, National, LanUnknown, CountyLetters
  <1>2. \A k \in EuropeanKeys : k = <<k[1], k[2]>> /\ k[1] = Europe /\ k[2] \in 0..(EuropeanLen - 1)
    BY EuropeanIndices DEF EuropeanKeys, KeyOf
  <1>3. EuropeanLen \in Nat /\ NationalLen \in Nat /\ RegionalLen \in Nat
    BY DEF EuropeanLen, NationalLen, RegionalLen
  <1>4. ASSUME NEW k \in Keys
        PROVE  \/ k \in EuropeanKeys
               \/ k = <<National, k[2]>> /\ k[1] = National /\ k[2] \in 0..(NationalLen - 1)
               \/ k = <<k[1], k[2]>> /\ k[1] \in Range(Counties) /\ k[2] \in 0..(RegionalLen - 1)
    <2> DEFINE N == 0..(NationalLen - 1)
               C == 0..(RegionalLen - 1)
               R == Range(Counties)
    <2>0. Keys = EuropeanKeys \cup ({National} \X N) \cup (R \X C)
      BY DEF Keys
    <2> HIDE DEF N, C, R
    <2>1. k \in EuropeanKeys \/ k \in {National} \X N \/ k \in R \X C
      BY <2>0
    <2>2. \A A, B : k \in A \X B => k = <<k[1], k[2]>> /\ k[1] \in A /\ k[2] \in B
      OBVIOUS
    <2>3. CASE k \in {National} \X N
      BY <2>2, <2>3, Zenon DEF N
    <2>4. CASE k \in R \X C
      BY <2>2, <2>4, Zenon DEF R, C
    <2> QED BY <2>1, <2>3, <2>4
  <1>5. \A n : (n \in 0..(EuropeanLen - 1) => n \in Nat) /\ (n \in 0..(NationalLen - 1) => n \in Nat)
               /\ (n \in 0..(RegionalLen - 1) => n \in Nat)
    BY <1>3
  <1>6. ASSUME NEW k \in Keys
        PROVE  /\ k = <<k[1], k[2]>> /\ k[1] \in RoadTypes /\ k[2] \in Nat
               /\ k[1] = Europe   => k \in EuropeanKeys /\ k[2] \in 0..(EuropeanLen - 1)
               /\ k[1] = National => k[2] \in 0..(NationalLen - 1)
               /\ k[1] \in Range(Counties) => k[2] \in 0..(RegionalLen - 1)
    <2>1. CASE k \in EuropeanKeys
      BY <2>1, <1>1, <1>2, <1>5, Zenon DEF RoadTypes
    <2>2. CASE k = <<National, k[2]>> /\ k[1] = National /\ k[2] \in 0..(NationalLen - 1)
      BY <2>2, <1>1, <1>5, Zenon DEF RoadTypes
    <2>3. CASE k = <<k[1], k[2]>> /\ k[1] \in Range(Counties) /\ k[2] \in 0..(RegionalLen - 1)
      BY <2>3, <1>1, <1>5, Zenon DEF RoadTypes
    <2> QED BY <1>4, <2>1, <2>2, <2>3
  <1> QED BY <1>1, <1>2, <1>6

LEMMA UInt16Type == \A n \in Nat : UInt16(n) \in Nat
PROOF
  BY DEF UInt16

LEMMA LabelsAreRoads ==
  \A l \in RefLabels : <<TypeOfRef(l.letters, l.number), l.number>> \in Roads
PROOF
  <1> SUFFICES ASSUME NEW l \in RefLabels
               PROVE  <<TypeOfRef(l.letters, l.number), l.number>> \in Roads
    OBVIOUS
  <1>1. l.letters \in CountyLetters \cup {""} /\ l.number \in Nat
    BY DEF RefLabels
  <1> DEFINE type == TypeOfRef(l.letters, l.number)
  <1>2. type \in RoadTypes /\ (type = Europe => UInt16(l.number) \in Range(EuropeanRoadNumbers))
    <2>1. CASE l.letters = ""
      BY <2>1, KindsOfKeys, <1>1 DEF TypeOfRef, RoadTypes
    <2>2. CASE l.letters = "E"
      <3>1. type = IdentifyEroad(UInt16(l.number))
        BY <2>2 DEF TypeOfRef
      <3>2. "E" \in Range(Counties)
        BY CountyNames
      <3> QED BY <3>1, <3>2, KindsOfKeys DEF IdentifyEroad, RoadTypes
    <2>3. CASE l.letters = "K"
      <3>1. type = "M"
        BY <2>3 DEF TypeOfRef
      <3>2. "M" \in Range(Counties)
        BY CountyNames
      <3> QED BY <3>1, <3>2, KindsOfKeys DEF RoadTypes
    <2>4. CASE l.letters # "" /\ l.letters # "E" /\ l.letters # "K"
      <3>1. type = l.letters
        BY <2>4 DEF TypeOfRef
      <3> QED BY <3>1, <2>4, <1>1, KindsOfKeys DEF RoadTypes
    <2> QED BY <2>1, <2>2, <2>3, <2>4
  <1> QED BY <1>1, <1>2 DEF Roads

LEMMA PushBackKeepsTable ==
  ASSUME NEW table, IsTable(table), NEW key \in Keys, NEW way \in AllWays
  PROVE  /\ IsTable(PushBack(table, key, way))
         /\ PushBack(table, key, way)[key] # <<>>
         /\ DOMAIN PushBack(table, key, way) = DOMAIN table \cup {key}
         /\ \A k \in DOMAIN table : k # key => PushBack(table, key, way)[k] = table[k]
PROOF
  <1> DEFINE after == PushBack(table, key, way)
  <1>1. /\ DOMAIN after = DOMAIN table \cup {key}
        /\ after = [k \in DOMAIN after |-> after[k]]
        /\ after[key] = Append(Ways(table, key), way)
        /\ \A k \in DOMAIN table : k # key => after[k] = table[k]
    BY DEF PushBack
  <1>2. Ways(table, key) \in Seq(AllWays)
    <2>1. <<>> \in Seq(AllWays)
      OBVIOUS
    <2> QED BY <2>1 DEF Ways, IsTable
  <1>3. after[key] \in Seq(AllWays) /\ Len(after[key]) = Len(Ways(table, key)) + 1
    BY <1>1, <1>2
  <1>4. after[key] # <<>>
    <2>1. Len(Ways(table, key)) \in Nat
      BY <1>2
    <2>2. Len(after[key]) # 0
      BY <2>1, <1>3
    <2> QED BY <2>2
  <1>5. \A k \in DOMAIN after : k \in Keys /\ after[k] \in Seq(AllWays)
    <2> HIDE DEF after
    <2>1. \A k \in DOMAIN table : k \in Keys /\ table[k] \in Seq(AllWays)
      BY DEF IsTable
    <2> QED BY <1>1, <1>3, <2>1, Zenon
  <1>6. IsTable(after)
    <2> HIDE DEF after
    <2>1. after \in [DOMAIN after -> Seq(AllWays)]
      BY <1>1, <1>5
    <2> QED BY <1>5, <2>1 DEF IsTable
  <1> QED BY <1>1, <1>4, <1>6

\* A list that is added to is not empty, and no other one becomes so.
LEMMA PushBackKeepsFull ==
  ASSUME NEW table, IsTable(table), IsFull(table), NEW key \in Keys, NEW way \in AllWays
  PROVE  IsFull(PushBack(table, key, way))
PROOF
  <1> DEFINE after == PushBack(table, key, way)
  <1>1. /\ after[key] # <<>>
        /\ DOMAIN after = DOMAIN table \cup {key}
        /\ \A k \in DOMAIN table : k # key => after[k] = table[k]
    BY PushBackKeepsTable
  <1> HIDE DEF after
  <1>2. IsFull(after)
    BY <1>1 DEF IsFull
  <1> QED BY <1>2 DEF after

LEMMA InsertKeepsTable ==
  ASSUME NEW table, IsTable(table), IsFull(table), NEW way \in AllWays, NEW road \in Roads
  PROVE  /\ IsTable(InsertWayAsRoad(table, way, road[1], road[2]))
         /\ IsFull(InsertWayAsRoad(table, way, road[1], road[2]))
PROOF
  <1>1. road[1] \in RoadTypes /\ road[2] \in Nat
        /\ (road[1] = Europe => UInt16(road[2]) \in Range(EuropeanRoadNumbers))
    BY DEF Roads
  <1> DEFINE type == road[1]
             number == UInt16(road[2])
  <1>2. number \in Nat
    BY <1>1, UInt16Type
  <1>3. Storable(way, type, number) => KeyOf(type, number) \in Keys
    <2> SUFFICES ASSUME Storable(way, type, number)
                 PROVE  KeyOf(type, number) \in Keys
      OBVIOUS
    <2>1. CASE type = Europe
      BY <2>1, <1>1 DEF EuropeanKeys, Keys
    <2>2. CASE type = National
      <3>1. number < NationalLen
        BY <2>2 DEF Storable
      <3>2. number \in 0..(NationalLen - 1)
        <4> HIDE DEF number
        <4> QED BY <3>1, <1>2 DEF NationalLen
      <3>3. KeyOf(type, number) = <<National, number>>
        BY <2>2, KindsOfKeys DEF KeyOf
      <3> HIDE DEF number
      <3> QED BY <3>2, <3>3 DEF Keys
    <2>3. CASE type \in Range(Counties)
      <3>1. number < RegionalLen
        BY <2>3 DEF Storable
      <3>2. number \in 0..(RegionalLen - 1)
        <4> HIDE DEF number
        <4> QED BY <3>1, <1>2 DEF RegionalLen
      <3>3. KeyOf(type, number) = <<type, number>>
        BY <2>3, KindsOfKeys DEF KeyOf
      <3> HIDE DEF number
      <3> QED BY <3>2, <3>3, <2>3 DEF Keys
    <2> QED BY <1>1, <2>1, <2>2, <2>3 DEF RoadTypes
  <1>4. CASE Storable(way, type, number)
    <2>1. InsertWayAsRoad(table, way, road[1], road[2]) = PushBack(table, KeyOf(type, number), way)
      BY <1>4 DEF InsertWayAsRoad
    <2> DEFINE key == KeyOf(type, number)
    <2>2. key \in Keys
      BY <1>3, <1>4
    <2> HIDE DEF type, number, key
    <2>3. IsTable(PushBack(table, key, way)) /\ IsFull(PushBack(table, key, way))
      BY <2>2, PushBackKeepsTable, PushBackKeepsFull
    <2> QED BY <2>1, <2>3 DEF key
  <1>5. CASE ~Storable(way, type, number)
    BY <1>5 DEF InsertWayAsRoad
  <1> QED BY <1>4, <1>5

\* What is known after some labels of a ref, and what one label makes of it.
Reading0 == [over |-> FALSE, link |-> FALSE, found |-> <<>>]
Readings == [over : BOOLEAN, link : BOOLEAN, found : Seq(Roads)]
RoadOf(l) == <<TypeOfRef(l.letters, l.number), l.number>>
ReadOn(s, l) ==
  IF s.over \/ (s.link /\ l.letters = "" /\ l.readable) THEN s
  ELSE IF ~l.readable THEN [s EXCEPT !.over = TRUE]
  ELSE [over |-> FALSE, link |-> l.link, found |-> Append(s.found, RoadOf(l))]
GoesOn(read, ref) ==
  read[0] = Reading0 /\ \A i \in 1..Len(ref) : read[i] = ReadOn(read[i - 1], ref[i])

LEMMA ReadOnType ==
  ASSUME NEW s \in Readings, NEW l \in RefLabels
  PROVE  ReadOn(s, l) \in Readings
PROOF
  <1>1. RoadOf(l) \in Roads
    BY LabelsAreRoads DEF RoadOf
  <1>2. Append(s.found, RoadOf(l)) \in Seq(Roads)
    BY <1>1 DEF Readings
  <1>3. l.link \in BOOLEAN
    BY DEF RefLabels
  <1>4. CASE s.over \/ (s.link /\ l.letters = "" /\ l.readable)
    BY <1>4 DEF ReadOn
  <1>5. CASE ~(s.over \/ (s.link /\ l.letters = "" /\ l.readable)) /\ ~l.readable
    BY <1>5 DEF ReadOn, Readings
  <1>6. CASE ~(s.over \/ (s.link /\ l.letters = "" /\ l.readable)) /\ l.readable
    BY <1>6, <1>2, <1>3 DEF ReadOn, Readings
  <1> QED BY <1>4, <1>5, <1>6

\* A ref is read label by label.
LEMMA RefsAreRead ==
  ASSUME NEW ref \in Seq(RefLabels)
  PROVE  \E read \in [0..Len(ref) -> Readings] : GoesOn(read, ref) /\ RefRoads(ref) = read[Len(ref)].found
PROOF
  <1> DEFINE n == Len(ref)
             After(s, l) ==
               IF s.over \/ (s.link /\ l.letters = "" /\ l.readable) THEN s
               ELSE IF ~l.readable THEN [s EXCEPT !.over = TRUE]
               ELSE [over |-> FALSE, link |-> l.link,
                     found |-> Append(s.found, <<TypeOfRef(l.letters, l.number), l.number>>)]
             Read0 == [over |-> FALSE, link |-> FALSE, found |-> <<>>]
             IsRead(f) == f = [i \in 0..n |-> IF i = 0 THEN Read0 ELSE After(f[i - 1], ref[i])]
             read == CHOOSE f : IsRead(f)
             step == [p \in (1..n) \X Readings |-> ReadOn(p[2], ref[p[1]])]
  <1>1. n \in Nat /\ Reading0 \in Readings /\ Read0 = Reading0
    BY DEF Reading0, Readings
  <1>2. \A s, l : After(s, l) = ReadOn(s, l)
    BY Zenon DEF ReadOn, RoadOf
  <1>3. \A i \in 1..n, s \in Readings : ReadOn(s, ref[i]) \in Readings
    <2>1. \A i \in 1..n : ref[i] \in RefLabels
      OBVIOUS
    <2> HIDE DEF n
    <2> QED BY <2>1, ReadOnType
  <1>4. \E f \in [0..n -> Readings] : IsRead(f)
    <2>1. \A i \in 1..n, s \in Readings : step[<<i, s>>] = ReadOn(s, ref[i])
      <3> HIDE DEF After
      <3> QED OBVIOUS
    <2>2. \A i \in 1..n, s \in Readings : step[<<i, s>>] \in Readings
      <3> HIDE DEF After, step
      <3> QED BY <2>1, <1>3
    <2>3. PICK g \in [0..n -> Readings] : IsRecursion(g, n, Reading0, step)
      <3> HIDE DEF After, step, n
      <3> QED BY <1>1, <2>2, RecursionExists
    <2>4. \A i \in 0..n : (IF i = 0 THEN Reading0 ELSE step[<<i, g[i - 1]>>])
                          = (IF i = 0 THEN Read0 ELSE After(g[i - 1], ref[i]))
      <3> SUFFICES ASSUME NEW i \in 0..n, i # 0
                   PROVE  step[<<i, g[i - 1]>>] = After(g[i - 1], ref[i])
        BY <1>1
      <3>1. i \in 1..n /\ i - 1 \in 0..n
        BY <1>1
      <3> HIDE DEF After, step
      <3> QED BY <3>1, <2>1, <1>2
    <2>5. IsRead(g)
      <3> HIDE DEF After, step, n, Read0
      <3> QED BY <2>3, <2>4, Zenon DEF IsRecursion
    <2> HIDE DEF IsRead
    <2> QED BY <2>5, Zenon
  <1>5. IsRead(read)
    <2> HIDE DEF IsRead
    <2> QED BY <1>4, Zenon
  <1>6. RefRoads(ref) = read[n].found
    BY Zenon DEF RefRoads
  <1>7. GoesOn(read, ref)
    <2>1. 0 \in 0..n /\ \A i \in 1..n : i \in 0..n /\ i # 0
      BY <1>1
    <2> HIDE DEF read, After, Read0
    <2>2. read[0] = Read0 /\ \A i \in 1..n : read[i] = After(read[i - 1], ref[i])
      BY <1>5, <2>1
    <2> QED BY <1>1, <1>2, <2>2 DEF GoesOn
  <1> DEFINE Typed == {i \in 0..n : read[i] \in Readings}
  <1>8. 0..n \subseteq Typed
    <2> HIDE DEF read
    <2>1. 0 \in Typed
      BY <1>1, <1>7 DEF GoesOn
    <2>2. \A i \in 0..(n - 1) : i \in Typed => i + 1 \in Typed
      <3> SUFFICES ASSUME NEW i \in 0..(n - 1), i \in Typed
                   PROVE  i + 1 \in Typed
        OBVIOUS
      <3>1. i + 1 \in 1..n /\ i + 1 \in 0..n /\ (i + 1) - 1 = i
        BY <1>1
      <3>2. read[i + 1] = ReadOn(read[i], ref[i + 1])
        BY <3>1, <1>7 DEF GoesOn
      <3> QED BY <3>1, <3>2, <1>3
    <2> HIDE DEF Typed, n
    <2> QED BY <2>1, <2>2, <1>1, IntervalInduction
  <1>9. read \in [0..n -> Readings]
    <2>1. read = [i \in 0..n |-> read[i]]
      <3> HIDE DEF read, After, Read0
      <3> QED BY <1>5
    <2> HIDE DEF read, n
    <2> QED BY <2>1, <1>8
  <1> HIDE DEF read
  <1> QED BY <1>6, <1>7, <1>9

\* What is read of a ref are roads.
LEMMA RefsAreRoads ==
  ASSUME NEW ref \in Seq(RefLabels)
  PROVE  RefRoads(ref) \in Seq(Roads)
PROOF
  <1>1. PICK read \in [0..Len(ref) -> Readings] : RefRoads(ref) = read[Len(ref)].found
    BY RefsAreRead
  <1>2. Len(ref) \in 0..Len(ref)
    OBVIOUS
  <1> QED BY <1>1, <1>2 DEF Readings

\* A way is put into one list after the other.
Enters(with, table, way, found) ==
  /\ with[0] = table
  /\ \A i \in 1..Len(found) : with[i] = InsertWayAsRoad(with[i - 1], way, found[i][1], found[i][2])

LEMMA WaysAreEntered ==
  ASSUME NEW table, IsTable(table), IsFull(table), NEW way \in AllWays, NEW found \in Seq(Roads)
  PROVE  \E with : /\ Enters(with, table, way, found) /\ WithRoads(table, way, found) = with[Len(found)]
                   /\ \A i \in 0..Len(found) : IsTable(with[i]) /\ IsFull(with[i])
PROOF
  <1> DEFINE n == Len(found)
             Full == {t \in UNION {[D -> Seq(AllWays)] : D \in SUBSET Keys} : IsTable(t) /\ IsFull(t)}
             After(t, i) == InsertWayAsRoad(t, way, found[i][1], found[i][2])
             IsWith(f) == f = [i \in 0..n |-> IF i = 0 THEN table ELSE After(f[i - 1], i)]
             with == CHOOSE f : IsWith(f)
             step == [p \in (1..n) \X Full |-> After(p[2], p[1])]
  <1>0. \A t : t \in Full <=> IsTable(t) /\ IsFull(t)
    BY Zenon DEF IsTable
  <1>1. n \in Nat /\ table \in Full
    <2> HIDE DEF Full
    <2> QED BY <1>0
  <1>2. \A i \in 1..n, t \in Full : After(t, i) \in Full
    <2> SUFFICES ASSUME NEW i \in 1..n, NEW t \in Full
                 PROVE  After(t, i) \in Full
      OBVIOUS
    <2> DEFINE road == found[i]
    <2>1. road \in Roads
      OBVIOUS
    <2>2. IsTable(t) /\ IsFull(t)
      OBVIOUS
    <2> HIDE DEF Full, road
    <2>3. /\ IsTable(InsertWayAsRoad(t, way, road[1], road[2]))
          /\ IsFull(InsertWayAsRoad(t, way, road[1], road[2]))
      BY <2>1, <2>2, InsertKeepsTable
    <2> QED BY <2>3, <1>0 DEF road
  <1>3. IsWith(with)
    <2>1. \A i \in 1..n, t \in Full : step[<<i, t>>] = After(t, i)
      <3> HIDE DEF After, Full
      <3> QED OBVIOUS
    <2>2. \A i \in 1..n, t \in Full : step[<<i, t>>] \in Full
      <3> HIDE DEF After, Full, step
      <3> QED BY <2>1, <1>2
    <2>3. PICK g \in [0..n -> Full] : IsRecursion(g, n, table, step)
      <3> HIDE DEF After, Full, step, n
      <3> QED BY <1>1, <2>2, RecursionExists
    <2>4. \A i \in 0..n : (IF i = 0 THEN table ELSE step[<<i, g[i - 1]>>])
                          = (IF i = 0 THEN table ELSE After(g[i - 1], i))
      <3> SUFFICES ASSUME NEW i \in 0..n, i # 0
                   PROVE  step[<<i, g[i - 1]>>] = After(g[i - 1], i)
        OBVIOUS
      <3>1. i \in 1..n /\ i - 1 \in 0..n
        BY <1>1
      <3> HIDE DEF After, Full, step
      <3> QED BY <3>1, <2>1
    <2>5. IsWith(g)
      <3> HIDE DEF After, Full, step, n
      <3> QED BY <2>3, <2>4, Zenon DEF IsRecursion
    <2> HIDE DEF IsWith
    <2> QED BY <2>5, Zenon
  <1>4. WithRoads(table, way, found) = with[n]
    BY Zenon DEF WithRoads
  <1> DEFINE Typed == {i \in 0..n : with[i] \in Full}
  <1>5. 0..n \subseteq Typed
    <2> HIDE DEF with, After, Full
    <2>1. 0 \in Typed
      BY <1>1, <1>3
    <2>2. \A i \in 0..(n - 1) : i \in Typed => i + 1 \in Typed
      <3> SUFFICES ASSUME NEW i \in 0..(n - 1), i \in Typed
                   PROVE  i + 1 \in Typed
        OBVIOUS
      <3>1. i + 1 \in 1..n /\ i + 1 \in 0..n /\ i + 1 # 0 /\ (i + 1) - 1 = i
        BY <1>1
      <3>2. with[i + 1] = After(with[i], i + 1)
        BY <3>1, <1>3
      <3> QED BY <3>1, <3>2, <1>2
    <2> HIDE DEF Typed, n
    <2> QED BY <2>1, <2>2, <1>1, IntervalInduction
  <1>6. Enters(with, table, way, found)
    <2>1. 0 \in 0..n /\ \A i \in 1..n : i \in 0..n /\ i # 0
      BY <1>1
    <2> HIDE DEF with, After
    <2>2. with[0] = table /\ \A i \in 1..n : with[i] = After(with[i - 1], i)
      BY <1>3, <2>1
    <2> QED BY <2>2 DEF Enters, After
  <1>7. \A i \in 0..n : IsTable(with[i]) /\ IsFull(with[i])
    <2> HIDE DEF with, n, Full
    <2> QED BY <1>0, <1>5
  <1> HIDE DEF with, Full
  <1> QED BY <1>4, <1>6, <1>7

\* A ref leaves a table without empty lists.
LEMMA RefsKeepTable ==
  ASSUME NEW table, IsTable(table), IsFull(table), NEW way \in AllWays, NEW found \in Seq(Roads)
  PROVE  IsTable(WithRoads(table, way, found)) /\ IsFull(WithRoads(table, way, found))
PROOF
  <1>1. Len(found) \in 0..Len(found)
    OBVIOUS
  <1> QED BY <1>1, WaysAreEntered

-----------------------------------------------------------------------------
(* Types.                                                                  *)

Stages == Tables \cup {"down", "ended"}

\* While the table is gone through, only the list that is gone through can
\* have lost its last way.
TableInv ==
  /\ IsTable(roads)
  /\ stage # "fixing" => IsFull(roads)
  /\ \A k \in DOMAIN roads : roads[k] = <<>> => k = <<LanUnknown, cursor.number>>

\* What has been written can be read again, and is what is read.
FileInv ==
  file # NoFile => /\ saved = <<file.codes, RoadsRead(file), file.regions>>
                   /\ IsTable(RoadsRead(file)) /\ IsFull(RoadsRead(file))
ServedInv == stage = "serving" => file # NoFile /\ memory = saved

TypeInv ==
  /\ map \in Maps /\ unread \subseteq Statements(map)
  /\ stage \in Stages /\ sorted \in BOOLEAN
  /\ cursor \in [number : Nat, place : Nat \ {0}]
  /\ stage \in {"down", "ended"} => codes = Nothing /\ roads = <<>> /\ regions = <<>>
  /\ TableInv

\* Where the loop over the numbers without a county is.
LEMMA CurrentIsFirst ==
  ASSUME IsTable(roads), cursor.number \in Nat, Ahead # {}
  PROVE  /\ Current \in Nat /\ Current >= cursor.number
         /\ <<LanUnknown, Current>> \in DOMAIN roads /\ <<LanUnknown, Current>> \in Keys
         /\ \A n : n >= cursor.number /\ <<LanUnknown, n>> \in DOMAIN roads => Current <= n
         /\ List \in Seq(AllWays)
PROOF
  <1>1. \A n : n \in Unlabeled <=> <<LanUnknown, n>> \in DOMAIN roads
    <2> SUFFICES ASSUME NEW n
                 PROVE  n \in Unlabeled <=> <<LanUnknown, n>> \in DOMAIN roads
      OBVIOUS
    <2>1. ASSUME n \in Unlabeled
          PROVE  <<LanUnknown, n>> \in DOMAIN roads
      <3>1. PICK k \in DOMAIN roads : k[1] = LanUnknown /\ n = k[2]
        BY <2>1 DEF Unlabeled
      <3>2. k \in Keys
        BY DEF IsTable
      <3>3. k = <<k[1], k[2]>>
        BY <3>2, KindsOfKeys
      <3>4. k = <<LanUnknown, n>>
        BY <3>1, <3>3, Zenon
      <3> QED BY <3>4
    <2>2. ASSUME <<LanUnknown, n>> \in DOMAIN roads
          PROVE  n \in Unlabeled
      BY <2>2 DEF Unlabeled
    <2> QED BY <2>1, <2>2
  <1>2. \A n \in Unlabeled : n \in Nat
    <2> SUFFICES ASSUME NEW n \in Unlabeled
                 PROVE  n \in Nat
      OBVIOUS
    <2>1. <<LanUnknown, n>> \in Keys
      BY <1>1 DEF IsTable
    <2>2. <<LanUnknown, n>>[2] \in Nat
      BY <2>1, KindsOfKeys
    <2> QED BY <2>2
  <1>3. Ahead \in SUBSET Nat
    BY <1>2 DEF Ahead
  <1>4. \E m \in Ahead : \A n \in Ahead : m <= n
    BY <1>3, LeastExists
  <1>5. Current \in Ahead /\ \A n \in Ahead : Current <= n
    BY <1>4, Zenon DEF Current, Min
  <1> HIDE DEF Current
  <1>6. Current \in Nat /\ Current >= cursor.number /\ <<LanUnknown, Current>> \in DOMAIN roads
    BY <1>1, <1>3, <1>5 DEF Ahead
  <1>7. ASSUME NEW n, n >= cursor.number, <<LanUnknown, n>> \in DOMAIN roads
        PROVE  Current <= n
    BY <1>7, <1>1, <1>5 DEF Ahead
  <1>8. <<LanUnknown, Current>> \in Keys /\ List \in Seq(AllWays)
    BY <1>6 DEF IsTable, List
  <1> QED BY <1>6, <1>7, <1>8

LEMMA StatementsAreTyped ==
  ASSUME map \in Maps, NEW s \in map.refs
  PROVE  s.way \in AllWays /\ RefRoads(s.ref) \in Seq(Roads)
PROOF
  <1>1. s.ref \in Seq(RefLabels)
    BY MapsAssumption
  <1>2. s.way \in AllWays
    BY DEF AllWays
  <1> QED BY <1>1, <1>2, RefsAreRoads

LEMMA EmptyTable == IsTable(<<>>) /\ IsFull(<<>>)
PROOF
  BY DEF IsTable, IsFull

LEMMA ClearedIsTyped ==
  ASSUME map' \in Maps, unread' \subseteq Statements(map'), stage' \in Stages,
         NEW rest, Cleared(rest)
  PROVE  TypeInv'
PROOF
  <1>1. /\ codes' = Nothing /\ roads' = <<>> /\ regions' = <<>> /\ sorted' = FALSE
        /\ cursor' = [number |-> 0, place |-> 1]
    BY DEF Cleared
  <1>2. TableInv'
    BY <1>1, EmptyTable DEF TableInv
  <1>3. cursor' \in [number : Nat, place : Nat \ {0}] /\ sorted' \in BOOLEAN
    <2>1. [number |-> 0, place |-> 1] \in [number : Nat, place : Nat \ {0}]
      OBVIOUS
    <2> QED BY <1>1, <2>1, Zenon
  <1> QED BY <1>1, <1>2, <1>3 DEF TypeInv

-----------------------------------------------------------------------------
(* What is read is what was written.                                       *)

\* Pairs of places and what lies there make a table of it.
LEMMA PairsMakeTable ==
  ASSUME NEW D, NEW t
  PROVE  LET pairs == {<<k, t[k]>> : k \in D}
         IN  DOMAIN AsTable(pairs) = D /\ \A k \in D : AsTable(pairs)[k] = t[k]
PROOF
  <1> DEFINE pairs == {<<k, t[k]>> : k \in D}
  <1>1. \A p \in pairs : p[1] \in D /\ p[2] = t[p[1]]
    OBVIOUS
  <1>2. \A k \in D : <<k, t[k]>> \in pairs /\ <<k, t[k]>>[1] = k
    OBVIOUS
  <1>3. {p[1] : p \in pairs} = D
    <2> HIDE DEF pairs
    <2>1. \A k \in D : \E p \in pairs : p[1] = k
      BY <1>2
    <2> QED BY <1>1, <2>1
  <1>4. ASSUME NEW k \in D
        PROVE  (CHOOSE p \in pairs : p[1] = k)[2] = t[k]
    <2> DEFINE q == CHOOSE p \in pairs : p[1] = k
    <2>1. \E p \in pairs : p[1] = k
      <3> HIDE DEF pairs
      <3> QED BY <1>2
    <2>2. q \in pairs /\ q[1] = k
      <3> HIDE DEF pairs
      <3> QED BY <2>1, Zenon
    <2> HIDE DEF q, pairs
    <2>3. q[2] = t[k]
      BY <1>1, <2>2
    <2> QED BY <2>3 DEF q
  <1>5. DOMAIN AsTable(pairs) = D
    <2> HIDE DEF pairs
    <2> QED BY <1>3 DEF AsTable
  <1>6. ASSUME NEW k \in D
        PROVE  AsTable(pairs)[k] = t[k]
    <2>1. k \in {p[1] : p \in pairs}
      <3> HIDE DEF pairs
      <3> QED BY <1>3
    <2>2. AsTable(pairs)[k] = (CHOOSE p \in pairs : p[1] = k)[2]
      <3> HIDE DEF pairs
      <3> QED BY <2>1, Zenon DEF AsTable
    <2> HIDE DEF pairs
    <2> QED BY <2>2, <1>4
  <1> HIDE DEF pairs
  <1>7. DOMAIN AsTable(pairs) = D /\ \A k \in D : AsTable(pairs)[k] = t[k]
    BY <1>5, <1>6
  <1> QED BY <1>7 DEF pairs

\* Of the lists of the European roads, one is that of a key.
LEMMA OneListIsRead ==
  ASSUME NEW f, NEW key, NEW place \in 1..14,
         KeyOf(Europe, EuropeanRoadNumbers[place]) = key,
         \A i \in 1..14 : KeyOf(Europe, EuropeanRoadNumbers[i]) = key => i = place,
         f.european[place] \in Seq(AllWays)
  PROVE  ReadAt(f, key) = f.european[place]
PROOF
  <1> DEFINE n == 14
             list == f.european[place]
             Part(i) == IF KeyOf(Europe, EuropeanRoadNumbers[i]) = key THEN f.european[i] ELSE <<>>
             IsRead(g) == g = [i \in 0..Len(EuropeanRoadNumbers) |-> IF i = 0 THEN <<>> ELSE g[i - 1] \o Part(i)]
             read == CHOOSE g : IsRead(g)
             h == [i \in 0..n |-> IF i < place THEN <<>> ELSE list]
  <1>0. Len(EuropeanRoadNumbers) = n
    BY EuropeanNumbers
  <1>1. \A i \in 1..n : Part(i) = IF i = place THEN list ELSE <<>>
    OBVIOUS
  <1>2. <<>> \o <<>> = <<>> /\ <<>> \o list = list /\ list \o <<>> = list
    <2> HIDE DEF list
    <2>1. list \in Seq(AllWays)
      BY DEF list
    <2> QED BY <2>1
  <1>3. \A i \in 0..n : h[i] = IF i = 0 THEN <<>> ELSE h[i - 1] \o Part(i)
    <2> SUFFICES ASSUME NEW i \in 0..n
                 PROVE  h[i] = IF i = 0 THEN <<>> ELSE h[i - 1] \o Part(i)
      OBVIOUS
    <2>1. CASE i = 0
      BY <2>1
    <2>2. CASE i # 0
      <3>1. i \in 1..n /\ i - 1 \in 0..n
        BY <2>2
      <3>2. Part(i) = IF i = place THEN list ELSE <<>>
        BY <1>1, <3>1
      <3>3. /\ h[i] = IF i < place THEN <<>> ELSE list
            /\ h[i - 1] = IF i - 1 < place THEN <<>> ELSE list
        BY <3>1
      <3>4. i < place \/ i = place \/ i > place
        OBVIOUS
      <3>5. /\ i < place => i - 1 < place /\ i # place
            /\ i = place => i - 1 < place /\ ~(i < place)
            /\ i > place => ~(i - 1 < place) /\ ~(i < place) /\ i # place
        OBVIOUS
      <3> HIDE DEF h, Part, list
      <3>6. h[i] = h[i - 1] \o Part(i)
        BY <3>2, <3>3, <3>4, <3>5, <1>2, Zenon
      <3> QED BY <3>6, <2>2
    <2> QED BY <2>1, <2>2
  <1>4. IsRead(h)
    <2>1. h = [i \in 0..n |-> h[i]]
      BY Zenon
    <2> HIDE DEF h, Part
    <2> QED BY <1>0, <1>3, <2>1, Zenon
  <1>5. IsRead(read)
    <2> HIDE DEF IsRead, h
    <2> QED BY <1>4, Zenon
  <1>6. ReadAt(f, key) = read[Len(EuropeanRoadNumbers)]
    BY Zenon DEF ReadAt
  <1> DEFINE Same == {i \in 0..n : read[i] = h[i]}
  <1>7. 0..n \subseteq Same
    <2>1. \A i \in 0..n : read[i] = IF i = 0 THEN <<>> ELSE read[i - 1] \o Part(i)
      <3> HIDE DEF read, Part
      <3> QED BY <1>5, <1>0
    <2> HIDE DEF read, h, Part
    <2>2. 0 \in Same
      <3>1. 0 \in 0..n
        OBVIOUS
      <3>2. read[0] = <<>> /\ h[0] = <<>>
        BY <1>3, <2>1, <3>1, Zenon
      <3> QED BY <3>1, <3>2
    <2>3. \A i \in 0..(n - 1) : i \in Same => i + 1 \in Same
      <3> SUFFICES ASSUME NEW i \in 0..(n - 1), i \in Same
                   PROVE  i + 1 \in Same
        OBVIOUS
      <3>1. i + 1 \in 0..n /\ i + 1 # 0 /\ (i + 1) - 1 = i
        OBVIOUS
      <3> QED BY <3>1, <1>3, <2>1
    <2> HIDE DEF Same
    <2> QED BY <2>2, <2>3, IntervalInduction
  <1>8. read[n] = h[n]
    <2> HIDE DEF read, h
    <2> QED BY <1>7
  <1>9. h[n] = list
    OBVIOUS
  <1> HIDE DEF read, h, list
  <1>10. ReadAt(f, key) = list
    BY <1>0, <1>6, <1>8, <1>9
  <1> QED BY <1>10 DEF list

\* The file gives back the table it was written from: the lists of all roads
\* of the three kinds, each under its key.
LEMMA WrittenIsRead ==
  ASSUME IsTable(roads), IsFull(roads), NEW r
  PROVE  RoadsRead(Written(r)) = roads
PROOF
  <1> DEFINE f == Written(r)
             Of(S) == {k \in DOMAIN roads : k[1] \in S}
             european == EuropeanRead(f)
             national == AsTable({<< <<National, p[1]>>, p[2]>> : p \in f.national})
             counties == AsTable(f.counties)
             At(k) == CASE k[1] = Europe -> european[k] [] k[1] = National -> national[k] [] OTHER -> counties[k]
  <1>0. /\ \A i \in 1..14 : f.european[i] = Ways(roads, KeyOf(Europe, EuropeanRoadNumbers[i]))
        /\ DOMAIN f.european = 1..14
        /\ f.national = {<<k[2], roads[k]>> : k \in {k \in DOMAIN roads : k[1] = National}}
        /\ f.counties = {<<k, roads[k]>> : k \in {k \in DOMAIN roads : k[1] \in Range(Counties)}}
    BY EuropeanNumbers DEF Written
  <1> HIDE DEF f
  <1>1. /\ \A k \in DOMAIN roads : k \in Keys /\ k = <<k[1], k[2]>> /\ k[1] \in RoadTypes
        /\ \A k \in DOMAIN roads : roads[k] \in Seq(AllWays) /\ roads[k] # <<>>
        /\ \A k : Ways(roads, k) = IF k \in DOMAIN roads THEN roads[k] ELSE <<>>
    BY KindsOfKeys DEF IsTable, IsFull, Ways
  <1>2. /\ DOMAIN european = Of({Europe})
        /\ \A k \in Of({Europe}) : european[k] = roads[k]
    <2> DEFINE K(i) == KeyOf(Europe, EuropeanRoadNumbers[i])
               inUse == {i \in DOMAIN EuropeanRoadNumbers : f.european[i] # <<>>}
    <2>1. \A i, j \in 1..14 : K(i) = K(j) => i = j
      <3>1. \A i \in 1..14 : EuropeanRoadNumbers[i] \in Range(EuropeanRoadNumbers)
        BY EuropeanNumbers DEF Range
      <3>2. \A i \in 1..14 : K(i) = <<Europe, EuropeanRoadNumberToIndex(EuropeanRoadNumbers[i])>>
        BY DEF KeyOf
      <3> SUFFICES ASSUME NEW i \in 1..14, NEW j \in 1..14, K(i) = K(j)
                   PROVE  i = j
        OBVIOUS
      <3>3. EuropeanRoadNumberToIndex(EuropeanRoadNumbers[i]) = EuropeanRoadNumberToIndex(EuropeanRoadNumbers[j])
        BY <3>2
      <3>4. EuropeanRoadNumbers[i] = EuropeanRoadNumbers[j]
        BY <3>1, <3>3, EuropeanIndices, Zenon
      <3> QED BY <3>4, EuropeanPlaces
    <2>2. \A k \in Of({Europe}) : \E i \in 1..14 : K(i) = k
      <3> SUFFICES ASSUME NEW k \in Of({Europe})
                   PROVE  \E i \in 1..14 : K(i) = k
        OBVIOUS
      <3>1. k \in EuropeanKeys
        BY <1>1, KindsOfKeys
      <3>2. PICK number \in Range(EuropeanRoadNumbers) : k = KeyOf(Europe, number)
        BY <3>1 DEF EuropeanKeys
      <3>3. PICK i \in 1..14 : number = EuropeanRoadNumbers[i]
        BY EuropeanNumbers DEF Range
      <3> QED BY <3>2, <3>3
    <2>3. \A i \in 1..14 : f.european[i] # <<>> => K(i) \in Of({Europe})
      <3> SUFFICES ASSUME NEW i \in 1..14, f.european[i] # <<>>
                   PROVE  K(i) \in Of({Europe})
        OBVIOUS
      <3>1. K(i) \in DOMAIN roads
        BY <1>0, <1>1
      <3>2. K(i)[1] = Europe
        BY DEF KeyOf
      <3> HIDE DEF K
      <3> QED BY <3>1, <3>2
    <2>4. \A i \in 1..14 : K(i) \in Of({Europe}) => f.european[i] = roads[K(i)] /\ f.european[i] # <<>>
      <3> HIDE DEF K
      <3> SUFFICES ASSUME NEW i \in 1..14, K(i) \in Of({Europe})
                   PROVE  f.european[i] = roads[K(i)] /\ f.european[i] # <<>>
        OBVIOUS
      <3>1. K(i) \in DOMAIN roads
        OBVIOUS
      <3>2. f.european[i] = Ways(roads, K(i))
        BY <1>0 DEF K
      <3> QED BY <3>1, <3>2, <1>1
    <2>5. DOMAIN european = {K(i) : i \in inUse}
      BY DEF EuropeanRead
    <2>6. \A i : i \in inUse <=> i \in 1..14 /\ f.european[i] # <<>>
      BY EuropeanNumbers
    <2>7. \A k : k \in DOMAIN european <=> k \in Of({Europe})
      <3> HIDE DEF inUse, K, european
      <3>1. \A k : k \in {K(i) : i \in inUse} <=> \E i \in 1..14 : K(i) = k /\ f.european[i] # <<>>
        BY <2>6
      <3>2. \A k \in Of({Europe}) : \E i \in 1..14 : K(i) = k /\ f.european[i] # <<>>
        BY <2>2, <2>4
      <3> HIDE DEF Of
      <3> QED BY <2>3, <2>5, <3>1, <3>2
    <2>8. ASSUME NEW k \in Of({Europe})
          PROVE  european[k] = roads[k]
      <3>1. PICK i \in 1..14 : K(i) = k
        BY <2>2
      <3>2. f.european[i] = roads[k] /\ f.european[i] \in Seq(AllWays)
        <4> HIDE DEF K
        <4> QED BY <3>1, <2>4, <1>1
      <3>3. ReadAt(f, k) = f.european[i]
        <4>1. \A j \in 1..14 : K(j) = k => j = i
          <5> HIDE DEF K
          <5> QED BY <2>1, <3>1
        <4> QED BY <3>1, <3>2, <4>1, OneListIsRead
      <3>4. european[k] = ReadAt(f, k)
        <4>1. k \in {K(j) : j \in inUse}
          <5> HIDE DEF K, inUse, european
          <5> QED BY <2>5, <2>7
        <4> QED BY <4>1 DEF EuropeanRead
      <3> QED BY <3>2, <3>3, <3>4
    <2> HIDE DEF european, Of
    <2> QED BY <2>7, <2>8
  <1>3. /\ DOMAIN national = Of({National})
        /\ \A k \in Of({National}) : national[k] = roads[k]
    <2> DEFINE pairs == {<< <<National, p[1]>>, p[2]>> : p \in f.national}
               plain == {<<k, roads[k]>> : k \in Of({National})}
    <2>1. \A k \in Of({National}) : k = <<National, k[2]>>
      BY <1>1
    <2>2. \A k \in Of({National}) : <<k[2], roads[k]>> \in f.national /\ k = <<National, k[2]>>
      <3> HIDE DEF Of
      <3>1. \A k \in Of({National}) : k \in DOMAIN roads /\ k[1] = National
        BY DEF Of
      <3> QED BY <2>1, <3>1, <1>0
    <2>3. pairs = plain
      <3>1. ASSUME NEW q \in pairs
            PROVE  q \in plain
        <4>1. PICK p \in f.national : q = << <<National, p[1]>>, p[2]>>
          OBVIOUS
        <4>2. PICK k \in Of({National}) : p = <<k[2], roads[k]>>
          BY <1>0
        <4>3. q = << <<National, k[2]>>, roads[k]>>
          <5> HIDE DEF Of
          <5> QED BY <4>1, <4>2
        <4> HIDE DEF Of
        <4>4. q = <<k, roads[k]>>
          BY <4>3, <2>1
        <4> QED BY <4>4
      <3>2. ASSUME NEW q \in plain
            PROVE  q \in pairs
        <4> HIDE DEF Of
        <4>1. PICK k \in Of({National}) : q = <<k, roads[k]>>
          OBVIOUS
        <4> DEFINE p == <<k[2], roads[k]>>
        <4>2. p \in f.national /\ p[1] = k[2] /\ p[2] = roads[k]
          BY <2>2
        <4>3. q = << <<National, p[1]>>, p[2]>>
          <5> HIDE DEF p
          <5> QED BY <4>1, <4>2, <2>1
        <4> HIDE DEF p
        <4> QED BY <4>2, <4>3
      <3> HIDE DEF pairs, plain
      <3> QED BY <3>1, <3>2
    <2>4. DOMAIN AsTable(plain) = Of({National}) /\ \A k \in Of({National}) : AsTable(plain)[k] = roads[k]
      <3> HIDE DEF Of
      <3> QED BY PairsMakeTable
    <2> HIDE DEF pairs, plain, Of
    <2>5. DOMAIN AsTable(pairs) = Of({National}) /\ \A k \in Of({National}) : AsTable(pairs)[k] = roads[k]
      BY <2>3, <2>4
    <2> QED BY <2>5 DEF pairs
  <1>4. /\ DOMAIN counties = Of(Range(Counties))
        /\ \A k \in Of(Range(Counties)) : counties[k] = roads[k]
    <2> DEFINE plain == {<<k, roads[k]>> : k \in Of(Range(Counties))}
    <2>1. f.counties = plain
      BY <1>0
    <2>2. DOMAIN AsTable(plain) = Of(Range(Counties)) /\ \A k \in Of(Range(Counties)) : AsTable(plain)[k] = roads[k]
      <3> HIDE DEF Of
      <3> QED BY PairsMakeTable
    <2> HIDE DEF plain, Of
    <2> QED BY <2>1, <2>2
  <1>5. RoadsRead(f) = [k \in DOMAIN european \cup DOMAIN national \cup DOMAIN counties |-> At(k)]
    BY DEF RoadsRead
  <1>6. DOMAIN european \cup DOMAIN national \cup DOMAIN counties = DOMAIN roads
    <2>1. \A k \in DOMAIN roads : k \in Of({Europe}) \/ k \in Of({National}) \/ k \in Of(Range(Counties))
      BY <1>1 DEF RoadTypes
    <2> HIDE DEF european, national, counties
    <2> QED BY <1>2, <1>3, <1>4, <2>1
  <1>7. ASSUME NEW k \in DOMAIN roads
        PROVE  At(k) = roads[k]
    <2> HIDE DEF european, national, counties
    <2>1. k[1] = Europe \/ k[1] = National \/ k[1] \in Range(Counties)
      BY <1>1 DEF RoadTypes
    <2>2. CASE k[1] = Europe
      <3>1. k \in Of({Europe}) /\ At(k) = european[k]
        BY <2>2, KindsOfKeys
      <3> HIDE DEF Of, At
      <3> QED BY <3>1, <1>2
    <2>3. CASE k[1] = National
      <3>1. k \in Of({National}) /\ At(k) = national[k]
        BY <2>3, KindsOfKeys
      <3> HIDE DEF Of, At
      <3> QED BY <3>1, <1>3
    <2>4. CASE k[1] \in Range(Counties)
      <3>1. k \in Of(Range(Counties)) /\ At(k) = counties[k]
        BY <2>4, KindsOfKeys
      <3> HIDE DEF Of, At
      <3> QED BY <3>1, <1>4
    <2> QED BY <2>1, <2>2, <2>3, <2>4
  <1>8. roads = [k \in DOMAIN roads |-> roads[k]]
    BY DEF IsTable
  <1> HIDE DEF At, european, national, counties
  <1>9. RoadsRead(f) = [k \in DOMAIN roads |-> roads[k]]
    BY <1>5, <1>6, <1>7, Zenon
  <1> QED BY <1>8, <1>9 DEF f

-----------------------------------------------------------------------------
(* Roads are sorted into counties.                                         *)

LEMMA LettersAreCounties == \A code : RoadTypeForSCBarea(code) \in Range(Counties)
PROOF
  <1>1. /\ DOMAIN LettersOf = {1, 3, 4, 5, 6, 7, 8, 9, 10, 12, 13, 14} \cup 17..25
        /\ \A c \in {1, 3, 4, 5, 6, 7, 8, 9, 10, 12, 13, 14, 17, 18, 19, 20, 21, 22, 23, 24, 25} :
             LettersOf[c] \in {"AB", "C", "D", "E", "F", "G", "H", "I", "K", "M", "N", "O", "S", "T", "U", "W",
                               "X", "Y", "Z", "AC", "BD"}
    BY DEF LettersOf
  <1>2. \A c \in 17..25 : c \in {17, 18, 19, 20, 21, 22, 23, 24, 25}
    OBVIOUS
  <1>3. \A c \in DOMAIN LettersOf : LettersOf[c] \in Range(Counties)
    BY <1>1, <1>2, CountyNames
  <1> QED BY <1>3, KindsOfKeys DEF RoadTypeForSCBarea

LEMMA RemoveAtType ==
  ASSUME NEW S, NEW s \in Seq(S), NEW i \in 1..Len(s)
  PROVE  RemoveAt(s, i) \in Seq(S)
PROOF
  <1>1. SubSeq(s, 1, i - 1) \in Seq(S)
    BY SMTT(30)
  <1>2. SubSeq(s, i + 1, Len(s)) \in Seq(S)
    BY SMTT(30)
  <1> QED BY <1>1, <1>2 DEF RemoveAt

LEMMA FixWayKeepsTable ==
  ASSUME TypeInv, FixWay, stage' = "fixing"
  PROVE  TypeInv'
PROOF
  <1> DEFINE key == <<LanUnknown, Current>>
  <1>1. /\ stage = "fixing" /\ Ahead # {} /\ Place <= Len(List) /\ UNCHANGED map
        /\ cursor.number \in Nat /\ cursor.place \in Nat \ {0} /\ IsTable(roads)
        /\ \A k \in DOMAIN roads : roads[k] = <<>> => k = <<LanUnknown, cursor.number>>
    BY DEF TypeInv, TableInv, FixWay, Fixing
  <1>2. /\ Current \in Nat /\ Current >= cursor.number
        /\ key \in DOMAIN roads /\ key \in Keys
        /\ \A n : n >= cursor.number /\ <<LanUnknown, n>> \in DOMAIN roads => Current <= n
        /\ List \in Seq(AllWays)
    BY <1>1, CurrentIsFirst
  <1>3. Place \in 1..Len(List)
    <2>1. Place \in Nat \ {0} /\ Len(List) \in Nat
      BY <1>1, <1>2 DEF Place
    <2> QED BY <2>1, <1>1
  <1>4. PICK area : /\ UNCHANGED <<unread, codes, regions, sorted, stage>>
                    /\ \/ /\ roads' = [PushBack(roads, <<RoadTypeForSCBarea(area), Current>>, List[Place])
                                         EXCEPT ![key] = RemoveAt(@, Place)]
                          /\ Advance(Place)
                       \/ /\ Advance(Place + 1) /\ UNCHANGED roads
    <2>1. stage' # "ended"
      OBVIOUS
    <2> QED BY <2>1, Zenon DEF FixWay, EndsProgram
  <1>5. cursor' \in [number : Nat, place : Nat \ {0}] /\ cursor'.number = Current
    <2>1. Place \in Nat \ {0} /\ Place + 1 \in Nat \ {0}
      BY <1>3
    <2>2. PICK p \in Nat \ {0} : cursor' = [number |-> Current, place |-> p]
      BY <2>1, <1>4, Zenon DEF Advance
    <2>3. [number |-> Current, place |-> p] \in [number : Nat, place : Nat \ {0}]
      BY <1>2
    <2> QED BY <2>2, <2>3
  <1>6. \A k \in DOMAIN roads : roads[k] = <<>> => k = key
    <2> SUFFICES ASSUME NEW k \in DOMAIN roads, roads[k] = <<>>
                 PROVE  k = key
      OBVIOUS
    <2>1. k = <<LanUnknown, cursor.number>>
      BY <1>1
    <2>2. Current <= cursor.number
      <3>1. cursor.number >= cursor.number
        BY <1>1
      <3> HIDE DEF key
      <3> QED BY <1>2, <2>1, <3>1
    <2>3. Current = cursor.number
      BY <1>1, <1>2, <2>2
    <2> QED BY <2>1, <2>3
  <1>7. IsTable(roads') /\ \A k \in DOMAIN roads' : roads'[k] = <<>> => k = key
    <2>1. CASE UNCHANGED roads
      BY <2>1, <1>1, <1>6
    <2>2. CASE roads' = [PushBack(roads, <<RoadTypeForSCBarea(area), Current>>, List[Place])
                           EXCEPT ![key] = RemoveAt(@, Place)]
      <3> DEFINE to == <<RoadTypeForSCBarea(area), Current>>
                 way == List[Place]
                 added == PushBack(roads, to, way)
      <3>1. to \in Keys
        <4>1. Current \in 0..(RegionalLen - 1)
          <5>1. key[2] \in 0..(RegionalLen - 1)
            <6>1. key[1] \in Range(Counties)
              BY KindsOfKeys
            <6> HIDE DEF key
            <6> QED BY <6>1, <1>2, KindsOfKeys
          <5> QED BY <5>1
        <4>2. RoadTypeForSCBarea(area) \in Range(Counties)
          BY LettersAreCounties
        <4> QED BY <4>1, <4>2 DEF Keys
      <3>2. way \in AllWays
        BY <1>2, <1>3
      <3>3. /\ IsTable(added) /\ added[to] # <<>> /\ DOMAIN added = DOMAIN roads \cup {to}
            /\ \A k \in DOMAIN roads : k # to => added[k] = roads[k]
        <4> HIDE DEF to, way
        <4>1. IsTable(roads)
          BY <1>1
        <4> QED BY <4>1, <3>1, <3>2, PushBackKeepsTable, Zenon
      <3>4. added[key] \in Seq(AllWays) /\ Place \in 1..Len(added[key])
        <4>1. CASE key = to
          <5>1. added[to] = Append(Ways(roads, to), way) /\ Ways(roads, to) = List
            BY <4>1, <1>2 DEF PushBack, Ways, List
          <5> HIDE DEF added, to, key, way
          <5>2. added[key] = Append(List, way)
            BY <5>1, <4>1
          <5>3. Append(List, way) \in Seq(AllWays) /\ Len(Append(List, way)) = Len(List) + 1
            BY <1>2, <3>2
          <5>4. Len(List) \in Nat
            BY <1>2
          <5> QED BY <1>3, <5>2, <5>3, <5>4
        <4>2. CASE key # to
          <5>1. added[key] = List
            <6>1. roads[key] = List
              BY DEF List
            <6> HIDE DEF added, to, key
            <6> QED BY <4>2, <6>1, <3>3, <1>2
          <5> QED BY <5>1, <1>2, <1>3
        <4> QED BY <4>1, <4>2
      <3>5. RemoveAt(added[key], Place) \in Seq(AllWays)
        <4> HIDE DEF added
        <4> QED BY <3>4, RemoveAtType
      <3>6. roads' = [added EXCEPT ![key] = RemoveAt(added[key], Place)]
        <4> HIDE DEF key
        <4> QED BY <2>2
      <3> HIDE DEF added, to, key, way
      <3>7. /\ DOMAIN roads' = DOMAIN added /\ roads' \in [DOMAIN added -> Seq(AllWays)]
            /\ \A k \in DOMAIN added : k # key => roads'[k] = added[k]
        BY <3>3, <3>5, <3>6 DEF IsTable
      <3>8. IsTable(roads')
        BY <3>3, <3>7 DEF IsTable
      <3>9. ASSUME NEW k \in DOMAIN roads', roads'[k] = <<>>, k # key
            PROVE  FALSE
        <4>1. added[k] = <<>> /\ k \in DOMAIN added
          BY <3>9, <3>7
        <4>2. k # to /\ k \in DOMAIN roads /\ roads[k] = <<>>
          BY <4>1, <3>3
        <4> QED BY <4>2, <1>6, <3>9
      <3> QED BY <3>8, <3>9
    <2> QED BY <1>4, <2>1, <2>2
  <1>8. TableInv'
    <2>1. key = <<LanUnknown, cursor'.number>>
      BY <1>5
    <2> HIDE DEF key
    <2> QED BY <1>7, <2>1 DEF TableInv
  <1>9. unread' = unread /\ sorted' = sorted /\ map' = map
    BY <1>1, <1>4
  <1> HIDE DEF key
  <1> QED BY <1>5, <1>8, <1>9 DEF TypeInv, Stages, Tables

LEMMA FixNextKeepsTable ==
  ASSUME TypeInv, FixNext
  PROVE  TypeInv'
PROOF
  <1> DEFINE key == <<LanUnknown, Current>>
             left == {k \in DOMAIN roads : k # key \/ List # <<>>}
  <1>1. /\ stage = "fixing" /\ Ahead # {} /\ cursor.number \in Nat /\ IsTable(roads)
        /\ \A k \in DOMAIN roads : roads[k] = <<>> => k = <<LanUnknown, cursor.number>>
        /\ cursor' = [number |-> Current + 1, place |-> 1]
        /\ roads' = [k \in left |-> roads[k]]
        /\ UNCHANGED <<map, unread, codes, regions, sorted, stage, file, saved>>
    BY DEF TypeInv, TableInv, FixNext, Fixing
  <1>2. /\ Current \in Nat /\ Current >= cursor.number
        /\ \A n : n >= cursor.number /\ <<LanUnknown, n>> \in DOMAIN roads => Current <= n
    BY <1>1, CurrentIsFirst
  <1>3. cursor' \in [number : Nat, place : Nat \ {0}]
    <2>1. [number |-> Current + 1, place |-> 1] \in [number : Nat, place : Nat \ {0}]
      BY <1>2
    <2> QED BY <1>1, <2>1, Zenon
  <1>4. IsTable(roads')
    <2>1. left \subseteq DOMAIN roads
      OBVIOUS
    <2> HIDE DEF left
    <2> QED BY <1>1, <2>1 DEF IsTable
  <1>5. \A k \in DOMAIN roads' : roads'[k] # <<>>
    <2> SUFFICES ASSUME NEW k \in left, roads[k] = <<>>
                 PROVE  FALSE
      <3> HIDE DEF left
      <3> QED BY <1>1
    <2>1. k \in DOMAIN roads /\ k = <<LanUnknown, cursor.number>>
      BY <1>1
    <2>2. Current = cursor.number
      <3>1. cursor.number >= cursor.number
        BY <1>1
      <3>2. Current <= cursor.number
        <4> HIDE DEF key, left
        <4> QED BY <1>2, <2>1, <3>1
      <3> QED BY <1>1, <1>2, <3>2
    <2>3. k = key
      BY <2>1, <2>2
    <2>4. List = <<>>
      BY <2>3 DEF List
    <2> QED BY <2>3, <2>4
  <1>6. TableInv'
    <2> HIDE DEF left, key
    <2> QED BY <1>1, <1>4, <1>5 DEF TableInv, IsFull
  <1> HIDE DEF left, key
  <1> QED BY <1>1, <1>3, <1>6 DEF TypeInv, Stages, Tables

\* When the loop is through, no list is empty.
LEMMA FixDoneIsFull ==
  ASSUME TypeInv, FixDone
  PROVE  TypeInv'
PROOF
  <1>1. /\ stage = "fixing" /\ Ahead = {} /\ cursor.number \in Nat /\ stage' = "saving"
        /\ UNCHANGED <<map, unread, memory, sorted, cursor, file, saved>>
        /\ \A k \in DOMAIN roads : roads[k] = <<>> => k = <<LanUnknown, cursor.number>>
    BY DEF TypeInv, TableInv, FixDone
  <1>2. IsFull(roads)
    <2> SUFFICES ASSUME NEW k \in DOMAIN roads, k = <<LanUnknown, cursor.number>>
                 PROVE  FALSE
      BY <1>1 DEF IsFull
    <2>1. k[1] = LanUnknown /\ k[2] = cursor.number
      BY <1>1
    <2>2. cursor.number \in Unlabeled
      BY <2>1, Zenon DEF Unlabeled
    <2>3. cursor.number >= cursor.number
      BY <1>1
    <2> QED BY <1>1, <2>2, <2>3 DEF Ahead
  <1>3. TableInv'
    BY <1>1, <1>2 DEF TypeInv, TableInv, memory
  <1> QED BY <1>1, <1>3 DEF TypeInv, Stages, Tables, memory

LEMMA TypesStart == Init => TypeInv
PROOF
  <1> SUFFICES ASSUME Init
               PROVE  TypeInv
    OBVIOUS
  <1>1. [number |-> 0, place |-> 1] \in [number : Nat, place : Nat \ {0}]
    OBVIOUS
  <1>2. cursor \in [number : Nat, place : Nat \ {0}]
    BY <1>1, Zenon DEF Init
  <1>3. TableInv
    BY EmptyTable DEF Init, TableInv
  <1> QED BY <1>2, <1>3 DEF Init, TypeInv, Stages, Tables

\* Every step but the one of reading the file keeps the types; that one does
\* if what is read is a table.
LEMMA TypesStep ==
  ASSUME TypeInv, FileInv, [Next]_vars
  PROVE  TypeInv'
PROOF
  <1> USE DEF Stages, Tables
  <1>1. ASSUME NEW s \in unread, ReadRef(s)
        PROVE  TypeInv'
    <2>1. /\ s \in map.refs /\ stage = "reading" /\ unread' = unread \ {s}
          /\ UNCHANGED <<map, stage, cursor, file, saved>> /\ UNCHANGED <<codes, regions, sorted>>
          /\ roads' = WithRoads(roads, s.way, RefRoads(s.ref))
      BY <1>1, Zenon DEF ReadRef, Memorise
    <2>2. IsTable(roads) /\ IsFull(roads)
      BY <2>1 DEF TypeInv, TableInv
    <2>3. s.way \in AllWays /\ RefRoads(s.ref) \in Seq(Roads)
      BY <2>1, StatementsAreTyped DEF TypeInv
    <2>4. IsTable(roads') /\ IsFull(roads')
      BY <2>1, <2>2, <2>3, RefsKeepTable
    <2>5. TableInv'
      BY <2>1, <2>4 DEF TableInv, IsFull
    <2> QED BY <2>1, <2>5 DEF TypeInv
  <1>2. ASSUME NEW s \in unread, ReadCode(s) \/ ReadRegion(s)
        PROVE  TypeInv'
    <2>1. /\ stage = "reading" /\ unread' = unread \ {s}
          /\ UNCHANGED <<map, stage, cursor, file, saved>> /\ UNCHANGED roads
          /\ sorted' \in {sorted, FALSE}
      BY <1>2 DEF ReadCode, ReadRegion, Memorise
    <2>2. TableInv'
      BY <2>1 DEF TypeInv, TableInv
    <2> QED BY <2>1, <2>2 DEF TypeInv
  <1>3. CASE ReadAll
    <2>1. stage = "reading" /\ stage' = "fixing" /\ UNCHANGED <<map, unread, memory, sorted, cursor, file, saved>>
      BY <1>3 DEF ReadAll
    <2>2. TableInv'
      BY <2>1 DEF TypeInv, TableInv, memory
    <2> QED BY <2>1, <2>2 DEF TypeInv, memory
  <1>4. ASSUME EndsProgram, map' = map
        PROVE  TypeInv'
    <2>1. Cleared({}) /\ stage' = "ended"
      BY <1>4 DEF EndsProgram
    <2>2. unread' = {} /\ map' \in Maps
      BY <2>1, <1>4 DEF Cleared, TypeInv
    <2> QED BY <2>1, <2>2, ClearedIsTyped
  <1>5. CASE FixWay
    <2>1. CASE EndsProgram
      BY <1>5, <2>1, <1>4 DEF FixWay
    <2>2. CASE ~EndsProgram
      <3>1. stage' = stage /\ stage = "fixing"
        BY <1>5, <2>2, Zenon DEF FixWay, Fixing
      <3> QED BY <1>5, <3>1, FixWayKeepsTable
    <2> QED BY <2>1, <2>2
  <1>6. CASE Write
    <2>1. PICK r : /\ stage = "saving" /\ stage' = "serving" /\ regions' = r /\ sorted' = TRUE
                   /\ UNCHANGED <<map, unread, codes, roads, cursor>>
      BY <1>6 DEF Write
    <2>2. TableInv'
      BY <2>1 DEF TypeInv, TableInv
    <2> QED BY <2>1, <2>2 DEF TypeInv
  <1>7. CASE Stop
    <2>1. Cleared({}) /\ stage' = "down" /\ map' = map
      BY <1>7 DEF Stop
    <2>2. unread' = {} /\ map' \in Maps
      BY <2>1 DEF Cleared, TypeInv
    <2> QED BY <2>1, <2>2, ClearedIsTyped
  <1>8. CASE Read
    <2>1. CASE CannotRead(file)
      BY <1>8, <2>1, <1>4 DEF Read
    <2>2. CASE ~CannotRead(file)
      <3>1. /\ file # NoFile /\ roads' = RoadsRead(file) /\ sorted' = TRUE /\ stage' = "serving"
            /\ UNCHANGED <<unread, cursor>> /\ UNCHANGED <<map, file, saved>>
        BY <1>8, <2>2 DEF Read
      <3>2. TableInv'
        BY <3>1 DEF FileInv, TableInv, IsFull
      <3> QED BY <3>1, <3>2 DEF TypeInv
    <2> QED BY <2>1, <2>2
  <1>9. CASE StartAgain
    <2>1. CASE file # NoFile
      <3>1. /\ stage = "ended" /\ stage' = "down"
            /\ UNCHANGED <<map, unread, memory, sorted, cursor, file, saved>>
        BY <1>9, <2>1 DEF StartAgain
      <3>2. TableInv'
        BY <3>1 DEF TypeInv, TableInv, memory
      <3> QED BY <3>1, <3>2 DEF TypeInv, memory
    <2>2. CASE file = NoFile
      <3>1. Cleared(Statements(map)) /\ stage' = "reading" /\ map' = map
        BY <1>9, <2>2 DEF StartAgain
      <3>2. unread' = Statements(map') /\ map' \in Maps
        BY <3>1 DEF Cleared, TypeInv
      <3> QED BY <3>1, <3>2, ClearedIsTyped
    <2> QED BY <2>1, <2>2
  <1>10. ASSUME NEW c \in Points, AskMunicipality(c)
         PROVE  TypeInv'
    BY <1>10, <1>4 DEF AskMunicipality
  <1>11. ASSUME NEW name \in DOMAIN Normal, AskRegion(name)
         PROVE  TypeInv'
    BY <1>11, <1>4 DEF AskRegion
  <1>12. CASE UNCHANGED vars
    <2>1. TableInv'
      BY <1>12 DEF vars, memory, TypeInv, TableInv
    <2> QED BY <1>12, <2>1 DEF vars, memory, TypeInv
  <1> QED BY <1>1, <1>2, <1>3, <1>5, <1>6, <1>7, <1>8, <1>9, <1>10, <1>11, <1>12,
             FixNextKeepsTable, FixDoneIsFull DEF Next

LEMMA WrittenIsAFile == \A r : Written(r) # NoFile
PROOF
  <1> SUFFICES ASSUME NEW r
               PROVE  Written(r) # NoFile
    OBVIOUS
  <1>1. "codes" \in DOMAIN Written(r)
    BY DEF Written
  <1>2. DOMAIN NoFile = {}
    BY DEF NoFile
  <1> QED BY <1>1, <1>2

LEMMA FileStep ==
  ASSUME TypeInv, FileInv, ServedInv, [Next]_vars
  PROVE  FileInv' /\ ServedInv'
PROOF
  <1>1. CASE Write
    <2>1. PICK r : /\ stage = "saving" /\ regions' = r /\ UNCHANGED <<codes, roads>>
                   /\ file' = Written(r) /\ saved' = <<codes, roads, r>>
      BY <1>1, Zenon DEF Write
    <2>2. IsTable(roads) /\ IsFull(roads)
      BY <2>1 DEF TypeInv, TableInv
    <2>3. RoadsRead(file') = roads
      BY <2>1, <2>2, WrittenIsRead
    <2>4. file'.codes = codes /\ file'.regions = r
      BY <2>1 DEF Written
    <2>5. FileInv'
      BY <2>1, <2>2, <2>3, <2>4 DEF FileInv
    <2>6. ServedInv'
      BY <2>1, WrittenIsAFile DEF ServedInv, memory
    <2> QED BY <2>5, <2>6
  <1>2. CASE Read
    <2>1. file # NoFile /\ UNCHANGED <<file, saved>>
      BY <1>2 DEF Read
    <2>2. FileInv'
      BY <2>1 DEF FileInv
    <2>3. ServedInv'
      <3>1. CASE CannotRead(file)
        BY <1>2, <3>1 DEF Read, EndsProgram, ServedInv
      <3>2. CASE ~CannotRead(file)
        <4>1. memory' = <<file.codes, RoadsRead(file), file.regions>>
          BY <1>2, <3>2 DEF Read, memory
        <4>2. memory' = saved'
          BY <4>1, <2>1 DEF FileInv
        <4> QED BY <2>1, <4>2 DEF ServedInv
      <3> QED BY <3>1, <3>2
    <2> QED BY <2>2, <2>3
  <1>3. ASSUME UNCHANGED <<file, saved>>, stage' # "serving" \/ UNCHANGED <<stage, memory>>
        PROVE  FileInv' /\ ServedInv'
    BY <1>3 DEF FileInv, ServedInv
  <1>4. ASSUME NEW s \in unread, ReadRef(s) \/ ReadCode(s) \/ ReadRegion(s)
        PROVE  UNCHANGED <<file, saved>> /\ stage' # "serving"
    BY <1>4 DEF ReadRef, ReadCode, ReadRegion, Memorise
  <1>5. ASSUME ReadAll \/ FixWay \/ FixNext \/ FixDone
        PROVE  UNCHANGED <<file, saved>> /\ stage' # "serving"
    BY <1>5 DEF ReadAll, FixWay, FixNext, FixDone, Fixing, EndsProgram
  <1>6. ASSUME Stop \/ StartAgain
        PROVE  UNCHANGED <<file, saved>> /\ stage' # "serving"
    BY <1>6 DEF Stop, StartAgain
  <1>7. ASSUME NEW c \in Points, AskMunicipality(c)
        PROVE  UNCHANGED <<file, saved>> /\ stage' # "serving"
    BY <1>7 DEF AskMunicipality, EndsProgram
  <1>8. ASSUME NEW name \in DOMAIN Normal, AskRegion(name)
        PROVE  UNCHANGED <<file, saved>> /\ stage' # "serving"
    BY <1>8 DEF AskRegion, EndsProgram
  <1>9. CASE UNCHANGED vars
    BY <1>9, <1>3 DEF vars
  <1> QED BY <1>1, <1>2, <1>3, <1>4, <1>5, <1>6, <1>7, <1>8, <1>9 DEF Next

LEMMA TypesInvariant == Spec => [](TypeInv /\ FileInv /\ ServedInv)
PROOF
  <1>1. Init => TypeInv /\ FileInv /\ ServedInv
    BY TypesStart DEF Init, FileInv, ServedInv
  <1>2. TypeInv /\ FileInv /\ ServedInv /\ [Next]_vars => (TypeInv /\ FileInv /\ ServedInv)'
    BY TypesStep, FileStep
  <1> QED BY <1>1, <1>2, PTL DEF Spec

\* All variables have their types: in particular, every road has a place in
\* the arrays that hold the lists of ways, and outside of the loop that sorts
\* roads into counties no list is empty (sweden.cpp:239-243, 1822-1825).
THEOREM TypeCorrect == Spec => []TypeOK
PROOF
  <1>1. TypeInv => TypeOK
    <2> SUFFICES ASSUME TypeInv
                 PROVE  TypeOK
      OBVIOUS
    <2>1. \A k \in DOMAIN roads :
            /\ \/ k[1] = Europe /\ k[2] \in 0..(EuropeanLen - 1)
               \/ k[1] = National /\ k[2] \in 0..(NationalLen - 1)
               \/ k[1] \in Range(Counties) /\ k[2] \in 0..(RegionalLen - 1)
            /\ roads[k] = <<>> => stage = "fixing"
      <3> SUFFICES ASSUME NEW k \in DOMAIN roads
                   PROVE  /\ \/ k[1] = Europe /\ k[2] \in 0..(EuropeanLen - 1)
                             \/ k[1] = National /\ k[2] \in 0..(NationalLen - 1)
                             \/ k[1] \in Range(Counties) /\ k[2] \in 0..(RegionalLen - 1)
                          /\ roads[k] = <<>> => stage = "fixing"
        OBVIOUS
      <3>1. k \in Keys /\ (roads[k] = <<>> => stage = "fixing")
        BY DEF TypeInv, TableInv, IsTable, IsFull
      <3>2. k[1] = Europe \/ k[1] = National \/ k[1] \in Range(Counties)
        BY <3>1, KindsOfKeys DEF RoadTypes
      <3> QED BY <3>1, <3>2, KindsOfKeys
    <2>2. cursor.number \in Nat /\ cursor.place \in Nat \ {0}
      BY DEF TypeInv
    <2>3. stage \in {"down", "ended"} => memory = <<Nothing, <<>>, <<>>>>
      BY DEF TypeInv, memory
    <2> QED BY <2>1, <2>2, <2>3 DEF TypeInv, TypeOK, Stages
  <1> QED BY <1>1, TypesInvariant, PTL

\* What a later run of the program reads is what was in memory when the file
\* was written, whatever roads there are (sweden.cpp:707-920).
THEOREM FileIsReadAsWritten == Spec => []ReadAsWritten
PROOF
  <1>1. ServedInv => ReadAsWritten
    BY DEF ServedInv, ReadAsWritten
  <1> QED BY <1>1, TypesInvariant, PTL

-----------------------------------------------------------------------------
(* The halving of the register finds a place of the name, if it has one.   *)

Entries == [name : Nat, level : Nat, relation : Nat \ {0}]
Places0(n) == [min : 0..n, max : (-1)..(n - 1), result : (-1)..(n - 1)]

\* A round keeps what is searched inside the list, loses no place of the name,
\* and makes the interval smaller if it does not end the search.
Holds(regs, name, at, k) ==
  /\ at.result = -1 => \A i \in 0..(Len(regs) - 1) : regs[i + 1].name = name => at.min <= i /\ i <= at.max
  /\ at.result # -1 => regs[at.result + 1].name = name
  /\ at.result # -1 \/ at.min >= at.max \/ at.max - at.min <= Len(regs) - 1 - k

\* The middle of two places.
LEMMA Middle ==
  ASSUME NEW a \in Int, NEW b \in Int, a < b
  PROVE  /\ (b - a) \div 2 + a \in Int
         /\ a <= (b - a) \div 2 + a /\ (b - a) \div 2 + a < b
PROOF
  <1>1. \A d \in Nat \ {0} : d \div 2 \in Int /\ 0 <= d \div 2 /\ d \div 2 < d
    OBVIOUS
  <1> DEFINE h == (b - a) \div 2
  <1>2. h \in Int /\ 0 <= h /\ h < b - a
    BY <1>1
  <1> HIDE DEF h
  <1>3. h + a \in Int /\ a <= h + a /\ h + a < b
    BY <1>2
  <1> QED BY <1>3 DEF h

LEMMA RoundHolds ==
  ASSUME NEW regs \in Seq(Entries), NEW name \in Nat, NEW at \in Places0(Len(regs)), NEW k \in Nat,
         \A i, j \in 1..Len(regs) : i < j => regs[i].name <= regs[j].name
  PROVE  /\ Halved(regs, name, at) \in Places0(Len(regs))
         /\ Holds(regs, name, at, k) => Holds(regs, name, Halved(regs, name, at), k + 1)
PROOF
  <1> DEFINE n == Len(regs)
             idx == (at.max - at.min) \div 2 + at.min
             to == Halved(regs, name, at)
  <1>1. n \in Nat /\ at.min \in 0..n /\ at.max \in (-1)..(n - 1) /\ at.result \in (-1)..(n - 1)
    BY DEF Places0
  <1>0. \A i \in 1..n : regs[i].name \in Nat
    <2>1. \A i \in 1..n : regs[i] \in Entries
      OBVIOUS
    <2> QED BY <2>1 DEF Entries
  <1>2. CASE at.min >= at.max \/ at.result # -1
    <2>1. to = at
      BY <1>2 DEF Halved
    <2>2. Holds(regs, name, at, k) => Holds(regs, name, at, k + 1)
      <3> HIDE DEF to, idx
      <3> QED BY <1>1, <1>2 DEF Holds
    <2> HIDE DEF to
    <2> QED BY <2>1, <2>2 DEF to
  <1>3. CASE at.min < at.max /\ at.result = -1
    <2>1. idx \in at.min..(at.max - 1) /\ idx \in 0..(n - 2) /\ idx + 1 \in 1..n
      <3>1. idx \in Int /\ at.min <= idx /\ idx < at.max
        <4> DEFINE a == at.min
                   b == at.max
        <4>1. a \in Int /\ b \in Int /\ a < b
          BY <1>1, <1>3
        <4> HIDE DEF a, b
        <4>2. (b - a) \div 2 + a \in Int /\ a <= (b - a) \div 2 + a /\ (b - a) \div 2 + a < b
          BY <4>1, Middle
        <4> QED BY <4>2 DEF a, b
      <3> HIDE DEF idx
      <3> QED BY <1>1, <1>3, <3>1
    <2> HIDE DEF idx
    <2>0. idx - 1 \in (-1)..(n - 1) /\ idx \in (-1)..(n - 1) /\ idx + 1 \in 0..n /\ idx # -1
      <3> HIDE DEF n
      <3> QED BY <1>1, <2>1
    <2>2. regs[idx + 1].name \in Nat
      BY <2>1, <1>0
    <2>3. \A i \in 0..(n - 1) : /\ regs[i + 1].name \in Nat
                                /\ i < idx => regs[i + 1].name <= regs[idx + 1].name
                                /\ idx < i => regs[idx + 1].name <= regs[i + 1].name
      <3> SUFFICES ASSUME NEW i \in 0..(n - 1)
                   PROVE  /\ regs[i + 1].name \in Nat
                          /\ i < idx => regs[i + 1].name <= regs[idx + 1].name
                          /\ idx < i => regs[idx + 1].name <= regs[i + 1].name
        OBVIOUS
      <3>1. i + 1 \in 1..n /\ (i < idx => i + 1 < idx + 1) /\ (idx < i => idx + 1 < i + 1)
        BY <2>1
      <3>2. regs[i + 1].name \in Nat
        BY <3>1, <1>0
      <3> QED BY <3>1, <3>2, <2>1
    <2>4. CASE name > regs[idx + 1].name
      <3>1. to = [at EXCEPT !.min = idx + 1]
        BY <1>1, <1>3, <2>4 DEF Halved, idx
      <3>2. to \in Places0(n) /\ to.min = idx + 1 /\ to.max = at.max /\ to.result = -1
        BY <3>1, <1>3, <2>0, <1>1 DEF Places0
      <3>3. \A i \in 0..(n - 1) : regs[i + 1].name = name => idx + 1 <= i
        BY <2>2, <2>3, <2>4, <2>1
      <3>4. Holds(regs, name, at, k) => Holds(regs, name, to, k + 1)
        <4> HIDE DEF to
        <4> QED BY <3>2, <3>3, <2>1, <1>1, <1>3 DEF Holds
      <3> HIDE DEF to
      <3> QED BY <3>2, <3>4 DEF to
    <2>5. CASE name < regs[idx + 1].name
      <3>1. to = [at EXCEPT !.max = idx - 1]
        BY <1>1, <1>3, <2>2, <2>5 DEF Halved, idx
      <3>2. to \in Places0(n) /\ to.min = at.min /\ to.max = idx - 1 /\ to.result = -1
        BY <3>1, <1>3, <2>0, <1>1 DEF Places0
      <3>3. \A i \in 0..(n - 1) : regs[i + 1].name = name => i <= idx - 1
        BY <2>2, <2>3, <2>5, <2>1
      <3>4. Holds(regs, name, at, k) => Holds(regs, name, to, k + 1)
        <4> HIDE DEF to
        <4> QED BY <3>2, <3>3, <2>1, <1>1, <1>3 DEF Holds
      <3> HIDE DEF to
      <3> QED BY <3>2, <3>4 DEF to
    <2>6. CASE name = regs[idx + 1].name
      <3>1. to = [at EXCEPT !.result = idx]
        BY <1>1, <1>3, <2>2, <2>6 DEF Halved, idx
      <3>2. to \in Places0(n) /\ to.result = idx /\ idx # -1
        BY <3>1, <1>3, <2>0, <2>1, <1>1 DEF Places0
      <3>3. Holds(regs, name, to, k + 1)
        <4> HIDE DEF to
        <4> QED BY <3>2, <2>6 DEF Holds
      <3> HIDE DEF to
      <3> QED BY <3>2, <3>3 DEF to
    <2> QED BY <2>2, <2>4, <2>5, <2>6
  <1> QED BY <1>1, <1>2, <1>3

\* After as many rounds as the list is long, the search is over.
LEMMA HalvingFinds ==
  ASSUME NEW regs \in Seq(Entries), NEW name \in Nat,
         \A i, j \in 1..Len(regs) : i < j => regs[i].name <= regs[j].name
  PROVE  \/ Halving(regs, name) \in 0..(Len(regs) - 1) /\ regs[Halving(regs, name) + 1].name = name
         \/ Halving(regs, name) = -1 /\ \A i \in 1..Len(regs) : regs[i].name # name
PROOF
  <1> DEFINE n == Len(regs)
             P == Places0(n)
             start == [min |-> 0, max |-> n - 1, result |-> -1]
             IsAfter(f) == f = [k \in 0..n |-> IF k = 0 THEN start ELSE Halved(regs, name, f[k - 1])]
             after == CHOOSE f : IsAfter(f)
             step == [p \in (1..n) \X P |-> Halved(regs, name, p[2])]
             end == after[n]
  <1>0. n \in Nat
    OBVIOUS
  <1>1. start \in P
    <2>1. 0 \in 0..n /\ n - 1 \in (-1)..(n - 1) /\ -1 \in (-1)..(n - 1)
      <3> HIDE DEF n
      <3> QED BY <1>0
    <2> HIDE DEF n
    <2> QED BY <2>1 DEF Places0
  <1>2. \A at \in P : Halved(regs, name, at) \in P
    BY <1>0, RoundHolds
  <1>3. \A at \in P, k \in Nat : Holds(regs, name, at, k) => Holds(regs, name, Halved(regs, name, at), k + 1)
    BY RoundHolds
  <1>4. IsAfter(after)
    <2>1. \A k \in 1..n, at \in P : step[<<k, at>>] = Halved(regs, name, at)
      <3> HIDE DEF P
      <3> QED OBVIOUS
    <2>2. \A k \in 1..n, at \in P : step[<<k, at>>] \in P
      <3> HIDE DEF P, step
      <3> QED BY <2>1, <1>2
    <2>3. PICK g \in [0..n -> P] : IsRecursion(g, n, start, step)
      <3> HIDE DEF P, step, start, n
      <3> QED BY <1>0, <1>1, <2>2, RecursionExists
    <2>4. \A k \in 0..n : (IF k = 0 THEN start ELSE step[<<k, g[k - 1]>>])
                          = (IF k = 0 THEN start ELSE Halved(regs, name, g[k - 1]))
      <3> SUFFICES ASSUME NEW k \in 0..n, k # 0
                   PROVE  step[<<k, g[k - 1]>>] = Halved(regs, name, g[k - 1])
        OBVIOUS
      <3>1. k \in 1..n /\ k - 1 \in 0..n
        BY <1>0
      <3> HIDE DEF P, step
      <3> QED BY <3>1, <2>1
    <2>5. IsAfter(g)
      <3> HIDE DEF P, step, start, n
      <3> QED BY <2>3, <2>4, Zenon DEF IsRecursion
    <2> HIDE DEF IsAfter
    <2> QED BY <2>5, Zenon
  <1> DEFINE Good == {k \in 0..n : after[k] \in P /\ Holds(regs, name, after[k], k)}
  <1>5. 0..n \subseteq Good
    <2>1. \A k \in 0..n : after[k] = IF k = 0 THEN start ELSE Halved(regs, name, after[k - 1])
      <3> HIDE DEF after, start
      <3> QED BY <1>4
    <2>2. Holds(regs, name, start, 0)
      <3> HIDE DEF n
      <3>1. start.min = 0 /\ start.max = n - 1 /\ start.result = -1
        OBVIOUS
      <3> HIDE DEF start
      <3>2. /\ \A i \in 0..(n - 1) : 0 <= i /\ i <= n - 1
            /\ n - 1 - 0 <= n - 1 - 0
        BY <1>0
      <3> QED BY <3>1, <3>2 DEF Holds, n
    <2> HIDE DEF after, start, P
    <2>3. 0 \in Good
      <3>1. 0 \in 0..n
        BY <1>0
      <3> QED BY <3>1, <2>1, <2>2, <1>1
    <2>4. \A k \in 0..(n - 1) : k \in Good => k + 1 \in Good
      <3> SUFFICES ASSUME NEW k \in 0..(n - 1), k \in Good
                   PROVE  k + 1 \in Good
        OBVIOUS
      <3>1. k + 1 \in 0..n /\ k + 1 # 0 /\ (k + 1) - 1 = k /\ k \in Nat
        BY <1>0
      <3>2. after[k + 1] = Halved(regs, name, after[k])
        BY <3>1, <2>1
      <3> QED BY <3>1, <3>2, <1>2, <1>3
    <2> HIDE DEF Good, n
    <2> QED BY <1>0, <2>3, <2>4, IntervalInduction
  <1>6. end \in P /\ Holds(regs, name, end, n)
    <2>1. n \in 0..n
      BY <1>0
    <2> HIDE DEF after, P, n
    <2> QED BY <1>5, <2>1
  <1>7. Halving(regs, name) = IF end.min = end.max /\ name = regs[end.min + 1].name THEN end.min ELSE end.result
    BY Zenon DEF Halving
  <1> HIDE DEF after, end
  <1>8. /\ end.min \in 0..n /\ end.max \in (-1)..(n - 1) /\ end.result \in (-1)..(n - 1)
    BY <1>6 DEF Places0
  <1>9. end.result = -1 => end.min >= end.max
    <2>1. end.result = -1 => end.min >= end.max \/ end.max - end.min <= n - 1 - n
      BY <1>6 DEF Holds
    <2> HIDE DEF n
    <2> QED BY <2>1, <1>8, <1>0
  <1>10. CASE end.min = end.max /\ name = regs[end.min + 1].name
    <2>1. end.min \in 0..(n - 1)
      <3> HIDE DEF n
      <3> QED BY <1>8, <1>10, <1>0
    <2> QED BY <2>1, <1>7, <1>10
  <1>11. CASE ~(end.min = end.max /\ name = regs[end.min + 1].name) /\ end.result # -1
    <2>1. end.result \in 0..(n - 1)
      <3> HIDE DEF n
      <3> QED BY <1>8, <1>11, <1>0
    <2>2. regs[end.result + 1].name = name
      BY <1>6, <1>11 DEF Holds
    <2> QED BY <2>1, <2>2, <1>7, <1>11
  <1>12. CASE ~(end.min = end.max /\ name = regs[end.min + 1].name) /\ end.result = -1
    <2>1. ASSUME NEW i \in 1..n, regs[i].name = name
          PROVE  FALSE
      <3>1. i - 1 \in 0..(n - 1) /\ (i - 1) + 1 = i
        BY <1>0
      <3>2. \A j \in 0..(n - 1) : regs[j + 1].name = name => end.min <= j /\ j <= end.max
        BY <1>6, <1>12 DEF Holds
      <3>3. end.min <= i - 1 /\ i - 1 <= end.max
        <4>1. regs[(i - 1) + 1].name = name
          BY <3>1, <2>1
        <4> QED BY <3>1, <3>2, <4>1
      <3>4. end.min = end.max /\ i - 1 = end.min /\ i = end.min + 1
        <4> HIDE DEF n
        <4> QED BY <3>1, <3>3, <1>8, <1>9, <1>12, <1>0
      <3> QED BY <3>4, <1>12, <2>1
    <2> QED BY <2>1, <1>7, <1>12
  <1> QED BY <1>10, <1>11, <1>12

\* Going back from a place of a name ends at one of it behind which no step
\* is possible.
LEMMA GoingBackEnds ==
  ASSUME NEW regs \in Seq(Entries), NEW found \in 0..(Len(regs) - 1)
  PROVE  LET top == Highest(regs, found)
         IN  /\ top \in 0..(Len(regs) - 1) /\ regs[top + 1].name = regs[found + 1].name
             /\ ~(top > 0 /\ regs[top].level < regs[top + 1].level /\ regs[top].name = regs[top + 1].name)
PROOF
  <1> DEFINE n == Len(regs)
             Back(i) == i > 0 /\ regs[i].level < regs[i + 1].level /\ regs[i].name = regs[i + 1].name
             IsBack(f) == f = [i \in 0..n |-> IF Back(i) THEN f[i - 1] ELSE i]
             back == CHOOSE f : IsBack(f)
             step == [p \in (1..n) \X (0..n) |-> IF Back(p[1]) THEN p[2] ELSE p[1]]
  <1>0. n \in Nat /\ 0 \in 0..n /\ found \in 0..(n - 1)
    OBVIOUS
  <1>1. IsBack(back)
    <2>1. \A i \in 1..n, p \in 0..n : step[<<i, p>>] = IF Back(i) THEN p ELSE i
      <3> HIDE DEF Back
      <3> QED OBVIOUS
    <2>2. ASSUME NEW i \in 1..n, NEW p \in 0..n
          PROVE  step[<<i, p>>] \in 0..n
      <3> HIDE DEF Back, step, n
      <3>1. step[<<i, p>>] = p \/ step[<<i, p>>] = i
        BY <2>1
      <3>2. i \in 0..n
        BY <1>0
      <3> QED BY <3>1, <3>2
    <2>3. PICK g \in [0..n -> 0..n] : IsRecursion(g, n, 0, step)
      <3> HIDE DEF step, n
      <3> QED BY <1>0, <2>2, RecursionExists
    <2>4. \A i \in 0..n : (IF i = 0 THEN 0 ELSE step[<<i, g[i - 1]>>]) = (IF Back(i) THEN g[i - 1] ELSE i)
      <3> SUFFICES ASSUME NEW i \in 0..n
                   PROVE  (IF i = 0 THEN 0 ELSE step[<<i, g[i - 1]>>]) = (IF Back(i) THEN g[i - 1] ELSE i)
        OBVIOUS
      <3>1. CASE i = 0
        BY <3>1
      <3>2. CASE i # 0
        <4>1. i \in 1..n /\ i - 1 \in 0..n
          BY <1>0, <3>2
        <4> HIDE DEF step, Back
        <4> QED BY <4>1, <2>1, <3>2
      <3> QED BY <3>1, <3>2
    <2>5. IsBack(g)
      <3> HIDE DEF step, Back, n
      <3> QED BY <2>3, <2>4, Zenon DEF IsRecursion
    <2> HIDE DEF IsBack
    <2> QED BY <2>5, Zenon
  <1>2. Highest(regs, found) = back[found]
    BY Zenon DEF Highest
  <1> DEFINE Ends(i) == /\ back[i] \in 0..i /\ regs[back[i] + 1].name = regs[i + 1].name /\ ~Back(back[i])
             Good == {i \in 0..n : Ends(i)}
  <1>3. 0..n \subseteq Good
    <2>1. \A i \in 0..n : back[i] = IF Back(i) THEN back[i - 1] ELSE i
      <3> HIDE DEF back, Back
      <3> QED BY <1>1
    <2> HIDE DEF back
    <2>2. 0 \in Good
      <3>1. ~Back(0)
        OBVIOUS
      <3>2. back[0] = 0
        <4> HIDE DEF Back
        <4> QED BY <2>1, <3>1, <1>0
      <3> HIDE DEF Back
      <3> QED BY <3>1, <3>2, <1>0
    <2>3. \A i \in 0..(n - 1) : i \in Good => i + 1 \in Good
      <3> SUFFICES ASSUME NEW i \in 0..(n - 1), i \in Good
                   PROVE  i + 1 \in Good
        OBVIOUS
      <3>1. i + 1 \in 0..n /\ (i + 1) - 1 = i /\ i \in Nat /\ i + 1 \in 0..(i + 1)
        BY <1>0
      <3>2. CASE Back(i + 1)
        <4>1. back[i + 1] = back[i]
          <5> HIDE DEF Back
          <5> QED BY <2>1, <3>1, <3>2
        <4>2. regs[i + 1].name = regs[(i + 1) + 1].name
          BY <3>2
        <4>3. back[i] \in 0..i /\ regs[back[i] + 1].name = regs[i + 1].name /\ ~Back(back[i])
          <5> HIDE DEF Back
          <5> QED OBVIOUS
        <4>4. back[i] \in 0..(i + 1)
          <5> HIDE DEF Back
          <5> QED BY <4>3, <3>1
        <4> HIDE DEF Back
        <4> QED BY <4>1, <4>2, <4>3, <4>4, <3>1
      <3>3. CASE ~Back(i + 1)
        <4>1. back[i + 1] = i + 1
          <5> HIDE DEF Back
          <5> QED BY <2>1, <3>1, <3>3
        <4> HIDE DEF Back
        <4> QED BY <4>1, <3>1, <3>3
      <3> QED BY <3>2, <3>3
    <2> HIDE DEF Good, n
    <2> QED BY <1>0, <2>2, <2>3, IntervalInduction
  <1>4. Ends(found)
    <2>1. found \in 0..n
      BY <1>0
    <2> HIDE DEF Ends, n
    <2> QED BY <1>3, <2>1
  <1> HIDE DEF back
  <1>5. back[found] \in 0..(n - 1)
    <2> HIDE DEF Back, n
    <2> QED BY <1>4, <1>0
  <1> QED BY <1>2, <1>4, <1>5

\* The order of the register.
InOrder(regs) == \A i, j \in DOMAIN regs : i < j => ~SortsBefore(regs[j], regs[i])

\* In a register in order, the search finds a place of the name, on its
\* highest level or one of several on a level, and nothing only if there is
\* none.
LEMMA SearchFindsHighest ==
  ASSUME NEW regs \in Seq(Entries), NEW name \in DOMAIN Normal, InOrder(regs)
  PROVE  \/ /\ Retrieve(regs, name) = 0
            /\ \A i \in 1..Len(regs) : regs[i].name # Normal[name]
         \/ \E i \in 1..Len(regs) :
              /\ regs[i].name = Normal[name] /\ Retrieve(regs, name) = regs[i].relation
              /\ \/ \A j \in 1..Len(regs) : regs[j].name = Normal[name] => regs[i].level <= regs[j].level
                 \/ \E k \in 1..Len(regs) : k # i /\ regs[k].name = Normal[name] /\ regs[k].level = regs[i].level
PROOF
  <1> DEFINE n == Len(regs)
             which == Normal[name]
             found == Halving(regs, which)
             top == Highest(regs, found)
  <1>0. n \in Nat /\ which \in Nat /\ DOMAIN regs = 1..n
    BY SwedenAssumption DEF NormalAssumption
  <1>1. \A i \in 1..n : regs[i].name \in Nat /\ regs[i].level \in Nat
    <2>1. \A i \in 1..n : regs[i] \in Entries
      OBVIOUS
    <2> QED BY <2>1 DEF Entries
  <1>2. \A i, j \in 1..n : i < j => /\ regs[i].name <= regs[j].name
                                    /\ regs[i].name = regs[j].name => regs[i].level <= regs[j].level
    <2> SUFFICES ASSUME NEW i \in 1..n, NEW j \in 1..n, i < j
                 PROVE  /\ regs[i].name <= regs[j].name
                        /\ regs[i].name = regs[j].name => regs[i].level <= regs[j].level
      OBVIOUS
    <2>1. ~SortsBefore(regs[j], regs[i])
      BY <1>0 DEF InOrder
    <2>2. ~(regs[j].name < regs[i].name) /\ ~(regs[j].name = regs[i].name /\ regs[j].level < regs[i].level)
      BY <2>1, Zenon DEF SortsBefore
    <2> QED BY <2>2, <1>1
  <1>3. \/ found \in 0..(n - 1) /\ regs[found + 1].name = which
        \/ found = -1 /\ \A i \in 1..n : regs[i].name # which
    <2> HIDE DEF which
    <2> QED BY <1>0, <1>2, HalvingFinds
  <1>4. Retrieve(regs, name) = IF found < 0 THEN 0 ELSE regs[top + 1].relation
    BY Zenon DEF Retrieve
  <1> HIDE DEF found, which
  <1>5. CASE found = -1 /\ \A i \in 1..n : regs[i].name # which
    <2>1. Retrieve(regs, name) = 0
      BY <1>4, <1>5
    <2> QED BY <2>1, <1>5 DEF which
  <1>6. CASE found \in 0..(n - 1) /\ regs[found + 1].name = which
    <2>1. /\ top \in 0..(n - 1) /\ regs[top + 1].name = which
          /\ ~(top > 0 /\ regs[top].level < regs[top + 1].level /\ regs[top].name = regs[top + 1].name)
      BY <1>6, GoingBackEnds
    <2> HIDE DEF top
    <2>2. Retrieve(regs, name) = regs[top + 1].relation
      <3> HIDE DEF n
      <3>1. ~(found < 0)
        BY <1>6, <1>0
      <3> QED BY <3>1, <1>4
    <2> DEFINE i == top + 1
    <2>3. i \in 1..n
      <3> HIDE DEF n
      <3> QED BY <2>1, <1>0
    <2> DEFINE Twin == \E k \in 1..n : k # i /\ regs[k].name = which /\ regs[k].level = regs[i].level
    <2>4. ASSUME ~Twin, NEW j \in 1..n, regs[j].name = which
          PROVE  regs[i].level <= regs[j].level
      <3> HIDE DEF n
      <3>1. CASE i < j
        <4> HIDE DEF i
        <4>1. regs[i].name = regs[j].name
          BY <2>4, <2>1 DEF i
        <4> QED BY <3>1, <4>1, <1>2, <2>3
      <3>2. CASE i = j
        <4> HIDE DEF i
        <4> QED BY <3>2, <1>1
      <3>3. CASE j < i
        <4>1. top \in 1..n /\ top < i /\ j <= top /\ top > 0 /\ top # i
          BY <3>3, <2>1, <1>0
        <4>2. regs[j].name <= regs[top].name /\ regs[top].name <= regs[i].name
          <5>1. regs[j].name <= regs[top].name
            <6>1. CASE j < top
              BY <6>1, <4>1, <1>2
            <6>2. CASE j = top
              BY <6>2, <1>1
            <6> QED BY <6>1, <6>2, <4>1
          <5>2. regs[top].name <= regs[i].name
            BY <4>1, <2>3, <1>2
          <5> QED BY <5>1, <5>2
        <4>3. regs[i].name = which
          BY <2>1
        <4> HIDE DEF i
        <4>4. regs[top].name = which
          BY <4>1, <4>2, <4>3, <2>3, <2>4, <1>1
        <4>5. ~(regs[top].level < regs[i].level)
          BY <2>1, <4>1, <4>3, <4>4 DEF i
        <4>6. regs[top].level <= regs[i].level
          BY <1>2, <4>1, <2>3, <4>3, <4>4
        <4>7. regs[top].level = regs[i].level
          BY <4>5, <4>6, <4>1, <2>3, <1>1
        <4> QED BY <2>4, <4>1, <4>4, <4>7
      <3> QED BY <3>1, <3>2, <3>3, <2>3, <1>0
    <2>5. regs[i].name = which
      BY <2>1
    <2> HIDE DEF i
    <2>6. Twin \/ \A j \in 1..n : regs[j].name = which => regs[i].level <= regs[j].level
      <3> HIDE DEF Twin
      <3> QED BY <2>4
    <2> QED BY <2>2, <2>3, <2>5, <2>6 DEF which, i
  <1> QED BY <1>3, <1>5, <1>6

-----------------------------------------------------------------------------
(* The register lists the regions of the map.                              *)

\* Each entry is one of the statements, and each of these has one entry.
IsSource(src, regs, S) ==
  /\ src \in [1..Len(regs) -> S]
  /\ \A i, j \in 1..Len(regs) : i # j => src[i] # src[j]
  /\ \A s \in S : \E i \in 1..Len(regs) : src[i] = s
  /\ \A i \in 1..Len(regs) : regs[i] = RegionOf(src[i].name, src[i].level, src[i].relation)
Lists(regs, S) == regs \in Seq(Entries) /\ \E src : IsSource(src, regs, S)

LEMMA SortKeepsList ==
  ASSUME NEW S, NEW regs, Lists(regs, S), NEW s \in SortRegions(regs)
  PROVE  Lists(s, S) /\ InOrder(s)
PROOF
  <1> DEFINE n == Len(regs)
  <1>0. regs \in Seq(Entries) /\ n \in Nat /\ DOMAIN regs = 1..n
    BY DEF Lists
  <1>1. PICK src : IsSource(src, regs, S)
    BY DEF Lists
  <1>2. PICK p \in SetToSeqs(1..n) : s = [i \in 1..n |-> regs[p[i]]]
    BY <1>0, Zenon DEF SortRegions
  <1>3. \A i, j \in DOMAIN s : i < j => ~SortsBefore(s[j], s[i])
    BY Zenon DEF SortRegions
  <1>4. IsFiniteSet(1..n) /\ Cardinality(1..n) = n
    BY <1>0, FS_Interval
  <1>5. p \in [1..n -> 1..n] /\ \A i, j \in 1..n : i # j => p[i] # p[j]
    <2>1. SetToSeqs(1..n) = {f \in [1..n -> 1..n] : \A i, j \in 1..n : i # j => f[i] # f[j]}
      BY <1>4, Zenon DEF SetToSeqs
    <2> HIDE DEF n
    <2> QED BY <1>2, <2>1
  <1>6. \A k \in 1..n : \E i \in 1..n : p[i] = k
    <2> HIDE DEF n
    <2>1. p \in Injection(1..n, 1..n)
      BY <1>5 DEF Injection, IsInjective
    <2>2. p \in Surjection(1..n, 1..n)
      BY <1>4, <2>1, FS_Injection
    <2> QED BY <2>2 DEF Surjection
  <1>7. /\ s \in Seq(Entries) /\ Len(s) = n /\ DOMAIN s = 1..n
        /\ \A i \in 1..n : s[i] = regs[p[i]]
    <2>1. \A i \in 1..n : regs[p[i]] \in Entries
      BY <1>0, <1>5
    <2> HIDE DEF n
    <2> QED BY <1>0, <1>2, <2>1
  <1> DEFINE to == [i \in 1..n |-> src[p[i]]]
  <1>8. /\ src \in [1..n -> S]
        /\ \A i, j \in 1..n : i # j => src[i] # src[j]
        /\ \A r \in S : \E i \in 1..n : src[i] = r
        /\ \A i \in 1..n : regs[i] = RegionOf(src[i].name, src[i].level, src[i].relation)
    BY <1>1 DEF IsSource
  <1> HIDE DEF n
  <1>9. to \in [1..n -> S] /\ \A i \in 1..n : to[i] = src[p[i]]
    BY <1>5, <1>8
  <1> HIDE DEF to
  <1>10. \A i, j \in 1..n : i # j => to[i] # to[j]
    BY <1>5, <1>8, <1>9
  <1>11. ASSUME NEW r \in S
         PROVE  \E i \in 1..n : to[i] = r
    <2>1. PICK k \in 1..n : src[k] = r
      BY <1>8
    <2>2. PICK i \in 1..n : p[i] = k
      BY <1>6
    <2> QED BY <2>1, <2>2, <1>9
  <1>12. \A i \in 1..n : s[i] = RegionOf(to[i].name, to[i].level, to[i].relation)
    <2> SUFFICES ASSUME NEW i \in 1..n
                 PROVE  s[i] = RegionOf(to[i].name, to[i].level, to[i].relation)
      OBVIOUS
    <2> DEFINE k == p[i]
    <2>1. k \in 1..n /\ s[i] = regs[k] /\ to[i] = src[k]
      BY <1>5, <1>7, <1>9
    <2> HIDE DEF k
    <2> QED BY <2>1, <1>8
  <1>13. IsSource(to, s, S)
    BY <1>7, <1>9, <1>10, <1>11, <1>12 DEF IsSource
  <1>14. InOrder(s)
    BY <1>3 DEF InOrder
  <1> QED BY <1>7, <1>13, <1>14 DEF Lists

LEMMA AppendListsOneMore ==
  ASSUME NEW S, NEW regs, Lists(regs, S), NEW s, s \notin S,
         s \in [name : DOMAIN Normal, level : Nat, relation : Nat \ {0}]
  PROVE  Lists(Append(regs, RegionOf(s.name, s.level, s.relation)), S \cup {s})
PROOF
  <1> DEFINE n == Len(regs)
             entry == RegionOf(s.name, s.level, s.relation)
             more == Append(regs, entry)
  <1>0. regs \in Seq(Entries) /\ n \in Nat
    BY DEF Lists
  <1>1. PICK src : IsSource(src, regs, S)
    BY DEF Lists
  <1>2. entry \in Entries
    <2>1. Normal[s.name] \in Nat
      BY SwedenAssumption DEF NormalAssumption
    <2> QED BY <2>1 DEF RegionOf, Entries
  <1> HIDE DEF entry
  <1>3. /\ more \in Seq(Entries) /\ Len(more) = n + 1
        /\ \A i \in 1..n : more[i] = regs[i]
        /\ more[n + 1] = entry
    BY <1>0, <1>2
  <1> DEFINE to == [i \in 1..(n + 1) |-> IF i = n + 1 THEN s ELSE src[i]]
  <1>4. /\ src \in [1..n -> S]
        /\ \A i, j \in 1..n : i # j => src[i] # src[j]
        /\ \A r \in S : \E i \in 1..n : src[i] = r
        /\ \A i \in 1..n : regs[i] = RegionOf(src[i].name, src[i].level, src[i].relation)
    BY <1>1 DEF IsSource
  <1> HIDE DEF n, more
  <1>5. \A i \in 1..(n + 1) : i = n + 1 \/ (i \in 1..n /\ i # n + 1)
    BY <1>0
  <1>6. to[n + 1] = s /\ n + 1 \in 1..(n + 1) /\ \A i \in 1..n : i \in 1..(n + 1) /\ to[i] = src[i]
    BY <1>0
  <1>7. to \in [1..(n + 1) -> S \cup {s}]
    BY <1>4, <1>5
  <1> HIDE DEF to
  <1>8. \A i, j \in 1..(n + 1) : i # j => to[i] # to[j]
    BY <1>4, <1>5, <1>6
  <1>9. ASSUME NEW r \in S \cup {s}
        PROVE  \E i \in 1..(n + 1) : to[i] = r
    BY <1>4, <1>6
  <1>10. ASSUME NEW i \in 1..(n + 1)
         PROVE  more[i] = RegionOf(to[i].name, to[i].level, to[i].relation)
    <2>1. CASE i = n + 1
      BY <2>1, <1>3, <1>6 DEF entry
    <2>2. CASE i \in 1..n
      BY <2>2, <1>3, <1>4, <1>6
    <2> QED BY <1>5, <2>1, <2>2
  <1>11. IsSource(to, more, S \cup {s})
    BY <1>3, <1>7, <1>8, <1>9, <1>10 DEF IsSource
  <1> QED BY <1>3, <1>11 DEF Lists, more, entry

\* What the register lists: while the map is read, what has been read of it.
RegionsRead == {s \in map.regions \ unread : Registered(s)}
RegisterInv ==
  /\ stage \in {"reading", "fixing", "saving"} => Lists(regions, RegionsRead)
  /\ stage \in {"fixing", "saving"} => unread = {}
  /\ sorted => InOrder(regions)
  /\ file # NoFile => /\ Lists(file.regions, {s \in map.regions : Registered(s)})
                      /\ InOrder(file.regions)

LEMMA EmptyRegister == Lists(<<>>, {}) /\ InOrder(<<>>)
PROOF
  <1> DEFINE src == [i \in 1..0 |-> 0]
  <1>1. <<>> \in Seq(Entries) /\ Len(<<>>) = 0 /\ DOMAIN <<>> = {}
    OBVIOUS
  <1>2. \A i \in 1..0 : FALSE
    OBVIOUS
  <1>3. src \in [1..0 -> {}]
    BY <1>2
  <1> HIDE DEF src
  <1>4. IsSource(src, <<>>, {})
    BY <1>1, <1>2, <1>3 DEF IsSource
  <1>5. InOrder(<<>>)
    BY <1>1 DEF InOrder
  <1> QED BY <1>1, <1>4, <1>5 DEF Lists

LEMMA NothingIsRead ==
  ASSUME regions = <<>>, unread = Statements(map), sorted = FALSE, stage = "reading", file = NoFile
  PROVE  RegisterInv
PROOF
  <1>1. RegionsRead = {}
    BY DEF RegionsRead, Statements
  <1> QED BY <1>1, EmptyRegister DEF RegisterInv

LEMMA RegisterStep ==
  ASSUME TypeInv, RegisterInv, [Next]_vars
  PROVE  RegisterInv'
PROOF
  <1>1. ASSUME NEW s \in unread, ReadRef(s) \/ ReadCode(s)
        PROVE  RegisterInv'
    <2>1. /\ stage = "reading" /\ stage' = stage /\ unread' = unread \ {s}
          /\ s \in map.refs \/ s \in map.codes
          /\ UNCHANGED <<map, regions, sorted, file>>
      BY <1>1 DEF ReadRef, ReadCode, Memorise
    <2>2. s \notin map.regions
      <3>1. map \in Maps
        BY DEF TypeInv
      <3>2. \A r \in map.regions : DOMAIN r = {"name", "level", "relation"}
        BY <3>1, MapsAssumption
      <3>3. DOMAIN s = {"way", "ref"} \/ DOMAIN s = {"kind", "code", "relation"}
        BY <2>1, <3>1, MapsAssumption
      <3>4. "name" \notin DOMAIN s
        BY <3>3
      <3> QED BY <3>2, <3>4
    <2>3. RegionsRead' = RegionsRead
      BY <2>1, <2>2 DEF RegionsRead, Registered
    <2> QED BY <2>1, <2>3 DEF RegisterInv, Registered
  <1>2. ASSUME NEW s \in unread, ReadRegion(s)
        PROVE  RegisterInv'
    <2>1. /\ s \in map.regions /\ stage = "reading" /\ stage' = stage /\ unread' = unread \ {s}
          /\ UNCHANGED <<map, file>>
      BY <1>2 DEF ReadRegion, Memorise
    <2>2. Lists(regions, RegionsRead) /\ s \notin RegionsRead
      BY <2>1 DEF RegisterInv, RegionsRead
    <2>3. s \in [name : DOMAIN Normal, level : Nat, relation : Nat \ {0}]
      BY <2>1, MapsAssumption DEF TypeInv
    <2>4. CASE Registered(s)
      <3>1. regions' = Append(regions, RegionOf(s.name, s.level, s.relation)) /\ sorted' = FALSE
        BY <1>2, <2>4 DEF ReadRegion
      <3>2. RegionsRead' = RegionsRead \cup {s}
        BY <2>1, <2>4 DEF RegionsRead, Registered
      <3>3. Lists(regions', RegionsRead')
        BY <2>2, <2>3, <3>1, <3>2, AppendListsOneMore
      <3> QED BY <2>1, <3>1, <3>3 DEF RegisterInv, Registered
    <2>5. CASE ~Registered(s)
      <3>1. UNCHANGED <<regions, sorted>>
        BY <1>2, <2>5 DEF ReadRegion
      <3>2. RegionsRead' = RegionsRead
        BY <2>1, <2>5 DEF RegionsRead, Registered
      <3> QED BY <2>1, <3>1, <3>2 DEF RegisterInv, Registered
    <2> QED BY <2>4, <2>5
  <1>3. ASSUME UNCHANGED <<map, unread, regions, sorted, file>>,
               stage' \in {"fixing", "saving"} => stage \in {"fixing", "saving"} \/ (stage = "reading" /\ unread = {}),
               stage' # "reading" \/ stage = "reading"
        PROVE  RegisterInv'
    <2>1. RegionsRead' = RegionsRead
      BY <1>3 DEF RegionsRead, Registered
    <2> QED BY <1>3, <2>1 DEF RegisterInv, Registered
  <1>4. CASE ReadAll
    BY <1>4, <1>3 DEF ReadAll, memory
  <1>5. ASSUME NEW rest, Cleared(rest), UNCHANGED <<map, file>>, stage' \in {"down", "ended"}
        PROVE  RegisterInv'
    <2>1. regions' = <<>> /\ sorted' = FALSE
      BY <1>5 DEF Cleared
    <2> QED BY <1>5, <2>1 DEF RegisterInv, Registered
  <1>6. ASSUME EndsProgram, UNCHANGED <<map, file>>
        PROVE  RegisterInv'
    BY <1>5, <1>6 DEF EndsProgram
  <1>7. CASE FixWay
    <2>1. CASE EndsProgram
      BY <1>7, <2>1, <1>6 DEF FixWay
    <2>2. CASE ~EndsProgram
      <3>1. stage = "fixing" /\ UNCHANGED <<map, file>> /\ UNCHANGED <<unread, codes, regions, sorted, stage>>
        BY <1>7, <2>2, Zenon DEF FixWay, Fixing
      <3> QED BY <3>1, <1>3
    <2> QED BY <2>1, <2>2
  <1>8. CASE FixNext
    BY <1>8, <1>3 DEF FixNext, Fixing
  <1>9. CASE FixDone
    BY <1>9, <1>3 DEF FixDone, memory
  <1>10. CASE Write
    <2>1. PICK r \in (IF sorted THEN {regions} ELSE SortRegions(regions)) :
            /\ stage = "saving" /\ stage' = "serving" /\ regions' = r /\ sorted' = TRUE
            /\ file' = Written(r) /\ UNCHANGED <<map, unread>>
      BY <1>10 DEF Write
    <2>2. Lists(regions, RegionsRead) /\ unread = {} /\ (sorted => InOrder(regions))
      BY <2>1 DEF RegisterInv
    <2>3. RegionsRead = {s \in map.regions : Registered(s)}
      BY <2>2 DEF RegionsRead
    <2>4. Lists(r, RegionsRead) /\ InOrder(r)
      <3>1. CASE sorted
        BY <2>1, <2>2, <3>1
      <3>2. CASE ~sorted
        BY <2>1, <2>2, <3>2, SortKeepsList
      <3> QED BY <3>1, <3>2
    <2>5. file'.regions = r
      BY <2>1 DEF Written
    <2> QED BY <2>1, <2>3, <2>4, <2>5 DEF RegisterInv, Registered
  <1>11. CASE Stop
    BY <1>11, <1>5 DEF Stop
  <1>12. CASE Read
    <2>1. CASE CannotRead(file)
      BY <1>12, <2>1, <1>6 DEF Read
    <2>2. CASE ~CannotRead(file)
      <3>1. /\ file # NoFile /\ regions' = file.regions /\ stage' = "serving" /\ UNCHANGED <<map, file>>
        BY <1>12, <2>2 DEF Read
      <3> QED BY <3>1 DEF RegisterInv, Registered
    <2> QED BY <2>1, <2>2
  <1>13. CASE StartAgain
    <2>1. CASE file # NoFile
      BY <1>13, <2>1, <1>3 DEF StartAgain, memory
    <2>2. CASE file = NoFile
      <3>1. /\ regions' = <<>> /\ sorted' = FALSE /\ stage' = "reading" /\ map' = map
            /\ unread' = Statements(map) /\ file' = NoFile
        BY <1>13, <2>2 DEF StartAgain, Cleared
      <3>2. RegionsRead' = {}
        BY <3>1 DEF RegionsRead, Statements
      <3> QED BY <3>1, <3>2, EmptyRegister DEF RegisterInv
    <2> QED BY <2>1, <2>2
  <1>14. ASSUME NEW c \in Points, AskMunicipality(c)
         PROVE  RegisterInv'
    BY <1>14, <1>6 DEF AskMunicipality
  <1>15. ASSUME NEW name \in DOMAIN Normal, AskRegion(name)
         PROVE  RegisterInv'
    BY <1>15, <1>6 DEF AskRegion
  <1>16. CASE UNCHANGED vars
    BY <1>16, <1>3 DEF vars, memory
  <1> QED BY <1>1, <1>2, <1>4, <1>7, <1>8, <1>9, <1>10, <1>11, <1>12, <1>13, <1>14, <1>15, <1>16 DEF Next

LEMMA RegisterInvariant == Spec => []RegisterInv
PROOF
  <1>1. Init => RegisterInv
    BY NothingIsRead DEF Init
  <1>2. TypeInv /\ RegisterInv /\ [Next]_vars => RegisterInv'
    BY RegisterStep
  <1> QED BY <1>1, <1>2, TypesInvariant, PTL DEF Spec

\* A name finds a region of that name, whatever regions there are and in
\* whatever order they came and equal ones were sorted: the one of the highest
\* level, unless it shares its level with another of the name
\* (sweden.cpp:177-216).
THEOREM HighestUnlessTwinsIsFound == Spec => []HighestUnlessTwins
PROOF
  <1>1. TypeInv /\ FileInv /\ ServedInv /\ RegisterInv => HighestUnlessTwins
    <2> SUFFICES ASSUME TypeInv, FileInv, ServedInv, RegisterInv, stage = "serving", NEW name \in DOMAIN Normal
                 PROVE  LET same == {s \in map.regions : Registered(s) /\ Normal[s.name] = Normal[name]}
                        IN  IF same = {} THEN Retrieve(regions, name) = 0
                            ELSE \E s \in same : /\ s.relation = Retrieve(regions, name)
                                                 /\ \/ \A o \in same : s.level <= o.level
                                                    \/ \E t \in same \ {s} : t.level = s.level
      BY Zenon DEF HighestUnlessTwins
    <2> DEFINE all == {s \in map.regions : Registered(s)}
               same == {s \in map.regions : Registered(s) /\ Normal[s.name] = Normal[name]}
               n == Len(regions)
    <2>1. regions = file.regions /\ file # NoFile
      <3>1. <<codes, roads, regions>> = <<file.codes, RoadsRead(file), file.regions>> /\ file # NoFile
        BY DEF FileInv, ServedInv, memory
      <3> QED BY <3>1
    <2>2. Lists(regions, all) /\ InOrder(regions)
      BY <2>1 DEF RegisterInv
    <2>3. regions \in Seq(Entries)
      BY <2>2 DEF Lists
    <2>4. PICK src : IsSource(src, regions, all)
      BY <2>2 DEF Lists
    <2>5. /\ \A i \in 1..n : src[i] \in all
          /\ \A i, j \in 1..n : i # j => src[i] # src[j]
          /\ \A s \in all : \E i \in 1..n : src[i] = s
          /\ \A i \in 1..n : /\ regions[i].name = Normal[src[i].name] /\ regions[i].level = src[i].level
                             /\ regions[i].relation = src[i].relation
      <3>1. /\ src \in [1..n -> all]
            /\ \A i, j \in 1..n : i # j => src[i] # src[j]
            /\ \A s \in all : \E i \in 1..n : src[i] = s
            /\ \A i \in 1..n : regions[i] = RegionOf(src[i].name, src[i].level, src[i].relation)
        BY <2>4, Zenon DEF IsSource
      <3>2. \A i \in 1..n : /\ regions[i].name = Normal[src[i].name] /\ regions[i].level = src[i].level
                            /\ regions[i].relation = src[i].relation
        <4> SUFFICES ASSUME NEW i \in 1..n
                     PROVE  /\ regions[i].name = Normal[src[i].name] /\ regions[i].level = src[i].level
                            /\ regions[i].relation = src[i].relation
          OBVIOUS
        <4> HIDE DEF all, n
        <4>1. regions[i] = RegionOf(src[i].name, src[i].level, src[i].relation)
          BY <3>1
        <4> QED BY <4>1 DEF RegionOf
      <3> HIDE DEF all, n
      <3> QED BY <3>1, <3>2
    <2> DEFINE Low(i)  == \A j \in 1..n : regions[j].name = Normal[name] => regions[i].level <= regions[j].level
               Twin(i) == \E k \in 1..n : /\ k # i /\ regions[k].name = Normal[name]
                                          /\ regions[k].level = regions[i].level
               Top(s)  == \A o \in same : s.level <= o.level
               Pair(s) == \E t \in same \ {s} : t.level = s.level
    <2>7. \/ /\ Retrieve(regions, name) = 0
             /\ \A i \in 1..n : regions[i].name # Normal[name]
          \/ \E i \in 1..n :
               /\ regions[i].name = Normal[name] /\ Retrieve(regions, name) = regions[i].relation
               /\ Low(i) \/ Twin(i)
      BY <2>2, <2>3, SearchFindsHighest
    <2>8. \A s \in same : s \in all /\ Normal[s.name] = Normal[name]
      OBVIOUS
    <2>9. \A s \in all : Normal[s.name] = Normal[name] => s \in same
      OBVIOUS
    <2> HIDE DEF n, all, same
    <2>10. CASE /\ Retrieve(regions, name) = 0
                /\ \A i \in 1..n : regions[i].name # Normal[name]
      <3>1. same = {}
        <4> SUFFICES ASSUME NEW s \in same
                     PROVE  FALSE
          OBVIOUS
        <4>1. PICK i \in 1..n : src[i] = s
          BY <2>5, <2>8
        <4>2. regions[i].name = Normal[name]
          BY <4>1, <2>5, <2>8
        <4> QED BY <4>2, <2>10
      <3> QED BY <2>10, <3>1 DEF same
    <2>11. ASSUME NEW i \in 1..n, regions[i].name = Normal[name], Retrieve(regions, name) = regions[i].relation,
                  Low(i) \/ Twin(i)
           PROVE  \E s \in same : s.relation = Retrieve(regions, name) /\ (Top(s) \/ Pair(s))
      <3>1. src[i] \in same /\ src[i].relation = Retrieve(regions, name)
        BY <2>5, <2>9, <2>11
      <3>2. CASE Low(i)
        <4>1. ASSUME NEW o \in same
              PROVE  src[i].level <= o.level
          <5>1. PICK j \in 1..n : src[j] = o
            BY <2>5, <2>8
          <5>2. regions[j].name = Normal[name]
            BY <5>1, <2>5, <2>8
          <5>3. regions[i].level <= regions[j].level
            BY <5>2, <3>2
          <5> QED BY <5>1, <5>3, <2>5
        <4> QED BY <3>1, <4>1
      <3>3. CASE Twin(i)
        <4>1. PICK k \in 1..n : /\ k # i /\ regions[k].name = Normal[name]
                                /\ regions[k].level = regions[i].level
          BY <3>3
        <4>2. src[k] \in same /\ src[k] # src[i] /\ src[k].level = src[i].level
          BY <4>1, <2>5, <2>9
        <4> QED BY <3>1, <4>2
      <3> QED BY <2>11, <3>2, <3>3
    <2>12. CASE \E i \in 1..n :
                  /\ regions[i].name = Normal[name] /\ Retrieve(regions, name) = regions[i].relation
                  /\ Low(i) \/ Twin(i)
      <3>1. \E s \in same : s.relation = Retrieve(regions, name) /\ (Top(s) \/ Pair(s))
        <4> HIDE DEF Low, Twin, Top, Pair
        <4> QED BY <2>11, <2>12
      <3>2. same # {}
        <4> HIDE DEF Top, Pair
        <4> QED BY <3>1
      <3> QED BY <3>1, <3>2 DEF same
    <2> QED BY <2>7, <2>10, <2>12
  <1> QED BY <1>1, TypesInvariant, RegisterInvariant, PTL

-----------------------------------------------------------------------------
(* The labels that count.                                                  *)

\* A label counts if nothing up to it is unreadable, and it is not a bare
\* number behind a link.
Counts(ref, i) ==
  /\ \A j \in 1..i : ref[j].readable
  /\ i > 1 /\ ref[i].letters = "" => \A j \in 1..(i - 1) :
                                       ref[j].link => \E k \in (j + 1)..i : ref[k].letters # ""
Counting(ref, n) == {i \in 1..n : Counts(ref, i)}
Behind(ref, n) == \E j \in 1..n : ref[j].link /\ \A k \in (j + 1)..n : ref[k].letters = ""

\* Which label each of the roads comes from: each that counts, once.
Source(src, ref, found, n) ==
  /\ src \in [1..Len(found) -> Counting(ref, n)]
  /\ \A i, j \in 1..Len(found) : src[i] = src[j] => i = j
  /\ \A k \in Counting(ref, n) : \E i \in 1..Len(found) : src[i] = k
  /\ \A i \in 1..Len(found) : found[i] = RoadOf(ref[src[i]])

ReadTo(s, ref, n) ==
  /\ s.over <=> \E j \in 1..n : ~ref[j].readable
  /\ ~s.over => (s.link <=> Behind(ref, n))
  /\ \E src : Source(src, ref, s.found, n)

\* What one more label does to these.
LEMMA OneMoreCounts ==
  ASSUME NEW ref \in Seq(RefLabels), NEW n \in Nat, n + 1 \in 1..Len(ref)
  PROVE  /\ Counts(ref, n + 1) <=> /\ \A j \in 1..n : ref[j].readable
                                   /\ ref[n + 1].readable /\ ~(Behind(ref, n) /\ ref[n + 1].letters = "")
         /\ Behind(ref, n + 1) <=> IF ref[n + 1].letters # "" THEN ref[n + 1].link
                                   ELSE ref[n + 1].link \/ Behind(ref, n)
         /\ Counting(ref, n + 1) = Counting(ref, n) \cup {k \in {n + 1} : Counts(ref, k)}
PROOF
  <1> DEFINE m == n + 1
  <1>1. /\ m \in Nat /\ m # 0 /\ m - 1 = n /\ m \in 1..m /\ m \notin 1..n /\ (m > 1 <=> n # 0)
        /\ \A j : j \in 1..m <=> j \in 1..n \/ j = m
        /\ \A j \in 1..n : \A k : k \in (j + 1)..m <=> k \in (j + 1)..n \/ k = m
        /\ \A k : k \notin (m + 1)..m
        /\ (n = 0 => \A j : j \notin 1..n)
    OBVIOUS
  <1>2. Counts(ref, m) <=> /\ \A j \in 1..n : ref[j].readable
                           /\ ref[m].readable /\ ~(Behind(ref, n) /\ ref[m].letters = "")
    <2>1. (\A j \in 1..m : ref[j].readable) <=> (\A j \in 1..n : ref[j].readable) /\ ref[m].readable
      <3> HIDE DEF m
      <3> QED BY <1>1
    <2>2. ASSUME ref[m].letters = ""
          PROVE  (m > 1 => \A j \in 1..n : ref[j].link => \E k \in (j + 1)..m : ref[k].letters # "")
                 <=> ~Behind(ref, n)
      <3>1. \A j \in 1..n : (\E k \in (j + 1)..m : ref[k].letters # "") <=> ~(\A k \in (j + 1)..n : ref[k].letters = "")
        <4> HIDE DEF m
        <4> QED BY <1>1, <2>2
      <3> HIDE DEF m
      <3> QED BY <1>1, <3>1 DEF Behind
    <2> HIDE DEF m
    <2> QED BY <1>1, <2>1, <2>2 DEF Counts
  <1>3. Behind(ref, m) <=> IF ref[m].letters # "" THEN ref[m].link ELSE ref[m].link \/ Behind(ref, n)
    <2>1. Behind(ref, m) <=> \/ ref[m].link
                             \/ \E j \in 1..n : ref[j].link /\ \A k \in (j + 1)..m : ref[k].letters = ""
      <3> HIDE DEF m
      <3> QED BY <1>1 DEF Behind
    <2>2. \A j \in 1..n : (\A k \in (j + 1)..m : ref[k].letters = "")
                          <=> ref[m].letters = "" /\ \A k \in (j + 1)..n : ref[k].letters = ""
      <3>1. \A j \in 1..n : m \in (j + 1)..m
        OBVIOUS
      <3> HIDE DEF m
      <3> QED BY <1>1, <3>1
    <2> HIDE DEF m
    <2> QED BY <2>1, <2>2 DEF Behind
  <1>4. Counting(ref, m) = Counting(ref, n) \cup {k \in {m} : Counts(ref, k)}
    <2> HIDE DEF m
    <2> QED BY <1>1 DEF Counting
  <1> QED BY <1>2, <1>3, <1>4

\* One more road, from a label that did not count yet.
LEMMA OneMoreSource ==
  ASSUME NEW ref, NEW found \in Seq(Roads), NEW n \in Nat, NEW src, Source(src, ref, found, n),
         Counting(ref, n + 1) = Counting(ref, n) \cup {n + 1}
  PROVE  \E s : Source(s, ref, Append(found, RoadOf(ref[n + 1])), n + 1)
PROOF
  <1> DEFINE c == Len(found)
             more == Append(found, RoadOf(ref[n + 1]))
             s == [i \in 1..(c + 1) |-> IF i = c + 1 THEN n + 1 ELSE src[i]]
  <1>1. /\ c \in Nat /\ Len(more) = c + 1 /\ more[c + 1] = RoadOf(ref[n + 1])
        /\ \A i \in 1..c : more[i] = found[i]
    <2>1. c \in Nat /\ \A x : Len(Append(found, x)) = c + 1 /\ Append(found, x)[c + 1] = x
                            /\ \A i \in 1..c : Append(found, x)[i] = found[i]
      OBVIOUS
    <2> HIDE DEF c
    <2> QED BY <2>1, Zenon
  <1>2. /\ \A i : i \in 1..(c + 1) <=> i \in 1..c \/ i = c + 1
        /\ c + 1 \notin 1..c /\ n + 1 \notin Counting(ref, n)
    <2>1. n + 1 \notin 1..n
      OBVIOUS
    <2> HIDE DEF c
    <2> QED BY <1>1, <2>1 DEF Counting
  <1>3. s[c + 1] = n + 1 /\ \A i \in 1..c : s[i] = src[i] /\ s[i] \in Counting(ref, n)
    <2> HIDE DEF c
    <2>1. /\ c + 1 \in 1..(c + 1) /\ \A i \in 1..c : i \in 1..(c + 1) /\ i # c + 1
      BY <1>2
    <2> QED BY <2>1 DEF Source, c
  <1>4. s \in [1..(c + 1) -> Counting(ref, n + 1)]
    <2>1. \A i \in 1..(c + 1) : s[i] \in Counting(ref, n + 1)
      <3> HIDE DEF s, c
      <3> QED BY <1>2, <1>3
    <2> HIDE DEF c
    <2> QED BY <2>1
  <1> HIDE DEF s, c, more
  <1>5. \A i, j \in 1..(c + 1) : s[i] = s[j] => i = j
    <2>1. \A i, j \in 1..c : src[i] = src[j] => i = j
      BY DEF Source, c
    <2> QED BY <1>2, <1>3, <2>1
  <1>6. \A k \in Counting(ref, n + 1) : \E i \in 1..(c + 1) : s[i] = k
    <2>1. \A k \in Counting(ref, n) : \E i \in 1..c : src[i] = k
      BY DEF Source, c
    <2> QED BY <1>2, <1>3, <2>1
  <1>7. \A i \in 1..(c + 1) : more[i] = RoadOf(ref[s[i]])
    <2>1. \A i \in 1..c : found[i] = RoadOf(ref[src[i]])
      BY DEF Source, c
    <2> QED BY <1>1, <1>2, <1>3, <2>1
  <1>8. Source(s, ref, more, n + 1)
    BY <1>1, <1>4, <1>5, <1>6, <1>7 DEF Source
  <1> QED BY <1>8 DEF more

LEMMA ReadOneMore ==
  ASSUME NEW ref \in Seq(RefLabels), NEW n \in Nat, n + 1 \in 1..Len(ref), NEW s \in Readings, ReadTo(s, ref, n)
  PROVE  ReadTo(ReadOn(s, ref[n + 1]), ref, n + 1)
PROOF
  <1> DEFINE m == n + 1
             l == ref[m]
             t == ReadOn(s, l)
  <1>1. /\ Counts(ref, m) <=> (\A j \in 1..n : ref[j].readable) /\ l.readable /\ ~(Behind(ref, n) /\ l.letters = "")
        /\ Behind(ref, m) <=> IF l.letters # "" THEN l.link ELSE l.link \/ Behind(ref, n)
        /\ Counting(ref, m) = Counting(ref, n) \cup {k \in {m} : Counts(ref, k)}
    BY OneMoreCounts
  <1>2. \A j : j \in 1..m <=> j \in 1..n \/ j = m
    OBVIOUS
  <1>3. l \in RefLabels /\ l.readable \in BOOLEAN /\ l.link \in BOOLEAN /\ s.over \in BOOLEAN /\ s.link \in BOOLEAN
        /\ s.found \in Seq(Roads)
    <2>1. l \in RefLabels
      <3>1. m \in 1..Len(ref)
        OBVIOUS
      <3> HIDE DEF m
      <3> QED BY <3>1
    <2> HIDE DEF l
    <2>2. l.readable \in BOOLEAN /\ l.link \in BOOLEAN
      BY <2>1 DEF RefLabels
    <2>3. s.over \in BOOLEAN /\ s.link \in BOOLEAN /\ s.found \in Seq(Roads)
      BY DEF Readings
    <2> QED BY <2>1, <2>2, <2>3
  <1>4. /\ s.over <=> \E j \in 1..n : ~ref[j].readable
        /\ ~s.over => (s.link <=> Behind(ref, n))
    BY DEF ReadTo
  <1>5. PICK src : Source(src, ref, s.found, n)
    BY DEF ReadTo
  <1>6. (\E j \in 1..m : ~ref[j].readable) <=> s.over \/ ~l.readable
    <2>1. l = ref[m]
      OBVIOUS
    <2> HIDE DEF m, l
    <2> QED BY <1>2, <1>4, <2>1
  <1>7. ASSUME ~Counts(ref, m), t.found = s.found
        PROVE  \E a : Source(a, ref, t.found, m)
    <2>1. Counting(ref, m) = Counting(ref, n)
      BY <1>1, <1>7
    <2> QED BY <2>1, <1>5, <1>7 DEF Source
  <1> HIDE DEF m, l
  <1>8. CASE s.over
    <2>1. t = s
      BY <1>8 DEF ReadOn
    <2> QED BY <1>1, <1>4, <1>6, <1>7, <1>8, <2>1 DEF ReadTo, m, l
  <1>9. CASE ~s.over /\ ~l.readable
    <2>1. t.over = TRUE /\ t.found = s.found
      BY <1>9 DEF ReadOn, Readings
    <2>2. ~Counts(ref, m)
      BY <1>1, <1>9
    <2> QED BY <1>6, <1>7, <1>9, <2>1, <2>2 DEF ReadTo, m, l
  <1>10. CASE ~s.over /\ l.readable /\ s.link /\ l.letters = ""
    <2>1. t = s
      BY <1>10 DEF ReadOn
    <2>2. ~Counts(ref, m) /\ Behind(ref, m)
      BY <1>1, <1>4, <1>10
    <2> QED BY <1>4, <1>6, <1>7, <1>10, <2>1, <2>2 DEF ReadTo, m, l
  <1>11. CASE ~s.over /\ l.readable /\ ~(s.link /\ l.letters = "")
    <2>1. t = [over |-> FALSE, link |-> l.link, found |-> Append(s.found, RoadOf(l))]
      BY <1>11, Zenon DEF ReadOn
    <2>2. Counts(ref, m)
      BY <1>1, <1>4, <1>11
    <2>3. Counting(ref, n + 1) = Counting(ref, n) \cup {n + 1}
      BY <1>1, <2>2 DEF m
    <2>4. \E a : Source(a, ref, Append(s.found, RoadOf(ref[n + 1])), n + 1)
      BY <1>3, <1>5, <2>3, OneMoreSource
    <2>5. l.link <=> Behind(ref, m)
      BY <1>1, <1>3, <1>4, <1>11
    <2>6. ~t.over /\ t.link = l.link /\ t.found = Append(s.found, RoadOf(l))
      BY <2>1
    <2>7. \E a : Source(a, ref, t.found, m)
      BY <2>4, <2>6 DEF m, l
    <2> HIDE DEF t
    <2>8. ReadTo(t, ref, m)
      BY <1>6, <1>11, <2>5, <2>6, <2>7 DEF ReadTo
    <2> QED BY <2>8 DEF t, m, l
  <1> QED BY <1>3, <1>8, <1>9, <1>10, <1>11

\* The roads that are read of a ref are those of the labels that count.
LEMMA RefsAreLabels ==
  ASSUME NEW ref \in Seq(RefLabels)
  PROVE  \E src : Source(src, ref, RefRoads(ref), Len(ref))
PROOF
  <1> DEFINE n == Len(ref)
  <1>1. PICK read \in [0..n -> Readings] : GoesOn(read, ref) /\ RefRoads(ref) = read[n].found
    BY RefsAreRead
  <1> DEFINE Told == {i \in 0..n : ReadTo(read[i], ref, i)}
  <1>2. n \in Nat
    OBVIOUS
  <1>3. 0 \in Told
    <2>1. read[0] = Reading0 /\ 0 \in 0..n /\ \A j : j \notin 1..0
      BY <1>1, <1>2 DEF GoesOn
    <2> DEFINE src == [i \in 1..0 |-> 0]
    <2>2. Reading0.found = <<>> /\ Reading0.over = FALSE /\ Reading0.link = FALSE /\ Len(<<>>) = 0
      BY DEF Reading0
    <2>3. Source(src, ref, <<>>, 0)
      BY <2>1, <2>2 DEF Source, Counting
    <2>4. ~Behind(ref, 0)
      BY <2>1 DEF Behind
    <2> HIDE DEF src, n
    <2> QED BY <2>1, <2>2, <2>3, <2>4 DEF ReadTo
  <1>4. ASSUME NEW i \in 0..(n - 1), i \in Told
        PROVE  i + 1 \in Told
    <2>1. i \in Nat /\ i + 1 \in 1..n /\ i + 1 \in 0..n /\ (i + 1) - 1 = i /\ read[i] \in Readings
      BY <1>1, <1>2
    <2>2. read[i + 1] = ReadOn(read[i], ref[i + 1])
      BY <1>1, <2>1 DEF GoesOn
    <2>3. ReadTo(ReadOn(read[i], ref[i + 1]), ref, i + 1)
      BY <1>4, <2>1, ReadOneMore
    <2> QED BY <2>1, <2>2, <2>3
  <1>5. 0..n \subseteq Told
    <2> HIDE DEF Told, n
    <2> QED BY <1>2, <1>3, <1>4, IntervalInduction
  <1>6. ReadTo(read[n], ref, n)
    <2>1. n \in 0..n
      BY <1>2
    <2> HIDE DEF n
    <2> QED BY <1>5, <2>1
  <1> HIDE DEF n
  <1> QED BY <1>1, <1>6 DEF ReadTo, n

-----------------------------------------------------------------------------
(* Lists that ways are put into and moved between.                         *)

LEMMA ElementsOfLists ==
  ASSUME NEW T, NEW list \in Seq(T), NEW x \in T
  PROVE  /\ Range(list) \subseteq Range(Append(list, x)) /\ x \in Range(Append(list, x))
         /\ \A y \in Range(Append(list, x)) : y \in Range(list) \/ y = x
PROOF
  <1> DEFINE n == Len(list)
             more == Append(list, x)
  <1>1. /\ n \in Nat /\ DOMAIN list = 1..n /\ DOMAIN more = 1..(n + 1) /\ more[n + 1] = x
        /\ \A i \in 1..n : more[i] = list[i]
    OBVIOUS
  <1>2. /\ \A i : i \in 1..(n + 1) <=> i \in 1..n \/ i = n + 1
    BY <1>1
  <1> HIDE DEF n, more
  <1>3. /\ \A y \in Range(list) : y \in Range(more)
        /\ x \in Range(more)
        /\ \A y \in Range(more) : y \in Range(list) \/ y = x
    BY <1>1, <1>2 DEF Range
  <1> QED BY <1>3 DEF more

\* What is left of a list when a place is taken out.
LEMMA RemoveAtElements ==
  ASSUME NEW T, NEW list \in Seq(T), NEW p \in 1..Len(list)
  PROVE  /\ Len(RemoveAt(list, p)) = Len(list) - 1
         /\ \A i \in 1..(Len(list) - 1) : RemoveAt(list, p)[i] = IF i < p THEN list[i] ELSE list[i + 1]
         /\ \A y \in Range(list) : y \in Range(RemoveAt(list, p)) \/ y = list[p]
         /\ \A y \in Range(RemoveAt(list, p)) : y \in Range(list)
PROOF
  <1> DEFINE n == Len(list)
             a == SubSeq(list, 1, p - 1)
             b == SubSeq(list, p + 1, n)
             less == RemoveAt(list, p)
  <1>1. n \in Nat /\ p \in Nat /\ p >= 1 /\ p <= n /\ DOMAIN list = 1..n
    OBVIOUS
  <1>2. a \in Seq(T) /\ Len(a) = p - 1 /\ \A i \in 1..(p - 1) : a[i] = list[i]
    BY <1>1
  <1>3. b \in Seq(T) /\ Len(b) = n - p /\ \A i \in 1..(n - p) : b[i] = list[p + i]
    <2>1. \A m, k \in Nat : 1 <= m /\ m <= k + 1 /\ k <= Len(list)
                             => /\ SubSeq(list, m, k) \in Seq(T) /\ Len(SubSeq(list, m, k)) = k - m + 1
                                /\ \A i \in 1..(k - m + 1) : SubSeq(list, m, k)[i] = list[m + i - 1]
      OBVIOUS
    <2>2. p + 1 \in Nat /\ 1 <= p + 1 /\ p + 1 <= n + 1 /\ n <= Len(list) /\ n - (p + 1) + 1 = n - p
          /\ \A i \in 1..(n - p) : (p + 1) + i - 1 = p + i
      BY <1>1
    <2> HIDE DEF n
    <2>3. /\ SubSeq(list, p + 1, n) \in Seq(T) /\ Len(SubSeq(list, p + 1, n)) = n - p
          /\ \A i \in 1..(n - p) : SubSeq(list, p + 1, n)[i] = list[(p + 1) + i - 1]
      BY <1>1, <2>1, <2>2
    <2> QED BY <2>2, <2>3
  <1>4. less = a \o b
    BY DEF RemoveAt
  <1>5. /\ a \o b \in Seq(T) /\ Len(a \o b) = Len(a) + Len(b)
        /\ \A i \in 1..Len(a) : (a \o b)[i] = a[i]
        /\ \A i \in 1..Len(b) : (a \o b)[Len(a) + i] = b[i]
    <2>1. \A s, t \in Seq(T) : /\ s \o t \in Seq(T) /\ Len(s \o t) = Len(s) + Len(t)
                               /\ \A i \in 1..Len(s) : (s \o t)[i] = s[i]
                               /\ \A i \in 1..Len(t) : (s \o t)[Len(s) + i] = t[i]
      OBVIOUS
    <2>2. a \in Seq(T) /\ b \in Seq(T)
      BY <1>2, <1>3
    <2> HIDE DEF a, b
    <2> QED BY <2>1, <2>2
  <1> HIDE DEF n, a, b, less
  <1>6. less \in Seq(T) /\ Len(less) = n - 1 /\ DOMAIN less = 1..(n - 1)
    <2>1. (p - 1) + (n - p) = n - 1
      BY <1>1
    <2>2. Len(less) = n - 1 /\ less \in Seq(T)
      BY <1>2, <1>3, <1>4, <1>5, <2>1
    <2> QED BY <2>2
  <1>7. ASSUME NEW i \in 1..(n - 1)
        PROVE  less[i] = IF i < p THEN list[i] ELSE list[i + 1]
    <2>1. CASE i < p
      <3>1. i \in 1..(p - 1)
        BY <1>1, <2>1
      <3> QED BY <2>1, <3>1, <1>2, <1>4, <1>5
    <2>2. CASE ~(i < p)
      <3> DEFINE j == i - (p - 1)
      <3>1. j \in 1..(n - p) /\ (p - 1) + j = i /\ p + j = i + 1
        BY <1>1, <2>2
      <3> HIDE DEF j
      <3>2. less[(p - 1) + j] = b[j] /\ b[j] = list[p + j]
        BY <3>1, <1>2, <1>3, <1>4, <1>5
      <3> QED BY <2>2, <3>1, <3>2
    <2> QED BY <2>1, <2>2
  <1>8. ASSUME NEW y \in Range(list), y # list[p]
        PROVE  y \in Range(less)
    <2>1. PICK i \in 1..n : list[i] = y
      BY <1>1 DEF Range
    <2>2. CASE i < p
      <3>1. i \in 1..(n - 1)
        BY <1>1, <2>2
      <3>2. less[i] = y
        BY <1>7, <2>1, <2>2, <3>1
      <3> QED BY <1>6, <3>1, <3>2 DEF Range
    <2>3. CASE ~(i < p)
      <3>1. i - 1 \in 1..(n - 1) /\ ~(i - 1 < p) /\ (i - 1) + 1 = i
        <4>1. i # p
          BY <1>8, <2>1
        <4> QED BY <1>1, <2>3, <4>1
      <3>2. less[i - 1] = y
        BY <1>7, <2>1, <3>1
      <3> QED BY <1>6, <3>1, <3>2 DEF Range
    <2> QED BY <2>2, <2>3
  <1>9. ASSUME NEW y \in Range(less)
        PROVE  y \in Range(list)
    <2>1. PICK i \in 1..(n - 1) : less[i] = y
      BY <1>6 DEF Range
    <2>2. i \in 1..n /\ i + 1 \in 1..n
      BY <1>1
    <2>3. y = list[i] \/ y = list[i + 1]
      BY <1>7, <2>1
    <2> QED BY <1>1, <2>2, <2>3 DEF Range
  <1> QED BY <1>6, <1>7, <1>8, <1>9 DEF n, less

\* The list of a key, in a table and when one way more is put into a list.
LEMMA WaysType ==
  ASSUME NEW table, IsTable(table), NEW key
  PROVE  Ways(table, key) \in Seq(AllWays)
PROOF
  <1>1. <<>> \in Seq(AllWays)
    OBVIOUS
  <1> QED BY <1>1 DEF Ways, IsTable

LEMMA PushBackWays ==
  ASSUME NEW table, NEW key, NEW way
  PROVE  \A k : Ways(PushBack(table, key, way), k) = IF k = key THEN Append(Ways(table, key), way) ELSE Ways(table, k)
PROOF
  <1> DEFINE after == PushBack(table, key, way)
  <1>1. /\ DOMAIN after = DOMAIN table \cup {key} /\ after[key] = Append(Ways(table, key), way)
        /\ \A k \in DOMAIN table : k # key => after[k] = table[k]
    BY DEF PushBack
  <1> HIDE DEF after
  <1> SUFFICES ASSUME NEW k
               PROVE  Ways(after, k) = IF k = key THEN Append(Ways(table, key), way) ELSE Ways(table, k)
    BY DEF after
  <1>2. CASE k = key
    <2>1. Ways(after, key) = after[key]
      BY <1>1 DEF Ways
    <2> QED BY <1>1, <1>2, <2>1
  <1>3. CASE k # key
    BY <1>1, <1>3 DEF Ways
  <1> QED BY <1>2, <1>3

\* A way is listed for a label; if that has no county, perhaps in one.
Listed(table, way, type, number) ==
  \/ way \in Range(Ways(table, KeyOf(type, number)))
  \/ type = LanUnknown /\ \E county \in CountyLetters : way \in Range(Ways(table, <<county, number>>))

\* No list loses a way.
Grows(table, after) == \A k : Range(Ways(table, k)) \subseteq Range(Ways(after, k))

LEMMA GrowsKeepsListed ==
  ASSUME NEW table, NEW after, Grows(table, after), NEW way, NEW type, NEW number, Listed(table, way, type, number)
  PROVE  Listed(after, way, type, number)
PROOF
  BY DEF Listed, Grows

\* A label that can be stored is listed then.
LEMMA StoredKey ==
  ASSUME NEW way, NEW type \in RoadTypes, NEW number \in Nat,
         type = Europe => number \in Range(EuropeanRoadNumbers), Storable(way, type, number)
  PROVE  KeyOf(type, number) \in Keys
PROOF
  <1>1. CASE type = Europe
    BY <1>1 DEF EuropeanKeys, Keys
  <1>2. CASE type = National
    <2>1. number < NationalLen
      BY <1>2 DEF Storable
    <2>2. number \in 0..(NationalLen - 1)
      BY <2>1 DEF NationalLen
    <2>3. KeyOf(type, number) = <<National, number>>
      BY <1>2, KindsOfKeys DEF KeyOf
    <2> QED BY <2>2, <2>3 DEF Keys
  <1>3. CASE type \in Range(Counties)
    <2>1. number < RegionalLen
      BY <1>3 DEF Storable
    <2>2. number \in 0..(RegionalLen - 1)
      BY <2>1 DEF RegionalLen
    <2>3. KeyOf(type, number) = <<type, number>>
      BY <1>3, KindsOfKeys DEF KeyOf
    <2> QED BY <2>2, <2>3, <1>3 DEF Keys
  <1> QED BY <1>1, <1>2, <1>3 DEF RoadTypes

LEMMA InsertLists ==
  ASSUME NEW table, IsTable(table), NEW way \in AllWays, NEW road \in Roads
  PROVE  LET after == InsertWayAsRoad(table, way, road[1], road[2])
         IN  /\ Grows(table, after)
             /\ Storable(way, road[1], UInt16(road[2])) => Listed(after, way, road[1], UInt16(road[2]))
PROOF
  <1> DEFINE type == road[1]
             number == UInt16(road[2])
             key == KeyOf(type, number)
             after == InsertWayAsRoad(table, way, road[1], road[2])
  <1>1. CASE ~Storable(way, type, number)
    <2>1. after = table
      BY <1>1 DEF InsertWayAsRoad
    <2> HIDE DEF after
    <2>2. Grows(table, after)
      BY <2>1 DEF Grows
    <2> QED BY <1>1, <2>2 DEF after
  <1>2. CASE Storable(way, type, number)
    <2>1. after = PushBack(table, key, way)
      BY <1>2 DEF InsertWayAsRoad
    <2>2. Ways(table, key) \in Seq(AllWays)
      BY WaysType
    <2> HIDE DEF after, key, type, number
    <2>3. \A k : Ways(after, k) = IF k = key THEN Append(Ways(table, key), way) ELSE Ways(table, k)
      BY <2>1, PushBackWays
    <2>4. Range(Ways(table, key)) \subseteq Range(Append(Ways(table, key), way)) /\ way \in Range(Append(Ways(table, key), way))
      BY <2>2, ElementsOfLists
    <2>5. Grows(table, after)
      <3>1. ASSUME NEW k
            PROVE  Range(Ways(table, k)) \subseteq Range(Ways(after, k))
        <4>1. CASE k = key
          <5>1. Ways(after, k) = Append(Ways(table, key), way)
            BY <2>3, <4>1
          <5> QED BY <2>4, <4>1, <5>1
        <4>2. CASE k # key
          <5>1. Ways(after, k) = Ways(table, k)
            BY <2>3, <4>2
          <5> QED BY <5>1
        <4> QED BY <4>1, <4>2
      <3> QED BY <3>1, Zenon DEF Grows
    <2>6. way \in Range(Ways(after, key))
      BY <2>3, <2>4
    <2>7. Listed(after, way, type, number)
      BY <2>6 DEF Listed, key
    <2> QED BY <2>5, <2>7 DEF after, type, number
  <1> QED BY <1>1, <1>2

\* Every road of a ref is listed at the end.
LEMMA WithRoadsLists ==
  ASSUME NEW table, IsTable(table), IsFull(table), NEW way \in AllWays, NEW found \in Seq(Roads)
  PROVE  LET after == WithRoads(table, way, found)
         IN  /\ Grows(table, after)
             /\ \A i \in 1..Len(found) : Storable(way, found[i][1], UInt16(found[i][2]))
                                          => Listed(after, way, found[i][1], UInt16(found[i][2]))
PROOF
  <1> DEFINE n == Len(found)
             Kept1(i) == Storable(way, found[i][1], UInt16(found[i][2]))
             In(t, i) == Listed(t, way, found[i][1], UInt16(found[i][2]))
  <1>1. PICK with : /\ Enters(with, table, way, found) /\ WithRoads(table, way, found) = with[n]
                    /\ \A i \in 0..n : IsTable(with[i]) /\ IsFull(with[i])
    BY WaysAreEntered
  <1> DEFINE Told == {i \in 0..n : Grows(table, with[i]) /\ \A j \in 1..i : Kept1(j) => In(with[i], j)}
  <1>2. n \in Nat /\ 0 \in 0..n /\ n \in 0..n /\ \A j : j \notin 1..0
    OBVIOUS
  <1>3. 0 \in Told
    <2>1. with[0] = table
      BY <1>1 DEF Enters
    <2>2. Grows(table, table)
      BY DEF Grows
    <2> HIDE DEF n, Kept1, In
    <2> QED BY <1>2, <2>1, <2>2
  <1>4. ASSUME NEW i \in 0..(n - 1), i \in Told
        PROVE  i + 1 \in Told
    <2> DEFINE m == i + 1
    <2>1. m \in 1..n /\ m \in 0..n /\ m - 1 = i /\ i \in 0..n
          /\ \A j : j \in 1..m <=> j \in 1..i \/ j = m
      OBVIOUS
    <2>2. found[m] \in Roads
      <3> HIDE DEF m
      <3> QED BY <2>1
    <2> HIDE DEF m, n
    <2>3. with[m] = InsertWayAsRoad(with[i], way, found[m][1], found[m][2])
      BY <1>1, <2>1 DEF Enters, n
    <2>4. IsTable(with[i])
      BY <1>1, <2>1
    <2>5. Grows(with[i], with[m]) /\ (Kept1(m) => In(with[m], m))
      BY <2>2, <2>3, <2>4, InsertLists
    <2>6. Grows(table, with[i]) /\ \A j \in 1..i : Kept1(j) => In(with[i], j)
      BY <1>4
    <2>7. Grows(table, with[m])
      BY <2>5, <2>6 DEF Grows
    <2>8. \A j \in 1..i : Kept1(j) => In(with[m], j)
      BY <2>5, <2>6, GrowsKeepsListed
    <2> HIDE DEF Kept1, In
    <2>9. m \in Told
      BY <2>1, <2>5, <2>7, <2>8
    <2> QED BY <2>9 DEF m
  <1>5. 0..n \subseteq Told
    <2> HIDE DEF Told, n
    <2> QED BY <1>2, <1>3, <1>4, IntervalInduction
  <1>6. n \in Told
    <2> HIDE DEF Told, n
    <2> QED BY <1>2, <1>5
  <1> HIDE DEF n
  <1> QED BY <1>1, <1>6 DEF n

-----------------------------------------------------------------------------
(* How often a way is listed under a number.                               *)

LEMMA SameNumber ==
  ASSUME NEW S, NEW T, IsFiniteSet(S), NEW f \in [S -> T],
         \A a, b \in S : f[a] = f[b] => a = b,
         \A t \in T : \E s \in S : f[s] = t
  PROVE  IsFiniteSet(T) /\ Cardinality(T) = Cardinality(S)
PROOF
  <1>1. f \in Injection(S, T)
    BY DEF Injection, IsInjective
  <1>2. f \in Surjection(S, T)
    BY DEF Surjection
  <1>3. ExistsBijection(S, T)
    BY <1>1, <1>2 DEF ExistsBijection, Bijection
  <1> QED BY <1>3, FS_Bijection

\* Each county has its place.
LEMMA CountyPlaces ==
  /\ DOMAIN Counties = 1..22
  /\ Counties[22] = LanUnknown
  /\ \A i \in 1..22 : Counties[i] \in Range(Counties)
  /\ \A name \in Range(Counties) : \E i \in 1..22 : Counties[i] = name
  /\ \A i, j \in 1..22 : Counties[i] = Counties[j] => i = j
PROOF
  <1>1. DOMAIN Counties = 1..22 /\ Counties[22] = LanUnknown
    BY DEF Counties
  <1>2. /\ \A i \in 1..22 : Counties[i] \in Range(Counties)
        /\ \A name \in Range(Counties) : \E i \in 1..22 : Counties[i] = name
    BY <1>1 DEF Range
  <1> DEFINE place(name) == CASE name = "M" -> 1 [] name = "K" -> 2 [] name = "I" -> 3 [] name = "H" -> 4
                              [] name = "G" -> 5 [] name = "N" -> 6 [] name = "O" -> 7 [] name = "F" -> 8
                              [] name = "E" -> 9 [] name = "D" -> 10 [] name = "AB" -> 11 [] name = "C" -> 12
                              [] name = "U" -> 13 [] name = "T" -> 14 [] name = "S" -> 15 [] name = "W" -> 16
                              [] name = "X" -> 17 [] name = "Z" -> 18 [] name = "Y" -> 19 [] name = "AC" -> 20
                              [] name = "BD" -> 21 [] OTHER -> 22
  <1>3. \A i \in 1..22 : \/ i = 1 \/ i = 2 \/ i = 3 \/ i = 4 \/ i = 5 \/ i = 6 \/ i = 7 \/ i = 8 \/ i = 9
                         \/ i = 10 \/ i = 11 \/ i = 12 \/ i = 13 \/ i = 14 \/ i = 15 \/ i = 16 \/ i = 17
                         \/ i = 18 \/ i = 19 \/ i = 20 \/ i = 21 \/ i = 22
    OBVIOUS
  <1>4. \A i \in 1..22 : place(Counties[i]) = i
    BY <1>3 DEF Counties, LanUnknown
  <1> HIDE DEF place
  <1>5. \A i, j \in 1..22 : Counties[i] = Counties[j] => i = j
    BY <1>4
  <1> QED BY <1>1, <1>2, <1>5

CountyNumbers == 0..(RegionalLen - 1)
CountyList(table, i, n) == Ways(table, <<Counties[i], n>>)

\* Where a way is listed under a number: the county and the place in its list.
Spots(table, way, n) ==
  UNION {{<<i, j>> : j \in {j \in DOMAIN CountyList(table, i, n) : CountyList(table, i, n)[j] = way}} : i \in 1..22}

IsAt(list, j, way) == j \in 1..Len(list) /\ list[j] = way

HasSpots(table, way, n) ==
  /\ \A i \in 1..22, j \in Nat : <<i, j>> \in Spots(table, way, n) <=> IsAt(CountyList(table, i, n), j, way)
  /\ \A p \in Spots(table, way, n) : \E i \in 1..22, j \in Nat : p = <<i, j>>

LEMMA SpotsAre ==
  ASSUME NEW table, IsTable(table), NEW way, NEW n
  PROVE  HasSpots(table, way, n)
PROOF
  <1> USE DEF HasSpots
  <1>1. \A i : CountyList(table, i, n) \in Seq(AllWays)
    BY WaysType DEF CountyList
  <1>2. \A i : DOMAIN CountyList(table, i, n) = 1..Len(CountyList(table, i, n)) /\ Len(CountyList(table, i, n)) \in Nat
    <2> DEFINE l(i) == CountyList(table, i, n)
    <2>1. \A i : l(i) \in Seq(AllWays)
      BY <1>1
    <2> HIDE DEF l
    <2>2. \A i : DOMAIN l(i) = 1..Len(l(i)) /\ Len(l(i)) \in Nat
      BY <2>1
    <2> QED BY <2>2 DEF l
  <1> DEFINE At(i) == {j \in DOMAIN CountyList(table, i, n) : CountyList(table, i, n)[j] = way}
  <1>3. \A p : p \in Spots(table, way, n) <=> \E i \in 1..22 : \E j \in At(i) : p = <<i, j>>
    <2> HIDE DEF At
    <2>1. Spots(table, way, n) = UNION {{<<i, j>> : j \in At(i)} : i \in 1..22}
      BY Zenon DEF Spots, At
    <2> QED BY <2>1
  <1>4. \A i : \A j : j \in At(i) <=> IsAt(CountyList(table, i, n), j, way)
    BY <1>2 DEF IsAt
  <1>5. \A i : \A j \in At(i) : j \in Nat
    BY <1>2
  <1> HIDE DEF At
  <1>6. \A i, j, h, k : <<i, j>> = <<h, k>> => i = h /\ j = k
    OBVIOUS
  <1>7. ASSUME NEW i \in 1..22, NEW j \in Nat
        PROVE  <<i, j>> \in Spots(table, way, n) <=> j \in At(i)
    BY <1>3, <1>6
  <1>8. ASSUME NEW p \in Spots(table, way, n)
        PROVE  \E i \in 1..22, j \in Nat : p = <<i, j>>
    BY <1>3, <1>5
  <1>9. ASSUME NEW i \in 1..22, NEW j \in Nat
        PROVE  <<i, j>> \in Spots(table, way, n) <=> IsAt(CountyList(table, i, n), j, way)
    BY <1>4, <1>7
  <1>10. \A i \in 1..22 : \A j \in Nat : <<i, j>> \in Spots(table, way, n) <=> IsAt(CountyList(table, i, n), j, way)
    BY <1>9
  <1> QED BY <1>8, <1>10, Zenon

\* Only the lists count.
LEMMA SameSpots ==
  ASSUME NEW table, NEW after, NEW n, \A i \in 1..22 : CountyList(after, i, n) = CountyList(table, i, n), NEW way
  PROVE  Spots(after, way, n) = Spots(table, way, n)
PROOF
  <1> DEFINE Of(t, i) == {<<i, j>> : j \in {j \in DOMAIN CountyList(t, i, n) : CountyList(t, i, n)[j] = way}}
  <1>1. \A i \in 1..22 : Of(after, i) = Of(table, i)
    BY Zenon
  <1>2. Spots(after, way, n) = UNION {Of(after, i) : i \in 1..22} /\ Spots(table, way, n) = UNION {Of(table, i) : i \in 1..22}
    BY Zenon DEF Spots
  <1> HIDE DEF Of
  <1>3. {Of(after, i) : i \in 1..22} = {Of(table, i) : i \in 1..22}
    BY <1>1
  <1> QED BY <1>2, <1>3

\* One spot more, and nothing else.
OneMore(more, spots) == \E p : p \notin spots /\ more = spots \cup {p}

\* A way more at the end of the list of a county.
LEMMA PushBackSpots ==
  ASSUME NEW table, IsTable(table), NEW h \in 1..22, NEW number \in CountyNumbers, NEW way \in AllWays,
         NEW other, NEW n
  PROVE  LET after == PushBack(table, <<Counties[h], number>>, way)
         IN  IF other = way /\ n = number
             THEN OneMore(Spots(after, way, n), Spots(table, way, n))
             ELSE Spots(after, other, n) = Spots(table, other, n)
PROOF
  <1> DEFINE key == <<Counties[h], number>>
             after == PushBack(table, key, way)
             list == Ways(table, key)
             last == Len(list) + 1
  <1>1. key \in Keys
    BY CountyPlaces DEF Keys, CountyNumbers
  <1>2. IsTable(after)
    <2> HIDE DEF key
    <2> QED BY <1>1, PushBackKeepsTable
  <1>3. list \in Seq(AllWays)
    BY WaysType
  <1>4. /\ Len(list) \in Nat /\ last \in Nat /\ last \notin 1..Len(list)
        /\ Len(Append(list, way)) = last /\ Append(list, way)[last] = way
        /\ \A j \in 1..Len(list) : Append(list, way)[j] = list[j]
        /\ \A j : j \in 1..last <=> j \in 1..Len(list) \/ j = last
    <2> HIDE DEF list
    <2> QED BY <1>3
  <1>5. \A k : Ways(after, k) = IF k = key THEN Append(list, way) ELSE Ways(table, k)
    <2> HIDE DEF key
    <2> QED BY PushBackWays
  <1>6. \A i \in 1..22 : <<Counties[i], n>> = key <=> i = h /\ n = number
    BY CountyPlaces
  <1>7. \A i \in 1..22 : CountyList(after, i, n) = IF i = h /\ n = number THEN Append(list, way) ELSE CountyList(table, i, n)
    <2> HIDE DEF key, after, list
    <2> QED BY <1>5, <1>6 DEF CountyList
  <1>8. n = number => CountyList(table, h, n) = list
    BY DEF CountyList
  <1> HIDE DEF key, after, list, last
  <1>9. CASE n # number
    <2>1. Spots(after, other, n) = Spots(table, other, n)
      BY <1>7, <1>9, SameSpots
    <2> QED BY <1>9, <2>1 DEF after, key
  <1>10. CASE n = number
    <2>1. ASSUME NEW w
          PROVE  /\ \A i \in 1..22, j \in Nat : <<i, j>> \in Spots(after, w, n)
                      <=> <<i, j>> \in Spots(table, w, n) \/ (i = h /\ j = last /\ w = way)
                 /\ \A p \in Spots(table, w, n) : \E i \in 1..22, j \in Nat : p = <<i, j>>
                 /\ \A p \in Spots(after, w, n) : \E i \in 1..22, j \in Nat : p = <<i, j>>
                 /\ <<h, last>> \notin Spots(table, w, n)
      <3>1. /\ \A i \in 1..22, j \in Nat : <<i, j>> \in Spots(table, w, n) <=> IsAt(CountyList(table, i, n), j, w)
            /\ \A p \in Spots(table, w, n) : \E i \in 1..22, j \in Nat : p = <<i, j>>
        BY SpotsAre DEF HasSpots
      <3>2. /\ \A i \in 1..22, j \in Nat : <<i, j>> \in Spots(after, w, n) <=> IsAt(CountyList(after, i, n), j, w)
            /\ \A p \in Spots(after, w, n) : \E i \in 1..22, j \in Nat : p = <<i, j>>
        BY <1>2, SpotsAre DEF HasSpots
      <3>3. ASSUME NEW j \in Nat
            PROVE  IsAt(Append(list, way), j, w) <=> IsAt(list, j, w) \/ (j = last /\ w = way)
        BY <1>4 DEF IsAt
      <3>4. CountyList(after, h, n) = Append(list, way) /\ CountyList(table, h, n) = list
        BY <1>7, <1>8, <1>10
      <3>5. \A i \in 1..22 : i # h => CountyList(after, i, n) = CountyList(table, i, n)
        BY <1>7
      <3>6. ASSUME NEW i \in 1..22, NEW j \in Nat
            PROVE  <<i, j>> \in Spots(after, w, n) <=> <<i, j>> \in Spots(table, w, n) \/ (i = h /\ j = last /\ w = way)
        <4>1. CASE i = h
          <5>1. /\ <<h, j>> \in Spots(table, w, n) <=> IsAt(list, j, w)
                /\ <<h, j>> \in Spots(after, w, n) <=> IsAt(Append(list, way), j, w)
            BY <3>1, <3>2, <3>4
          <5> QED BY <3>3, <4>1, <5>1
        <4>2. CASE i # h
          BY <3>1, <3>2, <3>5, <4>2
        <4> QED BY <4>1, <4>2
      <3>7. <<h, last>> \notin Spots(table, w, n)
        BY <1>4, <3>1, <3>4 DEF IsAt
      <3> QED BY <3>1, <3>2, <3>6, <3>7
    <2>2. ASSUME NEW w, NEW p, w # way
          PROVE  p \in Spots(after, w, n) <=> p \in Spots(table, w, n)
      <3>1. (\E i \in 1..22, j \in Nat : p = <<i, j>>) => (p \in Spots(after, w, n) <=> p \in Spots(table, w, n))
        BY <2>1, <2>2
      <3> QED BY <2>1, <3>1
    <2>3. other # way => Spots(after, other, n) = Spots(table, other, n)
      BY <2>2
    <2>4. <<h, last>> \in Spots(after, way, n) /\ <<h, last>> \notin Spots(table, way, n)
      BY <1>4, <2>1
    <2>5. ASSUME NEW p
          PROVE  p \in Spots(after, way, n) <=> p \in Spots(table, way, n) \/ p = <<h, last>>
      <3>1. CASE \E i \in 1..22, j \in Nat : p = <<i, j>>
        <4>1. PICK i \in 1..22, j \in Nat : p = <<i, j>>
          BY <3>1
        <4>2. p = <<h, last>> <=> i = h /\ j = last
          BY <4>1
        <4> QED BY <2>1, <4>1, <4>2
      <3>2. CASE ~\E i \in 1..22, j \in Nat : p = <<i, j>>
        <4>1. p \notin Spots(after, way, n) /\ p \notin Spots(table, way, n) /\ p # <<h, last>>
          BY <1>4, <2>1, <3>2
        <4> QED BY <4>1
      <3> QED BY <3>1, <3>2
    <2>6. Spots(after, way, n) = Spots(table, way, n) \cup {<<h, last>>}
      BY <2>5
    <2>7. OneMore(Spots(after, way, n), Spots(table, way, n))
      BY <2>4, <2>6, Zenon DEF OneMore
    <2> QED BY <1>10, <2>3, <2>7 DEF after, key
  <1> QED BY <1>9, <1>10

\* A way is taken out of the list of those without a county.
TakenOut(table, after, number, p) ==
  \A k : Ways(after, k) = IF k = <<LanUnknown, number>> THEN RemoveAt(CountyList(table, 22, number), p)
                          ELSE Ways(table, k)

\* Then it has one spot less.
LEMMA RemoveAtSpots ==
  ASSUME NEW table, IsTable(table), NEW after, IsTable(after), NEW number \in CountyNumbers,
         NEW p \in 1..Len(CountyList(table, 22, number)),
         TakenOut(table, after, number, p), NEW way, NEW n, IsFiniteSet(Spots(table, way, n))
  PROVE  /\ IsFiniteSet(Spots(after, way, n))
         /\ Cardinality(Spots(after, way, n)) =
              IF n = number /\ CountyList(table, 22, number)[p] = way THEN Cardinality(Spots(table, way, n)) - 1
              ELSE Cardinality(Spots(table, way, n))
PROOF
  <1> DEFINE key == <<LanUnknown, number>>
             list == CountyList(table, 22, number)
             less == RemoveAt(list, p)
             len == Len(list)
             S == Spots(table, way, n)
             U == Spots(after, way, n)
  <1>1. list \in Seq(AllWays) /\ len \in Nat /\ p \in 1..len
    <2>1. list \in Seq(AllWays)
      BY WaysType DEF CountyList
    <2>2. p \in 1..Len(list)
      OBVIOUS
    <2> HIDE DEF list
    <2> QED BY <2>1, <2>2
  <1>2. /\ Len(less) = len - 1
        /\ \A i \in 1..(len - 1) : less[i] = IF i < p THEN list[i] ELSE list[i + 1]
    <2> HIDE DEF list
    <2> QED BY <1>1, RemoveAtElements
  <1>3. \A i \in 1..22 : <<Counties[i], n>> = key <=> i = 22 /\ n = number
    BY CountyPlaces
  <1>4. \A i \in 1..22 : CountyList(after, i, n) = IF i = 22 /\ n = number THEN less ELSE CountyList(table, i, n)
    <2>1. \A k : Ways(after, k) = IF k = key THEN less ELSE Ways(table, k)
      BY DEF TakenOut
    <2> HIDE DEF key, list, less
    <2> QED BY <1>3, <2>1 DEF CountyList
  <1>5. /\ \A i \in 1..22, j \in Nat : <<i, j>> \in S <=> IsAt(CountyList(table, i, n), j, way)
        /\ \A q \in S : \E i \in 1..22, j \in Nat : q = <<i, j>>
    <2> HIDE DEF key, list, less, len, S, U
    <2>1. HasSpots(table, way, n)
      BY SpotsAre
    <2> QED BY <2>1 DEF S, HasSpots
  <1>6. /\ \A i \in 1..22, j \in Nat : <<i, j>> \in U <=> IsAt(CountyList(after, i, n), j, way)
        /\ \A q \in U : \E i \in 1..22, j \in Nat : q = <<i, j>>
    <2> HIDE DEF key, list, less, len, S, U
    <2>1. HasSpots(after, way, n)
      BY SpotsAre
    <2> QED BY <2>1 DEF U, HasSpots
  <1>7. CASE n # number
    <2> HIDE DEF key, less, len
    <2>1. U = S
      BY <1>4, <1>7, SameSpots
    <2> QED BY <1>7, <2>1
  <1>8. CASE n = number
    <2> DEFINE x == <<22, p>>
               R == S \ {x}
               Back(q) == IF q[1] = 22 /\ q[2] > p THEN <<q[1], q[2] - 1>> ELSE q
               f == [q \in R |-> Back(q)]
    <2>1. IsFiniteSet(R) /\ Cardinality(R) = IF list[p] = way THEN Cardinality(S) - 1 ELSE Cardinality(S)
      <3>1. x \in S <=> list[p] = way
        <4>1. 22 \in 1..22 /\ p \in Nat
          BY <1>1
        <4>2. x \in S <=> IsAt(CountyList(table, 22, n), p, way)
          <5> HIDE DEF S
          <5> QED BY <1>5, <4>1
        <4> HIDE DEF S, x
        <4> QED BY <1>1, <1>8, <4>2 DEF IsAt
      <3>2. IsFiniteSet(S)
        OBVIOUS
      <3> HIDE DEF S, x, list
      <3> QED BY <3>1, <3>2, FS_RemoveElement
    <2> HIDE DEF S, U, less, len, key
    <2>2. CountyList(table, 22, n) = list /\ CountyList(after, 22, n) = less
      BY <1>4, <1>8
    <2> HIDE DEF list
    <2>3. ASSUME NEW i \in 1..22, NEW j \in Nat, i # 22
          PROVE  <<i, j>> \in R <=> <<i, j>> \in U
      <3>1. <<i, j>> # x
        BY <2>3
      <3>2. CountyList(after, i, n) = CountyList(table, i, n)
        BY <1>4, <2>3
      <3> QED BY <1>5, <1>6, <3>1, <3>2
    <2>4. ASSUME NEW j \in Nat
          PROVE  /\ <<22, j>> \in S <=> j \in 1..len /\ list[j] = way
                 /\ <<22, j>> \in R <=> j # p /\ j \in 1..len /\ list[j] = way
                 /\ <<22, j>> \in U <=> j \in 1..(len - 1) /\ less[j] = way
      <3>1. 22 \in 1..22 /\ (<<22, j>> = x <=> j = p)
        OBVIOUS
      <3> QED BY <1>2, <1>5, <1>6, <2>2, <3>1 DEF IsAt, len
    <2>5. ASSUME NEW j \in Nat
          PROVE  /\ j < p => (<<22, j>> \in R <=> <<22, j>> \in U)
                 /\ j > p => (<<22, j>> \in R <=> <<22, j - 1>> \in U)
      <3>1. ASSUME j < p
            PROVE  <<22, j>> \in R <=> <<22, j>> \in U
        <4>1. j # p /\ (j \in 1..len <=> j \in 1..(len - 1))
          BY <1>1, <3>1
        <4>2. j \in 1..(len - 1) => less[j] = list[j]
          BY <1>2, <3>1
        <4> QED BY <2>4, <4>1, <4>2
      <3>2. ASSUME j > p
            PROVE  <<22, j>> \in R <=> <<22, j - 1>> \in U
        <4>1. j # p /\ j - 1 \in Nat /\ (j \in 1..len <=> j - 1 \in 1..(len - 1)) /\ ~(j - 1 < p) /\ (j - 1) + 1 = j
          BY <1>1, <3>2
        <4>2. j - 1 \in 1..(len - 1) => less[j - 1] = list[j]
          BY <1>2, <4>1
        <4>3. <<22, j>> \in R <=> j # p /\ j \in 1..len /\ list[j] = way
          BY <2>4
        <4>4. <<22, j - 1>> \in U <=> j - 1 \in 1..(len - 1) /\ less[j - 1] = way
          BY <2>4, <4>1
        <4> QED BY <4>1, <4>2, <4>3, <4>4
      <3> QED BY <3>1, <3>2
    <2>6. \A q \in R : \E i \in 1..22, j \in Nat : q = <<i, j>> /\ (i = 22 => j # p)
      BY <1>5
    <2> DEFINE Ahead1(i, j) == i # 22 \/ j < p
    <2>7. ASSUME NEW i \in 1..22, NEW j \in Nat
          PROVE  /\ Ahead1(i, j) => Back(<<i, j>>) = <<i, j>>
                 /\ ~Ahead1(i, j) /\ j # p => Back(<<i, j>>) = <<22, j - 1>> /\ j - 1 \in Nat /\ i = 22 /\ j > p
      <3>1. <<i, j>>[1] = i /\ <<i, j>>[2] = j
        OBVIOUS
      <3>2. i # 22 \/ j < p => ~(i = 22 /\ j > p)
        BY <1>1
      <3>3. ~(i # 22 \/ j < p) /\ j # p => i = 22 /\ j > p /\ j - 1 \in Nat
        BY <1>1
      <3> QED BY <3>1, <3>2, <3>3
    <2> HIDE DEF R, Back, Ahead1
    <2>8. \A q \in R : f[q] \in U
      <3> SUFFICES ASSUME NEW q \in R
                   PROVE  Back(q) \in U
        OBVIOUS
      <3>1. PICK i \in 1..22, j \in Nat : q = <<i, j>> /\ (i = 22 => j # p)
        BY <2>6
      <3>2. CASE Ahead1(i, j)
        <4>1. i # 22 \/ (i = 22 /\ j < p)
          BY <3>2 DEF Ahead1
        <4> QED BY <2>3, <2>5, <2>7, <3>1, <3>2, <4>1
      <3>3. CASE ~Ahead1(i, j)
        <4>1. Back(q) = <<22, j - 1>> /\ i = 22 /\ j > p
          BY <2>7, <3>1, <3>3 DEF Ahead1
        <4> QED BY <2>5, <3>1, <4>1
      <3> QED BY <3>2, <3>3
    <2>9. f \in [R -> U]
      BY <2>8
    <2>10. \A a, b \in R : f[a] = f[b] => a = b
      <3> SUFFICES ASSUME NEW a \in R, NEW b \in R, Back(a) = Back(b)
                   PROVE  a = b
        OBVIOUS
      <3>1. PICK i \in 1..22, j \in Nat : a = <<i, j>> /\ (i = 22 => j # p)
        BY <2>6
      <3>2. PICK h \in 1..22, k \in Nat : b = <<h, k>> /\ (h = 22 => k # p)
        BY <2>6
      <3>3. \/ Ahead1(i, j) /\ Back(a) = <<i, j>>
            \/ ~Ahead1(i, j) /\ Back(a) = <<22, j - 1>> /\ i = 22 /\ j > p
        BY <2>7, <3>1 DEF Ahead1
      <3>4. \/ Ahead1(h, k) /\ Back(b) = <<h, k>>
            \/ ~Ahead1(h, k) /\ Back(b) = <<22, k - 1>> /\ h = 22 /\ k > p
        BY <2>7, <3>2 DEF Ahead1
      <3>5. i = h /\ j = k
        <4>1. \A u, v, w, z : <<u, v>> = <<w, z>> => u = w /\ v = z
          OBVIOUS
        <4>2. CASE Ahead1(i, j) /\ Ahead1(h, k)
          BY <3>3, <3>4, <4>1, <4>2
        <4>3. CASE ~Ahead1(i, j) /\ ~Ahead1(h, k)
          <5>1. j - 1 = k - 1 /\ i = h
            BY <3>3, <3>4, <4>1, <4>3
          <5> QED BY <5>1
        <4>4. CASE Ahead1(i, j) /\ ~Ahead1(h, k)
          <5>1. i = 22 /\ j = k - 1 /\ k > p
            BY <3>3, <3>4, <4>1, <4>4
          <5> QED BY <1>1, <4>4, <5>1 DEF Ahead1
        <4>5. CASE ~Ahead1(i, j) /\ Ahead1(h, k)
          <5>1. h = 22 /\ k = j - 1 /\ j > p
            BY <3>3, <3>4, <4>1, <4>5
          <5> QED BY <1>1, <4>5, <5>1 DEF Ahead1
        <4> QED BY <4>2, <4>3, <4>4, <4>5
      <3> QED BY <3>1, <3>2, <3>5
    <2>11. \A t \in U : \E q \in R : f[q] = t
      <3> SUFFICES ASSUME NEW t \in U
                   PROVE  \E q \in R : Back(q) = t
        OBVIOUS
      <3>1. PICK i \in 1..22, j \in Nat : t = <<i, j>>
        BY <1>6
      <3>2. CASE i # 22 \/ j < p
        <4>1. t \in R
          BY <2>3, <2>5, <3>1, <3>2
        <4>2. Back(t) = t
          BY <2>7, <3>1, <3>2 DEF Ahead1
        <4> QED BY <4>1, <4>2
      <3>3. CASE i = 22 /\ ~(j < p)
        <4>1. j + 1 \in Nat /\ j + 1 > p /\ (j + 1) - 1 = j /\ j + 1 # p /\ ~(j + 1 < p) /\ 22 \in 1..22
          BY <1>1, <3>3
        <4>2. <<22, j + 1>> \in R
          BY <2>5, <3>1, <3>3, <4>1
        <4>3. Back(<<22, j + 1>>) = <<22, (j + 1) - 1>>
          BY <2>7, <4>1 DEF Ahead1
        <4> QED BY <3>1, <3>3, <4>1, <4>2, <4>3
      <3> QED BY <3>2, <3>3
    <2> HIDE DEF f
    <2>12. IsFiniteSet(U) /\ Cardinality(U) = Cardinality(R)
      BY <2>1, <2>9, <2>10, <2>11, SameNumber
    <2> QED BY <1>8, <2>1, <2>12 DEF list, S, U
  <1> QED BY <1>7, <1>8

\* A road of a county that is entered under a number.
CountyRoad(way, road, n) ==
  /\ Storable(way, road[1], UInt16(road[2]))
  /\ road[1] \in Range(Counties) /\ UInt16(road[2]) = n

\* What a way that is put into the list of a road does to the spots.
LEMMA InsertSpots ==
  ASSUME NEW table, IsTable(table), NEW way \in AllWays, NEW road \in Roads, NEW n \in CountyNumbers, NEW other
  PROVE  LET after == InsertWayAsRoad(table, way, road[1], road[2])
         IN  IF other = way /\ CountyRoad(way, road, n) THEN OneMore(Spots(after, other, n), Spots(table, other, n))
             ELSE Spots(after, other, n) = Spots(table, other, n)
PROOF
  <1> DEFINE type == road[1]
             number == UInt16(road[2])
             after == InsertWayAsRoad(table, way, road[1], road[2])
             key == KeyOf(type, number)
  <1>1. type \in RoadTypes /\ number \in Nat
    BY UInt16Type DEF Roads
  <1>2. CASE ~Storable(way, type, number)
    <2>1. after = table
      BY <1>2 DEF InsertWayAsRoad
    <2>2. ~CountyRoad(way, road, n)
      BY <1>2 DEF CountyRoad
    <2> QED BY <2>1, <2>2
  <1>3. CASE Storable(way, type, number) /\ type \in Range(Counties)
    <2>1. number \in CountyNumbers
      <3>1. number < RegionalLen
        BY <1>3 DEF Storable
      <3> HIDE DEF number
      <3> QED BY <1>1, <3>1 DEF CountyNumbers, RegionalLen
    <2>2. PICK h \in 1..22 : Counties[h] = type
      BY <1>3, CountyPlaces
    <2>3. key = <<Counties[h], number>>
      BY <1>3, <2>2, KindsOfKeys DEF KeyOf
    <2>4. after = PushBack(table, <<Counties[h], number>>, way)
      BY <1>3, <2>3 DEF InsertWayAsRoad
    <2>5. CountyRoad(way, road, n) <=> n = number
      BY <1>3 DEF CountyRoad
    <2> HIDE DEF after, number, type, key
    <2>6. LET a == PushBack(table, <<Counties[h], number>>, way)
          IN  IF other = way /\ n = number
              THEN OneMore(Spots(a, way, n), Spots(table, way, n))
              ELSE Spots(a, other, n) = Spots(table, other, n)
      BY <2>1, PushBackSpots
    <2>7. CASE other = way /\ n = number
      <3>1. OneMore(Spots(after, other, n), Spots(table, other, n))
        BY <2>4, <2>6, <2>7
      <3> QED BY <2>5, <2>7, <3>1 DEF after
    <2>8. CASE ~(other = way /\ n = number)
      <3>1. Spots(after, other, n) = Spots(table, other, n)
        BY <2>4, <2>6, <2>8
      <3> QED BY <2>5, <2>8, <3>1 DEF after
    <2> QED BY <2>7, <2>8
  <1>4. CASE Storable(way, type, number) /\ type \notin Range(Counties)
    <2>1. after = PushBack(table, key, way)
      BY <1>4 DEF InsertWayAsRoad
    <2>2. \A i \in 1..22 : <<Counties[i], n>> # key
      <3>1. \A i \in 1..22 : Counties[i] # type
        BY <1>4, CountyPlaces
      <3> QED BY <3>1 DEF KeyOf
    <2>3. ~CountyRoad(way, road, n)
      BY <1>4 DEF CountyRoad
    <2> HIDE DEF key, after
    <2>4. \A k : Ways(after, k) = IF k = key THEN Append(Ways(table, key), way) ELSE Ways(table, k)
      BY <2>1, PushBackWays
    <2>5. \A i \in 1..22 : CountyList(after, i, n) = CountyList(table, i, n)
      BY <2>2, <2>4 DEF CountyList
    <2>6. Spots(after, other, n) = Spots(table, other, n)
      BY <2>5, SameSpots
    <2> QED BY <2>3, <2>6 DEF after
  <1> QED BY <1>2, <1>3, <1>4

\* The roads of a list, up to the i-th, that are entered for a county.
CountyRoads(way, found, n, i) == {j \in 1..i : CountyRoad(way, found[j], n)}

\* A way that is nowhere under a number is then there once for each such road.
LEMMA EnteredSpots ==
  ASSUME NEW table, IsTable(table), IsFull(table), NEW way \in AllWays, NEW found \in Seq(Roads), NEW n \in CountyNumbers
  PROVE  LET after == WithRoads(table, way, found)
             entered == CountyRoads(way, found, n, Len(found))
         IN  /\ \A other : other # way => Spots(after, other, n) = Spots(table, other, n)
             /\ IsFiniteSet(entered)
             /\ Spots(table, way, n) = {} => /\ IsFiniteSet(Spots(after, way, n))
                                             /\ Cardinality(Spots(after, way, n)) = Cardinality(entered)
PROOF
  <1> DEFINE len == Len(found)
             J(i) == CountyRoads(way, found, n, i)
  <1>1. PICK with : /\ Enters(with, table, way, found) /\ WithRoads(table, way, found) = with[len]
                    /\ \A i \in 0..len : IsTable(with[i]) /\ IsFull(with[i])
    BY WaysAreEntered
  <1>2. len \in Nat /\ \A i \in 1..len : found[i] \in Roads
    OBVIOUS
  <1> HIDE DEF len
  <1> DEFINE Same(i) == \A other : other # way => Spots(with[i], other, n) = Spots(table, other, n)
             Many(i) == Spots(table, way, n) = {} => /\ IsFiniteSet(Spots(with[i], way, n))
                                                     /\ Cardinality(Spots(with[i], way, n)) = Cardinality(J(i))
             Good == {i \in 0..len : Same(i) /\ IsFiniteSet(J(i)) /\ Many(i)}
  <1>3. 0 \in Good
    <2>1. with[0] = table
      BY <1>1 DEF Enters
    <2>2. J(0) = {}
      BY DEF CountyRoads
    <2>3. IsFiniteSet({}) /\ Cardinality({}) = 0
      BY FS_EmptySet
    <2> HIDE DEF J
    <2>4. Same(0) /\ IsFiniteSet(J(0)) /\ Many(0)
      BY <2>1, <2>2, <2>3
    <2> HIDE DEF Same, Many
    <2> QED BY <1>2, <2>4
  <1>4. ASSUME NEW i \in 0..(len - 1), i \in Good
        PROVE  i + 1 \in Good
    <2> DEFINE m == i + 1
               road == found[m]
    <2>1. m \in 1..len /\ m \in 0..len /\ m - 1 = i /\ i \in 0..len
      BY <1>2
    <2>2. road \in Roads /\ IsTable(with[i])
      BY <1>1, <1>2, <2>1
    <2>3. with[m] = InsertWayAsRoad(with[i], way, road[1], road[2])
      BY <1>1, <2>1 DEF Enters, len
    <2>4. Same(i) /\ IsFiniteSet(J(i)) /\ Many(i)
      <3> HIDE DEF J, Same, Many
      <3> QED BY <1>4
    <2> HIDE DEF m, road
    <2>5. \A other : IF other = way /\ CountyRoad(way, road, n) THEN OneMore(Spots(with[m], other, n), Spots(with[i], other, n))
                     ELSE Spots(with[m], other, n) = Spots(with[i], other, n)
      BY <2>2, <2>3, InsertSpots
    <2>6. Same(m)
      BY <2>4, <2>5
    <2>7. IsFiniteSet(J(m)) /\ Cardinality(J(m)) = IF CountyRoad(way, road, n) THEN Cardinality(J(i)) + 1 ELSE Cardinality(J(i))
      <3>1. 1..m = (1..i) \cup {m} /\ m \notin 1..i
        BY <2>1 DEF m
      <3>2. J(m) = IF CountyRoad(way, road, n) THEN J(i) \cup {m} ELSE J(i)
        BY <3>1 DEF CountyRoads, road
      <3>3. m \notin J(i)
        BY <3>1 DEF CountyRoads
      <3> HIDE DEF J
      <3> QED BY <2>4, <3>2, <3>3, FS_AddElement
    <2>8. Many(m)
      <3> SUFFICES ASSUME Spots(table, way, n) = {}
                   PROVE  /\ IsFiniteSet(Spots(with[m], way, n))
                          /\ Cardinality(Spots(with[m], way, n)) = Cardinality(J(m))
        OBVIOUS
      <3>1. IsFiniteSet(Spots(with[i], way, n)) /\ Cardinality(Spots(with[i], way, n)) = Cardinality(J(i))
        BY <2>4
      <3> HIDE DEF J
      <3>2. CASE CountyRoad(way, road, n)
        <4>1. OneMore(Spots(with[m], way, n), Spots(with[i], way, n))
          BY <2>5, <3>2
        <4>2. PICK p : p \notin Spots(with[i], way, n) /\ Spots(with[m], way, n) = Spots(with[i], way, n) \cup {p}
          BY <4>1 DEF OneMore
        <4>3. /\ IsFiniteSet(Spots(with[m], way, n))
              /\ Cardinality(Spots(with[m], way, n)) = Cardinality(Spots(with[i], way, n)) + 1
          BY <3>1, <4>2, FS_AddElement
        <4> QED BY <2>7, <3>1, <3>2, <4>3
      <3>3. CASE ~CountyRoad(way, road, n)
        <4>1. Spots(with[m], way, n) = Spots(with[i], way, n)
          BY <2>5, <3>3
        <4> QED BY <2>7, <3>1, <3>3, <4>1
      <3> QED BY <3>2, <3>3
    <2> HIDE DEF J, Same, Many
    <2>9. m \in Good
      BY <2>1, <2>6, <2>7, <2>8
    <2> QED BY <2>9 DEF m
  <1>5. 0..len \subseteq Good
    <2> HIDE DEF Good
    <2> QED BY <1>2, <1>3, <1>4, IntervalInduction
  <1>6. Same(len) /\ IsFiniteSet(J(len)) /\ Many(len)
    <2> HIDE DEF J, Same, Many
    <2>1. len \in 0..len
      BY <1>2
    <2> QED BY <1>5, <2>1
  <1> QED BY <1>1, <1>6 DEF len

\* The labels that count in one ref, and in several.
LabelAt(s, i) == [way |-> s.way, place |-> i, letters |-> s.ref[i].letters, number |-> s.ref[i].number]
LabelsOf(s)   == {LabelAt(s, i) : i \in Counting(s.ref, Len(s.ref))}
LabelsIn(refs) == UNION {LabelsOf(s) : s \in refs}
IsKept(l)     == Storable(l.way, Type(l), UInt16(l.number))
KeptIn(refs)  == {l \in LabelsIn(refs) : IsKept(l)}

Plus(refs, s) == refs \cup {s}

\* Those that list a way under a number of a county road.
OnCounty(refs, way, n) ==
  {l \in KeptIn(refs) : l.way = way /\ UInt16(l.number) = n /\ Type(l) \in Range(Counties)}

\* A label is a road of its ref.
LEMMA LabelIsRoad ==
  ASSUME NEW s, NEW i
  PROVE  /\ LabelAt(s, i).way = s.way /\ LabelAt(s, i).place = i
         /\ Type(LabelAt(s, i)) = RoadOf(s.ref[i])[1] /\ LabelAt(s, i).number = RoadOf(s.ref[i])[2]
         /\ LabelAt(s, i).letters = s.ref[i].letters
PROOF
  BY DEF LabelAt, Type, RoadOf

\* The labels of the model are these.
LEMMA LabelsAreThese ==
  ASSUME map \in Maps
  PROVE  Labels = LabelsIn(map.refs \ unread) /\ Kept = KeptIn(map.refs \ unread)
PROOF
  <1> DEFINE R == map.refs \ unread
             Of(s) == {[way |-> s.way, place |-> i, letters |-> s.ref[i].letters, number |-> s.ref[i].number] :
                         i \in {i \in DOMAIN s.ref :
                                  /\ \A j \in 1..i : s.ref[j].readable
                                  /\ i > 1 /\ s.ref[i].letters = ""
                                       => \A j \in 1..(i - 1) :
                                            s.ref[j].link => \E k \in (j + 1)..i : s.ref[k].letters # ""}}
  <1>1. Labels = UNION {Of(s) : s \in R}
    BY DEF Labels
  <1>2. ASSUME NEW s \in R
        PROVE  Of(s) = LabelsOf(s)
    <2>1. s.ref \in Seq(RefLabels)
      BY MapsAssumption
    <2>2. DOMAIN s.ref = 1..Len(s.ref)
      BY <2>1
    <2> QED BY <2>2 DEF LabelsOf, Counting, Counts, LabelAt
  <1> HIDE DEF Of
  <1>3. UNION {Of(s) : s \in R} = UNION {LabelsOf(s) : s \in R}
    BY <1>2
  <1>4. Labels = LabelsIn(R)
    BY <1>1, <1>3 DEF LabelsIn
  <1>5. Kept = KeptIn(R)
    BY <1>4 DEF Kept, KeptIn, IsKept
  <1> QED BY <1>4, <1>5

\* Labels of different refs are of different ways.
LEMMA LabelsOfOthers ==
  ASSUME map \in Maps, NEW refs \in SUBSET map.refs, NEW s \in map.refs, s \notin refs
  PROVE  \A way, n : /\ way = s.way => OnCounty(refs, way, n) = {}
                     /\ way # s.way => OnCounty(Plus(refs, s), way, n) = OnCounty(refs, way, n)
PROOF
  <1>1. ASSUME NEW r \in map.refs, NEW l \in LabelsOf(r)
        PROVE  l.way = r.way
    BY <1>1, LabelIsRoad DEF LabelsOf
  <1>2. \A r \in refs : r.way # s.way
    BY MapsAssumption
  <1>3. ASSUME NEW l
        PROVE  /\ l \in LabelsIn(refs) => l.way # s.way
               /\ l.way # s.way => (l \in LabelsIn(Plus(refs, s)) <=> l \in LabelsIn(refs))
    BY <1>1, <1>2 DEF LabelsIn, Plus
  <1>4. ASSUME NEW way, NEW n, way = s.way
        PROVE  OnCounty(refs, way, n) = {}
    BY <1>3, <1>4 DEF OnCounty, KeptIn
  <1>5. ASSUME NEW way, NEW n, way # s.way
        PROVE  OnCounty(Plus(refs, s), way, n) = OnCounty(refs, way, n)
    <2>1. ASSUME NEW l
          PROVE  l \in OnCounty(Plus(refs, s), way, n) <=> l \in OnCounty(refs, way, n)
      BY <1>3, <1>5 DEF OnCounty, KeptIn
    <2> QED BY <2>1
  <1> QED BY <1>4, <1>5

\* A ref has as many labels of a county road as it has roads that are entered.
LEMMA LabelsOfOne ==
  ASSUME map \in Maps, NEW refs \in SUBSET map.refs, NEW s \in map.refs, s \notin refs, NEW n,
         NEW found, found = RefRoads(s.ref), IsFiniteSet(CountyRoads(s.way, found, n, Len(found)))
  PROVE  Cardinality(OnCounty(Plus(refs, s), s.way, n)) = Cardinality(CountyRoads(s.way, found, n, Len(found)))
PROOF
  <1> DEFINE J == CountyRoads(s.way, found, n, Len(found))
             O == OnCounty(Plus(refs, s), s.way, n)
             len == Len(s.ref)
  <1>1. s.ref \in Seq(RefLabels)
    BY MapsAssumption
  <1>2. PICK src : Source(src, s.ref, found, len)
    BY <1>1, RefsAreLabels
  <1>3. /\ \A j \in 1..Len(found) : src[j] \in Counting(s.ref, len)
        /\ \A i, j \in 1..Len(found) : src[i] = src[j] => i = j
        /\ \A k \in Counting(s.ref, len) : \E i \in 1..Len(found) : src[i] = k
        /\ \A i \in 1..Len(found) : found[i] = RoadOf(s.ref[src[i]])
    BY <1>2, Zenon DEF Source
  <1>4. \A j \in J : j \in 1..Len(found) /\ CountyRoad(s.way, found[j], n)
    BY DEF CountyRoads
  <1>5. \A j \in 1..Len(found) : CountyRoad(s.way, found[j], n) => j \in J
    BY DEF CountyRoads
  <1> DEFINE InCounty(l) == IsKept(l) /\ UInt16(l.number) = n /\ Type(l) \in Range(Counties)
  <1>6. \A l : l \in O <=> (\E i \in Counting(s.ref, len) : l = LabelAt(s, i)) /\ InCounty(l)
    <2>1. ASSUME NEW l
          PROVE  l \in O <=> l \in LabelsOf(s) /\ InCounty(l)
      <3>1. l \in LabelsOf(s) => l.way = s.way
        BY LabelIsRoad DEF LabelsOf
      <3>2. \A r \in refs : l \in LabelsOf(r) => l.way # s.way
        <4> SUFFICES ASSUME NEW r \in refs, l \in LabelsOf(r)
                     PROVE  l.way # s.way
          OBVIOUS
        <4>1. l.way = r.way
          BY LabelIsRoad DEF LabelsOf
        <4> QED BY <4>1, MapsAssumption
      <3> QED BY <3>1, <3>2 DEF OnCounty, KeptIn, LabelsIn, Plus
    <2> HIDE DEF O, InCounty
    <2> QED BY <2>1 DEF LabelsOf
  <1>7. \A i : InCounty(LabelAt(s, i)) <=> CountyRoad(s.way, RoadOf(s.ref[i]), n)
    BY LabelIsRoad DEF IsKept, CountyRoad
  <1> DEFINE f == [j \in J |-> LabelAt(s, src[j])]
  <1> HIDE DEF J, O, InCounty
  <1>8. \A j \in J : f[j] \in O
    <2> SUFFICES ASSUME NEW j \in J
                 PROVE  LabelAt(s, src[j]) \in O
      OBVIOUS
    <2>1. InCounty(LabelAt(s, src[j]))
      BY <1>3, <1>4, <1>7
    <2> QED BY <1>3, <1>4, <1>6, <2>1
  <1>9. \A i, j \in J : f[i] = f[j] => i = j
    <2> SUFFICES ASSUME NEW i \in J, NEW j \in J, LabelAt(s, src[i]) = LabelAt(s, src[j])
                 PROVE  i = j
      OBVIOUS
    <2>1. src[i] = src[j]
      <3>1. LabelAt(s, src[i]).place = src[i] /\ LabelAt(s, src[j]).place = src[j]
        BY LabelIsRoad
      <3> QED BY <3>1
    <2> QED BY <1>3, <1>4, <2>1
  <1>10. \A l \in O : \E j \in J : f[j] = l
    <2> SUFFICES ASSUME NEW l \in O
                 PROVE  \E j \in J : LabelAt(s, src[j]) = l
      OBVIOUS
    <2>1. (\E i \in Counting(s.ref, len) : l = LabelAt(s, i)) /\ InCounty(l)
      BY <1>6
    <2>2. PICK i \in Counting(s.ref, len) : l = LabelAt(s, i)
      BY <2>1
    <2>3. PICK j \in 1..Len(found) : src[j] = i
      BY <1>3
    <2>4. CountyRoad(s.way, RoadOf(s.ref[i]), n)
      BY <1>7, <2>1, <2>2
    <2>5. j \in J
      <3>1. found[j] = RoadOf(s.ref[i])
        BY <1>3, <2>3
      <3> QED BY <1>5, <2>4, <3>1
    <2> QED BY <2>2, <2>3, <2>5
  <1>11. f \in [J -> O]
    BY <1>8
  <1>12. IsFiniteSet(J)
    BY DEF J
  <1> HIDE DEF f
  <1>13. Cardinality(O) = Cardinality(J)
    BY <1>9, <1>10, <1>11, <1>12, SameNumber
  <1> QED BY <1>13 DEF J, O

\* A way comes into the list of a county from one of its roads.
EnteredAs(way, found, len, county, n) ==
  \E j \in 1..len : CountyRoad(way, found[j], n) /\ found[j][1] = county

LEMMA InsertedFrom ==
  ASSUME NEW table, IsTable(table), NEW way \in AllWays, NEW road \in Roads,
         NEW county \in Range(Counties), NEW n,
         NEW y \in Range(Ways(InsertWayAsRoad(table, way, road[1], road[2]), <<county, n>>))
  PROVE  \/ y \in Range(Ways(table, <<county, n>>))
         \/ y = way /\ CountyRoad(way, road, n) /\ road[1] = county
PROOF
  <1> DEFINE type == road[1]
             number == UInt16(road[2])
             after == InsertWayAsRoad(table, way, road[1], road[2])
             key == KeyOf(type, number)
  <1>1. CASE ~Storable(way, type, number)
    <2>1. after = table
      BY <1>1 DEF InsertWayAsRoad
    <2> QED BY <2>1
  <1>2. CASE Storable(way, type, number)
    <2>1. after = PushBack(table, key, way)
      BY <1>2 DEF InsertWayAsRoad
    <2> HIDE DEF key
    <2>2. Ways(after, <<county, n>>) = IF <<county, n>> = key THEN Append(Ways(table, key), way) ELSE Ways(table, <<county, n>>)
      BY <2>1, PushBackWays
    <2>3. CASE <<county, n>> = key
      <3>1. type = county /\ number = n
        <4>1. type # Europe
          BY <2>3, KindsOfKeys DEF key, KeyOf
        <4>2. key = <<type, number>>
          BY <4>1 DEF key, KeyOf
        <4> QED BY <2>3, <4>2
      <3>2. CountyRoad(way, road, n)
        BY <1>2, <3>1 DEF CountyRoad
      <3>3. y \in Range(Append(Ways(table, key), way))
        BY <2>2, <2>3
      <3>4. Ways(table, key) \in Seq(AllWays)
        BY WaysType
      <3>5. y \in Range(Ways(table, key)) \/ y = way
        BY <3>3, <3>4, ElementsOfLists
      <3> QED BY <2>3, <3>1, <3>2, <3>5
    <2>4. CASE <<county, n>> # key
      BY <2>2, <2>4
    <2> QED BY <2>3, <2>4
  <1> QED BY <1>1, <1>2

LEMMA EnteredFrom ==
  ASSUME NEW table, IsTable(table), IsFull(table), NEW way \in AllWays, NEW found \in Seq(Roads),
         NEW county \in Range(Counties), NEW n,
         NEW y \in Range(Ways(WithRoads(table, way, found), <<county, n>>))
  PROVE  \/ y \in Range(Ways(table, <<county, n>>))
         \/ y = way /\ EnteredAs(way, found, Len(found), county, n)
PROOF
  <1> DEFINE len == Len(found)
  <1>1. PICK with : /\ Enters(with, table, way, found) /\ WithRoads(table, way, found) = with[len]
                    /\ \A i \in 0..len : IsTable(with[i]) /\ IsFull(with[i])
    BY WaysAreEntered
  <1>2. len \in Nat /\ \A i \in 1..len : found[i] \in Roads
    OBVIOUS
  <1> DEFINE From(i) == y \in Range(Ways(with[i], <<county, n>>))
                          => \/ y \in Range(Ways(table, <<county, n>>))
                             \/ y = way /\ EnteredAs(way, found, i, county, n)
             Good == {i \in 0..len : From(i)}
  <1>3. with[0] = table /\ \A i \in 1..len : with[i] = InsertWayAsRoad(with[i - 1], way, found[i][1], found[i][2])
    BY <1>1, Zenon DEF Enters
  <1> HIDE DEF len
  <1>4. 0 \in Good
    BY <1>2, <1>3
  <1>5. ASSUME NEW i \in 0..(len - 1), i \in Good
        PROVE  i + 1 \in Good
    <2> DEFINE m == i + 1
    <2>1. m \in 1..len /\ m \in 0..len /\ m - 1 = i /\ i \in 0..len /\ m \in 1..m /\ 1..i \subseteq 1..m
      BY <1>2
    <2>2. From(i)
      BY <1>5
    <2> HIDE DEF m
    <2>3. ASSUME y \in Range(Ways(with[m], <<county, n>>))
          PROVE  \/ y \in Range(Ways(table, <<county, n>>))
                 \/ y = way /\ EnteredAs(way, found, m, county, n)
      <3>1. with[m] = InsertWayAsRoad(with[i], way, found[m][1], found[m][2])
        BY <1>3, <2>1
      <3>2. \/ y \in Range(Ways(with[i], <<county, n>>))
            \/ y = way /\ CountyRoad(way, found[m], n) /\ found[m][1] = county
        BY <1>1, <1>2, <2>1, <2>3, <3>1, InsertedFrom
      <3>3. EnteredAs(way, found, i, county, n) => EnteredAs(way, found, m, county, n)
        BY <2>1 DEF EnteredAs
      <3>4. CountyRoad(way, found[m], n) /\ found[m][1] = county => EnteredAs(way, found, m, county, n)
        BY <2>1 DEF EnteredAs
      <3> QED BY <2>2, <3>2, <3>3, <3>4
    <2>4. m \in Good
      BY <2>1, <2>3
    <2> QED BY <2>4 DEF m
  <1>6. 0..len \subseteq Good
    <2> HIDE DEF Good
    <2> QED BY <1>2, <1>4, <1>5, IntervalInduction
  <1>7. From(len)
    <2>1. len \in 0..len
      BY <1>2
    <2> HIDE DEF From
    <2> QED BY <1>6, <2>1
  <1> QED BY <1>1, <1>7 DEF len

-----------------------------------------------------------------------------
\* Where a way of a map lies, and whether a point of it is in a region.
PivotIn(m, way) ==
  LET nodes == IF way \in DOMAIN m.ways THEN m.ways[way] ELSE <<>>
      node  == nodes[Len(nodes) \div 2 + 1]
  IN  IF nodes # <<>> /\ node \in DOMAIN m.coord THEN {m.coord[node]} ELSE {}
LiesIn(m, c, relation) == relation \in DOMAIN Polygons[m] /\ InsideRegion(Polygons[m][relation], c)

Short(scb) == {code \in DOMAIN scb : code < 100}

\* What lists way under a county and a number: a label or a place.
ByLabel(refs, way, county, n) == \E l \in KeptIn(refs) : l.way = way /\ UInt16(l.number) = n /\ Type(l) = county
ByPlace(m, scb, way, county) ==
  \E c \in PivotIn(m, way), code \in Short(scb) : RoadTypeForSCBarea(code) = county /\ LiesIn(m, c, scb[code])

\* What is true of every table: all labels have their ways, once for each
\* label, and no way is where neither a label nor a place puts it.
AllListed(table, refs) == \A l \in KeptIn(refs) : Listed(table, l.way, Type(l), UInt16(l.number))
HasCopies(table, refs, way, n) ==
  IsFiniteSet(Spots(table, way, n)) /\ Cardinality(Spots(table, way, n)) = Cardinality(OnCounty(refs, way, n))
Counted(table, refs) == \A way : \A n \in CountyNumbers : HasCopies(table, refs, way, n)
Justified(table, refs, m, scb) ==
  \A county \in CountyLetters : \A n : \A way \in Range(Ways(table, <<county, n>>)) :
    ByLabel(refs, way, county, n) \/ ByPlace(m, scb, way, county)

\* A ref that is read adds its labels.
LEMMA RefIsListed ==
  ASSUME map \in Maps, NEW refs \in SUBSET map.refs, NEW s \in map.refs,
         NEW table, IsTable(table), IsFull(table), AllListed(table, refs)
  PROVE  AllListed(WithRoads(table, s.way, RefRoads(s.ref)), Plus(refs, s))
PROOF
  <1> DEFINE found == RefRoads(s.ref)
             after == WithRoads(table, s.way, found)
  <1>1. s.way \in AllWays /\ found \in Seq(Roads) /\ s.ref \in Seq(RefLabels)
    BY StatementsAreTyped, MapsAssumption
  <1>2. PICK src : Source(src, s.ref, found, Len(s.ref))
    BY <1>1, RefsAreLabels
  <1> HIDE DEF found
  <1>3. Grows(table, after)
    BY <1>1, WithRoadsLists
  <1>4. \A i \in 1..Len(found) : Storable(s.way, found[i][1], UInt16(found[i][2]))
                                   => Listed(after, s.way, found[i][1], UInt16(found[i][2]))
    BY <1>1, WithRoadsLists
  <1> HIDE DEF after
  <1> SUFFICES ASSUME NEW l \in KeptIn(Plus(refs, s))
               PROVE  Listed(after, l.way, Type(l), UInt16(l.number))
    BY DEF AllListed, after, found
  <1>5. CASE l \in LabelsIn(refs)
    <2>1. Listed(table, l.way, Type(l), UInt16(l.number))
      BY <1>5 DEF AllListed, KeptIn
    <2> QED BY <1>3, <2>1, GrowsKeepsListed
  <1>6. CASE l \in LabelsOf(s)
    <2>1. PICK k \in Counting(s.ref, Len(s.ref)) : l = LabelAt(s, k)
      BY <1>6 DEF LabelsOf
    <2>2. PICK i \in 1..Len(found) : src[i] = k
      BY <1>2, Zenon DEF Source
    <2>3. found[i] = RoadOf(s.ref[k])
      BY <1>2, <2>2 DEF Source
    <2>4. l.way = s.way /\ Type(l) = found[i][1] /\ l.number = found[i][2]
      BY <2>1, <2>3, LabelIsRoad
    <2>5. Storable(l.way, Type(l), UInt16(l.number))
      BY DEF KeptIn, IsKept
    <2> QED BY <1>4, <2>4, <2>5
  <1> QED BY <1>5, <1>6 DEF KeptIn, LabelsIn, Plus

LEMMA RefIsCounted ==
  ASSUME map \in Maps, NEW refs \in SUBSET map.refs, NEW s \in map.refs, s \notin refs,
         NEW table, IsTable(table), IsFull(table), Counted(table, refs)
  PROVE  Counted(WithRoads(table, s.way, RefRoads(s.ref)), Plus(refs, s))
PROOF
  <1> DEFINE found == RefRoads(s.ref)
             after == WithRoads(table, s.way, found)
  <1>1. s.way \in AllWays /\ found \in Seq(Roads)
    BY StatementsAreTyped
  <1> HIDE DEF found
  <1> SUFFICES ASSUME NEW way, NEW n \in CountyNumbers
               PROVE  HasCopies(after, Plus(refs, s), way, n)
    BY DEF Counted, found
  <1> DEFINE entered == CountyRoads(s.way, found, n, Len(found))
  <1>2. /\ \A other : other # s.way => Spots(after, other, n) = Spots(table, other, n)
        /\ IsFiniteSet(entered)
        /\ Spots(table, s.way, n) = {} => /\ IsFiniteSet(Spots(after, s.way, n))
                                          /\ Cardinality(Spots(after, s.way, n)) = Cardinality(entered)
    BY <1>1, EnteredSpots
  <1> HIDE DEF after
  <1>3. HasCopies(table, refs, way, n)
    BY DEF Counted
  <1>4. CASE way # s.way
    <2>1. OnCounty(Plus(refs, s), way, n) = OnCounty(refs, way, n)
      BY <1>4, LabelsOfOthers
    <2> QED BY <1>2, <1>3, <1>4, <2>1 DEF HasCopies
  <1>5. CASE way = s.way
    <2>1. OnCounty(refs, way, n) = {}
      BY <1>5, LabelsOfOthers
    <2>2. Spots(table, way, n) = {}
      <3>1. IsFiniteSet(Spots(table, way, n)) /\ Cardinality(Spots(table, way, n)) = Cardinality({})
        BY <1>3, <2>1 DEF HasCopies
      <3>2. Cardinality(Spots(table, way, n)) = 0
        BY <3>1, FS_EmptySet
      <3> QED BY <3>1, <3>2, FS_EmptySet
    <2>3. Cardinality(OnCounty(Plus(refs, s), s.way, n)) = Cardinality(entered)
      <3>1. found = RefRoads(s.ref)
        BY DEF found
      <3>2. IsFiniteSet(CountyRoads(s.way, found, n, Len(found)))
        BY <1>2
      <3> QED BY <3>1, <3>2, LabelsOfOne
    <2> QED BY <1>2, <1>5, <2>2, <2>3 DEF HasCopies
  <1> QED BY <1>4, <1>5

LEMMA RefIsJustified ==
  ASSUME map \in Maps, NEW refs \in SUBSET map.refs, NEW s \in map.refs, NEW m, NEW scb,
         NEW table, IsTable(table), IsFull(table), Justified(table, refs, m, scb)
  PROVE  Justified(WithRoads(table, s.way, RefRoads(s.ref)), Plus(refs, s), m, scb)
PROOF
  <1> DEFINE found == RefRoads(s.ref)
             after == WithRoads(table, s.way, found)
  <1>1. s.way \in AllWays /\ found \in Seq(Roads) /\ s.ref \in Seq(RefLabels)
    BY StatementsAreTyped, MapsAssumption
  <1>2. PICK src : Source(src, s.ref, found, Len(s.ref))
    BY <1>1, RefsAreLabels
  <1> HIDE DEF found
  <1> SUFFICES ASSUME NEW county \in CountyLetters, NEW n, NEW way \in Range(Ways(after, <<county, n>>))
               PROVE  ByLabel(Plus(refs, s), way, county, n) \/ ByPlace(m, scb, way, county)
    BY DEF Justified, found
  <1>3. county \in Range(Counties)
    BY DEF CountyLetters
  <1>4. \/ way \in Range(Ways(table, <<county, n>>))
        \/ way = s.way /\ EnteredAs(s.way, found, Len(found), county, n)
    BY <1>1, <1>3, EnteredFrom
  <1> HIDE DEF after
  <1>5. CASE way \in Range(Ways(table, <<county, n>>))
    <2>1. ByLabel(refs, way, county, n) \/ ByPlace(m, scb, way, county)
      BY <1>5 DEF Justified
    <2>2. KeptIn(refs) \subseteq KeptIn(Plus(refs, s))
      BY DEF KeptIn, LabelsIn, Plus
    <2> QED BY <2>1, <2>2 DEF ByLabel
  <1>6. CASE way = s.way /\ EnteredAs(s.way, found, Len(found), county, n)
    <2>1. PICK j \in 1..Len(found) : CountyRoad(s.way, found[j], n) /\ found[j][1] = county
      BY <1>6 DEF EnteredAs
    <2>2. src[j] \in Counting(s.ref, Len(s.ref)) /\ found[j] = RoadOf(s.ref[src[j]])
      BY <1>2, <2>1 DEF Source
    <2> DEFINE l == LabelAt(s, src[j])
    <2>3. l.way = s.way /\ Type(l) = found[j][1] /\ l.number = found[j][2]
      BY <2>2, LabelIsRoad
    <2>4. l \in LabelsOf(s)
      BY <2>2 DEF LabelsOf
    <2> HIDE DEF l
    <2>5. l \in KeptIn(Plus(refs, s))
      BY <2>1, <2>3, <2>4 DEF KeptIn, LabelsIn, IsKept, CountyRoad, Plus
    <2>6. ByLabel(Plus(refs, s), way, county, n)
      BY <1>6, <2>1, <2>3, <2>5 DEF ByLabel, CountyRoad
    <2> QED BY <2>6
  <1> QED BY <1>4, <1>5, <1>6

\* A way is moved from the list of those without a county to that of one.
NoCounty(n) == <<LanUnknown, n>>
Moved(table, after, county, n, p) ==
  \A k : Ways(after, k) = IF k = NoCounty(n) THEN RemoveAt(Ways(table, k), p)
                          ELSE IF k = <<county, n>> THEN Append(Ways(table, k), Ways(table, NoCounty(n))[p])
                          ELSE Ways(table, k)

\* It is listed as before.
LEMMA MoveKeepsListed ==
  ASSUME NEW table, IsTable(table), NEW county \in CountyLetters, NEW n,
         NEW p \in 1..Len(Ways(table, NoCounty(n))), NEW after, Moved(table, after, county, n, p),
         NEW w, NEW type, NEW number, Listed(table, w, type, number)
  PROVE  Listed(after, w, type, number)
PROOF
  <1> DEFINE key == NoCounty(n)
             to == <<county, n>>
             list == Ways(table, key)
  <1>1. county # LanUnknown /\ key # to
    BY DEF CountyLetters, NoCounty
  <1>2. list \in Seq(AllWays) /\ p \in 1..Len(list)
    BY WaysType
  <1>3. list[p] \in AllWays /\ Ways(table, to) \in Seq(AllWays)
    <2>1. Ways(table, to) \in Seq(AllWays)
      BY WaysType
    <2> HIDE DEF list
    <2> QED BY <1>2, <2>1
  <1>4. /\ Ways(after, key) = RemoveAt(list, p)
        /\ Ways(after, to) = Append(Ways(table, to), list[p])
        /\ \A k : k # key /\ k # to => Ways(after, k) = Ways(table, k)
    BY <1>1 DEF Moved
  <1> HIDE DEF list
  <1>5. list[p] \in Range(Ways(after, to)) /\ Range(Ways(table, to)) \subseteq Range(Ways(after, to))
    <2> DEFINE old == Ways(table, to)
               x == list[p]
    <2>1. Ways(after, to) = Append(old, x)
      BY <1>4
    <2>2. old \in Seq(AllWays) /\ x \in AllWays
      BY <1>3
    <2> HIDE DEF old, x
    <2>3. Range(old) \subseteq Range(Append(old, x)) /\ x \in Range(Append(old, x))
      BY <2>2, ElementsOfLists
    <2> HIDE DEF to
    <2>4. x \in Range(Ways(after, to)) /\ Range(old) \subseteq Range(Ways(after, to))
      BY <2>1, <2>3
    <2> QED BY <2>4 DEF old, x
  <1>6. \A y \in Range(list) : y \in Range(Ways(after, key)) \/ y = list[p]
    BY <1>2, <1>4, RemoveAtElements
  <1> HIDE DEF key, to
  <1>7. \A k : k # key => Range(Ways(table, k)) \subseteq Range(Ways(after, k))
    BY <1>4, <1>5
  <1>8. CASE w \in Range(Ways(table, KeyOf(type, number))) /\ KeyOf(type, number) # key
    BY <1>7, <1>8 DEF Listed
  <1>9. CASE w \in Range(Ways(table, KeyOf(type, number))) /\ KeyOf(type, number) = key
    <2>1. type = LanUnknown /\ number = n
      <3>1. LanUnknown # Europe
        BY KindsOfKeys
      <3> QED BY <1>9, <3>1 DEF KeyOf, key, NoCounty
    <2>2. w \in Range(Ways(after, key)) \/ w = list[p]
      <3>1. w \in Range(list)
        BY <1>9 DEF list
      <3> QED BY <1>6, <3>1
    <2>3. w = list[p] => w \in Range(Ways(after, <<county, number>>))
      BY <1>5, <2>1 DEF to
    <2> QED BY <1>9, <2>1, <2>2, <2>3 DEF Listed
  <1>10. CASE type = LanUnknown /\ \E c \in CountyLetters : w \in Range(Ways(table, <<c, number>>))
    <2>1. PICK c \in CountyLetters : w \in Range(Ways(table, <<c, number>>))
      BY <1>10
    <2>2. <<c, number>> # key
      BY DEF CountyLetters, key, NoCounty
    <2>3. w \in Range(Ways(after, <<c, number>>))
      BY <1>7, <2>1, <2>2
    <2> QED BY <1>10, <2>3 DEF Listed
  <1> QED BY <1>8, <1>9, <1>10 DEF Listed

\* The spots of a table with one way more in one list.
PushedOnce(table, after, way, n) ==
  \A w, k : IF w = way /\ k = n THEN OneMore(Spots(after, way, k), Spots(table, way, k))
           ELSE Spots(after, w, k) = Spots(table, w, k)

LEMMA PushedSpots ==
  ASSUME NEW table, IsTable(table), NEW h \in 1..22, NEW n \in CountyNumbers, NEW way \in AllWays
  PROVE  PushedOnce(table, PushBack(table, <<Counties[h], n>>, way), way, n)
PROOF
  BY PushBackSpots DEF PushedOnce

\* It is there as often as before.
LEMMA MoveKeepsCounted ==
  ASSUME NEW table, IsTable(table), NEW county \in CountyLetters, NEW n \in CountyNumbers,
         NEW p \in 1..Len(Ways(table, NoCounty(n))), NEW after, IsTable(after), Moved(table, after, county, n, p),
         NEW refs, Counted(table, refs)
  PROVE  Counted(after, refs)
PROOF
  <1> DEFINE key == NoCounty(n)
             list == Ways(table, key)
             way == list[p]
             mid == PushBack(table, <<county, n>>, way)
  <1>1. county # LanUnknown /\ key # <<county, n>> /\ county \in Range(Counties)
    BY DEF CountyLetters, NoCounty
  <1>2. PICK h \in 1..22 : Counties[h] = county
    BY <1>1, CountyPlaces
  <1>3. list \in Seq(AllWays) /\ p \in 1..Len(list)
    BY WaysType
  <1>4. way \in AllWays
    <2> HIDE DEF list
    <2> QED BY <1>3
  <1>5. <<county, n>> \in Keys
    BY <1>1 DEF Keys, CountyNumbers
  <1> HIDE DEF way, list, key
  <1>6. IsTable(mid) /\ \A k : Ways(mid, k) = IF k = <<county, n>> THEN Append(Ways(table, <<county, n>>), way) ELSE Ways(table, k)
    <2>1. IsTable(mid)
      BY <1>4, <1>5, PushBackKeepsTable
    <2> QED BY <2>1, PushBackWays
  <1> HIDE DEF mid
  <1>7. CountyList(mid, 22, n) = list
    <2>1. <<Counties[22], n>> = key
      BY CountyPlaces DEF key, NoCounty
    <2> QED BY <1>1, <1>6, <2>1 DEF CountyList, list
  <1>8. TakenOut(mid, after, n, p)
    <2>1. \A k : Ways(after, k) = IF k = key THEN RemoveAt(list, p) ELSE Ways(mid, k)
      BY <1>1, <1>6 DEF Moved, key, list, way
    <2> QED BY <1>7, <2>1 DEF TakenOut, key, NoCounty
  <1>9. PushedOnce(table, mid, way, n)
    <2>1. mid = PushBack(table, <<Counties[h], n>>, way)
      BY <1>2 DEF mid
    <2> QED BY <1>4, <2>1, PushedSpots
  <1>10. ASSUME NEW w, NEW k \in CountyNumbers
        PROVE  HasCopies(after, refs, w, k)
    <2> DEFINE S == Spots(table, w, k)
               M == Spots(mid, w, k)
               A == Spots(after, w, k)
    <2>1. IsFiniteSet(S) /\ Cardinality(S) = Cardinality(OnCounty(refs, w, k)) /\ Cardinality(S) \in Nat
      <3>1. IsFiniteSet(S) /\ Cardinality(S) = Cardinality(OnCounty(refs, w, k))
        BY <1>10 DEF Counted, HasCopies
      <3> QED BY <3>1, FS_CardinalityType
    <2>3. CASE w = way /\ k = n
      <3>1. OneMore(M, S)
        BY <1>9, <2>3 DEF PushedOnce
      <3>2. PICK q : q \notin S /\ M = S \cup {q}
        BY <3>1 DEF OneMore
      <3> HIDE DEF S, M
      <3>3. IsFiniteSet(M) /\ Cardinality(M) = Cardinality(S) + 1
        BY <2>1, <3>2, FS_AddElement
      <3>4. /\ IsFiniteSet(A)
            /\ Cardinality(A) = Cardinality(M) - 1
        <4>1. IsFiniteSet(Spots(mid, w, k))
          BY <3>3 DEF M
        <4>2. k = n /\ CountyList(mid, 22, n)[p] = w
          BY <1>7, <2>3 DEF way
        <4>3. p \in 1..Len(CountyList(mid, 22, n))
          BY <1>3, <1>7
        <4>4. Cardinality(Spots(after, w, k)) = Cardinality(Spots(mid, w, k)) - 1 /\ IsFiniteSet(Spots(after, w, k))
          BY <1>6, <1>8, <4>1, <4>2, <4>3, RemoveAtSpots
        <4> QED BY <4>4 DEF M
      <3> HIDE DEF A
      <3>5. Cardinality(A) = Cardinality(S)
        BY <2>1, <3>3, <3>4
      <3> QED BY <2>1, <3>4, <3>5 DEF HasCopies, A
    <2>4. CASE ~(w = way /\ k = n)
      <3>1. M = S
        BY <1>9, <2>4 DEF PushedOnce
      <3> HIDE DEF S
      <3>2. IsFiniteSet(A) /\ Cardinality(A) = Cardinality(M)
        <4>1. IsFiniteSet(Spots(mid, w, k))
          BY <2>1, <3>1
        <4>2. ~(k = n /\ CountyList(mid, 22, n)[p] = w)
          BY <1>7, <2>4 DEF way
        <4>3. p \in 1..Len(CountyList(mid, 22, n))
          BY <1>3, <1>7
        <4>4. IF k = n /\ CountyList(mid, 22, n)[p] = w
              THEN Cardinality(Spots(after, w, k)) = Cardinality(Spots(mid, w, k)) - 1
              ELSE Cardinality(Spots(after, w, k)) = Cardinality(Spots(mid, w, k))
          BY <1>6, <1>8, <4>1, <4>3, RemoveAtSpots
        <4>5. IsFiniteSet(Spots(after, w, k))
          BY <1>6, <1>8, <4>1, <4>3, RemoveAtSpots
        <4> QED BY <4>2, <4>4, <4>5
      <3> QED BY <2>1, <3>1, <3>2 DEF HasCopies
    <2> QED BY <2>3, <2>4
  <1> QED BY <1>10 DEF Counted

\* It is where its place puts it.
LEMMA MoveIsJustified ==
  ASSUME NEW table, IsTable(table), NEW county \in CountyLetters, NEW n,
         NEW p \in 1..Len(Ways(table, NoCounty(n))), NEW after, Moved(table, after, county, n, p),
         NEW refs, NEW m, NEW scb, Justified(table, refs, m, scb), ByPlace(m, scb, Ways(table, NoCounty(n))[p], county)
  PROVE  Justified(after, refs, m, scb)
PROOF
  <1> DEFINE list == Ways(table, NoCounty(n))
             way == list[p]
  <1>1. way \in AllWays
    <2>1. list \in Seq(AllWays) /\ p \in 1..Len(list)
      BY WaysType
    <2> HIDE DEF list
    <2> QED BY <2>1
  <1> HIDE DEF list, way
  <1> SUFFICES ASSUME NEW c \in CountyLetters, NEW k, NEW w \in Range(Ways(after, <<c, k>>))
               PROVE  ByLabel(refs, w, c, k) \/ ByPlace(m, scb, w, c)
    BY DEF Justified
  <1>2. <<c, k>> # NoCounty(n)
    BY DEF CountyLetters, NoCounty
  <1>3. w \in Range(Ways(table, <<c, k>>)) \/ (w = way /\ c = county)
    <2>1. CASE <<c, k>> = <<county, n>>
      <3> DEFINE old == Ways(table, <<c, k>>)
      <3>1. Ways(after, <<c, k>>) = Append(old, way)
        BY <1>2, <2>1 DEF Moved, list, way
      <3>2. old \in Seq(AllWays)
        BY WaysType
      <3> HIDE DEF old
      <3>3. w \in Range(old) \/ w = way
        BY <1>1, <3>1, <3>2, ElementsOfLists
      <3> QED BY <2>1, <3>3 DEF old
    <2>2. CASE <<c, k>> # <<county, n>>
      BY <1>2, <2>2 DEF Moved
    <2> QED BY <2>1, <2>2
  <1>4. CASE w \in Range(Ways(table, <<c, k>>))
    BY <1>4 DEF Justified
  <1>5. CASE w = way /\ c = county
    BY <1>5 DEF way, list
  <1> QED BY <1>3, <1>4, <1>5

\* Codes are those that the map gives regions.
CodesFrom(m, scb) == \A c \in DOMAIN scb : \E s \in m.codes : s.kind = "scb" /\ s.code = c /\ s.relation = scb[c]

\* A way that lies in no county, and that no search of a county ends at.
StaysPut(m, scb, way) ==
  \A c \in PivotIn(m, way), code \in Short(scb) : scb[code] \in DOMAIN Polygons[m] /\ ~LiesIn(m, c, scb[code])

\* Short codes are those of counties.
LEMMA ShortCodes ==
  ASSUME NEW m \in Maps, NEW scb, CodesFrom(m, scb), NEW code \in Short(scb)
  PROVE  code \in Nat /\ code > 0 /\ RoadTypeForSCBarea(code) \in CountyLetters
PROOF
  <1>1. PICK s \in m.codes : s.kind = "scb" /\ s.code = code
    BY DEF CodesFrom, Short
  <1>2. code \in Nat /\ code < 100
    BY <1>1, MapsAssumption DEF Short
  <1>3. code \in DOMAIN LettersOf
    BY <1>1, <1>2, CodesAssumption
  <1>4. /\ DOMAIN LettersOf = {1, 3, 4, 5, 6, 7, 8, 9, 10, 12, 13, 14} \cup 17..25
        /\ \A c \in {1, 3, 4, 5, 6, 7, 8, 9, 10, 12, 13, 14, 17, 18, 19, 20, 21, 22, 23, 24, 25} :
             LettersOf[c] \in {"AB", "C", "D", "E", "F", "G", "H", "I", "K", "M", "N", "O", "S", "T", "U", "W",
                               "X", "Y", "Z", "AC", "BD"}
    BY DEF LettersOf
  <1>5. \A c \in 17..25 : c \in {17, 18, 19, 20, 21, 22, 23, 24, 25}
    OBVIOUS
  <1>6. LettersOf[code] \in {"AB", "C", "D", "E", "F", "G", "H", "I", "K", "M", "N", "O", "S", "T", "U", "W",
                             "X", "Y", "Z", "AC", "BD"}
    BY <1>3, <1>4, <1>5
  <1>7. LettersOf[code] \in CountyLetters
    BY <1>6, CountyNames DEF CountyLetters, LanUnknown
  <1>8. RoadTypeForSCBarea(code) = LettersOf[code]
    BY <1>2, <1>3 DEF RoadTypeForSCBarea
  <1>9. code > 0
    BY <1>3, <1>4
  <1> QED BY <1>2, <1>7, <1>8, <1>9

\* What the search of the county of a way finds.
Finds(m, scb, way, area) ==
  \/ area = -1 /\ StaysPut(m, scb, way)
  \/ area = EndOfSearch
  \/ area > 0 /\ RoadTypeForSCBarea(area) \in CountyLetters /\ ByPlace(m, scb, way, RoadTypeForSCBarea(area))

LEMMA CountiesAreFound ==
  ASSUME map \in Maps, CodesFrom(map, codes.scb), NEW way
  PROVE  Finds(map, codes.scb, way, CountyOf(way))
PROOF
  <1> DEFINE scb == codes.scb
             c == CHOOSE c \in Pivot(way) : TRUE
             stops == {code \in LevelCounty : Throws(scb[code]) \/ Inside(c, scb[code])}
  <1>1. Pivot(way) = PivotIn(map, way) /\ LevelCounty = Short(scb)
    BY DEF Pivot, PivotIn, LevelCounty, Short
  <1>2. \A code : /\ Throws(scb[code]) <=> scb[code] \notin DOMAIN Polygons[map]
                  /\ ~Throws(scb[code]) => (Inside(c, scb[code]) <=> LiesIn(map, c, scb[code]))
    BY DEF Throws, Inside, LiesIn
  <1>3. CASE Pivot(way) = {}
    <2>1. CountyOf(way) = -1
      BY <1>3 DEF CountyOf
    <2>2. StaysPut(map, codes.scb, way)
      BY <1>1, <1>3 DEF StaysPut
    <2> QED BY <2>1, <2>2 DEF Finds
  <1>4. CASE Pivot(way) # {}
    <2>1. c \in Pivot(way) /\ \A d \in Pivot(way) : d = c
      BY <1>4 DEF Pivot
    <2>2. CountyOf(way) = InsideSCBarea(c, LevelCounty)
      BY <1>4 DEF CountyOf
    <2>3. InsideSCBarea(c, LevelCounty) = IF stops = {} THEN -1
                                          ELSE IF Throws(scb[Min(stops)]) THEN EndOfSearch ELSE Min(stops)
      BY DEF InsideSCBarea
    <2> HIDE DEF c
    <2>4. CASE stops = {}
      <3>1. \A code \in Short(scb) : ~Throws(scb[code]) /\ ~Inside(c, scb[code])
        BY <1>1, <2>4
      <3>2. StaysPut(map, codes.scb, way)
        <4> HIDE DEF stops, scb
        <4>1. \A code \in Short(scb) : scb[code] \in DOMAIN Polygons[map] /\ ~LiesIn(map, c, scb[code])
          BY <1>2, <3>1
        <4>2. StaysPut(map, scb, way)
          BY <1>1, <2>1, <4>1 DEF StaysPut
        <4> QED BY <4>2 DEF scb
      <3>3. CountyOf(way) = -1
        BY <2>2, <2>3, <2>4
      <3> QED BY <3>2, <3>3 DEF Finds
    <2>5. CASE stops # {}
      <3>1. stops \in SUBSET Nat
        <4>1. \A code \in Short(scb) : code \in Nat
          BY ShortCodes
        <4> HIDE DEF scb
        <4> QED BY <1>1, <4>1
      <3> DEFINE first == Min(stops)
      <3>2. first \in stops
        <4> HIDE DEF stops
        <4>1. \E x \in stops : \A y \in stops : x <= y
          BY <2>5, <3>1, LeastExists
        <4> QED BY <4>1, Zenon DEF Min
      <3>3. first \in Short(scb) /\ (Throws(scb[first]) \/ Inside(c, scb[first]))
        <4> HIDE DEF first, scb
        <4> QED BY <1>1, <3>2
      <3>4. CASE Throws(scb[first])
        <4>1. CountyOf(way) = EndOfSearch
          BY <2>2, <2>3, <2>5, <3>4
        <4> QED BY <4>1 DEF Finds
      <3>5. CASE ~Throws(scb[first])
        <4>1. CountyOf(way) = first
          BY <2>2, <2>3, <2>5, <3>5
        <4> HIDE DEF first
        <4>2. first \in Nat /\ first > 0 /\ RoadTypeForSCBarea(first) \in CountyLetters
          BY <3>3, ShortCodes
        <4>3. ByPlace(map, codes.scb, way, RoadTypeForSCBarea(first))
          <5> HIDE DEF scb
          <5>1. LiesIn(map, c, scb[first]) /\ c \in PivotIn(map, way)
            BY <1>1, <1>2, <2>1, <3>3, <3>5
          <5>2. ByPlace(map, scb, way, RoadTypeForSCBarea(first))
            BY <3>3, <5>1 DEF ByPlace
          <5> QED BY <5>2 DEF scb
        <4> QED BY <4>1, <4>2, <4>3 DEF Finds
      <3> QED BY <3>4, <3>5
    <2> QED BY <2>4, <2>5
  <1> QED BY <1>3, <1>4

-----------------------------------------------------------------------------
\* The ways of a number up to a place have been passed; all have.
Passed(table, m, scb, number, place) ==
  \A n \in Nat : \A p \in 1..Len(Ways(table, NoCounty(n))) :
    n < number \/ (n = number /\ p < place) => StaysPut(m, scb, Ways(table, NoCounty(n))[p])
AllOutside(table, m, scb) ==
  \A n \in Nat : \A p \in 1..Len(Ways(table, NoCounty(n))) : StaysPut(m, scb, Ways(table, NoCounty(n))[p])

\* There is nothing between the cursor and the number that comes next.
LEMMA HerePassed ==
  ASSUME IsTable(roads), cursor.number \in Nat, cursor.place \in Nat \ {0}, Ahead # {}, NEW m, NEW scb,
         Passed(roads, m, scb, cursor.number, cursor.place)
  PROVE  Passed(roads, m, scb, Current, Place)
PROOF
  <1>1. /\ Current \in Nat /\ Current >= cursor.number
        /\ \A n : n >= cursor.number /\ NoCounty(n) \in DOMAIN roads => Current <= n
    BY CurrentIsFirst DEF NoCounty
  <1>2. Place = IF cursor.number = Current THEN cursor.place ELSE 1
    BY DEF Place
  <1> HIDE DEF Current, Place
  <1> SUFFICES ASSUME NEW n \in Nat, NEW p \in 1..Len(Ways(roads, NoCounty(n))),
                      n < Current \/ (n = Current /\ p < Place)
               PROVE  StaysPut(m, scb, Ways(roads, NoCounty(n))[p])
    BY DEF Passed
  <1>3. CASE n < cursor.number \/ (n = cursor.number /\ p < cursor.place)
    BY <1>3 DEF Passed
  <1>4. CASE ~(n < cursor.number \/ (n = cursor.number /\ p < cursor.place))
    <2> DEFINE list == Ways(roads, NoCounty(n))
    <2>1. list \in Seq(AllWays) /\ p \in 1..Len(list)
      BY WaysType
    <2>2. NoCounty(n) \in DOMAIN roads
      <3> SUFFICES ASSUME NoCounty(n) \notin DOMAIN roads
                   PROVE  FALSE
        OBVIOUS
      <3>1. list = <<>>
        BY DEF Ways
      <3> HIDE DEF list
      <3> QED BY <2>1, <3>1
    <2> HIDE DEF list
    <2>3. p \in Nat /\ p >= 1
      BY <2>1
    <2>4. n >= cursor.number
      BY <1>4
    <2>5. n = Current /\ p < Place
      BY <1>1, <2>2, <2>4
    <2> QED BY <1>1, <1>2, <1>4, <2>3, <2>5
  <1> QED BY <1>3, <1>4

\* The way at the cursor is moved, or stays where it is.
LEMMA MoveKeepsPassed ==
  ASSUME NEW table, IsTable(table), NEW county \in CountyLetters, NEW number \in Nat,
         NEW place \in 1..Len(Ways(table, NoCounty(number))), NEW after, Moved(table, after, county, number, place),
         NEW m, NEW scb, Passed(table, m, scb, number, place)
  PROVE  Passed(after, m, scb, number, place)
PROOF
  <1> DEFINE list == Ways(table, NoCounty(number))
  <1>1. list \in Seq(AllWays) /\ place \in 1..Len(list)
    BY WaysType
  <1>2. \A n : NoCounty(n) = NoCounty(number) <=> n = number
    BY DEF NoCounty
  <1>3. \A n : NoCounty(n) # <<county, number>>
    BY DEF NoCounty, CountyLetters
  <1>4. /\ Ways(after, NoCounty(number)) = RemoveAt(list, place)
        /\ \A n : n # number => Ways(after, NoCounty(n)) = Ways(table, NoCounty(n))
    BY <1>2, <1>3 DEF Moved
  <1> HIDE DEF list
  <1>5. /\ Len(RemoveAt(list, place)) = Len(list) - 1
        /\ \A i \in 1..(Len(list) - 1) : RemoveAt(list, place)[i] = IF i < place THEN list[i] ELSE list[i + 1]
    BY <1>1, RemoveAtElements
  <1> SUFFICES ASSUME NEW n \in Nat, NEW p \in 1..Len(Ways(after, NoCounty(n))), n < number \/ (n = number /\ p < place)
               PROVE  StaysPut(m, scb, Ways(after, NoCounty(n))[p])
    BY DEF Passed
  <1>6. CASE n < number
    <2>1. Ways(after, NoCounty(n)) = Ways(table, NoCounty(n))
      BY <1>4, <1>6
    <2> QED BY <1>6, <2>1 DEF Passed
  <1>7. CASE n = number /\ p < place
    <2>1. p \in 1..(Len(list) - 1) /\ p \in 1..Len(list)
      BY <1>1, <1>4, <1>5, <1>7
    <2>2. Ways(after, NoCounty(n))[p] = list[p]
      BY <1>4, <1>5, <1>7, <2>1
    <2>3. StaysPut(m, scb, list[p])
      BY <1>7, <2>1 DEF Passed, list
    <2> QED BY <2>2, <2>3
  <1> QED BY <1>6, <1>7

LEMMA StayKeepsPassed ==
  ASSUME NEW table, NEW number \in Nat, NEW place \in Nat, NEW m, NEW scb, Passed(table, m, scb, number, place),
         StaysPut(m, scb, Ways(table, NoCounty(number))[place])
  PROVE  Passed(table, m, scb, number, place + 1)
PROOF
  <1> SUFFICES ASSUME NEW n \in Nat, NEW p \in 1..Len(Ways(table, NoCounty(n))), n < number \/ (n = number /\ p < place + 1)
               PROVE  StaysPut(m, scb, Ways(table, NoCounty(n))[p])
    BY DEF Passed
  <1>1. CASE n < number \/ (n = number /\ p < place)
    BY <1>1 DEF Passed
  <1>2. CASE n = number /\ p = place
    BY <1>2
  <1>3. p \in Int
    OBVIOUS
  <1> QED BY <1>1, <1>2, <1>3

LEMMA EndOfListPassed ==
  ASSUME NEW table, IsTable(table), NEW number \in Nat, NEW place \in Nat, place > Len(Ways(table, NoCounty(number))),
         NEW m, NEW scb, Passed(table, m, scb, number, place)
  PROVE  Passed(table, m, scb, number + 1, 1)
PROOF
  <1> SUFFICES ASSUME NEW n \in Nat, NEW p \in 1..Len(Ways(table, NoCounty(n))), n < number + 1 \/ (n = number + 1 /\ p < 1)
               PROVE  StaysPut(m, scb, Ways(table, NoCounty(n))[p])
    BY DEF Passed
  <1>1. p \in Int /\ p >= 1
    OBVIOUS
  <1>2. n < number \/ n = number
    BY <1>1
  <1>3. n = number => p < place
    <2> DEFINE list == Ways(table, NoCounty(number))
    <2>1. list \in Seq(AllWays) /\ place > Len(list)
      BY WaysType
    <2>2. n = number => p \in 1..Len(list)
      OBVIOUS
    <2> HIDE DEF list
    <2> QED BY <2>1, <2>2
  <1> QED BY <1>2, <1>3 DEF Passed

LEMMA AllArePassed ==
  ASSUME IsTable(roads), cursor.number \in Nat, Ahead = {}, NEW m, NEW scb, NEW place,
         Passed(roads, m, scb, cursor.number, place)
  PROVE  AllOutside(roads, m, scb)
PROOF
  <1> SUFFICES ASSUME NEW n \in Nat, NEW p \in 1..Len(Ways(roads, NoCounty(n)))
               PROVE  n < cursor.number
    BY DEF AllOutside, Passed
  <1> DEFINE list == Ways(roads, NoCounty(n))
  <1>1. list \in Seq(AllWays) /\ p \in 1..Len(list)
    BY WaysType
  <1>2. NoCounty(n) \in DOMAIN roads
    <2> SUFFICES ASSUME NoCounty(n) \notin DOMAIN roads
                 PROVE  FALSE
      OBVIOUS
    <2>1. list = <<>>
      BY DEF Ways
    <2> HIDE DEF list
    <2> QED BY <1>1, <2>1
  <1>3. NoCounty(n)[1] = LanUnknown /\ NoCounty(n)[2] = n
    BY DEF NoCounty
  <1>4. n \in Unlabeled
    <2> DEFINE key == NoCounty(n)
    <2>1. key \in DOMAIN roads /\ key[1] = LanUnknown /\ key[2] = n
      BY <1>2, <1>3
    <2> HIDE DEF key
    <2> QED BY <2>1 DEF Unlabeled
  <1> QED BY <1>4 DEF Ahead

\* What is true of a table is true of another with the same lists.
SameWays(table, after) == \A k : Ways(after, k) = Ways(table, k)

LEMMA SameTable ==
  ASSUME NEW table, NEW after, SameWays(table, after), NEW refs, NEW m, NEW scb
  PROVE  /\ AllListed(table, refs) => AllListed(after, refs)
         /\ Counted(table, refs) => Counted(after, refs)
         /\ Justified(table, refs, m, scb) => Justified(after, refs, m, scb)
         /\ \A number, place : Passed(table, m, scb, number, place) => Passed(after, m, scb, number, place)
PROOF
  <1>1. ASSUME AllListed(table, refs)
        PROVE  AllListed(after, refs)
    BY <1>1 DEF AllListed, Listed, SameWays
  <1>2. ASSUME Counted(table, refs)
        PROVE  Counted(after, refs)
    <2>1. \A n : \A i \in 1..22 : CountyList(after, i, n) = CountyList(table, i, n)
      BY DEF SameWays, CountyList
    <2>2. \A way, n : Spots(after, way, n) = Spots(table, way, n)
      BY <2>1, SameSpots
    <2> QED BY <1>2, <2>2 DEF Counted, HasCopies
  <1>3. ASSUME Justified(table, refs, m, scb)
        PROVE  Justified(after, refs, m, scb)
    BY <1>3 DEF Justified, SameWays
  <1>4. ASSUME NEW number, NEW place, Passed(table, m, scb, number, place)
        PROVE  Passed(after, m, scb, number, place)
    BY <1>4 DEF Passed, SameWays
  <1> QED BY <1>1, <1>2, <1>3, <1>4

\* What is true of a table of roads and the codes it was made with.
Sound(table, refs, m, scb) ==
  CodesFrom(m, scb) /\ AllListed(table, refs) /\ Counted(table, refs) /\ Justified(table, refs, m, scb)

RefsRead == map.refs \ unread
HasCodes == codes = [kind \in {"scb", "nuts3"} |-> codes[kind]]

\* While a map is read and its roads are moved, and what is saved.
RoadsInv ==
  /\ stage # "reading" => unread = {}
  /\ stage = "reading" => cursor.number = 0 /\ cursor.place = 1
  /\ stage \in {"reading", "fixing", "saving"} => HasCodes /\ Sound(roads, RefsRead, map, codes.scb)
  /\ stage = "fixing" => Passed(roads, map, codes.scb, cursor.number, cursor.place)
  /\ stage = "saving" => AllOutside(roads, map, codes.scb)
SavedInv ==
  file # NoFile => Sound(saved[2], map.refs, map, saved[1].scb) /\ AllOutside(saved[2], map, saved[1].scb)

LEMMA EmptyIsSound ==
  ASSUME NEW m
  PROVE  Sound(<<>>, {}, m, <<>>)
PROOF
  <1>1. \A k : Ways(<<>>, k) = <<>> /\ Range(Ways(<<>>, k)) = {}
    BY DEF Ways, Range
  <1>2. KeptIn({}) = {} /\ \A way, n : OnCounty({}, way, n) = {}
    BY DEF KeptIn, LabelsIn, OnCounty
  <1>3. \A way, n : Spots(<<>>, way, n) = {}
    <2>1. \A i, n : CountyList(<<>>, i, n) = <<>>
      BY <1>1 DEF CountyList
    <2>2. \A i, n : DOMAIN CountyList(<<>>, i, n) = {}
      BY <2>1
    <2> QED BY <2>2 DEF Spots
  <1>4. Counted(<<>>, {})
    BY <1>2, <1>3, FS_EmptySet DEF Counted, HasCopies
  <1>5. AllListed(<<>>, {})
    BY <1>2 DEF AllListed
  <1>6. Justified(<<>>, {}, m, <<>>)
    BY <1>1 DEF Justified
  <1>7. CodesFrom(m, <<>>)
    BY DEF CodesFrom
  <1> QED BY <1>4, <1>5, <1>6, <1>7 DEF Sound

\* A ref that is read keeps the table sound, and so does a code.
LEMMA RefIsSound ==
  ASSUME map \in Maps, NEW refs \in SUBSET map.refs, NEW s \in map.refs, s \notin refs, NEW scb,
         NEW table, IsTable(table), IsFull(table), Sound(table, refs, map, scb)
  PROVE  Sound(WithRoads(table, s.way, RefRoads(s.ref)), Plus(refs, s), map, scb)
PROOF
  <1> DEFINE after == WithRoads(table, s.way, RefRoads(s.ref))
  <1>1. CodesFrom(map, scb) /\ AllListed(table, refs) /\ Counted(table, refs) /\ Justified(table, refs, map, scb)
    BY DEF Sound
  <1>2. AllListed(after, Plus(refs, s))
    BY <1>1, RefIsListed
  <1>3. Counted(after, Plus(refs, s))
    BY <1>1, RefIsCounted
  <1>4. Justified(after, Plus(refs, s), map, scb)
    BY <1>1, RefIsJustified
  <1> QED BY <1>1, <1>2, <1>3, <1>4 DEF Sound

LEMMA CodeIsSound ==
  ASSUME NEW m, NEW table, NEW refs, NEW scb, Sound(table, refs, m, scb),
         NEW s \in m.codes, s.kind = "scb", NEW more,
         more = [c \in DOMAIN scb \cup {s.code} |-> IF c \in DOMAIN scb THEN scb[c] ELSE s.relation]
  PROVE  Sound(table, refs, m, more)
PROOF
  <1>1. DOMAIN more = DOMAIN scb \cup {s.code} /\ \A c \in DOMAIN scb : more[c] = scb[c]
    OBVIOUS
  <1>2. s.code \notin DOMAIN scb => more[s.code] = s.relation
    OBVIOUS
  <1>3. CodesFrom(m, more)
    <2> SUFFICES ASSUME NEW c \in DOMAIN scb \cup {s.code}
                 PROVE  \E t \in m.codes : t.kind = "scb" /\ t.code = c /\ t.relation = more[c]
      BY <1>1 DEF CodesFrom
    <2>1. CASE c \in DOMAIN scb
      BY <1>1, <2>1 DEF Sound, CodesFrom
    <2>2. CASE c \notin DOMAIN scb
      BY <1>2, <2>2
    <2> QED BY <2>1, <2>2
  <1>4. Short(scb) \subseteq Short(more) /\ \A c \in Short(scb) : more[c] = scb[c]
    BY <1>1 DEF Short
  <1>5. ASSUME NEW way, NEW county, ByPlace(m, scb, way, county)
        PROVE  ByPlace(m, more, way, county)
    <2>1. PICK c \in PivotIn(m, way), code \in Short(scb) : RoadTypeForSCBarea(code) = county /\ LiesIn(m, c, scb[code])
      BY <1>5 DEF ByPlace
    <2>2. code \in Short(more) /\ LiesIn(m, c, more[code])
      BY <1>4, <2>1
    <2> QED BY <2>1, <2>2 DEF ByPlace
  <1>6. Justified(table, refs, m, more)
    BY <1>5 DEF Sound, Justified
  <1> QED BY <1>3, <1>6 DEF Sound

-----------------------------------------------------------------------------
\* One step of the program.
LEMMA ReadRefIsSound ==
  ASSUME TypeInv, RoadsInv, NEW s \in unread, ReadRef(s)
  PROVE  RoadsInv'
PROOF
  <1>1. /\ s \in map.refs /\ stage = "reading" /\ unread' = unread \ {s} /\ map' = map /\ stage' = stage /\ cursor' = cursor
        /\ codes' = codes /\ roads' = WithRoads(roads, s.way, RefRoads(s.ref))
    BY Zenon DEF ReadRef, Memorise
  <1>2. map \in Maps /\ IsTable(roads) /\ IsFull(roads)
    BY <1>1 DEF TypeInv, TableInv
  <1>3. HasCodes /\ Sound(roads, RefsRead, map, codes.scb) /\ cursor.number = 0 /\ cursor.place = 1
    BY <1>1 DEF RoadsInv
  <1>4. RefsRead \in SUBSET map.refs /\ s \notin RefsRead /\ RefsRead' = Plus(RefsRead, s)
    BY <1>1 DEF RefsRead, Plus
  <1>5. Sound(roads', RefsRead', map, codes.scb)
    BY <1>1, <1>2, <1>3, <1>4, RefIsSound
  <1>6. HasCodes'
    BY <1>1, <1>3 DEF HasCodes
  <1> QED BY <1>1, <1>3, <1>5, <1>6 DEF RoadsInv

LEMMA ReadCodeIsSound ==
  ASSUME TypeInv, RoadsInv, NEW s \in unread, ReadCode(s)
  PROVE  RoadsInv'
PROOF
  <1> DEFINE More(kind) == [c \in DOMAIN codes[kind] \cup {s.code} |-> IF c \in DOMAIN codes[kind] THEN codes[kind][c]
                                                                      ELSE s.relation]
  <1>1. /\ s \in map.codes /\ stage = "reading" /\ unread' = unread \ {s} /\ map' = map /\ stage' = stage /\ cursor' = cursor
        /\ roads' = roads
    BY DEF ReadCode, Memorise
  <1>2. codes' = [codes EXCEPT ![s.kind] = More(s.kind)]
    BY Zenon DEF ReadCode
  <1>3. HasCodes /\ Sound(roads, RefsRead, map, codes.scb) /\ cursor.number = 0 /\ cursor.place = 1
    BY <1>1 DEF RoadsInv
  <1>4. map \in Maps /\ s.kind \in {"scb", "nuts3"}
    BY <1>1, MapsAssumption DEF TypeInv
  <1>5. RefsRead' = RefsRead
    <2>1. s \notin map.refs
      <3>1. DOMAIN s = {"kind", "code", "relation"} /\ \A r \in map.refs : DOMAIN r = {"way", "ref"}
        BY <1>1, <1>4, MapsAssumption
      <3>2. "code" \in DOMAIN s /\ \A r \in map.refs : "code" \notin DOMAIN r
        BY <3>1
      <3> QED BY <3>2
    <2> QED BY <1>1, <2>1 DEF RefsRead
  <1> HIDE DEF More
  <1>6. HasCodes' /\ codes'["scb"] = IF s.kind = "scb" THEN More("scb") ELSE codes["scb"]
    BY <1>2, <1>3, <1>4 DEF HasCodes
  <1>7. Sound(roads, RefsRead, map, codes'.scb)
    <2>1. CASE s.kind = "scb"
      <3>1. codes'.scb = More("scb")
        BY <1>6, <2>1
      <3>2. Sound(roads, RefsRead, map, More("scb"))
        <4> DEFINE scb == codes.scb
                   more == More("scb")
        <4>1. more = [c \in DOMAIN scb \cup {s.code} |-> IF c \in DOMAIN scb THEN scb[c] ELSE s.relation]
          BY DEF More
        <4>2. Sound(roads, RefsRead, map, scb)
          BY <1>3
        <4> HIDE DEF scb, more
        <4>3. Sound(roads, RefsRead, map, more)
          BY <1>1, <2>1, <4>1, <4>2, CodeIsSound
        <4> QED BY <4>3 DEF more
      <3> QED BY <3>1, <3>2
    <2>2. CASE s.kind # "scb"
      BY <1>3, <1>6, <2>2
    <2> QED BY <2>1, <2>2
  <1> QED BY <1>1, <1>3, <1>5, <1>6, <1>7 DEF RoadsInv

LEMMA FixWayIsSound ==
  ASSUME TypeInv, TypeInv', RoadsInv, FixWay, stage' = "fixing"
  PROVE  RoadsInv'
PROOF
  <1> DEFINE way == List[Place]
             area == CountyOf(way)
  <1>1. /\ stage = "fixing" /\ Ahead # {} /\ Place <= Len(List) /\ map' = map
        /\ cursor.number \in Nat /\ cursor.place \in Nat \ {0} /\ IsTable(roads) /\ map \in Maps
    BY DEF TypeInv, TableInv, FixWay, Fixing
  <1>2. /\ Current \in Nat /\ NoCounty(Current) \in DOMAIN roads /\ NoCounty(Current) \in Keys
        /\ List = Ways(roads, NoCounty(Current)) /\ List \in Seq(AllWays)
    <2>1. /\ Current \in Nat /\ <<LanUnknown, Current>> \in DOMAIN roads /\ <<LanUnknown, Current>> \in Keys
          /\ List \in Seq(AllWays)
      BY <1>1, CurrentIsFirst
    <2>2. List = Ways(roads, NoCounty(Current))
      BY <2>1 DEF List, Ways, NoCounty
    <2> QED BY <2>1, <2>2 DEF NoCounty
  <1>3. Place \in 1..Len(List) /\ Place \in Nat
    <2>1. Place \in Nat \ {0} /\ Len(List) \in Nat
      BY <1>1, <1>2 DEF Place
    <2> QED BY <2>1, <1>1
  <1>4. /\ UNCHANGED <<unread, codes, regions, sorted, stage>>
        /\ area # EndOfSearch
        /\ IF area > 0
           THEN /\ roads' = LET added == PushBack(roads, <<RoadTypeForSCBarea(area), Current>>, way)
                            IN  [added EXCEPT ![<<LanUnknown, Current>>] = RemoveAt(@, Place)]
                /\ Advance(Place)
           ELSE Advance(Place + 1) /\ UNCHANGED roads
    BY Zenon DEF FixWay, EndsProgram
  <1>5. HasCodes /\ Sound(roads, RefsRead, map, codes.scb) /\ unread = {}
        /\ Passed(roads, map, codes.scb, cursor.number, cursor.place)
    BY <1>1 DEF RoadsInv
  <1>6. Passed(roads, map, codes.scb, Current, Place)
    BY <1>1, <1>5, HerePassed
  <1>7. Finds(map, codes.scb, way, area)
    BY <1>1, <1>5, CountiesAreFound DEF Sound
  <1>8. RefsRead' = RefsRead /\ HasCodes'
    BY <1>1, <1>4, <1>5 DEF RefsRead, HasCodes
  <1>9. CASE area > 0
    <2> DEFINE county == RoadTypeForSCBarea(area)
               key == NoCounty(Current)
               to == <<county, Current>>
               mid == PushBack(roads, to, way)
    <2>1. county \in CountyLetters /\ ByPlace(map, codes.scb, way, county)
      <3>1. ~(area = -1)
        BY <1>9
      <3> HIDE DEF area
      <3> QED BY <1>4, <1>7, <3>1 DEF Finds
    <2>2. roads' = [mid EXCEPT ![key] = RemoveAt(mid[key], Place)] /\ cursor' = [number |-> Current, place |-> Place]
      BY <1>4, <1>9, Zenon DEF Advance, NoCounty
    <2>3. key \in DOMAIN roads /\ to # key
      BY <1>2, <2>1 DEF NoCounty, CountyLetters
    <2>4. way = Ways(roads, key)[Place]
      BY <1>2
    <2>5. Current \in CountyNumbers
      <3>1. key[1] \in Range(Counties) /\ key[2] = Current
        BY KindsOfKeys DEF NoCounty
      <3>2. key \in Keys
        BY <1>2
      <3>3. key[2] \in CountyNumbers
        <4> HIDE DEF key
        <4> QED BY <3>1, <3>2, KindsOfKeys DEF CountyNumbers
      <3> QED BY <3>1, <3>3
    <2> HIDE DEF mid, to, key, county, way, area
    <2>6. Moved(roads, roads', county, Current, Place)
      <3>1. mid = [k \in DOMAIN mid |-> mid[k]] /\ DOMAIN mid = DOMAIN roads \cup {to}
        BY DEF mid, PushBack
      <3>2. \A k : Ways(mid, k) = IF k = to THEN Append(Ways(roads, to), way) ELSE Ways(roads, k)
        BY PushBackWays DEF mid
      <3>3. \A k : Ways(roads', k) = IF k = key THEN RemoveAt(Ways(roads, key), Place) ELSE Ways(mid, k)
        <4>1. DOMAIN roads' = DOMAIN mid /\ \A k \in DOMAIN mid : roads'[k] = IF k = key THEN RemoveAt(mid[key], Place) ELSE mid[k]
          BY <2>2, <3>1
        <4>2. key \in DOMAIN mid /\ mid[key] = Ways(roads, key)
          BY <2>3, <3>1, <3>2 DEF Ways
        <4> QED BY <4>1, <4>2 DEF Ways
      <3>4. \A k : Ways(roads', k) = IF k = key THEN RemoveAt(Ways(roads, key), Place)
                                     ELSE IF k = to THEN Append(Ways(roads, to), way) ELSE Ways(roads, k)
        BY <3>2, <3>3
      <3> QED BY <2>4, <3>4 DEF Moved, key, to
    <2>7. Place \in 1..Len(Ways(roads, NoCounty(Current)))
      BY <1>2, <1>3
    <2>8. IsTable(roads')
      BY DEF TypeInv, TableInv
    <2>9. AllListed(roads', RefsRead)
      <3>1. \A l \in KeptIn(RefsRead) : Listed(roads, l.way, Type(l), UInt16(l.number))
        BY <1>5 DEF Sound, AllListed
      <3>2. \A l \in KeptIn(RefsRead) : Listed(roads', l.way, Type(l), UInt16(l.number))
        BY <1>1, <2>1, <2>6, <2>7, <3>1, MoveKeepsListed
      <3> QED BY <3>2 DEF AllListed
    <2>10. Counted(roads', RefsRead)
      <3>1. Counted(roads, RefsRead)
        BY <1>5 DEF Sound
      <3> QED BY <1>1, <2>1, <2>5, <2>6, <2>7, <2>8, <3>1, MoveKeepsCounted
    <2>11. Justified(roads', RefsRead, map, codes.scb)
      <3>1. Justified(roads, RefsRead, map, codes.scb) /\ ByPlace(map, codes.scb, Ways(roads, NoCounty(Current))[Place], county)
        BY <1>5, <2>1, <2>4 DEF Sound, key
      <3> QED BY <1>1, <2>1, <2>6, <2>7, <3>1, MoveIsJustified
    <2>12. Passed(roads', map, codes.scb, Current, Place)
      BY <1>1, <1>2, <1>6, <2>1, <2>6, <2>7, MoveKeepsPassed
    <2>13. cursor'.number = Current /\ cursor'.place = Place
      BY <2>2
    <2>14. Sound(roads', RefsRead, map, codes.scb)
      BY <1>5, <2>9, <2>10, <2>11 DEF Sound
    <2> HIDE DEF Current, Place, List
    <2> QED BY <1>1, <1>4, <1>5, <1>8, <2>12, <2>13, <2>14 DEF RoadsInv
  <1>10. CASE ~(area > 0)
    <2>1. roads' = roads /\ cursor' = [number |-> Current, place |-> Place + 1]
      BY <1>4, <1>10, Zenon DEF Advance
    <2>2. StaysPut(map, codes.scb, Ways(roads, NoCounty(Current))[Place])
      <3>1. StaysPut(map, codes.scb, way)
        <4> HIDE DEF area
        <4> QED BY <1>4, <1>7, <1>10 DEF Finds
      <3> QED BY <1>2, <3>1
    <2>3. Passed(roads, map, codes.scb, Current, Place + 1)
      BY <1>2, <1>3, <1>6, <2>2, StayKeepsPassed
    <2>4. cursor'.number = Current /\ cursor'.place = Place + 1
      BY <2>1
    <2> HIDE DEF Current, Place, List, way, area
    <2> QED BY <1>1, <1>4, <1>5, <1>8, <2>1, <2>3, <2>4 DEF RoadsInv
  <1> QED BY <1>9, <1>10

LEMMA FixNextIsSound ==
  ASSUME TypeInv, RoadsInv, FixNext
  PROVE  RoadsInv'
PROOF
  <1> DEFINE key == NoCounty(Current)
  <1>1. /\ stage = "fixing" /\ Ahead # {} /\ Place > Len(List)
        /\ cursor.number \in Nat /\ cursor.place \in Nat \ {0} /\ IsTable(roads) /\ map \in Maps
        /\ cursor' = [number |-> Current + 1, place |-> 1]
        /\ roads' = [k \in {k \in DOMAIN roads : k # <<LanUnknown, Current>> \/ List # <<>>} |-> roads[k]]
        /\ map' = map /\ unread' = unread /\ codes' = codes /\ stage' = stage
    BY DEF TypeInv, TableInv, FixNext, Fixing
  <1>2. Current \in Nat /\ key \in DOMAIN roads /\ List = roads[key] /\ List = Ways(roads, key)
    <2>1. Current \in Nat /\ <<LanUnknown, Current>> \in DOMAIN roads
      BY <1>1, CurrentIsFirst
    <2> QED BY <2>1 DEF List, Ways, NoCounty
  <1>3. Place \in Nat
    BY <1>1 DEF Place
  <1> HIDE DEF Current, Place, List
  <1>4. SameWays(roads, roads')
    <2>1. roads' = [k \in {k \in DOMAIN roads : k # key \/ List # <<>>} |-> roads[k]]
      BY <1>1 DEF NoCounty
    <2> HIDE DEF key
    <2> QED BY <1>2, <2>1 DEF SameWays, Ways
  <1>5. HasCodes /\ Sound(roads, RefsRead, map, codes.scb) /\ unread = {}
        /\ Passed(roads, map, codes.scb, cursor.number, cursor.place)
    BY <1>1 DEF RoadsInv
  <1>6. Passed(roads, map, codes.scb, Current + 1, 1)
    <2>1. Passed(roads, map, codes.scb, Current, Place)
      BY <1>1, <1>5, HerePassed
    <2> QED BY <1>1, <1>2, <1>3, <2>1, EndOfListPassed
  <1>7. Passed(roads', map, codes.scb, Current + 1, 1)
    BY <1>4, <1>6, SameTable
  <1>8. Sound(roads', RefsRead, map, codes.scb)
    BY <1>4, <1>5, SameTable DEF Sound
  <1>9. RefsRead' = RefsRead /\ HasCodes'
    BY <1>1, <1>5 DEF RefsRead, HasCodes
  <1>10. cursor'.number = Current + 1 /\ cursor'.place = 1
    BY <1>1
  <1> QED BY <1>1, <1>5, <1>7, <1>8, <1>9, <1>10 DEF RoadsInv

\* Where nothing has been read, the table is empty.
LEMMA NothingIsSound ==
  ASSUME codes = Nothing, roads = <<>>, cursor = [number |-> 0, place |-> 1],
         unread = Statements(map), stage = "reading"
  PROVE  RoadsInv
PROOF
  <1>1. RefsRead = {}
    BY DEF RefsRead, Statements
  <1>2. HasCodes /\ codes.scb = <<>>
    BY DEF HasCodes, Nothing
  <1>3. Sound(roads, RefsRead, map, codes.scb)
    BY <1>1, <1>2, EmptyIsSound
  <1> QED BY <1>2, <1>3 DEF RoadsInv

\* After all is read, sorting begins in front of the first number.
LEMMA ReadAllIsSound ==
  ASSUME RoadsInv, ReadAll
  PROVE  RoadsInv'
PROOF
  <1>1. stage = "reading" /\ unread = {} /\ stage' = "fixing" /\ map' = map /\ unread' = unread /\ codes' = codes
        /\ roads' = roads /\ cursor' = cursor
    BY DEF ReadAll, memory
  <1>2. HasCodes /\ Sound(roads, RefsRead, map, codes.scb) /\ cursor.number = 0 /\ cursor.place = 1
    BY <1>1 DEF RoadsInv
  <1>3. Passed(roads, map, codes.scb, 0, 1)
    <2> SUFFICES ASSUME NEW n \in Nat, NEW p \in 1..Len(Ways(roads, NoCounty(n))), n < 0 \/ (n = 0 /\ p < 1)
                 PROVE  FALSE
      BY DEF Passed
    <2>1. p \in Int /\ p >= 1
      OBVIOUS
    <2> QED BY <2>1
  <1>4. HasCodes' /\ RefsRead' = RefsRead
    BY <1>1, <1>2 DEF HasCodes, RefsRead
  <1> QED BY <1>1, <1>2, <1>3, <1>4 DEF RoadsInv

LEMMA FixDoneIsSound ==
  ASSUME TypeInv, RoadsInv, FixDone
  PROVE  RoadsInv'
PROOF
  <1>1. stage = "fixing" /\ Ahead = {} /\ stage' = "saving" /\ map' = map /\ unread' = unread /\ codes' = codes
        /\ roads' = roads /\ cursor' = cursor
    BY DEF FixDone, memory
  <1>2. HasCodes /\ Sound(roads, RefsRead, map, codes.scb) /\ unread = {}
        /\ Passed(roads, map, codes.scb, cursor.number, cursor.place)
    BY <1>1 DEF RoadsInv
  <1>3. IsTable(roads) /\ cursor.number \in Nat
    BY DEF TypeInv, TableInv
  <1>4. AllOutside(roads, map, codes.scb)
    BY <1>1, <1>2, <1>3, AllArePassed
  <1>5. HasCodes' /\ RefsRead' = RefsRead
    BY <1>1, <1>2 DEF HasCodes, RefsRead
  <1> QED BY <1>1, <1>2, <1>4, <1>5 DEF RoadsInv

\* What is written is what was sorted.
LEMMA WriteIsSound ==
  ASSUME RoadsInv, Write
  PROVE  RoadsInv' /\ SavedInv'
PROOF
  <1>1. PICK r : /\ stage = "saving" /\ stage' = "serving" /\ saved' = <<codes, roads, r>>
                 /\ UNCHANGED <<map, unread, codes, roads, cursor>>
    BY Zenon DEF Write
  <1>2. Sound(roads, RefsRead, map, codes.scb) /\ AllOutside(roads, map, codes.scb) /\ unread = {}
    BY <1>1 DEF RoadsInv
  <1>3. RefsRead = map.refs
    BY <1>2 DEF RefsRead
  <1>4. RoadsInv'
    BY <1>1, <1>2 DEF RoadsInv
  <1>5. saved'[1] = codes /\ saved'[2] = roads /\ map' = map
    BY <1>1
  <1> QED BY <1>2, <1>3, <1>4, <1>5 DEF SavedInv

LEMMA RoadsStep ==
  ASSUME TypeInv, TypeInv', RoadsInv, SavedInv, [Next]_vars
  PROVE  RoadsInv' /\ SavedInv'
PROOF
  <1>1. ASSUME UNCHANGED <<map, file, saved>>
        PROVE  SavedInv'
    BY <1>1 DEF SavedInv
  <1>2. ASSUME UNCHANGED <<map, file, saved>>, unread' = {}, stage' \in {"down", "ended", "serving"}
        PROVE  RoadsInv' /\ SavedInv'
    BY <1>1, <1>2 DEF RoadsInv
  <1>3. ASSUME EndsProgram, UNCHANGED <<map, file, saved>>
        PROVE  RoadsInv' /\ SavedInv'
    BY <1>2, <1>3 DEF EndsProgram, Cleared
  <1>4. ASSUME NEW s \in unread, ReadRef(s)
        PROVE  RoadsInv' /\ SavedInv'
    BY <1>4, <1>1, ReadRefIsSound DEF ReadRef, Memorise
  <1>5. ASSUME NEW s \in unread, ReadCode(s)
        PROVE  RoadsInv' /\ SavedInv'
    BY <1>5, <1>1, ReadCodeIsSound DEF ReadCode, Memorise
  <1>6. ASSUME NEW s \in unread, ReadRegion(s)
        PROVE  RoadsInv' /\ SavedInv'
    <2>1. /\ s \in map.regions /\ stage = "reading" /\ stage' = stage /\ unread' = unread \ {s}
          /\ map' = map /\ codes' = codes /\ roads' = roads /\ cursor' = cursor /\ UNCHANGED <<file, saved>>
      BY <1>6 DEF ReadRegion, Memorise
    <2>2. RefsRead' = RefsRead
      <3>1. s \notin map.refs
        <4>1. map \in Maps
          BY DEF TypeInv
        <4>2. "name" \in DOMAIN s /\ \A r \in map.refs : DOMAIN r = {"way", "ref"}
          BY <2>1, <4>1, MapsAssumption
        <4> QED BY <4>2
      <3> QED BY <2>1, <3>1 DEF RefsRead
    <2>3. HasCodes /\ Sound(roads, RefsRead, map, codes.scb) /\ cursor.number = 0 /\ cursor.place = 1
      BY <2>1 DEF RoadsInv
    <2>4. HasCodes'
      BY <2>1, <2>3 DEF HasCodes
    <2> QED BY <1>1, <2>1, <2>2, <2>3, <2>4 DEF RoadsInv
  <1>7. CASE ReadAll
    BY <1>7, <1>1, ReadAllIsSound DEF ReadAll
  <1>8. CASE FixWay
    <2>1. CASE EndsProgram
      BY <1>3, <1>8, <2>1 DEF FixWay
    <2>2. CASE ~EndsProgram
      <3>1. stage' = stage /\ stage = "fixing" /\ UNCHANGED <<map, file, saved>>
        BY <1>8, <2>2, Zenon DEF FixWay, Fixing
      <3> QED BY <1>1, <1>8, <3>1, FixWayIsSound
    <2> QED BY <2>1, <2>2
  <1>9. CASE FixNext
    BY <1>9, <1>1, FixNextIsSound DEF FixNext
  <1>10. CASE FixDone
    BY <1>10, <1>1, FixDoneIsSound DEF FixDone
  <1>11. CASE Write
    BY <1>11, WriteIsSound
  <1>12. CASE Stop
    BY <1>12, <1>2 DEF Stop, Cleared
  <1>13. CASE Read
    <2>1. CASE CannotRead(file)
      BY <1>3, <1>13, <2>1 DEF Read
    <2>2. CASE ~CannotRead(file)
      <3>1. stage = "down" /\ stage' = "serving" /\ unread' = unread /\ UNCHANGED <<map, file, saved>>
        BY <1>13, <2>2 DEF Read
      <3>2. unread = {}
        BY <3>1 DEF RoadsInv
      <3> QED BY <1>2, <3>1, <3>2
    <2> QED BY <2>1, <2>2
  <1>14. CASE StartAgain
    <2>1. CASE file # NoFile
      <3>1. stage = "ended" /\ stage' = "down" /\ unread' = unread /\ UNCHANGED <<map, file, saved>>
        BY <1>14, <2>1 DEF StartAgain
      <3>2. unread = {}
        BY <3>1 DEF RoadsInv
      <3> QED BY <1>2, <3>1, <3>2
    <2>2. CASE file = NoFile
      <3>1. /\ stage' = "reading" /\ Cleared(Statements(map)) /\ UNCHANGED <<map, file, saved>>
        BY <1>14, <2>2 DEF StartAgain
      <3>2. /\ codes' = Nothing /\ roads' = <<>> /\ cursor' = [number |-> 0, place |-> 1]
            /\ unread' = Statements(map')
        BY <3>1 DEF Cleared, Statements
      <3>3. RoadsInv'
        <4>1. RefsRead' = {}
          BY <3>2 DEF RefsRead, Statements
        <4>2. HasCodes' /\ codes'.scb = <<>>
          BY <3>2 DEF HasCodes, Nothing
        <4>3. Sound(roads', RefsRead', map', codes'.scb)
          BY <3>2, <4>1, <4>2, EmptyIsSound
        <4> QED BY <3>1, <3>2, <4>2, <4>3 DEF RoadsInv
      <3> QED BY <1>1, <3>1, <3>3
    <2> QED BY <2>1, <2>2
  <1>15. ASSUME NEW c \in Points, AskMunicipality(c)
         PROVE  RoadsInv' /\ SavedInv'
    BY <1>15, <1>3 DEF AskMunicipality
  <1>16. ASSUME NEW name \in DOMAIN Normal, AskRegion(name)
         PROVE  RoadsInv' /\ SavedInv'
    BY <1>16, <1>3 DEF AskRegion
  <1>17. CASE UNCHANGED vars
    <2>1. UNCHANGED <<map, unread, codes, roads, stage, cursor, file, saved>>
      BY <1>17 DEF vars, memory
    <2>2. RefsRead' = RefsRead /\ HasCodes' = HasCodes
      BY <2>1 DEF RefsRead, HasCodes
    <2> QED BY <1>1, <2>1, <2>2 DEF RoadsInv
  <1> QED BY <1>4, <1>5, <1>6, <1>7, <1>8, <1>9, <1>10, <1>11, <1>12, <1>13, <1>14, <1>15, <1>16, <1>17 DEF Next

LEMMA RoadsInvariant == Spec => [](RoadsInv /\ SavedInv)
PROOF
  <1>1. Init => RoadsInv /\ SavedInv
    BY NothingIsSound DEF Init, SavedInv
  <1>2. TypeInv /\ TypeInv' /\ RoadsInv /\ SavedInv /\ [Next]_vars => (RoadsInv /\ SavedInv)'
    BY RoadsStep
  <1> QED BY <1>1, <1>2, TypesInvariant, PTL DEF Spec

-----------------------------------------------------------------------------
\* What the table is whenever there is one.
LEMMA TablesAreSound ==
  ASSUME TypeInv, FileInv, ServedInv, RoadsInv, SavedInv, stage \in Tables
  PROVE  /\ IsTable(roads) /\ map \in Maps /\ Sound(roads, RefsRead, map, codes.scb)
         /\ stage \in {"saving", "serving"} => AllOutside(roads, map, codes.scb) /\ RefsRead = map.refs
PROOF
  <1>1. IsTable(roads) /\ map \in Maps
    BY DEF TypeInv, TableInv
  <1>2. stage # "reading" => RefsRead = map.refs
    BY DEF RoadsInv, RefsRead
  <1>3. CASE stage = "serving"
    <2>1. file # NoFile /\ codes = saved[1] /\ roads = saved[2]
      BY <1>3 DEF ServedInv, memory
    <2>2. Sound(roads, map.refs, map, codes.scb) /\ AllOutside(roads, map, codes.scb)
      BY <2>1 DEF SavedInv
    <2> QED BY <1>1, <1>2, <1>3, <2>2
  <1>4. CASE stage # "serving"
    <2>1. stage \in {"reading", "fixing", "saving"}
      BY <1>4 DEF Tables
    <2> QED BY <1>1, <1>2, <2>1 DEF RoadsInv
  <1> QED BY <1>3, <1>4

\* What is known of a label.
IsLabel(l) == /\ l.letters \in CountyLetters \cup {""} /\ l.number \in Nat /\ l.number > 0
              /\ <<Type(l), l.number>> \in Roads
LEMMA LabelsAreTyped ==
  ASSUME map \in Maps, NEW refs \in SUBSET map.refs, NEW l \in LabelsIn(refs)
  PROVE  IsLabel(l)
PROOF
  <1>1. PICK s \in map.refs : l \in LabelsOf(s)
    BY DEF LabelsIn
  <1>2. PICK i \in Counting(s.ref, Len(s.ref)) : l = LabelAt(s, i)
    BY <1>1 DEF LabelsOf
  <1>3. s.ref \in Seq(RefLabels) /\ \A j \in DOMAIN s.ref : s.ref[j].readable => s.ref[j].number > 0
    BY MapsAssumption
  <1>4. i \in 1..Len(s.ref) /\ s.ref[i].readable
    <2>1. i \in 1..Len(s.ref) /\ \A j \in 1..i : s.ref[j].readable
      <3>1. i \in 1..Len(s.ref) /\ Counts(s.ref, i)
        BY <1>2, Zenon DEF Counting
      <3> QED BY <3>1, Zenon DEF Counts
    <2>2. i \in 1..i
      BY <2>1
    <2> QED BY <2>1, <2>2
  <1>5. s.ref[i] \in RefLabels /\ s.ref[i].number > 0
    BY <1>3, <1>4
  <1>6. l.letters = s.ref[i].letters /\ l.number = s.ref[i].number
    BY <1>2 DEF LabelAt
  <1>7. RoadOf(s.ref[i]) \in Roads
    BY <1>5, LabelsAreRoads DEF RoadOf
  <1>8. RoadOf(s.ref[i]) = <<Type(l), l.number>>
    BY <1>6 DEF RoadOf, Type
  <1> QED BY <1>5, <1>6, <1>7, <1>8 DEF IsLabel, RefLabels

LEMMA CopiesAreSpots ==
  ASSUME NEW way, NEW n \in CountyNumbers
  PROVE  Copies(way, n) = Cardinality(Spots(roads, way, n))
PROOF
  <1>1. n < RegionalLen
    BY DEF CountyNumbers, RegionalLen
  <1>2. \A i : OfCounty(i, n) = CountyList(roads, i, n)
    BY <1>1 DEF OfCounty, CountyList
  <1>3. \A i : {<<i, j>> : j \in {j \in DOMAIN OfCounty(i, n) : OfCounty(i, n)[j] = way}}
               = {<<i, j>> : j \in {j \in DOMAIN CountyList(roads, i, n) : CountyList(roads, i, n)[j] = way}}
    BY <1>2
  <1>4. UNION {{<<i, j>> : j \in {j \in DOMAIN OfCounty(i, n) : OfCounty(i, n)[j] = way}} : i \in DOMAIN Counties}
        = Spots(roads, way, n)
    BY <1>3, CountyPlaces DEF Spots
  <1> QED BY <1>4 DEF Copies

\* Each label has its way once.
LEMMA LabelsHaveTheirCopies ==
  ASSUME map \in Maps, IsTable(roads), Counted(roads, RefsRead),
         NEW l \in Kept, Type(l) \in Range(Counties)
  PROVE  Copies(l.way, UInt16(l.number)) =
           Cardinality({o \in Kept : /\ o.way = l.way /\ UInt16(o.number) = UInt16(l.number)
                                     /\ Type(o) \in Range(Counties)})
PROOF
  <1> DEFINE n == UInt16(l.number)
             way == l.way
  <1>1. Kept = KeptIn(RefsRead)
    BY LabelsAreThese DEF RefsRead
  <1>2. n \in CountyNumbers
    <2>1. Storable(way, Type(l), n)
      BY DEF Kept
    <2>2. n < RegionalLen
      BY <2>1 DEF Storable
    <2>3. l.number \in Nat
      <3>1. l \in LabelsIn(RefsRead) /\ RefsRead \in SUBSET map.refs
        BY <1>1 DEF KeptIn, RefsRead
      <3> QED BY <3>1, LabelsAreTyped DEF IsLabel
    <2>4. n \in Nat
      BY <2>3, UInt16Type
    <2> HIDE DEF n
    <2> QED BY <2>2, <2>4 DEF CountyNumbers, RegionalLen
  <1>3. {o \in Kept : /\ o.way = l.way /\ UInt16(o.number) = UInt16(l.number) /\ Type(o) \in Range(Counties)}
        = OnCounty(RefsRead, way, n)
    BY <1>1 DEF OnCounty
  <1> HIDE DEF n, way
  <1>4. HasCopies(roads, RefsRead, way, n)
    BY <1>2 DEF Counted
  <1>5. Copies(way, n) = Cardinality(OnCounty(RefsRead, way, n))
    BY <1>2, <1>4, CopiesAreSpots DEF HasCopies
  <1> QED BY <1>3, <1>5 DEF n, way

\* A way that none of the counties takes lies in none, and one that a county
\* takes lies in it or on its outline.
LEMMA OutsideIsNotInside ==
  ASSUME CountiesAreRight, map \in Maps, NEW scb, CodesFrom(map, scb), NEW code \in Short(scb),
         NEW way, NEW c \in PivotIn(map, way)
  PROVE  /\ StaysPut(map, scb, way) => ~IsInside(map, scb[code], c)
         /\ LiesIn(map, c, scb[code]) => MayBeInside(map, scb[code], c)
PROOF
  <1>1. PICK s \in map.codes : s.kind = "scb" /\ s.code = code /\ s.relation = scb[code]
    BY DEF CodesFrom, Short
  <1>2. s.code < 100
    BY <1>1 DEF Short
  <1>3. PICK n \in DOMAIN map.coord : c = map.coord[n]
    BY DEF PivotIn
  <1>4. scb[code] \in DOMAIN Polygons[map] =>
          /\ InsideRegion(Polygons[map][scb[code]], c) => MayBeInside(map, scb[code], c)
          /\ IsInside(map, scb[code], c) => InsideRegion(Polygons[map][scb[code]], c)
    BY <1>1, <1>2, <1>3 DEF CountiesAreRight
  <1> QED BY <1>4 DEF StaysPut, LiesIn

\* However roads are moved while the lists they are in are gone through, each
\* way is listed under its number once per label; one without a county ends
\* up in the county it lies in, one with a county stays there, and one that
\* lies in no county stays where it was, whatever maps there are and in
\* whatever order they are read, if the search of a county is right
\* (sweden.cpp:1785-1844).
THEOREM RoadsAreInTheirCounties ==
  ASSUME CountiesAreRight
  PROVE  Spec => []RoadsAreWhereTheyLie
PROOF
  <1>1. ASSUME TypeInv, FileInv, ServedInv, RoadsInv, SavedInv
        PROVE  RoadsAreWhereTheyLie
    <2>1. ASSUME stage \in Tables
          PROVE  \A l \in {l \in Kept : Type(l) \in Range(Counties)} :
                   Copies(l.way, UInt16(l.number)) =
                     Cardinality({o \in Kept : /\ o.way = l.way /\ UInt16(o.number) = UInt16(l.number)
                                               /\ Type(o) \in Range(Counties)})
      <3>1. map \in Maps /\ IsTable(roads) /\ Counted(roads, RefsRead)
        BY <1>1, <2>1, TablesAreSound DEF Sound
      <3> QED BY <3>1, LabelsHaveTheirCopies
    <2>2. ASSUME stage \in {"saving", "serving"}, NEW k \in DOMAIN roads, NEW way \in Range(roads[k])
          PROVE  /\ k[1] = LanUnknown =>
                      \A c \in Pivot(way), code \in LevelCounty :
                        ~IsInside(map, codes.scb[code], c)
                 /\ k[1] \in CountyLetters =>
                      \/ \E l \in Kept : l.way = way /\ UInt16(l.number) = k[2] /\ Type(l) = k[1]
                      \/ \E c \in Pivot(way), code \in LevelCounty :
                           RoadTypeForSCBarea(code) = k[1] /\ MayBeInside(map, codes.scb[code], c)
      <3>1. /\ map \in Maps /\ IsTable(roads) /\ Sound(roads, RefsRead, map, codes.scb)
            /\ AllOutside(roads, map, codes.scb)
        <4>1. stage \in Tables
          BY <2>2 DEF Tables
        <4> QED BY <1>1, <2>2, <4>1, TablesAreSound
      <3>2. CodesFrom(map, codes.scb) /\ Justified(roads, RefsRead, map, codes.scb)
        BY <3>1 DEF Sound
      <3>3. Pivot(way) = PivotIn(map, way) /\ LevelCounty = Short(codes.scb)
        BY DEF Pivot, PivotIn, LevelCounty, Short
      <3>4. k \in Keys /\ k = <<k[1], k[2]>> /\ k[2] \in Nat /\ Ways(roads, k) = roads[k]
        BY <3>1, KindsOfKeys DEF IsTable, Ways
      <3>5. ASSUME k[1] = LanUnknown, NEW c \in PivotIn(map, way), NEW code \in Short(codes.scb)
            PROVE  ~IsInside(map, codes.scb[code], c)
        <4>1. k = NoCounty(k[2])
          BY <3>4, <3>5 DEF NoCounty
        <4>2. roads[k] \in Seq(AllWays)
          BY <3>1 DEF IsTable
        <4>3. PICK p \in 1..Len(roads[k]) : roads[k][p] = way
          BY <2>2, <4>2 DEF Range
        <4>4. StaysPut(map, codes.scb, way)
          <5>1. p \in 1..Len(Ways(roads, NoCounty(k[2]))) /\ Ways(roads, NoCounty(k[2]))[p] = way
            BY <3>4, <4>1, <4>3
          <5> QED BY <3>1, <3>4, <5>1 DEF AllOutside
        <4> QED BY <3>1, <3>2, <3>5, <4>4, OutsideIsNotInside
      <3>6. ASSUME k[1] \in CountyLetters
            PROVE  \/ \E l \in Kept : l.way = way /\ UInt16(l.number) = k[2] /\ Type(l) = k[1]
                   \/ \E c \in PivotIn(map, way), code \in Short(codes.scb) :
                        RoadTypeForSCBarea(code) = k[1] /\ MayBeInside(map, codes.scb[code], c)
        <4>1. way \in Range(Ways(roads, <<k[1], k[2]>>))
          BY <2>2, <3>4
        <4>2. ByLabel(RefsRead, way, k[1], k[2]) \/ ByPlace(map, codes.scb, way, k[1])
          BY <3>2, <3>6, <4>1 DEF Justified
        <4>3. CASE ByLabel(RefsRead, way, k[1], k[2])
          <5>1. Kept = KeptIn(RefsRead)
            BY <3>1, LabelsAreThese DEF RefsRead
          <5> QED BY <4>3, <5>1 DEF ByLabel
        <4>4. CASE ByPlace(map, codes.scb, way, k[1])
          <5>1. PICK c \in PivotIn(map, way), code \in Short(codes.scb) :
                  RoadTypeForSCBarea(code) = k[1] /\ LiesIn(map, c, codes.scb[code])
            BY <4>4 DEF ByPlace
          <5>2. MayBeInside(map, codes.scb[code], c)
            BY <3>1, <3>2, <5>1, OutsideIsNotInside
          <5> QED BY <5>1, <5>2
        <4> QED BY <4>2, <4>3, <4>4
      <3> QED BY <3>3, <3>5, <3>6
    <2> QED BY <2>1, <2>2 DEF RoadsAreWhereTheyLie
  <1> QED BY <1>1, TypesInvariant, RoadsInvariant, PTL

-----------------------------------------------------------------------------
(* Lists that are put together.                                            *)

Concatenated(cut, lists, n) == cut[0] = <<>> /\ \A i \in 1..n : cut[i] = cut[i - 1] \o lists[i]

BeginsWith(t, s) == Len(s) \in Nat /\ Len(t) \in Nat /\ Len(s) <= Len(t) /\ \A p \in 1..Len(s) : t[p] = s[p]

LEMMA SeqDomain ==
  ASSUME NEW T, NEW s \in Seq(T)
  PROVE  DOMAIN s = 1..Len(s) /\ DOMAIN s \in SUBSET Nat /\ Len(s) \in Nat
PROOF OBVIOUS

LEMMA InRange ==
  ASSUME NEW T, NEW s \in Seq(T)
  PROVE  \A p \in 1..Len(s) : s[p] \in Range(s)
PROOF BY DEF Range

LEMMA SeqsInARow ==
  ASSUME NEW T, NEW s \in Seq(T), NEW t \in Seq(T)
  PROVE  /\ s \o t \in Seq(T) /\ Len(s \o t) = Len(s) + Len(t)
         /\ BeginsWith(s \o t, s)
         /\ \A p \in 1..Len(t) : (s \o t)[Len(s) + p] = t[p]
         /\ \A p \in 1..Len(s \o t) : p > Len(s) => p - Len(s) \in 1..Len(t) /\ (s \o t)[p] = t[p - Len(s)]
PROOF
  <1>1. Len(s) \in Nat /\ Len(t) \in Nat /\ Len(s \o t) = Len(s) + Len(t)
    OBVIOUS
  <1>2. \A p \in 1..(Len(s) + Len(t)) : (s \o t)[p] = IF p <= Len(s) THEN s[p] ELSE t[p - Len(s)]
    OBVIOUS
  <1>3. s \o t \in Seq(T)
    OBVIOUS
  <1>4. ASSUME NEW p \in 1..Len(t)
        PROVE  (s \o t)[Len(s) + p] = t[p]
    <2> DEFINE q == Len(s) + p
    <2>1. q \in 1..(Len(s) + Len(t)) /\ ~(q <= Len(s)) /\ q - Len(s) = p
      BY <1>1
    <2> HIDE DEF q
    <2>2. (s \o t)[q] = t[p]
      BY <1>2, <2>1
    <2> QED BY <2>2 DEF q
  <1>5. BeginsWith(s \o t, s)
    BY <1>1, <1>2 DEF BeginsWith
  <1> QED BY <1>1, <1>2, <1>3, <1>4, <1>5

LEMMA CutsExist ==
  ASSUME NEW T, NEW n \in Nat, NEW lists \in [1..n -> Seq(T)]
  PROVE  \E cut \in [0..n -> Seq(T)] : Concatenated(cut, lists, n)
PROOF
  <1> DEFINE step == [p \in (1..n) \X Seq(T) |-> p[2] \o lists[p[1]]]
             base == <<>>
  <1>1. ASSUME NEW i \in 1..n, NEW s \in Seq(T)
        PROVE  step[<<i, s>>] = s \o lists[i] /\ step[<<i, s>>] \in Seq(T)
    <2>1. step[<<i, s>>] = s \o lists[i]
      OBVIOUS
    <2>2. lists[i] \in Seq(T)
      OBVIOUS
    <2> HIDE DEF step
    <2> QED BY <2>1, <2>2, SeqsInARow
  <1>2. base \in Seq(T)
    OBVIOUS
  <1> HIDE DEF step, base
  <1>3. PICK g \in [0..n -> Seq(T)] : IsRecursion(g, n, base, step)
    BY <1>1, <1>2, RecursionExists
  <1>4. \A i \in 0..n : g[i] = IF i = 0 THEN base ELSE step[<<i, g[i - 1]>>]
    BY <1>3, Zenon DEF IsRecursion
  <1>5. g[0] = <<>>
    <2>1. 0 \in 0..n
      OBVIOUS
    <2>2. g[0] = base
      BY <1>4, <2>1, Zenon
    <2> QED BY <2>2 DEF base
  <1>6. ASSUME NEW i \in 1..n
        PROVE  g[i] = g[i - 1] \o lists[i]
    <2>1. i \in 0..n /\ i # 0 /\ i - 1 \in 0..n
      OBVIOUS
    <2>2. g[i] = step[<<i, g[i - 1]>>] /\ g[i - 1] \in Seq(T)
      BY <1>4, <2>1
    <2> QED BY <1>1, <2>2
  <1> QED BY <1>5, <1>6 DEF Concatenated

LEMMA FlatIs ==
  ASSUME NEW T, NEW n \in Nat, NEW lists \in [1..n -> Seq(T)], NEW cut, \A i \in 0..n : cut[i] \in Seq(T),
         Concatenated(cut, lists, n)
  PROVE  FlattenSeq(lists) = cut[n]
PROOF
  <1> DEFINE IsFlat(f) == f = [i \in 1..Len(lists) |-> IF i = 1 THEN lists[i] ELSE f[i - 1] \o lists[i]]
             flat == CHOOSE f : IsFlat(f)
             f == [i \in 1..n |-> cut[i]]
  <1>1. Len(lists) = n /\ \A i \in 1..n : lists[i] \in Seq(T)
    OBVIOUS
  <1>2. cut[0] = <<>> /\ \A i \in 1..n : cut[i] = cut[i - 1] \o lists[i]
    BY DEF Concatenated
  <1>3. CASE n = 0
    <2>1. FlattenSeq(lists) = lists
      BY <1>1, <1>3, Zenon DEF FlattenSeq
    <2>2. lists = <<>>
      BY <1>3
    <2> QED BY <1>2, <1>3, <2>1, <2>2
  <1>4. CASE n # 0
    <2>1. ASSUME NEW i \in 1..n
          PROVE  f[i] = IF i = 1 THEN lists[i] ELSE f[i - 1] \o lists[i]
      <3>1. CASE i = 1
        <4>1. cut[1] = cut[0] \o lists[1]
          <5>1. 1 \in 1..n /\ 1 - 1 = 0
            BY <1>4
          <5> QED BY <1>2, <5>1
        <4>2. <<>> \o lists[1] = lists[1]
          BY <1>1, <3>1
        <4> QED BY <1>2, <3>1, <4>1, <4>2
      <3>2. CASE i # 1
        <4>1. i - 1 \in 1..n
          BY <3>2
        <4> QED BY <1>2, <3>2, <4>1
      <3> QED BY <3>1, <3>2
    <2>2. IsFlat(f)
      <3>1. f = [i \in 1..n |-> f[i]]
        BY Zenon
      <3> HIDE DEF f
      <3> QED BY <1>1, <2>1, <3>1, Zenon
    <2>3. IsFlat(flat)
      <3> HIDE DEF f, IsFlat
      <3> QED BY <2>2, Zenon
    <2>4. \A i \in 1..n : flat[i] = IF i = 1 THEN lists[i] ELSE flat[i - 1] \o lists[i]
      <3> HIDE DEF flat
      <3> QED BY <1>1, <2>3, Zenon
    <2>5. FlattenSeq(lists) = flat[n]
      BY <1>1, <1>4, Zenon DEF FlattenSeq
    <2> HIDE DEF flat, IsFlat
    <2> DEFINE G == {i \in 1..n : flat[i] = cut[i]}
    <2>6. 1 \in G
      <3>1. 1 \in 1..n
        BY <1>4
      <3>2. f[1] = lists[1] /\ flat[1] = lists[1]
        <4> HIDE DEF f
        <4> QED BY <2>1, <2>4, <3>1
      <3>3. cut[1] = lists[1]
        BY <3>1, <3>2
      <3> QED BY <3>1, <3>2, <3>3
    <2>7. ASSUME NEW i \in 1..(n - 1), i \in G
          PROVE  i + 1 \in G
      <3>1. i + 1 \in 1..n /\ i + 1 # 1 /\ (i + 1) - 1 = i
        OBVIOUS
      <3>2. flat[i + 1] = flat[(i + 1) - 1] \o lists[i + 1] /\ cut[i + 1] = cut[(i + 1) - 1] \o lists[i + 1]
        BY <1>2, <2>4, <3>1
      <3> QED BY <2>7, <3>1, <3>2
    <2>8. 1..n \subseteq G
      <3> HIDE DEF G
      <3> QED BY <2>6, <2>7, IntervalInduction
    <2> QED BY <1>4, <2>5, <2>8
  <1> QED BY <1>3, <1>4

\* What is put together goes on as it begins.
LEMMA CutsAreBeginnings ==
  ASSUME NEW T, NEW n \in Nat, NEW lists \in [1..n -> Seq(T)], NEW cut \in [0..n -> Seq(T)],
         Concatenated(cut, lists, n), NEW i \in 0..n
  PROVE  BeginsWith(cut[n], cut[i])
PROOF
  <1> DEFINE G == {j \in i..n : BeginsWith(cut[j], cut[i])}
  <1>1. \A j \in 0..n : cut[j] \in Seq(T) /\ Len(cut[j]) \in Nat
    OBVIOUS
  <1>2. i \in G
    <2>1. i \in i..n
      OBVIOUS
    <2> QED BY <1>1, <2>1 DEF BeginsWith
  <1>3. ASSUME NEW j \in i..(n - 1), j \in G
        PROVE  j + 1 \in G
    <2>1. j + 1 \in 1..n /\ (j + 1) - 1 = j /\ j + 1 \in i..n /\ j \in 0..n
      OBVIOUS
    <2>2. cut[j + 1] = cut[j] \o lists[j + 1]
      <3>1. cut[j + 1] = cut[(j + 1) - 1] \o lists[j + 1]
        BY <2>1 DEF Concatenated
      <3> QED BY <2>1, <3>1
    <2>3. BeginsWith(cut[j + 1], cut[j])
      <3>1. cut[j] \in Seq(T) /\ lists[j + 1] \in Seq(T)
        BY <1>1, <2>1
      <3> QED BY <2>2, <3>1, SeqsInARow
    <2>4. BeginsWith(cut[j], cut[i])
      BY <1>3
    <2>5. BeginsWith(cut[j + 1], cut[i])
      BY <2>3, <2>4 DEF BeginsWith
    <2> QED BY <2>1, <2>5
  <1>4. n \in i..n /\ i \in Nat
    OBVIOUS
  <1>5. i..n \subseteq G
    <2> HIDE DEF G
    <2> QED BY <1>2, <1>3, <1>4, IntervalInduction
  <1> QED BY <1>1, <1>4, <1>5

\* Each element of a list is there, ...
LEMMA ElementsArePutTogether ==
  ASSUME NEW T, NEW n \in Nat, NEW lists \in [1..n -> Seq(T)], NEW cut \in [0..n -> Seq(T)],
         Concatenated(cut, lists, n), NEW i \in 1..n, NEW x \in Range(lists[i])
  PROVE  x \in Range(cut[n]) /\ cut[n] \in Seq(T)
PROOF
  <1>1. i \in 0..n /\ i - 1 \in 0..n
    OBVIOUS
  <1>2. cut[i - 1] \in Seq(T) /\ lists[i] \in Seq(T) /\ cut[i] = cut[i - 1] \o lists[i]
    BY <1>1 DEF Concatenated
  <1>3. PICK q \in 1..Len(lists[i]) : lists[i][q] = x
    BY <1>2 DEF Range
  <1> DEFINE p == Len(cut[i - 1]) + q
  <1>4. p \in 1..Len(cut[i]) /\ cut[i][p] = x
    <2>1. Len(cut[i]) = Len(cut[i - 1]) + Len(lists[i]) /\ Len(cut[i - 1]) \in Nat /\ Len(lists[i]) \in Nat
      BY <1>2, SeqsInARow
    <2>2. cut[i][p] = lists[i][q]
      BY <1>2, SeqsInARow
    <2> QED BY <1>3, <2>1, <2>2
  <1>5. Len(cut[i]) \in Nat /\ Len(cut[i]) <= Len(cut[n]) /\ \A r \in 1..Len(cut[i]) : cut[n][r] = cut[i][r]
    BY <1>1, CutsAreBeginnings DEF BeginsWith
  <1>6. Len(cut[n]) \in Nat
    OBVIOUS
  <1> HIDE DEF p
  <1>7. p \in 1..Len(cut[n]) /\ cut[n][p] = x
    BY <1>4, <1>5, <1>6
  <1>8. cut[n] \in Seq(T)
    OBVIOUS
  <1> QED BY <1>7, <1>8, InRange

\* ... and each one that is there is of the list that is at its place.
BeginsBefore(cut, n, i, p) == Len(cut[i - 1]) <= p - 1 /\ (i = n \/ Len(cut[i]) > p - 1)
LEMMA PlaceIsOfList ==
  ASSUME NEW T, NEW n \in Nat, n # 0, NEW lists \in [1..n -> Seq(T)], NEW cut \in [0..n -> Seq(T)],
         Concatenated(cut, lists, n), NEW p \in 1..Len(cut[n])
  PROVE  /\ \E i \in 1..n : BeginsBefore(cut, n, i, p)
         /\ \A i \in 1..n : BeginsBefore(cut, n, i, p) => cut[n][p] \in Range(lists[i])
PROOF
  <1>1. \A i \in 0..n : cut[i] \in Seq(T) /\ Len(cut[i]) \in Nat
    OBVIOUS
  <1>2. \E i \in 1..n : BeginsBefore(cut, n, i, p)
    <2> DEFINE S == {i \in 1..n : Len(cut[i - 1]) <= p - 1}
    <2>1. 1 \in S
      <3>1. Len(cut[0]) = 0
        BY DEF Concatenated
      <3> QED BY <3>1, <1>1
    <2>2. S \in SUBSET Nat /\ \A i \in S : i <= n
      OBVIOUS
    <2>3. PICK m \in S : \A i \in S : i <= m
      <3> HIDE DEF S
      <3> QED BY <2>1, <2>2, GreatestExists
    <2>4. m \in 1..n /\ Len(cut[m - 1]) <= p - 1
      OBVIOUS
    <2>5. ASSUME m # n
          PROVE  Len(cut[m]) > p - 1
      <3>1. m + 1 \in 1..n /\ (m + 1) - 1 = m /\ m \in 0..n
        BY <2>4, <2>5
      <3>2. m + 1 \notin S
        <4>1. ~(m + 1 <= m)
          BY <3>1
        <4> HIDE DEF S
        <4> QED BY <2>3, <4>1
      <3>3. ~(Len(cut[m]) <= p - 1)
        BY <3>1, <3>2
      <3> QED BY <1>1, <3>1, <3>3
    <2> QED BY <2>4, <2>5 DEF BeginsBefore
  <1>3. ASSUME NEW i \in 1..n, BeginsBefore(cut, n, i, p)
        PROVE  cut[n][p] \in Range(lists[i])
    <2>1. i \in 0..n /\ i - 1 \in 0..n
      OBVIOUS
    <2>2. cut[i - 1] \in Seq(T) /\ lists[i] \in Seq(T) /\ cut[i] = cut[i - 1] \o lists[i]
      BY <2>1 DEF Concatenated
    <2>3. p \in 1..Len(cut[i]) /\ p > Len(cut[i - 1])
      <3>1. Len(cut[i - 1]) \in Nat /\ Len(cut[i]) \in Nat /\ p \in Nat
        BY <1>1, <2>1
      <3>2. p > Len(cut[i - 1])
        BY <1>3, <3>1 DEF BeginsBefore
      <3>3. p <= Len(cut[i])
        BY <1>3, <3>1 DEF BeginsBefore
      <3> QED BY <3>1, <3>2, <3>3
    <2>4. cut[n][p] = cut[i][p]
      <3>1. BeginsWith(cut[n], cut[i])
        BY <2>1, CutsAreBeginnings
      <3> QED BY <2>3, <3>1 DEF BeginsWith
    <2>5. p - Len(cut[i - 1]) \in 1..Len(lists[i]) /\ cut[i][p] = lists[i][p - Len(cut[i - 1])]
      BY <2>2, <2>3, SeqsInARow
    <2> QED BY <2>2, <2>4, <2>5 DEF Range
  <1> QED BY <1>2, <1>3

-----------------------------------------------------------------------------
(* The words of a text name the road of a label.                           *)

LEMMA LettersAreTypes ==
  ASSUME NEW letters \in CountyLetters, letters # "K", NEW number \in Nat, UInt16(number) = number
  PROVE  /\ LettersToRoadType(letters, number) = TypeOfRef(letters, number)
         /\ TypeOfRef(letters, number) \in {Europe} \cup Range(Counties)
         /\ TypeOfRef(letters, number) # Unknown
PROOF
  <1>1. UInt16(number) = number
    OBVIOUS
  <1>2. letters # "" /\ letters \in Range(Counties) /\ "E" \in Range(Counties)
    BY CountyNames DEF CountyLetters, LanUnknown
  <1>3. IdentifyEroad(number) \in {Europe, "E"}
    BY DEF IdentifyEroad
  <1>4. Unknown \notin Range(Counties) /\ Unknown # Europe
    BY CountyNames DEF Unknown, Europe, LanUnknown
  <1>5. CASE letters = "E"
    <2>1. LettersToRoadType(letters, number) = IdentifyEroad(number)
      BY <1>5 DEF LettersToRoadType
    <2>2. TypeOfRef(letters, number) = IdentifyEroad(number)
      BY <1>1, <1>5 DEF TypeOfRef
    <2> QED BY <1>2, <1>3, <1>4, <2>1, <2>2
  <1>6. CASE letters # "E"
    <2>1. LettersToRoadType(letters, number) = letters
      BY <1>6 DEF LettersToRoadType
    <2>2. TypeOfRef(letters, number) = letters
      BY <1>2, <1>6 DEF TypeOfRef
    <2> QED BY <1>2, <1>4, <2>1, <2>2
  <1> QED BY <1>5, <1>6

\* Roads with letters have at most four digits that can be stored.
LEMMA StoredIsShort ==
  ASSUME NEW way, NEW type \in {Europe} \cup Range(Counties), NEW number \in Nat, Storable(way, type, number),
         type = Europe => number \in Range(EuropeanRoadNumbers)
  PROVE  number < HighestNumber
PROOF
  <1>1. CASE type = Europe
    <2>1. number \in {4, 6, 10, 12, 14, 16, 18, 20, 22, 45, 47, 55, 65, 265}
      BY <1>1, EuropeanNumbers
    <2> QED BY <2>1, SMT DEF HighestNumber
  <1>2. CASE type # Europe
    <2>1. number < RegionalLen
      BY <1>2 DEF Storable
    <2> QED BY <2>1, SMT DEF RegionalLen, HighestNumber
  <1> QED BY <1>1, <1>2

Word(kind, letters, number) == [kind |-> kind, letters |-> letters, number |-> number]
TextOf(l, words) ==
  \/ l.letters = "" /\ words = <<Word("way", "", 0), Word("number", "", l.number)>>
  \/ l.letters # "" /\ words = <<Word("letters", l.letters, 0), Word("number", "", l.number)>>
  \/ l.letters # "" /\ words = <<Word("label", l.letters, l.number)>>

LEMMA SpellingsAre ==
  ASSUME NEW l, NEW words \in Spellings(l)
  PROVE  TextOf(l, words)
PROOF
  BY DEF Spellings, TextOf, Word

\* What the rules find in words.
Named(words, i, type, number) ==
  \/ /\ i < Len(words) /\ words[i].kind = "letters" /\ words[i + 1].kind = "number"
     /\ UInt16(words[i + 1].number) = number /\ LettersToRoadType(words[i].letters, number) = type
  \/ /\ i < Len(words) /\ words[i].kind = "way" /\ words[i + 1].kind = "number"
     /\ UInt16(words[i + 1].number) = number /\ (IF number < 500 THEN National ELSE LanUnknown) = type
  \/ /\ words[i].kind = "label" /\ UInt16(words[i].number) = number /\ number < HighestNumber
     /\ LettersToRoadType(words[i].letters, number) = type

LEMMA WordsAreFound ==
  ASSUME NEW words, NEW i \in DOMAIN words, NEW type, type # Unknown,
         NEW number, number > 0, Named(words, i, type, number)
  PROVE  <<type, number>> \in IdentifyRoads(words)
PROOF
  <1> DEFINE of(k)     == UInt16(words[k].number)
             before    == {k \in DOMAIN words : k < Len(words) /\ words[k].kind # "number" /\ words[k + 1].kind = "number"}
             lettered  == {k \in before : words[k].kind = "letters"}
             named     == {k \in before : words[k].kind = "way"}
             joined    == {k \in DOMAIN words : words[k].kind = "label" /\ (OneLetter(words[k]) => of(k) < HighestNumber)}
             found     == {<<LettersToRoadType(words[k].letters, of(k + 1)), of(k + 1)>> : k \in lettered}
                          \cup {<<LettersToRoadType(words[k].letters, of(k)), of(k)>> : k \in joined}
                          \cup {<<IF of(k + 1) < 500 THEN National ELSE LanUnknown, of(k + 1)>> : k \in named}
  <1>1. IdentifyRoads(words) = {road \in found : road[1] # Unknown /\ road[2] > 0}
    BY Zenon DEF IdentifyRoads
  <1>2. ASSUME i < Len(words), words[i].kind = "letters", words[i + 1].kind = "number",
               of(i + 1) = number, LettersToRoadType(words[i].letters, number) = type
        PROVE  <<type, number>> \in found
    <2>1. i \in lettered
      BY <1>2
    <2> HIDE DEF lettered, joined, named, of
    <2>2. <<type, number>> = <<LettersToRoadType(words[i].letters, of(i + 1)), of(i + 1)>>
      BY <1>2
    <2> QED BY <2>1, <2>2, Zenon
  <1>3. ASSUME i < Len(words), words[i].kind = "way", words[i + 1].kind = "number",
               of(i + 1) = number, (IF number < 500 THEN National ELSE LanUnknown) = type
        PROVE  <<type, number>> \in found
    <2>1. i \in named
      BY <1>3
    <2> HIDE DEF lettered, joined, named, of
    <2>2. <<type, number>> = <<IF of(i + 1) < 500 THEN National ELSE LanUnknown, of(i + 1)>>
      BY <1>3
    <2> QED BY <2>1, <2>2, Zenon
  <1>4. ASSUME words[i].kind = "label", of(i) = number, number < HighestNumber, LettersToRoadType(words[i].letters, number) = type
        PROVE  <<type, number>> \in found
    <2>1. i \in joined
      <3> HIDE DEF of
      <3> QED BY <1>4
    <2> HIDE DEF lettered, joined, named, of
    <2>2. <<type, number>> = <<LettersToRoadType(words[i].letters, of(i)), of(i)>>
      BY <1>4
    <2> QED BY <2>1, <2>2, Zenon
  <1>5. <<type, number>> \in found
    <2> HIDE DEF found
    <2> QED BY <1>2, <1>3, <1>4 DEF Named
  <1> HIDE DEF found
  <1> QED BY <1>1, <1>5

LEMMA WordsAreRoads ==
  ASSUME NEW l, IsLabel(l), l.letters # "K", UInt16(l.number) = l.number, IsKept(l), NEW words \in Spellings(l)
  PROVE  <<Type(l), l.number>> \in IdentifyRoads(words)
PROOF
  <1> DEFINE number == l.number
  <1>1. number \in Nat /\ number > 0 /\ UInt16(number) = number /\ l.letters \in CountyLetters \cup {""}
        /\ <<Type(l), number>> \in Roads /\ Storable(l.way, Type(l), number) /\ Type(l) = TypeOfRef(l.letters, number)
    <2>1. number \in Nat /\ number > 0 /\ l.letters \in CountyLetters \cup {""} /\ <<Type(l), number>> \in Roads
      BY DEF IsLabel
    <2>2. UInt16(number) = number
      OBVIOUS
    <2>3. Storable(l.way, Type(l), number)
      <3> HIDE DEF number
      <3> QED BY <2>2 DEF IsKept, number
    <2> QED BY <2>1, <2>2, <2>3 DEF Type
  <1>2. TextOf(l, words)
    BY SpellingsAre
  <1>3. CASE l.letters = ""
    <2>1. Type(l) = IF number < 500 THEN National ELSE LanUnknown
      <3>1. Type(l) = IF number >= 500 THEN LanUnknown ELSE National
        BY <1>1, <1>3 DEF TypeOfRef
      <3>2. number >= 500 <=> ~(number < 500)
        <4>1. \A n \in Nat : n >= 500 <=> ~(n < 500)
          OBVIOUS
        <4> HIDE DEF number
        <4> QED BY <1>1, <4>1
      <3> QED BY <3>1, <3>2
    <2>2. Type(l) # Unknown
      BY <2>1 DEF National, LanUnknown, Unknown
    <2> DEFINE first == Word("way", "", 0)
               second == Word("number", "", number)
    <2>3. words = <<first, second>>
      BY <1>2, <1>3 DEF TextOf
    <2>4. first.kind = "way" /\ second.kind = "number" /\ second.number = number
      BY DEF Word
    <2> HIDE DEF number, first, second
    <2>5. 1 \in DOMAIN words /\ 1 < Len(words) /\ words[1] = first /\ words[1 + 1] = second
      BY <2>3
    <2>6. Named(words, 1, Type(l), number)
      BY <1>1, <2>1, <2>4, <2>5 DEF Named
    <2>7. <<Type(l), number>> \in IdentifyRoads(words)
      BY <1>1, <2>2, <2>5, <2>6, WordsAreFound
    <2> QED BY <2>7 DEF number
  <1>4. CASE l.letters # ""
    <2>1. /\ LettersToRoadType(l.letters, number) = Type(l)
          /\ Type(l) \in {Europe} \cup Range(Counties) /\ Type(l) # Unknown
      BY <1>1, <1>4, LettersAreTypes
    <2>2. number < HighestNumber
      <3>1. Type(l) = Europe => number \in Range(EuropeanRoadNumbers)
        <4>1. Type(l) = Europe => UInt16(number) \in Range(EuropeanRoadNumbers)
          BY <1>1 DEF Roads
        <4> QED BY <1>1, <4>1
      <3> HIDE DEF number
      <3> QED BY <1>1, <2>1, <3>1, StoredIsShort
    <2>3. CASE words = <<Word("letters", l.letters, 0), Word("number", "", number)>>
      <3> DEFINE first == Word("letters", l.letters, 0)
                 second == Word("number", "", number)
      <3>1. first.kind = "letters" /\ first.letters = l.letters /\ second.kind = "number" /\ second.number = number
        BY DEF Word
      <3>2. words = <<first, second>>
        BY <2>3
      <3> HIDE DEF number, first, second
      <3>3. 1 \in DOMAIN words /\ 1 < Len(words) /\ words[1] = first /\ words[1 + 1] = second
        BY <3>2
      <3>4. Named(words, 1, Type(l), number)
        BY <1>1, <2>1, <3>1, <3>3 DEF Named
      <3>5. <<Type(l), number>> \in IdentifyRoads(words)
        BY <1>1, <2>1, <3>3, <3>4, WordsAreFound
      <3> QED BY <3>5 DEF number
    <2>4. CASE words = <<Word("label", l.letters, number)>>
      <3> DEFINE first == Word("label", l.letters, number)
      <3>1. first.kind = "label" /\ first.letters = l.letters /\ first.number = number
        BY DEF Word
      <3>2. words = <<first>>
        BY <2>4
      <3> HIDE DEF number, first
      <3>3. 1 \in DOMAIN words /\ words[1] = first
        BY <3>2
      <3>4. Named(words, 1, Type(l), number)
        BY <1>1, <2>1, <2>2, <3>1, <3>3 DEF Named
      <3>5. <<Type(l), number>> \in IdentifyRoads(words)
        BY <1>1, <2>1, <3>3, <3>4, WordsAreFound
      <3> QED BY <3>5 DEF number
    <2> QED BY <1>2, <1>4, <2>3, <2>4 DEF TextOf
  <1> QED BY <1>3, <1>4

-----------------------------------------------------------------------------
(* The nearest way of a road.                                              *)

LEMMA LeastOf ==
  ASSUME NEW S \in SUBSET Nat, S # {}
  PROVE  Min(S) \in S /\ \A n \in S : Min(S) <= n
PROOF
  <1>1. \E m \in S : \A n \in S : m <= n
    BY LeastExists
  <1> QED BY <1>1, Zenon DEF Min

LEMMA Squares ==
  ASSUME NEW x \in Int
  PROVE  x * x \in Nat
PROOF
  <1>1. x * x \in Int /\ x * x >= 0
    OBVIOUS
  <1> QED BY <1>1

LEMMA DistancesAre ==
  ASSUME map \in Maps, NEW way, NEW c \in Places(way), NEW other, NEW p \in Places(other)
  PROVE  SqDistance(p, c) \in Nat /\ SqDistance(c, c) = 0
PROOF
  <1>1. \A w, q : q \in Places(w) => q.x \in Int /\ q.y \in Int
    <2> SUFFICES ASSUME NEW w, NEW q \in Places(w)
                 PROVE  q.x \in Int /\ q.y \in Int
      OBVIOUS
    <2>1. PICK n \in DOMAIN map.coord : q = map.coord[n]
      BY DEF Places
    <2> QED BY <2>1, MapsAssumption
  <1> DEFINE dx == p.x - c.x
             dy == p.y - c.y
  <1>2. dx \in Int /\ dy \in Int
    BY <1>1
  <1>3. SqDistance(p, c) = dx * dx + dy * dy
    BY DEF SqDistance
  <1>4. dx * dx \in Nat /\ dy * dy \in Nat
    <2> HIDE DEF dx, dy
    <2> QED BY <1>2, Squares
  <1>5. SqDistance(p, c) \in Nat
    <2> HIDE DEF dx, dy
    <2> QED BY <1>3, <1>4
  <1>6. SqDistance(c, c) = 0
    <2>1. c.x - c.x = 0 /\ c.y - c.y = 0
      BY <1>1
    <2>2. SqDistance(c, c) = 0 * 0 + 0 * 0
      BY <2>1 DEF SqDistance
    <2> QED BY <2>2
  <1> QED BY <1>5, <1>6

HitAt(hit, ways, best, type, number) ==
  /\ best \in DOMAIN ways /\ hit.distance = 0 /\ hit.way = ways[best]
  /\ hit.type = IF type = LanUnknown THEN CountyOfBest(best, number) ELSE type

IsHere(c, type, number) ==
  \E best : \E hit \in ClosestRoadNodeToCoord(c, type, number) :
    HitAt(hit, WaysOfRoad(type, number), best, type, number)

LEMMA NearestIsHere ==
  ASSUME map \in Maps, NEW type, NEW number, DOMAIN WaysOfRoad(type, number) \in SUBSET Nat,
         NEW i \in DOMAIN WaysOfRoad(type, number), NEW c \in Places(WaysOfRoad(type, number)[i])
  PROVE  IsHere(c, type, number)
PROOF
  <1> DEFINE ways    == WaysOfRoad(type, number)
             placed  == {k \in DOMAIN ways : Places(ways[k]) # {}}
             away(k) == Min({SqDistance(p, c) : p \in Places(ways[k])})
             nearest == {k \in placed : \A j \in placed : away(k) <= away(j)}
             best    == Min(nearest)
             hit     == [way |-> ways[best], distance |-> away(best),
                         type |-> IF type = LanUnknown THEN CountyOfBest(best, number) ELSE type]
  <1>1. ClosestRoadNodeToCoord(c, type, number) = IF placed = {} THEN {} ELSE {hit}
    BY Zenon DEF ClosestRoadNodeToCoord
  <1>2. i \in placed
    OBVIOUS
  <1>3. ASSUME NEW k \in placed
        PROVE  away(k) \in Nat
    <2> DEFINE S == {SqDistance(p, c) : p \in Places(ways[k])}
    <2>1. S \in SUBSET Nat
      BY DistancesAre
    <2>2. S # {}
      OBVIOUS
    <2> HIDE DEF S, ways
    <2>3. Min(S) \in S
      BY <2>1, <2>2, LeastOf
    <2>4. Min(S) \in Nat
      BY <2>1, <2>3
    <2> QED BY <2>4 DEF S
  <1>4. away(i) = 0
    <2> DEFINE S == {SqDistance(p, c) : p \in Places(ways[i])}
    <2>1. S \in SUBSET Nat /\ SqDistance(c, c) = 0 /\ SqDistance(c, c) \in S
      BY DistancesAre
    <2>2. away(i) = Min(S)
      OBVIOUS
    <2> HIDE DEF S, away
    <2>3. S # {} /\ 0 \in S
      BY <2>1
    <2>4. Min(S) \in S /\ Min(S) <= 0
      BY <2>1, <2>3, LeastOf
    <2>5. Min(S) = 0
      <3>1. \A n \in Nat : n <= 0 => n = 0
        OBVIOUS
      <3>2. Min(S) \in Nat
        BY <2>1, <2>4
      <3> QED BY <2>4, <3>1, <3>2
    <2> QED BY <2>2, <2>5
  <1> HIDE DEF away
  <1>5. best \in placed /\ away(best) = 0
    <2>1. nearest \in SUBSET Nat
      OBVIOUS
    <2>2. i \in nearest
      BY <1>2, <1>3, <1>4
    <2> HIDE DEF nearest, placed, ways
    <2>3. best \in nearest
      BY <2>1, <2>2, LeastOf
    <2>4. best \in placed /\ away(best) <= away(i)
      BY <1>2, <2>3 DEF nearest
    <2> HIDE DEF best
    <2> QED BY <1>3, <1>4, <2>4
  <1>6. HitAt(hit, ways, best, type, number)
    <2>1. best \in DOMAIN ways
      BY <1>5
    <2> HIDE DEF best, ways
    <2> QED BY <1>5, <2>1 DEF HitAt
  <1>7. hit \in ClosestRoadNodeToCoord(c, type, number)
    <2> HIDE DEF hit, placed
    <2> QED BY <1>1, <1>2
  <1> HIDE DEF hit, best
  <1> QED BY <1>6, <1>7 DEF ways, IsHere

\* The ways of a road of which the county is not known, county by county.
LEMMA WaysOfAllCounties ==
  ASSUME IsTable(roads), NEW number \in Nat
  PROVE  \E cut \in [0..22 -> Seq(AllWays)] :
           /\ Concatenated(cut, [k \in 1..22 |-> OfCounty(k, number)], 22)
           /\ WaysOfRoad(LanUnknown, number) = cut[22]
           /\ \A i \in 1..22 : Start(i, number) = Len(cut[i - 1])
PROOF
  <1> DEFINE lists == [k \in 1..22 |-> OfCounty(k, number)]
  <1>0. \A m \in 0..22 : m \in Nat /\ m <= 22
    OBVIOUS
  <1>1. \A k : OfCounty(k, number) \in Seq(AllWays)
    <2> SUFFICES ASSUME NEW k
                 PROVE  OfCounty(k, number) \in Seq(AllWays)
      OBVIOUS
    <2>1. Ways(roads, <<Counties[k], number>>) \in Seq(AllWays)
      BY WaysType
    <2>2. <<>> \in Seq(AllWays)
      OBVIOUS
    <2> QED BY <2>1, <2>2 DEF OfCounty
  <1>2. lists \in [1..22 -> Seq(AllWays)]
    BY <1>1
  <1>3. PICK cut \in [0..22 -> Seq(AllWays)] : Concatenated(cut, lists, 22)
    <2>1. 22 \in Nat
      OBVIOUS
    <2> HIDE DEF lists
    <2> QED BY <1>2, <2>1, CutsExist
  <1>4. ASSUME NEW m \in 0..22
        PROVE  FlattenSeq([k \in 1..m |-> OfCounty(k, number)]) = cut[m]
    <2> DEFINE some == [k \in 1..m |-> OfCounty(k, number)]
    <2>0. m \in Nat /\ m <= 22
      BY <1>0
    <2>1. some \in [1..m -> Seq(AllWays)]
      BY <1>1, Zenon
    <2>2. \A i \in 0..m : cut[i] \in Seq(AllWays)
      <3>1. \A i \in 0..m : i \in 0..22
        <4> HIDE DEF lists, some
        <4> QED BY <2>0
      <3> HIDE DEF lists, some
      <3> QED BY <3>1
    <2>3. Concatenated(cut, some, m)
      <3>1. cut[0] = <<>> /\ \A i \in 1..22 : cut[i] = cut[i - 1] \o lists[i]
        BY <1>3 DEF Concatenated
      <3>2. ASSUME NEW i \in 1..m
            PROVE  i \in 1..22 /\ some[i] = lists[i]
        <4>1. i \in 1..22
          <5> HIDE DEF lists, some
          <5> QED BY <2>0
        <4> QED BY <4>1, Zenon
      <3> HIDE DEF lists, some
      <3> QED BY <3>1, <3>2 DEF Concatenated
    <2> HIDE DEF some
    <2>4. FlattenSeq(some) = cut[m]
      BY <2>0, <2>1, <2>2, <2>3, FlatIs
    <2> QED BY <2>4 DEF some
  <1>5. WaysOfRoad(LanUnknown, number) = cut[22]
    <2>1. 22 \in 0..22
      OBVIOUS
    <2>2. WaysOfRoad(LanUnknown, number) = FlattenSeq([k \in 1..22 |-> OfCounty(k, number)])
      BY CountyPlaces, Zenon DEF WaysOfRoad
    <2> QED BY <1>4, <2>1, <2>2
  <1>6. ASSUME NEW i \in 1..22
        PROVE  Start(i, number) = Len(cut[i - 1])
    <2>1. i - 1 \in 0..22
      OBVIOUS
    <2> QED BY <1>4, <2>1 DEF Start
  <1> QED BY <1>3, <1>5, <1>6

\* Of which county the best way of a road is.
LEMMA BestIsOfItsCounty ==
  ASSUME IsTable(roads), NEW number \in CountyNumbers, NEW best \in DOMAIN WaysOfRoad(LanUnknown, number)
  PROVE  WaysOfRoad(LanUnknown, number)[best] \in Range(Ways(roads, KeyOf(CountyOfBest(best, number), number)))
PROOF
  <1> DEFINE lists == [k \in 1..22 |-> OfCounty(k, number)]
             Fits(i) == Start(i, number) <= best - 1 /\ (i = 22 \/ Start(i + 1, number) > best - 1)
             at == CHOOSE i \in 1..22 : Fits(i)
  <1>1. number \in Nat /\ number < RegionalLen
    BY DEF CountyNumbers, RegionalLen
  <1>2. PICK cut \in [0..22 -> Seq(AllWays)] :
          /\ Concatenated(cut, lists, 22)
          /\ WaysOfRoad(LanUnknown, number) = cut[22]
          /\ \A i \in 1..22 : Start(i, number) = Len(cut[i - 1])
    BY <1>1, WaysOfAllCounties
  <1>3. lists \in [1..22 -> Seq(AllWays)] /\ \A i : OfCounty(i, number) = CountyList(roads, i, number)
    <2>1. \A i : OfCounty(i, number) = CountyList(roads, i, number)
      BY <1>1 DEF OfCounty, CountyList
    <2>2. \A i : CountyList(roads, i, number) \in Seq(AllWays)
      BY WaysType DEF CountyList
    <2> QED BY <2>1, <2>2
  <1>4. best \in 1..Len(cut[22])
    <2>1. cut[22] \in Seq(AllWays)
      OBVIOUS
    <2>2. DOMAIN cut[22] = 1..Len(cut[22])
      BY <2>1, SeqDomain
    <2>3. best \in DOMAIN cut[22]
      BY <1>2
    <2> QED BY <2>2, <2>3
  <1>5. \A i \in 1..22 : Fits(i) <=> BeginsBefore(cut, 22, i, best)
    <2> SUFFICES ASSUME NEW i \in 1..22
                 PROVE  Fits(i) <=> BeginsBefore(cut, 22, i, best)
      OBVIOUS
    <2>1. Start(i, number) = Len(cut[i - 1])
      BY <1>2
    <2>2. i # 22 => Start(i + 1, number) = Len(cut[i])
      <3> SUFFICES ASSUME i # 22
                   PROVE  Start(i + 1, number) = Len(cut[i])
        OBVIOUS
      <3>1. i + 1 \in 1..22 /\ (i + 1) - 1 = i
        OBVIOUS
      <3>2. Start(i + 1, number) = Len(cut[(i + 1) - 1])
        BY <1>2, <3>1
      <3> QED BY <3>1, <3>2
    <2> QED BY <2>1, <2>2 DEF BeginsBefore
  <1> HIDE DEF lists, Fits
  <1>6. 22 \in Nat /\ 22 # 0
    OBVIOUS
  <1>7. \E i \in 1..22 : BeginsBefore(cut, 22, i, best)
    BY <1>2, <1>3, <1>4, <1>6, PlaceIsOfList
  <1>8. at \in 1..22 /\ BeginsBefore(cut, 22, at, best)
    <2>1. \E i \in 1..22 : Fits(i)
      BY <1>5, <1>7
    <2>2. at \in 1..22 /\ Fits(at)
      BY <2>1, Zenon
    <2> HIDE DEF at
    <2> QED BY <1>5, <2>2
  <1>9. CountyOfBest(best, number) = Counties[at]
    <2>1. DOMAIN Counties = 1..22 /\ Len(Counties) = 22
      BY DEF Counties
    <2> QED BY <2>1, Zenon DEF CountyOfBest, Fits
  <1> HIDE DEF at
  <1>10. cut[22][best] \in Range(lists[at])
    BY <1>2, <1>3, <1>4, <1>6, <1>8, PlaceIsOfList
  <1>11. lists[at] = CountyList(roads, at, number)
    BY <1>3, <1>8 DEF lists
  <1>12. KeyOf(Counties[at], number) = <<Counties[at], number>>
    <2>1. Counties[at] \in Range(Counties)
      BY <1>8, CountyPlaces
    <2>2. Counties[at] # Europe
      BY <2>1, KindsOfKeys
    <2> QED BY <2>2 DEF KeyOf
  <1> QED BY <1>2, <1>9, <1>10, <1>11, <1>12 DEF CountyList

\* A way that is listed is found.
LEMMA ListedIsThere ==
  ASSUME IsTable(roads), NEW type, NEW number \in Nat, type = LanUnknown => number \in CountyNumbers,
         NEW way, Listed(roads, way, type, number)
  PROVE  /\ DOMAIN WaysOfRoad(type, number) \in SUBSET Nat
         /\ way \in Range(WaysOfRoad(type, number))
PROOF
  <1>1. CASE type # LanUnknown
    <2>1. WaysOfRoad(type, number) = Ways(roads, KeyOf(type, number))
      BY <1>1 DEF WaysOfRoad
    <2>2. Ways(roads, KeyOf(type, number)) \in Seq(AllWays)
      BY WaysType
    <2>3. way \in Range(Ways(roads, KeyOf(type, number)))
      BY <1>1 DEF Listed
    <2>4. DOMAIN Ways(roads, KeyOf(type, number)) \in SUBSET Nat
      BY <2>2, SeqDomain
    <2> QED BY <2>1, <2>3, <2>4
  <1>2. CASE type = LanUnknown
    <2> DEFINE lists == [k \in 1..22 |-> OfCounty(k, number)]
    <2>1. number < RegionalLen
      BY <1>2 DEF CountyNumbers, RegionalLen
    <2>2. PICK cut \in [0..22 -> Seq(AllWays)] :
            Concatenated(cut, lists, 22) /\ WaysOfRoad(LanUnknown, number) = cut[22]
      BY WaysOfAllCounties
    <2>3. \A i : OfCounty(i, number) = CountyList(roads, i, number)
      BY <2>1 DEF OfCounty, CountyList
    <2>4. \A i : CountyList(roads, i, number) \in Seq(AllWays)
      BY WaysType DEF CountyList
    <2>5. lists \in [1..22 -> Seq(AllWays)]
      BY <2>3, <2>4
    <2>6. \E i \in 1..22 : way \in Range(CountyList(roads, i, number))
      <3>1. \A name \in Range(Counties) : way \in Range(Ways(roads, <<name, number>>))
              => \E i \in 1..22 : way \in Range(CountyList(roads, i, number))
        <4> SUFFICES ASSUME NEW name \in Range(Counties), way \in Range(Ways(roads, <<name, number>>))
                     PROVE  \E i \in 1..22 : way \in Range(CountyList(roads, i, number))
          OBVIOUS
        <4>1. PICK i \in 1..22 : Counties[i] = name
          BY CountyPlaces
        <4> QED BY <4>1 DEF CountyList
      <3>2. KeyOf(LanUnknown, number) = <<LanUnknown, number>>
        BY KindsOfKeys DEF KeyOf
      <3>3. \/ way \in Range(Ways(roads, <<LanUnknown, number>>))
            \/ \E county \in CountyLetters : way \in Range(Ways(roads, <<county, number>>))
        BY <1>2, <3>2 DEF Listed
      <3> QED BY <3>1, <3>3, KindsOfKeys
    <2>7. PICK i \in 1..22 : way \in Range(lists[i])
      BY <2>3, <2>6
    <2> HIDE DEF lists
    <2>8. 22 \in Nat
      OBVIOUS
    <2>9. Concatenated(cut, lists, 22)
      BY <2>2
    <2>10. way \in Range(cut[22]) /\ cut[22] \in Seq(AllWays)
      BY <2>5, <2>7, <2>8, <2>9, ElementsArePutTogether
    <2>11. DOMAIN cut[22] \in SUBSET Nat
      BY <2>10, SeqDomain
    <2>12. WaysOfRoad(type, number) = cut[22]
      BY <1>2, <2>2
    <2> QED BY <2>10, <2>11, <2>12
  <1> QED BY <1>1, <1>2

LEMMA LabelFindsItsWays ==
  ASSUME map \in Maps, IsTable(roads), AllListed(roads, RefsRead),
         NEW l \in Kept, l.letters # "K", UInt16(l.number) = l.number,
         NEW c \in Places(l.way), NEW words \in Spellings(l)
  PROVE  \E road \in IdentifyRoads(words) : \E hit \in ClosestRoadNodeToCoord(c, road[1], road[2]) :
           hit.distance = 0 /\ hit.way \in Range(Ways(roads, KeyOf(hit.type, l.number)))
PROOF
  <1> DEFINE type == Type(l)
             number == l.number
             ways == WaysOfRoad(type, number)
  <1>1. l \in KeptIn(RefsRead) /\ RefsRead \in SUBSET map.refs
    BY LabelsAreThese DEF RefsRead
  <1>2. IsLabel(l) /\ IsKept(l)
    BY <1>1, LabelsAreTyped DEF KeptIn
  <1>3. <<type, number>> \in IdentifyRoads(words)
    BY <1>2, WordsAreRoads
  <1>4. number \in Nat /\ Storable(l.way, type, number)
    BY <1>2 DEF IsLabel, IsKept
  <1>5. Listed(roads, l.way, type, number)
    BY <1>1 DEF AllListed
  <1> HIDE DEF type, number
  <1>6. type = LanUnknown => number \in CountyNumbers
    <2> SUFFICES ASSUME type = LanUnknown
                 PROVE  number \in CountyNumbers
      OBVIOUS
    <2>1. number < RegionalLen
      BY <1>4, KindsOfKeys DEF Storable
    <2> QED BY <1>4, <2>1 DEF CountyNumbers, RegionalLen
  <1>7. DOMAIN ways \in SUBSET Nat /\ l.way \in Range(ways)
    BY <1>4, <1>5, <1>6, ListedIsThere
  <1>8. PICK i \in DOMAIN ways : ways[i] = l.way
    BY <1>7 DEF Range
  <1>9. DOMAIN WaysOfRoad(type, number) \in SUBSET Nat /\ i \in DOMAIN WaysOfRoad(type, number)
         /\ c \in Places(WaysOfRoad(type, number)[i])
    BY <1>7, <1>8
  <1>10. IsHere(c, type, number)
    BY <1>9, NearestIsHere
  <1>11. PICK best : \E hit \in ClosestRoadNodeToCoord(c, type, number) : HitAt(hit, ways, best, type, number)
    BY <1>10 DEF IsHere
  <1>12. PICK hit \in ClosestRoadNodeToCoord(c, type, number) : HitAt(hit, ways, best, type, number)
    BY <1>11
  <1>13. hit.way \in Range(Ways(roads, KeyOf(hit.type, number)))
    <2>1. CASE type = LanUnknown
      <3>1. best \in DOMAIN WaysOfRoad(LanUnknown, number)
        BY <1>12, <2>1 DEF HitAt
      <3>2. hit.type = CountyOfBest(best, number) /\ hit.way = WaysOfRoad(LanUnknown, number)[best]
        BY <1>12, <2>1 DEF HitAt
      <3> QED BY <1>6, <2>1, <3>1, <3>2, BestIsOfItsCounty
    <2>2. CASE type # LanUnknown
      <3>1. best \in DOMAIN ways /\ hit.type = type /\ hit.way = ways[best]
        BY <1>12, <2>2 DEF HitAt
      <3>2. ways = Ways(roads, KeyOf(type, number))
        BY <2>2 DEF WaysOfRoad
      <3> HIDE DEF ways
      <3> QED BY <3>1, <3>2 DEF Range
    <2> QED BY <2>1, <2>2
  <1>14. hit.distance = 0
    BY <1>12 DEF HitAt
  <1> DEFINE road == <<type, number>>
  <1>15. road \in IdentifyRoads(words) /\ hit \in ClosestRoadNodeToCoord(c, road[1], road[2])
    BY <1>3, <1>12 DEF type, number
  <1> HIDE DEF road
  <1> QED BY <1>13, <1>14, <1>15 DEF number

\* Whoever stands on a road and writes its label as a text would is told that
\* this road is right here, and of which county: through the rules for refs,
\* the move into counties, the file, the rules for words, and the search over
\* all counties, whatever map it is (sweden.cpp:1373-1525, 609-660, 1618-1783).
THEOREM LabelsAreFound == Spec => []LabelsFindTheirWays
PROOF
  <1>1. ASSUME TypeInv, FileInv, ServedInv, RoadsInv, SavedInv
        PROVE  LabelsFindTheirWays
    <2> DEFINE labels == {l \in Kept : l.letters # "K" /\ UInt16(l.number) = l.number}
    <2>1. ASSUME stage = "serving", NEW l \in labels, NEW c \in Places(l.way), NEW words \in Spellings(l)
          PROVE  \E road \in IdentifyRoads(words) : \E hit \in ClosestRoadNodeToCoord(c, road[1], road[2]) :
                   /\ hit.distance = 0
                   /\ hit.way \in Range(Ways(roads, KeyOf(hit.type, l.number)))
      <3>1. stage \in Tables
        BY <2>1 DEF Tables
      <3>2. map \in Maps /\ IsTable(roads) /\ AllListed(roads, RefsRead)
        BY <1>1, <3>1, TablesAreSound DEF Sound
      <3>3. l \in Kept /\ l.letters # "K" /\ UInt16(l.number) = l.number
        BY <2>1
      <3> QED BY <2>1, <3>2, <3>3, LabelFindsItsWays
    <2>2. FindsTheirWays(labels)
      <3> HIDE DEF labels
      <3> QED BY <2>1 DEF FindsTheirWays
    <2> QED BY <2>2 DEF LabelsFindTheirWays
  <1> QED BY <1>1, TypesInvariant, RoadsInvariant, PTL

=============================================================================
