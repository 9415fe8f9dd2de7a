-------------------------- MODULE ResultGenerator --------------------------
(***************************************************************************)
(* From a map and a text to the places the text may be about.  The names   *)
(* of a map are read (insertNames in osmpbfreader.cpp), then texts are     *)
(* asked for (ResultGenerator::findResults, resultgenerator.cpp): five     *)
(* searches add results, results next to better ones are removed, and the  *)
(* rest is sorted.                                                         *)
(***************************************************************************)
EXTENDS MapAnalysis

CONSTANTS
  Maps,          \* sets of records of an element and tags, pairs of a key and a line
  Texts,         \* the texts that are asked for
  Proximities,   \* duplicateProximity of the callers, 0 to keep all results
  NodeOrders     \* the orders in which ids may lie in a hashed set of node ids

VARIABLES
  map, unread,   \* one of Maps, and what of it has not been read
  name,          \* nodeNames, wayNames and relationNames
  stage,         \* "loading", "idle", the next search, "cleaning", "sorting" or "done"
  proximity, text,
  words, combos, \* of the text
  results,       \* what the searches have found
  kept, unseen,  \* what cleaning has not removed, and not looked at
  answer

mapVars == <<map, unread, name, node, size>>
askVars == <<proximity, text, words, combos>>
vars    == <<mapVars, askVars, stage, results, kept, unseen, answer>>

Init ==
  /\ map \in Maps /\ unread = map /\ name = <<>> /\ TreeInit
  /\ stage = "loading"
  /\ proximity = 0 /\ text = <<>> /\ words = <<>> /\ combos = {}
  /\ results = {} /\ kept = {} /\ unseen = {} /\ answer = <<>>

-----------------------------------------------------------------------------
(* The map.                                                                *)

\* The names of an element that count, each once, and the keys they have.
Usable(tags) ==
  LET Counts(t) == t[1] # "foreign" /\ ByteLength(t[2]) > 1
      used[i \in 0..Len(tags)] ==
        IF i = 0 THEN <<>>
        ELSE IF ~Counts(tags[i]) \/ \E t \in Ids(used[i - 1]) : t[2] = tags[i][2] THEN used[i - 1]
        ELSE Append(used[i - 1], tags[i])
  IN  used[Len(tags)]
NamesIn(tags) == [i \in DOMAIN Usable(tags) |-> Usable(tags)[i][2]]

\* best_name: the one with the key "name", else the first.
BestName(tags) ==
  LET own == {i \in DOMAIN Usable(tags) : Usable(tags)[i][1] = "name"}
  IN  NamesIn(tags)[IF own = {} THEN 1 ELSE Min(own)]

CodesOfTags(tags) == FlattenSeq([i \in DOMAIN NamesIn(tags) |-> CodesOf(NamesIn(tags)[i])])

\* The codes that the text tree reckons with are those of the maps' names.
ASSUME MapsAssumption ==
  \A m \in UNION Maps : /\ m.element \in Elements /\ m.tags \in Seq(STRING \X Seq(Nat))
                        /\ CodesOfTags(m.tags) \in Seq(Seq(UsedCodes))

\* A set's order is one of all ids of nodes.
ASSUME AskingAssumption ==
  /\ Texts \subseteq Seq(Seq(Nat))
  /\ \A order \in NodeOrders :
       /\ order \in Seq(Nat)
       /\ \A e \in Elements : e.type = "Node" => e.id \in Ids(order)
       /\ \A w \in DOMAIN WayNodes : NodesOfWay(w) \subseteq Ids(order)

InsertNames(m) ==
  /\ stage = "loading"
  /\ unread' = unread \ {m}
  /\ Insert(CodesOfTags(m.tags), m.element)
  /\ name' = IF NamesIn(m.tags) = <<>> THEN name
             ELSE [e \in DOMAIN name \cup {m.element} |-> IF e = m.element THEN BestName(m.tags) ELSE name[e]]
  /\ UNCHANGED <<map, askVars, stage, results, kept, unseen, answer>>

\* The program goes on with the tree it has built, or is run again and reads
\* it from the file.
Serve ==
  /\ stage = "loading" /\ unread = {}
  /\ stage' = "idle"
  /\ UNCHANGED <<mapVars, askVars, results, kept, unseen, answer>>

Restart ==
  /\ stage \in {"loading", "idle"} /\ unread = {}
  /\ ReloadTree
  /\ stage' = "idle"
  /\ UNCHANGED <<map, unread, name, askVars, results, kept, unseen, answer>>

-----------------------------------------------------------------------------
(* The searches.                                                           *)

Ask(t, p) ==
  /\ stage \in {"idle", "done"}
  /\ text' = t /\ words' = ReadWords(t) /\ combos' = Combinations(ReadWords(t), 3, 1)
  /\ proximity' = p
  /\ stage' = "roads"
  /\ results' = {} /\ kept' = {} /\ unseen' = {} /\ answer' = <<>>
  /\ UNCHANGED mapVars

Result(by, at, quality, elements, via) ==
  [by |-> by, at |-> at, quality |-> quality, elements |-> elements, via |-> via]

Search(this, next, found) ==
  /\ stage = this /\ stage' = next
  /\ results' = results \cup found
  /\ UNCHANGED <<mapVars, askVars, kept, unseen, answer>>

NodeElement(id) == [type |-> "Node", id |-> id, rwt |-> 0]

FindRoads ==
  LET close == {m \in EvaluateRoads(combos, words) : m.distance < CloseRoad}
  IN  Search("roads", "crossings",
             {Result("road", Position[m.node], m.quality, <<NodeElement(m.node), NodeElement(m.place)>>,
                     <<m.combined>>) : m \in close})

FindCrossings ==
  \E order \in NodeOrders :
  LET all   == IdentifyCrossingRoads(words, order)
      most  == Max({m.size : m \in all})
      there == {m \in all : m.at \in DOMAIN Position}
  IN  Search("crossings", "regions",
             {Result("crossing", Position[m.at], (800 * m.size) \div most, <<NodeElement(m.at)>>, m.names) :
                m \in there})

FindRegions ==
  Search("regions", "places",
         {Result("region", Centre(m.element), (m.quality * 95) \div 100,
                 <<[type |-> "Relation", id |-> m.region.relation, rwt |-> 0], m.element>>, <<m.combined>>) :
            m \in EvaluateRegions(combos, IdentifyRegions(combos))})

\* The places of the most important type that is found.
GlobalPlaces == {e \in IdentifyPlaces(combos) : \A o \in IdentifyPlaces(combos) : e.rwt <= o.rwt}

FindPlaces ==
  Search("places", "unique",
         {Result("place", Centre(m.local), (m.quality * 75) \div 100, <<m.global, m.local>>, <<m.combined>>) :
            m \in EvaluateNearPlaces(combos, GlobalPlaces, name)})

FindUnique ==
  \E order \in NodeOrders :
  LET there == {m \in EvaluateUniqueMatches(combos, order) : HasCentre(m.element)}
  IN  Search("unique", "known",
             {Result("unique", Centre(m.element), (m.quality * 8) \div 10, <<m.element>>, <<m.combined>>) :
                m \in there})

\* The places one of which is chosen: all have one type, and none is chosen if
\* they are small ones.  Which one depends on an order that is open.
BestPlaces == {e \in GlobalPlaces : e.rwt # PlaceSmall}

KnownQuality(rwt) ==
  CASE rwt = PlaceLarge -> 500 [] rwt = PlaceMedium -> 450 [] rwt = PlaceLargeArea -> 300
    [] rwt = PlaceSmall -> 400 [] OTHER -> 250

FindKnown ==
  \E best \in IF BestPlaces = {} THEN {{}} ELSE {{e} : e \in BestPlaces} :
  LET found == {Result("known", Centre(e), KnownQuality(e.rwt), <<e>>, <<>>) : e \in {e \in best : HasCentre(e)}}
  IN  /\ stage = "known"
      /\ results' = results \cup found
      /\ kept' = results'
      /\ IF results' = {} THEN stage' = "done" /\ unseen' = {}
         ELSE IF proximity = 0 THEN stage' = "sorting" /\ unseen' = {}
         ELSE stage' = "cleaning" /\ unseen' = results'
      /\ UNCHANGED <<mapVars, askVars, answer>>

-----------------------------------------------------------------------------
(* Cleaning and sorting.                                                   *)

Near(r, s) == Distance(r.at, s.at) * Distance(r.at, s.at) < proximity * proximity

\* Mutant: a result is removed whatever the other one's quality.
IsDuplicateOfAny(r, others) == \E s \in others : Near(r, s)

\* Mutant: only for a result of higher quality.
IsWorseDuplicate(r, others) == \E s \in others : s.quality > r.quality /\ Near(r, s)

\* A result next to one that is not worse.
IsDuplicate(r, others) == \E s \in others : r.quality <= s.quality /\ Near(r, s)

Examine(r) ==
  /\ stage = "cleaning"
  /\ kept' = IF IsDuplicate(r, kept \ {r}) THEN kept \ {r} ELSE kept
  /\ unseen' = unseen \ {r}
  /\ UNCHANGED <<mapVars, askVars, stage, results, answer>>

Clean ==
  /\ stage = "cleaning" /\ unseen = {}
  /\ stage' = "sorting"
  /\ UNCHANGED <<mapVars, askVars, results, kept, unseen, answer>>

\* Sorting: the next of the answer is any of the best that are left, as the
\* order of results of one quality is open.
Left == kept \ Ids(answer)

Sort(r) ==
  /\ stage = "sorting"
  /\ \A s \in Left : s.quality <= r.quality
  /\ answer' = Append(answer, r)
  /\ stage' = IF Left = {r} THEN "done" ELSE "sorting"
  /\ UNCHANGED <<mapVars, askVars, results, kept, unseen>>

Next ==
  \/ \E m \in unread : InsertNames(m)
  \/ Serve \/ Restart
  \/ \E t \in Texts, p \in Proximities : Ask(t, p)
  \/ FindRoads \/ FindCrossings \/ FindRegions \/ FindPlaces \/ FindUnique \/ FindKnown
  \/ \E r \in unseen : Examine(r)
  \/ Clean
  \/ \E r \in Left : Sort(r)

Spec == Init /\ [][Next]_vars

-----------------------------------------------------------------------------
(* Properties.                                                             *)

\* What the variables hold: in particular, every node of the tree has its
\* parent in the tree, and results are somewhere.
TypeOK ==
  /\ map \in Maps /\ unread \subseteq map /\ DOMAIN name \subseteq Elements
  /\ size \in Nat
  /\ \A p \in DOMAIN node : Ids(node[p]) \subseteq Elements /\ (p # <<>> => Front(p) \in DOMAIN node)
  /\ stage \in {"loading", "idle", "roads", "crossings", "regions", "places", "unique", "known",
                "cleaning", "sorting", "done"}
  /\ proximity \in Proximities \cup {0}
  /\ \A r \in results : r.at \in Nat /\ r.quality \in Int /\ r.elements # <<>>
  /\ unseen \subseteq results /\ kept \subseteq results /\ Ids(answer) \subseteq kept

\* The text tree is a list of elements per code word, as if the codes were
\* the keys of a dictionary: whatever else is inserted, and through a file.
NameCodes == {CodesOfTags(m.tags) : m \in UNION Maps}
Index == INSTANCE TextIndex WITH
           CodeLists <- NameCodes,
           entries   <- [p \in {p \in DOMAIN node : node[p] # <<>>} |-> node[p]],
           count     <- SizeNow
ImplementsTextIndex == Index!Spec

\* What a reader takes for the same: letters with their marks apart, in small.
Reading(line) ==
  LET mark(c) == CASE c \in {228, 246, 196, 214} -> <<Diaeresis>> [] c \in {229, 197} -> <<Ring>> [] OTHER -> <<>>
      base(c) == CASE c \in {228, 229, 196, 197} -> 97 [] c \in {246, 214} -> 111
                   [] c \in 65..90 -> c + 32 [] OTHER -> c
  IN  FlattenSeq([i \in DOMAIN line |-> <<base(line[i])>> \o mark(line[i])])
Swedish(line) == Range(line) \subseteq 0..127 \cup {228, 229, 246, 196, 197, 214, Diaeresis, Ring}

\* A name of up to three words that stands in a text, stop words and what is
\* never looked up left aside, is among the text's word combinations, and its
\* element is found by it, in whatever case the two are written, and whether
\* their letters are one character or a letter and a mark (insert against
\* read_words, generate_word_combinations and retrieve).
WordsToRead(t) ==
  LET lines == SelectSeq(t, LAMBDA line : ~IsComment(line))
  IN  SelectSeq(FlattenSeq([i \in DOMAIN lines |-> Split(Reading(lines[i]))]),
                LAMBDA w : /\ \A i \in DOMAIN StopWords : Reading(StopWords[i]) # w
                           /\ ~IsSkipped(w) /\ ~(Len(w) = 1 /\ w[1] \in Punctuation))
NamesAreFound ==
  stage = "roads" /\ (\A i \in DOMAIN text : Swedish(text[i])) =>
    \A m \in map : \A i \in {i \in DOMAIN NamesIn(m.tags) : Swedish(NamesIn(m.tags)[i])} :
      LET called == Split(Reading(NamesIn(m.tags)[i]))
          phrase == Joined(Tokens(NamesIn(m.tags)[i]))
          looked == Len(called) \in 1..3 /\ ~(Len(called) = 1 /\ phrase \in Blacklisted)
      IN  looked /\ Occurs(called, WordsToRead(text))
            => phrase \in combos /\ m.element \in Ids(Retrieve(phrase))

\* Whether a phrase of a name of an element reads like another phrase.
IsCalled(e, phrase) ==
  \E m \in map : /\ m.element = e
                 /\ \E i \in DOMAIN NamesIn(m.tags) :
                      \E j \in DOMAIN Phrases(Tokens(NamesIn(m.tags)[i])) :
                        CodeWord(Phrases(Tokens(NamesIn(m.tags)[i]))[j]) = CodeWord(phrase)

\* The element of a result has a name that reads like the combination it was
\* found by.
ResultsAreNamed ==
  stage = "known" =>
  \A r \in {r \in results : r.by \in {"region", "place", "unique"}} : IsCalled(Last(r.elements), r.via[1])

\* A crossing is a node of two differently named elements of the map, and is
\* reported once.
CrossingsAreOfNamedRoads ==
  LET crossings == {r \in results : r.by = "crossing"}
      On(r, phrase) == \E m \in map : /\ IsCalled(m.element, phrase)
                                      /\ \/ m.element.type = "Node" /\ m.element.id = r.elements[1].id
                                         \/ m.element.type = "Way" /\ r.elements[1].id \in NodesOfWay(m.element.id)
  IN  stage = "known" =>
        \A r \in crossings : /\ r.via[1] # r.via[2] /\ On(r, r.via[1]) /\ On(r, r.via[2])
                             /\ \A s \in crossings : s.elements = r.elements => s = r

\* No two results of an answer are closer than the caller's proximity, in
\* whatever order the set of results is gone through.
NoTwoClose ==
  stage = "done" /\ proximity > 0 =>
    \A i, j \in DOMAIN answer : i # j => ~Near(answer[i], answer[j])

\* Cleaning never costs the best result: the answer begins with one that is
\* as good as any that was found.
BestIsFirst ==
  stage = "done" /\ results # {} =>
    answer # <<>> /\ \A r \in results : r.quality <= answer[1].quality

\* The quality of a result is between 0 and 1 (the match structures of
\* tokenprocessor.h).
QualityInRange == \A r \in results : r.quality \in 0..1000
=============================================================================
