# A TLA+ model of pbflookup

pbflookup reads OpenStreetMap data (`.osm.pbf` files), builds search structures
from them, saves these in temporary files so that later starts are faster, and
answers localisation queries over HTTP.  The modules here model the parts of it
where threads, files, clients and signals meet, TLC checks them on small
instances, and TLAPS proves the most important results for all instances.

## 1. Inventory

Line numbers refer to the files of the repository.

| Component | State | Operations | Interaction | What makes it correct |
|---|---|---|---|---|
| `OsmPbfReader` (osmpbfreader.cpp) | id offset, queue of ways, done flag, queue counter; the id trees, text tree, `Sweden` it fills | `parse()` once per file, `insertNames`, `consumerWaySimplification`, `simplifyWay`, `applyRamerDouglasPeucker` | producer and consumer thread share a lock-free queue, two atomics and `node2Coord` | every way stored once, before `parse()` returns; counters exact; ids of files kept apart; no unsynchronised access |
| `GlobalObjectManager` (globalobjects.cpp) | eight structures, eight files | constructor: load or parse and save; eight load and eight save functions, one thread each | threads, file system, successive runs | what is served is complete, of one map, and is what the next run loads |
| `HTTPServer` (httpserver.cpp) | 16 slave connections, `readfds`, `doexitserver` | `run()`, `extractHTTPrequest`, answers | clients, signals, `ResultGenerator` | each client answered once, no leak, a signal ends it |
| `IdTree` (idtree.h, idtree_impl.h) | nodes, zero path, cache, size | insert, retrieve, remove, size, counters, write, read | used by everything; written and read by different runs | is a map; cache and zero path agree with the tree |
| `SwedishTextTree` | tree of letter codes with lists of elements | insert, retrieve, size, write, read | filled by `insertNames`, asked by all searches | retrieves what was inserted for a word, is read as it was written |
| `Tokenizer` | stop words | `read_words`, `generate_word_combinations`, `add_grammar_cases` | input of a query, and of `SwedishTextTree::insert` | a name that stands in a text is among the combinations |
| `TokenProcessor`, `MapAnalysis`, `ResultGenerator` | none across queries | `evaluate...`, `identifyCrossingRoads`, `findResults` | text tree, id trees, `Sweden`; called by the HTTP server and the test sets | results belong to what the text names; no two close together; the best one first |
| `Sweden` | codes and register of regions, outlines of regions, road numbers and their ways | `insertWayAsRoad`, `insertSCBarea`, `insertAdministrativeRegion`, `fixUnlabeledRegionalRoads`, `nodeInsideRelationRegion`, `closestRoadNodeToCoord`, `retrieveAdministrativeRegion`, write, read | filled by the reader; loaded after all others; asked by searches and for result pages | who writes a road's label finds its ways; each way is in its county; a point is inside exactly if the outline surrounds it; read as written |
| helper, types | none | geometry, `getCenterOfOSMElement`, UTF-8 case | called by all | terminates, agrees with the definition |
| `Error`, `Timer`, configuration | log file, options | messages, `Error::err` ends the process | called by all threads | - |
| `main`, `PidFile` | - | start-up order, check for missing structures | - | does not serve with a structure missing |
| SvgWriter, Testset | - | offline tools | - | pure output |

What is hard in this program: two threads that share a queue, a flag and a
counter that are not updated together; a tree without a lock that two threads
use; threads and partial files over a sequence of runs of which some are killed;
a single-threaded server with clients that send in pieces, are silent or leave;
signals between any two steps; names that
are entered by one rule and looked up by another; results removed from a hash
set while it is gone through, ways moved between lists that are gone through;
outlines that come in pieces, in any order and direction; values that another call left behind (`errno`,
the buffer of a slot, the cache of a tree); counters and offsets at their
limits.  `PROJECT.json` lists these hazards one by one with their lines and the
properties that cover them.

## 2. Modules

| Module | Models | Variables and actions |
|---|---|---|
| `OsmPbfReader` | osmpbfreader.cpp | `pc`, `file`, `pos` are where `parse()` is; `consumer`, `draining`, `inHand` where the thread is; one action per step between two accesses to shared state: `PushWay`, `CountPush`, `Throttle`, `NameWay` on one side, `TestDone`, `Pop`, `CountPop`, `Simplify` on the other, `SetDone` and `Join` at the end of a file |
| `Ingest` | what `parse()` promises about ways | take, store in order, return only when all is stored |
| `GlobalObjects` | globalobjects.cpp, start of main.cpp | `thread[p]`, `mem[p]`, `disk[p]` for each structure `p`, `kind[g]` for each map `g`; `Boot`, `TestSentinel`, then `Parse` (or `ParseFails`) and `Saver...` or `Loader` and `LoadSweden`, `Check`; around it `Crash`, `Exit`, `Remove`, `UpdateMap` |
| `HttpServer` | `run()`, `sigtermfn`, `extractHTTPrequest` of httpserver.cpp | `slots` and `pos` are `slaveConnections`, `ready` what is left of `readfds`; `Select`, `Interrupted`, `Accept`, `BufferFull`, `RecvEnd`, `RecvData`, `CloseSlots`; clients and signals are `Connect`, `Send`, `Leave`, `Signal` |
| `HttpPages` | `HttpServer`, with what it answers to a request: form, file, list of results in one of three formats | `limit` are the static variables `maxCountResults`, `page` what each client was sent; `ServeGet`, `ServePost` go with the step of `HttpServer` that answers |
| `IdTree` | idtree.h, idtree_impl.h | `tree` maps the paths of nodes to nodes; `Insert`, `Retrieve`, `IncreaseCounter`, `AskSize`, `Remove`, `Reload` |
| `IdMap` | what an `IdTree` promises | `Put`, `Raise`, `Get` on a map |
| `Utf8` | `utf8tolower` and what it calls in helper.cpp | none; `Lowered` |
| `Tokenizer` | tokenizer.cpp | none; operators: `Tokens`, `ReadWords`, `IsStopword`, `Combinations` |
| `SwedishTextTree` | swedishtexttree.cpp | `node` maps the paths of codes to lists of elements, `size` is `_size`; `Insert`, `Retrieve`, `ReloadTree` |
| `TextIndex` | what the text tree promises | `Enter` on a map from code words to lists |
| `TokenProcessor` | tokenprocessor.cpp, `getCenterOfOSMElement`, `Sweden::identify...` | none; one operator per `evaluate...` and `identify...` |
| `MapAnalysis` | mapanalysis.cpp | none; `IdentifyCrossingRoads` |
| `ResultGenerator` | `findResults`, and `insertNames` of osmpbfreader.cpp; puts the five above together | `unread` is what of the map has not been read, `stage` where `findResults` is; `InsertNames`, `Restart`, `Ask`, one action per search (`FindRoads`, `FindCrossings`, `FindRegions`, `FindPlaces`, `FindUnique`, `FindKnown`), `Examine` for one round of the cleaning loop, `Sort` for the next place of the sorted answer, any of the best results that are left |
| `RegionPolygons` | polygons of regions in sweden.cpp | none; `AddWayToPolygon`, `JoinAll`, `BuildPolygon`, `InsideRegion`, and what a region is by its edges alone |
| `AdministrativeRegion` | the class of that name in sweden.cpp | none; `SortRegions`, `Retrieve` |
| `Sweden` | sweden.cpp; puts the two above together | `roads`, `codes`, `regions` are the tables, `file` is `.sweden`; `ReadRef`, `ReadCode`, `ReadRegion`; `FixWay` and `FixNext`, one round of `fixUnlabeledRegionalRoads` each; `Write`, `Read`; `AskMunicipality`, `AskRegion`; `Stop`, `StartAgain` |
| `MC...` | | the instances that TLC checks |
| `...Proofs` | | theorems and their proofs; `ResultGenerator` has two of these, of the text tree, cleaning and sorting (`ResultGeneratorProofs`) and of the searches (`SearchProofs`) |
| `NatSetTheorems` | | lemmas about numbers and recursive functions that the proofs share |

What the models leave out of the code they cover:

- `OsmPbfReader`: decoding of protobuf and zlib data; a file is a sequence of
  elements that are nodes, ways or relations.  Whether a node is in the 2 m
  corridor of Ramer-Douglas-Peucker is an input (`bends`).  What name tags
  amount to is one of three values.  Ways of more than 8192 nodes, on which
  the program ends, and `roadsWithoutRef`, a local variable that is never read,
  are left out.  `Sweden` and the name trees are sets of the elements passed to
  them.  The two places where the consumer pops (188 and 197) are one action,
  with `draining` to tell them apart.
- `GlobalObjects`: the content of a file is the generation of the map it was
  made from and how much of it there is: nothing, less than the 16 bytes for
  which it counts as empty, a part, all.  A map is of a kind: whether structures
  can be built from it, and which structures are refused when they are read,
  although the file is whole.  Not built: a `.osm.pbf` file that is missing or
  damaged (326, 333), or a county of which only a part is in the map when the counties of
  roads without letters are looked for (340, see `PartialRegionsAreIgnored`).  Refused: `.sweden`
  without national roads (sweden.cpp:757-760, `CannotRead` in `Sweden`), and a tree
  of ways or relations that holds none (idtree.h:48-50, `Refused` in `IdTree`);
  the text tree reads all that it writes.  Such a map is built, saved and served,
  and the next start fails.  A whole file that is not refused is read.  A run
  without any `.osm.pbf` file configured is left out.  Reading the map and writing
  fail for other reasons at most as often as `Budget` says, removals happen
  only between runs.
- `HttpServer`: a request is a record of the positions at which the server's
  judgement changes, so all segmentations can be enumerated without its text.
  An answer is `page`, `400` or `500`; what a `page` is, is said by `HttpPages`:
  a form, a file, `403`, `404`, or a list, of which only the number of its
  entries and a comma too many are kept.  How many results a text has is a constant
  (`Found`); which they are is the matter of `ResultGenerator`.
  Writing an answer does not block.  `recv()` does not fail with EAGAIN on a
  socket just reported readable.  `errno` is one bit: zero or not.
- `IdTree`: nodes are named by their paths, so two pointers to one node are one
  path, and `zeroPath` is a sequence of paths.  A node has children exactly if
  its array of children is allocated, as no child is ever taken out.  `counter()`
  changes nothing and is not an action.  `Reload` is `write()`, the end of the
  process, and the constructor from a stream in the next run.
- `Utf8`, `Tokenizer`: texts are well-formed UTF-8, as map data and forms are, and
  a character is its Unicode number: the code goes through bytes, but each of
  its steps deals with whole characters.  Where lengths count they are
  those of the bytes (`ByteLength`).  Letters that `extendedLatinToAscii`
  makes capitals are lowered in the same or the next step, and small here.
- `SwedishTextTree`: a node is written with a flag for each code; those for codes
  that no name of the instance has (all but `UsedCodes`) are left out.  `size()` has no caller but
  the destructor's log message, so it is no action; `ImplementsTextIndex` compares
  what it would return.
- `TokenProcessor`, `MapAnalysis`, `ResultGenerator`: places lie on a line and a
  unit is 100 m, so all three distance functions of `Coord` are `Distance`.
  Logarithms are a table.  Which positions lie in a region (`InsideRegion`), and
  which words are the label of a road (`IdentifyRoads`), are constants here and
  modelled in `Sweden`.  Hash sets
  have no order in C++ that could be relied on: the cleaning loop takes its
  results in any order, ids of nodes come in one of `NodeOrders`, word
  combinations in one fixed order, that decides ties only.  Results are a set;
  identical ones, which only a query without cleaning would return twice, are
  one.  The map is read in any order, as files may be listed in any order.
- `RegionPolygons`, `Sweden`: a ref is a sequence of labels (letters and number), not
  characters; a way's `ref` and `nat_ref` are one.  Splitting a road number
  into two indices of 64 is left out.  `normalizeAdministrativeRegionName` is a
  constant, `Normal`.  The polygons of a region are a function of the map:
  they are built when a region is first asked for, which is after the map was
  read.  All ways of an outline that are known are added in the first round over
  its members, the other rounds only look for the unknown ones again, and are
  left out.  `int` has `IntWidth` bits; `InsideIsRight` speaks of regions none of
  whose edges is so long that a product overflows (`EdgesFit`), and of points
  that are not on an edge after rounding.  Inner outlines are joined like outer ones,
  so an enclave counts as inside: the code does not look at the role, and
  neither does the reference definition `Surrounded`, but the instances
  have no enclave.  They have no outline of which three ends meet in one point
  either, that the code may join in the wrong way, and no way of an outline without any known node, on
  which the code reads the first point of an empty polygon.
  SCB codes are those of counties that have letters, or longer
  ones (`CodesAssumption`); NUTS codes are stored, written and read, nothing asks for them.
  A truncated file is the matter of `GlobalObjects`.

## 3. Runs

Passing runs, each with the properties listed in `PROJECT.json`:

- **OsmPbfReader** (539 states).  Two files that use the same ids; ways that
  share nodes, a closed way, a way with one node, blacklisted relations.  The
  counter of a node has 4 values instead of 65536 (idtree_impl.h:116), so that the
  counter of node 5 wraps to zero and a later way drops the node.
  `QueueLimit = 1`, so that `parse()` sleeps in some behaviours, and a counter of
  16 values, more than ways are ever queued.  Shown: no way is lost, stored twice
  or out of order (`NothingLost`, and the refinement `ImplementsIngest`); when
  `parse()` has returned all ways are stored from their first to their last node
  (`ReturnedMeansStored`); counters are exact as far as their width goes (`CountersAreUses`); the counter of
  the queue, though it wraps below zero between a push and its count, is right
  when it is looked at (`ThrottleSeesTrueSize`); the threads are never at
  `node2Coord` together in a way that matters (`NoConcurrentNodeAccess`), which
  rests on files being sorted; files do not collide (`FilesNeverCollide`); a way
  keeps the junctions with ways stored before it, unless the counter of a junction
  wraps (`LaterWaysKeepJunctions`); all
  files are read (`EveryFileIsParsed`).
- **GlobalObjects** (387 000 states).  Three structures: the text tree that is
  the sentinel, an id tree, `Sweden`.  The six id trees of the program have the
  same code, and with the text tree there are two threads that overtake each
  other.  Maps of four kinds: without fault, one that cannot be built from, one of
  which the id tree is refused, one of which `Sweden` is.  One crash,
  one failure to read the map or to write, two removals of any set of files, one update of the map
  (to one of any kind), any number of runs.  Shown: an undisturbed run that found whole files, or no
  sentinel, serves structures of one map that are saved in full (`ServedIsWhole`),
  and if it fails, it is for its map alone: nothing can be built from it, or a whole
  file of it is refused (`FailsOnlyByTheMap`); `Sweden` is loaded after the others
  (`SwedenLoadsLast`); without a usable sentinel the program rebuilds and serves
  unless nothing can be built (`RebuildsWithoutSentinel`).
- **HttpServer** (333 000 states, on `HttpPages`).  Three clients, two slots, so that one client
  may be turned away or wait; a GET, a POST with a content length, a POST that
  does not fit into the buffer; segments, clients that leave, a signal.  Shown:
  no leak (`OpenConnectionsAreWatched`), one answer each (`AnsweredExactlyOnce`),
  buffers are not mixed up (`BufferIsWhatWasReceived`), `readfds` is not stale
  (`ReadinessIsFresh`), a signal ends the server (`SignalEndsServer`), a whole GET
  is answered (`WholeGetIsAnswered`).  The bit `errno` may be set at the start, or
  by the GET, that is for a file that is not there.
- **IdTree** (217 000 states).  Trees of three levels with two children, a zero
  path of two nodes, a cache of two lines, three ids of which two follow the zero
  path and two share a line, and the id 0; at most two removals.  Shown: the
  leaves and lookups are a map (`ImplementsIdMap`), in the face of the cache
  (`CacheIsFresh`), the zero path (`ZeroPathIsInTree`) and reloads through the
  stream of the file, that is written and parsed (`WrittenIsReadable`).
- **ResultGenerator** (31 000 states).  Four maps of three or four named elements
  (places of three sizes, houses, ways that cross, a county, names that collide
  in their codes, one name of four words, names in two languages) are read in
  any order and reloaded from the file or not; then six texts are asked for in
  any order, with cleaning (1000 m, as the HTTP server asks for) and without (as
  the test sets do).  Every search finds something in some behaviour.  Most words have
  two or three letters, as the rules look at two letters at the end of a word,
  and texts have up to five words.  Shown: the tree is a dictionary from code
  words to lists, whatever is entered when, and through the file
  (`ImplementsTextIndex`); a name of up to three words that stands in the text is
  looked up and its element found (`NamesAreFound`), also if one of them is in
  capitals, or has the dots of an "ä" as a character of their own; the element of a result is
  called what the text says, or reads like it in codes (`ResultsAreNamed`); a
  crossing is a node of two differently named ways and comes once
  (`CrossingsAreOfNamedRoads`); after cleaning no two results are close
  (`NoTwoClose`), and one as good as the best that was found comes first
  (`BestIsFirst`).  A name of more than five words is entered only under phrases
  of more than three, so no text finds it, and some words are never looked up
  alone (`Blacklisted`): both are left out of `NamesAreFound`.
- **Sweden** (107 000 states).  A county of four ways in all orders
  and all directions, two triangles apart and touching in a point in many
  orders, so that polygons are extended at both ends, joined two by two and
  closed; a country with two counties, roads of each kind, labels that are
  unreadable or belong to a link, a way two labels of which are the same road (one
  of them only as 16 bits read it),
  ways in no county, of unknown nodes, blacklisted; municipalities that are not in
  the map; registers with names that are equal after normalisation, at
  levels in any order, and two of them at one level below a third.  Everything is read in any order, written, and read again.
  Shown: who writes the label of a road, and stands on it, is told that road and its
  county (`LabelsFindTheirWays`), through the rules for refs, the sorting into
  counties, the file, the rules for words and the search over all counties; each
  way is listed once per label, in the county that its middle lies in
  (`RoadsAreWhereTheyLie`); what is read is what was in memory
  (`ReadAsWritten`); of several regions of a name the one of highest level is
  found, wherever the halving ends, or one that shares its level with another
  (`HighestUnlessTwins`); a point is inside
  a region exactly if its edges surround it (`InsideIsRight`, for 120 points).
  Letters of `K` refs are left out of `LabelsFindTheirWays`, see below.

Runs that find a disagreement between the code and what the repository says:

- **JunctionsSurvive**: "remove only unused/irrelevant nodes"
  (osmpbfreader.cpp:139).  A way that comes earlier in the file loses a node that
  a later way shares with it, since uses are counted only as ways are stored.
- **SafeToRemove**: "It is safe to remove those files between runs"
  (README.md:242).  If `.tt` stays and another file goes, no start succeeds.
- **WholePostIsAnswered**: the POST requests of README.md:268-272.  `errno` is
  tested after `strtol` but never reset (httpserver.cpp:158-159): after any failed
  call a content length is ignored, and the request waits for ever.
- **QualityInRange**: "Quality is set to 1.0 if the admin region's name does not
  occur in a's name" (tokenprocessor.cpp:528), "ranging from 1.0 to 0.0"
  (tokenprocessor.h:114-117).  The quality is set by the comparison that
  `std::sort` calls, and for a single match there is none: the result has quality
  -0.95, or -0.75 next to a place.
- **PartialRegionsAreIgnored**: a relation all of whose ways are known "is
  contained completely in the geographic database and as such may be considered
  in the following analysis" (sweden.cpp:493-497).  One that is not gets no
  polygons, and asking for them (525) throws an exception that ends the program:
  while the map is read, or when a result lies near such a municipality.

- **SameInformation**: "The returned data contains the same information for both
  JSON and XML" (README.md:296).  The number of results to list is a static
  variable in each of the two writers (httpserver.cpp:541, 614), set by the first search
  in that format: with n results, all later lists end after n - 1 of them; with
  none, an unsigned counter wraps and they have no end.  It takes three searches,
  of two texts in two formats, to see it.

Met while modelling, described by the models and without a run of their own:

- An offset is added "to node/way/relation ids" (osmpbfreader.h:80-82), but not to
  the ids of a relation's members (osmpbfreader.cpp:892; `StoredMembers`).
- JSON has a comma behind its last result unless that is the last one the static
  limit allows (httpserver.cpp:584; `EndsWithComma`), and a search with one
  result, if it is the first, shows none (`Shown`).
- A full buffer is to lose the "partial words at the end" (httpserver.cpp:873-884), but
  the search for their start begins at the zero behind the text, and ends there.
- A segment that ends in the file name, or in the header behind the content
  length, is answered 400, although "more may come" (httpserver.cpp:147-149, 178, 866).
- `IdTree::remove()` looks for the leaf below its grandparent
  (idtree_impl.h:439-440) and takes nothing out; size() is documented to count elements "not yet removed"
  (idtree.h:510-514).
- A ref with the letter K is stored as a road of county M (sweden.cpp:1386-1391), and not
  found under the label K.
- "Rewrite extended Latin characters into their plain ASCII counterparts"
  (helper.cpp:578): "ü" and "ù" become "i", "ĩ" becomes "h", and a composed "é" becomes
  "e" where one of two characters stays "é".  A name with one of them is found
  by a text that has the same, and not by its counterpart; `NamesAreFound`
  speaks of the letters of Swedish.  The letters that begin with 0xc8
  (helper.cpp:357-379) are never rewritten, as `utf8tolower` does not pass them on.
- "Select region of highest administrative level" (sweden.cpp:209): `retrieve` steps
  back only while the level falls (210-216).  If two regions of a name
  share a level and a third is higher, it may stop at the second of the two.
  `HighestUnlessTwins` says what is left of the claim, and the map `Twins`
  has such a name.
- A saved `Sweden` without any national road cannot be read: its terminator is
  tested to be a road number first (sweden.cpp:757-760; `CannotRead`).

## 4. Fairness

- `OsmPbfReader`: weak fairness of each of the two threads; they run in one
  process and sleep for 100 ms at most, without locks.
- `GlobalObjects`: weak fairness of the program as a whole, that is started again
  when it has ended; nothing is assumed of crashes, removals and updates, and
  `RebuildsWithoutSentinel` speaks of the time after the last crash and fault.
  Whether a map can be built from is a property of the map, not of the run.
- `HttpServer`: weak fairness of the server's one thread; nothing is assumed of
  clients and signals.  There are finitely many connections.  With endlessly many
  the server would accept for ever, as accepting has precedence (795).
- `IdTree`, `ResultGenerator`, `Sweden`: none, only safety is checked.  A query is a call
  that runs to its end in one thread.

## 5. Proofs

All theorems hold for every value of the constants that satisfies the named
assumptions of the modules; TLC evaluates these in the runs.

- `OsmPbfReaderProofs`: `Inductive` proves the invariant of which `TypeCorrect`
  and `NoWayIsLost` are parts.  Besides the types it relates the control state of
  the consumer to what it holds (`inHand` is a way exactly while it counts or
  simplifies), the join to the end of the consumer, and the end of the consumer
  to an empty queue after the flag was set: without `done` and `draining` in the
  invariant an ended consumer might leave ways behind.  `Implements` uses it to
  show that each step of the threads is a step of `Ingest` or stutters.
  What becomes of the files is proved in four more invariants, on top of `IInv`.
  `CounterInv`: `queueSize` is the length of the queue, give or take
  what a thread has moved and not yet counted; it may be -1, which is why it wraps, and not
  more than the elements taken up, which is why it does not wrap at the other end
  (`SizeAssumption`: no file has as many elements as a `size_t` has values).
  `UsesInv`: counters are uses, modulo the number of values of a counter
  (`CountingWraps`), which needs that storing a way adds its places one
  by one.  `StoredInv`: what a stored way has kept, against all ways stored before
  it.  `FileInv`: the offset is the sum of the largest ids of the
  files before, and every way taken up was pushed.  `NodesAreNotRacedFor`
  assumes `SortedFiles` (nodes before ways), as the format of OpenStreetMap's
  exports has it and without which the property is false; `OrderlyFilesAreRead`
  assumes `OrderlyFiles` (also, ids are used once per kind and refer to what the file
  has), without which the program ends with an error.
- `GlobalObjectsProofs`: the invariant says, for a run that is `sound`, which
  files are whole and of which map in each phase and state of each thread.
  `SoundRunsServeWhatTheySave` and `SoundRunsFailByTheMap` follow; the latter
  needs that what decided between loading and building still holds when the
  run fails (`NothingToLoad`, and that files are not written while they are read).
  Nothing is assumed of the maps: any of them may be one that cannot be built from or
  of which any files but `.tt` are refused.
  `SwedenFindsTheOthers` adds that no file is of no map, and that a thread that
  is done has left its structure out only if there was no file.
- `HttpServerProofs`: the invariant adds to the properties that the backlog holds
  each waiting connection once, that `ready` names slots in use, and that an
  answer is written only as a connection is closed.  `NoConnectionLeaks`,
  `EveryoneIsAnsweredOnce`, `BuffersAreSeparate` and `TypeCorrect` follow.
  `ReportsStayTrue` rests on it: as no two slots share a connection, what is done
  to one leaves the others ready.  `PagesAreServed` shows that `HttpPages`, which
  TLC runs, is `HttpServer` with more said about answers, so that all these hold of it.
- `IdTreeProofs`: for any number of levels, children and lines of the cache.  The arithmetic comes first: the
  digits of an id are a path and tell ids apart (`DigitsTellIds`), by weights of
  the levels.  The invariant says that the tree is closed under parents and
  holds the zero path, that only leaves have data, that every line of the cache is of
  its id and agrees with the tree, and that `size` is right until something was
  removed.  Without the closure the walk down (`SearchFollowsDigits`) could
  end early, and a freshly read tree could lack its zero path.
  `NothingIsLostInTheFile` is proved from the two recursive functions that write and read
  the stream: both exist, as what is left to go falls with each call
  (`WriterExists`, `ReaderExists`), and for every node the reader, set on what the writer
  wrote for it, gives the nodes below it and the position behind
  (`PlacesAreReadAsWritten`, by induction over the places from the last to the
  first).  `RemoveRemovesNothing` is a fact about the code that `Implements` needs: `remove()` is a
  stutter of `IdMap`.
- `ResultGeneratorProofs`: cleaning and sorting, for any results.  `SeenAreApart` is
  the heart of the invariant: what was looked at and kept has no neighbour but
  worse ones that have not been looked at.  That two that were looked at are apart would not be
  inductive, as nothing would then keep a worse neighbour from being kept later.
  `NothingGoodIsLost` keeps, for what was removed, one as good.  The proof that a step
  keeps the invariant has the hypothesis `ResultsAreNumbers`, that positions are natural numbers
  and qualities integers; `SearchProofs` shows that it always holds.
  `Implements` is the refinement: the tree of letters is a `TextIndex`, an index from names to
  lists of elements, through loading, saving and retrieving.  It needs `TreeInv`: the
  tree is closed under prefixes, of bounded depth and with finitely many entries, and its
  `size` is right while names are loaded, and right or 0 after a file was read.  An
  insertion is a fold over the warped code words of a name; `FoldGoesByRounds` makes it a recursion
  over indices, each round of which adds one element at the end of the list of one
  word (`OneIsAdded`, `AllAreAdded`) and changes no other list, though it may create
  nodes on the way.  The file is read as it was written by the same
  argument as in `IdTreeProofs`, here over the places of the
  children of a node: a shorter path is left to go with each call, so that the writer and the reader
  exist, and the reader ends behind what the writer wrote (`ReadAsWritten`).
  The assumptions are `CodesAssumption` and `MapsAssumption`: the words of the maps' names
  use the codes of the tree.
- `SearchProofs`: the five searches, for maps of any size and any texts.  `Typed` says that
  the names that are kept and the word combinations are texts (sequences of numbers) and that every
  result has a position, an integer quality and an element.  That a search keeps it rests on
  lemmas about every operator that it calls, from the characters upwards: what `utf8tolower`
  gives is a text, splitting a text gives words, the sums and means that qualities are made
  of are numbers and bounded (`SumsAreBounded`, `MeanIsNumber`), what is divided by is not 0, a
  quartile is taken only where there are distances (`QuartileNeedsSteps`), and no
  distance is beyond the table of logarithms (`Farthest`).  A recursive function is defined by
  choice, so each of them has to exist before its equation is used: `RecursionIn`.
  `TypeCorrect`, `NoTwoAreClose` and `BestComesFirst` follow without a hypothesis.
  `NodesAreNamed` says that each node of the text tree holds nothing but elements one of whose
  names has the path of the node among its phrases; with it `ResultsHaveNames` follows: however
  many names share letters, what is retrieved for a combination is called like it.
  `CrossInv` adds for crossings that there are none before their search, that both names
  lead to something the node lies on, and that a node is taken once.  It needs that two
  windows of one pair differ in words, and that the first candidate at a node is a
  function of the node alone (`FirstIsFound`).
  From `DistanceAssumption` (positions are natural numbers, logarithms cover the distances
  between them), `MapsAssumption` and `AskingAssumption` (names and texts are texts; the order of a
  hashed set has all its ids) and `WorldAssumption`.
- `SwedenProofs`: `FileIsReadAsWritten` follows from the table of roads being a
  table (`TableInv`): every key has a place, the fourteen European roads
  different ones (`EuropeanPlaces`), and no list is empty outside
  `fixUnlabeledRegionalRoads`, and within it only the one at the cursor; an empty list
  would be written as nothing.  `WrittenIsRead` takes the stream of one road after the other apart.
  `HighestUnlessTwinsIsFound`: the register lists the regions read, each once (`RegisterInv`), and is sorted when asked;
  after `n` halvings of a list shorter than 2^n the place is one of the name, if there is one
  (`HalvingFinds`), and the steps back from there end where no region of the name is before, or one of the
  same level (`GoingBackEnds`): in the sorted list that is the highest of the name, or one that
  shares its level.  From `MapsAssumption`, the shape of statements; nothing is assumed of the levels.
  Two properties about roads rest on `RoadsInv` and, for the file, `SavedInv`.
  A table is `Sound` for the refs read so far if every label that is kept is
  listed (`AllListed`: with its type, or, for a regional road without letters, in a
  county), if under each number a way is in the lists of all counties together once per
  label (`Counted`), and if it is in no list where neither a label nor its place puts
  it (`Justified`).  Lists are shortened while they are gone through, so `Counted` speaks of the
  spots of a way, pairs of a list and a place, and a move maps the old spots onto the new ones
  one to one (`RemoveAtSpots`, `PushBackSpots`).  While `fixUnlabeledRegionalRoads` goes on,
  `Passed` adds that what is behind the cursor, which a move does not advance, lies in no county;
  at its end this is so of every way that is left (`AllArePassed`).
  `LabelsAreFound` has no hypothesis beyond the assumptions on maps: the way of a label is
  listed, the lists of all counties are put together in order (`WaysOfAllCounties`),
  the nearest way is at distance 0 (`NearestIsHere`), and counting the lengths of the lists
  from the front gives the county of the list that it came from (`BestIsOfItsCounty`).
  `RoadsAreInTheirCounties` has the hypothesis `CountiesAreRight`: the search of a county gives
  for the nodes of the maps what `InsideIsRight` says of regions; TLC evaluates it for the maps of
  the run.
- `NatSetTheorems`: least and greatest numbers, induction over an interval as
  the absence of a least counterexample (as sets: the provers have no theorems over
  predicates), and `RecursionExists`: a recursive function over an interval
  exists, which must be known before its equation can be used.

Only model-checked:

- the liveness properties: `EveryFileIsParsed`, `RebuildsWithoutSentinel`,
  `SignalEndsServer`, `WholeGetIsAnswered`; the prover does not deal with fairness and ENABLED;
- `ResultGenerator`: `NamesAreFound`, which needs not only what type of thing the
  tokenizer computes but what it computes on every text: `SelectSeq`, which the
  provers cannot expand, and an induction over the binary search among the stop
  words and over the characters of two texts at once;
- `Sweden`: `InsideIsRight`: that the parity of crossed edges tells inside from outside
  is a theorem about polygons for which there is no library, and joining ways
  to polygons is an induction over a recursion on data.  With it, that `CountiesAreRight`,
  on which `RoadsAreWhereTheyLie` depends, holds of other maps than those of the run.

## 6. Plan

Order, the most important behaviour first:

1. `OsmPbfReader`, `Ingest` - done.
2. `GlobalObjects` - done.
3. `HttpServer`, `HttpPages` - done.
4. `IdTree`, `IdMap` - done, and proved.
5. `Tokenizer`, `SwedishTextTree`, `TextIndex` - done, and proved: the tree of
   letters implements `TextIndex`.
6. `TokenProcessor`, `MapAnalysis`, `ResultGenerator` - done, in one run with 5;
   all safety properties but `NamesAreFound` are proved.
7. `RegionPolygons`, `AdministrativeRegion`, `Sweden` - done; the file, the register
   and the table of roads are proved, outlines of regions are model-checked.

Not planned: configuration, logging, timer, the offline tools and the text of
pages, which are input, output or wording without state of their own.
