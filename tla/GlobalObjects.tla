---------------------------- MODULE GlobalObjects ----------------------------
(***************************************************************************)
(* GlobalObjectManager (globalobjects.cpp) and the start of main():        *)
(* the data structures of the program are read from the files that an      *)
(* earlier run left in the temporary directory, or, if there are none,     *)
(* built from the .osm.pbf files and saved there.  One thread loads or     *)
(* saves each structure.  Runs follow one another; between two runs files  *)
(* may be removed and the map may be updated, a run may be killed at any   *)
(* point, and a file may fail to be opened or written in full.  There are  *)
(* maps that cannot be built from, and maps that are built and saved but   *)
(* of which a file, although whole, is refused when it is read again.      *)
(***************************************************************************)
EXTENDS Integers, Sequences

CONSTANTS
  Sentinel,    \* .tt, the file whose presence decides between load and parse
  Trees,       \* the structures that are IdTrees
  Last,        \* .sweden, that is loaded after all others
  Order,       \* all of them, in the order in which their threads start
  Kinds,       \* what maps there are: whether data is built from one, and the
               \* structures that reading refuses although they are whole
  Budget       \* how often each kind of interference happens at most

Parts  == Trees \cup {Sentinel, Last}
Upsets == {"crash", "fault", "removal", "update"}

ASSUME PartsAssumption  == Sentinel \notin Trees /\ Last \notin Trees /\ Sentinel # Last
ASSUME OrderAssumption  == /\ Order \in Seq(Parts) /\ Len(Order) > 0
                           /\ \A p \in Parts : \E i \in 1..Len(Order) : Order[i] = p
                           /\ \A i \in 1..Len(Order) : Order[i] = Last <=> i = Len(Order)
ASSUME KindsAssumption  == Kinds \subseteq [builds : BOOLEAN, refused : SUBSET (Trees \cup {Last})]
ASSUME BudgetAssumption == Budget \in [Upsets -> Nat]

Null    == 0
Corrupt == -1

VARIABLES
  pc,         \* where the main thread is
  started,    \* how many loading or saving threads it has started
  thread,     \* state of the thread of each structure
  mem,        \* the structures: Null, Corrupt or the map they are made from
  disk,       \* the files: their size and the map they are made from
  map,        \* the current map data
  kind,       \* of what kind each map is
  left,       \* how much of the budget is left
  sound       \* history: this run found the files whole and could write them

procVars == <<pc, started, thread, mem>>
mapVars  == <<map, kind>>
vars     == <<procVars, disk, mapVars, left, sound>>

Missing     == [size |-> "none", gen |-> 0]
Whole(g)    == [size |-> "full", gen |-> g]
AllIdle     == [p \in Parts |-> "idle"]
Nothing     == [p \in Parts |-> Null]
Upset(u)    == left[u] > 0 /\ left' = [left EXCEPT ![u] = @ - 1]

-----------------------------------------------------------------------------
Init ==
  /\ pc = "down" /\ started = 0 /\ thread = AllIdle /\ mem = Nothing
  /\ disk = [p \in Parts |-> Missing]
  /\ map = 1 /\ kind \in [1..1 -> Kinds]
  /\ left = Budget
  /\ sound = TRUE

\* Mutant: any file passes for one left by an earlier run.
AnyFile(size) == size # "none"

\* testNonEmptyFile: the file is there and has 16 bytes or more.
NonEmptyFile(size) == size \in {"part", "full"}

\* Either every file is there in full, from one and the same map, or the next
\* start does not look at them.
SoundCache == \/ disk[Sentinel].size \in {"none", "stub"}
              \/ \E g \in 1..map : \A p \in Parts : disk[p] = Whole(g)

Boot ==
  /\ pc = "down"
  /\ pc' = "test" /\ started' = 0 /\ thread' = AllIdle /\ mem' = Nothing
  /\ sound' = SoundCache
  /\ UNCHANGED <<disk, mapVars, left>>

TestSentinel ==
  /\ pc = "test"
  /\ pc' = IF NonEmptyFile(disk[Sentinel].size) THEN "load" ELSE "parse"
  /\ UNCHANGED <<started, thread, mem, disk, mapVars, left, sound>>

\* The process ends with an error; whatever its threads did is cut short.
EndsWithError ==
  /\ pc' = "failed" /\ thread' = AllIdle /\ mem' = Nothing
  /\ UNCHANGED started

-----------------------------------------------------------------------------
(* Building the structures and saving them.                                *)

Parse ==
  /\ pc = "parse" /\ kind[map].builds
  /\ mem' = [p \in Parts |-> map]
  /\ pc' = "save"
  /\ UNCHANGED <<started, thread, disk, mapVars, left, sound>>

\* A file of the map cannot be opened or read to its end, or the counties of
\* roads without letters cannot be found: nothing has been saved yet.
ParseFails ==
  /\ pc = "parse" /\ EndsWithError
  /\ \/ ~kind[map].builds /\ UNCHANGED <<left, sound>>
     \/ Upset("fault") /\ sound' = FALSE
  /\ UNCHANGED <<disk, mapVars>>

\* The main thread starts the next thread and sleeps for 100ms.
StartThread(n) ==
  /\ started < n
  /\ thread' = [thread EXCEPT ![Order[started + 1]] = "run"]
  /\ started' = started + 1
  /\ UNCHANGED <<pc, mem, disk, mapVars, left, sound>>

StartSaver == pc = "save" /\ StartThread(Len(Order))

Saving(p, state) == pc = "save" /\ thread[p] = state
ThreadTo(p, state) == thread' = [thread EXCEPT ![p] = state] /\ UNCHANGED <<pc, started, mem>>

\* Opening the file for writing truncates it.
SaverOpen(p) ==
  /\ Saving(p, "run") /\ ThreadTo(p, "write")
  /\ disk' = [disk EXCEPT ![p] = [size |-> "stub", gen |-> mem[p]]]
  /\ UNCHANGED <<mapVars, left, sound>>

\* "Cannot write ... file" is a warning: the file stays as it is.
SaverCannotOpen(p) ==
  /\ Saving(p, "run") /\ ThreadTo(p, "done")
  /\ Upset("fault") /\ sound' = FALSE
  /\ UNCHANGED <<disk, mapVars>>

SaverGrow(p) ==
  /\ Saving(p, "write") /\ disk[p].size = "stub"
  /\ disk' = [disk EXCEPT ![p].size = "part"]
  /\ UNCHANGED <<procVars, mapVars, left, sound>>

SaverFinish(p) ==
  /\ Saving(p, "write") /\ disk[p].size = "part" /\ ThreadTo(p, "done")
  /\ disk' = [disk EXCEPT ![p].size = "full"]
  /\ UNCHANGED <<mapVars, left, sound>>

\* Writing fails, for want of space: the data of an IdTree is checked as it
\* is written, other writes and what is still buffered are not.
SaverShort(p) ==
  /\ Saving(p, "write")
  /\ Upset("fault") /\ sound' = FALSE
  /\ \/ ThreadTo(p, "done")
     \/ p \in Trees /\ EndsWithError
  /\ UNCHANGED <<disk, mapVars>>

\* Mutant: the main thread goes on once it has started all threads.
SavesStarted ==
  /\ pc = "save" /\ started = Len(Order)
  /\ pc' = "check"
  /\ UNCHANGED <<started, thread, mem, disk, mapVars, left, sound>>

SavesJoined ==
  /\ pc = "save" /\ started = Len(Order) /\ \A p \in Parts : thread[p] = "done"
  /\ pc' = "check"
  /\ UNCHANGED <<started, thread, mem, disk, mapVars, left, sound>>

-----------------------------------------------------------------------------
(* Loading the structures.                                                 *)

StartLoader == pc = "load" /\ StartThread(Len(Order) - 1)

\* A file is not whole; or it is, and what was written is refused, as the
\* empty tree of a map without ways, or the list of no national roads.
Damaged(p) == disk[p].size \in {"stub", "part"}
Refused(p) == disk[p].size = "full" /\ p \in kind[disk[p].gen].refused

\* What reading a file gives.  The records of an IdTree and its size are
\* checked, so a file that is not whole ends the process; the other two may
\* be cut where it is not noticed.
Readable(p) == ~Damaged(p) /\ ~Refused(p)
Content(p)  == IF disk[p].size = "none" THEN Null ELSE disk[p].gen

\* Mutant: what is read of an IdTree is not checked.
ReadingUnchecked(p) ==
  \/ Readable(p) /\ mem' = [mem EXCEPT ![p] = Content(p)]
  \/ Damaged(p) /\ mem' = [mem EXCEPT ![p] = Corrupt]

Reading(p) ==
  \/ Readable(p) /\ mem' = [mem EXCEPT ![p] = Content(p)]
  \/ Damaged(p) /\ p \notin Trees /\ mem' = [mem EXCEPT ![p] = Corrupt]

Loader(p) ==
  /\ pc = "load" /\ thread[p] = "run"
  /\ \/ Reading(p) /\ thread' = [thread EXCEPT ![p] = "done"] /\ UNCHANGED <<pc, started>>
     \/ ~Readable(p) /\ EndsWithError
  /\ UNCHANGED <<disk, mapVars, left, sound>>

\* Mutant: the main thread goes on once it has started all threads.
LoadersStarted ==
  /\ pc = "load" /\ started = Len(Order) - 1
  /\ pc' = "loadSweden"
  /\ UNCHANGED <<started, thread, mem, disk, mapVars, left, sound>>

LoadersJoined ==
  /\ pc = "load" /\ started = Len(Order) - 1
  /\ \A p \in Parts \ {Last} : thread[p] = "done"
  /\ pc' = "loadSweden"
  /\ UNCHANGED <<started, thread, mem, disk, mapVars, left, sound>>

LoadSweden ==
  /\ pc = "loadSweden"
  /\ \/ Reading(Last) /\ pc' = "check" /\ UNCHANGED <<started, thread>>
     \/ ~Readable(Last) /\ EndsWithError
  /\ UNCHANGED <<disk, mapVars, left, sound>>

-----------------------------------------------------------------------------
(* main(), and what happens around it.                                     *)

Check ==
  /\ pc = "check"
  /\ IF \A p \in Parts : mem[p] # Null
     THEN pc' = "serve" /\ UNCHANGED <<started, thread, mem>>
     ELSE EndsWithError
  /\ UNCHANGED <<disk, mapVars, left, sound>>

Gone(states) ==
  /\ pc \in states
  /\ pc' = "down" /\ thread' = AllIdle /\ mem' = Nothing
  /\ UNCHANGED <<started, disk, mapVars, sound>>

\* The process ended with an error, or is told to end.
Fail == Gone({"failed"}) /\ UNCHANGED left
Exit == Gone({"serve"}) /\ UNCHANGED left

\* The process is killed.
Crash == Gone({"test", "parse", "save", "load", "loadSweden", "check"}) /\ Upset("crash")

\* Files are removed between runs.
Remove ==
  /\ pc = "down" /\ Upset("removal")
  /\ \E S \in SUBSET Parts : disk' = [p \in Parts |-> IF p \in S THEN Missing ELSE disk[p]]
  /\ UNCHANGED <<procVars, mapVars, sound>>

UpdateMap ==
  /\ pc = "down" /\ Upset("update")
  /\ map' = map + 1
  /\ \E k \in Kinds : kind' = [g \in 1..map + 1 |-> IF g \in 1..map THEN kind[g] ELSE k]
  /\ UNCHANGED <<procVars, disk, sound>>

Saver(p) == SaverOpen(p) \/ SaverCannotOpen(p) \/ SaverGrow(p) \/ SaverFinish(p) \/ SaverShort(p)

Program == \/ Boot \/ TestSentinel \/ Parse \/ ParseFails \/ StartSaver \/ SavesJoined
           \/ StartLoader \/ LoadersJoined \/ LoadSweden \/ Check \/ Fail
           \/ \E p \in Parts : Saver(p) \/ Loader(p)

Next == Program \/ Exit \/ Crash \/ Remove \/ UpdateMap

\* The program is started again when it has ended, and its threads run.
Spec     == Init /\ [][Next]_vars
FairSpec == Spec /\ WF_vars(Program)

-----------------------------------------------------------------------------
(* Properties.                                                             *)

\* Every variable has its type; no structure is made from a future map, and
\* an IdTree that could not be read as it was written is not in use.
TypeOK ==
  /\ pc \in {"down", "test", "parse", "save", "load", "loadSweden", "check", "serve", "failed"}
  /\ started \in 0..Len(Order)
  /\ thread \in [Parts -> {"idle", "run", "write", "done"}]
  /\ map \in Nat \ {0} /\ kind \in [1..map -> Kinds]
  /\ mem \in [Parts -> {Null, Corrupt} \cup 1..map]
  /\ \A p \in Trees : mem[p] # Corrupt
  /\ disk \in [Parts -> [size : {"none", "stub", "part", "full"}, gen : 0..map]]
  /\ left \in [Upsets -> Nat]
  /\ sound \in BOOLEAN

\* A run that found the files as a complete run leaves them, or found none,
\* serves structures that all are of the same map and are saved in full: what
\* the next run finds is what this one serves (globalobjects.cpp:380-460).
ServedIsWhole ==
  pc = "serve" /\ sound => \E g \in 1..map : \A p \in Parts : mem[p] = g /\ disk[p] = Whole(g)

\* If such a run fails to start, its map is the only cause: the map cannot be
\* built from, or the files were written whole by an earlier run and one of
\* them is refused (globalobjects.cpp:326-340, sweden.cpp:757-760,
\* idtree.h:48-50).  No order of its own threads makes it fail.
FailsOnlyByTheMap ==
  pc = "failed" /\ sound =>
    IF NonEmptyFile(disk[Sentinel].size) THEN \E p \in Parts : Refused(p) ELSE ~kind[map].builds

\* "'loadSweden()' cannot be run in parallel to the other load functions":
\* when it runs they have ended, and what is missing has no file
\* (globalobjects.cpp:258-262, 404-416).
SwedenLoadsLast ==
  pc = "loadSweden" =>
    \A p \in Parts \ {Last} : thread[p] = "done" /\ (mem[p] = Null => disk[p].size = "none")

Undisturbed == left["crash"] = 0 /\ left["fault"] = 0

\* Without the file .tt, or with one too short to hold data, everything is
\* built anew and served, whatever state earlier runs left the other files in,
\* and although the next start may refuse what this one saves; unless nothing
\* can be built from the map (globalobjects.cpp:305-345, 453-465).
RebuildsWithoutSentinel ==
  (pc = "down" /\ disk[Sentinel].size \in {"none", "stub"} /\ Undisturbed)
    ~> (pc = "serve" \/ ~kind[map].builds)

\* Not so: "It is safe to remove those files between runs, it will only
\* increase the next start-up time" (README.md:242).  With some of them
\* removed but not .tt, the program does not start.
SafeToRemove == pc # "failed"
=============================================================================
