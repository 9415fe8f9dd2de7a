------------------------ MODULE GlobalObjectsProofs ------------------------
(***************************************************************************)
(* Theorems about GlobalObjects, for any set of structures, any order of   *)
(* their threads and any number of crashes, faults, removals and updates.  *)
(***************************************************************************)
EXTENDS GlobalObjects, TLAPS

(***************************************************************************)
(* Why a run that is sound serves what it saved: the invariant says, phase *)
(* by phase, what each thread has achieved so far.                         *)
(***************************************************************************)
IdleAtFirst == pc \in {"test", "parse"} => \A p \in Parts : thread[p] = "idle"
NothingToLoad == pc = "parse" => ~NonEmptyFile(disk[Sentinel].size)
WhileTesting == pc = "test" /\ sound => SoundCache
Built == pc = "save" => \A p \in Parts : mem[p] = map
WhileSaving ==
  pc = "save" /\ sound =>
    \A p \in Parts : /\ thread[p] = "write" => disk[p].gen = map
                     /\ thread[p] = "done" => disk[p] = Whole(map)
LoadedFrom(g) ==
  \A p \in Parts : /\ disk[p] = Whole(g)
                   /\ thread[p] = "done" => mem[p] = g
                   /\ pc = "loadSweden" /\ p # Last => thread[p] = "done"
WhileLoading == pc \in {"load", "loadSweden"} /\ sound => \E g \in 1..map : LoadedFrom(g)
OneMap(g)    == \A p \in Parts : mem[p] = g /\ disk[p] = Whole(g)
WhenComplete == pc \in {"check", "serve"} /\ sound => \E g \in 1..map : OneMap(g)

IInv == /\ TypeOK /\ IdleAtFirst /\ NothingToLoad /\ Built /\ WhileTesting /\ WhileSaving
        /\ WhileLoading /\ WhenComplete /\ FailsOnlyByTheMap

-----------------------------------------------------------------------------
\* Using up part of the budget leaves a budget.
LEMMA UpsetIsTyped ==
  ASSUME left \in [Upsets -> Nat], NEW u \in Upsets, Upset(u)
  PROVE  left' \in [Upsets -> Nat]
PROOF BY DEF Upset

\* What is read is a typed structure.
LEMMA ReadingIsTyped ==
  ASSUME TypeOK, NEW p \in Parts, Reading(p)
  PROVE  /\ mem' \in [Parts -> {Null, Corrupt} \cup 1..map]
         /\ \A q \in Trees : mem'[q] # Corrupt
PROOF
  <1>1. disk[p].gen \in 0..map /\ map \in Nat
    BY DEF TypeOK
  <1>2. Content(p) \in {Null} \cup 1..map /\ Content(p) # Corrupt
    BY <1>1 DEF Content, Null, Corrupt
  <1>3. Trees \subseteq Parts
    BY DEF Parts
  <1> QED BY <1>2, <1>3 DEF Reading, TypeOK

\* The thread that is started next is that of some structure.
LEMMA NextThread ==
  ASSUME TypeOK, NEW n \in 0..Len(Order), started < n
  PROVE  Order[started + 1] \in Parts /\ started + 1 \in 0..Len(Order)
PROOF
  <1>1. started + 1 \in 1..Len(Order)
    BY OrderAssumption DEF TypeOK
  <1> QED BY <1>1, OrderAssumption

\* A step of the main thread keeps the types.
LEMMA MainKeepsTypes ==
  ASSUME TypeOK,
         \/ Boot \/ TestSentinel \/ Parse \/ ParseFails \/ StartSaver \/ SavesJoined
         \/ StartLoader \/ LoadersJoined \/ LoadSweden \/ Check \/ Fail \/ Exit \/ Crash
  PROVE  TypeOK'
PROOF
  <1>0. Trees \subseteq Parts
    BY DEF Parts
  <1> USE <1>0 DEF TypeOK, AllIdle, Nothing, Null, Corrupt, mapVars
  <1>1. CASE Boot
    <2>1. sound' \in BOOLEAN
      BY <1>1 DEF Boot, SoundCache
    <2> QED BY <1>1, <2>1 DEF Boot
  <1>2. CASE TestSentinel
    BY <1>2 DEF TestSentinel
  <1>3. CASE Parse
    BY <1>3 DEF Parse
  <1>4. CASE StartSaver
    <2>1. started < Len(Order) /\ Len(Order) \in 0..Len(Order)
      BY <1>4, OrderAssumption DEF StartSaver, StartThread
    <2> QED BY <1>4, <2>1, NextThread DEF StartSaver, StartThread
  <1>5. CASE SavesJoined
    BY <1>5 DEF SavesJoined
  <1>6. CASE StartLoader
    <2>1. Len(Order) \in Nat \ {0}
      BY OrderAssumption
    <2>2. started < Len(Order) - 1 /\ Len(Order) - 1 \in 0..Len(Order)
      BY <1>6, <2>1 DEF StartLoader, StartThread
    <2> QED BY <1>6, <2>2, NextThread DEF StartLoader, StartThread
  <1>7. CASE LoadersJoined
    BY <1>7 DEF LoadersJoined
  <1>8. CASE LoadSweden
    <2>1. Last \in Parts
      BY DEF Parts
    <2>2. Reading(Last) => /\ mem' \in [Parts -> {Null, Corrupt} \cup 1..map]
                           /\ \A q \in Trees : mem'[q] # Corrupt
      BY <2>1, ReadingIsTyped
    <2> QED BY <1>8, <2>2 DEF LoadSweden, EndsWithError
  <1>9. CASE Check
    BY <1>9 DEF Check, EndsWithError
  <1>10. CASE Fail
    BY <1>10 DEF Fail, Gone
  <1>11. CASE Exit
    BY <1>11 DEF Exit, Gone
  <1>12. CASE Crash
    <2>1. left' \in [Upsets -> Nat]
      BY <1>12, UpsetIsTyped DEF Crash, Upsets
    <2> QED BY <1>12, <2>1 DEF Crash, Gone
  <1>13. CASE ParseFails
    <2>1. left' \in [Upsets -> Nat]
      BY <1>13, UpsetIsTyped DEF ParseFails, Upsets
    <2>2. sound' \in BOOLEAN
      BY <1>13 DEF ParseFails
    <2>3. EndsWithError /\ UNCHANGED <<disk, map, kind>>
      BY <1>13 DEF ParseFails
    <2>4. /\ thread' \in [Parts -> {"idle", "run", "write", "done"}]
          /\ mem' \in [Parts -> {Null, Corrupt} \cup 1..map] /\ \A p \in Trees : mem'[p] # Corrupt
      BY <2>3 DEF EndsWithError
    <2> QED BY <2>1, <2>2, <2>3, <2>4 DEF EndsWithError
  <1> QED BY <1>1, <1>2, <1>3, <1>4, <1>5, <1>6, <1>7, <1>8, <1>9, <1>10, <1>11, <1>12, <1>13

\* A step of a saving or loading thread keeps the types.
LEMMA ThreadKeepsTypes ==
  ASSUME TypeOK, Built, NEW p \in Parts, Saver(p) \/ Loader(p)
  PROVE  TypeOK'
PROOF
  <1>0. "fault" \in Upsets /\ Trees \subseteq Parts
    BY DEF Upsets, Parts
  <1> USE DEF TypeOK, AllIdle, Nothing, Null, Corrupt, mapVars
  <1>1. CASE SaverOpen(p)
    <2>1. mem[p] \in 0..map
      BY <1>1 DEF Built, SaverOpen, Saving
    <2> QED BY <1>1, <2>1 DEF SaverOpen, ThreadTo
  <1>2. CASE SaverCannotOpen(p)
    BY <1>0, <1>2, UpsetIsTyped DEF SaverCannotOpen, ThreadTo
  <1>3. CASE SaverGrow(p)
    BY <1>3 DEF SaverGrow, procVars
  <1>4. CASE SaverFinish(p)
    BY <1>4 DEF SaverFinish, ThreadTo
  <1>5. CASE SaverShort(p)
    <2>1. left' \in [Upsets -> Nat]
      BY <1>0, <1>5, UpsetIsTyped DEF SaverShort
    <2>2. mem' \in [Parts -> {Null, Corrupt} \cup 1..map] /\ \A q \in Trees : mem'[q] # Corrupt
      BY <1>0, <1>5 DEF SaverShort, ThreadTo, EndsWithError
    <2> QED BY <1>5, <2>1, <2>2 DEF SaverShort, ThreadTo, EndsWithError
  <1>6. CASE Loader(p)
    <2>1. Reading(p) => /\ mem' \in [Parts -> {Null, Corrupt} \cup 1..map]
                        /\ \A q \in Trees : mem'[q] # Corrupt
      BY ReadingIsTyped
    <2>2. EndsWithError => /\ mem' \in [Parts -> {Null, Corrupt} \cup 1..map]
                           /\ \A q \in Trees : mem'[q] # Corrupt
      BY <1>0 DEF EndsWithError
    <2>3. EndsWithError => thread' \in [Parts -> {"idle", "run", "write", "done"}]
      BY DEF EndsWithError
    <2> QED BY <1>6, <2>1, <2>2, <2>3 DEF Loader, EndsWithError
  <1> QED BY <1>1, <1>2, <1>3, <1>4, <1>5, <1>6 DEF Saver

-----------------------------------------------------------------------------
\* A whole file that cannot be read is refused, and the sentinel is one that
\* the start of a run looks at.
LEMMA RefusedIfWhole ==
  ASSUME NEW g \in 1..map, LoadedFrom(g), NEW p \in Parts, ~Readable(p)
  PROVE  NonEmptyFile(disk[Sentinel].size) /\ Refused(p)
PROOF
  <1>1. Sentinel \in Parts
    BY DEF Parts
  <1> QED BY <1>1 DEF LoadedFrom, Whole, Readable, Damaged, NonEmptyFile

\* A step of the main thread keeps what the phases have achieved.
LEMMA MainKeepsPhases ==
  ASSUME IInv, TypeOK',
         \/ Boot \/ TestSentinel \/ Parse \/ ParseFails \/ StartSaver \/ SavesJoined
         \/ StartLoader \/ LoadersJoined \/ LoadSweden \/ Check \/ Fail \/ Exit \/ Crash
  PROVE  IInv'
PROOF
  <1> USE DEF IInv, IdleAtFirst, NothingToLoad, Built, WhileSaving, FailsOnlyByTheMap, mapVars
  <1> DEFINE Elsewhere == pc' \in {"down", "parse", "failed"}
  <1>0. ASSUME Elsewhere, IdleAtFirst', NothingToLoad', FailsOnlyByTheMap'
        PROVE  IInv'
    BY <1>0 DEF WhileTesting, WhileLoading, WhenComplete
  <1>1. CASE Boot
    <2>1. WhileTesting'
      BY <1>1 DEF Boot, WhileTesting, SoundCache
    <2> QED BY <1>1, <2>1 DEF Boot, AllIdle, WhileLoading, WhenComplete
  <1>2. CASE TestSentinel
    <2>1. CASE ~NonEmptyFile(disk[Sentinel].size)
      BY <1>0, <1>2, <2>1 DEF TestSentinel
    <2>2. CASE NonEmptyFile(disk[Sentinel].size)
      <3>1. pc' = "load" /\ UNCHANGED <<thread, disk, map, sound>> /\ pc = "test"
        BY <1>2, <2>2 DEF TestSentinel
      <3>2. sound => \E g \in 1..map : \A p \in Parts : disk[p] = Whole(g)
        BY <2>2, <3>1 DEF WhileTesting, SoundCache, NonEmptyFile
      <3>3. WhileLoading'
        <4> SUFFICES ASSUME sound'
                     PROVE  \E g \in 1..map' : LoadedFrom(g)'
          BY DEF WhileLoading
        <4>1. PICK g \in 1..map : \A p \in Parts : disk[p] = Whole(g)
          BY <3>1, <3>2
        <4>2. LoadedFrom(g)'
          BY <3>1, <4>1 DEF LoadedFrom, Whole
        <4> QED BY <3>1, <4>2
      <3> QED BY <3>1, <3>3 DEF WhileTesting, WhenComplete
    <2> QED BY <2>1, <2>2
  <1>3. CASE Parse
    BY <1>3 DEF Parse, WhileTesting, WhileLoading, WhenComplete
  <1>4. CASE StartSaver
    <2>1. pc' = "save" /\ UNCHANGED <<pc, mem, disk, map, sound>>
      BY <1>4 DEF StartSaver, StartThread
    <2>2. \A p \in Parts : thread'[p] = thread[p] \/ thread'[p] = "run"
      BY <1>4 DEF StartSaver, StartThread, TypeOK
    <2> QED BY <2>1, <2>2 DEF WhileTesting, WhileLoading, WhenComplete, Whole
  <1>5. CASE SavesJoined
    <2>1. pc' = "check" /\ pc = "save" /\ UNCHANGED <<mem, disk, map, sound>>
      BY <1>5 DEF SavesJoined
    <2>2. sound => OneMap(map)'
      BY <1>5, <2>1 DEF SavesJoined, OneMap, Whole
    <2>3. map \in 1..map
      BY DEF TypeOK
    <2> QED BY <2>1, <2>2, <2>3 DEF WhileTesting, WhileLoading, WhenComplete
  <1>6. CASE StartLoader
    <2>1. pc' = "load" /\ UNCHANGED <<pc, mem, disk, map, sound>>
      BY <1>6 DEF StartLoader, StartThread
    <2>2. \A p \in Parts : thread'[p] = thread[p] \/ thread'[p] = "run"
      BY <1>6 DEF StartLoader, StartThread, TypeOK
    <2>3. \A g : LoadedFrom(g) => LoadedFrom(g)'
      BY <2>1, <2>2 DEF LoadedFrom, Whole
    <2> QED BY <2>1, <2>3 DEF WhileTesting, WhileLoading, WhenComplete
  <1>7. CASE LoadersJoined
    <2>1. /\ pc = "load" /\ pc' = "loadSweden" /\ UNCHANGED <<thread, mem, disk, map, sound>>
          /\ \A p \in Parts \ {Last} : thread[p] = "done"
      BY <1>7 DEF LoadersJoined
    <2>2. \A g : LoadedFrom(g) => LoadedFrom(g)'
      BY <2>1 DEF LoadedFrom, Whole
    <2> QED BY <2>1, <2>2 DEF WhileTesting, WhileLoading, WhenComplete
  <1>8. CASE LoadSweden
    <2>1. pc = "loadSweden" /\ UNCHANGED <<disk, map, kind, sound>>
      BY <1>8 DEF LoadSweden
    <2>2. sound => \E g \in 1..map : LoadedFrom(g)
      BY <2>1 DEF WhileLoading
    <2>3. Last \in Parts
      BY DEF Parts
    <2>4. CASE pc' = "failed"
      <3>1. ~Readable(Last)
        BY <1>8, <2>4 DEF LoadSweden
      <3>2. sound => NonEmptyFile(disk[Sentinel].size) /\ Refused(Last)
        BY <2>2, <2>3, <3>1, RefusedIfWhole
      <3>3. FailsOnlyByTheMap'
        BY <2>1, <2>3, <3>2 DEF Refused
      <3> QED BY <1>0, <2>4, <3>3
    <2>5. CASE pc' = "check" /\ Reading(Last)
      <3>1. \A g \in 1..map : LoadedFrom(g) => OneMap(g)'
        <4> SUFFICES ASSUME NEW g \in 1..map, LoadedFrom(g)
                     PROVE  OneMap(g)'
          OBVIOUS
        <4>1. disk[Last] = Whole(g)
          BY <2>3 DEF LoadedFrom
        <4>2. mem' = [mem EXCEPT ![Last] = g]
          BY <2>5, <4>1 DEF Reading, Readable, Damaged, Content, Whole
        <4>3. \A p \in Parts \ {Last} : mem[p] = g
          BY <2>1 DEF LoadedFrom
        <4>4. \A p \in Parts : mem'[p] = g
          BY <4>2, <4>3, <2>3 DEF TypeOK
        <4> QED BY <2>1, <4>4 DEF OneMap, LoadedFrom, Whole
      <3> QED BY <2>1, <2>2, <2>5, <3>1 DEF WhileTesting, WhileLoading, WhenComplete
    <2> QED BY <1>8, <2>4, <2>5 DEF LoadSweden, EndsWithError
  <1>9. CASE Check
    <2>1. pc = "check" /\ UNCHANGED <<disk, map, sound>>
      BY <1>9 DEF Check
    <2>2. CASE pc' = "serve" /\ mem' = mem
      <3>1. \A g : OneMap(g) => OneMap(g)'
        BY <2>1, <2>2 DEF OneMap, Whole
      <3> QED BY <2>1, <2>2, <3>1 DEF WhileTesting, WhileLoading, WhenComplete
    <2>3. CASE pc' = "failed" /\ ~(\A p \in Parts : mem[p] # Null)
      <3>1. ~sound
        BY <2>1, <2>3 DEF WhenComplete, OneMap, Null
      <3> QED BY <1>0, <2>1, <2>3, <3>1
    <2> QED BY <1>9, <2>2, <2>3 DEF Check, EndsWithError
  <1>10. CASE Fail
    BY <1>0, <1>10 DEF Fail, Gone
  <1>11. CASE Exit
    BY <1>0, <1>11 DEF Exit, Gone
  <1>12. CASE Crash
    BY <1>0, <1>12 DEF Crash, Gone
  <1>13. CASE ParseFails
    <2>1. pc = "parse" /\ pc' = "failed" /\ UNCHANGED <<disk, map, kind>>
      BY <1>13 DEF ParseFails, EndsWithError
    <2>2. sound' => ~kind[map].builds
      BY <1>13 DEF ParseFails
    <2> QED BY <1>0, <2>1, <2>2
  <1> QED BY <1>1, <1>2, <1>3, <1>4, <1>5, <1>6, <1>7, <1>8, <1>9, <1>10, <1>11, <1>12, <1>13

\* A step of a saving or loading thread keeps what the phases have achieved.
LEMMA ThreadKeepsPhases ==
  ASSUME IInv, TypeOK', NEW p \in Parts, Saver(p) \/ Loader(p)
  PROVE  IInv'
PROOF
  <1> USE DEF IInv, IdleAtFirst, NothingToLoad, Built, WhileSaving, FailsOnlyByTheMap, mapVars
  <1>0. ASSUME pc = "save", pc' = "save", Built', WhileSaving'
        PROVE  IInv'
    BY <1>0 DEF WhileTesting, WhileLoading, WhenComplete
  <1>1. CASE SaverOpen(p)
    <2>1. /\ pc = "save" /\ pc' = "save" /\ UNCHANGED <<mem, map, sound>>
          /\ thread' = [thread EXCEPT ![p] = "write"]
          /\ disk' = [disk EXCEPT ![p] = [size |-> "stub", gen |-> mem[p]]]
      BY <1>1 DEF SaverOpen, Saving, ThreadTo
    <2>2. \A q \in Parts : /\ q # p => disk'[q] = disk[q] /\ thread'[q] = thread[q]
                           /\ disk'[p].gen = mem[p] /\ thread'[p] = "write"
      BY <2>1 DEF TypeOK
    <2> QED BY <1>0, <2>1, <2>2 DEF Whole
  <1>2. CASE SaverCannotOpen(p)
    BY <1>0, <1>2 DEF SaverCannotOpen, Saving, ThreadTo
  <1>3. CASE SaverGrow(p)
    <2>1. /\ pc = "save" /\ pc' = "save" /\ UNCHANGED <<mem, map, sound, thread>>
          /\ disk' = [disk EXCEPT ![p].size = "part"] /\ thread[p] = "write"
      BY <1>3 DEF SaverGrow, Saving, procVars
    <2>2. \A q \in Parts : /\ q # p => disk'[q] = disk[q]
                           /\ disk'[p].gen = disk[p].gen
      BY <2>1 DEF TypeOK
    <2> QED BY <1>0, <2>1, <2>2 DEF Whole
  <1>4. CASE SaverFinish(p)
    <2>1. /\ pc = "save" /\ pc' = "save" /\ UNCHANGED <<mem, map, sound>>
          /\ thread' = [thread EXCEPT ![p] = "done"]
          /\ disk' = [disk EXCEPT ![p].size = "full"] /\ thread[p] = "write"
      BY <1>4 DEF SaverFinish, Saving, ThreadTo
    <2>2. \A q \in Parts : q # p => disk'[q] = disk[q] /\ thread'[q] = thread[q]
      BY <2>1 DEF TypeOK
    <2>3. thread'[p] = "done"
      BY <2>1 DEF TypeOK
    <2>4. sound => disk'[p] = Whole(map)
      <3>1. disk'[p] = [disk[p] EXCEPT !.size = "full"]
        BY <2>1 DEF TypeOK
      <3>2. disk[p] = [size |-> disk[p].size, gen |-> disk[p].gen]
        BY DEF TypeOK
      <3>3. sound => disk[p].gen = map
        BY <2>1
      <3> QED BY <3>1, <3>2, <3>3 DEF Whole
    <2> QED BY <1>0, <2>1, <2>2, <2>3, <2>4 DEF Whole
  <1>5. CASE SaverShort(p)
    <2>1. pc = "save" /\ ~sound' /\ UNCHANGED <<disk, map>>
      BY <1>5 DEF SaverShort, Saving
    <2>2. (pc' = "save" /\ mem' = mem) \/ pc' = "failed"
      BY <1>5, <2>1 DEF SaverShort, ThreadTo, EndsWithError
    <2> QED BY <2>1, <2>2 DEF WhileTesting, WhileLoading, WhenComplete
  <1>6. CASE Loader(p)
    <2>1. pc = "load" /\ UNCHANGED <<disk, map, kind, sound>>
      BY <1>6 DEF Loader
    <2>2. sound => \E g \in 1..map : LoadedFrom(g)
      BY <2>1 DEF WhileLoading
    <2>3. CASE ~Readable(p) /\ EndsWithError
      <3>1. sound => NonEmptyFile(disk[Sentinel].size) /\ Refused(p)
        BY <2>2, <2>3, RefusedIfWhole
      <3>2. FailsOnlyByTheMap'
        BY <2>1, <3>1 DEF Refused
      <3> QED BY <2>3, <3>2 DEF EndsWithError, WhileTesting, WhileLoading, WhenComplete
    <2>4. CASE Reading(p) /\ thread' = [thread EXCEPT ![p] = "done"] /\ pc' = pc
      <3>1. \A g \in 1..map : LoadedFrom(g) => LoadedFrom(g)'
        <4> SUFFICES ASSUME NEW g \in 1..map, LoadedFrom(g)
                     PROVE  LoadedFrom(g)'
          OBVIOUS
        <4>1. disk[p] = Whole(g)
          BY DEF LoadedFrom
        <4>2. mem' = [mem EXCEPT ![p] = g]
          BY <2>4, <4>1 DEF Reading, Readable, Damaged, Content, Whole
        <4>3. mem'[p] = g /\ \A q \in Parts : q # p => mem'[q] = mem[q] /\ thread'[q] = thread[q]
          BY <2>4, <4>2 DEF TypeOK
        <4> QED BY <2>1, <2>4, <4>3 DEF LoadedFrom, Whole
      <3> QED BY <2>1, <2>2, <2>4, <3>1 DEF WhileTesting, WhileLoading, WhenComplete
    <2> QED BY <1>6, <2>3, <2>4 DEF Loader
  <1> QED BY <1>1, <1>2, <1>3, <1>4, <1>5, <1>6 DEF Saver

\* What happens between two runs does not matter to the invariant: it holds
\* because every run looks at the files anew.
LEMMA BetweenRuns ==
  ASSUME IInv, Remove \/ UpdateMap
  PROVE  IInv'
PROOF
  <1> USE DEF IInv, IdleAtFirst, NothingToLoad, Built, WhileSaving, FailsOnlyByTheMap,
              WhileTesting, WhileLoading, WhenComplete, mapVars
  <1>0. {"removal", "update"} \subseteq Upsets
    BY DEF Upsets
  <1>1. CASE Remove
    <2>1. pc = "down" /\ UNCHANGED <<pc, started, thread, mem, map, kind, sound>>
      BY <1>1 DEF Remove, procVars
    <2>2. left' \in [Upsets -> Nat]
      BY <1>0, <1>1, UpsetIsTyped DEF Remove, TypeOK
    <2>3. disk' \in [Parts -> [size : {"none", "stub", "part", "full"}, gen : 0..map]]
      BY <1>1 DEF Remove, Missing, TypeOK
    <2> QED BY <2>1, <2>2, <2>3 DEF TypeOK
  <1>2. CASE UpdateMap
    <2>1. pc = "down" /\ UNCHANGED <<pc, started, thread, mem, disk, sound>> /\ map' = map + 1
      BY <1>2 DEF UpdateMap, procVars
    <2>2. left' \in [Upsets -> Nat]
      BY <1>0, <1>2, UpsetIsTyped DEF UpdateMap, TypeOK
    <2>3. map' \in Nat \ {0} /\ 1..map \subseteq 1..map' /\ 0..map \subseteq 0..map'
      BY <2>1 DEF TypeOK
    <2>6. kind' \in [1..map' -> Kinds]
      <3>1. PICK k \in Kinds : kind' = [g \in 1..map + 1 |-> IF g \in 1..map THEN kind[g] ELSE k]
        BY <1>2 DEF UpdateMap
      <3> QED BY <2>1, <3>1 DEF TypeOK
    <2>4. mem' \in [Parts -> {Null, Corrupt} \cup 1..map']
      BY <2>1, <2>3 DEF TypeOK
    <2>5. disk' \in [Parts -> [size : {"none", "stub", "part", "full"}, gen : 0..map']]
      BY <2>1, <2>3 DEF TypeOK
    <2> QED BY <2>1, <2>2, <2>3, <2>4, <2>5, <2>6 DEF TypeOK
  <1> QED BY <1>1, <1>2

\* The inductive invariant holds in every reachable state.
THEOREM Inductive == Spec => []IInv
PROOF
  <1>1. Init => IInv
    <2> SUFFICES ASSUME Init
                 PROVE  IInv
      OBVIOUS
    <2>1. TypeOK
      BY BudgetAssumption, OrderAssumption
         DEF Init, TypeOK, AllIdle, Nothing, Missing, Null, Corrupt, Parts
    <2> QED BY <2>1 DEF Init, IInv, IdleAtFirst, NothingToLoad, Built, WhileTesting, WhileSaving,
                        WhileLoading, WhenComplete, FailsOnlyByTheMap
  <1>2. IInv /\ [Next]_vars => IInv'
    <2> SUFFICES ASSUME IInv, [Next]_vars
                 PROVE  IInv'
      OBVIOUS
    <2>0. TypeOK /\ Built
      BY DEF IInv
    <2> DEFINE Main == \/ Boot \/ TestSentinel \/ Parse \/ ParseFails \/ StartSaver
                       \/ SavesJoined \/ StartLoader \/ LoadersJoined \/ LoadSweden \/ Check \/ Fail
                       \/ Exit \/ Crash
    <2>1. CASE Main
      <3>1. TypeOK'
        BY <2>0, <2>1, MainKeepsTypes
      <3> QED BY <2>1, <3>1, MainKeepsPhases
    <2>2. ASSUME NEW p \in Parts, Saver(p) \/ Loader(p)
          PROVE  IInv'
      <3>1. TypeOK'
        BY <2>0, <2>2, ThreadKeepsTypes
      <3> QED BY <2>2, <3>1, ThreadKeepsPhases
    <2>3. CASE Remove \/ UpdateMap
      BY <2>3, BetweenRuns
    <2>4. CASE UNCHANGED vars
      BY <2>4 DEF IInv, TypeOK, IdleAtFirst, NothingToLoad, Built, WhileTesting, SoundCache, WhileSaving,
                  WhileLoading, LoadedFrom, WhenComplete, OneMap, Whole, FailsOnlyByTheMap,
                  Refused, vars, procVars, mapVars
    <2> QED BY <2>1, <2>2, <2>3, <2>4 DEF Next, Program
  <1> QED BY <1>1, <1>2, PTL DEF Spec

\* The variables keep their types.
THEOREM TypeCorrect == Spec => []TypeOK
PROOF BY Inductive, PTL DEF IInv

\* A run that found the files whole, or none, and could write them, serves
\* structures of one and the same map, all of them saved in full: the next
\* run finds what this one serves (globalobjects.cpp:308-345, 380-460).
THEOREM SoundRunsServeWhatTheySave == Spec => []ServedIsWhole
PROOF
  <1>1. IInv => ServedIsWhole
    BY DEF IInv, WhenComplete, OneMap, ServedIsWhole
  <1> QED BY <1>1, Inductive, PTL

\* If such a run fails to start, its map is the only cause: nothing can be
\* built from it, or a file that was written whole is refused.  No
\* interleaving of its own threads makes it fail (globalobjects.cpp:312-342,
\* 377-416).
THEOREM SoundRunsFailByTheMap == Spec => []FailsOnlyByTheMap
PROOF BY Inductive, PTL DEF IInv

-----------------------------------------------------------------------------
(***************************************************************************)
(* Why sweden finds all other structures as they will be: every file that  *)
(* is there was made from some map, so that a thread that is done leaves   *)
(* its structure out only if it found no file.                             *)
(***************************************************************************)
FilesAreOfAMap  == \A p \in Parts : disk[p].size # "none" => disk[p].gen # 0
MissesNoFile(p) == mem[p] = Null => disk[p].size = "none"
LoadedSoFar     == pc = "load" => \A p \in Parts : thread[p] = "done" => MissesNoFile(p)

LoadInv == FilesAreOfAMap /\ LoadedSoFar /\ SwedenLoadsLast

\* The threads and the world around the program write no file of no map.
LEMMA FilesStayOfAMap ==
  ASSUME IInv, FilesAreOfAMap, [Next]_vars
  PROVE  FilesAreOfAMap'
PROOF
  <1>1. TypeOK /\ Built
    BY DEF IInv
  <1>2. ASSUME UNCHANGED disk
        PROVE  FilesAreOfAMap'
    BY <1>2 DEF FilesAreOfAMap
  <1>3. ASSUME NEW p \in Parts, SaverOpen(p)
        PROVE  FilesAreOfAMap'
    <2>1. disk' = [disk EXCEPT ![p] = [size |-> "stub", gen |-> mem[p]]] /\ mem[p] = map
      BY <1>1, <1>3 DEF SaverOpen, Saving, Built
    <2>2. map # 0
      BY <1>1 DEF TypeOK
    <2> QED BY <1>1, <2>1, <2>2 DEF FilesAreOfAMap, TypeOK
  <1>4. ASSUME NEW p \in Parts, SaverGrow(p) \/ SaverFinish(p)
        PROVE  FilesAreOfAMap'
    <2>1. PICK s : disk' = [disk EXCEPT ![p].size = s]
      BY <1>4 DEF SaverGrow, SaverFinish
    <2>2. disk[p].size # "none"
      BY <1>4 DEF SaverGrow, SaverFinish
    <2>3. \A q \in Parts : disk'[q].gen = disk[q].gen /\ (q # p => disk'[q] = disk[q])
      BY <1>1, <2>1 DEF TypeOK
    <2> QED BY <2>2, <2>3 DEF FilesAreOfAMap
  <1>5. CASE Remove
    BY <1>5 DEF Remove, FilesAreOfAMap, Missing
  <1>6. CASE \/ Boot \/ TestSentinel \/ Parse \/ ParseFails \/ StartSaver \/ SavesJoined
             \/ StartLoader \/ LoadersJoined \/ LoadSweden \/ Check \/ Fail \/ Exit \/ Crash \/ UpdateMap
    <2>1. UNCHANGED disk
      BY <1>6 DEF Boot, TestSentinel, Parse, ParseFails, StartSaver, SavesJoined, StartLoader, StartThread,
                  LoadersJoined, LoadSweden, Check, Fail, Exit, Crash, Gone, UpdateMap
    <2> QED BY <1>2, <2>1
  <1>7. ASSUME NEW p \in Parts, SaverCannotOpen(p) \/ SaverShort(p) \/ Loader(p)
        PROVE  FilesAreOfAMap'
    BY <1>2, <1>7 DEF SaverCannotOpen, SaverShort, Loader
  <1>8. CASE UNCHANGED vars
    BY <1>2, <1>8 DEF vars
  <1> QED BY <1>3, <1>4, <1>5, <1>6, <1>7, <1>8 DEF Next, Program, Saver

\* A thread that is done has read its file, or there was none.
LEMMA LoaderMissesNoFile ==
  ASSUME IInv, LoadInv, NEW p \in Parts, Loader(p)
  PROVE  LoadedSoFar'
PROOF
  <1>1. TypeOK /\ pc = "load" /\ UNCHANGED disk
    BY DEF IInv, Loader
  <1>2. CASE EndsWithError
    BY <1>2 DEF EndsWithError, LoadedSoFar
  <1>3. CASE Reading(p) /\ thread' = [thread EXCEPT ![p] = "done"]
    <2>1. mem' = [mem EXCEPT ![p] = mem'[p]] /\ (mem'[p] = Null => disk[p].size = "none")
      <3>1. CASE Readable(p) /\ mem' = [mem EXCEPT ![p] = Content(p)]
        <4>1. mem'[p] = Content(p)
          BY <1>1, <3>1 DEF TypeOK
        <4> QED BY <3>1, <4>1 DEF LoadInv, FilesAreOfAMap, Content, Null
      <3>2. CASE mem' = [mem EXCEPT ![p] = Corrupt]
        <4>1. mem'[p] = Corrupt
          BY <1>1, <3>2 DEF TypeOK
        <4>2. Corrupt # Null
          BY DEF Corrupt, Null
        <4> QED BY <3>2, <4>1, <4>2
      <3> QED BY <1>3, <3>1, <3>2 DEF Reading
    <2>2. \A q \in Parts : q # p => mem'[q] = mem[q] /\ thread'[q] = thread[q]
      BY <1>1, <1>3, <2>1 DEF TypeOK
    <2> QED BY <1>1, <2>1, <2>2 DEF LoadInv, LoadedSoFar, MissesNoFile
  <1> QED BY <1>2, <1>3 DEF Loader

\* Sweden is loaded when the threads of all other structures are done, and a
\* structure that is missing then has no file it could be loaded from:
\* loadSweden() waits for none of its siblings and reads none half-made
\* (globalobjects.cpp:258-262, 404-416).
THEOREM SwedenFindsTheOthers == Spec => []SwedenLoadsLast
PROOF
  <1>1. Init => LoadInv
    BY DEF Init, LoadInv, FilesAreOfAMap, LoadedSoFar, SwedenLoadsLast, Missing
  <1>2. IInv /\ LoadInv /\ [Next]_vars => LoadInv'
    <2> SUFFICES ASSUME IInv, LoadInv, [Next]_vars
                 PROVE  LoadInv'
      OBVIOUS
    <2>0. TypeOK /\ IdleAtFirst
      BY DEF IInv
    <2>1. FilesAreOfAMap'
      BY FilesStayOfAMap DEF LoadInv
    <2> SUFFICES LoadedSoFar' /\ SwedenLoadsLast'
      BY <2>1 DEF LoadInv
    <2>2. CASE pc' \notin {"load", "loadSweden"}
      BY <2>2 DEF LoadedSoFar, SwedenLoadsLast
    <2>3. CASE TestSentinel
      BY <2>0, <2>3 DEF TestSentinel, IdleAtFirst, LoadedSoFar, SwedenLoadsLast
    <2>4. CASE StartLoader
      <3>1. pc' = "load" /\ UNCHANGED <<mem, disk>>
        BY <2>4 DEF StartLoader, StartThread
      <3>2. \A p \in Parts : thread'[p] = thread[p] \/ thread'[p] = "run"
        BY <2>0, <2>4 DEF StartLoader, StartThread, TypeOK
      <3>3. \A p \in Parts : thread'[p] = "done" => MissesNoFile(p)
        BY <2>4, <3>2 DEF LoadInv, LoadedSoFar, StartLoader
      <3> QED BY <3>1, <3>3 DEF LoadedSoFar, SwedenLoadsLast, MissesNoFile
    <2>5. CASE LoadersJoined
      BY <2>5 DEF LoadersJoined, LoadInv, LoadedSoFar, SwedenLoadsLast, MissesNoFile
    <2>6. ASSUME NEW p \in Parts, Loader(p)
          PROVE  LoadedSoFar' /\ SwedenLoadsLast'
      <3>1. pc' # "loadSweden"
        BY <2>6 DEF Loader, EndsWithError
      <3> QED BY <2>6, <3>1, LoaderMissesNoFile DEF SwedenLoadsLast
    <2>7. CASE UNCHANGED vars
      BY <2>7 DEF vars, procVars, LoadInv, LoadedSoFar, SwedenLoadsLast, MissesNoFile
    <2>8. CASE \/ Boot \/ Parse \/ ParseFails \/ StartSaver \/ SavesJoined \/ LoadSweden \/ Check \/ Fail
               \/ Exit \/ Crash \/ Remove \/ UpdateMap
      BY <2>2, <2>8 DEF Boot, Parse, ParseFails, StartSaver, StartThread, SavesJoined, LoadSweden, Check,
                        EndsWithError, Fail, Exit, Crash, Gone, Remove, UpdateMap, procVars
    <2>9. ASSUME NEW p \in Parts, Saver(p)
          PROVE  pc' \notin {"load", "loadSweden"}
      BY <2>9 DEF Saver, SaverOpen, SaverCannotOpen, SaverGrow, SaverFinish, SaverShort, Saving,
                  ThreadTo, EndsWithError, procVars
    <2> QED BY <2>2, <2>3, <2>4, <2>5, <2>6, <2>7, <2>8, <2>9 DEF Next, Program
  <1> QED BY <1>1, <1>2, Inductive, PTL DEF Spec, LoadInv
=============================================================================
