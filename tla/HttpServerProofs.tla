-------------------------- MODULE HttpServerProofs --------------------------
(***************************************************************************)
(* Theorems about HttpServer, for any number of clients and of slave       *)
(* connections, any requests and any size of the buffer; and that they     *)
(* hold of the server that HttpPages describes, which chooses the pages.   *)
(***************************************************************************)
EXTENDS HttpPages, TLAPS

(***************************************************************************)
(* What makes the invariants inductive: connections wait once, unread and  *)
(* unanswered, in the queue of the kernel, and the slave connections still *)
(* to be looked at in a round are in use.                                  *)
(***************************************************************************)
QueuedOnce ==
  /\ \A k \in 1..Len(backlog) : conn[backlog[k]] = "queued"
  /\ \A k, l \in 1..Len(backlog) : backlog[k] = backlog[l] => k = l
SomeoneToAccept == pc = "accept" => backlog # <<>>
ReadyAreInUse   == pc = "scan" => \A i \in ready : slots[i] # NoConn
UnreadAtFirst   == \A c \in Conns : conn[c] \in {"new", "queued"} => read[c] = 0
UnansweredYet   == \A c \in Conns : conn[c] # "closed" => answer[c] = <<>>

IInv == /\ TypeOK /\ QueuedOnce /\ SomeoneToAccept /\ ReadyAreInUse /\ UnreadAtFirst
        /\ UnansweredYet /\ OpenConnectionsAreWatched /\ AnsweredExactlyOnce
        /\ BufferIsWhatWasReceived

-----------------------------------------------------------------------------
\* The invariants speak of these variables only.
LEMMA OthersMayChange ==
  ASSUME IInv, TypeOK',
         UNCHANGED <<slots, pos, ready, backlog, conn, gone, read, answer>>,
         pc' = "accept" => backlog # <<>>, pc' = "scan" => pc = "scan"
  PROVE  IInv'
PROOF BY DEF IInv, QueuedOnce, SomeoneToAccept, ReadyAreInUse, UnreadAtFirst, UnansweredYet,
             OpenConnectionsAreWatched, AnsweredExactlyOnce, BufferIsWhatWasReceived

\* The room in a buffer leaves a place for the end of the string.
LEMMA RoomIsRoom ==
  ASSUME TypeOK, NEW i \in Slots
  PROVE  Room(i) \in 0..(BufferSize - 1) /\ pos[i] + Room(i) = BufferSize - 1
PROOF
  <1>1. pos[i] \in 0..(BufferSize - 1) /\ BufferSize \in Nat \ {0, 1}
    BY SizeAssumption DEF TypeOK
  <1> QED BY <1>1 DEF Room

\* What is received is something, and fits into the room.
LEMMA ReceivedFits ==
  ASSUME TypeOK, NEW i \in Slots, slots[i] # NoConn, Room(i) > 0, HasData(slots[i])
  PROVE  /\ Received(i) \in Nat \ {0} /\ Received(i) <= Room(i)
         /\ pos[i] + Received(i) \in 0..(BufferSize - 1)
         /\ read[slots[i]] + Received(i) \in Nat
PROOF
  <1>1. slots[i] \in Conns /\ pos[i] \in 0..(BufferSize - 1) /\ BufferSize \in Nat \ {0, 1}
    BY SizeAssumption DEF TypeOK
  <1>2. sent[slots[i]] \in Nat /\ read[slots[i]] \in Nat
    BY <1>1 DEF TypeOK
  <1>3. sent[slots[i]] > read[slots[i]]
    BY DEF HasData
  <1>4. Room(i) \in Nat /\ pos[i] + Room(i) = BufferSize - 1
    BY RoomIsRoom, <1>1
  <1>5. Received(i) \in Nat \ {0} /\ Received(i) <= Room(i)
    BY <1>2, <1>3, <1>4 DEF Received
  <1> QED BY <1>1, <1>2, <1>4, <1>5

-----------------------------------------------------------------------------
\* Neither the start and the end of waiting nor the world but for new
\* connections touches what the invariants speak of.
LEMMA WaitingKeepsInvariant ==
  ASSUME IInv,
         \/ InstallHandler \/ BlockSignals \/ LeaveLoop \/ Select \/ Interrupted \/ Signal
         \/ \E c \in Conns : Send(c) \/ Leave(c)
  PROVE  IInv'
PROOF
  <1>0. TypeOK
    BY DEF IInv
  <1>1. CASE InstallHandler \/ BlockSignals \/ LeaveLoop \/ Interrupted
    <2>1. TypeOK'
      BY <1>0, <1>1 DEF TypeOK, InstallHandler, BlockSignals, LeaveLoop, Interrupted,
                        serverVars, clientVars
    <2> QED BY <1>1, <2>1, OthersMayChange
            DEF InstallHandler, BlockSignals, LeaveLoop, Interrupted, serverVars, clientVars
  <1>2. CASE Select
    <2>1. TypeOK'
      BY <1>0, <1>2 DEF TypeOK, Select, Reported, ReadySlots, clientVars
    <2>2. SomeoneToAccept' /\ ReadyAreInUse'
      BY <1>2 DEF Select, Reported, ReadySlots, SomeoneToAccept, ReadyAreInUse
    <2> QED BY <1>2, <2>1, <2>2
            DEF Select, clientVars, IInv, QueuedOnce, UnreadAtFirst, UnansweredYet,
                OpenConnectionsAreWatched, AnsweredExactlyOnce, BufferIsWhatWasReceived
  <1>3. CASE Signal
    <2>1. TypeOK'
      BY <1>0, <1>3 DEF TypeOK, Signal, Stopped, clientVars
    <2>2. pc' \in {pc, "killed"}
      BY <1>3 DEF Signal
    <2>3. SomeoneToAccept
      BY DEF IInv
    <2> QED BY <1>3, <2>1, <2>2, <2>3, OthersMayChange DEF Signal, clientVars, SomeoneToAccept
  <1>4. ASSUME NEW c \in Conns, Send(c)
        PROVE  IInv'
    <2>1. sent' \in [Conns -> Nat]
      <3>1. \A n \in Request[c].cuts : n \in Nat
        BY RequestAssumption DEF Requests
      <3> QED BY <1>0, <1>4, <3>1 DEF Send, TypeOK
    <2>2. TypeOK'
      BY <1>0, <1>4, <2>1 DEF TypeOK, Send, serverVars
    <2>3. SomeoneToAccept
      BY DEF IInv
    <2> QED BY <1>4, <2>2, <2>3, OthersMayChange DEF Send, serverVars, SomeoneToAccept
  <1>5. ASSUME NEW c \in Conns, Leave(c)
        PROVE  IInv'
    <2>1. TypeOK'
      BY <1>0, <1>5 DEF TypeOK, Leave, serverVars
    <2>2. \A d \in Conns : gone[d] => gone'[d]
      BY <1>0, <1>5 DEF TypeOK, Leave
    <2>3. AnsweredExactlyOnce'
      BY <1>5, <2>2 DEF IInv, AnsweredExactlyOnce, Leave
    <2> QED BY <1>5, <2>1, <2>3
            DEF Leave, serverVars, IInv, QueuedOnce, SomeoneToAccept, ReadyAreInUse,
                UnreadAtFirst, UnansweredYet, OpenConnectionsAreWatched, BufferIsWhatWasReceived
  <1> QED BY <1>1, <1>2, <1>3, <1>4, <1>5

\* A new connection is queued once, because it was not in the queue.
LEMMA ConnectKeepsInvariant ==
  ASSUME IInv, NEW c \in Conns, Connect(c)
  PROVE  IInv'
PROOF
  <1>1. /\ TypeOK /\ QueuedOnce /\ conn[c] = "new" /\ pc' = pc
        /\ conn' = [conn EXCEPT ![c] = "queued"] /\ backlog' = Append(backlog, c)
        /\ UNCHANGED <<slots, pos, ready, doexit, errno, sig, sent, gone, read, answer>>
    BY DEF IInv, Connect, serverVars, clientVars
  <1>2. TypeOK'
    BY <1>1 DEF TypeOK
  <1>3. \A d \in Conns : conn'[d] = IF d = c THEN "queued" ELSE conn[d]
    BY <1>1 DEF TypeOK
  <1>4. /\ backlog \in Seq(Conns) /\ Len(backlog') = Len(backlog) + 1
        /\ \A k \in 1..Len(backlog) : backlog'[k] = backlog[k] /\ backlog[k] # c
        /\ backlog'[Len(backlog) + 1] = c
    BY <1>1 DEF TypeOK, QueuedOnce
  <1>5. QueuedOnce'
    BY <1>1, <1>3, <1>4 DEF QueuedOnce
  <1>6. SomeoneToAccept' /\ ReadyAreInUse'
    BY <1>1, <1>4 DEF IInv, SomeoneToAccept, ReadyAreInUse
  <1>7. UnreadAtFirst' /\ UnansweredYet' /\ OpenConnectionsAreWatched' /\ AnsweredExactlyOnce'
    BY <1>1, <1>3 DEF IInv, UnreadAtFirst, UnansweredYet, OpenConnectionsAreWatched,
                      AnsweredExactlyOnce
  <1> QED BY <1>1, <1>2, <1>5, <1>6, <1>7 DEF IInv, BufferIsWhatWasReceived

\* The queue without its first connection.
LEMMA Dequeued ==
  ASSUME IInv, pc = "accept"
  PROVE  /\ Head(backlog) \in Conns /\ conn[Head(backlog)] = "queued"
         /\ Tail(backlog) \in Seq(Conns)
         /\ \A k \in 1..Len(Tail(backlog)) :
              Tail(backlog)[k] # Head(backlog) /\ conn[Tail(backlog)[k]] = "queued"
         /\ \A k, l \in 1..Len(Tail(backlog)) : Tail(backlog)[k] = Tail(backlog)[l] => k = l
PROOF
  <1>1. backlog \in Seq(Conns) /\ backlog # <<>>
    BY DEF IInv, TypeOK, SomeoneToAccept
  <1>2. /\ Len(backlog) \in Nat \ {0} /\ Head(backlog) = backlog[1]
        /\ Head(backlog) \in Conns /\ Tail(backlog) \in Seq(Conns)
        /\ Len(Tail(backlog)) = Len(backlog) - 1
        /\ \A k \in 1..Len(Tail(backlog)) : Tail(backlog)[k] = backlog[k + 1]
    BY <1>1
  <1>3. \A k \in 1..Len(Tail(backlog)) : k + 1 \in 1..Len(backlog) /\ k + 1 # 1
    BY <1>2
  <1>4. 1 \in 1..Len(backlog)
    BY <1>2
  <1>5. \A k \in 1..Len(Tail(backlog)) :
          Tail(backlog)[k] # Head(backlog) /\ conn[Tail(backlog)[k]] = "queued"
    BY <1>2, <1>3, <1>4 DEF IInv, QueuedOnce
  <1>6. \A k, l \in 1..Len(Tail(backlog)) : Tail(backlog)[k] = Tail(backlog)[l] => k = l
    <2> TAKE k, l \in 1..Len(Tail(backlog))
    <2>1. backlog[k + 1] = backlog[l + 1] => k + 1 = l + 1
      BY <1>3 DEF IInv, QueuedOnce
    <2> QED BY <1>2, <2>1
  <1>7. conn[Head(backlog)] = "queued"
    BY <1>2, <1>4 DEF IInv, QueuedOnce
  <1> QED BY <1>2, <1>5, <1>6, <1>7

\* Taking a free slave connection, refusing the connection and failing to
\* accept it each take it out of the queue.
LEMMA AcceptKeepsInvariant ==
  ASSUME IInv, Accept \/ AcceptFails
  PROVE  IInv'
PROOF
  <1> DEFINE c == Head(backlog)
  <1>0. TypeOK /\ pc = "accept" /\ backlog' = Tail(backlog) /\ UNCHANGED <<ready, sent, gone, read>>
    BY DEF IInv, Accept, AcceptFails, serverVars, clientVars
  <1>1. /\ c \in Conns /\ conn[c] = "queued" /\ answer[c] = <<>> /\ read[c] = 0
        /\ \A i \in Slots : slots[i] # c
    BY <1>0, Dequeued DEF IInv, UnansweredYet, UnreadAtFirst, OpenConnectionsAreWatched
  <1>2. ASSUME \A d \in Conns : d # c => conn'[d] = conn[d], conn'[c] # "queued",
               conn' \in [Conns -> {"new", "queued", "open", "closed"}]
        PROVE  QueuedOnce' /\ UnreadAtFirst'
    <2>1. UnreadAtFirst'
      BY <1>0, <1>1, <1>2 DEF IInv, UnreadAtFirst
    <2>2. \A k \in 1..Len(Tail(backlog)) : Tail(backlog)[k] \in Conns
      BY <1>0, Dequeued
    <2>3. QueuedOnce'
      BY <1>0, <1>2, <2>2, Dequeued DEF QueuedOnce
    <2> QED BY <2>1, <2>3
  <1>3. ASSUME pc' = "killed", UNCHANGED <<slots, pos, conn, answer>>, TypeOK'
        PROVE  IInv'
    <2>1. QueuedOnce'
      BY <1>0, <1>3, Dequeued DEF QueuedOnce
    <2> QED BY <1>0, <1>3, <2>1
            DEF IInv, SomeoneToAccept, ReadyAreInUse, UnreadAtFirst, UnansweredYet,
                OpenConnectionsAreWatched, AnsweredExactlyOnce, BufferIsWhatWasReceived
  <1>4. ASSUME NEW i \in Slots, FirstFree(i), TakeSlot(i, c), Accept, pc' = "loop",
               conn' = [conn EXCEPT ![c] = "open"], answer' = answer
        PROVE  IInv'
    <2>1. TypeOK'
      <3>1. backlog' \in Seq(Conns)
        BY <1>0, Dequeued
      <3>2. 0 \in 0..(BufferSize - 1)
        BY SizeAssumption
      <3> QED BY <1>0, <1>1, <1>4, <3>1, <3>2 DEF TypeOK, Accept, TakeSlot, clientVars
    <2>2. /\ slots[i] = NoConn /\ slots'[i] = c /\ pos'[i] = 0
          /\ \A j \in Slots : j # i => slots'[j] = slots[j] /\ pos'[j] = pos[j]
          /\ \A d \in Conns : conn'[d] = IF d = c THEN "open" ELSE conn[d]
      BY <1>0, <1>4 DEF TypeOK, FirstFree, FreeSlots, TakeSlot
    <2>3. QueuedOnce' /\ UnreadAtFirst'
      BY <1>1, <1>2, <2>1, <2>2 DEF TypeOK
    <2>4. SomeoneToAccept' /\ ReadyAreInUse'
      BY <1>4 DEF SomeoneToAccept, ReadyAreInUse
    <2>5. UnansweredYet' /\ AnsweredExactlyOnce'
      BY <1>0, <1>1, <1>4, <2>2 DEF IInv, UnansweredYet, AnsweredExactlyOnce
    <2>6. OpenConnectionsAreWatched'
      BY <1>1, <2>2, ConnsAssumption DEF IInv, OpenConnectionsAreWatched
    <2>7. BufferIsWhatWasReceived'
      BY <1>0, <1>1, <2>2 DEF IInv, BufferIsWhatWasReceived
    <2> QED BY <2>1, <2>3, <2>4, <2>5, <2>6, <2>7 DEF IInv
  <1>5. ASSUME pc' = "loop", UNCHANGED <<slots, pos>>, conn' = [conn EXCEPT ![c] = "closed"], TypeOK',
               \A d \in Conns : d # c => answer'[d] = answer[d],
               Len(answer'[c]) <= 1, ~gone[c] => Len(answer'[c]) = 1
        PROVE  IInv'
    <2>1. \A d \in Conns : conn'[d] = IF d = c THEN "closed" ELSE conn[d]
      BY <1>0, <1>5 DEF TypeOK
    <2>2. QueuedOnce' /\ UnreadAtFirst'
      BY <1>1, <1>2, <1>5, <2>1 DEF TypeOK
    <2>3. SomeoneToAccept' /\ ReadyAreInUse'
      BY <1>5 DEF SomeoneToAccept, ReadyAreInUse
    <2>4. UnansweredYet' /\ AnsweredExactlyOnce'
      <3>1. UnansweredYet'
        BY <1>0, <1>1, <1>5, <2>1 DEF IInv, UnansweredYet
      <3>2. Len(answer'[c]) <= 1 /\ (~gone'[c] => Len(answer'[c]) = 1)
        BY <1>0, <1>5
      <3>3. AnsweredExactlyOnce
        BY DEF IInv
      <3> QED BY <1>0, <1>5, <2>1, <3>1, <3>2, <3>3 DEF AnsweredExactlyOnce
    <2>5. OpenConnectionsAreWatched' /\ BufferIsWhatWasReceived'
      BY <1>0, <1>1, <1>5, <2>1 DEF IInv, OpenConnectionsAreWatched, BufferIsWhatWasReceived
    <2> QED BY <1>5, <2>2, <2>3, <2>4, <2>5 DEF IInv
  <1>6. CASE AcceptFails
    <2>1. TypeOK'
      <3>1. backlog' \in Seq(Conns)
        BY <1>0, Dequeued
      <3> QED BY <1>0, <1>1, <1>6, <3>1 DEF TypeOK, AcceptFails, serverVars, clientVars
    <2>2. gone[c] /\ Len(answer'[c]) <= 1
      BY <1>1, <1>6 DEF AcceptFails
    <2> QED BY <1>1, <1>5, <1>6, <2>1, <2>2 DEF AcceptFails, serverVars
  <1>7. CASE Accept
    <2>0. backlog' \in Seq(Conns) /\ errno' \in BOOLEAN
      <3>1. errno' \in BOOLEAN
        BY <1>0, <1>7 DEF TypeOK, Accept, PageWritten
      <3> QED BY <1>0, <3>1, Dequeued
    <2>1. CASE Answered(c, "500") /\ pc' = "loop" /\ UNCHANGED <<slots, pos>>
      <3>1. Append(answer[c], "500") = <<"500">> /\ Len(<<"500">>) = 1
        BY <1>1
      <3>2. answer' = [answer EXCEPT ![c] = <<"500">>] /\ conn' = [conn EXCEPT ![c] = "closed"]
        BY <2>1, <3>1 DEF Answered
      <3>3. <<"500">> \in Seq({"page", "400", "500"})
        OBVIOUS
      <3>4. answer' \in [Conns -> Seq({"page", "400", "500"})]
        BY <1>0, <3>2, <3>3 DEF TypeOK
      <3>5. TypeOK'
        BY <1>0, <1>1, <1>7, <2>0, <2>1, <3>2, <3>4 DEF TypeOK, Accept, clientVars
      <3>6. answer'[c] = <<"500">> /\ \A d \in Conns : d # c => answer'[d] = answer[d]
        BY <1>0, <1>1, <3>2 DEF TypeOK
      <3>7. Len(answer'[c]) <= 1 /\ Len(answer'[c]) = 1
        BY <3>1, <3>6
      <3> QED BY <1>5, <2>1, <3>2, <3>5, <3>6, <3>7
    <2>2. CASE BrokenPipe(c) /\ UNCHANGED <<slots, pos>>
      <3>1. TypeOK'
        BY <1>0, <1>7, <2>0, <2>2 DEF TypeOK, Accept, BrokenPipe, clientVars
      <3> QED BY <1>3, <2>2, <3>1 DEF BrokenPipe
    <2>3. ASSUME NEW i \in Slots, FirstFree(i), TakeSlot(i, c), pc' = "loop",
                 conn' = [conn EXCEPT ![c] = "open"], answer' = answer
          PROVE  IInv'
      BY <1>4, <1>7, <2>3
    <2> QED BY <1>7, <2>1, <2>2, <2>3 DEF Accept
  <1> QED BY <1>6, <1>7

\* A slave connection is given up: its connection is closed and answered, or
\* its client has left.
LEMMA ReleaseKeepsInvariant ==
  ASSUME IInv, TypeOK', NEW i \in Slots, slots[i] # NoConn, pc = "scan",
         Passed(i), Released(i), conn' = [conn EXCEPT ![slots[i]] = "closed"],
         \A d \in Conns : d # slots[i] => answer'[d] = answer[d] /\ read'[d] = read[d],
         Len(answer'[slots[i]]) <= 1,
         ~gone[slots[i]] => Len(answer'[slots[i]]) = 1,
         \A j \in Slots : j # i => pos'[j] = pos[j],
         UNCHANGED <<backlog, gone>>
  PROVE  IInv'
PROOF
  <1> DEFINE c == slots[i]
  <1>0. TypeOK /\ c \in Conns /\ conn[c] = "open"
    BY DEF IInv, TypeOK, OpenConnectionsAreWatched
  <1>1. \A d \in Conns : conn'[d] = IF d = c THEN "closed" ELSE conn[d]
    BY <1>0 DEF TypeOK
  <1>2. \A j \in Slots : slots'[j] = IF j = i THEN NoConn ELSE slots[j]
    BY <1>0 DEF Released, TypeOK
  <1>3. \A j \in Slots : j # i /\ slots[j] # NoConn => slots[j] # c
    BY <1>0 DEF IInv, OpenConnectionsAreWatched
  <1>4. QueuedOnce'
    <2>1. \A k \in 1..Len(backlog) : backlog[k] \in Conns
      BY <1>0 DEF TypeOK
    <2> QED BY <1>0, <1>1, <2>1 DEF IInv, QueuedOnce
  <1>5. SomeoneToAccept'
    BY DEF Passed, SomeoneToAccept
  <1>6. ReadyAreInUse'
    <2>1. ready \subseteq Slots /\ ready' = ready \ {i}
      BY <1>0 DEF TypeOK, Passed
    <2> QED BY <1>2, <2>1 DEF IInv, ReadyAreInUse
  <1>7. UnreadAtFirst' /\ UnansweredYet'
    BY <1>0, <1>1 DEF IInv, UnreadAtFirst, UnansweredYet
  <1>8. AnsweredExactlyOnce'
    <2>1. AnsweredExactlyOnce
      BY DEF IInv
    <2> QED BY <1>0, <1>1, <2>1 DEF AnsweredExactlyOnce
  <1>9. OpenConnectionsAreWatched'
    BY <1>0, <1>1, <1>2, <1>3, ConnsAssumption DEF IInv, OpenConnectionsAreWatched
  <1>10. BufferIsWhatWasReceived'
    <2>1. \A j \in Slots : slots[j] # NoConn => slots[j] \in Conns
      BY <1>0 DEF TypeOK
    <2> QED BY <1>2, <1>3, <2>1 DEF IInv, BufferIsWhatWasReceived
  <1> QED BY <1>4, <1>5, <1>6, <1>7, <1>8, <1>9, <1>10 DEF IInv

\* An answer to a connection that had none.
LEMMA FirstAnswer ==
  ASSUME IInv, NEW c \in Conns, conn[c] = "open", NEW a \in {"page", "400", "500"},
         Answered(c, a)
  PROVE  /\ answer' \in [Conns -> Seq({"page", "400", "500"})]
         /\ conn' \in [Conns -> {"new", "queued", "open", "closed"}]
         /\ conn' = [conn EXCEPT ![c] = "closed"]
         /\ Len(answer'[c]) = 1
         /\ \A d \in Conns : d # c => answer'[d] = answer[d]
PROOF
  <1>1. answer[c] = <<>> /\ TypeOK
    BY DEF IInv, UnansweredYet
  <1>2. Append(answer[c], a) = <<a>> /\ Len(<<a>>) = 1 /\ <<a>> \in Seq({"page", "400", "500"})
    BY <1>1
  <1>3. answer' = [answer EXCEPT ![c] = <<a>>] /\ conn' = [conn EXCEPT ![c] = "closed"]
    BY <1>2 DEF Answered
  <1>4. answer'[c] = <<a>>
    BY <1>1, <1>3 DEF TypeOK
  <1> QED BY <1>1, <1>2, <1>3, <1>4 DEF TypeOK

\* One step of a pass over the slave connections.
LEMMA SlaveKeepsInvariant ==
  ASSUME IInv, NEW i \in Slots, Slave(i)
  PROVE  IInv'
PROOF
  <1> DEFINE c == slots[i]
  <1>0. /\ TypeOK /\ pc = "scan" /\ i \in ready /\ c # NoConn /\ c \in Conns /\ conn[c] = "open"
        /\ UNCHANGED <<doexit, sig, backlog, sent, gone>>
    <2>1. TypeOK /\ Examined(i) /\ UNCHANGED <<doexit, sig, backlog, sent, gone>>
      BY DEF IInv, Slave, BufferFull, RecvEnd, RecvData, clientVars
    <2>2. c # NoConn
      BY <2>1 DEF Examined, IInv, ReadyAreInUse
    <2> QED BY <2>1, <2>2 DEF Examined, IInv, OpenConnectionsAreWatched, TypeOK
  <1>1. /\ errno' \in BOOLEAN
        /\ pos' \in [Slots -> 0..(BufferSize - 1)] /\ read' \in [Conns -> Nat]
        /\ \A j \in Slots : j # i => pos'[j] = pos[j]
        /\ \A d \in Conns : d # c => read'[d] = read[d]
        /\ pos'[i] = read'[c]
    <2>1. pos[i] = read[c]
      BY <1>0 DEF IInv, BufferIsWhatWasReceived
    <2>2. CASE BufferFull(i) \/ RecvEnd(i)
      <3>1. errno' \in BOOLEAN
        BY <1>0, <2>2 DEF BufferFull, RecvEnd, TypeOK, PageWritten
      <3> QED BY <1>0, <2>1, <2>2, <3>1 DEF TypeOK, BufferFull, RecvEnd
    <2>3. CASE RecvData(i)
      <3>1. errno' \in BOOLEAN
        BY <1>0, <2>3 DEF RecvData, TypeOK, PageWritten
      <3>2. /\ pos' = [pos EXCEPT ![i] = @ + Received(i)]
            /\ read' = [read EXCEPT ![c] = @ + Received(i)]
        BY <2>3 DEF RecvData
      <3>3. pos[i] + Received(i) \in 0..(BufferSize - 1) /\ read[c] + Received(i) \in Nat
        BY <1>0, <2>3, ReceivedFits DEF RecvData
      <3> QED BY <1>0, <2>1, <3>1, <3>2, <3>3 DEF TypeOK
    <2> QED BY <2>2, <2>3 DEF Slave
  <1>2. CASE Passed(i) /\ UNCHANGED <<slots, conn, answer>>
    <2>1. TypeOK'
      BY <1>0, <1>1, <1>2 DEF TypeOK, Passed
    <2>2. SomeoneToAccept'
      BY <1>2 DEF Passed, SomeoneToAccept
    <2>3. ReadyAreInUse'
      BY <1>0, <1>2 DEF IInv, ReadyAreInUse, Passed
    <2>4. BufferIsWhatWasReceived'
      <3>1. \A j \in Slots : slots[j] # NoConn /\ j # i => slots[j] # c /\ slots[j] \in Conns
        BY <1>0 DEF IInv, OpenConnectionsAreWatched, TypeOK
      <3> QED BY <1>0, <1>1, <1>2, <3>1 DEF IInv, BufferIsWhatWasReceived
    <2>5. UnreadAtFirst'
      BY <1>0, <1>1, <1>2 DEF IInv, UnreadAtFirst
    <2> QED BY <1>0, <1>2, <2>1, <2>2, <2>3, <2>4, <2>5
            DEF IInv, QueuedOnce, UnansweredYet, OpenConnectionsAreWatched, AnsweredExactlyOnce
  <1>3. CASE Passed(i) /\ Released(i) /\ UNCHANGED answer /\ gone[c]
             /\ conn' = [conn EXCEPT ![c] = "closed"]
    <2>1. TypeOK'
      BY <1>0, <1>1, <1>3 DEF TypeOK, Passed, Released
    <2>2. Len(answer'[c]) <= 1
      BY <1>0, <1>3 DEF IInv, AnsweredExactlyOnce
    <2> QED BY <1>0, <1>1, <1>3, <2>1, <2>2, ReleaseKeepsInvariant
  <1>4. ASSUME NEW a \in {"page", "400", "500"}, Answered(c, a), Passed(i), Released(i)
        PROVE  IInv'
    <2>1. /\ answer' \in [Conns -> Seq({"page", "400", "500"})]
          /\ conn' \in [Conns -> {"new", "queued", "open", "closed"}]
          /\ conn' = [conn EXCEPT ![c] = "closed"]
          /\ Len(answer'[c]) = 1
          /\ \A d \in Conns : d # c => answer'[d] = answer[d]
      BY <1>0, <1>4, FirstAnswer
    <2>2. TypeOK'
      BY <1>0, <1>1, <1>4, <2>1 DEF TypeOK, Passed, Released
    <2>3. Len(answer'[c]) <= 1
      BY <2>1
    <2> QED BY <1>0, <1>1, <1>4, <2>1, <2>2, <2>3, ReleaseKeepsInvariant
  <1>5. CASE BrokenPipe(c) /\ UNCHANGED <<ready, slots>>
    <2>1. pc' = "killed" /\ UNCHANGED <<answer, conn>>
      BY <1>5 DEF BrokenPipe
    <2>2. TypeOK'
      BY <1>0, <1>1, <1>5, <2>1 DEF TypeOK
    <2>3. BufferIsWhatWasReceived'
      <3>1. \A j \in Slots : slots[j] # NoConn /\ j # i => slots[j] # c /\ slots[j] \in Conns
        BY <1>0 DEF IInv, OpenConnectionsAreWatched, TypeOK
      <3> QED BY <1>0, <1>1, <1>5, <3>1 DEF IInv, BufferIsWhatWasReceived
    <2>4. UnreadAtFirst'
      BY <1>0, <1>1, <2>1 DEF IInv, UnreadAtFirst
    <2> QED BY <1>0, <1>5, <2>1, <2>2, <2>3, <2>4
            DEF IInv, QueuedOnce, SomeoneToAccept, ReadyAreInUse, UnansweredYet,
                OpenConnectionsAreWatched, AnsweredExactlyOnce
  <1>6. ASSUME NEW a \in {"page", "400", "500"}, GiveUp(i, a)
        PROVE  IInv'
    BY <1>4, <1>5, <1>6 DEF GiveUp
  <1>7. CASE BufferFull(i)
    BY <1>6, <1>7 DEF BufferFull
  <1>8. CASE RecvEnd(i)
    BY <1>3, <1>6, <1>8 DEF RecvEnd
  <1>9. CASE RecvData(i)
    BY <1>2, <1>6, <1>9 DEF RecvData
  <1> QED BY <1>7, <1>8, <1>9 DEF Slave

\* At the end every open connection is answered and closed, unless a client
\* that has left takes the server with it.
LEMMA CloseKeepsInvariant ==
  ASSUME IInv, CloseSlots
  PROVE  IInv'
PROOF
  <1> DEFINE open == {slots[i] : i \in Slots} \ {NoConn}
  <1>0. /\ TypeOK /\ errno' \in BOOLEAN
        /\ UNCHANGED <<pos, ready, doexit, sig, backlog, sent, gone, read>>
    <2>1. TypeOK /\ UNCHANGED <<pos, ready, doexit, sig, backlog, sent, gone, read>>
      BY DEF IInv, CloseSlots, clientVars
    <2>2. errno' \in BOOLEAN
      BY <2>1 DEF TypeOK, CloseSlots, PageWritten
    <2> QED BY <2>1, <2>2
  <1>1. \A c \in Conns : c \in open <=> conn[c] = "open"
    BY ConnsAssumption DEF IInv, OpenConnectionsAreWatched
  <1>2. CASE /\ slots' = [i \in Slots |-> NoConn]
             /\ conn' = [c \in Conns |-> IF c \in open THEN "closed" ELSE conn[c]]
             /\ answer' = [c \in Conns |-> IF c \in open THEN Append(answer[c], "500") ELSE answer[c]]
             /\ pc' = "ended"
    <2>1. \A c \in Conns : c \in open =>
            answer[c] = <<>> /\ Append(answer[c], "500") = <<"500">>
      <3>1. \A c \in Conns : c \in open => answer[c] = <<>>
        BY <1>1 DEF IInv, UnansweredYet
      <3>2. Append(<<>>, "500") = <<"500">>
        OBVIOUS
      <3> QED BY <3>1, <3>2
    <2>2. <<"500">> \in Seq({"page", "400", "500"}) /\ Len(<<"500">>) = 1
      OBVIOUS
    <2>3. TypeOK'
      <3>1. answer' \in [Conns -> Seq({"page", "400", "500"})]
        BY <1>0, <1>2, <2>1, <2>2 DEF TypeOK
      <3> QED BY <1>0, <1>2, <3>1 DEF TypeOK
    <2>4. \A c \in Conns : /\ conn'[c] = IF conn[c] = "open" THEN "closed" ELSE conn[c]
                           /\ answer'[c] = IF conn[c] = "open" THEN <<"500">> ELSE answer[c]
      BY <1>1, <1>2, <2>1
    <2>5. QueuedOnce'
      <3>1. \A k \in 1..Len(backlog) : backlog[k] \in Conns
        BY <1>0 DEF TypeOK
      <3> QED BY <1>0, <2>4, <3>1 DEF IInv, QueuedOnce
    <2>6. UnreadAtFirst' /\ UnansweredYet'
      BY <1>0, <2>4 DEF IInv, UnreadAtFirst, UnansweredYet
    <2>7. AnsweredExactlyOnce'
      <3>1. AnsweredExactlyOnce
        BY DEF IInv
      <3>2. ASSUME NEW c \in Conns, conn[c] = "open"
            PROVE  Len(answer'[c]) = 1 /\ conn'[c] = "closed"
        BY <2>2, <2>4, <3>2
      <3>3. ASSUME NEW c \in Conns, conn[c] # "open"
            PROVE  answer'[c] = answer[c] /\ conn'[c] = conn[c]
        BY <2>4, <3>3
      <3>4. \A c \in Conns : gone'[c] = gone[c]
        BY <1>0
      <3>5. ASSUME NEW c \in Conns
            PROVE  /\ Len(answer'[c]) = 1 => conn'[c] = "closed"
                   /\ Len(answer'[c]) <= 1
                   /\ conn'[c] = "closed" /\ ~gone'[c] => Len(answer'[c]) = 1
        <4>1. CASE conn[c] = "open"
          <5>1. Len(answer'[c]) = 1 /\ conn'[c] = "closed"
            BY <3>2, <4>1
          <5>2. Len(answer'[c]) <= 1
            BY <5>1
          <5> QED BY <5>1, <5>2
        <4>2. CASE conn[c] # "open"
          BY <3>1, <3>3, <3>4, <4>2 DEF AnsweredExactlyOnce
        <4> QED BY <4>1, <4>2
      <3> QED BY <3>5 DEF AnsweredExactlyOnce
    <2>8. OpenConnectionsAreWatched'
      BY <1>2, <2>4, ConnsAssumption DEF OpenConnectionsAreWatched
    <2> QED BY <1>2, <2>3, <2>5, <2>6, <2>7, <2>8
            DEF IInv, SomeoneToAccept, ReadyAreInUse, BufferIsWhatWasReceived
  <1>3. ASSUME NEW c \in open, BrokenPipe(c), UNCHANGED slots
        PROVE  IInv'
    <2>1. pc' = "killed" /\ UNCHANGED <<answer, conn>>
      BY <1>3 DEF BrokenPipe
    <2>2. TypeOK'
      BY <1>0, <1>3, <2>1 DEF TypeOK
    <2> QED BY <1>0, <1>3, <2>1, <2>2, OthersMayChange
  <1> QED BY <1>2, <1>3 DEF CloseSlots

-----------------------------------------------------------------------------
\* The inductive invariant holds in every reachable state.
THEOREM Inductive == Spec => []IInv
PROOF
  <1>1. Init => IInv
    <2> SUFFICES ASSUME Init
                 PROVE  IInv
      OBVIOUS
    <2>1. TypeOK
      <3>1. 0 \in 0..(BufferSize - 1)
        BY SizeAssumption
      <3>2. <<>> \in Seq(Conns) /\ <<>> \in Seq({"page", "400", "500"})
        OBVIOUS
      <3>3. errno \in BOOLEAN /\ doexit \in BOOLEAN
        BY DEF Init
      <3> QED BY <3>1, <3>2, <3>3 DEF Init, TypeOK
    <2> QED BY <2>1, ConnsAssumption
            DEF Init, IInv, QueuedOnce, SomeoneToAccept, ReadyAreInUse, UnreadAtFirst,
                UnansweredYet, OpenConnectionsAreWatched, AnsweredExactlyOnce,
                BufferIsWhatWasReceived
  <1>2. IInv /\ [Next]_vars => IInv'
    <2> SUFFICES ASSUME IInv, [Next]_vars
                 PROVE  IInv'
      OBVIOUS
    <2>1. CASE \/ InstallHandler \/ BlockSignals \/ LeaveLoop \/ Select \/ Interrupted \/ Signal
               \/ \E c \in Conns : Send(c) \/ Leave(c)
      BY <2>1, WaitingKeepsInvariant
    <2>2. CASE Accept \/ AcceptFails
      BY <2>2, AcceptKeepsInvariant
    <2>3. CASE CloseSlots
      BY <2>3, CloseKeepsInvariant
    <2>4. ASSUME NEW i \in Slots, Slave(i)
          PROVE  IInv'
      BY <2>4, SlaveKeepsInvariant
    <2>5. ASSUME NEW c \in Conns, Connect(c)
          PROVE  IInv'
      BY <2>5, ConnectKeepsInvariant
    <2>6. CASE UNCHANGED vars
      BY <2>6 DEF IInv, TypeOK, QueuedOnce, SomeoneToAccept, ReadyAreInUse, UnreadAtFirst,
                  UnansweredYet, OpenConnectionsAreWatched, AnsweredExactlyOnce,
                  BufferIsWhatWasReceived, vars, serverVars, clientVars
    <2> QED BY <2>1, <2>2, <2>3, <2>4, <2>5, <2>6 DEF Next, Server, World
  <1> QED BY <1>1, <1>2, PTL DEF Spec

\* The variables keep their types: no buffer is written beyond its end, and
\* there is room for the end of the string (httpserver.cpp:828, 836, 871).
THEOREM TypeCorrect == Spec => []TypeOK
PROOF BY Inductive, PTL DEF IInv

\* An open connection has exactly one slave connection and a closed one none,
\* however connections are accepted, answered and left.
THEOREM NoConnectionLeaks == Spec => []OpenConnectionsAreWatched
PROOF BY Inductive, PTL DEF IInv

\* No client is answered twice, and none that stayed without an answer.
THEOREM EveryoneIsAnsweredOnce == Spec => []AnsweredExactlyOnce
PROOF BY Inductive, PTL DEF IInv

\* No client's request is mixed with what another one has sent before it.
THEOREM BuffersAreSeparate == Spec => []BufferIsWhatWasReceived
PROOF BY Inductive, PTL DEF IInv

-----------------------------------------------------------------------------
(* What pselect() reported is used one slave connection after another.     *)

\* Looking at one slave connection leaves the data of the others, because no
\* two of them have the same connection.
LEMMA OthersStayReady ==
  ASSUME IInv, ReadinessIsFresh, pc = "scan", NEW i \in Slots, slots[i] # NoConn, Passed(i),
         Released(i) \/ UNCHANGED slots, UNCHANGED <<sent, gone>>,
         \A d \in Conns : d # slots[i] => read'[d] = read[d]
  PROVE  ReadinessIsFresh'
PROOF
  <1> SUFFICES ASSUME NEW j \in ready \ {i}
               PROVE  slots'[j] # NoConn /\ (HasData(slots[j])' \/ gone'[slots'[j]])
    BY DEF ReadinessIsFresh, Passed
  <1>1. TypeOK /\ j \in Slots /\ j \in ready /\ j # i
    BY DEF IInv, TypeOK
  <1>2. slots[j] # NoConn /\ (HasData(slots[j]) \/ gone[slots[j]])
    BY <1>1 DEF ReadinessIsFresh
  <1>3. slots'[j] = slots[j]
    BY <1>1 DEF Released, TypeOK
  <1>4. slots[j] \in Conns /\ slots[j] # slots[i]
    BY <1>1, <1>2 DEF TypeOK, IInv, OpenConnectionsAreWatched
  <1> QED BY <1>2, <1>3, <1>4 DEF HasData

\* A round only looks at what is ready, at one slave connection after another.
LEMMA SlaveKeepsReadiness ==
  ASSUME IInv, ReadinessIsFresh, NEW i \in Slots, Slave(i)
  PROVE  ReadinessIsFresh'
PROOF
  <1>1. TypeOK /\ pc = "scan" /\ i \in ready /\ slots[i] # NoConn
    BY DEF IInv, ReadyAreInUse, Slave, BufferFull, RecvEnd, RecvData, Examined
  <1>2. UNCHANGED <<sent, gone>>
    BY DEF Slave, BufferFull, RecvEnd, RecvData, clientVars
  <1>3. \/ pc' = "killed"
        \/ Passed(i) /\ (Released(i) \/ UNCHANGED slots)
    BY DEF Slave, BufferFull, RecvEnd, RecvData, GiveUp, BrokenPipe
  <1>4. \A d \in Conns : d # slots[i] => read'[d] = read[d]
    BY <1>1 DEF Slave, BufferFull, RecvEnd, RecvData, TypeOK
  <1>5. CASE pc' = "killed"
    BY <1>5 DEF ReadinessIsFresh
  <1> QED BY <1>1, <1>2, <1>3, <1>4, <1>5, OthersStayReady

\* Whoever has something to read keeps it while clients send, leave or come.
LEMMA WorldKeepsReadiness ==
  ASSUME IInv, ReadinessIsFresh, World
  PROVE  ReadinessIsFresh'
PROOF
  <1>1. TypeOK
    BY DEF IInv
  <1>2. UNCHANGED <<slots, ready, read>> /\ pc' \in {pc, "killed"}
    BY DEF World, Signal, Connect, Send, Leave, serverVars
  <1>3. \A c \in Conns : (gone[c] => gone'[c]) /\ sent'[c] >= sent[c]
    <2>1. CASE Signal \/ \E c \in Conns : Connect(c)
      <3>1. UNCHANGED <<sent, gone>>
        BY <2>1 DEF Signal, Connect, clientVars
      <3> QED BY <1>1, <3>1 DEF TypeOK
    <2>2. ASSUME NEW d \in Conns, Send(d)
          PROVE  \A c \in Conns : (gone[c] => gone'[c]) /\ sent'[c] >= sent[c]
      <3>1. \A n \in Request[d].cuts : n \in Nat
        BY RequestAssumption DEF Requests
      <3>2. PICK n \in Request[d].cuts : n > sent[d] /\ sent' = [sent EXCEPT ![d] = n]
        BY <2>2 DEF Send
      <3>3. \A c \in Conns : sent[c] \in Nat /\ sent'[c] = IF c = d THEN n ELSE sent[c]
        BY <1>1, <3>2 DEF TypeOK
      <3>4. \A c \in Conns : sent'[c] >= sent[c]
        BY <3>1, <3>2, <3>3
      <3>5. gone' = gone
        BY <2>2 DEF Send
      <3> QED BY <3>4, <3>5
    <2>3. ASSUME NEW d \in Conns, Leave(d)
          PROVE  \A c \in Conns : (gone[c] => gone'[c]) /\ sent'[c] >= sent[c]
      <3>1. \A c \in Conns : gone[c] => gone'[c]
        BY <1>1, <2>3 DEF Leave, TypeOK
      <3>2. \A c \in Conns : sent'[c] = sent[c] /\ sent[c] \in Nat
        BY <1>1, <2>3 DEF Leave, TypeOK
      <3> QED BY <3>1, <3>2
    <2> QED BY <2>1, <2>2, <2>3 DEF World
  <1> SUFFICES ASSUME pc' = "scan", NEW i \in ready
               PROVE  slots[i] # NoConn /\ (sent'[slots[i]] > read[slots[i]] \/ gone'[slots[i]])
    BY <1>2 DEF ReadinessIsFresh, HasData
  <1>4. slots[i] # NoConn /\ (HasData(slots[i]) \/ gone[slots[i]])
    BY <1>2 DEF ReadinessIsFresh
  <1>5. slots[i] \in Conns
    BY <1>1, <1>4 DEF TypeOK
  <1>6. sent[slots[i]] \in Nat /\ sent'[slots[i]] \in Nat /\ read[slots[i]] \in Nat
    <2>1. sent' \in [Conns -> Nat]
      <3>1. IInv'
        BY WaitingKeepsInvariant, ConnectKeepsInvariant DEF World
      <3> QED BY <3>1 DEF IInv, TypeOK
    <2> QED BY <1>1, <1>5, <2>1 DEF TypeOK
  <1>7. CASE HasData(slots[i])
    BY <1>3, <1>4, <1>5, <1>6, <1>7 DEF HasData
  <1>8. CASE gone[slots[i]]
    BY <1>3, <1>4, <1>5, <1>8
  <1> QED BY <1>4, <1>7, <1>8

\* recv() is never called for a slave connection that has nothing to say,
\* though others are answered and closed between pselect() and its turn: the
\* read that follows a report does not block the whole server.
THEOREM ReportsStayTrue == Spec => []ReadinessIsFresh
PROOF
  <1>1. Init => ReadinessIsFresh
    BY DEF Init, ReadinessIsFresh
  <1>2. IInv /\ ReadinessIsFresh /\ [Next]_vars => ReadinessIsFresh'
    <2> SUFFICES ASSUME IInv, ReadinessIsFresh, [Next]_vars
                 PROVE  ReadinessIsFresh'
      OBVIOUS
    <2>1. CASE \/ InstallHandler \/ BlockSignals \/ LeaveLoop \/ Interrupted
               \/ Accept \/ AcceptFails \/ CloseSlots
      <3>1. pc' # "scan"
        BY <2>1 DEF InstallHandler, BlockSignals, LeaveLoop, Interrupted, Accept, AcceptFails,
                    CloseSlots, BrokenPipe
      <3> QED BY <3>1 DEF ReadinessIsFresh
    <2>2. CASE Select
      <3>1. UNCHANGED <<slots, sent, gone, read>> /\ (pc' = "scan" => ready' = ReadySlots)
        BY <2>2 DEF Select, Reported, clientVars
      <3> QED BY <3>1 DEF ReadinessIsFresh, ReadySlots, HasData
    <2>3. ASSUME NEW i \in Slots, Slave(i)
          PROVE  ReadinessIsFresh'
      BY <2>3, SlaveKeepsReadiness
    <2>4. CASE World
      BY <2>4, WorldKeepsReadiness
    <2>5. CASE UNCHANGED vars
      BY <2>5 DEF ReadinessIsFresh, HasData, vars, serverVars, clientVars
    <2> QED BY <2>1, <2>2, <2>3, <2>4, <2>5 DEF Next, Server
  <1> QED BY <1>1, <1>2, Inductive, PTL DEF Spec

-----------------------------------------------------------------------------
(* The server with its pages.                                              *)

\* Whatever page is chosen, the connections are those of HttpServer: each of
\* the theorems above holds of the server with its pages.
THEOREM PagesAreServed == PagesSpec => Spec
PROOF
  <1>1. PagesInit => Init
    BY DEF PagesInit
  <1>2. [PagesNext]_pageVars => [Next]_vars
    <2>1. PagesServer => Server
      BY DEF PagesServer, Server, Slave, ReceiveOnly, ReceiveGet, ReceivePost
    <2>2. PagesWorld => World
      BY DEF PagesWorld, World
    <2>3. UNCHANGED pageVars => UNCHANGED vars
      BY DEF pageVars
    <2> QED BY <2>1, <2>2, <2>3 DEF PagesNext, Next
  <1> QED BY <1>1, <1>2, PTL DEF PagesSpec, Spec
=============================================================================
