----------------------------- MODULE HttpServer -----------------------------
(***************************************************************************)
(* HTTPServer::run and extractHTTPrequest (httpserver.cpp).                *)
(*                                                                         *)
(* One thread waits in pselect() for a new connection, for data on one of  *)
(* its slave connections, or for a signal to end.  A round accepts one     *)
(* connection or reads once from every slave connection that is ready.     *)
(* After each read the text received so far is examined anew: it may be no *)
(* request, lack data, or be answered, whereupon the connection is closed. *)
(* Clients send their requests in segments, and may leave at any time.     *)
(***************************************************************************)
EXTENDS Integers, Sequences, FiniteSets

CONSTANTS
  Conns,        \* the connections that clients attempt, one each
  NoConn,       \* a slave connection's socket that is not in use
  Request,      \* what each client sends
  MaxSlaves,    \* maxNumberSlaveSockets
  BufferSize,   \* maxBufferSize
  Backlog       \* how many connections may wait to be accepted

(***************************************************************************)
(* A request, as far as the server looks at it, by positions in its text:  *)
(* the file name and the blank after it are complete at 'line', the first  *)
(* digit and all digits of the content length are at 'digit' and 'digits', *)
(* where they amount to 'part' and 'body' ('digit' is 0 if there is no     *)
(* such header line), 'blanks' are the ends of the blank lines, 'len' is   *)
(* the end of the request.  Segments end at 'cuts'.                        *)
(***************************************************************************)
Requests == [method : {"get", "post", "other"}, line : Nat, digit : Nat, digits : Nat,
             part : Nat, body : Nat, blanks : SUBSET Nat, len : Nat, cuts : SUBSET Nat]

ASSUME ConnsAssumption   == NoConn \notin Conns
ASSUME RequestAssumption == /\ Request \in [Conns -> Requests]
                            /\ \A c \in Conns : /\ Request[c].len \in Request[c].cuts
                                                /\ \A n \in Request[c].cuts : n <= Request[c].len
ASSUME SizeAssumption    == /\ MaxSlaves \in Nat \ {0} /\ BufferSize \in Nat \ {0, 1}
                            /\ Backlog \in Nat

VARIABLES
  pc,         \* where the server is
  slots,      \* slaveConnections[i].socket
  pos,        \* slaveConnections[i].pos
  ready,      \* the slave connections set in readfds and not yet looked at
  doexit,     \* doexitserver
  errno,      \* whether errno is other than 0
  sig,        \* SIGTERM or SIGINT: not sent, pending or taken
  backlog,    \* connections to be accepted
  conn,       \* state of each connection
  sent,       \* how much each client has sent
  read,       \* how much of it the server has received
  gone,       \* the clients that have left
  answer      \* the answers written to each connection

serverVars == <<slots, pos, ready, doexit>>
clientVars == <<sent, gone>>
vars == <<pc, serverVars, errno, sig, backlog, conn, clientVars, read, answer>>

Slots   == 1..MaxSlaves
Stopped == pc \in {"ended", "killed"}

-----------------------------------------------------------------------------
Init ==
  /\ pc = "start"
  /\ slots = [i \in Slots |-> NoConn] /\ pos = [i \in Slots |-> 0]
  /\ ready = {} /\ doexit = FALSE
  /\ errno \in BOOLEAN          \* whatever ran before may have left it
  /\ sig = "none" /\ backlog = <<>>
  /\ conn = [c \in Conns |-> "new"]
  /\ sent = [c \in Conns |-> 0] /\ read = [c \in Conns |-> 0]
  /\ gone = [c \in Conns |-> FALSE]
  /\ answer = [c \in Conns |-> <<>>]

-----------------------------------------------------------------------------
(* extractHTTPrequest: what the first n characters of a request r are.     *)

\* A content length is taken from as many digits as there are, and for none
\* if errno is not 0, whatever the call was that set it.
ContentLength(r, n) ==
  IF r.digit = 0 \/ n < r.digit \/ errno THEN 0
  ELSE IF n < r.digits THEN r.part ELSE r.body

BlankLines(r, n) == {b \in r.blanks : b <= n}

\* Where the content starts, or -1.
ContentStart(r, n) ==
  IF BlankLines(r, n) = {} THEN -1
  ELSE CHOOSE b \in BlankLines(r, n) : \A d \in BlankLines(r, n) : b <= d

BlankLinesExpected(r) == IF r.method = "get" THEN 1 ELSE 2

Verdict(r, n) ==
  LET length == ContentLength(r, n)
      delta  == n - ContentStart(r, n) - length
  IN  IF r.method = "other" \/ n < r.line THEN "bad"
      ELSE IF length > 0
      THEN IF length > BufferSize - 1 /\ n >= BufferSize - 3 THEN "good"
           ELSE IF delta < 0 THEN "more" ELSE IF delta > 0 THEN "bad" ELSE "good"
      ELSE IF Cardinality(BlankLines(r, n)) < BlankLinesExpected(r) THEN "more" ELSE "good"

-----------------------------------------------------------------------------
(* Start, and waiting.                                                     *)

InstallHandler ==
  /\ pc = "start"
  /\ doexit' = FALSE
  /\ pc' = "handled"
  /\ UNCHANGED <<slots, pos, ready, errno, sig, backlog, conn, clientVars, read,
                 answer>>

\* Mutant: the flag is reset when the handler is in place already.
BlockSignalsAndReset ==
  /\ pc = "handled"
  /\ doexit' = FALSE
  /\ pc' = "loop"
  /\ UNCHANGED <<slots, pos, ready, errno, sig, backlog, conn, clientVars, read,
                 answer>>

\* From here on signals are taken in pselect() only.
BlockSignals ==
  /\ pc = "handled"
  /\ pc' = "loop"
  /\ UNCHANGED <<serverVars, errno, sig, backlog, conn, clientVars, read, answer>>

\* The flag is set when the loop is tested.
LeaveLoop ==
  /\ pc = "loop" /\ doexit
  /\ pc' = "closing"
  /\ UNCHANGED <<serverVars, errno, sig, backlog, conn, clientVars, read, answer>>

HasData(c)   == sent[c] > read[c]
ReadySlots   == {i \in Slots : slots[i] # NoConn /\ (HasData(slots[i]) \/ gone[slots[i]])}

\* Mutant: every slave connection that is watched is taken to be ready.
ReportedAll == {i \in Slots : slots[i] # NoConn}

\* Mutant: the last slave connection is not watched.
ReportedButLast == ReadySlots \ {MaxSlaves}

\* What pselect() leaves in readfds, that is set up anew in every round.
Reported == ReadySlots

\* pselect() finds something to do; a new connection comes first.  When it
\* times out after 30 minutes, nothing changes and it is called again.
Select ==
  /\ pc = "loop" /\ ~doexit
  /\ \/ backlog # <<>> /\ pc' = "accept" /\ UNCHANGED ready
     \/ backlog = <<>> /\ Reported # {} /\ pc' = "scan" /\ ready' = Reported
  /\ UNCHANGED <<slots, pos, doexit, errno, sig, backlog, conn, clientVars, read, answer>>

\* pselect() lets a signal through: sigtermfn runs and the loop is left.
Interrupted ==
  /\ pc = "loop" /\ ~doexit /\ sig = "pending"
  /\ sig' = "taken" /\ doexit' = TRUE /\ errno' = TRUE
  /\ pc' = "closing"
  /\ UNCHANGED <<slots, pos, ready, backlog, conn, clientVars, read, answer>>

-----------------------------------------------------------------------------
(* Answers.  SIGPIPE keeps its default action: writing to a client that    *)
(* has left may end the process.                                           *)

Answered(c, a) == answer' = [answer EXCEPT ![c] = Append(@, a)] /\ conn' = [conn EXCEPT ![c] = "closed"]

\* Every page but JSON and XML may look for the report to link to, or for a
\* file to deliver, that is not there.
PageWritten == errno' \in {errno, TRUE}

BrokenPipe(c) == gone[c] /\ pc' = "killed" /\ UNCHANGED <<answer, conn>>

\* Mutant: the slave connection keeps its socket.
ReleasedNot(i) == slots' = slots

Released(i) == slots' = [slots EXCEPT ![i] = NoConn]

-----------------------------------------------------------------------------
(* Accepting.                                                              *)

FreeSlots == {i \in Slots : slots[i] = NoConn}
FirstFree(i) == i \in FreeSlots /\ \A j \in FreeSlots : i <= j

\* Mutant: the position in the buffer is the one of the last user.
TakeSlotOnly(i, c) == slots' = [slots EXCEPT ![i] = c] /\ UNCHANGED pos

TakeSlot(i, c) == slots' = [slots EXCEPT ![i] = c] /\ pos' = [pos EXCEPT ![i] = 0]

\* One connection is accepted, or refused if there are too many already.
Accept ==
  /\ pc = "accept"
  /\ LET c == Head(backlog)
     IN  \/ /\ \E i \in Slots : FirstFree(i) /\ TakeSlot(i, c)
            /\ conn' = [conn EXCEPT ![c] = "open"]
            /\ pc' = "loop"
            /\ UNCHANGED <<answer, errno>>
         \/ /\ FreeSlots = {}
            /\ \/ Answered(c, "500") /\ pc' = "loop"
               \/ BrokenPipe(c)
            /\ PageWritten
            /\ UNCHANGED <<slots, pos>>
  /\ backlog' = Tail(backlog)
  /\ UNCHANGED <<ready, doexit, sig, clientVars, read>>

\* accept() fails because the client has left.
AcceptFails ==
  /\ pc = "accept" /\ gone[Head(backlog)]
  /\ backlog' = Tail(backlog)
  /\ conn' = [conn EXCEPT ![Head(backlog)] = "closed"]
  /\ errno' = TRUE
  /\ pc' = "loop"
  /\ UNCHANGED <<serverVars, sig, clientVars, read, answer>>

-----------------------------------------------------------------------------
(* Receiving: one pass over the slave connections.                         *)

\* Mutant: no room is kept for the end of the string.
RoomToTheEnd(i) == BufferSize - pos[i]

Room(i) == BufferSize - pos[i] - 1

\* On to the next slave connection that is ready, or to the next round.
Passed(i) == ready' = ready \ {i} /\ pc' = IF ready = {i} THEN "loop" ELSE "scan"

Examined(i) == pc = "scan" /\ i \in ready /\ \A j \in ready : i <= j

\* The connection is given up with answer a.
GiveUp(i, a) ==
  /\ \/ Answered(slots[i], a) /\ Passed(i) /\ Released(i)
     \/ BrokenPipe(slots[i]) /\ UNCHANGED <<ready, slots>>

BufferFull(i) ==
  /\ Examined(i) /\ Room(i) = 0
  /\ GiveUp(i, "500") /\ PageWritten
  /\ UNCHANGED <<pos, doexit, sig, backlog, clientVars, read>>

\* The client has left and all it sent has been received: recv() returns 0
\* or fails.  It does not fail with EAGAIN on a socket reported to be ready.
RecvEnd(i) ==
  /\ Examined(i) /\ Room(i) > 0 /\ ~HasData(slots[i]) /\ gone[slots[i]]
  /\ \/ /\ conn' = [conn EXCEPT ![slots[i]] = "closed"]
        /\ Passed(i) /\ Released(i)
        /\ UNCHANGED <<answer, errno>>
     \/ GiveUp(i, "500") /\ errno' = TRUE
  /\ UNCHANGED <<pos, doexit, sig, backlog, clientVars, read>>

Received(i) ==
  LET waiting == sent[slots[i]] - read[slots[i]]
  IN  IF waiting <= Room(i) THEN waiting ELSE Room(i)

RecvData(i) ==
  /\ Examined(i) /\ Room(i) > 0 /\ HasData(slots[i])
  /\ pos' = [pos EXCEPT ![i] = @ + Received(i)]
  /\ read' = [read EXCEPT ![slots[i]] = @ + Received(i)]
  /\ LET verdict == Verdict(Request[slots[i]], pos[i] + Received(i))
     IN  \/ /\ verdict = "bad"
            /\ GiveUp(i, "400") /\ PageWritten
         \/ /\ verdict = "more"
            /\ Passed(i)
            /\ UNCHANGED <<slots, conn, answer, errno>>
         \/ /\ verdict = "good"
            /\ GiveUp(i, "page") /\ PageWritten
  /\ UNCHANGED <<doexit, sig, backlog, clientVars>>

-----------------------------------------------------------------------------
\* Mutant: the connections are closed, and that is all.
CloseSlotsSilently ==
  /\ pc = "closing"
  /\ slots' = [i \in Slots |-> NoConn]
  /\ conn' = [c \in Conns |-> IF \E i \in Slots : slots[i] = c THEN "closed" ELSE conn[c]]
  /\ pc' = "ended"
  /\ UNCHANGED <<pos, ready, doexit, errno, sig, backlog, clientVars, read, answer>>

\* The loop is left: whoever is still connected gets an error.
CloseSlots ==
  /\ pc = "closing"
  /\ LET open == {slots[i] : i \in Slots} \ {NoConn}
     IN  \/ /\ slots' = [i \in Slots |-> NoConn]
            /\ conn' = [c \in Conns |-> IF c \in open THEN "closed" ELSE conn[c]]
            /\ answer' = [c \in Conns |-> IF c \in open THEN Append(answer[c], "500") ELSE answer[c]]
            /\ pc' = "ended"
         \/ \E c \in open : BrokenPipe(c) /\ UNCHANGED slots
  /\ PageWritten
  /\ UNCHANGED <<pos, ready, doexit, sig, backlog, clientVars, read>>

-----------------------------------------------------------------------------
(* The world around the server.                                            *)

\* SIGTERM or SIGINT: fatal without the handler, and pending while blocked.
Signal ==
  /\ ~Stopped /\ sig = "none"
  /\ \/ pc = "start" /\ pc' = "killed" /\ sig' = "taken" /\ UNCHANGED doexit
     \/ pc = "handled" /\ doexit' = TRUE /\ sig' = "taken" /\ UNCHANGED pc
     \/ pc \notin {"start", "handled"} /\ sig' = "pending" /\ UNCHANGED <<pc, doexit>>
  /\ UNCHANGED <<slots, pos, ready, errno, backlog, conn, clientVars, read, answer>>

Connect(c) ==
  /\ ~Stopped /\ conn[c] = "new" /\ Len(backlog) < Backlog
  /\ conn' = [conn EXCEPT ![c] = "queued"]
  /\ backlog' = Append(backlog, c)
  /\ UNCHANGED <<pc, serverVars, errno, sig, clientVars, read, answer>>

Alive(c) == ~Stopped /\ conn[c] \in {"queued", "open"} /\ ~gone[c]

Send(c) ==
  /\ Alive(c)
  /\ \E n \in Request[c].cuts : n > sent[c] /\ sent' = [sent EXCEPT ![c] = n]
  /\ UNCHANGED <<pc, serverVars, errno, sig, backlog, conn, gone, read, answer>>

Leave(c) ==
  /\ Alive(c)
  /\ gone' = [gone EXCEPT ![c] = TRUE]
  /\ UNCHANGED <<pc, serverVars, errno, sig, backlog, conn, sent, read, answer>>

Slave(i) == BufferFull(i) \/ RecvEnd(i) \/ RecvData(i)

Server == \/ InstallHandler \/ BlockSignals \/ LeaveLoop \/ Select \/ Interrupted
          \/ Accept \/ AcceptFails \/ CloseSlots
          \/ \E i \in Slots : Slave(i)
World  == Signal \/ \E c \in Conns : Connect(c) \/ Send(c) \/ Leave(c)

Next == Server \/ World \/ (Stopped /\ UNCHANGED vars)

\* The server's thread runs; nothing is assumed of clients and signals.
Spec     == Init /\ [][Next]_vars
FairSpec == Spec /\ WF_vars(Server)

-----------------------------------------------------------------------------
(* Properties.                                                             *)

TypeOK ==
  /\ pc \in {"start", "handled", "loop", "accept", "scan", "closing", "ended", "killed"}
  /\ slots \in [Slots -> Conns \cup {NoConn}] /\ pos \in [Slots -> 0..(BufferSize - 1)]
  /\ ready \subseteq Slots
  /\ doexit \in BOOLEAN /\ errno \in BOOLEAN /\ sig \in {"none", "pending", "taken"}
  /\ backlog \in Seq(Conns)
  /\ conn \in [Conns -> {"new", "queued", "open", "closed"}]
  /\ sent \in [Conns -> Nat] /\ read \in [Conns -> Nat] /\ gone \in [Conns -> BOOLEAN]
  /\ answer \in [Conns -> Seq({"page", "400", "500"})]

\* An open connection is in exactly one slave connection, and nothing else
\* is: no descriptor leaks, none is watched after it has been closed
\* (httpserver.cpp:760-763, 806-817, 833-861, 925-954, 964-969).
OpenConnectionsAreWatched ==
  /\ \A c \in Conns : conn[c] = "open" <=> \E i \in Slots : slots[i] = c
  /\ \A i, j \in Slots : slots[i] = slots[j] /\ slots[i] # NoConn => i = j

\* Nobody is answered twice, or before the connection is given up; and nobody
\* who has not left is turned away without an answer.
AnsweredExactlyOnce ==
  \A c \in Conns : /\ Len(answer[c]) = 1 => conn[c] = "closed"
                   /\ Len(answer[c]) <= 1
                   /\ conn[c] = "closed" /\ ~gone[c] => Len(answer[c]) = 1

\* The buffer of a slave connection holds what was received on it, from its
\* start on, whoever had the slave connection before (815-816, 867).
BufferIsWhatWasReceived == \A i \in Slots : slots[i] # NoConn => pos[i] = read[slots[i]]

\* What pselect() reported is still so when a slave connection's turn comes,
\* although others were answered and closed before it in the same round.
ReadinessIsFresh ==
  pc = "scan" => \A i \in ready : slots[i] # NoConn /\ (HasData(slots[i]) \/ gone[slots[i]])

\* A signal ends the server whenever it arrives: it is neither lost before
\* the first pselect() nor while a request is answered (729-743, 774, 793).
SignalEndsServer == (sig # "none") ~> Stopped

Whole(c) == conn[c] \in {"queued", "open"} /\ sent[c] = Request[c].len

\* A GET request that was sent in full is answered, in however many segments
\* it came, whatever the other clients do.
WholeGetIsAnswered ==
  \A c \in Conns : Request[c].method = "get" =>
    (Whole(c) ~> (conn[c] = "closed" \/ Stopped))

\* Not so for the POST request of README.md:268-272, with its content length:
\* once some call has failed and left its error in errno, the content length
\* is ignored and a second blank line awaited that is not in the request.
WholePostIsAnswered ==
  \A c \in Conns : Request[c].method = "post" =>
    (Whole(c) ~> (conn[c] = "closed" \/ Stopped))
=============================================================================
