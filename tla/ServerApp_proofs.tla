--------------------------- MODULE ServerApp_proofs ---------------------------
(***************************************************************************)
(* Proofs about the whole server with its clients: every step of it is a   *)
(* step of the session manager or leaves the manager alone, so that what   *)
(* AircraftSessionManager_proofs shows of the manager under any caller     *)
(* holds of the server; and no flight is ever left without a handler.      *)
(***************************************************************************)
EXTENDS ServerApp, AircraftSessionManager_proofs

-----------------------------------------------------------------------------
(* Lines and units                                                         *)

\* The line a unit belongs to.
LEMMA LineOfUnit ==
  ASSUME NEW L \in Nat \ {0}, NEW n \in Nat
  PROVE  /\ n \div L \in Nat
         /\ (n \div L) * L \in Nat
         /\ (n \div L) * L <= n
         /\ n < (n \div L) * L + L
OBVIOUS

\* So many lines have a length.
LEMMA LinesAreUnits ==
  ASSUME NEW L \in Nat, NEW k \in Nat
  PROVE  (k + 1) * L \in Nat
<1>1. k * L \in Nat
  OBVIOUS
<1>2. (k + 1) * L = k * L + L
  OBVIOUS
<1> QED  BY <1>1, <1>2

\* A unit before the end of k lines belongs to one of them, and that line ends
\* within them too.
LEMMA LineBefore ==
  ASSUME NEW L \in Nat \ {0}, NEW n \in Nat, NEW k \in Nat, n < k * L
  PROVE  (n \div L) + 1 <= k /\ ((n \div L) + 1) * L <= k * L
<1>1. /\ n \div L \in Nat
      /\ (n \div L) * L <= n
  BY LineOfUnit
<1> DEFINE q == n \div L
<1> HIDE DEF q
<1>2. q \in Nat /\ q * L < k * L
  BY <1>1 DEF q
<1>3. q < k
  BY <1>2
<1> QED  BY <1>1, <1>3 DEF q

-----------------------------------------------------------------------------
(* The state of the threads                                                *)

\* A handler names its session after the one aircraft id its client uses.
NamedAfterClient ==
  \A c \in Connections : aircraftId[c] \in {NoAircraft, IdOf[c]}

ServerInv ==
  /\ SessionInv
  /\ ThreadsTypeOK
  /\ CursorsOK
  /\ NamedAfterClient
  /\ NoOrphanFlight

-----------------------------------------------------------------------------
(* What a handler reads                                                    *)

\* The lengths of lines and streams are numbers.
LEMMA Lengths ==
  ASSUME NEW c \in Connections
  PROVE  /\ LineLength \in Nat \ {0}
         /\ Len(Telemetry[c]) \in Nat
         /\ StreamLength(c) = Len(Telemetry[c]) * LineLength
         /\ StreamLength(c) \in Nat
<1>1. LineLength \in Nat \ {0} /\ Len(Telemetry[c]) \in Nat
  BY SessionAssumption
<1> QED  BY <1>1 DEF StreamLength

\* As long as some unit of the stream is not consumed there is a current line,
\* a record of the client's aircraft or one that is discarded, and taking it
\* does not go beyond the stream.
LEMMA CurrentLineType ==
  ASSUME CursorsOK, NEW c \in Connections, taken[c] < received[c]
  PROVE  /\ \/ CurrentLine(c) \in {Malformed, Blank}
            \/ /\ CurrentLine(c) \in TelemetryRecord
               /\ CurrentLine(c).AircraftId = IdOf[c]
         /\ ((taken[c] \div LineLength) + 1) * LineLength \in Nat
<1>1. /\ taken[c] \in Nat /\ received[c] \in Nat /\ sent[c] \in Nat
      /\ received[c] <= sent[c] /\ sent[c] <= StreamLength(c)
  BY DEF CursorsOK
<1>2. taken[c] < Len(Telemetry[c]) * LineLength
  BY <1>1, Lengths
<1>3. /\ taken[c] \div LineLength \in Nat
      /\ (taken[c] \div LineLength) + 1 <= Len(Telemetry[c])
  BY <1>1, <1>2, Lengths, LineOfUnit, LineBefore
<1> DEFINE i == (taken[c] \div LineLength) + 1
<1>4. i \in 1..Len(Telemetry[c])
  BY <1>3, Lengths
<1>5. i * LineLength \in Nat
  <2> DEFINE q == taken[c] \div LineLength
  <2>1. q \in Nat /\ LineLength \in Nat
    BY <1>3, Lengths
  <2> HIDE DEF q
  <2>2. (q + 1) * LineLength \in Nat
    BY <2>1, LinesAreUnits
  <2> QED  BY <2>2 DEF q
<1> HIDE DEF i
<1>6. \/ Telemetry[c][i] \in {Malformed, Blank}
      \/ /\ Telemetry[c][i] \in TelemetryRecord
         /\ Telemetry[c][i].AircraftId = IdOf[c]
  BY <1>4, HandlerAssumption
<1> QED  BY <1>5, <1>6 DEF CurrentLine, i

\* A line that is there was received whole.
LEMMA HasLineBounds ==
  ASSUME CursorsOK, NEW c \in Connections, HasLine(c)
  PROVE  /\ taken[c] < received[c]
         /\ ((taken[c] \div LineLength) + 1) * LineLength <= received[c]
<1>1. /\ taken[c] \in Nat /\ received[c] \in Nat
  BY DEF CursorsOK
<1> DEFINE k == received[c] \div LineLength
<1>2. k \in Nat /\ k * LineLength <= received[c] /\ k * LineLength \in Nat
  <2>1. LineLength \in Nat \ {0}
    BY Lengths
  <2> QED  BY <1>1, <2>1, LineOfUnit
<1>3. taken[c] < k * LineLength
  BY DEF HasLine
<1> HIDE DEF k
<1>4. ((taken[c] \div LineLength) + 1) * LineLength <= k * LineLength
  BY <1>1, <1>2, <1>3, Lengths, LineBefore
<1>5. ((taken[c] \div LineLength) + 1) * LineLength \in Nat
  <2> DEFINE q == taken[c] \div LineLength
  <2>1. LineLength \in Nat \ {0}
    BY Lengths
  <2>2. q \in Nat
    BY <1>1, <2>1, LineOfUnit
  <2> HIDE DEF q
  <2>3. (q + 1) * LineLength \in Nat
    BY <2>1, <2>2, LinesAreUnits
  <2> QED  BY <2>3 DEF q
<1> QED  BY <1>1, <1>2, <1>3, <1>4, <1>5

\* What is left of a record when its line was cut is a record of that aircraft.
LEMMA CutLinesType ==
  ASSUME NEW line, NEW c \in Connections,
         \/ line \in {Malformed, Blank}
         \/ line \in TelemetryRecord /\ line.AircraftId = IdOf[c],
         NEW cut \in CutLines(line)
  PROVE  \/ cut \in {Malformed, Blank}
         \/ cut \in TelemetryRecord /\ cut.AircraftId = IdOf[c]
BY HandlerAssumption DEF CutLines, TelemetryRecord

-----------------------------------------------------------------------------
(* The loop of a handler                                                   *)

\* A record of this client's aircraft reaches the session manager.
Accepted(c) ==
  \E line \in TelemetryRecord :
    /\ line.AircraftId = IdOf[c]
    /\ AcceptRecord(line)
    /\ aircraftId' = [aircraftId EXCEPT ![c] = IF @ = NoAircraft THEN IdOf[c] ELSE @]
    /\ processedPackets' = [processedPackets EXCEPT ![c] = @ + 1]

\* What one round of the loop does, whether it got a whole line or the rest of
\* the stream.
LEMMA LoopRound ==
  ASSUME ServerInv, NEW c \in Connections, HandleLine(c) \/ HandleRemainder(c)
  PROVE  /\ handler[c] = "receiving"
         /\ UNCHANGED <<handler, crashed, outcome, finalStatistics>>
         /\ UNCHANGED clientVars
         /\ \E n \in Nat : n <= received[c] /\ taken' = [taken EXCEPT ![c] = n]
         /\ \/ UNCHANGED sessionVars /\ UNCHANGED <<aircraftId, processedPackets>>
            \/ Accepted(c)
<1> USE DEF ServerInv
<1> DEFINE Outcome ==
             /\ UNCHANGED <<handler, crashed, outcome, finalStatistics>>
             /\ \/ UNCHANGED sessionVars /\ UNCHANGED <<aircraftId, processedPackets>>
                \/ Accepted(c)
<1>1. ASSUME NEW line, Discard(c, line) \/ Accept(c, line),
             \/ line \in {Malformed, Blank}
             \/ line \in TelemetryRecord /\ line.AircraftId = IdOf[c]
      PROVE  Outcome
  <2>1. CASE Discard(c, line)
    BY <2>1 DEF Discard
  <2>2. CASE Accept(c, line)
    <3>1. line \in TelemetryRecord /\ line.AircraftId = IdOf[c]
      BY <1>1, <2>2 DEF Accept
    <3> QED  BY <2>2, <3>1 DEF Accept, Accepted
  <2> QED  BY <1>1, <2>1, <2>2
<1> HIDE DEF Outcome
<1>2. CASE HandleLine(c)
  <2>1. handler[c] = "receiving" /\ HasLine(c) /\ UNCHANGED clientVars
    BY <1>2 DEF HandleLine
  <2>2. taken[c] < received[c]
        /\ ((taken[c] \div LineLength) + 1) * LineLength <= received[c]
    BY <2>1, HasLineBounds
  <2>3. /\ \/ CurrentLine(c) \in {Malformed, Blank}
           \/ /\ CurrentLine(c) \in TelemetryRecord
              /\ CurrentLine(c).AircraftId = IdOf[c]
        /\ ((taken[c] \div LineLength) + 1) * LineLength \in Nat
    BY <2>2, CurrentLineType
  <2>4. taken' = [taken EXCEPT ![c] = ((taken[c] \div LineLength) + 1) * LineLength]
    BY <1>2 DEF HandleLine, TakeLine
  <2>5. Discard(c, CurrentLine(c)) \/ Accept(c, CurrentLine(c))
    BY <1>2 DEF HandleLine
  <2>6. Outcome
    BY <1>1, <2>3, <2>5
  <2> QED  BY <2>1, <2>2, <2>3, <2>4, <2>6 DEF Outcome
<1>3. CASE HandleRemainder(c)
  <2>1. /\ handler[c] = "receiving" /\ UNCHANGED clientVars
        /\ taken[c] < received[c]
        /\ taken' = [taken EXCEPT ![c] = received[c]]
    BY <1>3 DEF HandleRemainder, Remainder, AtEof, TakeRemainder
  <2>2. received[c] \in Nat
    BY DEF CursorsOK
  <2>3. PICK line \in CutLines(CurrentLine(c)) : Discard(c, line) \/ Accept(c, line)
    BY <1>3 DEF HandleRemainder
  <2>4. \/ line \in {Malformed, Blank}
        \/ line \in TelemetryRecord /\ line.AircraftId = IdOf[c]
    BY <2>1, <2>3, CurrentLineType, CutLinesType
  <2>5. Outcome
    BY <1>1, <2>3, <2>4
  <2>6. received[c] <= received[c]
    BY <2>2
  <2> QED  BY <2>1, <2>2, <2>5, <2>6 DEF Outcome
<1> QED  BY <1>2, <1>3

\* CompleteFlight as a handler calls it: with its own aircraft's id.
LEMMA SavedFlight ==
  ASSUME ServerInv, NEW c \in Connections, SaveFlight(c)
  PROVE  /\ aircraftId[c] \in AircraftIds
         /\ \E persisted \in BOOLEAN :
              CompleteFlight(aircraftId[c], crashed[c], persisted)
         /\ crashed[c] \in BOOLEAN
         /\ finalStatistics' = [finalStatistics EXCEPT ![c] =
                                  ClosedFlight(aircraftId[c], crashed[c])]
         /\ ClosedFlight(aircraftId[c], crashed[c]) \in OutStatistics
<1>1. aircraftId[c] \in AircraftIds /\ crashed[c] \in BOOLEAN
  BY DEF ServerInv, ThreadsTypeOK, SaveFlight
<1>2. PICK persisted \in BOOLEAN : CompleteFlight(aircraftId[c], crashed[c], persisted)
  BY DEF SaveFlight
<1>3. ClosedFlight(aircraftId[c], crashed[c]) \in OutStatistics
  BY <1>1, <1>2, CompletedHistory DEF ServerInv
<1> QED  BY <1>1, <1>2, <1>3 DEF SaveFlight

-----------------------------------------------------------------------------
(* The server implements the session manager                               *)

\* Whatever threads, clients and faults do, the session manager sees nothing
\* but its own operations, one at a time.
LEMMA StepRefines ==
  ASSUME ServerInv, [Next]_vars
  PROVE  [SessionNext]_sessionVars
<1>1. CASE Start \/ Crash
  BY <1>1 DEF Start, Crash, SessionNext
<1>2. CASE StartFails \/ AcceptConnection \/ AcceptFails
  BY <1>2 DEF StartFails, AcceptConnection, AcceptFails
<1>3. ASSUME NEW c \in Connections, HandlerStep(c)
      PROVE  [SessionNext]_sessionVars
  <2>1. CASE Receive(c) \/ LeaveLoop(c) \/ NothingToSave(c) \/ CloseConnection(c)
    BY <2>1 DEF Receive, LeaveLoop, NothingToSave, CloseConnection
  <2>2. CASE HandleLine(c) \/ HandleRemainder(c)
    <3>1. UNCHANGED sessionVars \/ Accepted(c)
      BY <2>2, LoopRound
    <3> QED  BY <3>1 DEF Accepted, SessionNext
  <2>3. CASE SaveFlight(c)
    BY <2>3, SavedFlight DEF SessionNext
  <2>4. CASE FailToSave(c)
    BY <2>4 DEF FailToSave, NoSuchFlight
  <2> QED  BY <1>3, <2>1, <2>2, <2>3, <2>4 DEF HandlerStep
<1>4. ASSUME NEW c \in Connections, ClientStarts(c) \/ Replay(c) \/ Fault(c)
      PROVE  [SessionNext]_sessionVars
  BY <1>4 DEF ClientStarts, Replay, Fault
<1>5. CASE UNCHANGED vars
  BY <1>5 DEF vars
<1> QED  BY <1>1, <1>2, <1>3, <1>4, <1>5 DEF Next

-----------------------------------------------------------------------------
(* The invariant is kept                                                   *)

\* The cursors: the client writes within its stream, the server reads what was
\* written and consumes what it has read.
LEMMA CursorsKept ==
  ASSUME ServerInv, [Next]_vars
  PROVE  CursorsOK'
<1>1. CursorsOK
  BY DEF ServerInv
<1>2. ASSUME UNCHANGED <<sent, received, taken>>
      PROVE  CursorsOK'
  BY <1>1, <1>2 DEF CursorsOK, StreamLength
<1>3. ASSUME NEW c \in Connections, SendUnits(c), UNCHANGED taken
      PROVE  CursorsOK'
  <2>1. PICK total \in (sent[c] + 1)..((WholeLinesSent(c) + 1) * LineLength) :
          sent' = [sent EXCEPT ![c] = total]
    BY <1>3 DEF SendUnits
  <2>2. sent[c] \in Nat /\ sent[c] < Len(Telemetry[c]) * LineLength
    BY <1>1, <1>3, Lengths DEF CursorsOK, SendUnits
  <2>3. (WholeLinesSent(c) + 1) * LineLength <= StreamLength(c)
    BY <2>2, Lengths, LineBefore DEF WholeLinesSent
  <2>4. (WholeLinesSent(c) + 1) * LineLength \in Nat
    <3>1. LineLength \in Nat \ {0}
      BY Lengths
    <3>2. WholeLinesSent(c) \in Nat
      BY <2>2, <3>1, LineOfUnit DEF WholeLinesSent
    <3> QED  BY <3>1, <3>2
  <2>5. total \in Nat /\ sent[c] < total /\ total <= StreamLength(c)
    BY <2>1, <2>2, <2>3, <2>4, Lengths
  <2>6. UNCHANGED <<received, taken>>
    BY <1>3 DEF SendUnits
  <2> QED  BY <1>1, <2>1, <2>2, <2>5, <2>6 DEF CursorsOK, StreamLength
<1>4. ASSUME NEW c \in Connections, Receive(c)
      PROVE  CursorsOK'
  <2>1. PICK total \in (received[c] + 1)..sent[c] :
          received' = [received EXCEPT ![c] = total]
    BY <1>4 DEF Receive
  <2>2. UNCHANGED <<sent, taken>>
    BY <1>4 DEF Receive, handlerVars
  <2> QED  BY <1>1, <2>1, <2>2 DEF CursorsOK, StreamLength
<1>5. ASSUME NEW c \in Connections, HandleLine(c) \/ HandleRemainder(c)
      PROVE  CursorsOK'
  <2>1. UNCHANGED <<sent, received>>
    BY <1>5, LoopRound DEF clientVars
  <2>2. PICK n \in Nat : n <= received[c] /\ taken' = [taken EXCEPT ![c] = n]
    BY <1>5, LoopRound
  <2> QED  BY <1>1, <2>1, <2>2 DEF CursorsOK, StreamLength
<1>6. CASE Start \/ StartFails \/ AcceptConnection \/ AcceptFails \/ Crash
  BY <1>2, <1>6 DEF Start, StartFails, AcceptConnection, AcceptFails, Crash, clientVars, handlerVars
<1>7. ASSUME NEW c \in Connections, HandlerStep(c)
      PROVE  CursorsOK'
  <2>1. CASE LeaveLoop(c) \/ SaveFlight(c) \/ FailToSave(c) \/ NothingToSave(c)
               \/ CloseConnection(c)
    BY <1>2, <2>1 DEF LeaveLoop, SaveFlight, FailToSave, NothingToSave, CloseConnection,
                      clientVars
  <2> QED  BY <1>4, <1>5, <1>7, <2>1 DEF HandlerStep
<1>8. ASSUME NEW c \in Connections, ClientStarts(c) \/ Replay(c) \/ Fault(c)
      PROVE  CursorsOK'
  <2>1. CASE ClientStarts(c)
    BY <1>2, <2>1 DEF ClientStarts, ClientConnects, Connect, ConnectFails, handlerVars
  <2>2. CASE Replay(c)
    BY <1>2, <1>3, <2>2 DEF Replay, SendFails, FinishReplay, handlerVars
  <2>3. CASE Fault(c)
    BY <1>2, <2>3 DEF Fault, Kill, SendFailsIntact, ConnectionReset, Vanish, handlerVars
  <2> QED  BY <1>8, <2>1, <2>2, <2>3
<1>9. CASE UNCHANGED vars
  BY <1>2, <1>9 DEF vars, clientVars, handlerVars
<1> QED  BY <1>6, <1>7, <1>8, <1>9 DEF Next

\* The threads and connections stay well formed.
LEMMA ThreadsKept ==
  ASSUME ServerInv, [Next]_vars
  PROVE  ThreadsTypeOK'
<1>1. ThreadsTypeOK
  BY DEF ServerInv
<1> USE DEF ThreadsTypeOK
<1>2. CASE Start \/ StartFails
  <2>1. starts' \in 0..MaxStarts
    <3>1. starts \in 0..MaxStarts /\ starts < MaxStarts /\ starts' = starts + 1
      BY <1>1, <1>2 DEF Start, StartFails
    <3> HIDE DEF ThreadsTypeOK
    <3> QED  BY <3>1, StartsAssumption
  <2>2. running' \in BOOLEAN
    BY <1>1, <1>2, Zenon DEF Start, StartFails
  <2>3. UNCHANGED backlog /\ UNCHANGED clientVars /\ UNCHANGED handlerVars
    BY <1>2 DEF Start, StartFails
  <2> QED  BY <1>1, <2>1, <2>2, <2>3 DEF clientVars, handlerVars
<1>3. CASE AcceptConnection
  <2>1. /\ handler' = [handler EXCEPT ![Head(backlog)] = "receiving"]
        /\ backlog' = Tail(backlog) /\ backlog # <<>>
        /\ UNCHANGED <<client, link, aircraftId, processedPackets, crashed, outcome,
                       finalStatistics, running, starts>>
    BY <1>3 DEF AcceptConnection, clientVars
  <2>2. backlog' \in Seq(Connections)
    BY <1>1, <2>1
  <2>3. handler' \in [Connections -> HandlerStates]
    BY <1>1, <2>1 DEF HandlerStates
  <2> QED  BY <1>1, <2>1, <2>2, <2>3
<1>4. CASE AcceptFails
  BY <1>1, <1>4 DEF AcceptFails, clientVars, handlerVars
<1>5. CASE Crash
  <2>1. link' \in [Connections -> LinkStates]
    BY <1>5 DEF Crash, LinkStates
  <2>2. handler' \in [Connections -> HandlerStates]
    BY <1>5 DEF Crash, HandlerStates
  <2>3. backlog' \in Seq(Connections) /\ running' \in BOOLEAN
    <3>1. backlog' = <<>> /\ running' = FALSE
      BY <1>5 DEF Crash
    <3>2. <<>> \in Seq(Connections)
      OBVIOUS
    <3> QED  BY <3>1, <3>2, Zenon
  <2> QED  BY <1>1, <1>5, <2>1, <2>2, <2>3 DEF Crash
<1>6. ASSUME NEW c \in Connections, HandlerStep(c), UNCHANGED serverVars
      PROVE  ThreadsTypeOK'
  <2>1. CASE Receive(c)
    BY <1>1, <1>6, <2>1 DEF Receive, handlerVars, serverVars
  <2>2. CASE HandleLine(c) \/ HandleRemainder(c)
    <3>1. /\ UNCHANGED <<handler, crashed, outcome, finalStatistics>>
          /\ UNCHANGED clientVars
          /\ UNCHANGED <<aircraftId, processedPackets>> \/ Accepted(c)
      BY <2>2, LoopRound
    <3>2. aircraftId' \in [Connections -> AircraftIds \cup {NoAircraft}]
      <4>1. \/ aircraftId' = aircraftId
            \/ aircraftId' = [aircraftId EXCEPT ![c] = IF @ = NoAircraft THEN IdOf[c] ELSE @]
        BY <3>1 DEF Accepted
      <4>2. IdOf[c] \in AircraftIds
        BY HandlerAssumption
      <4> QED  BY <1>1, <4>1, <4>2
    <3>3. processedPackets' \in [Connections -> Nat]
      <4>1. processedPackets' = processedPackets
            \/ processedPackets' = [processedPackets EXCEPT ![c] = @ + 1]
        BY <3>1 DEF Accepted
      <4>2. processedPackets \in [Connections -> Nat] /\ processedPackets[c] + 1 \in Nat
        BY <1>1
      <4> QED  BY <4>1, <4>2
    <3> QED  BY <1>1, <1>6, <3>1, <3>2, <3>3 DEF clientVars, serverVars
  <2>3. CASE LeaveLoop(c)
    BY <1>1, <1>6, <2>3 DEF LeaveLoop, HandlerStates, clientVars, serverVars
  <2>4. CASE SaveFlight(c)
    <3>1. finalStatistics' \in [Connections -> OutStatistics \cup {NoStatistics}]
      BY <1>1, <2>4, SavedFlight
    <3>2. /\ handler' \in [Connections -> HandlerStates]
          /\ outcome' \in [Connections -> {"none", "saved", "failed"}]
      BY <1>1, <2>4 DEF SaveFlight, HandlerStates
    <3> QED  BY <1>1, <1>6, <2>4, <3>1, <3>2 DEF SaveFlight, clientVars, serverVars
  <2>5. CASE FailToSave(c) \/ NothingToSave(c)
    BY <1>1, <1>6, <2>5 DEF FailToSave, NothingToSave, HandlerStates, clientVars, serverVars
  <2>6. CASE CloseConnection(c)
    BY <1>1, <1>6, <2>6 DEF CloseConnection, HandlerStates, LinkStates, serverVars
  <2> QED  BY <1>6, <2>1, <2>2, <2>3, <2>4, <2>5, <2>6 DEF HandlerStep
<1>7. ASSUME NEW c \in Connections, ClientStarts(c)
      PROVE  ThreadsTypeOK'
  <2>1. CASE ClientConnects(c)
    BY <1>1, <1>7, <2>1
       DEF ClientStarts, ClientConnects, Connect, ClientStates, LinkStates, handlerVars
  <2>2. CASE ConnectFails(c) /\ UNCHANGED serverVars
    BY <1>1, <1>7, <2>2
       DEF ClientStarts, ConnectFails, ClientStates, handlerVars, serverVars
  <2> QED  BY <1>7, <2>1, <2>2 DEF ClientStarts
<1>8. ASSUME NEW c \in Connections, Replay(c) \/ Fault(c)
      PROVE  ThreadsTypeOK'
  <2>1. client' \in [Connections -> ClientStates]
    BY <1>1, <1>8 DEF Replay, Fault, SendUnits, SendFails, FinishReplay, Kill,
                      SendFailsIntact, ConnectionReset, Vanish, ClientStates
  <2>2. link' \in [Connections -> LinkStates]
    BY <1>1, <1>8 DEF Replay, Fault, SendUnits, SendFails, FinishReplay, Kill,
                      SendFailsIntact, ConnectionReset, Vanish, LinkStates
  <2> QED  BY <1>1, <1>8, <2>1, <2>2 DEF Replay, Fault, handlerVars, serverVars
<1>9. CASE UNCHANGED vars
  BY <1>1, <1>9 DEF vars, clientVars, handlerVars, serverVars
<1> QED  BY <1>2, <1>3, <1>4, <1>5, <1>6, <1>7, <1>8, <1>9 DEF Next

\* A session is named by the first record the handler accepts.
LEMMA NamedKept ==
  ASSUME ServerInv, [Next]_vars
  PROVE  NamedAfterClient'
<1>1. NamedAfterClient /\ aircraftId \in [Connections -> AircraftIds \cup {NoAircraft}]
  BY DEF ServerInv, ThreadsTypeOK
<1>2. ASSUME UNCHANGED aircraftId
      PROVE  NamedAfterClient'
  BY <1>1, <1>2 DEF NamedAfterClient
<1>3. CASE Start \/ StartFails \/ AcceptConnection \/ AcceptFails
  BY <1>2, <1>3 DEF Start, StartFails, AcceptConnection, AcceptFails, handlerVars
<1>4. CASE Crash
  BY <1>4 DEF Crash, NamedAfterClient
<1>5. ASSUME NEW c \in Connections, HandlerStep(c)
      PROVE  NamedAfterClient'
  <2>1. CASE HandleLine(c) \/ HandleRemainder(c)
    <3>1. UNCHANGED aircraftId \/ Accepted(c)
      BY <2>1, LoopRound
    <3> QED  BY <1>1, <1>2, <3>1 DEF Accepted, NamedAfterClient
  <2>2. CASE Receive(c) \/ LeaveLoop(c) \/ SaveFlight(c) \/ FailToSave(c)
               \/ NothingToSave(c) \/ CloseConnection(c)
    BY <1>2, <2>2 DEF Receive, LeaveLoop, SaveFlight, FailToSave, NothingToSave,
                      CloseConnection, handlerVars
  <2> QED  BY <1>5, <2>1, <2>2 DEF HandlerStep
<1>6. ASSUME NEW c \in Connections, ClientStarts(c) \/ Replay(c) \/ Fault(c)
      PROVE  NamedAfterClient'
  BY <1>2, <1>6 DEF ClientStarts, Replay, Fault, handlerVars
<1>7. CASE UNCHANGED vars
  BY <1>2, <1>7 DEF vars, handlerVars
<1> QED  BY <1>3, <1>4, <1>5, <1>6, <1>7 DEF Next

\* Whoever is responsible for a flight stays so until the flight is closed.  A
\* handler that accepts a record becomes responsible for the flight it may have
\* opened, because it will complete the flight under the record's own id.
LEMMA NoOrphanKept ==
  ASSUME ServerInv, [Next]_vars
  PROVE  NoOrphanFlight'
<1>1. /\ NoOrphanFlight
      /\ handler \in [Connections -> HandlerStates]
      /\ aircraftId \in [Connections -> AircraftIds \cup {NoAircraft}]
      /\ NamedAfterClient
      /\ DOMAIN m_activeFlights \subseteq AircraftIds
  BY DEF ServerInv, ThreadsTypeOK, SessionInv, SessionTypeOK, ProcessorTypeOK, IsMapOf
<1> DEFINE Kept == \A c \in Connections :
                     handler[c] \in {"receiving", "completing"} =>
                       /\ handler'[c] \in {"receiving", "completing"}
                       /\ aircraftId'[c] = aircraftId[c]
<1>2. ASSUME UNCHANGED m_activeFlights, Kept
      PROVE  NoOrphanFlight'
  BY <1>1, <1>2 DEF NoOrphanFlight, Responsible
<1>3. CASE Start \/ Crash
  <2>1. m_activeFlights' = [id \in {} |-> 0]
    BY <1>3 DEF Start, Crash, Construct
  <2> QED  BY <2>1 DEF NoOrphanFlight
<1>4. CASE AcceptConnection
  <2>1. Kept /\ UNCHANGED m_activeFlights
    BY <1>1, <1>4 DEF AcceptConnection, sessionVars
  <2> QED  BY <1>2, <2>1
<1>5. ASSUME UNCHANGED <<handler, aircraftId, m_activeFlights>>
      PROVE  NoOrphanFlight'
  BY <1>2, <1>5
<1>6. ASSUME NEW c \in Connections, HandleLine(c) \/ HandleRemainder(c)
      PROVE  NoOrphanFlight'
  <2>1. handler[c] = "receiving" /\ UNCHANGED handler
    BY <1>6, LoopRound
  <2>2. CASE UNCHANGED sessionVars /\ UNCHANGED aircraftId
    BY <1>5, <2>1, <2>2 DEF sessionVars
  <2>3. CASE Accepted(c)
    <3>1. PICK line \in TelemetryRecord :
            /\ line.AircraftId = IdOf[c]
            /\ AcceptRecord(line)
            /\ aircraftId' = [aircraftId EXCEPT ![c] = IF @ = NoAircraft THEN IdOf[c] ELSE @]
      BY <2>3 DEF Accepted
    <3>2. aircraftId'[c] = IdOf[c]
      BY <1>1, <3>1 DEF NamedAfterClient
    <3>3. DOMAIN m_activeFlights' = DOMAIN m_activeFlights \cup {IdOf[c]}
      BY <3>1 DEF AcceptRecord, Process, Put
    <3>4. NoAircraft \notin AircraftIds
      BY HandlerAssumption
    <3>5. ASSUME NEW id \in DOMAIN m_activeFlights'
          PROVE  Responsible(id)' # {}
      <4>1. CASE id = IdOf[c]
        BY <2>1, <3>2, <4>1 DEF Responsible
      <4>2. CASE id # IdOf[c]
        <5>1. id \in DOMAIN m_activeFlights
          BY <3>3, <3>5, <4>2
        <5>2. PICK d \in Connections :
                handler[d] \in {"receiving", "completing"} /\ aircraftId[d] = id
          BY <1>1, <5>1 DEF NoOrphanFlight, Responsible
        <5>3. aircraftId'[d] = id
          <6>1. id # NoAircraft
            BY <1>1, <3>4, <5>1
          <6> QED  BY <1>1, <3>1, <5>2, <6>1
        <5> QED  BY <2>1, <5>2, <5>3 DEF Responsible
      <4> QED  BY <4>1, <4>2
    <3> QED  BY <3>5 DEF NoOrphanFlight
  <2> QED  BY <1>6, <2>2, <2>3, LoopRound
<1>7. ASSUME NEW c \in Connections, SaveFlight(c)
      PROVE  NoOrphanFlight'
  <2>1. DOMAIN m_activeFlights' = DOMAIN m_activeFlights \ {aircraftId[c]}
    BY <1>7 DEF SaveFlight, CompleteFlight, FinalizeFlight, Without, Restrict
  <2>2. handler' = [handler EXCEPT ![c] = "closing"] /\ UNCHANGED aircraftId
    BY <1>7 DEF SaveFlight
  <2> QED  BY <1>1, <2>1, <2>2 DEF NoOrphanFlight, Responsible
<1>8. ASSUME NEW c \in Connections, FailToSave(c) \/ NothingToSave(c)
      PROVE  NoOrphanFlight'
  <2>1. /\ handler' = [handler EXCEPT ![c] = "closing"]
        /\ UNCHANGED <<aircraftId, m_activeFlights>>
        /\ aircraftId[c] \notin DOMAIN m_activeFlights
    BY <1>1, <1>8, HandlerAssumption DEF FailToSave, NoSuchFlight, NothingToSave, sessionVars
  <2> QED  BY <1>1, <2>1 DEF NoOrphanFlight, Responsible
<1>9. ASSUME NEW c \in Connections, HandlerStep(c)
      PROVE  NoOrphanFlight'
  <2>1. CASE Receive(c)
    BY <1>5, <2>1 DEF Receive, handlerVars, sessionVars
  <2>2. CASE LeaveLoop(c) \/ CloseConnection(c)
    <3>1. Kept /\ UNCHANGED m_activeFlights
      BY <1>1, <2>2 DEF LeaveLoop, AtEof, CloseConnection, sessionVars
    <3> QED  BY <1>2, <3>1
  <2> QED  BY <1>6, <1>7, <1>8, <1>9, <2>1, <2>2 DEF HandlerStep
<1>10. CASE StartFails \/ AcceptFails \/ UNCHANGED vars
  BY <1>5, <1>10 DEF StartFails, AcceptFails, vars, handlerVars, sessionVars
<1>11. ASSUME NEW c \in Connections, ClientStarts(c) \/ Replay(c) \/ Fault(c)
       PROVE  NoOrphanFlight'
  BY <1>5, <1>11 DEF ClientStarts, Replay, Fault, handlerVars, sessionVars
<1> QED  BY <1>3, <1>4, <1>9, <1>10, <1>11 DEF Next

-----------------------------------------------------------------------------
(* The theorems                                                            *)

\* Nothing has started yet.
LEMMA ServerInitInv ==
  Init => ServerInv
<1> SUFFICES ASSUME Init
             PROVE  ServerInv
  OBVIOUS
<1>1. SessionInv
  BY SessionInitInv DEF Init
<1>2. ThreadsTypeOK
  <2>1. <<>> \in Seq(Connections) /\ 0 \in 0..MaxStarts
    BY StartsAssumption
  <2> QED  BY <2>1 DEF Init, ClientInit, HandlerInit, ThreadsTypeOK, ClientStates,
                       LinkStates, HandlerStates
<1>3. CursorsOK
  BY Lengths DEF Init, ClientInit, HandlerInit, CursorsOK
<1>4. NamedAfterClient
  BY DEF Init, HandlerInit, NamedAfterClient
<1>5. NoOrphanFlight
  BY DEF Init, SessionInit, ProcessorInit, NoOrphanFlight
<1> QED  BY <1>1, <1>2, <1>3, <1>4, <1>5 DEF ServerInv

\* Every step of the server, its clients and their environment keeps the
\* invariant.
LEMMA ServerStepInv ==
  ASSUME ServerInv, [Next]_vars
  PROVE  ServerInv'
<1>1. SessionInv'
  BY StepRefines, SessionStepInv DEF ServerInv
<1> QED  BY <1>1, ThreadsKept, CursorsKept, NamedKept, NoOrphanKept DEF ServerInv

\* For any number of connections, whatever they send and whatever happens to
\* them, with restarts, shared aircraft ids and lost rows: the state is well
\* formed, no flight is left without a handler that will close it, and the
\* manager's invariants hold.
THEOREM ServerCorrect ==
  Spec => [](/\ TypeOK /\ NoOrphanFlight /\ OneHeader /\ RowsAddUp
             /\ FuelWithinBounds /\ ExactWhenOrdered /\ SpanCovered)
<1>1. Init => ServerInv
  BY ServerInitInv
<1>2. ServerInv /\ [Next]_vars => ServerInv'
  BY ServerStepInv
<1>3. ServerInv => /\ TypeOK /\ NoOrphanFlight /\ OneHeader /\ RowsAddUp
                   /\ FuelWithinBounds /\ ExactWhenOrdered /\ SpanCovered
  BY AccountedFlightsAreRight DEF ServerInv, SessionInv, TypeOK
<1> QED  BY <1>1, <1>2, <1>3, PTL DEF Spec

\* The server implements the session manager: its threads reach the shared
\* state only through the manager's operations.
THEOREM ServerImplementsManager ==
  Spec => SessionSpec
<1>1. Init => ServerInv /\ SessionInit
  BY ServerInitInv DEF Init
<1>2. ServerInv /\ [Next]_vars => ServerInv'
  BY ServerStepInv
<1>3. ServerInv /\ [Next]_vars => [SessionNext]_sessionVars
  BY StepRefines
<1> QED  BY <1>1, <1>2, <1>3, PTL DEF Spec, SessionSpec

\* So no crash, restart or client makes the server lose a row it has written.
THEOREM ServerNeverOverwrites ==
  Spec => NeverOverwritten
BY ServerImplementsManager, RowsNeverOverwritten, PTL

\* And that its connections, however many there are and whatever becomes of
\* them, see of the flights what the ledger promises.
THEOREM ServerImplementsLedger ==
  Spec => ImplementsLedger
BY ServerImplementsManager, SessionImplementsLedger, PTL
=============================================================================
