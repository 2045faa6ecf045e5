------------------------- MODULE ServerEndToEnd_proofs -------------------------
(***************************************************************************)
(* Proofs about what becomes of the lines of a client: what the server has *)
(* consumed of its stream is what the handler has counted and, when no     *)
(* other client uses the aircraft id, what the flight in progress holds;   *)
(* and, when they do, what all of them have counted is in their flights.   *)
(***************************************************************************)
EXTENDS ServerApp_proofs, FoldTheorems

-----------------------------------------------------------------------------
(* Lines, records and queues                                               *)

\* Whole lines are counted exactly.
LEMMA WholeLines ==
  ASSUME NEW L \in Nat \ {0}, NEW n \in Nat
  PROVE  (n * L) \div L = n
<1> DEFINE k == (n * L) \div L
<1>1. n * L \in Nat
  OBVIOUS
<1>2. k \in Nat /\ k * L <= n * L /\ n * L < k * L + L
  BY <1>1, LineOfUnit
<1> HIDE DEF k
<1>3. n * L < (k + 1) * L
  BY <1>2
<1>4. k <= n /\ n < k + 1
  BY <1>2, <1>3
<1> QED  BY <1>2, <1>4 DEF k

\* More units hold no fewer lines.
LEMMA LinesGrow ==
  ASSUME NEW L \in Nat \ {0}, NEW m \in Nat, NEW n \in Nat, m <= n
  PROVE  m \div L <= n \div L
<1> DEFINE j == m \div L
           k == n \div L
<1>1. j \in Nat /\ k \in Nat /\ j * L <= m /\ n < k * L + L /\ j * L \in Nat
      /\ k * L \in Nat
  BY LineOfUnit
<1> HIDE DEF j, k
<1>2. j * L < (k + 1) * L
  BY <1>1
<1>3. j < k + 1
  BY <1>1, <1>2
<1> QED  BY <1>1, <1>3 DEF j, k

\* The records among some lines are counted, more lines have no fewer, and one
\* more line has one more at the most.
LEMMA RecordsAmong ==
  ASSUME NEW c \in Connections, NEW n \in Nat
  PROVE  /\ IsFiniteSet(RecordLines(c, n))
         /\ Cardinality(RecordLines(c, n)) \in Nat
<1>1. IsFiniteSet(1..n)
  BY FS_Interval
<1>2. RecordLines(c, n) \in SUBSET (1..n)
  BY DEF RecordLines
<1>3. IsFiniteSet(RecordLines(c, n))
  BY <1>1, <1>2, FS_Subset
<1> QED  BY <1>3, FS_CardinalityType

LEMMA RecordsGrow ==
  ASSUME NEW c \in Connections, NEW m \in Nat, NEW n \in Nat, m <= n
  PROVE  Cardinality(RecordLines(c, m)) <= Cardinality(RecordLines(c, n))
<1>1. RecordLines(c, m) \in SUBSET RecordLines(c, n)
  BY DEF RecordLines
<1> QED  BY <1>1, RecordsAmong, FS_Subset

LEMMA NextLine ==
  ASSUME NEW c \in Connections, NEW n \in Nat
  PROVE  /\ Telemetry[c][n + 1] \in {Malformed, Blank} =>
              RecordLines(c, n + 1) = RecordLines(c, n)
         /\ Telemetry[c][n + 1] \notin {Malformed, Blank} =>
              /\ RecordLines(c, n + 1) = RecordLines(c, n) \cup {n + 1}
              /\ Cardinality(RecordLines(c, n + 1)) = Cardinality(RecordLines(c, n)) + 1
<1>1. 1..(n + 1) = (1..n) \cup {n + 1}
  OBVIOUS
<1>2. Telemetry[c][n + 1] \in {Malformed, Blank} =>
        RecordLines(c, n + 1) = RecordLines(c, n)
  BY <1>1 DEF RecordLines
<1>3. ASSUME Telemetry[c][n + 1] \notin {Malformed, Blank}
      PROVE  /\ RecordLines(c, n + 1) = RecordLines(c, n) \cup {n + 1}
             /\ Cardinality(RecordLines(c, n + 1)) = Cardinality(RecordLines(c, n)) + 1
  <2>1. RecordLines(c, n + 1) = RecordLines(c, n) \cup {n + 1}
    BY <1>1, <1>3 DEF RecordLines
  <2>2. n + 1 \notin RecordLines(c, n)
    BY DEF RecordLines
  <2> QED  BY <2>1, <2>2, RecordsAmong, FS_AddElement
<1> QED  BY <1>2, <1>3

\* A queue that a client joins, and one whose first client leaves it.
LEMMA Joined ==
  ASSUME NEW S, NEW q \in Seq(S), NEW x \in S
  PROVE  /\ Append(q, x) \in Seq(S)
         /\ Len(Append(q, x)) = Len(q) + 1
         /\ Append(q, x)[Len(q) + 1] = x
         /\ \A i \in 1..Len(q) : Append(q, x)[i] = q[i]
OBVIOUS

LEMMA Left ==
  ASSUME NEW S, NEW q \in Seq(S), q # <<>>
  PROVE  /\ Tail(q) \in Seq(S)
         /\ Len(q) \in Nat \ {0} /\ Len(Tail(q)) = Len(q) - 1
         /\ Head(q) = q[1] /\ q[1] \in S
         /\ \A i \in 1..Len(Tail(q)) : i + 1 \in 1..Len(q) /\ Tail(q)[i] = q[i + 1]
OBVIOUS

-----------------------------------------------------------------------------
(* The inductive invariant                                                 *)

\* The lines a handler has consumed, whether it stands at the end of one, and
\* the records among them.
TakenLines(c) == taken[c] \div LineLength
AtLineEnd(c) == taken[c] = TakenLines(c) * LineLength
Seen(c) == RecordLines(c, TakenLines(c))

\* A connection is queued once, before it has a handler, and nothing is known of
\* it until then.
QueueOK ==
  /\ \A c \in Connections : client[c] = "notStarted" =>
       /\ handler[c] = "none" /\ link[c] = "none"
       /\ \A i \in 1..Len(backlog) : backlog[i] # c
  /\ \A i \in 1..Len(backlog) : handler[backlog[i]] = "none"
  /\ \A i, j \in 1..Len(backlog) : backlog[i] = backlog[j] => i = j
  /\ \A c \in Connections : handler[c] = "none" =>
       taken[c] = 0 /\ processedPackets[c] = 0 /\ aircraftId[c] = NoAircraft
  /\ \A c \in Connections : handler[c] \in {"none", "receiving", "completing"} =>
       outcome[c] = "none"

\* Between two runs of the server no handler is at work and none has an aircraft.
StoppedOK ==
  ~running => \A c \in Connections :
                /\ handler[c] \in {"none", "closed"}
                /\ aircraftId[c] = NoAircraft /\ outcome[c] = "none"

\* An orderly end of the connection is the client's: at the end of its file, or
\* when it was killed or gave up.
LinkOK ==
  \A c \in Connections :
    /\ link[c] = "fin" => client[c] \in {"finished", "killed", "displayOnly"}
    /\ client[c] = "finished" => sent[c] = StreamLength(c)

\* At the end of a line no more was accepted than there are records among the
\* lines consumed; elsewhere only after the client was killed or gave up and
\* everything it had sent was consumed.
CutOK ==
  \A c \in Connections :
    \/ AtLineEnd(c) /\ processedPackets[c] <= Cardinality(Seen(c))
    \/ /\ client[c] \in {"killed", "displayOnly"}
       /\ taken[c] = received[c] /\ received[c] = sent[c]
       /\ processedPackets[c] <= Cardinality(Seen(c)) + 1

\* Where a handler has accepted a record, its flight is in progress or somebody
\* has saved it.
AccountedOK ==
  \A c \in Connections :
    aircraftId[c] # NoAircraft =>
      aircraftId[c] \in DOMAIN m_activeFlights \/ Savers(aircraftId[c]) # {}

\* The flight in progress of a client that has its aircraft id to itself holds
\* what the handler has seen.
Mirrors(c) ==
  IF Seen(c) = {}
    THEN aircraftId[c] = NoAircraft /\ IdOf[c] \notin DOMAIN m_activeFlights
    ELSE /\ aircraftId[c] = IdOf[c] /\ IdOf[c] \in DOMAIN m_activeFlights
         /\ CoversRecords(m_activeFlights[IdOf[c]], c, Seen(c))

MirrorOK ==
  \A c \in Connections :
    (Dedicated(c) /\ handler[c] \in {"none", "receiving", "completing"} /\ AtLineEnd(c)) =>
      Mirrors(c)

\* A handler that has left its loop without an error has the whole stream of a
\* client that came to the end of its file.
EndedOK ==
  \A c \in Connections :
    ((handler[c] = "completing" \/ outcome[c] = "saved") /\ ~crashed[c]) =>
      /\ client[c] \in {"finished", "killed", "displayOnly"}
      /\ client[c] = "finished" /\ handler[c] = "completing" => taken[c] = StreamLength(c)

EndInv ==
  /\ ServerInv
  /\ QueueOK /\ StoppedOK /\ LinkOK /\ CutOK /\ AccountedOK /\ MirrorOK /\ EndedOK
  /\ FailsOnlyWhenShared
  /\ EndToEnd

-----------------------------------------------------------------------------
(* One line                                                                *)

\* The lines consumed are a number of the stream's lines.
LEMMA TakenLinesType ==
  ASSUME CursorsOK, NEW c \in Connections
  PROVE  /\ taken[c] \in Nat /\ received[c] \in Nat /\ sent[c] \in Nat
         /\ TakenLines(c) \in Nat /\ WholeLinesSent(c) \in Nat
         /\ TakenLines(c) <= WholeLinesSent(c)
         /\ TakenLines(c) * LineLength \in Nat
         /\ TakenLines(c) * LineLength <= taken[c]
<1>1. /\ taken[c] \in Nat /\ received[c] \in Nat /\ sent[c] \in Nat
      /\ taken[c] <= sent[c]
  BY DEF CursorsOK
<1>2. LineLength \in Nat \ {0}
  BY Lengths
<1> QED  BY <1>1, <1>2, LineOfUnit, LinesGrow DEF TakenLines, WholeLinesSent

\* Where there is no line, there is less than one.
LEMMA NoLine ==
  ASSUME CursorsOK, NEW c \in Connections, ~HasLine(c)
  PROVE  (received[c] \div LineLength) * LineLength <= taken[c]
<1>1. taken[c] \in Nat /\ received[c] \in Nat /\ LineLength \in Nat \ {0}
  BY Lengths DEF CursorsOK
<1>2. (received[c] \div LineLength) * LineLength \in Nat
  BY <1>1, LineOfUnit
<1> QED  BY <1>1, <1>2 DEF HasLine

\* What the handler consumes with a line, and what it has seen then.
LEMMA LineTaken ==
  ASSUME ServerInv, NEW c \in Connections, HandleLine(c)
  PROVE  /\ UNCHANGED clientVars /\ UNCHANGED <<handler, crashed, outcome, finalStatistics>>
         /\ \A d \in Connections \ {c} : taken'[d] = taken[d]
         /\ TakenLines(c)' = TakenLines(c) + 1
         /\ AtLineEnd(c)'
         /\ LET line == Telemetry[c][TakenLines(c) + 1] IN
              \/ /\ line \in {Malformed, Blank} /\ Seen(c)' = Seen(c)
                 /\ UNCHANGED sessionVars /\ UNCHANGED <<aircraftId, processedPackets>>
              \/ /\ line \notin {Malformed, Blank}
                 /\ Seen(c)' = Seen(c) \cup {TakenLines(c) + 1}
                 /\ Cardinality(Seen(c)') = Cardinality(Seen(c)) + 1
                 /\ line \in TelemetryRecord /\ line.AircraftId = IdOf[c]
                 /\ AcceptRecord(line)
                 /\ aircraftId' =
                      [aircraftId EXCEPT ![c] = IF @ = NoAircraft THEN IdOf[c] ELSE @]
                 /\ processedPackets' = [processedPackets EXCEPT ![c] = @ + 1]
<1> DEFINE line == Telemetry[c][TakenLines(c) + 1]
<1>1. CursorsOK /\ taken \in [Connections -> Nat] /\ LineLength \in Nat \ {0}
  BY Lengths DEF ServerInv, CursorsOK
<1>2. HasLine(c) /\ UNCHANGED clientVars
  BY DEF HandleLine
<1>3. TakenLines(c) \in Nat
  BY <1>1, TakenLinesType
<1>4. taken' = [taken EXCEPT ![c] = (TakenLines(c) + 1) * LineLength]
  BY DEF HandleLine, TakeLine, TakenLines
<1>5. taken'[c] = (TakenLines(c) + 1) * LineLength
      /\ \A d \in Connections \ {c} : taken'[d] = taken[d]
  BY <1>1, <1>4
<1>6. TakenLines(c)' = TakenLines(c) + 1
  <2> DEFINE q == TakenLines(c)
  <2>1. q + 1 \in Nat /\ taken'[c] = (q + 1) * LineLength
    BY <1>3, <1>5
  <2>2. TakenLines(c)' = taken'[c] \div LineLength
    BY DEF TakenLines
  <2> HIDE DEF q
  <2>3. ((q + 1) * LineLength) \div LineLength = q + 1
    BY <1>1, <2>1, WholeLines
  <2> QED  BY <2>1, <2>2, <2>3 DEF q
<1>7. AtLineEnd(c)'
  BY <1>5, <1>6 DEF AtLineEnd
<1>8. Seen(c)' = RecordLines(c, TakenLines(c) + 1)
  BY <1>6 DEF Seen, RecordLines
<1>9. line = CurrentLine(c)
  BY DEF CurrentLine, TakenLines
<1>10. \/ line \in {Malformed, Blank}
       \/ line \in TelemetryRecord /\ line.AircraftId = IdOf[c]
  BY <1>1, <1>2, <1>9, HasLineBounds, CurrentLineType
<1>11. Discard(c, line) \/ Accept(c, line)
  BY <1>9 DEF HandleLine
<1> HIDE DEF line
<1>12. CASE Discard(c, line)
  <2>1. line \in {Malformed, Blank}
    BY <1>12 DEF Discard
  <2>2. Seen(c)' = Seen(c)
    BY <1>3, <1>8, <2>1, NextLine DEF Seen, line
  <2> QED  BY <1>2, <1>5, <1>6, <1>7, <1>12, <2>1, <2>2 DEF Discard, line
<1>13. CASE Accept(c, line)
  <2>1. line \notin {Malformed, Blank}
    BY <1>13 DEF Accept
  <2>2. /\ Seen(c)' = Seen(c) \cup {TakenLines(c) + 1}
        /\ Cardinality(Seen(c)') = Cardinality(Seen(c)) + 1
    BY <1>3, <1>8, <2>1, NextLine DEF Seen, line
  <2> QED  BY <1>2, <1>5, <1>6, <1>7, <1>10, <1>13, <2>1, <2>2 DEF Accept, line
<1> QED  BY <1>11, <1>12, <1>13

-----------------------------------------------------------------------------
(* The queue                                                               *)

\* A step of the handler of c changes nothing for any other connection, and c
\* has left the queue.
OwnStep(c) ==
  /\ handler[c] \notin {"none", "closed"} /\ handler'[c] # "none"
  /\ handler'[c] \in {"receiving", "completing"} =>
       handler[c] \in {"receiving", "completing"} /\ outcome'[c] = outcome[c]
  /\ \A d \in Connections \ {c} :
       /\ handler'[d] = handler[d] /\ link'[d] = link[d]
       /\ taken'[d] = taken[d] /\ processedPackets'[d] = processedPackets[d]
       /\ aircraftId'[d] = aircraftId[d] /\ outcome'[d] = outcome[d]
       /\ crashed'[d] = crashed[d] /\ finalStatistics'[d] = finalStatistics[d]
  /\ UNCHANGED <<client, backlog, running>>

LEMMA HandlerStepsAreOwn ==
  ASSUME ServerInv, NEW c \in Connections, HandlerStep(c), UNCHANGED serverVars
  PROVE  OwnStep(c)
<1>1. ThreadsTypeOK /\ taken \in [Connections -> Nat]
  BY DEF ServerInv, CursorsOK
<1> USE DEF ThreadsTypeOK, OwnStep, serverVars
<1>2. CASE Receive(c)
  BY <1>1, <1>2 DEF Receive, handlerVars
<1>3. CASE HandleLine(c) \/ HandleRemainder(c)
  <2>1. /\ handler[c] = "receiving"
        /\ UNCHANGED <<handler, crashed, outcome, finalStatistics>>
        /\ UNCHANGED clientVars
        /\ \E n \in Nat : taken' = [taken EXCEPT ![c] = n]
        /\ UNCHANGED <<aircraftId, processedPackets>> \/ Accepted(c)
    BY <1>3, LoopRound
  <2>2. \A d \in Connections \ {c} :
          aircraftId'[d] = aircraftId[d] /\ processedPackets'[d] = processedPackets[d]
    BY <1>1, <2>1 DEF Accepted
  <2> QED  BY <1>1, <2>1, <2>2 DEF clientVars
<1>4. CASE LeaveLoop(c)
  BY <1>1, <1>4 DEF LeaveLoop, AtEof, clientVars
<1>5. CASE SaveFlight(c) \/ FailToSave(c) \/ NothingToSave(c)
  BY <1>1, <1>5 DEF SaveFlight, FailToSave, NothingToSave, clientVars
<1>6. CASE CloseConnection(c)
  BY <1>1, <1>6 DEF CloseConnection
<1> QED  BY <1>2, <1>3, <1>4, <1>5, <1>6 DEF HandlerStep

\* A step of a client that is connected, or of its environment, leaves the
\* server alone.
LEMMA ClientStepsAreOwn ==
  ASSUME ServerInv, NEW c \in Connections, Replay(c) \/ Fault(c)
  PROVE  /\ UNCHANGED serverVars /\ UNCHANGED handlerVars /\ UNCHANGED sessionVars
         /\ client[c] = "notStarted" => link[c] # "none"
         /\ client'[c] = "notStarted" => client[c] = "notStarted"
         /\ \A d \in Connections \ {c} :
              client'[d] = client[d] /\ link'[d] = link[d] /\ sent'[d] = sent[d]
         /\ UNCHANGED received
<1>1. /\ client \in [Connections -> ClientStates] /\ link \in [Connections -> LinkStates]
      /\ sent \in [Connections -> Nat]
  BY DEF ServerInv, ThreadsTypeOK, CursorsOK
<1>2. UNCHANGED serverVars /\ UNCHANGED handlerVars /\ UNCHANGED sessionVars
  BY DEF Replay, Fault
<1>3. CASE Replay(c)
  BY <1>1, <1>2, <1>3 DEF Replay, SendUnits, SendFails, FinishReplay
<1>4. CASE Fault(c)
  BY <1>1, <1>2, <1>4 DEF Fault, Kill, SendFailsIntact, ConnectionReset, Vanish
<1> QED  BY <1>3, <1>4

LEMMA QueueKept ==
  ASSUME ServerInv, QueueOK, [Next]_vars
  PROVE  QueueOK'
<1>1. /\ client \in [Connections -> ClientStates]
      /\ link \in [Connections -> LinkStates]
      /\ handler \in [Connections -> HandlerStates]
      /\ backlog \in Seq(Connections)
  BY DEF ServerInv, ThreadsTypeOK
<1>2. ASSUME UNCHANGED <<client, link, handler, backlog, taken, processedPackets,
                         aircraftId, outcome>>
      PROVE  QueueOK'
  BY <1>2 DEF QueueOK
<1>3. CASE Start \/ StartFails \/ UNCHANGED vars
  BY <1>2, <1>3 DEF Start, StartFails, vars, clientVars, handlerVars, serverVars
<1>4. CASE AcceptConnection
  <2>1. /\ backlog # <<>> /\ backlog' = Tail(backlog)
        /\ handler' = [handler EXCEPT ![Head(backlog)] = "receiving"]
        /\ UNCHANGED <<client, link, taken, processedPackets, aircraftId, outcome>>
    BY <1>4 DEF AcceptConnection, clientVars
  <2>2. /\ Len(backlog) \in Nat \ {0} /\ Len(backlog') = Len(backlog) - 1
        /\ Head(backlog) = backlog[1] /\ backlog[1] \in Connections
        /\ \A i \in 1..Len(backlog') : i + 1 \in 1..Len(backlog) /\ backlog'[i] = backlog[i + 1]
    BY <1>1, <2>1, Left
  <2>3. 1 \in 1..Len(backlog)
    BY <2>2
  <2>4. \A i \in 1..Len(backlog') :
          handler'[backlog'[i]] = "none" /\ backlog'[i] # backlog[1]
    <3> SUFFICES ASSUME NEW i \in 1..Len(backlog')
                 PROVE  handler'[backlog'[i]] = "none" /\ backlog'[i] # backlog[1]
      OBVIOUS
    <3>1. i + 1 \in 1..Len(backlog) /\ backlog'[i] = backlog[i + 1] /\ i + 1 # 1
      BY <2>2
    <3>2. backlog[i + 1] # backlog[1] /\ handler[backlog[i + 1]] = "none"
      BY <2>3, <3>1 DEF QueueOK
    <3> QED  BY <1>1, <2>1, <2>2, <3>1, <3>2
  <2>5. \A i, j \in 1..Len(backlog') : backlog'[i] = backlog'[j] => i = j
    <3> SUFFICES ASSUME NEW i \in 1..Len(backlog'), NEW j \in 1..Len(backlog'),
                        backlog'[i] = backlog'[j]
                 PROVE  i = j
      OBVIOUS
    <3>1. i + 1 = j + 1
      BY <2>2 DEF QueueOK
    <3> QED  BY <3>1
  <2>6. \A c \in Connections : c # backlog[1] => handler'[c] = handler[c]
    BY <1>1, <2>1, <2>2
  <2>7. handler'[backlog[1]] = "receiving" /\ handler[backlog[1]] = "none"
    BY <1>1, <2>1, <2>2, <2>3 DEF QueueOK
  <2>8. \A c \in Connections : client'[c] = "notStarted" =>
          /\ handler'[c] = "none" /\ link'[c] = "none"
          /\ \A i \in 1..Len(backlog') : backlog'[i] # c
    <3> SUFFICES ASSUME NEW c \in Connections, client[c] = "notStarted"
                 PROVE  /\ handler'[c] = "none" /\ link[c] = "none"
                        /\ \A i \in 1..Len(backlog') : backlog'[i] # c
      BY <2>1
    <3>1. /\ handler[c] = "none" /\ link[c] = "none"
          /\ \A i \in 1..Len(backlog) : backlog[i] # c
      BY DEF QueueOK
    <3>2. c # backlog[1]
      BY <2>3, <3>1
    <3> QED  BY <2>2, <2>6, <3>1, <3>2
  <2>9. \A c \in Connections : handler'[c] = "none" =>
          taken'[c] = 0 /\ processedPackets'[c] = 0 /\ aircraftId'[c] = NoAircraft
    BY <2>1, <2>6, <2>7 DEF QueueOK
  <2>10. \A c \in Connections : handler'[c] \in {"none", "receiving", "completing"} =>
           outcome'[c] = "none"
    BY <2>1, <2>6, <2>7 DEF QueueOK
  <2> QED  BY <2>4, <2>5, <2>8, <2>9, <2>10 DEF QueueOK
<1>5. CASE AcceptFails
  <2>1. /\ backlog # <<>> /\ backlog' = Tail(backlog)
        /\ UNCHANGED <<client, link, handler, taken, processedPackets, aircraftId, outcome>>
    BY <1>5 DEF AcceptFails, clientVars, handlerVars
  <2>2. \A i \in 1..Len(backlog') : i + 1 \in 1..Len(backlog) /\ backlog'[i] = backlog[i + 1]
    BY <1>1, <2>1, Left
  <2>3. \A i, j \in 1..Len(backlog') : backlog'[i] = backlog'[j] => i = j
    <3> SUFFICES ASSUME NEW i \in 1..Len(backlog'), NEW j \in 1..Len(backlog'),
                        backlog'[i] = backlog'[j]
                 PROVE  i = j
      OBVIOUS
    <3>1. i + 1 = j + 1
      BY <2>2 DEF QueueOK
    <3> QED  BY <3>1
  <2> QED  BY <2>1, <2>2, <2>3 DEF QueueOK
<1>6. CASE Crash
  <2>1. /\ backlog' = <<>>
        /\ UNCHANGED <<client, taken>>
        /\ \A c \in Connections :
             /\ handler[c] = "none" <=> handler'[c] = "none"
             /\ handler'[c] \in {"none", "closed"}
             /\ link[c] = "none" => link'[c] = "none"
             /\ processedPackets'[c] = 0 /\ aircraftId'[c] = NoAircraft
             /\ outcome'[c] = "none"
    BY <1>6 DEF Crash
  <2>2. \A i \in 1..Len(backlog') : FALSE
    BY <2>1
  <2> QED  BY <2>1, <2>2 DEF QueueOK
<1>7. ASSUME NEW c \in Connections, HandlerStep(c), UNCHANGED serverVars
      PROVE  QueueOK'
  <2>1. OwnStep(c)
    BY <1>7, HandlerStepsAreOwn
  <2>2. \A i \in 1..Len(backlog) : backlog[i] # c
    BY <2>1 DEF OwnStep, QueueOK
  <2>3. \A i \in 1..Len(backlog) : backlog[i] \in Connections
    BY <1>1
  <2>4. \A d \in Connections : client'[d] = "notStarted" => d # c
    BY <2>1 DEF OwnStep, QueueOK
  <2> QED  BY <2>1, <2>2, <2>3, <2>4 DEF OwnStep, QueueOK
<1>8. ASSUME NEW c \in Connections, ClientConnects(c), UNCHANGED handlerVars
      PROVE  QueueOK'
  <2>1. /\ client[c] = "notStarted" /\ client'[c] = "sending"
        /\ \A d \in Connections \ {c} : client'[d] = client[d] /\ link'[d] = link[d]
        /\ backlog' = Append(backlog, c)
        /\ UNCHANGED <<handler, taken, processedPackets, aircraftId, outcome>>
    BY <1>1, <1>8 DEF ClientConnects, Connect, handlerVars
  <2>2. /\ handler[c] = "none"
        /\ \A i \in 1..Len(backlog) : backlog[i] # c
    BY <2>1 DEF QueueOK
  <2>3. /\ Len(backlog) \in Nat /\ Len(backlog') = Len(backlog) + 1
        /\ backlog'[Len(backlog) + 1] = c
        /\ \A i \in 1..Len(backlog) : backlog'[i] = backlog[i]
    BY <1>1, <2>1, Joined
  <2>4. \A i \in 1..Len(backlog') : i \in 1..Len(backlog) \/ i = Len(backlog) + 1
    BY <2>3
  <2>5. \A i \in 1..Len(backlog') : handler[backlog'[i]] = "none"
    BY <2>2, <2>3, <2>4 DEF QueueOK
  <2>6. \A i, j \in 1..Len(backlog') : backlog'[i] = backlog'[j] => i = j
    BY <2>2, <2>3, <2>4 DEF QueueOK
  <2>7. \A d \in Connections : client'[d] = "notStarted" =>
          d # c /\ \A i \in 1..Len(backlog') : backlog'[i] # d
    BY <2>1, <2>3, <2>4 DEF QueueOK
  <2> QED  BY <2>1, <2>5, <2>6, <2>7 DEF QueueOK
<1>9. ASSUME NEW c \in Connections, ClientStarts(c)
      PROVE  QueueOK'
  <2>1. CASE ClientConnects(c)
    BY <1>8, <1>9, <2>1 DEF ClientStarts
  <2>2. CASE ConnectFails(c) /\ UNCHANGED serverVars
    BY <1>1, <1>9, <2>2 DEF ClientStarts, ConnectFails, QueueOK, handlerVars, serverVars
  <2> QED  BY <1>9, <2>1, <2>2 DEF ClientStarts
<1>10. ASSUME NEW c \in Connections, Replay(c) \/ Fault(c)
       PROVE  QueueOK'
  <2>1. /\ UNCHANGED <<handler, backlog, taken, processedPackets, aircraftId, outcome>>
        /\ client[c] = "notStarted" => link[c] # "none"
        /\ client'[c] = "notStarted" => client[c] = "notStarted"
        /\ \A d \in Connections \ {c} : client'[d] = client[d] /\ link'[d] = link[d]
    BY <1>10, ClientStepsAreOwn DEF serverVars, handlerVars
  <2>2. client'[c] # "notStarted"
    BY <2>1 DEF QueueOK
  <2> QED  BY <2>1, <2>2 DEF QueueOK
<1> QED  BY <1>3, <1>4, <1>5, <1>6, <1>7, <1>9, <1>10 DEF Next

-----------------------------------------------------------------------------
(* The end of a stream                                                     *)

LEMMA LinkKept ==
  ASSUME ServerInv, QueueOK, LinkOK, [Next]_vars
  PROVE  LinkOK'
<1>1. /\ client \in [Connections -> ClientStates]
      /\ link \in [Connections -> LinkStates]
      /\ sent \in [Connections -> Nat]
  BY DEF ServerInv, ThreadsTypeOK, CursorsOK
<1>2. ASSUME UNCHANGED <<client, sent>>,
             \A c \in Connections : link'[c] = "fin" => link[c] = "fin"
      PROVE  LinkOK'
  BY <1>2 DEF LinkOK, StreamLength
<1>3. CASE Start \/ StartFails \/ AcceptConnection \/ AcceptFails \/ UNCHANGED vars
  <2>1. UNCHANGED clientVars
    BY <1>3 DEF Start, StartFails, AcceptConnection, AcceptFails, vars
  <2> QED  BY <1>2, <2>1 DEF clientVars
<1>4. CASE Crash
  BY <1>2, <1>4 DEF Crash
<1>5. ASSUME NEW c \in Connections, HandlerStep(c)
      PROVE  LinkOK'
  <2>1. CASE HandleLine(c) \/ HandleRemainder(c)
    BY <1>2, <2>1, LoopRound DEF clientVars
  <2>2. CASE CloseConnection(c)
    BY <1>1, <1>2, <2>2 DEF CloseConnection
  <2> QED  BY <1>2, <1>5, <2>1, <2>2
         DEF HandlerStep, Receive, LeaveLoop, SaveFlight, FailToSave, NothingToSave, clientVars
<1>6. ASSUME NEW c \in Connections, ClientStarts(c)
      PROVE  LinkOK'
  BY <1>1, <1>6 DEF ClientStarts, ClientConnects, Connect, ConnectFails, QueueOK, LinkOK,
                    StreamLength
<1>7. ASSUME NEW c \in Connections, Replay(c)
      PROVE  LinkOK'
  BY <1>1, <1>7 DEF Replay, SendUnits, SendFails, FinishReplay, LinkOK, StreamLength
<1>8. ASSUME NEW c \in Connections, Fault(c)
      PROVE  LinkOK'
  BY <1>1, <1>8 DEF Fault, Kill, SendFailsIntact, ConnectionReset, Vanish, LinkOK, StreamLength
<1> QED  BY <1>3, <1>4, <1>5, <1>6, <1>7, <1>8 DEF Next

\* What is left over at the end of a stream comes from a client that was killed
\* or gave up within a line: one at the end of its file has sent whole lines only.
LEMMA RemainderOfAborted ==
  ASSUME ServerInv, LinkOK, NEW c \in Connections, Remainder(c)
  PROVE  /\ client[c] \in {"killed", "displayOnly"}
         /\ handler[c] = "receiving" /\ taken[c] < received[c] /\ received[c] = sent[c]
<1>1. /\ handler[c] = "receiving" /\ ~HasLine(c) /\ link[c] = "fin"
      /\ received[c] = sent[c] /\ taken[c] < received[c]
  BY DEF Remainder, AtEof
<1>2. CursorsOK /\ taken[c] \in Nat /\ received[c] \in Nat
  BY DEF ServerInv, CursorsOK
<1>3. ASSUME client[c] = "finished"
      PROVE  FALSE
  <2>1. /\ received[c] = Len(Telemetry[c]) * LineLength
        /\ LineLength \in Nat \ {0} /\ Len(Telemetry[c]) \in Nat
    BY <1>1, <1>3, Lengths DEF LinkOK
  <2>2. received[c] \div LineLength = Len(Telemetry[c])
    BY <2>1, WholeLines
  <2>3. received[c] <= taken[c]
    BY <1>1, <1>2, <2>1, <2>2, NoLine
  <2> QED  BY <1>1, <1>2, <2>3
<1> QED  BY <1>1, <1>3 DEF LinkOK

LEMMA CutKept ==
  ASSUME ServerInv, LinkOK, CutOK, [Next]_vars
  PROVE  CutOK'
<1>1. /\ CursorsOK /\ ThreadsTypeOK
      /\ processedPackets \in [Connections -> Nat]
      /\ taken \in [Connections -> Nat] /\ received \in [Connections -> Nat]
      /\ sent \in [Connections -> Nat] /\ client \in [Connections -> ClientStates]
  BY DEF ServerInv, ThreadsTypeOK, CursorsOK
<1> DEFINE Cut(d) == \/ AtLineEnd(d) /\ processedPackets[d] <= Cardinality(Seen(d))
                     \/ /\ client[d] \in {"killed", "displayOnly"}
                        /\ taken[d] = received[d] /\ received[d] = sent[d]
                        /\ processedPackets[d] <= Cardinality(Seen(d)) + 1
<1>2. ASSUME NEW d \in Connections, taken'[d] = taken[d],
             processedPackets'[d] = processedPackets[d] \/ processedPackets'[d] = 0,
             (/\ client[d] \in {"killed", "displayOnly"}
              /\ taken[d] = received[d] /\ received[d] = sent[d]) =>
               /\ client'[d] \in {"killed", "displayOnly"}
               /\ received'[d] = received[d] /\ sent'[d] = sent[d]
      PROVE  Cut(d)'
  <2>1. TakenLines(d)' = TakenLines(d)
    BY <1>2 DEF TakenLines
  <2>2. (AtLineEnd(d)' <=> AtLineEnd(d)) /\ Seen(d)' = Seen(d)
    BY <1>2, <2>1 DEF AtLineEnd, Seen, RecordLines
  <2>3. Cardinality(Seen(d)) \in Nat
    BY <1>1, TakenLinesType, RecordsAmong DEF Seen
  <2>4. processedPackets'[d] <= processedPackets[d]
    BY <1>1, <1>2
  <2>5. processedPackets[d] \in Nat /\ processedPackets'[d] \in Nat
    BY <1>1, <1>2
  <2>6. Cut(d)
    BY DEF CutOK
  <2> HIDE DEF CutOK
  <2>7. CASE AtLineEnd(d) /\ processedPackets[d] <= Cardinality(Seen(d))
    BY <2>2, <2>3, <2>4, <2>5, <2>7
  <2>8. CASE /\ client[d] \in {"killed", "displayOnly"}
             /\ taken[d] = received[d] /\ received[d] = sent[d]
             /\ processedPackets[d] <= Cardinality(Seen(d)) + 1
    BY <1>2, <2>2, <2>3, <2>4, <2>5, <2>8
  <2> QED  BY <2>6, <2>7, <2>8
<1>3. ASSUME \A d \in Connections : Cut(d)'
      PROVE  CutOK'
  BY <1>3 DEF CutOK
<1> HIDE DEF Cut
<1>4. CASE Start \/ StartFails \/ AcceptConnection \/ AcceptFails \/ UNCHANGED vars
  <2>1. UNCHANGED <<client, sent, received, taken, processedPackets>>
    BY <1>4 DEF Start, StartFails, AcceptConnection, AcceptFails, vars, clientVars, handlerVars
  <2> QED  BY <1>2, <1>3, <2>1
<1>5. CASE Crash
  <2>1. /\ UNCHANGED <<client, sent, received, taken>>
        /\ \A d \in Connections : processedPackets'[d] = 0
    BY <1>5 DEF Crash
  <2> QED  BY <1>2, <1>3, <2>1
<1>6. ASSUME NEW c \in Connections, HandlerStep(c), UNCHANGED serverVars
      PROVE  CutOK'
  <2>1. /\ \A d \in Connections \ {c} :
             taken'[d] = taken[d] /\ processedPackets'[d] = processedPackets[d]
        /\ UNCHANGED client
    BY <1>6, HandlerStepsAreOwn DEF OwnStep
  <2>2. CASE Receive(c)
    <3>1. /\ UNCHANGED <<sent, taken, processedPackets>>
          /\ \A d \in Connections \ {c} : received'[d] = received[d]
          /\ received[c] < sent[c]
      BY <1>1, <2>2 DEF Receive, handlerVars
    <3>2. received[c] # sent[c]
      BY <1>1, <3>1
    <3> QED  BY <1>2, <1>3, <2>1, <3>1, <3>2
  <2>3. CASE HandleLine(c)
    <3>1. UNCHANGED <<sent, received>>
      BY <2>3, LoopRound DEF clientVars
    <3>2. \A d \in Connections \ {c} : Cut(d)'
      BY <1>2, <2>1, <3>1
    <3>3. Cut(c)
      BY DEF CutOK, Cut
    <3>4. taken[c] < received[c]
      BY <1>1, <2>3, HasLineBounds DEF HandleLine
    <3>5. processedPackets[c] <= Cardinality(Seen(c))
      BY <1>1, <3>3, <3>4 DEF Cut
    <3>6. Cardinality(Seen(c)) \in Nat
      BY <1>1, TakenLinesType, RecordsAmong DEF Seen
    <3>7. AtLineEnd(c)' /\ processedPackets'[c] <= Cardinality(Seen(c)')
      <4> DEFINE n == Cardinality(Seen(c))
                 m == Cardinality(Seen(c)')
                 p == processedPackets[c]
                 q == processedPackets'[c]
      <4>1. /\ AtLineEnd(c)'
            /\ \/ Seen(c)' = Seen(c) /\ UNCHANGED processedPackets
               \/ /\ m = n + 1
                  /\ processedPackets' = [processedPackets EXCEPT ![c] = @ + 1]
        BY <2>3, LineTaken
      <4>2. (m = n /\ q = p) \/ (m = n + 1 /\ q = p + 1)
        <5>1. CASE Seen(c)' = Seen(c) /\ UNCHANGED processedPackets
          BY <5>1
        <5>2. CASE m = n + 1 /\ processedPackets' = [processedPackets EXCEPT ![c] = @ + 1]
          <6>1. q = p + 1
            BY <1>1, <5>2
          <6> QED  BY <5>2, <6>1
        <5> QED  BY <4>1, <5>1, <5>2
      <4>3. n \in Nat /\ p \in Nat /\ p <= n
        BY <1>1, <3>5, <3>6
      <4> HIDE DEF m, n, p, q
      <4>4. q <= m
        BY <4>2, <4>3
      <4> QED  BY <4>1, <4>4 DEF m, q
    <3> QED  BY <1>3, <3>2, <3>7 DEF Cut
  <2>4. CASE HandleRemainder(c)
    <3>1. UNCHANGED <<sent, received>>
      BY <2>4, LoopRound DEF clientVars
    <3>2. \A d \in Connections \ {c} : Cut(d)'
      BY <1>2, <2>1, <3>1
    <3>3. /\ client[c] \in {"killed", "displayOnly"}
          /\ taken[c] < received[c] /\ received[c] = sent[c]
          /\ taken' = [taken EXCEPT ![c] = received[c]]
      BY <2>4, RemainderOfAborted DEF HandleRemainder, TakeRemainder
    <3>4. taken'[c] = received[c]
      BY <1>1, <3>3
    <3>5. processedPackets[c] <= Cardinality(Seen(c))
      <4>1. Cut(c)
        BY DEF CutOK, Cut
      <4>2. taken[c] # received[c]
        <5>1. taken[c] \in Nat /\ received[c] \in Nat
          BY <1>1
        <5> QED  BY <3>3, <5>1
      <4> QED  BY <4>1, <4>2 DEF Cut
    <3>6. /\ Cardinality(Seen(c)) \in Nat /\ Cardinality(Seen(c)') \in Nat
          /\ Cardinality(Seen(c)) <= Cardinality(Seen(c)')
      <4>1. TakenLines(c) \in Nat
        BY <1>1, TakenLinesType
      <4>2. received[c] \div LineLength \in Nat /\ TakenLines(c) <= received[c] \div LineLength
        <5>1. LineLength \in Nat \ {0} /\ taken[c] \in Nat /\ received[c] \in Nat
              /\ taken[c] <= received[c]
          BY <1>1, <3>3, Lengths
        <5> QED  BY <5>1, LineOfUnit, LinesGrow DEF TakenLines
      <4>3. Seen(c)' = RecordLines(c, received[c] \div LineLength)
        BY <3>4 DEF Seen, TakenLines, RecordLines
      <4> QED  BY <4>1, <4>2, <4>3, RecordsAmong, RecordsGrow DEF Seen
    <3>7. processedPackets'[c] <= processedPackets[c] + 1
      <4>1. UNCHANGED processedPackets \/ Accepted(c)
        BY <2>4, LoopRound
      <4> QED  BY <1>1, <4>1 DEF Accepted
    <3>8. processedPackets[c] \in Nat /\ processedPackets'[c] \in Nat
      <4>1. UNCHANGED processedPackets \/ Accepted(c)
        BY <2>4, LoopRound
      <4> QED  BY <1>1, <4>1 DEF Accepted
    <3>9. Cut(c)'
      BY <2>1, <3>1, <3>3, <3>4, <3>5, <3>6, <3>7, <3>8 DEF Cut
    <3> QED  BY <1>3, <3>2, <3>9
  <2>5. CASE LeaveLoop(c) \/ SaveFlight(c) \/ FailToSave(c) \/ NothingToSave(c)
               \/ CloseConnection(c)
    <3>1. UNCHANGED <<client, sent, received, taken, processedPackets>>
      BY <2>5 DEF LeaveLoop, SaveFlight, FailToSave, NothingToSave, CloseConnection, clientVars
    <3> QED  BY <1>2, <1>3, <3>1
  <2> QED  BY <1>6, <2>2, <2>3, <2>4, <2>5 DEF HandlerStep
<1>7. ASSUME NEW c \in Connections, ClientStarts(c) \/ Replay(c) \/ Fault(c)
      PROVE  CutOK'
  <2>1. UNCHANGED <<received, taken, processedPackets>>
    BY <1>7 DEF ClientStarts, ClientConnects, Connect, ConnectFails, Replay, SendUnits, SendFails,
                FinishReplay, Fault, Kill, SendFailsIntact, ConnectionReset, Vanish, handlerVars
  <2>2. \A d \in Connections : client[d] \in {"killed", "displayOnly"} =>
          client'[d] \in {"killed", "displayOnly"} /\ sent'[d] = sent[d]
    BY <1>1, <1>7
       DEF ClientStarts, ClientConnects, Connect, ConnectFails, Replay, SendUnits, SendFails,
           FinishReplay, Fault, Kill, SendFailsIntact, ConnectionReset, Vanish
  <2> QED  BY <1>2, <1>3, <2>1, <2>2
<1> QED  BY <1>4, <1>5, <1>6, <1>7 DEF Next

-----------------------------------------------------------------------------
(* Who has saved the flight of an aircraft                                 *)

LEMMA StoppedKept ==
  ASSUME ServerInv, StoppedOK, [Next]_vars
  PROVE  StoppedOK'
<1>1. ASSUME UNCHANGED <<running, handler, aircraftId, outcome>>
      PROVE  StoppedOK'
  BY <1>1 DEF StoppedOK
<1>2. CASE StartFails \/ AcceptFails \/ UNCHANGED vars
  BY <1>1, <1>2 DEF StartFails, AcceptFails, vars, serverVars, handlerVars
<1>3. CASE Start \/ AcceptConnection
  BY <1>3 DEF Start, AcceptConnection, StoppedOK
<1>4. CASE Crash
  BY <1>4 DEF Crash, StoppedOK
<1>5. ASSUME NEW c \in Connections, HandlerStep(c), UNCHANGED serverVars
      PROVE  StoppedOK'
  BY <1>5, HandlerStepsAreOwn DEF OwnStep, StoppedOK
<1>6. ASSUME NEW c \in Connections, ClientStarts(c) \/ Replay(c) \/ Fault(c)
      PROVE  StoppedOK'
  BY <1>1, <1>6 DEF ClientStarts, ClientConnects, Replay, Fault, serverVars, handlerVars
<1> QED  BY <1>2, <1>3, <1>4, <1>5, <1>6 DEF Next

\* What the steps of a handler do to the flights and to who has saved them: only
\* one that is out of its loop saves or fails.
LEMMA FlightsOfStep ==
  ASSUME ServerInv, QueueOK, NEW c \in Connections, HandlerStep(c), UNCHANGED serverVars
  PROVE  \/ /\ UNCHANGED <<m_activeFlights, aircraftId, outcome>>
         \/ /\ outcome[c] = "none" /\ UNCHANGED outcome
            /\ DOMAIN m_activeFlights' = DOMAIN m_activeFlights \cup {IdOf[c]}
            /\ aircraftId' = [aircraftId EXCEPT ![c] = IdOf[c]]
         \/ /\ outcome[c] = "none" /\ outcome' = [outcome EXCEPT ![c] = "saved"]
            /\ UNCHANGED aircraftId /\ aircraftId[c] \in AircraftIds
            /\ DOMAIN m_activeFlights' = DOMAIN m_activeFlights \ {aircraftId[c]}
         \/ /\ outcome[c] = "none" /\ outcome' = [outcome EXCEPT ![c] = "failed"]
            /\ UNCHANGED <<m_activeFlights, aircraftId>>
            /\ aircraftId[c] # NoAircraft
            /\ aircraftId[c] \notin DOMAIN m_activeFlights
<1>1. /\ aircraftId \in [Connections -> AircraftIds \cup {NoAircraft}]
      /\ NamedAfterClient
  BY DEF ServerInv, ThreadsTypeOK
<1>2. CASE Receive(c) \/ LeaveLoop(c) \/ NothingToSave(c) \/ CloseConnection(c)
  BY <1>2 DEF Receive, LeaveLoop, NothingToSave, CloseConnection, handlerVars, sessionVars
<1>3. CASE HandleLine(c) \/ HandleRemainder(c)
  <2>1. handler[c] = "receiving" /\ UNCHANGED outcome
    BY <1>3, LoopRound
  <2>2. outcome[c] = "none"
    BY <2>1 DEF QueueOK
  <2>3. CASE UNCHANGED sessionVars /\ UNCHANGED <<aircraftId, processedPackets>>
    BY <2>1, <2>3 DEF sessionVars
  <2>4. CASE Accepted(c)
    <3>1. PICK line \in TelemetryRecord :
            /\ line.AircraftId = IdOf[c]
            /\ AcceptRecord(line)
            /\ aircraftId' = [aircraftId EXCEPT ![c] = IF @ = NoAircraft THEN IdOf[c] ELSE @]
      BY <2>4 DEF Accepted
    <3>2. aircraftId' = [aircraftId EXCEPT ![c] = IdOf[c]]
      BY <1>1, <3>1 DEF NamedAfterClient
    <3>3. DOMAIN m_activeFlights' = DOMAIN m_activeFlights \cup {IdOf[c]}
      BY <3>1 DEF AcceptRecord, Process, Put
    <3> QED  BY <2>1, <2>2, <3>2, <3>3
  <2> QED  BY <1>3, <2>3, <2>4, LoopRound
<1>4. CASE SaveFlight(c)
  <2>1. handler[c] = "completing" /\ aircraftId[c] # NoAircraft
        /\ outcome' = [outcome EXCEPT ![c] = "saved"] /\ UNCHANGED aircraftId
    BY <1>4 DEF SaveFlight
  <2>2. DOMAIN m_activeFlights' = DOMAIN m_activeFlights \ {aircraftId[c]}
    BY <1>4 DEF SaveFlight, CompleteFlight, FinalizeFlight, Without, Restrict
  <2> QED  BY <1>1, <2>1, <2>2 DEF QueueOK
<1>5. CASE FailToSave(c)
  BY <1>5 DEF FailToSave, NoSuchFlight, sessionVars, QueueOK
<1> QED  BY <1>2, <1>3, <1>4, <1>5 DEF HandlerStep

LEMMA AccountedKept ==
  ASSUME ServerInv, QueueOK, StoppedOK, AccountedOK, [Next]_vars
  PROVE  AccountedOK'
<1>1. /\ aircraftId \in [Connections -> AircraftIds \cup {NoAircraft}]
      /\ outcome \in [Connections -> {"none", "saved", "failed"}]
  BY DEF ServerInv, ThreadsTypeOK
<1>2. ASSUME UNCHANGED <<m_activeFlights, aircraftId, outcome>>
      PROVE  AccountedOK'
  BY <1>2 DEF AccountedOK, Savers
<1>3. CASE StartFails \/ AcceptConnection \/ AcceptFails \/ UNCHANGED vars
  BY <1>2, <1>3 DEF StartFails, AcceptConnection, AcceptFails, vars, handlerVars, sessionVars
<1>4. CASE Start \/ Crash
  <2>1. \A c \in Connections : aircraftId'[c] = NoAircraft
    BY <1>4 DEF Start, Crash, StoppedOK, handlerVars
  <2> QED  BY <2>1 DEF AccountedOK
<1>5. ASSUME NEW c \in Connections, HandlerStep(c), UNCHANGED serverVars
      PROVE  AccountedOK'
  <2>1. ASSUME NEW id, Savers(id) # {},
               \/ UNCHANGED aircraftId
               \/ aircraftId' = [aircraftId EXCEPT ![c] = IdOf[c]],
               outcome[c] = "none",
               \A d \in Connections \ {c} : outcome'[d] = outcome[d]
        PROVE  Savers(id)' # {}
    BY <1>1, <2>1 DEF Savers
  <2>2. CASE UNCHANGED <<m_activeFlights, aircraftId, outcome>>
    BY <1>2, <2>2
  <2>3. CASE /\ outcome[c] = "none" /\ UNCHANGED outcome
             /\ DOMAIN m_activeFlights' = DOMAIN m_activeFlights \cup {IdOf[c]}
             /\ aircraftId' = [aircraftId EXCEPT ![c] = IdOf[c]]
    BY <1>1, <2>1, <2>3 DEF AccountedOK
  <2>4. CASE /\ outcome[c] = "none" /\ outcome' = [outcome EXCEPT ![c] = "saved"]
             /\ UNCHANGED aircraftId /\ aircraftId[c] \in AircraftIds
             /\ DOMAIN m_activeFlights' = DOMAIN m_activeFlights \ {aircraftId[c]}
    <3>1. c \in Savers(aircraftId[c])'
      BY <1>1, <2>4 DEF Savers
    <3>2. \A id : Savers(id) # {} => Savers(id)' # {}
      BY <1>1, <2>1, <2>4
    <3> QED  BY <2>4, <3>1, <3>2 DEF AccountedOK
  <2>5. CASE /\ outcome[c] = "none" /\ outcome' = [outcome EXCEPT ![c] = "failed"]
             /\ UNCHANGED <<m_activeFlights, aircraftId>>
    <3>1. \A id : Savers(id) # {} => Savers(id)' # {}
      BY <1>1, <2>1, <2>5
    <3> QED  BY <2>5, <3>1 DEF AccountedOK
  <2> QED  BY <1>5, <2>2, <2>3, <2>4, <2>5, FlightsOfStep
<1>6. ASSUME NEW c \in Connections, ClientStarts(c) \/ Replay(c) \/ Fault(c)
      PROVE  AccountedOK'
  BY <1>2, <1>6 DEF ClientStarts, Replay, Fault, handlerVars, sessionVars
<1> QED  BY <1>3, <1>4, <1>5, <1>6 DEF Next

\* A handler finds no flight only if another one has saved it.
LEMMA FailuresKept ==
  ASSUME ServerInv, QueueOK, StoppedOK, AccountedOK, FailsOnlyWhenShared, [Next]_vars
  PROVE  FailsOnlyWhenShared'
<1>1. /\ aircraftId \in [Connections -> AircraftIds \cup {NoAircraft}]
      /\ outcome \in [Connections -> {"none", "saved", "failed"}]
  BY DEF ServerInv, ThreadsTypeOK
<1>2. ASSUME UNCHANGED <<aircraftId, outcome>>
      PROVE  FailsOnlyWhenShared'
  BY <1>2 DEF FailsOnlyWhenShared, Savers
<1>3. CASE Start \/ StartFails \/ AcceptConnection \/ AcceptFails \/ UNCHANGED vars
  BY <1>2, <1>3 DEF Start, StartFails, AcceptConnection, AcceptFails, vars, handlerVars
<1>4. CASE Crash
  BY <1>4 DEF Crash, FailsOnlyWhenShared
<1>5. ASSUME NEW c \in Connections, HandlerStep(c), UNCHANGED serverVars
      PROVE  FailsOnlyWhenShared'
  <2>1. CASE UNCHANGED <<m_activeFlights, aircraftId, outcome>>
    BY <1>2, <2>1
  <2>2. CASE /\ outcome[c] = "none" /\ UNCHANGED outcome
             /\ aircraftId' = [aircraftId EXCEPT ![c] = IdOf[c]]
    BY <1>1, <2>2 DEF FailsOnlyWhenShared, Savers
  <2>3. CASE /\ outcome[c] = "none" /\ outcome' = [outcome EXCEPT ![c] = "saved"]
             /\ UNCHANGED aircraftId
    BY <1>1, <2>3 DEF FailsOnlyWhenShared, Savers
  <2>4. CASE /\ outcome[c] = "none" /\ outcome' = [outcome EXCEPT ![c] = "failed"]
             /\ UNCHANGED aircraftId
             /\ aircraftId[c] # NoAircraft
             /\ aircraftId[c] \notin DOMAIN m_activeFlights
    <3>1. Savers(aircraftId[c]) # {} /\ c \notin Savers(aircraftId[c])
      BY <2>4 DEF AccountedOK, Savers
    <3>2. PICK d \in Savers(aircraftId[c]) : d # c
      BY <3>1
    <3> QED  BY <1>1, <2>4, <3>2 DEF FailsOnlyWhenShared, Savers
  <2> QED  BY <1>5, <2>1, <2>2, <2>3, <2>4, FlightsOfStep
<1>6. ASSUME NEW c \in Connections, ClientStarts(c) \/ Replay(c) \/ Fault(c)
      PROVE  FailsOnlyWhenShared'
  BY <1>2, <1>6 DEF ClientStarts, Replay, Fault, handlerVars
<1> QED  BY <1>3, <1>4, <1>5, <1>6 DEF Next

-----------------------------------------------------------------------------
(* The flight of a client that has its aircraft to itself                  *)

\* The first record opens a flight that covers it.
LEMMA CoversFirst ==
  ASSUME NEW c \in Connections, NEW i \in Nat, NEW record, record = Telemetry[c][i]
  PROVE  CoversRecords(FirstSample(record), c, {i})
<1>1. Cardinality({i}) = 1
  BY FS_Singleton
<1>2. i <= i
  OBVIOUS
<1> QED  BY <1>1, <1>2 DEF CoversRecords, FirstSample

\* One more record is covered as well.
LEMMA CoversNext ==
  ASSUME NEW c \in Connections, NEW n \in Nat, NEW records \in SUBSET (1..n),
         NEW flight \in FlightState, CoversRecords(flight, c, records),
         NEW record \in TelemetryRecord, record = Telemetry[c][n + 1]
  PROVE  CoversRecords(NextSample(flight, record), c, records \cup {n + 1})
<1> DEFINE next == NextSample(flight, record)
           more == records \cup {n + 1}
<1>1. /\ next.EndTimestamp = record.Timestamp /\ next.EndFuel = record.FuelQuantity
      /\ next.StartTimestamp = flight.StartTimestamp /\ next.StartFuel = flight.StartFuel
      /\ next.SampleCount = flight.SampleCount + 1
  BY NextSampleFields
<1>2. Cardinality(more) = Cardinality(records) + 1
  <2>1. IsFiniteSet(1..n)
    BY FS_Interval
  <2>2. IsFiniteSet(records)
    BY <2>1, FS_Subset
  <2>3. n + 1 \notin 1..n
    OBVIOUS
  <2>4. n + 1 \notin records
    BY <2>3
  <2> QED  BY <2>2, <2>4, FS_AddElement
<1>3. PICK first \in records :
        /\ \A i \in records : first <= i
        /\ flight.StartTimestamp = Telemetry[c][first].Timestamp
        /\ flight.StartFuel = Telemetry[c][first].FuelQuantity
  BY DEF CoversRecords
<1>4. next.SampleCount = Cardinality(more)
  BY <1>1, <1>2 DEF CoversRecords
<1>5. first \in more /\ n + 1 \in more
  BY <1>3
<1>6. \A i \in more : first <= i /\ i <= n + 1
  BY <1>3
<1> HIDE DEF next, more
<1>7. /\ next.StartTimestamp = Telemetry[c][first].Timestamp
      /\ next.StartFuel = Telemetry[c][first].FuelQuantity
      /\ next.EndTimestamp = Telemetry[c][n + 1].Timestamp
      /\ next.EndFuel = Telemetry[c][n + 1].FuelQuantity
  BY <1>1, <1>3
<1>8. CoversRecords(next, c, more)
  BY <1>4, <1>5, <1>6, <1>7 DEF CoversRecords
<1> QED  BY <1>8 DEF next, more

\* Other aircraft have flights of their own.
SameFlight(id) ==
  /\ id \in DOMAIN m_activeFlights' <=> id \in DOMAIN m_activeFlights
  /\ id \in DOMAIN m_activeFlights => m_activeFlights'[id] = m_activeFlights[id]

LEMMA OtherFlights ==
  ASSUME ServerInv, NEW c \in Connections, HandlerStep(c), NEW id, id # IdOf[c]
  PROVE  SameFlight(id)
<1>1. ASSUME UNCHANGED m_activeFlights
      PROVE  SameFlight(id)
  BY <1>1 DEF SameFlight
<1>2. CASE Receive(c) \/ LeaveLoop(c) \/ FailToSave(c) \/ NothingToSave(c)
             \/ CloseConnection(c)
  BY <1>1, <1>2
     DEF Receive, LeaveLoop, FailToSave, NoSuchFlight, NothingToSave, CloseConnection, sessionVars
<1>3. CASE HandleLine(c) \/ HandleRemainder(c)
  <2>1. CASE UNCHANGED sessionVars
    BY <1>1, <2>1 DEF sessionVars
  <2>2. CASE Accepted(c)
    BY <2>2 DEF Accepted, AcceptRecord, Process, Put, SameFlight
  <2> QED  BY <1>3, <2>1, <2>2, LoopRound
<1>4. CASE SaveFlight(c)
  <2>1. aircraftId[c] = IdOf[c]
    BY <1>4 DEF SaveFlight, ServerInv, NamedAfterClient
  <2>2. m_activeFlights' = Without(m_activeFlights, aircraftId[c])
    BY <1>4 DEF SaveFlight, CompleteFlight, FinalizeFlight
  <2> QED  BY <2>1, <2>2 DEF Without, Restrict, SameFlight
<1> QED  BY <1>2, <1>3, <1>4 DEF HandlerStep

\* A whole line.
LEMMA LineMirrored ==
  ASSUME ServerInv, CutOK, MirrorOK, NEW c \in Connections, Dedicated(c), HandleLine(c)
  PROVE  Mirrors(c)'
<1> DEFINE n == TakenLines(c)
           line == Telemetry[c][n + 1]
<1>1. /\ CursorsOK /\ NamedAfterClient
      /\ aircraftId \in [Connections -> AircraftIds \cup {NoAircraft}]
      /\ m_activeFlights \in [DOMAIN m_activeFlights -> FlightState]
      /\ IdOf[c] \in AircraftIds
  BY HandlerAssumption DEF ServerInv, ThreadsTypeOK, SessionInv, SessionTypeOK,
       ProcessorTypeOK, IsMapOf
<1>2. n \in Nat
  BY <1>1, TakenLinesType
<1>3. Mirrors(c)
  <2>1. handler[c] = "receiving" /\ HasLine(c)
    BY DEF HandleLine
  <2>2. taken[c] < received[c] /\ taken[c] \in Nat /\ received[c] \in Nat
    BY <1>1, <2>1, HasLineBounds DEF CursorsOK
  <2>3. taken[c] # received[c]
    BY <2>2
  <2>4. AtLineEnd(c)
    BY <2>3 DEF CutOK
  <2> QED  BY <2>1, <2>4 DEF MirrorOK
<1>4. Seen(c) \in SUBSET (1..n)
  BY DEF Seen, RecordLines
<1>5. CASE Seen(c)' = Seen(c) /\ UNCHANGED sessionVars /\ UNCHANGED aircraftId
  BY <1>3, <1>5 DEF Mirrors, sessionVars
<1>6. CASE /\ Seen(c)' = Seen(c) \cup {n + 1}
           /\ line \in TelemetryRecord /\ line.AircraftId = IdOf[c]
           /\ AcceptRecord(line)
           /\ aircraftId' =
                [aircraftId EXCEPT ![c] = IF @ = NoAircraft THEN IdOf[c] ELSE @]
  <2>1. aircraftId'[c] = IdOf[c] /\ Seen(c)' # {}
    BY <1>1, <1>6 DEF NamedAfterClient
  <2>2. m_activeFlights' =
          Put(m_activeFlights, IdOf[c],
              IF IdOf[c] \in DOMAIN m_activeFlights
                THEN NextSample(m_activeFlights[IdOf[c]], line) ELSE FirstSample(line))
    BY <1>6 DEF AcceptRecord, Process
  <2>3. IdOf[c] \in DOMAIN m_activeFlights'
        /\ m_activeFlights'[IdOf[c]] =
             IF IdOf[c] \in DOMAIN m_activeFlights
               THEN NextSample(m_activeFlights[IdOf[c]], line) ELSE FirstSample(line)
    BY <2>2 DEF Put
  <2>4. CoversRecords(m_activeFlights'[IdOf[c]], c, Seen(c)')
    <3>1. CASE Seen(c) = {}
      <4>1. IdOf[c] \notin DOMAIN m_activeFlights
        BY <1>3, <3>1 DEF Mirrors
      <4>2. Seen(c)' = {n + 1}
        BY <1>6, <3>1
      <4>3. CoversRecords(FirstSample(line), c, {n + 1})
        <5>1. n + 1 \in Nat
          BY <1>2
        <5> QED  BY <5>1, CoversFirst
      <4>4. m_activeFlights'[IdOf[c]] = FirstSample(line)
        BY <2>3, <4>1
      <4> QED  BY <4>2, <4>3, <4>4
    <3>2. CASE Seen(c) # {}
      <4>1. /\ IdOf[c] \in DOMAIN m_activeFlights
            /\ CoversRecords(m_activeFlights[IdOf[c]], c, Seen(c))
        BY <1>3, <3>2 DEF Mirrors
      <4>2. m_activeFlights[IdOf[c]] \in FlightState
        BY <1>1, <4>1
      <4>3. CoversRecords(NextSample(m_activeFlights[IdOf[c]], line), c,
                          Seen(c) \cup {n + 1})
        BY <1>2, <1>4, <1>6, <4>1, <4>2, CoversNext
      <4> QED  BY <1>6, <2>3, <4>1, <4>3
    <3> QED  BY <3>1, <3>2
  <2>5. Mirrors(c)' <=>
          IF Seen(c)' = {}
            THEN aircraftId'[c] = NoAircraft /\ IdOf[c] \notin DOMAIN m_activeFlights'
            ELSE /\ aircraftId'[c] = IdOf[c] /\ IdOf[c] \in DOMAIN m_activeFlights'
                 /\ CoversRecords(m_activeFlights'[IdOf[c]], c, Seen(c)')
    BY DEF Mirrors, CoversRecords
  <2> QED  BY <2>1, <2>3, <2>4, <2>5
<1> QED  BY <1>5, <1>6, LineTaken

LEMMA MirrorKept ==
  ASSUME ServerInv, QueueOK, StoppedOK, LinkOK, CutOK, MirrorOK, [Next]_vars
  PROVE  MirrorOK'
<1>1. /\ handler \in [Connections -> HandlerStates]
      /\ backlog \in Seq(Connections)
      /\ taken \in [Connections -> Nat]
      /\ CursorsOK
  BY DEF ServerInv, ThreadsTypeOK, CursorsOK
<1> DEFINE Alive(c) == handler[c] \in {"none", "receiving", "completing"}
           Mirrored(c) == (Dedicated(c) /\ Alive(c) /\ AtLineEnd(c)) => Mirrors(c)
<1>2. ASSUME NEW c \in Connections, taken'[c] = taken[c], aircraftId'[c] = aircraftId[c],
             handler'[c] \in {"none", "receiving", "completing"} => Alive(c),
             Dedicated(c) => SameFlight(IdOf[c])
      PROVE  Mirrored(c)'
  <2>1. TakenLines(c)' = TakenLines(c)
    BY <1>2 DEF TakenLines
  <2>2. (AtLineEnd(c)' <=> AtLineEnd(c)) /\ Seen(c)' = Seen(c)
    BY <1>2, <2>1 DEF AtLineEnd, Seen, RecordLines
  <2>3. SUFFICES ASSUME Dedicated(c), Alive(c), AtLineEnd(c)
                 PROVE  Mirrors(c)'
    BY <1>2, <2>2 DEF Dedicated
  <2>4. Mirrors(c) /\ SameFlight(IdOf[c])
    BY <1>2, <2>3 DEF MirrorOK
  <2> QED  BY <1>2, <2>2, <2>4 DEF Mirrors, SameFlight, CoversRecords
<1>3. ASSUME \A c \in Connections : Mirrored(c)'
      PROVE  MirrorOK'
  BY <1>3 DEF MirrorOK, Dedicated
<1>4. ASSUME UNCHANGED m_activeFlights, NEW id
      PROVE  SameFlight(id)
  BY <1>4 DEF SameFlight
<1>5. ASSUME UNCHANGED <<handler, taken, aircraftId, m_activeFlights>>
      PROVE  MirrorOK'
  <2>1. \A c \in Connections : Mirrored(c)'
    <3> SUFFICES ASSUME NEW c \in Connections
                 PROVE  Mirrored(c)'
      OBVIOUS
    <3> HIDE DEF Mirrored
    <3> QED  BY <1>2, <1>4, <1>5
  <2> HIDE DEF Mirrored
  <2> QED  BY <1>3, <2>1
<1>6. CASE StartFails \/ AcceptFails \/ UNCHANGED vars
  <2>1. UNCHANGED <<handler, taken, aircraftId, m_activeFlights>>
    BY <1>6 DEF StartFails, AcceptFails, vars, handlerVars, sessionVars
  <2> QED  BY <1>5, <2>1
<1>7. CASE Start \/ Crash
  <2>1. /\ m_activeFlights' = [id \in {} |-> 0]
        /\ \A c \in Connections : handler'[c] \in {"none", "closed"}
        /\ \A c \in Connections : handler'[c] = "none" => handler[c] = "none"
        /\ \A c \in Connections : aircraftId'[c] = NoAircraft
        /\ UNCHANGED taken
    BY <1>7 DEF Start, Crash, Construct, StoppedOK, handlerVars
  <2>2. ASSUME NEW c \in Connections, handler'[c] \in {"none", "receiving", "completing"}
        PROVE  Mirrors(c)'
    <3>1. taken'[c] = 0
      BY <2>1, <2>2 DEF QueueOK
    <3>2. TakenLines(c)' = 0
      <4>1. LineLength \in Nat \ {0} /\ 0 = 0 * LineLength
        BY Lengths
      <4>2. (0 * LineLength) \div LineLength = 0
        BY <4>1, WholeLines
      <4> QED  BY <3>1, <4>1, <4>2 DEF TakenLines
    <3>3. Seen(c)' = {}
      BY <3>2 DEF Seen, RecordLines
    <3>4. aircraftId'[c] = NoAircraft /\ IdOf[c] \notin DOMAIN m_activeFlights'
      BY <2>1
    <3> QED  BY <3>3, <3>4 DEF Mirrors
  <2> QED  BY <2>2 DEF MirrorOK
<1>8. CASE AcceptConnection
  <2>1. /\ UNCHANGED <<taken, aircraftId, m_activeFlights>>
        /\ backlog # <<>>
        /\ handler' = [handler EXCEPT ![Head(backlog)] = "receiving"]
    BY <1>8 DEF AcceptConnection, sessionVars
  <2>2. handler[Head(backlog)] = "none"
    <3>1. Len(backlog) \in Nat \ {0} /\ Head(backlog) = backlog[1]
      BY <1>1, <2>1, Left
    <3>2. 1 \in 1..Len(backlog)
      BY <3>1
    <3> QED  BY <3>1, <3>2 DEF QueueOK
  <2>3. ASSUME NEW c \in Connections
        PROVE  Mirrored(c)'
    <3>1. handler'[c] = handler[c] \/ handler[c] = "none"
      BY <1>1, <2>1, <2>2
    <3>2. handler'[c] \in {"none", "receiving", "completing"} => Alive(c)
      BY <3>1
    <3> HIDE DEF Mirrored, Alive
    <3> QED  BY <1>2, <1>4, <2>1, <3>2
  <2> HIDE DEF Mirrored
  <2> QED  BY <1>3, <2>3
<1>9. ASSUME NEW c \in Connections, HandlerStep(c), UNCHANGED serverVars
      PROVE  MirrorOK'
  <2>1. OwnStep(c)
    BY <1>9, HandlerStepsAreOwn
  <2>2. ASSUME NEW d \in Connections \ {c}
        PROVE  Mirrored(d)'
    <3>1. Dedicated(d) => SameFlight(IdOf[d])
      BY <1>9, OtherFlights DEF Dedicated
    <3>2. /\ taken'[d] = taken[d] /\ aircraftId'[d] = aircraftId[d]
          /\ handler'[d] \in {"none", "receiving", "completing"} => Alive(d)
      BY <2>1 DEF OwnStep
    <3> HIDE DEF Mirrored, Alive
    <3> QED  BY <1>2, <3>1, <3>2
  <2>3. Mirrored(c)'
    <3>1. CASE Receive(c) \/ LeaveLoop(c)
      <4>1. /\ handler[c] = "receiving"
            /\ UNCHANGED <<taken, aircraftId, m_activeFlights>>
        BY <3>1 DEF Receive, LeaveLoop, AtEof, handlerVars, sessionVars
      <4>2. handler'[c] \in {"none", "receiving", "completing"} => Alive(c)
        BY <4>1
      <4> HIDE DEF Mirrored, Alive
      <4> QED  BY <1>2, <1>4, <4>1, <4>2
    <3>2. CASE HandleLine(c)
      <4>1. Dedicated(c) => Mirrors(c)'
        BY <3>2, LineMirrored
      <4> QED  BY <4>1 DEF Dedicated
    <3>3. CASE HandleRemainder(c)
      <4>1. /\ taken[c] < received[c] /\ ~HasLine(c)
            /\ taken' = [taken EXCEPT ![c] = received[c]]
        BY <3>3 DEF HandleRemainder, Remainder, AtEof, TakeRemainder
      <4>2. /\ taken[c] \in Nat /\ received[c] \in Nat
            /\ (received[c] \div LineLength) * LineLength <= taken[c]
            /\ (received[c] \div LineLength) * LineLength \in Nat
        <5>1. taken[c] \in Nat /\ received[c] \in Nat /\ LineLength \in Nat \ {0}
          BY <1>1, Lengths DEF CursorsOK
        <5> QED  BY <1>1, <4>1, <5>1, NoLine, LineOfUnit
      <4>3. taken'[c] = received[c]
        BY <1>1, <4>1
      <4>4. received[c] # (received[c] \div LineLength) * LineLength
        BY <4>1, <4>2
      <4>5. ~AtLineEnd(c)'
        BY <4>3, <4>4 DEF AtLineEnd, TakenLines
      <4> QED  BY <4>5
    <3>4. CASE SaveFlight(c) \/ FailToSave(c) \/ NothingToSave(c) \/ CloseConnection(c)
      <4>1. handler'[c] \in {"closing", "closed"}
        BY <1>1, <3>4 DEF SaveFlight, FailToSave, NothingToSave, CloseConnection
      <4> QED  BY <4>1
    <3> QED  BY <1>9, <3>1, <3>2, <3>3, <3>4 DEF HandlerStep
  <2> HIDE DEF Mirrored
  <2> QED  BY <1>3, <2>2, <2>3
<1>10. ASSUME NEW c \in Connections, ClientStarts(c) \/ Replay(c) \/ Fault(c)
       PROVE  MirrorOK'
  <2>1. UNCHANGED <<handler, taken, aircraftId, m_activeFlights>>
    BY <1>10 DEF ClientStarts, Replay, Fault, handlerVars, sessionVars
  <2> QED  BY <1>5, <2>1
<1> QED  BY <1>6, <1>7, <1>8, <1>9, <1>10 DEF Next

-----------------------------------------------------------------------------
(* The end of a flight                                                     *)

\* Where a client is at its end it stays there.
LEMMA EndsStay ==
  ASSUME ServerInv, NEW c \in Connections,
         ClientStarts(c) \/ Replay(c) \/ Fault(c),
         NEW d \in Connections, client[d] \in {"finished", "killed", "displayOnly"}
  PROVE  client'[d] = client[d]
<1>1. client \in [Connections -> ClientStates]
  BY DEF ServerInv, ThreadsTypeOK
<1> QED  BY <1>1 DEF ClientStarts, ClientConnects, Connect, ConnectFails, Replay, SendUnits,
                     SendFails, FinishReplay, Fault, Kill, SendFailsIntact, ConnectionReset, Vanish

LEMMA EndedKept ==
  ASSUME ServerInv, QueueOK, LinkOK, EndedOK, [Next]_vars
  PROVE  EndedOK'
<1>1. /\ handler \in [Connections -> HandlerStates]
      /\ outcome \in [Connections -> {"none", "saved", "failed"}]
      /\ crashed \in [Connections -> BOOLEAN]
      /\ backlog \in Seq(Connections)
      /\ CursorsOK
  BY DEF ServerInv, ThreadsTypeOK
<1> DEFINE Over(c) == (handler[c] = "completing" \/ outcome[c] = "saved") /\ ~crashed[c]
           Ended(c) == Over(c) =>
             /\ client[c] \in {"finished", "killed", "displayOnly"}
             /\ client[c] = "finished" /\ handler[c] = "completing" =>
                  taken[c] = StreamLength(c)
<1>2. ASSUME NEW c \in Connections,
             Over(c)' => Over(c),
             handler'[c] = "completing" => handler[c] = "completing",
             taken'[c] = taken[c] \/ handler'[c] # "completing",
             client'[c] = client[c] \/ client[c] \notin {"finished", "killed", "displayOnly"}
      PROVE  Ended(c)'
  BY <1>2 DEF EndedOK, StreamLength
<1>3. ASSUME \A c \in Connections : Ended(c)'
      PROVE  EndedOK'
  BY <1>3 DEF EndedOK
<1>4. CASE Start \/ StartFails \/ AcceptFails \/ UNCHANGED vars
  <2>1. UNCHANGED <<handler, outcome, crashed, taken, client>>
    BY <1>4 DEF Start, StartFails, AcceptFails, vars, clientVars, handlerVars
  <2> QED  BY <1>2, <1>3, <2>1
<1>5. CASE AcceptConnection
  <2>1. /\ UNCHANGED <<outcome, crashed, taken, client>>
        /\ handler' = [handler EXCEPT ![Head(backlog)] = "receiving"]
    BY <1>5 DEF AcceptConnection, clientVars
  <2>2. \A c \in Connections : handler'[c] = "completing" => handler[c] = "completing"
    BY <1>1, <2>1
  <2> QED  BY <1>2, <1>3, <2>1, <2>2
<1>6. CASE Crash
  <2>1. \A c \in Connections : handler'[c] \in {"none", "closed"} /\ outcome'[c] = "none"
    BY <1>6 DEF Crash
  <2> QED  BY <2>1 DEF EndedOK
<1>7. ASSUME NEW c \in Connections, HandlerStep(c), UNCHANGED serverVars
      PROVE  EndedOK'
  <2>1. OwnStep(c)
    BY <1>7, HandlerStepsAreOwn
  <2>2. ASSUME NEW d \in Connections \ {c}
        PROVE  Ended(d)'
    BY <1>2, <2>1 DEF OwnStep
  <2>3. Ended(c)'
    <3>1. CASE Receive(c) \/ HandleLine(c) \/ HandleRemainder(c)
      <4>1. handler[c] = "receiving" /\ UNCHANGED <<handler, outcome>>
        BY <3>1, LoopRound DEF Receive, handlerVars
      <4>2. handler'[c] # "completing" /\ outcome'[c] # "saved"
        BY <4>1 DEF QueueOK
      <4> QED  BY <4>2
    <3>2. CASE LeaveLoop(c)
      <4>1. /\ handler[c] = "receiving" /\ UNCHANGED <<client, taken>>
            /\ crashed' = [crashed EXCEPT ![c] = link[c] = "reset"]
        BY <3>2 DEF LeaveLoop, AtEof, clientVars
      <4> SUFFICES ASSUME ~crashed'[c]
                   PROVE  /\ client[c] \in {"finished", "killed", "displayOnly"}
                          /\ client[c] = "finished" => taken[c] = StreamLength(c)
        BY <4>1 DEF StreamLength
      <4>2. link[c] # "reset"
        BY <1>1, <4>1
      <4>3. AtEof(c) /\ ~Remainder(c)
        BY <3>2, <4>2 DEF LeaveLoop
      <4>4. link[c] = "fin" /\ received[c] = sent[c] /\ ~(taken[c] < received[c])
        BY <4>3 DEF AtEof, Remainder
      <4>5. taken[c] = received[c]
        BY <1>1, <4>4 DEF CursorsOK
      <4> QED  BY <4>4, <4>5 DEF LinkOK
    <3>3. CASE SaveFlight(c)
      <4>1. /\ handler[c] = "completing" /\ UNCHANGED <<crashed, client>>
            /\ handler' = [handler EXCEPT ![c] = "closing"]
        BY <3>3 DEF SaveFlight, clientVars
      <4>2. Over(c)' => client'[c] \in {"finished", "killed", "displayOnly"}
        BY <4>1 DEF EndedOK
      <4>3. handler'[c] # "completing"
        BY <1>1, <4>1
      <4> QED  BY <4>2, <4>3
    <3>4. CASE FailToSave(c) \/ NothingToSave(c) \/ CloseConnection(c)
      <4>1. /\ UNCHANGED <<crashed, client>> /\ handler'[c] # "completing"
            /\ outcome'[c] \in {"failed", outcome[c]}
        BY <1>1, <3>4 DEF FailToSave, NothingToSave, CloseConnection, clientVars
      <4> QED  BY <4>1 DEF EndedOK
    <3> QED  BY <1>7, <3>1, <3>2, <3>3, <3>4 DEF HandlerStep
  <2> HIDE DEF Ended
  <2> QED  BY <1>3, <2>2, <2>3
<1>8. ASSUME NEW c \in Connections, ClientStarts(c) \/ Replay(c) \/ Fault(c)
      PROVE  EndedOK'
  <2>1. UNCHANGED <<handler, outcome, crashed, taken>>
    BY <1>8 DEF ClientStarts, Replay, Fault, handlerVars
  <2>2. \A d \in Connections :
          client'[d] = client[d] \/ client[d] \notin {"finished", "killed", "displayOnly"}
    BY <1>8, EndsStay
  <2> QED  BY <1>2, <1>3, <2>1, <2>2
<1> QED  BY <1>4, <1>5, <1>6, <1>7, <1>8 DEF Next

\* The flight that is saved for a client at the end of its file.
LEMMA WholeFlightSaved ==
  ASSUME ServerInv, QueueOK, MirrorOK, EndedOK, NEW c \in Connections, SaveFlight(c),
         Dedicated(c), client[c] = "finished", ~crashed[c]
  PROVE  /\ finalStatistics'[c].Flight.Completed
         /\ CoversRecords(finalStatistics'[c].Flight, c, RecordLines(c, Len(Telemetry[c])))
<1>1. /\ handler[c] = "completing" /\ aircraftId[c] # NoAircraft
      /\ finalStatistics' =
           [finalStatistics EXCEPT ![c] = ClosedFlight(aircraftId[c], crashed[c])]
      /\ finalStatistics \in [Connections -> OutStatistics \cup {NoStatistics}]
  BY DEF SaveFlight, ServerInv, ThreadsTypeOK
<1>2. taken[c] = Len(Telemetry[c]) * LineLength
  BY <1>1 DEF EndedOK, StreamLength
<1>3. TakenLines(c) = Len(Telemetry[c])
  BY <1>2, Lengths, WholeLines DEF TakenLines
<1>4. AtLineEnd(c) /\ Seen(c) = RecordLines(c, Len(Telemetry[c]))
  BY <1>2, <1>3 DEF AtLineEnd, Seen
<1>5. Mirrors(c)
  BY <1>1, <1>4 DEF MirrorOK
<1>6. /\ aircraftId[c] = IdOf[c]
      /\ CoversRecords(m_activeFlights[IdOf[c]], c, RecordLines(c, Len(Telemetry[c])))
  BY <1>1, <1>4, <1>5 DEF Mirrors
<1>7. finalStatistics'[c].Flight = Finalized(m_activeFlights[IdOf[c]], crashed[c])
  BY <1>1, <1>6 DEF ClosedFlight
<1> DEFINE flight == m_activeFlights[IdOf[c]]
           final == finalStatistics'[c].Flight
<1>8. /\ final.SampleCount = flight.SampleCount
      /\ final.StartTimestamp = flight.StartTimestamp /\ final.StartFuel = flight.StartFuel
      /\ final.EndTimestamp = flight.EndTimestamp /\ final.EndFuel = flight.EndFuel
      /\ final.Completed = ~crashed[c]
  BY <1>7 DEF Finalized
<1> HIDE DEF flight, final
<1>9. final.Completed
  BY <1>8
<1>10. CoversRecords(final, c, RecordLines(c, Len(Telemetry[c])))
  BY <1>6, <1>8 DEF CoversRecords, flight
<1> QED  BY <1>9, <1>10 DEF final

LEMMA EndToEndKept ==
  ASSUME ServerInv, QueueOK, MirrorOK, EndedOK, EndToEnd, [Next]_vars
  PROVE  EndToEnd'
<1>1. /\ handler \in [Connections -> HandlerStates]
      /\ outcome \in [Connections -> {"none", "saved", "failed"}]
  BY DEF ServerInv, ThreadsTypeOK
<1> DEFINE Whole(c) == (Dedicated(c) /\ client[c] = "finished" /\ outcome[c] = "saved"
                          /\ ~crashed[c]) =>
             /\ finalStatistics[c].Flight.Completed
             /\ CoversRecords(finalStatistics[c].Flight, c, RecordLines(c, Len(Telemetry[c])))
<1>2. ASSUME NEW c \in Connections,
             client'[c] = "finished" /\ outcome'[c] = "saved" /\ ~crashed'[c] =>
               /\ client[c] = "finished" /\ outcome[c] = "saved" /\ ~crashed[c]
               /\ finalStatistics'[c] = finalStatistics[c]
      PROVE  Whole(c)'
  <2> SUFFICES ASSUME Dedicated(c), client'[c] = "finished", outcome'[c] = "saved",
                      ~crashed'[c]
               PROVE  /\ finalStatistics'[c].Flight.Completed
                      /\ CoversRecords(finalStatistics'[c].Flight, c,
                                       RecordLines(c, Len(Telemetry[c])))
    BY DEF Dedicated, CoversRecords, RecordLines
  <2>1. Whole(c)
    BY DEF EndToEnd
  <2> QED  BY <1>2, <2>1
<1>3. ASSUME \A c \in Connections : Whole(c)'
      PROVE  EndToEnd'
  BY <1>3 DEF EndToEnd
<1> HIDE DEF Whole
<1>4. CASE Start \/ StartFails \/ AcceptConnection \/ AcceptFails \/ UNCHANGED vars
  <2>1. UNCHANGED <<client, outcome, crashed, finalStatistics>>
    BY <1>4 DEF Start, StartFails, AcceptConnection, AcceptFails, vars, clientVars, handlerVars
  <2> QED  BY <1>2, <1>3, <2>1
<1>5. CASE Crash
  <2>1. \A c \in Connections : outcome'[c] = "none"
    BY <1>5 DEF Crash
  <2> QED  BY <1>2, <1>3, <2>1
<1>6. ASSUME NEW c \in Connections, HandlerStep(c), UNCHANGED serverVars
      PROVE  EndToEnd'
  <2>1. OwnStep(c)
    BY <1>6, HandlerStepsAreOwn
  <2>2. \A d \in Connections \ {c} : Whole(d)'
    BY <1>2, <2>1 DEF OwnStep
  <2>3. Whole(c)'
    <3>1. CASE Receive(c) \/ HandleLine(c) \/ HandleRemainder(c) \/ LeaveLoop(c)
      <4>1. handler[c] = "receiving" /\ UNCHANGED outcome
        BY <3>1, LoopRound DEF Receive, LeaveLoop, AtEof, handlerVars
      <4>2. outcome'[c] # "saved"
        BY <4>1 DEF QueueOK
      <4> QED  BY <1>2, <4>2
    <3>2. CASE SaveFlight(c)
      <4>1. UNCHANGED <<client, crashed>>
        BY <3>2 DEF SaveFlight, clientVars
      <4> SUFFICES ASSUME Dedicated(c), client[c] = "finished", ~crashed[c]
                   PROVE  /\ finalStatistics'[c].Flight.Completed
                          /\ CoversRecords(finalStatistics'[c].Flight, c,
                                           RecordLines(c, Len(Telemetry[c])))
        BY <4>1 DEF Whole, Dedicated, CoversRecords, RecordLines
      <4> QED  BY <3>2, WholeFlightSaved
    <3>3. CASE FailToSave(c)
      <4>1. outcome'[c] = "failed"
        BY <1>1, <3>3 DEF FailToSave
      <4> QED  BY <1>2, <4>1
    <3>4. CASE NothingToSave(c) \/ CloseConnection(c)
      <4>1. UNCHANGED <<client, outcome, crashed, finalStatistics>>
        BY <3>4 DEF NothingToSave, CloseConnection, clientVars
      <4> QED  BY <1>2, <4>1
    <3> QED  BY <1>6, <3>1, <3>2, <3>3, <3>4 DEF HandlerStep
  <2> QED  BY <1>3, <2>2, <2>3
<1>7. ASSUME NEW c \in Connections, ClientStarts(c) \/ Replay(c) \/ Fault(c)
      PROVE  EndToEnd'
  <2>1. UNCHANGED <<outcome, crashed, finalStatistics>>
    BY <1>7 DEF ClientStarts, Replay, Fault, handlerVars
  <2>2. ASSUME NEW d \in Connections, outcome[d] = "saved", ~crashed[d]
        PROVE  client'[d] = client[d]
    <3>1. client[d] \in {"finished", "killed", "displayOnly"}
      BY <2>2 DEF EndedOK
    <3> QED  BY <1>7, <3>1, EndsStay
  <2> QED  BY <1>2, <1>3, <2>1, <2>2
<1> QED  BY <1>4, <1>5, <1>6, <1>7 DEF Next

-----------------------------------------------------------------------------
(* The theorems                                                            *)

LEMMA EndInitInv ==
  Init => EndInv
<1> SUFFICES ASSUME Init
             PROVE  EndInv
  OBVIOUS
<1>1. ServerInv
  BY ServerInitInv
<1>2. /\ backlog = <<>> /\ m_activeFlights = [id \in {} |-> 0]
      /\ \A c \in Connections :
           /\ client[c] = "notStarted" /\ link[c] = "none" /\ sent[c] = 0
           /\ received[c] = 0 /\ taken[c] = 0
           /\ handler[c] = "none" /\ aircraftId[c] = NoAircraft
           /\ processedPackets[c] = 0 /\ outcome[c] = "none"
  BY DEF Init, SessionInit, ProcessorInit, ClientInit, HandlerInit
<1>3. ASSUME NEW c \in Connections
      PROVE  AtLineEnd(c) /\ Seen(c) = {}
  <2>1. LineLength \in Nat \ {0} /\ 0 = 0 * LineLength
    BY Lengths
  <2>2. (0 * LineLength) \div LineLength = 0
    BY <2>1, WholeLines
  <2>3. TakenLines(c) = 0
    BY <1>2, <2>1, <2>2 DEF TakenLines
  <2> QED  BY <1>2, <2>1, <2>3 DEF AtLineEnd, Seen, RecordLines
<1>4. QueueOK
  <2>1. \A i \in 1..Len(backlog) : FALSE
    BY <1>2
  <2> QED  BY <1>2, <2>1 DEF QueueOK
<1>5. StoppedOK /\ LinkOK /\ AccountedOK /\ EndedOK /\ FailsOnlyWhenShared /\ EndToEnd
  BY <1>2 DEF StoppedOK, LinkOK, AccountedOK, EndedOK, FailsOnlyWhenShared, EndToEnd
<1>6. CutOK
  <2>1. Cardinality({}) = 0
    BY FS_EmptySet
  <2>2. ASSUME NEW c \in Connections
        PROVE  AtLineEnd(c) /\ processedPackets[c] <= Cardinality(Seen(c))
    <3>1. processedPackets[c] = 0 /\ Cardinality(Seen(c)) = 0
      BY <1>2, <1>3, <2>1
    <3>2. processedPackets[c] <= Cardinality(Seen(c))
      BY <3>1
    <3> QED  BY <1>3, <3>2
  <2> QED  BY <2>2 DEF CutOK
<1>7. MirrorOK
  BY <1>2, <1>3 DEF MirrorOK, Mirrors
<1> QED  BY <1>1, <1>4, <1>5, <1>6, <1>7 DEF EndInv

LEMMA EndStepInv ==
  ASSUME EndInv, [Next]_vars
  PROVE  EndInv'
BY ServerStepInv, QueueKept, StoppedKept, LinkKept, CutKept, AccountedKept, MirrorKept,
   EndedKept, FailuresKept, EndToEndKept DEF EndInv

\* What was consumed was sent, so the count is off by the cut line at the most.
LEMMA CutsAreOfAborted ==
  ASSUME ServerInv, CutOK
  PROVE  CutOnlyWhenAborted
<1> SUFFICES ASSUME NEW c \in Connections
             PROVE  /\ processedPackets[c] <= WholeRecordsSent(c) + 1
                    /\ processedPackets[c] > WholeRecordsSent(c) =>
                         client[c] \in {"killed", "displayOnly"}
  BY DEF CutOnlyWhenAborted
<1> DEFINE seen == Cardinality(Seen(c))
           whole == WholeRecordsSent(c)
<1>1. CursorsOK /\ processedPackets[c] \in Nat
  BY DEF ServerInv, ThreadsTypeOK
<1>2. seen \in Nat /\ whole \in Nat /\ seen <= whole
  BY <1>1, TakenLinesType, RecordsAmong, RecordsGrow DEF Seen, WholeRecordsSent
<1>3. \/ processedPackets[c] <= seen
      \/ client[c] \in {"killed", "displayOnly"} /\ processedPackets[c] <= seen + 1
  BY DEF CutOK
<1> HIDE DEF seen, whole
<1>4. /\ processedPackets[c] <= whole + 1
      /\ processedPackets[c] > whole => client[c] \in {"killed", "displayOnly"}
  BY <1>1, <1>2, <1>3
<1> QED  BY <1>4 DEF whole

\* For any number of clients, any telemetry, any window and any faults: a client
\* that has its aircraft id to itself and gets to the end of its file has all
\* its records in its completed flight; a cut line becomes a record only when
\* the client was killed or gave up sending, and at most one; and a handler fails
\* to finalize its flight only when another one of the same aircraft has closed it.
THEOREM ServerEndToEnd ==
  Spec => [](EndToEnd /\ CutOnlyWhenAborted /\ FailsOnlyWhenShared)
<1>1. Init => EndInv
  BY EndInitInv
<1>2. EndInv /\ [Next]_vars => EndInv'
  BY EndStepInv
<1>3. EndInv => EndToEnd /\ CutOnlyWhenAborted /\ FailsOnlyWhenShared
  BY CutsAreOfAborted DEF EndInv
<1> QED  BY <1>1, <1>2, <1>3, PTL DEF Spec

-----------------------------------------------------------------------------
(* What the handlers have counted                                          *)

\* The handlers named after an aircraft, the records they have accepted, and
\* those that are in its flight in progress and in the flights they have saved.
Users(id) == {c \in Connections : aircraftId[c] = id}
AcceptedOf(id) == SumFunctionOnSet(processedPackets, Users(id))
InProgress(id) == IF id \in DOMAIN m_activeFlights THEN m_activeFlights[id].SampleCount ELSE 0
SavedSamples(id) == [c \in Savers(id) |-> finalStatistics[c].Flight.SampleCount]
SavedOf(id) == SumFunctionOnSet(SavedSamples(id), Savers(id))

\* The sums are sums of finitely many numbers: only so many connections have had
\* a record accepted.
CountedOK ==
  /\ IsFiniteSet({c \in Connections : aircraftId[c] # NoAircraft})
  /\ \A c \in Connections : aircraftId[c] = NoAircraft => processedPackets[c] = 0
  /\ \A c \in Connections : outcome[c] = "saved" => finalStatistics[c] \in OutStatistics

SamplesInv == EndInv /\ CountedOK /\ SamplesConserved

LEMMA Conserved ==
  SamplesConserved <=> \A id \in AircraftIds : AcceptedOf(id) = InProgress(id) + SavedOf(id)
BY DEF SamplesConserved, AcceptedOf, InProgress, SavedOf, SavedSamples, Users

\* The terms of the sums.
LEMMA CountsAreNumbers ==
  ASSUME SamplesInv, NEW id \in AircraftIds
  PROVE  /\ Summable(processedPackets, Users(id))
         /\ Summable(SavedSamples(id), Savers(id))
         /\ AcceptedOf(id) \in Int /\ InProgress(id) \in Nat /\ SavedOf(id) \in Int
<1>1. /\ processedPackets \in [Connections -> Nat]
      /\ IsMapOf(m_activeFlights, AircraftIds, FlightState)
  BY DEF SamplesInv, EndInv, ServerInv, ThreadsTypeOK, SessionInv, SessionTypeOK,
         ProcessorTypeOK
<1>2. IsFiniteSet(Users(id)) /\ IsFiniteSet(Savers(id))
  <2> DEFINE named == {c \in Connections : aircraftId[c] # NoAircraft}
  <2>1. Users(id) \in SUBSET named /\ Savers(id) \in SUBSET named
    BY HandlerAssumption DEF Users, Savers
  <2>2. IsFiniteSet(named)
    BY DEF SamplesInv, CountedOK
  <2> HIDE DEF named
  <2> QED  BY <2>1, <2>2, FS_Subset
<1>3. Summable(processedPackets, Users(id))
  BY <1>1, <1>2 DEF Summable, Users
<1>4. Summable(SavedSamples(id), Savers(id))
  <2>1. \A c \in Savers(id) : finalStatistics[c].Flight.SampleCount \in Int
    BY DEF SamplesInv, CountedOK, Savers, OutStatistics, FinalStatistics
  <2> QED  BY <1>2, <2>1 DEF Summable, SavedSamples
<1>5. InProgress(id) \in Nat
  BY <1>1 DEF InProgress, IsMapOf, FlightState
<1> QED  BY <1>3, <1>4, <1>5, SumType DEF AcceptedOf, SavedOf

\* A record adds one sample to the flight of its aircraft and to no other.
LEMMA OneMoreSample ==
  ASSUME SamplesInv, NEW line \in TelemetryRecord, AcceptRecord(line)
  PROVE  \A id \in AircraftIds :
           InProgress(id)' = InProgress(id) + (IF id = line.AircraftId THEN 1 ELSE 0)
<1> SUFFICES ASSUME NEW id \in AircraftIds
             PROVE  InProgress(id)' = InProgress(id) + (IF id = line.AircraftId THEN 1 ELSE 0)
  OBVIOUS
<1>1. IsMapOf(m_activeFlights, AircraftIds, FlightState)
  BY DEF SamplesInv, EndInv, ServerInv, SessionInv, SessionTypeOK, ProcessorTypeOK
<1>2. InProgress(id) \in Nat
  BY CountsAreNumbers
<1>3. m_activeFlights' = Put(m_activeFlights, line.AircraftId,
                             IF line.AircraftId \in DOMAIN m_activeFlights
                               THEN NextSample(m_activeFlights[line.AircraftId], line)
                               ELSE FirstSample(line))
  BY DEF AcceptRecord, Process
<1>4. CASE id # line.AircraftId
  BY <1>2, <1>3, <1>4 DEF InProgress, Put
<1>5. CASE id = line.AircraftId
  <2>1. CASE id \in DOMAIN m_activeFlights
    <3>1. m_activeFlights[id] \in FlightState
      BY <1>1, <2>1 DEF IsMapOf
    <3>2. NextSample(m_activeFlights[id], line).SampleCount
            = m_activeFlights[id].SampleCount + 1
      BY <3>1, NextSampleFields
    <3> QED  BY <1>3, <1>5, <2>1, <3>2 DEF InProgress, Put
  <2>2. CASE id \notin DOMAIN m_activeFlights
    BY <1>3, <1>5, <2>2 DEF InProgress, Put, FirstSample
  <2> QED  BY <2>1, <2>2
<1> QED  BY <1>4, <1>5

LEMMA SamplesAccepted ==
  ASSUME SamplesInv, NEW c \in Connections, HandleLine(c) \/ HandleRemainder(c)
  PROVE  CountedOK' /\ SamplesConserved'
<1>1. /\ processedPackets \in [Connections -> Nat]
      /\ aircraftId \in [Connections -> AircraftIds \cup {NoAircraft}]
      /\ NamedAfterClient /\ ServerInv /\ CountedOK
      /\ NoAircraft \notin AircraftIds /\ IdOf[c] \in AircraftIds
  BY HandlerAssumption DEF SamplesInv, EndInv, ServerInv, ThreadsTypeOK
<1>2. /\ handler[c] = "receiving" /\ UNCHANGED <<outcome, finalStatistics>>
      /\ \/ UNCHANGED sessionVars /\ UNCHANGED <<aircraftId, processedPackets>>
         \/ Accepted(c)
  BY <1>1, LoopRound
<1>3. outcome[c] = "none"
  BY <1>2 DEF SamplesInv, EndInv, QueueOK
<1>4. CASE UNCHANGED sessionVars /\ UNCHANGED <<aircraftId, processedPackets>>
  BY <1>2, <1>4 DEF SamplesInv, CountedOK, SamplesConserved, Savers, sessionVars
<1>5. CASE Accepted(c)
  <2>1. PICK line \in TelemetryRecord :
          /\ line.AircraftId = IdOf[c]
          /\ AcceptRecord(line)
          /\ aircraftId' = [aircraftId EXCEPT ![c] = IF @ = NoAircraft THEN IdOf[c] ELSE @]
          /\ processedPackets' = [processedPackets EXCEPT ![c] = @ + 1]
    BY <1>5 DEF Accepted
  <2>2. aircraftId' = [aircraftId EXCEPT ![c] = IdOf[c]] /\ aircraftId'[c] = IdOf[c]
        /\ aircraftId[c] \in {NoAircraft, IdOf[c]}
    BY <1>1, <2>1 DEF NamedAfterClient
  <2>3. CountedOK'
    <3>1. {d \in Connections : aircraftId'[d] # NoAircraft}
            = {d \in Connections : aircraftId[d] # NoAircraft} \cup {c}
      BY <1>1, <2>2
    <3>2. IsFiniteSet({d \in Connections : aircraftId'[d] # NoAircraft})
      BY <1>1, <3>1, FS_AddElement DEF CountedOK
    <3> QED  BY <1>1, <1>2, <2>1, <2>2, <3>2 DEF CountedOK
  <2>4. ASSUME NEW id \in AircraftIds
        PROVE  Savers(id)' = Savers(id) /\ SavedOf(id)' = SavedOf(id)
    <3>1. Savers(id)' = Savers(id)
      BY <1>1, <1>2, <1>3, <2>2 DEF Savers
    <3> QED  BY <1>2, <3>1 DEF SavedOf, SavedSamples
  <2>5. ASSUME NEW id \in AircraftIds, id # IdOf[c]
        PROVE  AcceptedOf(id)' = AcceptedOf(id)
    <3>1. Users(id)' = Users(id) /\ c \notin Users(id)
      BY <1>1, <2>2, <2>5 DEF Users
    <3>2. \A d \in Users(id) : processedPackets[d] = processedPackets'[d]
      BY <1>1, <2>1, <3>1 DEF Users
    <3> QED  BY <3>1, <3>2, CountsAreNumbers, SameSum DEF AcceptedOf
  <2>6. AcceptedOf(IdOf[c])' = AcceptedOf(IdOf[c]) + 1
    <3> DEFINE users == Users(IdOf[c])
               others == users \ {c}
               Sum(fun, S) == SumFunctionOnSet(fun, S)
    <3>1. /\ Users(IdOf[c])' = others \cup {c}
          /\ c \notin others
          /\ c \notin users => processedPackets[c] = 0 /\ others = users
      BY <1>1, <2>2 DEF Users, CountedOK
    <3>2. Summable(processedPackets, users) /\ IsFiniteSet(users)
      BY <1>1, CountsAreNumbers DEF Summable
    <3>3. Summable(processedPackets, others) /\ others \in SUBSET users
      BY <3>2, FS_Subset DEF Summable
    <3>4. \A d \in others : processedPackets[d] = processedPackets'[d]
      BY <1>1, <2>1 DEF Users
    <3>5. processedPackets[c] \in Int /\ processedPackets'[c] = processedPackets[c] + 1
      BY <1>1, <2>1
    <3> HIDE DEF users, others
    <3>6. Summable(processedPackets', others)
      BY <3>3, <3>4 DEF Summable
    <3>7. Sum(processedPackets, others) = Sum(processedPackets', others)
      BY <3>3, <3>4, SameSum
    <3>8. Sum(processedPackets', others \cup {c})
            = Sum(processedPackets', others) + processedPackets'[c]
      BY <3>1, <3>5, <3>6, SumWith
    <3>9. Sum(processedPackets, users) = Sum(processedPackets, others) + processedPackets[c]
      <4>1. Sum(processedPackets, others) \in Int
        BY <3>3, SumType
      <4>2. CASE c \in users
        BY <3>2, <3>5, <4>1, <4>2, SumWithout DEF others
      <4>3. CASE c \notin users
        BY <3>1, <4>1, <4>3
      <4> QED  BY <4>2, <4>3
    <3>10. Sum(processedPackets, others) \in Int
      BY <3>3, SumType
    <3>11. AcceptedOf(IdOf[c])' = Sum(processedPackets', others \cup {c})
      BY <3>1 DEF AcceptedOf
    <3>12. AcceptedOf(IdOf[c]) = Sum(processedPackets, users)
      BY DEF AcceptedOf, users
    <3> HIDE DEF Sum
    <3> QED  BY <3>5, <3>7, <3>8, <3>9, <3>10, <3>11, <3>12
  <2>7. ASSUME NEW id \in AircraftIds
        PROVE  AcceptedOf(id)' = InProgress(id)' + SavedOf(id)'
    <3>1. AcceptedOf(id) = InProgress(id) + SavedOf(id)
      BY Conserved DEF SamplesInv
    <3>2. AcceptedOf(id) \in Int /\ InProgress(id) \in Nat /\ SavedOf(id) \in Int
      BY CountsAreNumbers
    <3>3. InProgress(id)' = InProgress(id) + (IF id = IdOf[c] THEN 1 ELSE 0)
      BY <2>1, OneMoreSample
    <3> QED  BY <2>4, <2>5, <2>6, <3>1, <3>2, <3>3
  <2>8. SamplesConserved'
    BY <2>7 DEF SamplesConserved, AcceptedOf, InProgress, SavedOf, SavedSamples, Users
  <2> QED  BY <2>3, <2>8
<1> QED  BY <1>2, <1>4, <1>5

LEMMA SamplesSaved ==
  ASSUME SamplesInv, NEW c \in Connections, SaveFlight(c)
  PROVE  CountedOK' /\ SamplesConserved'
<1> PICK own : own = aircraftId[c]
  OBVIOUS
<1>1. /\ aircraftId \in [Connections -> AircraftIds \cup {NoAircraft}]
      /\ outcome \in [Connections -> {"none", "saved", "failed"}]
      /\ finalStatistics \in [Connections -> OutStatistics \cup {NoStatistics}]
      /\ IsMapOf(m_activeFlights, AircraftIds, FlightState)
      /\ ServerInv /\ CountedOK
  BY DEF SamplesInv, EndInv, ServerInv, ThreadsTypeOK, SessionInv, SessionTypeOK,
         ProcessorTypeOK
<1>2. /\ own \in AircraftIds /\ own \in DOMAIN m_activeFlights
      /\ handler[c] = "completing"
      /\ finalStatistics' = [finalStatistics EXCEPT ![c] = ClosedFlight(own, crashed[c])]
      /\ ClosedFlight(own, crashed[c]) \in OutStatistics
      /\ outcome' = [outcome EXCEPT ![c] = "saved"]
      /\ UNCHANGED <<aircraftId, processedPackets>>
  BY <1>1, SavedFlight DEF SaveFlight
<1>3. m_activeFlights' = Without(m_activeFlights, own)
  BY DEF SaveFlight, CompleteFlight, FinalizeFlight
<1>4. outcome[c] = "none"
  BY <1>2 DEF SamplesInv, EndInv, QueueOK
<1>5. ClosedFlight(own, crashed[c]).Flight.SampleCount = InProgress(own)
  BY <1>2 DEF ClosedFlight, Finalized, InProgress
<1>6. /\ InProgress(own)' = 0
      /\ \A id \in AircraftIds \ {own} : InProgress(id)' = InProgress(id)
  BY <1>3 DEF InProgress, Without, Restrict
<1>7. CountedOK'
  BY <1>1, <1>2 DEF CountedOK
<1>8. ASSUME NEW id \in AircraftIds
      PROVE  AcceptedOf(id)' = AcceptedOf(id)
  BY <1>2 DEF AcceptedOf, Users
<1>9. ASSUME NEW id \in AircraftIds \ {own}
      PROVE  SavedOf(id)' = SavedOf(id)
  <2>1. Savers(id)' = Savers(id) /\ c \notin Savers(id)
    BY <1>1, <1>2, <1>4 DEF Savers
  <2>2. \A d \in Savers(id) : finalStatistics'[d] = finalStatistics[d]
    BY <1>1, <1>2, <2>1 DEF Savers
  <2>3. SavedSamples(id)' = SavedSamples(id)
    BY <2>1, <2>2 DEF SavedSamples
  <2> QED  BY <2>1, <2>3 DEF SavedOf
<1>10. SavedOf(own)' = SavedOf(own) + InProgress(own)
  <2> DEFINE savers == Savers(own)
  <2>1. Savers(own)' = savers \cup {c} /\ c \notin savers
    BY <1>1, <1>2, <1>4 DEF Savers
  <2>2. Summable(SavedSamples(own), savers) /\ InProgress(own) \in Nat
    BY <1>2, CountsAreNumbers
  <2>3. \A d \in savers : SavedSamples(own)[d] = SavedSamples(own)'[d]
    BY <1>1, <1>2, <2>1 DEF SavedSamples, Savers
  <2>4. SavedSamples(own)'[c] = InProgress(own)
    BY <1>1, <1>2, <1>5, <2>1 DEF SavedSamples
  <2> HIDE DEF savers
  <2>5. Summable(SavedSamples(own)', savers)
    BY <2>2, <2>3 DEF Summable
  <2>6. SumFunctionOnSet(SavedSamples(own), savers)
          = SumFunctionOnSet(SavedSamples(own)', savers)
    BY <2>2, <2>3, SameSum
  <2>7. SumFunctionOnSet(SavedSamples(own)', savers \cup {c})
          = SumFunctionOnSet(SavedSamples(own)', savers) + SavedSamples(own)'[c]
    BY <2>1, <2>2, <2>4, <2>5, SumWith
  <2> QED  BY <2>1, <2>4, <2>6, <2>7 DEF SavedOf, savers
<1>11. ASSUME NEW id \in AircraftIds
       PROVE  AcceptedOf(id)' = InProgress(id)' + SavedOf(id)'
  <2>1. AcceptedOf(id) = InProgress(id) + SavedOf(id)
    BY Conserved DEF SamplesInv
  <2>2. AcceptedOf(id) \in Int /\ InProgress(id) \in Nat /\ SavedOf(id) \in Int
    BY CountsAreNumbers
  <2> QED  BY <1>6, <1>8, <1>9, <1>10, <2>1, <2>2
<1>12. SamplesConserved'
  BY <1>11 DEF SamplesConserved, AcceptedOf, InProgress, SavedOf, SavedSamples, Users
<1> QED  BY <1>7, <1>12

LEMMA SamplesKept ==
  ASSUME SamplesInv, [Next]_vars
  PROVE  CountedOK' /\ SamplesConserved'
<1>1. CountedOK /\ SamplesConserved /\ QueueOK /\ StoppedOK
  BY DEF SamplesInv, EndInv
<1>2. ASSUME UNCHANGED <<processedPackets, aircraftId, outcome, finalStatistics,
                         m_activeFlights>>
      PROVE  CountedOK' /\ SamplesConserved'
  BY <1>1, <1>2 DEF CountedOK, SamplesConserved, Savers
<1>3. CASE StartFails \/ AcceptConnection \/ AcceptFails \/ UNCHANGED vars
  BY <1>2, <1>3 DEF StartFails, AcceptConnection, AcceptFails, vars, handlerVars, sessionVars
<1>4. CASE Start \/ Crash
  <2>1. /\ m_activeFlights' = [id \in {} |-> 0]
        /\ \A c \in Connections : aircraftId'[c] = NoAircraft /\ outcome'[c] = "none"
    BY <1>1, <1>4 DEF Start, Crash, Construct, StoppedOK, handlerVars
  <2>2. \A c \in Connections : processedPackets'[c] = 0
    BY <1>1, <1>4 DEF Start, Crash, StoppedOK, CountedOK, handlerVars
  <2>3. {c \in Connections : aircraftId'[c] # NoAircraft} = {}
    BY <2>1
  <2>4. CountedOK'
    BY <2>1, <2>2, <2>3, FS_EmptySet DEF CountedOK
  <2>5. ASSUME NEW id \in AircraftIds
        PROVE  AcceptedOf(id)' = InProgress(id)' + SavedOf(id)'
    <3>1. Users(id)' = {} /\ Savers(id)' = {}
      BY <2>1, HandlerAssumption DEF Users, Savers
    <3>2. AcceptedOf(id)' = 0 /\ SavedOf(id)' = 0
      BY <3>1, SumOverNothing DEF AcceptedOf, SavedOf
    <3>3. InProgress(id)' = 0
      BY <2>1 DEF InProgress
    <3> QED  BY <3>2, <3>3
  <2>6. SamplesConserved'
    BY <2>5 DEF SamplesConserved, AcceptedOf, InProgress, SavedOf, SavedSamples, Users
  <2> QED  BY <2>4, <2>6
<1>5. ASSUME NEW c \in Connections, HandlerStep(c)
      PROVE  CountedOK' /\ SamplesConserved'
  <2>1. CASE Receive(c) \/ LeaveLoop(c) \/ NothingToSave(c) \/ CloseConnection(c)
    BY <1>2, <2>1 DEF Receive, LeaveLoop, NothingToSave, CloseConnection, handlerVars,
                      sessionVars
  <2>2. CASE FailToSave(c)
    <3>1. /\ outcome[c] = "none" /\ outcome' = [outcome EXCEPT ![c] = "failed"]
          /\ UNCHANGED <<processedPackets, aircraftId, finalStatistics, m_activeFlights>>
      BY <1>1, <2>2 DEF FailToSave, NoSuchFlight, sessionVars, QueueOK
    <3>2. outcome \in [Connections -> {"none", "saved", "failed"}]
      BY DEF SamplesInv, EndInv, ServerInv, ThreadsTypeOK
    <3>3. \A d \in Connections : outcome'[d] = "saved" <=> outcome[d] = "saved"
      BY <3>1, <3>2
    <3>4. \A id : Savers(id)' = Savers(id)
      BY <3>1, <3>3 DEF Savers
    <3> QED  BY <1>1, <3>1, <3>3, <3>4 DEF CountedOK, SamplesConserved
  <2> QED  BY <1>5, <2>1, <2>2, SamplesAccepted, SamplesSaved DEF HandlerStep
<1>6. ASSUME NEW c \in Connections, ClientStarts(c) \/ Replay(c) \/ Fault(c)
      PROVE  CountedOK' /\ SamplesConserved'
  BY <1>2, <1>6 DEF ClientStarts, Replay, Fault, handlerVars, sessionVars
<1> QED  BY <1>3, <1>4, <1>5, <1>6 DEF Next

LEMMA SamplesInitInv ==
  Init => SamplesInv
<1> SUFFICES ASSUME Init
             PROVE  SamplesInv
  OBVIOUS
<1>1. EndInv
  BY EndInitInv
<1>2. /\ m_activeFlights = [id \in {} |-> 0]
      /\ \A c \in Connections :
           aircraftId[c] = NoAircraft /\ processedPackets[c] = 0 /\ outcome[c] = "none"
  BY DEF Init, SessionInit, ProcessorInit, HandlerInit
<1>3. {c \in Connections : aircraftId[c] # NoAircraft} = {}
  BY <1>2
<1>4. CountedOK
  BY <1>2, <1>3, FS_EmptySet DEF CountedOK
<1>5. ASSUME NEW id \in AircraftIds
      PROVE  AcceptedOf(id) = InProgress(id) + SavedOf(id)
  <2>1. Users(id) = {} /\ Savers(id) = {}
    BY <1>2, HandlerAssumption DEF Users, Savers
  <2>2. AcceptedOf(id) = 0 /\ SavedOf(id) = 0
    BY <2>1, SumOverNothing DEF AcceptedOf, SavedOf
  <2>3. InProgress(id) = 0
    BY <1>2 DEF InProgress
  <2> QED  BY <2>2, <2>3
<1> QED  BY <1>1, <1>4, <1>5, Conserved DEF SamplesInv

\* For any number of clients that share aircraft ids in any way, whatever they
\* send and whatever faults happen: what the handlers of an aircraft have
\* accepted is what its saved flights and the one in progress hold.
THEOREM ServerConservesSamples ==
  Spec => []SamplesConserved
<1>1. Init => SamplesInv
  BY SamplesInitInv
<1>2. SamplesInv /\ [Next]_vars => SamplesInv'
  BY EndStepInv, SamplesKept DEF SamplesInv
<1>3. SamplesInv => SamplesConserved
  BY DEF SamplesInv
<1> QED  BY <1>1, <1>2, <1>3, PTL DEF Spec
=============================================================================
