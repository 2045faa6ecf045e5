------------------------------- MODULE ServerApp -------------------------------
(***************************************************************************)
(* The server process (src/server/ServerApp.cpp, ServerListener.cpp): the  *)
(* accept loop that gives every connection a detached thread, all threads  *)
(* sharing one session manager, and the clients around it.                 *)
(***************************************************************************)
EXTENDS ClientHandler, FiniteSets

CONSTANT MaxStarts   \* bound on the number of attempts to start the server

ASSUME StartsAssumption == MaxStarts \in Nat \ {0}

VARIABLES
  running,   \* the server process runs and listens
  backlog,   \* connections established and not yet accepted, in order
  starts     \* how often it was attempted to start it

serverVars == <<running, backlog, starts>>
vars == <<sessionVars, clientVars, handlerVars, serverVars>>

Init ==
  /\ SessionInit
  /\ ClientInit
  /\ HandlerInit
  /\ running = FALSE
  /\ backlog = <<>>
  /\ starts = 0

-----------------------------------------------------------------------------
(* The server                                                              *)

\* ServerApp::Run up to its accept loop.
Start ==
  /\ ~running /\ starts < MaxStarts
  /\ running' = TRUE
  /\ starts' = starts + 1
  /\ Construct
  /\ UNCHANGED backlog
  /\ UNCHANGED clientVars
  /\ UNCHANGED handlerVars

\* ServerListener::Start returns false, or the port is no number: the process
\* ends before it has opened anything.
StartFails ==
  /\ "bind" \in Faults
  /\ ~running /\ starts < MaxStarts
  /\ starts' = starts + 1
  /\ UNCHANGED <<running, backlog>>
  /\ UNCHANGED clientVars
  /\ UNCHANGED handlerVars
  /\ UNCHANGED sessionVars

\* One round of the accept loop: the oldest connection gets a thread.
AcceptConnection ==
  /\ running /\ backlog # <<>>
  /\ backlog' = Tail(backlog)
  /\ handler' = [handler EXCEPT ![Head(backlog)] = "receiving"]
  /\ UNCHANGED <<running, starts>>
  /\ UNCHANGED <<taken, aircraftId, processedPackets, crashed, outcome,
                 finalStatistics>>
  /\ UNCHANGED clientVars
  /\ UNCHANGED sessionVars

\* accept() reports that the oldest connection is already broken: it is gone,
\* the error is logged and the loop continues.
AcceptFails ==
  /\ running /\ backlog # <<>>
  /\ link[Head(backlog)] = "reset"
  /\ backlog' = Tail(backlog)
  /\ UNCHANGED <<running, starts>>
  /\ UNCHANGED clientVars
  /\ UNCHANGED handlerVars
  /\ UNCHANGED sessionVars

\* The process ends: killed, or by an exception no thread catches (a thread
\* that cannot be created, a file system error in AppendFlightCsv). What it had
\* in memory is gone and its connections break.
Crash ==
  /\ "crash" \in Faults
  /\ running
  /\ running' = FALSE
  /\ backlog' = <<>>
  /\ Construct
  /\ link' = [c \in Connections |-> IF link[c] \in {"open", "reset"} THEN "reset" ELSE "none"]
  /\ handler' = [c \in Connections |-> IF handler[c] = "none" THEN "none" ELSE "closed"]
  /\ aircraftId' = [c \in Connections |-> NoAircraft]
  /\ processedPackets' = [c \in Connections |-> 0]
  /\ crashed' = [c \in Connections |-> FALSE]
  /\ outcome' = [c \in Connections |-> "none"]
  /\ finalStatistics' = [c \in Connections |-> NoStatistics]
  /\ UNCHANGED <<starts, client, sent, received, taken>>

-----------------------------------------------------------------------------
(* The clients and their connections                                       *)

\* A connection is established by the operating system once the server listens.
ClientConnects(c) ==
  /\ running
  /\ Connect(c)
  /\ backlog' = Append(backlog, c)
  /\ UNCHANGED <<running, starts>>

\* The steps by which a connected client goes through its file.
Replay(c) ==
  /\ SendUnits(c) \/ SendFails(c) \/ FinishReplay(c)
  /\ UNCHANGED serverVars
  /\ UNCHANGED handlerVars
  /\ UNCHANGED sessionVars

ClientStarts(c) ==
  /\ ClientConnects(c) \/ (ConnectFails(c) /\ UNCHANGED serverVars)
  /\ UNCHANGED handlerVars
  /\ UNCHANGED sessionVars

Fault(c) ==
  /\ Kill(c) \/ SendFailsIntact(c) \/ ConnectionReset(c) \/ Vanish(c)
  /\ UNCHANGED serverVars
  /\ UNCHANGED handlerVars
  /\ UNCHANGED sessionVars

-----------------------------------------------------------------------------
Next ==
  \/ Start \/ StartFails \/ AcceptConnection \/ AcceptFails \/ Crash
  \/ \E c \in Connections :
       \/ HandlerStep(c) /\ UNCHANGED serverVars
       \/ ClientStarts(c) \/ Replay(c) \/ Fault(c)

Spec == Init /\ [][Next]_vars

\* The threads of a process are scheduled: the accept loop, every handler, and
\* every client that has connected.  Nothing else is promised to happen.
Fairness ==
  /\ WF_vars(AcceptConnection \/ AcceptFails)
  /\ \A c \in Connections :
       /\ WF_vars(HandlerStep(c) /\ UNCHANGED serverVars)
       /\ WF_vars(Replay(c))

FairSpec == Spec /\ Fairness

-----------------------------------------------------------------------------
(* Properties                                                              *)

\* The threads and connections.
ThreadsTypeOK ==
  /\ client \in [Connections -> ClientStates]
  /\ link \in [Connections -> LinkStates]
  /\ handler \in [Connections -> HandlerStates]
  /\ aircraftId \in [Connections -> AircraftIds \cup {NoAircraft}]
  /\ processedPackets \in [Connections -> Nat]
  /\ crashed \in [Connections -> BOOLEAN]
  /\ outcome \in [Connections -> {"none", "saved", "failed"}]
  /\ finalStatistics \in [Connections -> OutStatistics \cup {NoStatistics}]
  /\ running \in BOOLEAN
  /\ backlog \in Seq(Connections)
  /\ starts \in 0..MaxStarts

\* A stream is read no further than it was written and consumed no further than
\* it was read.
CursorsOK ==
  /\ sent \in [Connections -> Nat]
  /\ received \in [Connections -> Nat]
  /\ taken \in [Connections -> Nat]
  /\ \A c \in Connections :
       /\ sent[c] <= StreamLength(c)
       /\ received[c] <= sent[c]
       /\ taken[c] <= received[c]

\* The whole state is well formed.
TypeOK == SessionTypeOK /\ ThreadsTypeOK /\ CursorsOK

\* The handlers that still count on a flight of this aircraft.
Responsible(id) ==
  {c \in Connections : handler[c] \in {"receiving", "completing"} /\ aircraftId[c] = id}

\* The handlers that saved a flight of this aircraft.
Savers(id) == {c \in Connections : outcome[c] = "saved" /\ aircraftId[c] = id}

\* Every flight in progress has a handler that closes it when its connection
\* ends: even when clients share an aircraft id and one of them ends the others'
\* flight, no entry of m_activeFlights is left behind.  (A connection that does
\* not end keeps both, which is LostClientsCleared below.)
NoOrphanFlight ==
  \A id \in DOMAIN m_activeFlights : Responsible(id) # {}

\* No record is lost or counted twice between the handlers and the statistics:
\* what the handlers of an aircraft have accepted is what its closed flights
\* and the one in progress hold, however flights of one id were interleaved.
SamplesConserved ==
  \A id \in AircraftIds :
    SumFunctionOnSet(processedPackets, {c \in Connections : aircraftId[c] = id})
      = (IF id \in DOMAIN m_activeFlights THEN m_activeFlights[id].SampleCount ELSE 0)
          + SumFunctionOnSet([c \in Savers(id) |-> finalStatistics[c].Flight.SampleCount],
                             Savers(id))

\* "Failed to finalize flight" happens only to a handler whose flight another
\* handler of the same aircraft id has closed.
FailsOnlyWhenShared ==
  \A c \in Connections :
    outcome[c] = "failed" => \E d \in Savers(aircraftId[c]) : d # c

\* No other client uses this one's aircraft id.
Dedicated(c) == \A d \in Connections \ {c} : IdOf[d] # IdOf[c]

\* The places of the records among the first n lines a client has to send.
RecordLines(c, n) == {i \in 1..n : Telemetry[c][i] \notin {Malformed, Blank}}

\* The records that were sent to their last unit.
WholeRecordsSent(c) == Cardinality(RecordLines(c, WholeLinesSent(c)))

\* A flight starts and ends with the first and the last of some records, and
\* counts them.
CoversRecords(flight, c, records) ==
  /\ flight.SampleCount = Cardinality(records)
  /\ \E first, last \in records :
       /\ \A i \in records : first <= i /\ i <= last
       /\ flight.StartTimestamp = Telemetry[c][first].Timestamp
       /\ flight.StartFuel = Telemetry[c][first].FuelQuantity
       /\ flight.EndTimestamp = Telemetry[c][last].Timestamp
       /\ flight.EndFuel = Telemetry[c][last].FuelQuantity

\* End to end: when a client that has its aircraft id to itself gets to the end
\* of its file and its flight is recorded as completed, the flight has all its
\* records, starts with the first and ends with the last, in spite of partial
\* sends, receives that cut lines anywhere and lines that are discarded.
EndToEnd ==
  \A c \in Connections :
    (Dedicated(c) /\ client[c] = "finished" /\ outcome[c] = "saved" /\ ~crashed[c]) =>
      /\ finalStatistics[c].Flight.Completed
      /\ CoversRecords(finalStatistics[c].Flight, c, RecordLines(c, Len(Telemetry[c])))

\* The server makes a record of a line that was not sent to its end only when
\* the client process was killed or gave up sending, and then of at most one.
CutOnlyWhenAborted ==
  \A c \in Connections :
    /\ processedPackets[c] <= WholeRecordsSent(c) + 1
    /\ processedPackets[c] > WholeRecordsSent(c) =>
         client[c] \in {"killed", "displayOnly"}

\* Every connection that is accepted is closed again.
EveryHandlerReturns ==
  \A c \in Connections : handler[c] = "receiving" ~> handler[c] = "closed"

\* Every client that has connected gets to the end of its file, over the socket
\* or for display only, or its process was killed: it is not kept waiting by a
\* server that does not read.
EveryReplayEnds ==
  \A c \in Connections :
    client[c] = "sending" ~> client[c] \in {"finished", "displayOnly", "killed"}

\* Every flight in progress is closed in the end.
EveryFlightEnds ==
  \A id \in AircraftIds :
    id \in DOMAIN m_activeFlights ~> id \notin DOMAIN m_activeFlights

-----------------------------------------------------------------------------
(* What comments and configuration say, and the code does not do           *)

\* "extracts complete lines and converts them into telemetry records"
\* (PacketReceiver.cpp:5).
OnlyCompleteLines ==
  \A c \in Connections : processedPackets[c] <= WholeRecordsSent(c)

CONSTANT MaxClients   \* ServerConfig::MaxClients

\* "max_clients" (config/server.config.json:4): no more clients than that have
\* a handler at the same time.
ClientsLimited ==
  Cardinality({c \in Connections : handler[c] \in {"receiving", "completing", "closing"}})
    <= MaxClients

\* "if a client disconnects without completing the flight, clear it from the
\* map to prevent mem leaks" (AircraftSessionManager.cpp:57).
LostClientsCleared ==
  \A c \in Connections :
    (client[c] = "vanished" /\ handler[c] = "receiving") ~>
      IdOf[c] \notin DOMAIN m_activeFlights
=============================================================================
