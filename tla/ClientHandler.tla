----------------------------- MODULE ClientHandler -----------------------------
(***************************************************************************)
(* The server's thread for one connection (src/server/ClientHandler.cpp)   *)
(* with its PacketReceiver (src/server/PacketReceiver.cpp).                *)
(*                                                                         *)
(* A handler is between two blocking points of its thread: recv, and the   *)
(* session manager's mutex.  What it does between them touches only its    *)
(* own locals and belongs to the action that ends at the next such point.  *)
(* m_buffer holds the units taken[c] + 1 to received[c] of the stream.     *)
(***************************************************************************)
EXTENDS AircraftSessionManager, ClientSession

CONSTANTS
  IdOf,           \* the aircraft id each client puts into its packets
  Malformed,      \* a line Packet::Deserialize refuses, as it does its first parts
  Blank,          \* an empty line
  NoAircraft,     \* the empty aircraftId of a handler that has seen no record
  NoStatistics    \* finalStatistics before CompleteFlight has filled it

ASSUME HandlerAssumption ==
  /\ IdOf \in [Connections -> AircraftIds]
  /\ NoAircraft \notin AircraftIds
  /\ {Malformed, Blank} \cap TelemetryRecord = {}
  /\ \A c \in Connections : \A i \in 1..Len(Telemetry[c]) :
       \/ Telemetry[c][i] \in {Malformed, Blank}
       \/ /\ Telemetry[c][i] \in TelemetryRecord
          /\ Telemetry[c][i].AircraftId = IdOf[c]

VARIABLES
  taken,             \* units of the stream consumed as lines
  handler,           \* where each connection's thread is
  aircraftId,        \* ClientHandler::Run's aircraftId
  processedPackets,  \* its count of accepted records
  crashed,           \* receiveError is not empty
  outcome,           \* what CompleteFlight returned
  finalStatistics    \* and what it filled in

handlerVars == <<taken, handler, aircraftId, processedPackets, crashed, outcome,
                 finalStatistics>>

\* receiving: in the loop; completing: out of it, not yet in CompleteFlight;
\* closing: past CompleteFlight; closed: Run has returned.
HandlerStates == {"none", "receiving", "completing", "closing", "closed"}

HandlerInit ==
  /\ taken = [c \in Connections |-> 0]
  /\ handler = [c \in Connections |-> "none"]
  /\ aircraftId = [c \in Connections |-> NoAircraft]
  /\ processedPackets = [c \in Connections |-> 0]
  /\ crashed = [c \in Connections |-> FALSE]
  /\ outcome = [c \in Connections |-> "none"]
  /\ finalStatistics = [c \in Connections |-> NoStatistics]

-----------------------------------------------------------------------------
(* PacketReceiver::ReceiveNextLine                                         *)

\* There is a newline in m_buffer.
HasLine(c) == taken[c] < (received[c] \div LineLength) * LineLength

CurrentLine(c) == Telemetry[c][(taken[c] \div LineLength) + 1]

\* Wrong variants of the next definition: one character too many is erased, and
\* the whole of m_buffer is.
TakeLineAndMore(c) ==
  taken' = [taken EXCEPT ![c] = ((@ \div LineLength) + 1) * LineLength + 1]

TakeAll(c) == taken' = [taken EXCEPT ![c] = received[c]]

\* The line up to the newline is cut off the front of m_buffer.
TakeLine(c) ==
  taken' = [taken EXCEPT ![c] = ((@ \div LineLength) + 1) * LineLength]

\* recv returns data: any part of what is under way.
Receive(c) ==
  /\ handler[c] = "receiving" /\ ~HasLine(c)
  /\ received[c] < sent[c]
  /\ \E total \in (received[c] + 1)..sent[c] :
       received' = [received EXCEPT ![c] = total]
  /\ UNCHANGED <<client, link, sent>>
  /\ UNCHANGED handlerVars
  /\ UNCHANGED sessionVars

\* A wrong variant of the next definition: an error of recv passes for the end of
\* the stream.
AtEofOrError(c) ==
  /\ handler[c] = "receiving" /\ ~HasLine(c)
  /\ link[c] \in {"fin", "reset"} /\ received[c] = sent[c]

\* recv returns 0: the client has shut down and everything has arrived.
AtEof(c) ==
  /\ handler[c] = "receiving" /\ ~HasLine(c)
  /\ link[c] = "fin" /\ received[c] = sent[c]

\* What is left in m_buffer at the end of the stream is returned as a line.
Remainder(c) == AtEof(c) /\ taken[c] < received[c]

TakeRemainder(c) == taken' = [taken EXCEPT ![c] = received[c]]

\* What Packet::Deserialize makes of the first part of a line: it refuses it
\* when the cut is before the fuel quantity, and otherwise reads the digits
\* there are: a quantity between zero and the one that was sent.
CutLines(line) ==
  IF line \in {Malformed, Blank} THEN {line}
  ELSE {Malformed} \cup
       {[line EXCEPT !.FuelQuantity = fuel] :
          fuel \in {f \in FuelQuantities : \/ 0 <= f /\ f <= line.FuelQuantity
                                           \/ line.FuelQuantity <= f /\ f <= 0}}

-----------------------------------------------------------------------------
(* ClientHandler::Run                                                      *)

\* The loop body for a line that is empty or that does not parse.
Discard(c, line) ==
  /\ line \in {Malformed, Blank}
  /\ UNCHANGED <<handler, aircraftId, processedPackets, crashed, outcome,
                 finalStatistics>>
  /\ UNCHANGED sessionVars

\* The loop body for a record: the first one names the session's aircraft.
Accept(c, line) ==
  /\ line \notin {Malformed, Blank}
  /\ aircraftId' = [aircraftId EXCEPT ![c] = IF @ = NoAircraft THEN line.AircraftId ELSE @]
  /\ AcceptRecord(line)
  /\ processedPackets' = [processedPackets EXCEPT ![c] = @ + 1]
  /\ UNCHANGED <<handler, crashed, outcome, finalStatistics>>

HandleLine(c) ==
  /\ handler[c] = "receiving" /\ HasLine(c)
  /\ TakeLine(c)
  /\ UNCHANGED clientVars
  /\ Discard(c, CurrentLine(c)) \/ Accept(c, CurrentLine(c))

HandleRemainder(c) ==
  /\ Remainder(c)
  /\ TakeRemainder(c)
  /\ UNCHANGED clientVars
  /\ \E line \in CutLines(CurrentLine(c)) : Discard(c, line) \/ Accept(c, line)

\* Wrong variants of the next definition: after an error the flight is not
\* completed, is dropped before it is completed, or the loop goes on.
LeaveLoopAbandoning(c) ==
  /\ \/ AtEof(c) /\ ~Remainder(c)
     \/ handler[c] = "receiving" /\ ~HasLine(c) /\ link[c] = "reset"
  /\ crashed' = [crashed EXCEPT ![c] = link[c] = "reset"]
  /\ handler' = [handler EXCEPT ![c] = IF link[c] = "reset" THEN "closing" ELSE "completing"]
  /\ UNCHANGED <<taken, aircraftId, processedPackets, outcome, finalStatistics>>
  /\ UNCHANGED sessionVars
  /\ UNCHANGED clientVars

LeaveLoopDropping(c) ==
  /\ handler[c] = "receiving" /\ ~HasLine(c) /\ link[c] = "reset"
  /\ LostConnectionFlight(aircraftId[c])
  /\ crashed' = [crashed EXCEPT ![c] = TRUE]
  /\ handler' = [handler EXCEPT ![c] = "completing"]
  /\ UNCHANGED <<taken, aircraftId, processedPackets, outcome, finalStatistics>>
  /\ UNCHANGED clientVars

LeaveLoopAtEofOnly(c) ==
  /\ AtEof(c) /\ ~Remainder(c)
  /\ handler' = [handler EXCEPT ![c] = "completing"]
  /\ UNCHANGED <<taken, aircraftId, processedPackets, crashed, outcome, finalStatistics>>
  /\ UNCHANGED sessionVars
  /\ UNCHANGED clientVars

\* ReceiveNextLine returns false: end of the stream, or an error of recv. In
\* the second case what is in flight or in m_buffer is lost.
LeaveLoop(c) ==
  /\ \/ AtEof(c) /\ ~Remainder(c)
     \/ handler[c] = "receiving" /\ ~HasLine(c) /\ link[c] = "reset"
  /\ crashed' = [crashed EXCEPT ![c] = link[c] = "reset"]
  /\ handler' = [handler EXCEPT ![c] = "completing"]
  /\ UNCHANGED <<taken, aircraftId, processedPackets, outcome, finalStatistics>>
  /\ UNCHANGED sessionVars
  /\ UNCHANGED clientVars

\* CompleteFlight returns true. Its row may not have reached the file.
SaveFlight(c) ==
  /\ handler[c] = "completing" /\ aircraftId[c] # NoAircraft
  /\ aircraftId[c] \in DOMAIN m_activeFlights
  /\ \E persisted \in {TRUE, "disk" \notin Faults} :
       CompleteFlight(aircraftId[c], crashed[c], persisted)
  /\ finalStatistics' =
       [finalStatistics EXCEPT ![c] = ClosedFlight(aircraftId[c], crashed[c])]
  /\ outcome' = [outcome EXCEPT ![c] = "saved"]
  /\ handler' = [handler EXCEPT ![c] = "closing"]
  /\ UNCHANGED <<taken, aircraftId, processedPackets, crashed>>
  /\ UNCHANGED clientVars

\* CompleteFlight returns false: "Failed to finalize flight".
FailToSave(c) ==
  /\ handler[c] = "completing" /\ aircraftId[c] # NoAircraft
  /\ NoSuchFlight(aircraftId[c])
  /\ outcome' = [outcome EXCEPT ![c] = "failed"]
  /\ handler' = [handler EXCEPT ![c] = "closing"]
  /\ UNCHANGED <<taken, aircraftId, processedPackets, crashed, finalStatistics>>
  /\ UNCHANGED clientVars

\* No record was ever accepted: there is no flight to complete.
NothingToSave(c) ==
  /\ handler[c] = "completing" /\ aircraftId[c] = NoAircraft
  /\ handler' = [handler EXCEPT ![c] = "closing"]
  /\ UNCHANGED <<taken, aircraftId, processedPackets, crashed, outcome,
                 finalStatistics>>
  /\ UNCHANGED sessionVars
  /\ UNCHANGED clientVars

\* ShutdownSocket, CloseSocket, return. A peer that has been told of a broken
\* connection keeps knowing it.
CloseConnection(c) ==
  /\ handler[c] = "closing"
  /\ handler' = [handler EXCEPT ![c] = "closed"]
  /\ link' = [link EXCEPT ![c] = IF @ = "reset" THEN @ ELSE "none"]
  /\ UNCHANGED <<client, sent, received>>
  /\ UNCHANGED <<taken, aircraftId, processedPackets, crashed, outcome,
                 finalStatistics>>
  /\ UNCHANGED sessionVars

HandlerStep(c) ==
  \/ Receive(c) \/ HandleLine(c) \/ HandleRemainder(c) \/ LeaveLoop(c)
  \/ SaveFlight(c) \/ FailToSave(c) \/ NothingToSave(c) \/ CloseConnection(c)
=============================================================================
