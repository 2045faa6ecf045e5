---------------------------- MODULE TelemetryParser ----------------------------
(***************************************************************************)
(* From the text of a telemetry file to the packets a client sends         *)
(* (src/client/TelemetryReader.cpp, TelemetryParser.cpp, PacketBuilder.cpp *)
(* and the loop of ClientApp::Run), and back on the server.                *)
(***************************************************************************)
EXTENDS Packet
LOCAL INSTANCE SequencesExt

\* The words "FUEL TOTAL QUANTITY".
HeaderText == "FUEL TOTAL QUANTITY"

\* Wrong variant of WithoutHeader: the comma stays.
WithoutHeaderWords(text) ==
  LET header == FindOneOf(text, {HeaderText}, 0)
      comma  == FindOneOf(text, {Comma}, header)
  IN  IF header = 0 THEN text
      ELSE IF comma = 0 THEN <<>> ELSE Trim(Rest(text, comma - 1))

\* The line without a header and what stands before it, or nothing when no
\* comma follows the header.
WithoutHeader(text) ==
  LET header == FindOneOf(text, {HeaderText}, 0)
      comma  == FindOneOf(text, {Comma}, header)
  IN  IF header = 0 THEN text
      ELSE IF comma = 0 THEN <<>> ELSE Trim(Rest(text, comma))

\* ParseLine: the record of a line, or none.  A quantity that is no number is
\* not less than zero.
ParseLine(line, aircraftId) ==
  LET fields == Split(WithoutHeader(Trim(line)), Comma)
  IN  IF Len(fields) < 2
        THEN {}
        ELSE {record \in [AircraftId : {aircraftId}, Timestamp : {Trim(fields[1])},
                          FuelQuantity : Stod(Trim(fields[2]))] :
                /\ record.Timestamp # <<>>
                /\ record.FuelQuantity = NaN \/ record.FuelQuantity >= 0}

\* ReadNextLine until the end of the file.
Lines(file) == Split(file, Newline)

\* What a client sends of a file: for each line in order its record, or none
\* when the line is skipped.
Replay(file, aircraftId) ==
  [i \in DOMAIN Lines(file) |-> ParseLine(Lines(file)[i], aircraftId)]

-----------------------------------------------------------------------------
(* Properties of a file and of the lines in it                             *)

\* The record as a packet can carry it.
AsSent(record) == [record EXCEPT !.FuelQuantity = Rounded(record.FuelQuantity)]

\* What the client read is what the server reads, up to the decimals of the
\* packet: every record that ParseLine accepts, with whatever blanks, header,
\* further fields or garbage after its number, survives Serialize and
\* Deserialize.  (An aircraft id with a comma or blanks around it does not.)
RoundTrip(file, aircraftId) ==
  \A i \in DOMAIN Lines(file) : \A record \in Replay(file, aircraftId)[i] :
    Deserialize(Serialize(record)) = {AsSent(record)}

\* The first part of a packet is refused, or it is the same report with less
\* fuel, never more and never less than none: what ClientHandler.tla assumes of
\* a line that was cut (CutLines).
CutIsRefusedOrSmaller(file, aircraftId) ==
  \A i \in DOMAIN Lines(file) : \A record \in Replay(file, aircraftId)[i] :
    LET packet == Serialize(record)
    IN  \A n \in 0..(Len(packet) - 1) :
          \A cut \in Deserialize(SubSeq(packet, 1, n)) :
            /\ cut.AircraftId = record.AircraftId
            /\ cut.Timestamp = record.Timestamp
            /\ record.FuelQuantity # NaN /\ cut.FuelQuantity # NaN
            /\ cut.FuelQuantity \in 0..Rounded(record.FuelQuantity)

\* A line reports the same with a header before it, with a trailing comma, with
\* both, and with blanks around it, as the lines of the telemetry files have them.
DecorationIgnored(line, aircraftId) ==
  HeaderText \notin ToSet(line) =>
    \A before \in {<<Space>>, <<Space, HeaderText, Comma, Space>>},
       after \in {<<Space>>, <<Comma, Space>>} :
      ParseLine(before \o line \o after, aircraftId) = ParseLine(line, aircraftId)
=============================================================================
