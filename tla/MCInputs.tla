------------------------------- MODULE MCInputs -------------------------------
(* What the program makes of its inputs, in the parts that work through them *)
(* one after the other: the text of a telemetry file, the members of a       *)
(* configuration file, and the samples of one aircraft.  A behaviour writes  *)
(* one of the two files token by token or member by member, or reports       *)
(* samples; the parts have no state in common, so they are not mixed.        *)
EXTENDS TelemetryProcessor, TelemetryParser, Config

CONSTANTS t1, t2, t3, garbled

\* Three timestamps and one that does not parse.
MCTimestamps == {t1, t2, t3, garbled}
MCTimeOf == [t \in {t1, t2, t3} |-> IF t = t1 THEN 10 ELSE IF t = t2 THEN 11 ELSE 13]

CONSTANTS
  MaxSamples,   \* bound on the samples of one flight
  MaxTokens,    \* bound on the length of a telemetry file
  MaxMembers    \* bound on the members of a configuration file

VARIABLES
  file,     \* the text of a telemetry file
  members   \* the members of a configuration file

files == <<file, members>>

\* What a telemetry file is made of: separators, a word, two digits of which
\* one lies half way when it is rounded, and what stod reads beside digits.
FileTokens == {Comma, Space, Newline, "w", "7", "5", Minus, Dot, "nan", HeaderText}

\* Texts with the characters the reading looks for, and with a key in them.
MCValues ==
  [kind : {"text"}, text : {<<>>, <<"x", Colon, Comma, CloseBrace>>, <<"7">>, <<"max_clients">>}]
    \cup [kind : {"number"}, text : {<<"7", "0">>, <<Minus, "7">>}]

Write(token) ==
  /\ DOMAIN m_activeFlights = {} /\ members = <<>> /\ Len(file) < MaxTokens
  /\ file' = Append(file, token)
  /\ UNCHANGED <<members, processorVars>>

Configure(key, value) ==
  /\ DOMAIN m_activeFlights = {} /\ file = <<>> /\ Len(members) < MaxMembers
  /\ members' = Append(members, [key |-> key, value |-> value])
  /\ UNCHANGED <<file, processorVars>>

\* Another sample of this aircraft is within the bound.
RoomFor(id) ==
  id \in DOMAIN m_activeFlights => m_activeFlights[id].SampleCount < MaxSamples

Sample ==
  /\ file = <<>> /\ members = <<>>
  /\ \/ \E record \in TelemetryRecord :
          RoomFor(record.AircraftId) /\ ProcessRecord(record)
     \/ \E id \in AircraftIds : EndFlight(id)
  /\ UNCHANGED files

MCInit == ProcessorInit /\ file = <<>> /\ members = <<>>

MCNext ==
  \/ \E token \in FileTokens : Write(token)
  \/ \E key \in StringKeys \cup IntKeys, value \in MCValues : Configure(key, value)
  \/ Sample

MCSpec == MCInit /\ [][MCNext]_<<files, processorVars>>

-----------------------------------------------------------------------------
(* The properties of the texts, for the texts of this run                  *)

\* RoundTrip of the records in the file.
RecordsReadBack == RoundTrip(file, <<"w">>)

\* CutIsRefusedOrSmaller of the packets sent for the file.
CutPacketsHarmless == CutIsRefusedOrSmaller(file, <<"w">>)

\* DecorationIgnored for every line of the file.
LinesReadAlike ==
  \A i \in DOMAIN Lines(file) : DecorationIgnored(Lines(file)[i], <<"w">>)

\* ConfigReadsBack of the configuration file.
SettingsReadBack == ConfigReadsBack(members)
=============================================================================
