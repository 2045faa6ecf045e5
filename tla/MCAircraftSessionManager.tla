---------------------- MODULE MCAircraftSessionManager ----------------------
(* Aircraft A reports two records and B one, in any order and number:       *)
(* flights of up to two samples, several per aircraft, rows that reach the  *)
(* file or do not, and restarts in between. A flight of A ends in order, one *)
(* of B by a broken connection.                                             *)
EXTENDS AircraftSessionManager

CONSTANTS t1, t2

MCTimestamps == {t1, t2}
MCTimeOf == [t \in {t1, t2} |-> IF t = t1 THEN 10 ELSE 12]

\* The records the callers report.
Reports ==
  [AircraftId : {"A"}, Timestamp : {t1}, FuelQuantity : {5}]
    \cup [AircraftId : {"A", "B"}, Timestamp : {t2}, FuelQuantity : {3}]

CONSTANTS
  MaxSamples,   \* bound on the samples of one flight
  MaxFlights,   \* bound on the flights of one aircraft closed in one run
  MaxLines      \* bound on the lines of the file

\* Another sample of this aircraft is within the bound.
RoomFor(id) ==
  id \in DOMAIN m_activeFlights => m_activeFlights[id].SampleCount < MaxSamples

MCNext ==
  \/ Construct
  \/ \E record \in Reports : RoomFor(record.AircraftId) /\ AcceptRecord(record)
  \/ \E id \in AircraftIds, persisted \in BOOLEAN :
       /\ HistoryOf(id).FlightCount < MaxFlights
       /\ Len(statsFile) < MaxLines
       /\ CompleteFlight(id, id = "B", persisted)
  \/ \E id \in AircraftIds : NoSuchFlight(id) \/ LostConnectionFlight(id)

MCSpec == SessionInit /\ [][MCNext]_sessionVars
=============================================================================
