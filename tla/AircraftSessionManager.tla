------------------------ MODULE AircraftSessionManager ------------------------
(***************************************************************************)
(* The shared session manager of the server                                *)
(* (src/server/AircraftSessionManager.{h,cpp}).  Every public operation    *)
(* holds m_mutex from its first statement to its return and the state is   *)
(* touched nowhere else, so each operation is one action.                  *)
(***************************************************************************)
EXTENDS TelemetryProcessor, StatisticsStore

VARIABLES
  m_aircraftHistory,  \* aircraft id -> FlightHistory, over this server run
  rowsBefore          \* history variable: lines of the file when this run began

sessionVars == <<m_activeFlights, audit, statsFile, m_aircraftHistory, rowsBefore>>

-----------------------------------------------------------------------------
(* Data                                                                    *)

FlightHistory ==
  [FlightCount : Nat, CumulativeFuelConsumed : Int, CumulativeTotalSeconds : Int,
   OverallAverageRate : Rate]

NoFlightsYet ==
  [FlightCount |-> 0, CumulativeFuelConsumed |-> 0, CumulativeTotalSeconds |-> 0,
   OverallAverageRate |-> ZeroRate]

\* One FlightStatistics as CompleteFlight returns and persists it.
OutStatistics ==
  [AircraftId : AircraftIds, Flight : FinalStatistics, History : FlightHistory]

\* The header of the file does not look like a row.
ASSUME HeaderAssumption == Header \notin OutStatistics

\* m_aircraftHistory[id], default constructed when absent.
HistoryOf(id) ==
  IF id \in DOMAIN m_aircraftHistory THEN m_aircraftHistory[id] ELSE NoFlightsYet

\* A wrong variant of the next definition: the last flight's figures in place of
\* the sums.
ExtendedByReplacing(history, flight) ==
  [FlightCount            |-> history.FlightCount + 1,
   CumulativeFuelConsumed |-> flight.FuelConsumed,
   CumulativeTotalSeconds |-> flight.TotalFlightSeconds,
   OverallAverageRate     |-> history.OverallAverageRate]

\* A wrong variant of the next definition: a flight that took no time is divided
\* by it.
ExtendedUnguarded(history, flight) ==
  LET fuel    == history.CumulativeFuelConsumed + flight.FuelConsumed
      seconds == history.CumulativeTotalSeconds + flight.TotalFlightSeconds
  IN  [FlightCount            |-> history.FlightCount + 1,
       CumulativeFuelConsumed |-> fuel,
       CumulativeTotalSeconds |-> seconds,
       OverallAverageRate     |-> <<fuel, seconds>>]

\* The history after one more flight.
Extended(history, flight) ==
  LET fuel    == history.CumulativeFuelConsumed + flight.FuelConsumed
      seconds == history.CumulativeTotalSeconds + flight.TotalFlightSeconds
  IN  [FlightCount            |-> history.FlightCount + 1,
       CumulativeFuelConsumed |-> fuel,
       CumulativeTotalSeconds |-> seconds,
       OverallAverageRate     |-> IF seconds > 0 THEN <<fuel, seconds>>
                                                 ELSE history.OverallAverageRate]

\* What CompleteFlight puts into its out parameter.
ClosedFlight(id, crashed) ==
  LET flight == Finalized(m_activeFlights[id], crashed)
  IN  [AircraftId |-> id, Flight |-> flight,
       History |-> Extended(HistoryOf(id), flight)]

-----------------------------------------------------------------------------
(* Operations                                                              *)

\* The constructor, on a server start: empty maps, the file as it was found.
Construct ==
  /\ m_activeFlights' = [id \in {} |-> 0]
  /\ audit' = [id \in {} |-> 0]
  /\ m_aircraftHistory' = [id \in {} |-> 0]
  /\ rowsBefore' = Len(statsFile)
  /\ UNCHANGED statsFile

AcceptRecord(record) ==
  /\ Process(record)
  /\ Observe(record)
  /\ UNCHANGED <<statsFile, m_aircraftHistory, rowsBefore>>

\* A wrong variant of the next definition: a flight whose row does not reach the
\* file stays in progress, to be closed once more.
CompleteFlightKeeping(id, crashed, persisted) ==
  /\ id \in DOMAIN m_activeFlights
  /\ m_aircraftHistory' = Put(m_aircraftHistory, id, ClosedFlight(id, crashed).History)
  /\ IF persisted
       THEN FinalizeFlight(id) /\ Forget(id) /\ AppendFlightCsv(ClosedFlight(id, crashed))
       ELSE AppendLost /\ UNCHANGED processorVars
  /\ UNCHANGED rowsBefore

\* The flight is closed whether or not its row reaches the file.
CompleteFlight(id, crashed, persisted) ==
  /\ FinalizeFlight(id)
  /\ Forget(id)
  /\ m_aircraftHistory' = Put(m_aircraftHistory, id, ClosedFlight(id, crashed).History)
  /\ IF persisted THEN AppendFlightCsv(ClosedFlight(id, crashed)) ELSE AppendLost
  /\ UNCHANGED rowsBefore

\* There is no such flight: CompleteFlight returns false and changes nothing.
NoSuchFlight(id) ==
  /\ id \notin DOMAIN m_activeFlights
  /\ UNCHANGED sessionVars

\* Drops the flight without a trace. Nothing in the server calls it.
LostConnectionFlight(id) ==
  /\ FinalizeFlight(id)
  /\ Forget(id)
  /\ UNCHANGED <<statsFile, m_aircraftHistory, rowsBefore>>

-----------------------------------------------------------------------------
(* The manager under any caller                                            *)

SessionInit ==
  /\ ProcessorInit
  /\ StoreInit
  /\ m_aircraftHistory = [id \in {} |-> 0]
  /\ rowsBefore = 0

SessionNext ==
  \/ Construct
  \/ \E record \in TelemetryRecord : AcceptRecord(record)
  \/ \E id \in AircraftIds, crashed, persisted \in BOOLEAN :
       CompleteFlight(id, crashed, persisted)
  \/ \E id \in AircraftIds : LostConnectionFlight(id)

SessionSpec == SessionInit /\ [][SessionNext]_sessionVars

-----------------------------------------------------------------------------
(* Properties                                                              *)

SessionTypeOK ==
  /\ ProcessorTypeOK
  /\ statsFile \in Seq(OutStatistics \cup {Header})
  /\ IsMapOf(m_aircraftHistory, AircraftIds, FlightHistory)
  /\ rowsBefore \in 0..Len(statsFile)

\* The rows written in this run.
RunRows == {i \in RowIndices : rowsBefore < i}

\* Two rows of one aircraft: the later one has the higher flight count, and the
\* cumulative figures grew by at least its own, by exactly that when the counts
\* are consecutive.
Continues(later, earlier) ==
  LET fuel    == later.History.CumulativeFuelConsumed - earlier.History.CumulativeFuelConsumed
      seconds == later.History.CumulativeTotalSeconds - earlier.History.CumulativeTotalSeconds
  IN  /\ earlier.History.FlightCount < later.History.FlightCount
      /\ fuel >= later.Flight.FuelConsumed
      /\ seconds >= later.Flight.TotalFlightSeconds
      /\ later.History.FlightCount = earlier.History.FlightCount + 1 =>
           /\ fuel = later.Flight.FuelConsumed
           /\ seconds = later.Flight.TotalFlightSeconds

\* A row written earlier in the run is not ahead of the history in memory.
Covers(history, row) ==
  /\ row.FlightCount <= history.FlightCount
  /\ row.CumulativeFuelConsumed <= history.CumulativeFuelConsumed
  /\ row.CumulativeTotalSeconds <= history.CumulativeTotalSeconds
  /\ row.FlightCount = history.FlightCount => row = history

\* The rows one run writes for an aircraft add up, over flights of several
\* aircraft in any order: a gap in the flight counts is a flight whose row was
\* lost, and its figures are in the cumulative ones all the same.
RowsAddUp ==
  /\ \A i, j \in RunRows :
       (i < j /\ statsFile[i].AircraftId = statsFile[j].AircraftId) =>
         Continues(statsFile[j], statsFile[i])
  /\ \A i \in RunRows : Covers(HistoryOf(statsFile[i].AircraftId), statsFile[i].History)

\* Completed flights already in the file are never overwritten or removed, by
\* any operation or restart (README: "End-of-flight CSV persistence without
\* overwriting prior completed flights").
NeverOverwritten ==
  [][/\ Len(statsFile) <= Len(statsFile')
     /\ \A i \in 1..Len(statsFile) : statsFile'[i] = statsFile[i]]_sessionVars

\* "total fuel across all flights (of same plane)" (FlightStatistics.h:26): the
\* cumulative figure of a row is at least the sum of the flights the file has
\* for that aircraft.  The history behind it does not survive a restart.
CumulativeOverAllFlights ==
  \A i \in RowIndices :
    LET id   == statsFile[i].AircraftId
        rows == {j \in RowIndices : j <= i /\ statsFile[j].AircraftId = id}
    IN  SumFunctionOnSet([j \in rows |-> statsFile[j].Flight.FuelConsumed], rows)
          <= statsFile[i].History.CumulativeFuelConsumed
-----------------------------------------------------------------------------
(* The ledger the manager implements                                       *)

LedgerFlight(id) ==
  IF id \in DOMAIN m_activeFlights
    THEN [samples   |-> m_activeFlights[id].SampleCount,
          startFuel |-> m_activeFlights[id].StartFuel,
          endFuel   |-> m_activeFlights[id].EndFuel,
          burned    |-> audit[id].burned]
    ELSE [samples |-> 0, startFuel |-> 0, endFuel |-> 0, burned |-> 0]

LedgerTotals(history) ==
  [number   |-> history.FlightCount,
   consumed |-> history.CumulativeFuelConsumed,
   seconds  |-> history.CumulativeTotalSeconds]

LedgerRow(stats) ==
  [aircraft  |-> stats.AircraftId,
   samples   |-> stats.Flight.SampleCount,
   startFuel |-> stats.Flight.StartFuel,
   endFuel   |-> stats.Flight.EndFuel,
   consumed  |-> stats.Flight.FuelConsumed,
   totals    |-> LedgerTotals(stats.History)]

LedgerFlights == [id \in AircraftIds |-> LedgerFlight(id)]

LedgerAllTotals == [id \in AircraftIds |-> LedgerTotals(HistoryOf(id))]

\* The lines after the header.
LedgerRows == [i \in 1..(Len(statsFile) - 1) |-> LedgerRow(statsFile[i + 1])]

Ledger == INSTANCE FlightLedger
            WITH flights <- LedgerFlights, totals <- LedgerAllTotals, rows <- LedgerRows

\* Seen by its callers, the manager is the ledger: the maps whose entries come
\* and go, the sums kept from sample to sample, the file that is opened for every
\* row and the restarts neither lose nor invent a flight, a total or a row, and
\* a flight is closed with a consumption between its net drop and what it burned.
ImplementsLedger == Ledger!Spec
=============================================================================
