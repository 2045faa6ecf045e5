-------------------- MODULE AircraftSessionManager_proofs --------------------
(***************************************************************************)
(* Proofs about the session manager under any caller.  The accounting of   *)
(* flights is carried over from TelemetryProcessor_proofs; what is added   *)
(* is the file of rows and the history of each aircraft, and that the      *)
(* manager implements FlightLedger.                                        *)
(***************************************************************************)
EXTENDS AircraftSessionManager, TelemetryProcessor_proofs

\* RowsAddUp is inductive as it stands: its last part says that the history in
\* memory is what the next row will be added to.  What a closing flight adds is
\* not negative because the flight is accounted.
SessionInv ==
  /\ ProcessorInv
  /\ SessionTypeOK
  /\ OneHeader
  /\ RowsAddUp

-----------------------------------------------------------------------------
(* Lemmas on the operators                                                 *)

\* A closed flight is well formed and consumed nothing negative in fuel or time.
LEMMA FinalizedType ==
  ASSUME NEW flight \in FlightState, NEW a \in FlightAudit, Accounted(flight, a),
         NEW crashed \in BOOLEAN
  PROVE  /\ Finalized(flight, crashed) \in FinalStatistics
         /\ Finalized(flight, crashed).FuelConsumed \in Nat
         /\ Finalized(flight, crashed).TotalFlightSeconds \in Nat
<1> DEFINE consumed == Larger(flight.FuelConsumed,
                              Larger(0, flight.StartFuel - flight.EndFuel))
<1>1. /\ flight.StartFuel \in Int /\ flight.EndFuel \in Int
      /\ flight.FuelConsumed \in Int /\ flight.TotalFlightSeconds \in Int
      /\ 0 <= flight.FuelConsumed /\ 0 <= flight.TotalFlightSeconds
  BY ProcessorAssumption DEF FlightState, Accounted
<1>2. consumed \in Nat
  BY <1>1 DEF Larger
<1>3. /\ Finalized(flight, crashed).FuelConsumed = consumed
      /\ Finalized(flight, crashed).TotalFlightSeconds = flight.TotalFlightSeconds
  BY DEF Finalized
<1>4. Finalized(flight, crashed) \in FinalStatistics
  <2> HIDE DEF consumed
  <2>1. (IF flight.TotalFlightSeconds > 0
           THEN <<consumed, flight.TotalFlightSeconds>> ELSE flight.AverageRate) \in Rate
    BY <1>1, <1>2 DEF FlightState, Rate
  <2>2. crashed = TRUE \/ crashed = FALSE
    OBVIOUS
  <2> QED  BY <1>1, <1>2, <2>1, <2>2 DEF Finalized, FinalStatistics, FlightState, consumed
<1> QED  BY <1>1, <1>2, <1>3, <1>4

\* One more flight raises the count by one and the sums by what it adds.
LEMMA ExtendedType ==
  ASSUME NEW history \in FlightHistory, NEW flight,
         flight.FuelConsumed \in Int, flight.TotalFlightSeconds \in Int
  PROVE  LET new == Extended(history, flight)
         IN  /\ new \in FlightHistory
             /\ new.FlightCount = history.FlightCount + 1
             /\ new.CumulativeFuelConsumed
                  = history.CumulativeFuelConsumed + flight.FuelConsumed
             /\ new.CumulativeTotalSeconds
                  = history.CumulativeTotalSeconds + flight.TotalFlightSeconds
<1> DEFINE fuel    == history.CumulativeFuelConsumed + flight.FuelConsumed
           seconds == history.CumulativeTotalSeconds + flight.TotalFlightSeconds
<1>1. fuel \in Int /\ seconds \in Int
  BY DEF FlightHistory
<1>2. (IF seconds > 0 THEN <<fuel, seconds>> ELSE history.OverallAverageRate) \in Rate
  <2> HIDE DEF fuel, seconds
  <2> QED  BY <1>1 DEF FlightHistory, Rate
<1> QED  BY <1>1, <1>2 DEF Extended, FlightHistory

\* Appending a row leaves every line where it is, and its own is the last.
LEMMA AppendedRow ==
  ASSUME NEW stats \in OutStatistics, AppendFlightCsv(stats),
         statsFile \in Seq(OutStatistics \cup {Header}), OneHeader
  PROVE  /\ statsFile' \in Seq(OutStatistics \cup {Header})
         /\ OneHeader'
         /\ Len(statsFile') > Len(statsFile)
         /\ \A i \in 1..Len(statsFile) : statsFile'[i] = statsFile[i]
         /\ statsFile'[Len(statsFile')] = stats
         /\ RowIndices' = RowIndices \cup {Len(statsFile')}
<1>1. stats # Header
  BY HeaderAssumption
<1>2. CASE statsFile = <<>>
  <2> DEFINE T == OutStatistics \cup {Header}
  <2>1. statsFile' = <<Header>> \o <<stats>>
    BY <1>2 DEF AppendFlightCsv
  <2>2. /\ statsFile' \in Seq(T)
        /\ Len(statsFile') = 2 /\ statsFile'[1] = Header /\ statsFile'[2] = stats
        /\ Len(statsFile) = 0
    <3>1. /\ <<Header>> \in Seq(T) /\ Len(<<Header>>) = 1 /\ <<Header>>[1] = Header
          /\ <<stats>> \in Seq(T) /\ Len(<<stats>>) = 1 /\ <<stats>>[1] = stats
      OBVIOUS
    <3>2. \A s, t \in Seq(T) :
            /\ s \o t \in Seq(T)
            /\ Len(s \o t) = Len(s) + Len(t)
            /\ \A i \in 1..(Len(s) + Len(t)) :
                 (s \o t)[i] = IF i <= Len(s) THEN s[i] ELSE t[i - Len(s)]
      OBVIOUS
    <3> HIDE DEF T
    <3> QED  BY <1>2, <2>1, <3>1, <3>2
  <2>3. RowIndices' = {2} /\ RowIndices = {}
    BY <1>1, <2>2 DEF RowIndices
  <2>4. OneHeader'
    BY <2>2, <2>3 DEF OneHeader
  <2> QED  BY <2>2, <2>3, <2>4
<1>3. CASE statsFile # <<>>
  <2>1. statsFile' = Append(statsFile, stats)
    BY <1>3 DEF AppendFlightCsv
  <2>2. /\ statsFile' \in Seq(OutStatistics \cup {Header})
        /\ Len(statsFile') = Len(statsFile) + 1
        /\ statsFile'[Len(statsFile')] = stats
        /\ \A i \in 1..Len(statsFile) : statsFile'[i] = statsFile[i]
        /\ Len(statsFile) \in Nat
    BY <2>1
  <2>3. RowIndices' = RowIndices \cup {Len(statsFile')}
    BY <1>1, <2>2 DEF RowIndices
  <2>4. RowIndices = 2..Len(statsFile)
    BY <1>3 DEF OneHeader
  <2>5. Len(statsFile) # 0
    BY <1>3
  <2>6. RowIndices' = 2..Len(statsFile')
    BY <2>2, <2>3, <2>4, <2>5
  <2> QED  BY <2>2, <2>3, <2>6 DEF OneHeader
<1> QED  BY <1>2, <1>3

-----------------------------------------------------------------------------
(* CompleteFlight                                                          *)

\* What CompleteFlight does to the aircraft's history and to its own row.
LEMMA CompletedHistory ==
  ASSUME SessionInv, NEW id \in AircraftIds, NEW crashed \in BOOLEAN,
         NEW persisted \in BOOLEAN, CompleteFlight(id, crashed, persisted)
  PROVE  LET flight == Finalized(m_activeFlights[id], crashed)
             old    == HistoryOf(id)
             new    == ClosedFlight(id, crashed).History
         IN  /\ flight.FuelConsumed \in Nat /\ flight.TotalFlightSeconds \in Nat
             /\ old \in FlightHistory
             /\ new.FlightCount = old.FlightCount + 1
             /\ new.CumulativeFuelConsumed = old.CumulativeFuelConsumed + flight.FuelConsumed
             /\ new.CumulativeTotalSeconds
                  = old.CumulativeTotalSeconds + flight.TotalFlightSeconds
             /\ ClosedFlight(id, crashed) \in OutStatistics
             /\ ClosedFlight(id, crashed).AircraftId = id
             /\ ClosedFlight(id, crashed).Flight = flight
             /\ IsMapOf(m_aircraftHistory', AircraftIds, FlightHistory)
             /\ HistoryOf(id)' = new
             /\ \A i \in AircraftIds \ {id} : HistoryOf(i)' = HistoryOf(i)
<1> DEFINE flight == Finalized(m_activeFlights[id], crashed)
           new    == ClosedFlight(id, crashed).History
<1>1. /\ m_activeFlights[id] \in FlightState
      /\ audit[id] \in FlightAudit
      /\ Accounted(m_activeFlights[id], audit[id])
  BY DEF SessionInv, ProcessorInv, AllAccounted, IsMapOf, CompleteFlight, FinalizeFlight
<1>2. /\ flight \in FinalStatistics
      /\ flight.FuelConsumed \in Nat /\ flight.TotalFlightSeconds \in Nat
  BY <1>1, FinalizedType
<1>3. IsMapOf(m_aircraftHistory, AircraftIds, FlightHistory)
  BY DEF SessionInv, SessionTypeOK
<1>4. HistoryOf(id) \in FlightHistory
  <2>1. NoFlightsYet \in FlightHistory
    BY DEF NoFlightsYet, FlightHistory, ZeroRate, Rate
  <2> QED  BY <1>3, <2>1 DEF HistoryOf, IsMapOf
<1>5. /\ ClosedFlight(id, crashed).AircraftId = id
      /\ ClosedFlight(id, crashed).Flight = flight
      /\ new = Extended(HistoryOf(id), flight)
      /\ ClosedFlight(id, crashed) =
           [AircraftId |-> id, Flight |-> flight, History |-> new]
  BY DEF ClosedFlight
<1> HIDE DEF flight, new
<1>6. /\ new \in FlightHistory
      /\ new.FlightCount = HistoryOf(id).FlightCount + 1
      /\ new.CumulativeFuelConsumed
           = HistoryOf(id).CumulativeFuelConsumed + flight.FuelConsumed
      /\ new.CumulativeTotalSeconds
           = HistoryOf(id).CumulativeTotalSeconds + flight.TotalFlightSeconds
  BY <1>2, <1>4, <1>5, ExtendedType
<1>7. ClosedFlight(id, crashed) \in OutStatistics
  BY <1>2, <1>5, <1>6 DEF OutStatistics
<1>8. m_aircraftHistory' = Put(m_aircraftHistory, id, new)
  BY DEF CompleteFlight, new
<1>9. /\ IsMapOf(Put(m_aircraftHistory, id, new), AircraftIds, FlightHistory)
      /\ DOMAIN Put(m_aircraftHistory, id, new) = DOMAIN m_aircraftHistory \cup {id}
      /\ Put(m_aircraftHistory, id, new)[id] = new
      /\ \A i \in DOMAIN m_aircraftHistory \ {id} :
           Put(m_aircraftHistory, id, new)[i] = m_aircraftHistory[i]
  BY <1>3, <1>6 DEF IsMapOf, Put
<1>10. HistoryOf(id)' = new
  BY <1>8, <1>9 DEF HistoryOf
<1>11. \A i \in AircraftIds \ {id} : HistoryOf(i)' = HistoryOf(i)
  BY <1>8, <1>9 DEF HistoryOf
<1> QED  BY <1>2, <1>4, <1>5, <1>6, <1>7, <1>8, <1>9, <1>10, <1>11 DEF flight, new

\* A further flight continues every row its aircraft's history covers, and the
\* new history covers those rows and its own.
LEMMA FurtherFlight ==
  ASSUME NEW row \in OutStatistics, NEW earlier \in OutStatistics,
         NEW old \in FlightHistory,
         row.Flight.FuelConsumed \in Nat, row.Flight.TotalFlightSeconds \in Nat,
         row.History.FlightCount = old.FlightCount + 1,
         row.History.CumulativeFuelConsumed
           = old.CumulativeFuelConsumed + row.Flight.FuelConsumed,
         row.History.CumulativeTotalSeconds
           = old.CumulativeTotalSeconds + row.Flight.TotalFlightSeconds,
         Covers(old, earlier.History)
  PROVE  /\ Continues(row, earlier)
         /\ Covers(row.History, earlier.History)
<1>1. /\ earlier.History \in FlightHistory /\ row.History \in FlightHistory
  BY DEF OutStatistics
<1>2. /\ earlier.History.FlightCount \in Nat /\ old.FlightCount \in Nat
      /\ earlier.History.CumulativeFuelConsumed \in Int
      /\ earlier.History.CumulativeTotalSeconds \in Int
      /\ old.CumulativeFuelConsumed \in Int /\ old.CumulativeTotalSeconds \in Int
  BY <1>1 DEF FlightHistory
<1>3. /\ earlier.History.FlightCount <= old.FlightCount
      /\ earlier.History.CumulativeFuelConsumed <= old.CumulativeFuelConsumed
      /\ earlier.History.CumulativeTotalSeconds <= old.CumulativeTotalSeconds
      /\ earlier.History.FlightCount = old.FlightCount => earlier.History = old
  BY DEF Covers
<1>4. Continues(row, earlier)
  BY <1>2, <1>3 DEF Continues
<1>5. Covers(row.History, earlier.History)
  BY <1>2, <1>3 DEF Covers
<1> QED  BY <1>4, <1>5

\* Rows and histories still add up after CompleteFlight, row lost or not.
LEMMA CompleteFlightKeepsInv ==
  ASSUME SessionInv, NEW id \in AircraftIds, NEW crashed \in BOOLEAN,
         NEW persisted \in BOOLEAN, CompleteFlight(id, crashed, persisted)
  PROVE  SessionInv'
<1> DEFINE row == ClosedFlight(id, crashed)
           old == HistoryOf(id)
<1>1. /\ row.Flight.FuelConsumed \in Nat /\ row.Flight.TotalFlightSeconds \in Nat
      /\ old \in FlightHistory
      /\ row.History.FlightCount = old.FlightCount + 1
      /\ row.History.CumulativeFuelConsumed
           = old.CumulativeFuelConsumed + row.Flight.FuelConsumed
      /\ row.History.CumulativeTotalSeconds
           = old.CumulativeTotalSeconds + row.Flight.TotalFlightSeconds
      /\ row \in OutStatistics /\ row.AircraftId = id
      /\ IsMapOf(m_aircraftHistory', AircraftIds, FlightHistory)
      /\ HistoryOf(id)' = row.History
      /\ \A i \in AircraftIds \ {id} : HistoryOf(i)' = HistoryOf(i)
  BY CompletedHistory
<1>2. ProcessorInv'
  BY FinalizeAccounted DEF CompleteFlight, SessionInv, ProcessorInv
<1>3. /\ statsFile \in Seq(OutStatistics \cup {Header})
      /\ rowsBefore \in 0..Len(statsFile) /\ rowsBefore' = rowsBefore
      /\ OneHeader /\ RowsAddUp
  BY DEF SessionInv, SessionTypeOK, CompleteFlight
<1>4. \A i \in RowIndices : statsFile[i] \in OutStatistics /\ i \in 1..Len(statsFile)
  BY <1>3 DEF RowIndices
<1> HIDE DEF row, old
<1>5. ASSUME NEW i \in RunRows, NEW k \in AircraftIds, statsFile[i].AircraftId = k
      PROVE  Covers(HistoryOf(k)', statsFile[i].History)
  <2>1. /\ statsFile[i] \in OutStatistics
        /\ Covers(HistoryOf(k), statsFile[i].History)
    BY <1>3, <1>4, <1>5 DEF RunRows, RowsAddUp
  <2>2. CASE k = id
    BY <1>1, <2>1, <2>2, FurtherFlight DEF old
  <2>3. CASE k # id
    BY <1>1, <2>1, <2>3
  <2> QED  BY <2>2, <2>3
<1>6. CASE ~persisted
  <2>1. statsFile' = statsFile
    BY <1>6 DEF CompleteFlight, AppendLost
  <2>2. RowsAddUp'
    <3>1. RunRows' = RunRows
      BY <1>3, <2>1 DEF RunRows, RowIndices
    <3>2. ASSUME NEW i \in RunRows
          PROVE  Covers(HistoryOf(statsFile[i].AircraftId), statsFile[i].History)'
      <4>1. PICK k \in AircraftIds : statsFile[i].AircraftId = k
        BY <1>4, <3>2 DEF RunRows, OutStatistics
      <4>2. Covers(HistoryOf(k)', statsFile[i].History)
        BY <1>5, <3>2, <4>1
      <4> QED  BY <2>1, <4>1, <4>2
    <3> QED  BY <1>3, <2>1, <3>1, <3>2 DEF RowsAddUp
  <2>3. OneHeader'
    BY <1>3, <2>1 DEF OneHeader, RowIndices
  <2> QED  BY <1>1, <1>2, <1>3, <2>1, <2>2, <2>3
           DEF SessionInv, SessionTypeOK, ProcessorInv, ProcessorTypeOK, AllAccounted
<1>7. CASE persisted
  <2> DEFINE n == Len(statsFile')
  <2>1. AppendFlightCsv(row)
    BY <1>7 DEF CompleteFlight, row
  <2>2. /\ statsFile' \in Seq(OutStatistics \cup {Header})
        /\ OneHeader'
        /\ n > Len(statsFile)
        /\ \A i \in 1..Len(statsFile) : statsFile'[i] = statsFile[i]
        /\ statsFile'[n] = row
        /\ RowIndices' = RowIndices \cup {n}
    BY <1>1, <1>3, <2>1, AppendedRow
  <2>3. Len(statsFile) \in Nat /\ n \in Nat
    BY <1>3, <2>2
  <2>4. /\ RunRows' = RunRows \cup {n}
        /\ \A i \in RunRows : i \in 1..Len(statsFile) /\ statsFile'[i] = statsFile[i] /\ i < n
    BY <1>3, <1>4, <2>2, <2>3 DEF RunRows
  <2>5. ASSUME NEW i \in RunRows, statsFile[i].AircraftId = id
        PROVE  Continues(row, statsFile[i])
    <3>1. statsFile[i] \in OutStatistics /\ Covers(old, statsFile[i].History)
      BY <1>3, <1>4, <2>5 DEF RunRows, RowsAddUp, old
    <3> QED  BY <1>1, <3>1, FurtherFlight
  <2>6. \A i, j \in RunRows' :
          (i < j /\ statsFile'[i].AircraftId = statsFile'[j].AircraftId) =>
            Continues(statsFile'[j], statsFile'[i])
    <3> SUFFICES ASSUME NEW i \in RunRows', NEW j \in RunRows', i < j,
                        statsFile'[i].AircraftId = statsFile'[j].AircraftId
                 PROVE  Continues(statsFile'[j], statsFile'[i])
      OBVIOUS
    <3>1. i \in RunRows /\ statsFile'[i] = statsFile[i]
      BY <2>3, <2>4
    <3>2. CASE j = n
      BY <1>1, <2>2, <2>5, <3>1, <3>2
    <3>3. CASE j \in RunRows
      <4>1. statsFile'[j] = statsFile[j]
        BY <2>4, <3>3
      <4> QED  BY <1>3, <3>1, <3>3, <4>1 DEF RowsAddUp
    <3> QED  BY <2>4, <3>2, <3>3
  <2>7. Covers(row.History, row.History)
    <3>1. row.History \in FlightHistory
      BY <1>1 DEF OutStatistics
    <3> QED  BY <3>1 DEF Covers, FlightHistory
  <2>8. ASSUME NEW i \in RunRows'
        PROVE  Covers(HistoryOf(statsFile[i].AircraftId), statsFile[i].History)'
    <3>1. CASE i = n
      BY <1>1, <2>2, <2>7, <3>1
    <3>2. CASE i \in RunRows
      <4>1. PICK k \in AircraftIds : statsFile[i].AircraftId = k
        BY <1>4, <3>2 DEF RunRows, OutStatistics
      <4>2. Covers(HistoryOf(k)', statsFile[i].History)
        BY <1>5, <3>2, <4>1
      <4> QED  BY <2>4, <3>2, <4>1, <4>2
    <3> QED  BY <2>4, <3>1, <3>2
  <2>9. RowsAddUp'
    BY <2>6, <2>8 DEF RowsAddUp
  <2>10. SessionTypeOK'
    BY <1>1, <1>2, <1>3, <2>2, <2>3
       DEF SessionTypeOK, ProcessorInv, ProcessorTypeOK, AllAccounted
  <2> QED  BY <1>2, <2>2, <2>9, <2>10 DEF SessionInv
<1> QED  BY <1>6, <1>7

-----------------------------------------------------------------------------
(* The theorems                                                            *)

\* The manager starts without flights, histories or rows.
LEMMA SessionInitInv ==
  SessionInit => SessionInv
<1> SUFFICES ASSUME SessionInit
             PROVE  SessionInv
  OBVIOUS
<1>1. ProcessorInv
  BY NothingAccounted DEF SessionInit, ProcessorInit, ProcessorInv
<1>2. statsFile = <<>> /\ rowsBefore = 0 /\ m_aircraftHistory = [id \in {} |-> 0]
  BY DEF SessionInit, StoreInit
<1>3. /\ Len(statsFile) = 0 /\ RowIndices = {} /\ RunRows = {}
      /\ statsFile \in Seq(OutStatistics \cup {Header})
  BY <1>2 DEF RowIndices, RunRows
<1>4. SessionTypeOK
  BY <1>1, <1>2, <1>3
     DEF SessionTypeOK, ProcessorInv, ProcessorTypeOK, AllAccounted, IsMapOf
<1> QED  BY <1>1, <1>2, <1>3, <1>4 DEF SessionInv, OneHeader, RowsAddUp

\* Steps that leave the file and the histories alone.
LEMMA FileUntouched ==
  ASSUME SessionInv, ProcessorInv', UNCHANGED <<statsFile, m_aircraftHistory, rowsBefore>>
  PROVE  SessionInv'
<1>1. SessionTypeOK' /\ OneHeader'
  BY DEF SessionInv, SessionTypeOK, ProcessorInv, ProcessorTypeOK, AllAccounted, IsMapOf,
         OneHeader, RowIndices
<1>2. RowsAddUp'
  BY DEF SessionInv, RowsAddUp, RunRows, RowIndices, HistoryOf
<1> QED  BY <1>1, <1>2 DEF SessionInv

\* A restart starts a run without rows.
LEMMA ConstructKeepsInv ==
  ASSUME SessionInv, Construct
  PROVE  SessionInv'
<1>1. ProcessorInv'
  BY NothingAccounted DEF Construct, ProcessorInv
<1>2. /\ statsFile \in Seq(OutStatistics \cup {Header}) /\ OneHeader
      /\ statsFile' = statsFile
      /\ rowsBefore' = Len(statsFile) /\ Len(statsFile) \in Nat
      /\ m_aircraftHistory' = [id \in {} |-> 0]
  BY DEF SessionInv, SessionTypeOK, Construct
<1>3. RunRows' = {}
  BY <1>2 DEF RunRows, RowIndices
<1>4. SessionTypeOK'
  BY <1>1, <1>2 DEF SessionTypeOK, ProcessorInv, ProcessorTypeOK, AllAccounted, IsMapOf
<1>5. OneHeader' /\ RowsAddUp'
  BY <1>2, <1>3 DEF OneHeader, RowIndices, RowsAddUp
<1> QED  BY <1>1, <1>4, <1>5 DEF SessionInv

\* Every operation of the manager keeps the invariant.
LEMMA SessionStepInv ==
  ASSUME SessionInv, [SessionNext]_sessionVars
  PROVE  SessionInv'
<1>1. CASE Construct
  BY <1>1, ConstructKeepsInv
<1>2. ASSUME NEW record \in TelemetryRecord, AcceptRecord(record)
      PROVE  SessionInv'
  <2>1. ProcessorInv'
    BY <1>2, ProcessAccounted DEF AcceptRecord, SessionInv, ProcessorInv
  <2> QED  BY <1>2, <2>1, FileUntouched DEF AcceptRecord
<1>3. ASSUME NEW id \in AircraftIds, NEW crashed \in BOOLEAN, NEW persisted \in BOOLEAN,
             CompleteFlight(id, crashed, persisted)
      PROVE  SessionInv'
  BY <1>3, CompleteFlightKeepsInv
<1>4. ASSUME NEW id \in AircraftIds, LostConnectionFlight(id)
      PROVE  SessionInv'
  <2>1. ProcessorInv'
    BY <1>4, FinalizeAccounted DEF LostConnectionFlight, SessionInv, ProcessorInv
  <2> QED  BY <1>4, <2>1, FileUntouched DEF LostConnectionFlight
<1>5. CASE UNCHANGED sessionVars
  <2>1. ProcessorInv'
    BY <1>5 DEF sessionVars, SessionInv, ProcessorInv, AllAccounted, IsMapOf
  <2> QED  BY <1>5, <2>1, FileUntouched DEF sessionVars
<1> QED  BY <1>1, <1>2, <1>3, <1>4, <1>5 DEF SessionNext

\* For any callers, any number of aircraft, flights, restarts and lost rows:
\* the manager's state is well formed, the accounting of the flights in
\* progress is right, the file has one header, and the rows of a run add up.
THEOREM SessionCorrect ==
  SessionSpec =>
    [](/\ SessionTypeOK /\ OneHeader /\ RowsAddUp
       /\ FuelWithinBounds /\ ExactWhenOrdered /\ SpanCovered)
<1>1. SessionInit => SessionInv
  BY SessionInitInv
<1>2. SessionInv /\ [SessionNext]_sessionVars => SessionInv'
  BY SessionStepInv
<1>3. SessionInv => /\ SessionTypeOK /\ OneHeader /\ RowsAddUp
                    /\ FuelWithinBounds /\ ExactWhenOrdered /\ SpanCovered
  BY AccountedFlightsAreRight DEF SessionInv
<1> QED  BY <1>1, <1>2, <1>3, PTL DEF SessionSpec

\* No operation and no restart changes a line of the file.
THEOREM RowsNeverOverwritten ==
  SessionSpec => NeverOverwritten
<1> DEFINE Kept == /\ Len(statsFile) <= Len(statsFile')
                   /\ \A i \in 1..Len(statsFile) : statsFile'[i] = statsFile[i]
<1>1. SessionInit => SessionInv
  BY SessionInitInv
<1>2. SessionInv /\ [SessionNext]_sessionVars => SessionInv'
  BY SessionStepInv
<1>3. SessionInv /\ [SessionNext]_sessionVars => [Kept]_sessionVars
  <2> SUFFICES ASSUME SessionInv, SessionNext
               PROVE  Kept
    OBVIOUS
  <2>1. statsFile \in Seq(OutStatistics \cup {Header}) /\ OneHeader /\ Len(statsFile) \in Nat
    BY DEF SessionInv, SessionTypeOK
  <2>2. CASE statsFile' = statsFile
    BY <2>1, <2>2
  <2>3. ASSUME NEW id \in AircraftIds, NEW crashed \in BOOLEAN,
               CompleteFlight(id, crashed, TRUE)
        PROVE  Kept
    <3>1. ClosedFlight(id, crashed) \in OutStatistics
      BY <2>3, CompletedHistory
    <3>2. AppendFlightCsv(ClosedFlight(id, crashed))
      BY <2>3 DEF CompleteFlight
    <3>3. Len(statsFile') > Len(statsFile)
          /\ statsFile' \in Seq(OutStatistics \cup {Header})
          /\ \A i \in 1..Len(statsFile) : statsFile'[i] = statsFile[i]
      BY <2>1, <3>1, <3>2, AppendedRow
    <3> QED  BY <2>1, <3>3
  <2>4. ASSUME NEW id \in AircraftIds, NEW crashed \in BOOLEAN,
               CompleteFlight(id, crashed, FALSE)
        PROVE  statsFile' = statsFile
    BY <2>4 DEF CompleteFlight, AppendLost
  <2> QED  BY <2>2, <2>3, <2>4
           DEF SessionNext, Construct, AcceptRecord, LostConnectionFlight
<1> QED  BY <1>1, <1>2, <1>3, PTL DEF SessionSpec, NeverOverwritten

-----------------------------------------------------------------------------
(* The session manager implements FlightLedger: under the mapping at the    *)
(* end of AircraftSessionManager every operation is one step of the ledger. *)
(* It rests on the inductive invariant above: the consumption of a closed   *)
(* flight lies between the net drop and the fuel burned only because the    *)
(* flight is accounted.                                                     *)

\* The sample of a record is a report to the ledger.
LEMMA AcceptIsReport ==
  ASSUME SessionInv, NEW record \in TelemetryRecord, AcceptRecord(record)
  PROVE  Ledger!Report(record.AircraftId, record.FuelQuantity)
<1> DEFINE id   == record.AircraftId
           fuel == record.FuelQuantity
<1>1. id \in AircraftIds /\ fuel \in FuelQuantities /\ fuel \in Int
  BY ProcessorAssumption DEF TelemetryRecord
<1>2. AllAccounted(m_activeFlights, audit)
  BY DEF SessionInv, ProcessorInv
<1>3. /\ m_activeFlights' = Put(m_activeFlights, id,
                              IF id \in DOMAIN m_activeFlights
                                THEN NextSample(m_activeFlights[id], record)
                                ELSE FirstSample(record))
      /\ audit' = Put(audit, id, IF id \in DOMAIN m_activeFlights
                                   THEN NextAudit(audit[id], record)
                                   ELSE FirstAudit(record))
  BY <1>2 DEF AcceptRecord, Process, Observe, AllAccounted
<1>4. \A i \in AircraftIds \ {id} : LedgerFlight(i)' = LedgerFlight(i)
  BY <1>2, <1>3 DEF LedgerFlight, Put, AllAccounted
<1>5. LedgerFlight(id)' = IF LedgerFlight(id) = Ledger!NoFlight
                            THEN Ledger!FirstReport(fuel)
                            ELSE Ledger!FurtherReport(LedgerFlight(id), fuel)
  <2>1. CASE id \notin DOMAIN m_activeFlights
    <3>1. /\ id \in DOMAIN m_activeFlights'
          /\ m_activeFlights'[id] = FirstSample(record)
          /\ audit'[id] = FirstAudit(record)
      BY <1>2, <1>3, <2>1 DEF Put, AllAccounted
    <3>2. LedgerFlight(id)' = Ledger!FirstReport(fuel)
      BY <3>1 DEF LedgerFlight, FirstSample, FirstAudit, Ledger!FirstReport
    <3> QED  BY <2>1, <3>2 DEF LedgerFlight, Ledger!NoFlight
  <2>2. CASE id \in DOMAIN m_activeFlights
    <3> DEFINE flight == m_activeFlights[id]
               a      == audit[id]
    <3>1. flight \in FlightState /\ a \in FlightAudit /\ Accounted(flight, a)
      BY <1>2, <2>2 DEF AllAccounted, IsMapOf
    <3>2. /\ id \in DOMAIN m_activeFlights'
          /\ m_activeFlights'[id] = NextSample(flight, record)
          /\ audit'[id] = NextAudit(a, record)
      BY <1>2, <1>3, <2>2 DEF Put, AllAccounted
    <3>3. LedgerFlight(id) = [samples |-> flight.SampleCount, startFuel |-> flight.StartFuel,
                              endFuel |-> flight.EndFuel, burned |-> a.burned]
      BY <2>2 DEF LedgerFlight
    <3>4. LedgerFlight(id)' =
            [samples   |-> NextSample(flight, record).SampleCount,
             startFuel |-> NextSample(flight, record).StartFuel,
             endFuel   |-> NextSample(flight, record).EndFuel,
             burned    |-> NextAudit(a, record).burned]
      BY <3>2 DEF LedgerFlight
    <3>5. /\ flight.SampleCount \in Nat /\ flight.SampleCount >= 1
          /\ flight.EndFuel \in Int /\ flight.EndFuel = a.last.FuelQuantity
          /\ a.burned \in Int
      BY <3>1, ProcessorAssumption DEF FlightState, FlightAudit, Accounted
    <3> HIDE DEF flight, a
    <3>6. /\ NextSample(flight, record).SampleCount = flight.SampleCount + 1
          /\ NextSample(flight, record).StartFuel = flight.StartFuel
          /\ NextSample(flight, record).EndFuel = fuel
      BY <3>1, NextSampleFields
    <3>7. NextAudit(a, record).burned =
            a.burned + (IF fuel < flight.EndFuel THEN flight.EndFuel - fuel ELSE 0)
      BY <1>1, <3>5 DEF NextAudit, Larger
    <3>8. LedgerFlight(id) # Ledger!NoFlight
      BY <3>3, <3>5 DEF Ledger!NoFlight
    <3> QED  BY <3>3, <3>4, <3>6, <3>7, <3>8 DEF Ledger!FurtherReport
  <2> QED  BY <2>1, <2>2
<1>6. UNCHANGED <<LedgerAllTotals, LedgerRows>>
  BY DEF AcceptRecord, LedgerAllTotals, LedgerRows, HistoryOf
<1> QED  BY <1>1, <1>4, <1>5, <1>6 DEF Ledger!Report, LedgerFlights

\* Taking a flight out of the map closes it in the ledger and no other.
LEMMA FinalizedIsClosed ==
  ASSUME SessionInv, NEW id \in AircraftIds, FinalizeFlight(id), Forget(id)
  PROVE  /\ LedgerFlights[id] # Ledger!NoFlight
         /\ LedgerFlights' = [LedgerFlights EXCEPT ![id] = Ledger!NoFlight]
<1>1. AllAccounted(m_activeFlights, audit)
  BY DEF SessionInv, ProcessorInv
<1>2. id \in DOMAIN m_activeFlights
  BY DEF FinalizeFlight
<1>3. m_activeFlights[id].SampleCount >= 1
  BY <1>1, <1>2 DEF AllAccounted, Accounted
<1>4. LedgerFlight(id) # Ledger!NoFlight
  <2>1. LedgerFlight(id).samples = m_activeFlights[id].SampleCount
    BY <1>2 DEF LedgerFlight
  <2> QED  BY <1>3, <2>1 DEF Ledger!NoFlight
<1>5. /\ DOMAIN m_activeFlights' = DOMAIN m_activeFlights \ {id}
      /\ \A i \in DOMAIN m_activeFlights \ {id} :
           m_activeFlights'[i] = m_activeFlights[i] /\ audit'[i] = audit[i]
  BY <1>1 DEF FinalizeFlight, Forget, Without, Restrict, AllAccounted
<1>6. LedgerFlight(id)' = Ledger!NoFlight
  BY <1>5 DEF LedgerFlight, Ledger!NoFlight
<1>7. \A i \in AircraftIds \ {id} : LedgerFlight(i)' = LedgerFlight(i)
  BY <1>5 DEF LedgerFlight
<1>8. LedgerFlights' = [i \in AircraftIds |-> LedgerFlight(i)']
  BY DEF LedgerFlights
<1>9. /\ LedgerFlights[id] = LedgerFlight(id)
      /\ LedgerFlights' = [LedgerFlights EXCEPT ![id] = Ledger!NoFlight]
  BY <1>6, <1>7, <1>8 DEF LedgerFlights
<1> QED  BY <1>4, <1>9

\* A row at the end of the file is a row at the end of the ledger, the first one
\* with its header too.
LEMMA AppendedIsSaved ==
  ASSUME NEW stats \in OutStatistics, AppendFlightCsv(stats),
         statsFile \in Seq(OutStatistics \cup {Header}), OneHeader
  PROVE  LedgerRows' = Append(LedgerRows, LedgerRow(stats))
<1> DEFINE n == Len(statsFile')
<1>1. /\ \A i \in 1..Len(statsFile) : statsFile'[i] = statsFile[i]
      /\ statsFile'[n] = stats
  BY AppendedRow
<1>2. Len(statsFile) \in Nat /\ (statsFile = <<>> => Len(statsFile) = 0)
      /\ (statsFile # <<>> => Len(statsFile) >= 1)
  OBVIOUS
<1>3. /\ statsFile = <<>> => n = 2
      /\ statsFile # <<>> => n = Len(statsFile) + 1
  <2>1. CASE statsFile = <<>>
    <3>1. statsFile' = <<Header>> \o <<stats>>
      BY <2>1 DEF AppendFlightCsv
    <3>2. Len(<<Header>> \o <<stats>>) = 2
      OBVIOUS
    <3> QED  BY <2>1, <3>1, <3>2
  <2>2. CASE statsFile # <<>>
    <3>1. statsFile' = Append(statsFile, stats)
      BY <2>2 DEF AppendFlightCsv
    <3> QED  BY <2>2, <3>1
  <2> QED  BY <2>1, <2>2
<1> HIDE DEF n
<1> DEFINE m == IF statsFile = <<>> THEN 0 ELSE Len(statsFile) - 1
<1>4. m \in Nat /\ 1..(Len(statsFile) - 1) = 1..m /\ n - 1 = m + 1
      /\ (m > 0 => Len(statsFile) = m + 1)
  BY <1>2, <1>3
<1> HIDE DEF m
<1> DEFINE old == [i \in 1..m |-> LedgerRow(statsFile[i + 1])]
<1>5. LedgerRows = old
  BY <1>4 DEF LedgerRows
<1>6. LedgerRows' = [i \in 1..(m + 1) |-> LedgerRow(statsFile'[i + 1])]
  BY <1>4 DEF LedgerRows, n
<1>7. \A i \in 1..m : statsFile'[i + 1] = statsFile[i + 1]
  BY <1>1, <1>4
<1>8. statsFile'[m + 1 + 1] = stats
  BY <1>1, <1>4 DEF n
<1>9. LedgerRows' = [i \in 1..(m + 1) |-> IF i \in 1..m THEN old[i] ELSE LedgerRow(stats)]
  BY <1>4, <1>6, <1>7, <1>8
<1>10. Len(old) = m
  BY <1>4
<1> HIDE DEF old
<1>11. Append(old, LedgerRow(stats)) =
         [i \in 1..(m + 1) |-> IF i \in 1..m THEN old[i] ELSE LedgerRow(stats)]
  <2> DEFINE row   == LedgerRow(stats)
             Items == {old[i] : i \in 1..m} \cup {row}
  <2>1. old \in Seq(Items) /\ row \in Items
    BY <1>4, <1>10 DEF old
  <2> HIDE DEF row, Items
  <2>2. /\ Append(old, row) \in Seq(Items)
        /\ Len(Append(old, row)) = m + 1
        /\ \A i \in 1..(m + 1) : Append(old, row)[i] = IF i \in 1..m THEN old[i] ELSE row
    BY <1>4, <1>10, <2>1
  <2>3. Append(old, row) = [i \in 1..(m + 1) |-> Append(old, row)[i]]
    <3>1. \A s \in Seq(Items) : s = [i \in 1..Len(s) |-> s[i]]
      OBVIOUS
    <3> QED  BY <2>2, <3>1
  <2> QED  BY <2>2, <2>3 DEF row
<1> QED  BY <1>5, <1>9, <1>11

\* CompleteFlight closes the flight with what FinalizeFlight makes of it.
LEMMA CompleteIsClose ==
  ASSUME SessionInv, NEW id \in AircraftIds, NEW crashed \in BOOLEAN,
         NEW persisted \in BOOLEAN, CompleteFlight(id, crashed, persisted)
  PROVE  Ledger!Close(id)
<1> DEFINE row  == ClosedFlight(id, crashed)
           old  == HistoryOf(id)
           open == m_activeFlights[id]
<1>1. /\ row.Flight = Finalized(open, crashed)
      /\ row.Flight.TotalFlightSeconds \in Nat
      /\ old \in FlightHistory
      /\ row.History.FlightCount = old.FlightCount + 1
      /\ row.History.CumulativeFuelConsumed
           = old.CumulativeFuelConsumed + row.Flight.FuelConsumed
      /\ row.History.CumulativeTotalSeconds
           = old.CumulativeTotalSeconds + row.Flight.TotalFlightSeconds
      /\ row \in OutStatistics /\ row.AircraftId = id
      /\ HistoryOf(id)' = row.History
      /\ \A i \in AircraftIds \ {id} : HistoryOf(i)' = HistoryOf(i)
  BY CompletedHistory
<1>2. id \in DOMAIN m_activeFlights /\ FinalizeFlight(id) /\ Forget(id)
  BY DEF CompleteFlight, FinalizeFlight
<1>3. open \in FlightState /\ audit[id] \in FlightAudit /\ Accounted(open, audit[id])
  BY <1>2 DEF SessionInv, ProcessorInv, AllAccounted, IsMapOf
<1>4. /\ row.Flight.SampleCount = open.SampleCount
      /\ row.Flight.StartFuel = open.StartFuel
      /\ row.Flight.EndFuel = open.EndFuel
  BY <1>1 DEF Finalized
<1>5. /\ row.Flight.FuelConsumed \in 0..audit[id].burned
      /\ open.StartFuel - open.EndFuel <= row.Flight.FuelConsumed
  <2>1. /\ open.StartFuel \in Int /\ open.EndFuel \in Int
        /\ open.FuelConsumed \in Int /\ audit[id].burned \in Int
    BY <1>3, ProcessorAssumption DEF FlightState, FlightAudit
  <2>2. /\ 0 <= open.FuelConsumed /\ open.FuelConsumed <= audit[id].burned
        /\ open.StartFuel - open.EndFuel <= audit[id].burned
    BY <1>3 DEF Accounted
  <2>3. row.Flight.FuelConsumed =
          Larger(open.FuelConsumed, Larger(0, open.StartFuel - open.EndFuel))
    BY <1>1 DEF Finalized
  <2> QED  BY <2>1, <2>2, <2>3 DEF Larger
<1>6. /\ LedgerFlights[id] # Ledger!NoFlight
      /\ LedgerFlights' = [LedgerFlights EXCEPT ![id] = Ledger!NoFlight]
  BY <1>2, FinalizedIsClosed
<1>7. LedgerFlights[id] = [samples |-> open.SampleCount, startFuel |-> open.StartFuel,
                           endFuel |-> open.EndFuel, burned |-> audit[id].burned]
  BY <1>2 DEF LedgerFlights, LedgerFlight
<1>8. \/ LedgerRows' = Append(LedgerRows, LedgerRow(row))
      \/ LedgerRows' = LedgerRows
  <2>1. CASE persisted
    BY <1>1, <2>1, AppendedIsSaved DEF CompleteFlight, SessionInv, SessionTypeOK
  <2>2. CASE ~persisted
    BY <2>2 DEF CompleteFlight, AppendLost, LedgerRows
  <2> QED  BY <2>1, <2>2
<1>9. /\ LedgerAllTotals'[id] = LedgerTotals(row.History)
      /\ LedgerAllTotals[id] = LedgerTotals(old)
      /\ \A i \in AircraftIds \ {id} : LedgerAllTotals'[i] = LedgerAllTotals[i]
      /\ LedgerAllTotals' = [i \in AircraftIds |-> LedgerAllTotals'[i]]
  BY <1>1 DEF LedgerAllTotals
<1> HIDE DEF row, old, open
<1>10. LedgerTotals(row.History) =
         [number   |-> LedgerTotals(old).number + 1,
          consumed |-> LedgerTotals(old).consumed + row.Flight.FuelConsumed,
          seconds  |-> LedgerTotals(row.History).seconds]
  BY <1>1 DEF LedgerTotals
<1>11. LedgerTotals(row.History).seconds >= LedgerTotals(old).seconds
  BY <1>1 DEF LedgerTotals, FlightHistory
<1>12. LedgerRow(row) = Ledger!RowOf(id, LedgerFlights[id], row.Flight.FuelConsumed,
                                     LedgerAllTotals'[id])
  BY <1>1, <1>4, <1>7, <1>9 DEF LedgerRow, Ledger!RowOf
<1>13. LedgerAllTotals' = [LedgerAllTotals EXCEPT ![id] =
                             [number   |-> @.number + 1,
                              consumed |-> @.consumed + row.Flight.FuelConsumed,
                              seconds  |-> LedgerAllTotals'[id].seconds]]
  BY <1>9, <1>10 DEF LedgerAllTotals
<1>14. row.Flight.FuelConsumed \in 0..LedgerFlights[id].burned
       /\ LedgerFlights[id].startFuel - LedgerFlights[id].endFuel <= row.Flight.FuelConsumed
  BY <1>5, <1>7 DEF open
<1> QED  BY <1>6, <1>8, <1>9, <1>11, <1>12, <1>13, <1>14 DEF Ledger!Close

\* A restart empties the ledger but for its rows.
LEMMA ConstructIsRestart ==
  ASSUME Construct
  PROVE  Ledger!Restart
<1>1. \A id \in AircraftIds : LedgerFlight(id)' = Ledger!NoFlight
  BY DEF Construct, LedgerFlight, Ledger!NoFlight
<1>2. \A id \in AircraftIds : LedgerTotals(HistoryOf(id))' = Ledger!NoTotals
  BY DEF Construct, HistoryOf, NoFlightsYet, LedgerTotals, Ledger!NoTotals
<1>3. UNCHANGED LedgerRows
  BY DEF Construct, LedgerRows
<1> QED  BY <1>1, <1>2, <1>3 DEF Ledger!Restart, LedgerFlights, LedgerAllTotals

\* Every operation of the manager is a step of the ledger.
LEMMA SessionStepIsLedgerStep ==
  ASSUME SessionInv, [SessionNext]_sessionVars
  PROVE  [Ledger!Next]_(Ledger!ledgerVars)
<1>1. CASE Construct
  BY <1>1, ConstructIsRestart DEF Ledger!Next
<1>2. ASSUME NEW record \in TelemetryRecord, AcceptRecord(record)
      PROVE  Ledger!Next
  <2>1. record.AircraftId \in AircraftIds /\ record.FuelQuantity \in FuelQuantities
    BY DEF TelemetryRecord
  <2> QED  BY <1>2, <2>1, AcceptIsReport DEF Ledger!Next
<1>3. ASSUME NEW id \in AircraftIds, NEW crashed \in BOOLEAN, NEW persisted \in BOOLEAN,
             CompleteFlight(id, crashed, persisted)
      PROVE  Ledger!Next
  BY <1>3, CompleteIsClose DEF Ledger!Next
<1>4. ASSUME NEW id \in AircraftIds, LostConnectionFlight(id)
      PROVE  Ledger!Next
  <2>1. /\ LedgerFlights[id] # Ledger!NoFlight
        /\ LedgerFlights' = [LedgerFlights EXCEPT ![id] = Ledger!NoFlight]
    BY <1>4, FinalizedIsClosed DEF LostConnectionFlight
  <2>2. UNCHANGED <<LedgerAllTotals, LedgerRows>>
    BY <1>4 DEF LostConnectionFlight, LedgerAllTotals, LedgerRows, HistoryOf
  <2> QED  BY <2>1, <2>2 DEF Ledger!Drop, Ledger!Next
<1>5. CASE UNCHANGED sessionVars
  BY <1>5 DEF sessionVars, Ledger!ledgerVars, LedgerFlights, LedgerFlight, LedgerAllTotals,
              LedgerRows, HistoryOf
<1> QED  BY <1>1, <1>2, <1>3, <1>4, <1>5 DEF SessionNext

\* A new manager is an empty ledger.
LEMMA SessionInitIsLedgerInit ==
  SessionInit => Ledger!Init
<1> SUFFICES ASSUME SessionInit
             PROVE  Ledger!Init
  OBVIOUS
<1>1. \A id \in AircraftIds : LedgerFlight(id) = Ledger!NoFlight
  BY DEF SessionInit, ProcessorInit, LedgerFlight, Ledger!NoFlight
<1>2. \A id \in AircraftIds : LedgerTotals(HistoryOf(id)) = Ledger!NoTotals
  BY DEF SessionInit, HistoryOf, NoFlightsYet, LedgerTotals, Ledger!NoTotals
<1>3. LedgerRows = <<>>
  BY DEF SessionInit, StoreInit, LedgerRows
<1> QED  BY <1>1, <1>2, <1>3 DEF Ledger!Init, LedgerFlights, LedgerAllTotals

\* The manager implements the ledger, for any callers and any number of aircraft,
\* flights, restarts and lost rows.
THEOREM SessionImplementsLedger ==
  SessionSpec => ImplementsLedger
<1>1. SessionInit => SessionInv
  BY SessionInitInv
<1>2. SessionInv /\ [SessionNext]_sessionVars => SessionInv'
  BY SessionStepInv
<1>3. SessionInit => Ledger!Init
  BY SessionInitIsLedgerInit
<1>4. SessionInv /\ [SessionNext]_sessionVars => [Ledger!Next]_(Ledger!ledgerVars)
  BY SessionStepIsLedgerStep
<1> QED  BY <1>1, <1>2, <1>3, <1>4, PTL DEF SessionSpec, ImplementsLedger, Ledger!Spec
=============================================================================
