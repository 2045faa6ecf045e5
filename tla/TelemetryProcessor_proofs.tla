---------------------- MODULE TelemetryProcessor_proofs ----------------------
(***************************************************************************)
(* Proofs about the flight accounting of TelemetryProcessor.  They reduce  *)
(* to two facts about one flight, FirstSampleAccounted and                 *)
(* NextSampleAccounted: whatever record comes next, the statistics keep    *)
(* the relation Accounted to what was really reported.                     *)
(***************************************************************************)
EXTENDS TelemetryProcessor, TLAPS

\* What ties the running statistics of a flight to its audit.  The parts about
\* the previous sample and about StartFuel are what the properties lack to be
\* inductive: the next update reads those fields.
Accounted(flight, a) ==
  /\ flight.SampleCount >= 1
  /\ flight.EndTimestamp = a.last.Timestamp
  /\ flight.EndFuel = a.last.FuelQuantity
  /\ flight.PreviousFuelQuantity = a.last.FuelQuantity
  /\ flight.HasPreviousSample = a.anyTimed
  /\ a.anyTimed => flight.PreviousSampleTime = a.lastTime
  /\ 0 <= flight.FuelConsumed
  /\ flight.FuelConsumed <= a.burned
  /\ flight.StartFuel - a.last.FuelQuantity <= a.burned
  /\ 0 <= flight.TotalFlightSeconds
  /\ a.anyTimed => a.lastTime - a.firstTime <= flight.TotalFlightSeconds
  /\ a.ordered =>
       /\ a.anyTimed
       /\ flight.StartTimestamp \in DOMAIN TimeOf
       /\ flight.EndTimestamp \in DOMAIN TimeOf
       /\ a.lastTime = TimeOf[flight.EndTimestamp]
       /\ flight.FuelConsumed = a.burned
       /\ flight.TotalFlightSeconds =
            TimeOf[flight.EndTimestamp] - TimeOf[flight.StartTimestamp]
       /\ flight.SampleCount > 1 =>
            flight.AverageRate = <<flight.FuelConsumed, flight.TotalFlightSeconds>>

\* The inductive invariant: both maps are well formed and every flight in
\* progress is accounted.
AllAccounted(flights, audits) ==
  /\ IsMapOf(flights, AircraftIds, FlightState)
  /\ IsMapOf(audits, AircraftIds, FlightAudit)
  /\ DOMAIN audits = DOMAIN flights
  /\ \A id \in DOMAIN flights : Accounted(flights[id], audits[id])

ProcessorInv == AllAccounted(m_activeFlights, audit)

-----------------------------------------------------------------------------
(* One flight                                                              *)

\* The first sample opens a well-formed, accounted flight.
LEMMA FirstSampleAccounted ==
  ASSUME NEW record \in TelemetryRecord
  PROVE  /\ FirstSample(record) \in FlightState
         /\ FirstAudit(record) \in FlightAudit
         /\ Accounted(FirstSample(record), FirstAudit(record))
<1>1. /\ record.Timestamp \in Timestamps
      /\ record.FuelQuantity \in FuelQuantities
      /\ record.FuelQuantity \in Int
      /\ Parses(record.Timestamp) => TimeOf[record.Timestamp] \in Int
  BY ProcessorAssumption DEF TelemetryRecord, Parses
<1>2. FirstSample(record) \in FlightState
  BY <1>1 DEF FirstSample, FlightState, ZeroRate, Rate, Parses
<1>3. FirstAudit(record) \in FlightAudit
  BY <1>1 DEF FirstAudit, FlightAudit, Parses
<1>4. Accounted(FirstSample(record), FirstAudit(record))
  <2>1. CASE Parses(record.Timestamp)
    <3>1. record.Timestamp \in DOMAIN TimeOf
      BY <2>1 DEF Parses
    <3> QED  BY <1>1, <2>1, <3>1 DEF Accounted, FirstSample, FirstAudit
  <2>2. CASE ~Parses(record.Timestamp)
    BY <1>1, <2>2 DEF Accounted, FirstSample, FirstAudit
  <2> QED  BY <2>1, <2>2
<1> QED  BY <1>2, <1>3, <1>4

\* The update for a further sample keeps the fields it does not mention, and is
\* well formed.
LEMMA UpdateType ==
  ASSUME NEW flight \in FlightState, NEW record \in TelemetryRecord
  PROVE  /\ NextSample(flight, record) \in FlightState
         /\ UntimedUpdate(flight, record) \in FlightState
         /\ Parses(record.Timestamp) => TimedUpdate(flight, record) \in FlightState
<1>1. /\ record.Timestamp \in Timestamps
      /\ record.FuelQuantity \in FuelQuantities
      /\ record.FuelQuantity \in Int
      /\ Parses(record.Timestamp) => TimeOf[record.Timestamp] \in Int
      /\ flight.StartFuel \in Int
      /\ flight.PreviousFuelQuantity \in Int
  BY ProcessorAssumption DEF TelemetryRecord, Parses, FlightState
<1>2. UntimedUpdate(flight, record) \in FlightState
  BY <1>1 DEF UntimedUpdate, FlightState, Larger
<1>3. ASSUME Parses(record.Timestamp)
      PROVE  TimedUpdate(flight, record) \in FlightState
  <2> DEFINE deltaSeconds == Larger(0, TimeOf[record.Timestamp] - flight.PreviousSampleTime)
             deltaFuel    == Larger(0, flight.PreviousFuelQuantity - record.FuelQuantity)
             seconds      == flight.TotalFlightSeconds + deltaSeconds
             consumed     == flight.FuelConsumed + deltaFuel
  <2>1. /\ deltaSeconds \in Nat /\ deltaFuel \in Int
        /\ seconds \in Nat /\ consumed \in Int
        /\ deltaSeconds > 0 => seconds > 0
    BY <1>1, <1>3 DEF FlightState, Larger
  <2>2. ASSUME deltaSeconds > 0
        PROVE  [flight EXCEPT !.TotalFlightSeconds = seconds,
                              !.FuelConsumed       = consumed,
                              !.CurrentRate        = <<deltaFuel, deltaSeconds>>,
                              !.AverageRate        = <<consumed, seconds>>] \in FlightState
    <3> HIDE DEF deltaSeconds, deltaFuel, seconds, consumed
    <3>1. <<deltaFuel, deltaSeconds>> \in Rate /\ <<consumed, seconds>> \in Rate
      BY <2>1, <2>2 DEF Rate
    <3> QED  BY <2>1, <3>1 DEF FlightState
  <2> QED  BY <2>2 DEF TimedUpdate
<1>4. ASSUME NEW updated \in FlightState, NEW time \in Int, NEW timed \in BOOLEAN
      PROVE  [updated EXCEPT
                !.EndTimestamp         = record.Timestamp,
                !.EndFuel              = record.FuelQuantity,
                !.SampleCount          = @ + 1,
                !.PreviousSampleTime   = time,
                !.HasPreviousSample    = timed,
                !.PreviousFuelQuantity = record.FuelQuantity] \in FlightState
  <2>1. updated.SampleCount + 1 \in Nat
    BY DEF FlightState
  <2>2. CASE timed = TRUE
    BY <1>1, <2>1, <2>2 DEF FlightState
  <2>3. CASE timed = FALSE
    BY <1>1, <2>1, <2>3 DEF FlightState
  <2> QED  BY <2>2, <2>3
<1>5. NextSample(flight, record) \in FlightState
  <2>1. CASE Parses(record.Timestamp)
    <3>1. /\ UntimedUpdate(flight, record) \in FlightState
          /\ TimedUpdate(flight, record) \in FlightState
          /\ TimeOf[record.Timestamp] \in Int
      BY <1>1, <1>2, <1>3, <2>1
    <3> QED  BY <2>1, <1>4, <3>1 DEF NextSample, Updated
  <2>2. CASE ~Parses(record.Timestamp)
    <3>1. flight.PreviousSampleTime \in Int /\ flight.HasPreviousSample \in BOOLEAN
      BY DEF FlightState
    <3>2. /\ UntimedUpdate(flight, record).PreviousSampleTime = flight.PreviousSampleTime
          /\ UntimedUpdate(flight, record).HasPreviousSample = flight.HasPreviousSample
      BY DEF UntimedUpdate, FlightState
    <3> QED  BY <2>2, <1>2, <1>4, <3>1, <3>2 DEF NextSample, Updated
  <2> QED  BY <2>1, <2>2
<1> QED  BY <1>2, <1>3, <1>5

\* The fields of a flight after one more sample, in the three cases the code
\* distinguishes: a later timed sample, one that is not later, an untimed one.
LEMMA NextSampleFields ==
  ASSUME NEW flight \in FlightState, NEW record \in TelemetryRecord
  PROVE  LET next      == NextSample(flight, record)
             parsed    == Parses(record.Timestamp)
             timed     == flight.HasPreviousSample /\ parsed
             elapsed   == TimeOf[record.Timestamp] - flight.PreviousSampleTime
             deltaFuel == Larger(0, flight.PreviousFuelQuantity - record.FuelQuantity)
         IN  /\ next.EndTimestamp = record.Timestamp
             /\ next.EndFuel = record.FuelQuantity
             /\ next.PreviousFuelQuantity = record.FuelQuantity
             /\ next.StartTimestamp = flight.StartTimestamp
             /\ next.StartFuel = flight.StartFuel
             /\ next.SampleCount = flight.SampleCount + 1
             /\ next.HasPreviousSample = (flight.HasPreviousSample \/ parsed)
             /\ parsed => next.PreviousSampleTime = TimeOf[record.Timestamp]
             /\ ~parsed => next.PreviousSampleTime = flight.PreviousSampleTime
             /\ (timed /\ elapsed > 0) =>
                  /\ next.TotalFlightSeconds = flight.TotalFlightSeconds + elapsed
                  /\ next.FuelConsumed = flight.FuelConsumed + deltaFuel
                  /\ next.AverageRate = <<next.FuelConsumed, next.TotalFlightSeconds>>
             /\ (timed /\ elapsed <= 0) =>
                  /\ next.TotalFlightSeconds = flight.TotalFlightSeconds
                  /\ next.FuelConsumed = flight.FuelConsumed
             /\ ~timed =>
                  /\ next.TotalFlightSeconds = flight.TotalFlightSeconds
                  /\ next.FuelConsumed = Larger(0, flight.StartFuel - record.FuelQuantity)
<1>1. /\ Parses(record.Timestamp) => TimeOf[record.Timestamp] \in Int
      /\ flight.PreviousSampleTime \in Int
      /\ flight.TotalFlightSeconds \in Int
      /\ flight.FuelConsumed \in Int
  BY ProcessorAssumption DEF Parses, FlightState
<1>2. CASE flight.HasPreviousSample /\ Parses(record.Timestamp)
  <2>1. CASE TimeOf[record.Timestamp] - flight.PreviousSampleTime > 0
    BY <1>1, <1>2, <2>1 DEF NextSample, Updated, TimedUpdate, FlightState, Larger
  <2>2. CASE ~(TimeOf[record.Timestamp] - flight.PreviousSampleTime > 0)
    BY <1>1, <1>2, <2>2 DEF NextSample, Updated, TimedUpdate, FlightState, Larger
  <2> QED  BY <2>1, <2>2
<1>3. CASE ~(flight.HasPreviousSample /\ Parses(record.Timestamp))
  BY <1>3 DEF NextSample, Updated, UntimedUpdate, FlightState
<1> QED  BY <1>2, <1>3

\* The drops between samples add up to at least the net drop, so the statistics
\* stay accounted whatever sample comes next.
LEMMA NextSampleAccounted ==
  ASSUME NEW flight \in FlightState, NEW a \in FlightAudit,
         NEW record \in TelemetryRecord, Accounted(flight, a)
  PROVE  /\ NextAudit(a, record) \in FlightAudit
         /\ Accounted(NextSample(flight, record), NextAudit(a, record))
<1> DEFINE next == NextSample(flight, record)
           b    == NextAudit(a, record)
           drop == Larger(0, a.last.FuelQuantity - record.FuelQuantity)
<1>1. /\ record.Timestamp \in Timestamps
      /\ record.FuelQuantity \in Int
      /\ a.last.FuelQuantity \in Int
      /\ Parses(record.Timestamp) => TimeOf[record.Timestamp] \in Int
      /\ a.burned \in Int /\ a.firstTime \in Int /\ a.lastTime \in Int
      /\ a.ordered \in BOOLEAN /\ a.anyTimed \in BOOLEAN
  BY ProcessorAssumption DEF TelemetryRecord, FlightAudit, Parses
<1>2. /\ flight.StartFuel \in Int /\ flight.FuelConsumed \in Int
      /\ flight.TotalFlightSeconds \in Int /\ flight.SampleCount \in Nat
  BY ProcessorAssumption DEF FlightState
<1>3. drop \in Int /\ drop >= 0 /\ drop >= a.last.FuelQuantity - record.FuelQuantity
  BY <1>1 DEF Larger
<1>4. /\ b.last = record
      /\ b.burned = a.burned + drop
      /\ b.ordered = (a.ordered /\ Parses(record.Timestamp)
                        /\ a.lastTime < TimeOf[record.Timestamp])
      /\ b.anyTimed = (a.anyTimed \/ Parses(record.Timestamp))
      /\ Parses(record.Timestamp) => b.lastTime = TimeOf[record.Timestamp]
      /\ ~Parses(record.Timestamp) => b.lastTime = a.lastTime
      /\ a.anyTimed => b.firstTime = a.firstTime
      /\ (~a.anyTimed /\ Parses(record.Timestamp)) => b.firstTime = TimeOf[record.Timestamp]
  BY DEF NextAudit
<1>5. b \in FlightAudit
  <2>1. /\ (~a.anyTimed /\ Parses(record.Timestamp)) => TimeOf[record.Timestamp] \in Int
        /\ a.burned + drop \in Int
    BY <1>1, <1>3
  <2> QED  BY <1>1, <2>1 DEF NextAudit, FlightAudit, TelemetryRecord
<1>6. b.burned \in Int /\ b.lastTime \in Int
  BY <1>5 DEF FlightAudit
<1>7. /\ flight.PreviousFuelQuantity = a.last.FuelQuantity
      /\ flight.HasPreviousSample = a.anyTimed
      /\ a.anyTimed => flight.PreviousSampleTime = a.lastTime
  BY DEF Accounted
<1>8. /\ next.EndTimestamp = record.Timestamp
      /\ next.EndFuel = record.FuelQuantity
      /\ next.PreviousFuelQuantity = record.FuelQuantity
      /\ next.StartTimestamp = flight.StartTimestamp
      /\ next.StartFuel = flight.StartFuel
      /\ next.SampleCount = flight.SampleCount + 1
      /\ next.HasPreviousSample = (a.anyTimed \/ Parses(record.Timestamp))
      /\ Parses(record.Timestamp) => next.PreviousSampleTime = TimeOf[record.Timestamp]
      /\ ~Parses(record.Timestamp) => next.PreviousSampleTime = flight.PreviousSampleTime
  BY <1>7, NextSampleFields
<1>9. ASSUME a.anyTimed, Parses(record.Timestamp), a.lastTime < TimeOf[record.Timestamp]
      PROVE  /\ next.TotalFlightSeconds =
                  flight.TotalFlightSeconds + (TimeOf[record.Timestamp] - a.lastTime)
             /\ next.FuelConsumed = flight.FuelConsumed + drop
             /\ next.AverageRate = <<next.FuelConsumed, next.TotalFlightSeconds>>
  <2>1. /\ flight.HasPreviousSample /\ flight.PreviousSampleTime = a.lastTime
        /\ TimeOf[record.Timestamp] - a.lastTime > 0
    BY <1>1, <1>7, <1>9
  <2> QED  BY <1>7, <1>9, <2>1, NextSampleFields
<1>10. ASSUME a.anyTimed, Parses(record.Timestamp), ~(a.lastTime < TimeOf[record.Timestamp])
       PROVE  /\ next.TotalFlightSeconds = flight.TotalFlightSeconds
              /\ next.FuelConsumed = flight.FuelConsumed
  <2>1. /\ flight.HasPreviousSample /\ flight.PreviousSampleTime = a.lastTime
        /\ TimeOf[record.Timestamp] - a.lastTime <= 0
    BY <1>1, <1>7, <1>10
  <2> QED  BY <1>7, <1>10, <2>1, NextSampleFields
<1>11. ASSUME ~(a.anyTimed /\ Parses(record.Timestamp))
       PROVE  /\ next.TotalFlightSeconds = flight.TotalFlightSeconds
              /\ next.FuelConsumed = Larger(0, flight.StartFuel - record.FuelQuantity)
  BY <1>7, <1>11, NextSampleFields
<1> HIDE DEF b, next, drop
<1>12. /\ 0 <= next.FuelConsumed
       /\ next.FuelConsumed <= b.burned
       /\ next.StartFuel - record.FuelQuantity <= b.burned
  <2>1. /\ 0 <= flight.FuelConsumed
        /\ flight.FuelConsumed <= a.burned
        /\ flight.StartFuel - a.last.FuelQuantity <= a.burned
    BY DEF Accounted
  <2>2. next.StartFuel - record.FuelQuantity <= b.burned
    BY <1>1, <1>2, <1>3, <1>4, <1>8, <2>1
  <2>3. 0 <= b.burned
    BY <1>1, <1>2, <1>3, <1>4, <2>1
  <2>4. CASE a.anyTimed /\ Parses(record.Timestamp) /\ a.lastTime < TimeOf[record.Timestamp]
    BY <1>1, <1>2, <1>3, <1>4, <1>9, <2>1, <2>2, <2>4
  <2>5. CASE a.anyTimed /\ Parses(record.Timestamp) /\ ~(a.lastTime < TimeOf[record.Timestamp])
    BY <1>1, <1>2, <1>3, <1>4, <1>10, <2>1, <2>2, <2>5
  <2>6. CASE ~(a.anyTimed /\ Parses(record.Timestamp))
    BY <1>1, <1>2, <1>4, <1>8, <1>11, <2>2, <2>3, <2>6 DEF Larger
  <2> QED  BY <2>4, <2>5, <2>6
<1>13. /\ 0 <= next.TotalFlightSeconds
       /\ b.anyTimed => b.lastTime - b.firstTime <= next.TotalFlightSeconds
  <2>1. /\ 0 <= flight.TotalFlightSeconds
        /\ a.anyTimed => a.lastTime - a.firstTime <= flight.TotalFlightSeconds
    BY DEF Accounted
  <2>2. CASE a.anyTimed /\ Parses(record.Timestamp) /\ a.lastTime < TimeOf[record.Timestamp]
    BY <1>1, <1>2, <1>4, <1>9, <2>1, <2>2
  <2>3. CASE a.anyTimed /\ Parses(record.Timestamp) /\ ~(a.lastTime < TimeOf[record.Timestamp])
    BY <1>1, <1>2, <1>4, <1>10, <2>1, <2>3
  <2>4. CASE ~(a.anyTimed /\ Parses(record.Timestamp))
    BY <1>1, <1>2, <1>4, <1>11, <2>1, <2>4
  <2> QED  BY <2>2, <2>3, <2>4
<1>14. ASSUME b.ordered
       PROVE  /\ b.anyTimed
              /\ next.StartTimestamp \in DOMAIN TimeOf
              /\ next.EndTimestamp \in DOMAIN TimeOf
              /\ b.lastTime = TimeOf[next.EndTimestamp]
              /\ next.FuelConsumed = b.burned
              /\ next.TotalFlightSeconds =
                   TimeOf[next.EndTimestamp] - TimeOf[next.StartTimestamp]
              /\ next.AverageRate = <<next.FuelConsumed, next.TotalFlightSeconds>>
  <2>1. a.ordered /\ Parses(record.Timestamp) /\ a.lastTime < TimeOf[record.Timestamp]
    BY <1>4, <1>14
  <2>2. /\ a.anyTimed
        /\ flight.StartTimestamp \in DOMAIN TimeOf
        /\ flight.EndTimestamp \in DOMAIN TimeOf
        /\ a.lastTime = TimeOf[flight.EndTimestamp]
        /\ flight.FuelConsumed = a.burned
        /\ flight.TotalFlightSeconds =
             TimeOf[flight.EndTimestamp] - TimeOf[flight.StartTimestamp]
    BY <2>1 DEF Accounted
  <2>3. TimeOf[flight.StartTimestamp] \in Int
    BY <2>2, ProcessorAssumption
  <2>4. record.Timestamp \in DOMAIN TimeOf
    BY <2>1 DEF Parses
  <2>5. b.anyTimed /\ b.lastTime = TimeOf[next.EndTimestamp]
    BY <1>4, <1>8, <2>1
  <2>6. /\ next.StartTimestamp \in DOMAIN TimeOf
        /\ next.EndTimestamp \in DOMAIN TimeOf
    BY <1>8, <2>2, <2>4
  <2>7. next.FuelConsumed = b.burned
    BY <1>4, <1>9, <2>1, <2>2
  <2>8. next.TotalFlightSeconds =
          TimeOf[flight.EndTimestamp] - TimeOf[flight.StartTimestamp]
            + (TimeOf[record.Timestamp] - TimeOf[flight.EndTimestamp])
    BY <1>9, <2>1, <2>2
  <2>9. next.TotalFlightSeconds = TimeOf[next.EndTimestamp] - TimeOf[next.StartTimestamp]
    <3>1. TimeOf[flight.EndTimestamp] \in Int /\ TimeOf[record.Timestamp] \in Int
      BY <1>1, <2>1, <2>2
    <3> QED  BY <1>8, <2>3, <2>8, <3>1
  <2>10. next.AverageRate = <<next.FuelConsumed, next.TotalFlightSeconds>>
    BY <1>9, <2>1, <2>2
  <2> QED  BY <2>5, <2>6, <2>7, <2>9, <2>10
<1>15. Accounted(next, b)
  <2>1. next.SampleCount >= 1
    BY <1>2, <1>8
  <2>2. b.anyTimed => next.PreviousSampleTime = b.lastTime
    BY <1>4, <1>7, <1>8
  <2> QED  BY <1>4, <1>8, <1>12, <1>13, <1>14, <2>1, <2>2 DEF Accounted
<1> QED  BY <1>5, <1>15 DEF b, next

-----------------------------------------------------------------------------
(* The map of flights                                                      *)

\* AllAccounted is kept by a record and by a finalisation, whatever the caller.
LEMMA ProcessAccounted ==
  ASSUME NEW record \in TelemetryRecord, Process(record), Observe(record),
         AllAccounted(m_activeFlights, audit)
  PROVE  AllAccounted(m_activeFlights', audit')
<1> DEFINE id     == record.AircraftId
           flight == IF id \in DOMAIN m_activeFlights
                       THEN NextSample(m_activeFlights[id], record) ELSE FirstSample(record)
           a      == IF id \in DOMAIN m_activeFlights
                       THEN NextAudit(audit[id], record) ELSE FirstAudit(record)
<1>1. id \in AircraftIds
  BY DEF TelemetryRecord
<1>2. /\ m_activeFlights' = Put(m_activeFlights, id, flight)
      /\ audit' = Put(audit, id, a)
  BY DEF Process, Observe, AllAccounted
<1>3. flight \in FlightState /\ a \in FlightAudit /\ Accounted(flight, a)
  <2>1. CASE id \in DOMAIN m_activeFlights
    <3>1. /\ m_activeFlights[id] \in FlightState
          /\ audit[id] \in FlightAudit
          /\ Accounted(m_activeFlights[id], audit[id])
      BY <2>1 DEF AllAccounted, IsMapOf
    <3> QED  BY <2>1, <3>1, UpdateType, NextSampleAccounted
  <2>2. CASE id \notin DOMAIN m_activeFlights
    BY <2>2, FirstSampleAccounted
  <2> QED  BY <2>1, <2>2
<1> HIDE DEF id, flight, a
<1>4. /\ IsMapOf(m_activeFlights, AircraftIds, FlightState)
      /\ IsMapOf(audit, AircraftIds, FlightAudit)
      /\ DOMAIN audit = DOMAIN m_activeFlights
      /\ \A i \in DOMAIN m_activeFlights : Accounted(m_activeFlights[i], audit[i])
  BY DEF AllAccounted
<1>5. /\ IsMapOf(m_activeFlights', AircraftIds, FlightState)
      /\ DOMAIN m_activeFlights' = DOMAIN m_activeFlights \cup {id}
      /\ m_activeFlights'[id] = flight
      /\ \A i \in DOMAIN m_activeFlights \ {id} : m_activeFlights'[i] = m_activeFlights[i]
  <2>1. /\ IsMapOf(Put(m_activeFlights, id, flight), AircraftIds, FlightState)
        /\ DOMAIN Put(m_activeFlights, id, flight) = DOMAIN m_activeFlights \cup {id}
        /\ Put(m_activeFlights, id, flight)[id] = flight
        /\ \A i \in DOMAIN m_activeFlights \ {id} :
             Put(m_activeFlights, id, flight)[i] = m_activeFlights[i]
    BY <1>1, <1>3, <1>4 DEF IsMapOf, Put
  <2> QED  BY <1>2, <2>1
<1>6. /\ IsMapOf(audit', AircraftIds, FlightAudit)
      /\ DOMAIN audit' = DOMAIN audit \cup {id}
      /\ audit'[id] = a
      /\ \A i \in DOMAIN audit \ {id} : audit'[i] = audit[i]
  <2>1. /\ IsMapOf(Put(audit, id, a), AircraftIds, FlightAudit)
        /\ DOMAIN Put(audit, id, a) = DOMAIN audit \cup {id}
        /\ Put(audit, id, a)[id] = a
        /\ \A i \in DOMAIN audit \ {id} : Put(audit, id, a)[i] = audit[i]
    BY <1>1, <1>3, <1>4 DEF IsMapOf, Put
  <2> QED  BY <1>2, <2>1
<1> QED  BY <1>3, <1>4, <1>5, <1>6 DEF AllAccounted

\* Closing a flight leaves the accounts of the others alone.
LEMMA FinalizeAccounted ==
  ASSUME NEW id, FinalizeFlight(id), Forget(id), AllAccounted(m_activeFlights, audit)
  PROVE  AllAccounted(m_activeFlights', audit')
<1>1. /\ m_activeFlights' = Without(m_activeFlights, id)
      /\ audit' = Without(audit, id)
  BY DEF FinalizeFlight, Forget
<1>2. /\ IsMapOf(m_activeFlights, AircraftIds, FlightState)
      /\ IsMapOf(audit, AircraftIds, FlightAudit)
      /\ DOMAIN audit = DOMAIN m_activeFlights
      /\ \A i \in DOMAIN m_activeFlights : Accounted(m_activeFlights[i], audit[i])
  BY DEF AllAccounted
<1>3. /\ IsMapOf(m_activeFlights', AircraftIds, FlightState)
      /\ DOMAIN m_activeFlights' = DOMAIN m_activeFlights \ {id}
      /\ \A i \in DOMAIN m_activeFlights \ {id} : m_activeFlights'[i] = m_activeFlights[i]
  <2>1. /\ IsMapOf(Without(m_activeFlights, id), AircraftIds, FlightState)
        /\ DOMAIN Without(m_activeFlights, id) = DOMAIN m_activeFlights \ {id}
        /\ \A i \in DOMAIN m_activeFlights \ {id} :
             Without(m_activeFlights, id)[i] = m_activeFlights[i]
    <3>1. IsMapOf(m_activeFlights, AircraftIds, FlightState)
      BY <1>2
    <3> QED  BY <3>1 DEF IsMapOf, Without, Restrict
  <2> QED  BY <1>1, <2>1
<1>4. /\ IsMapOf(audit', AircraftIds, FlightAudit)
      /\ DOMAIN audit' = DOMAIN audit \ {id}
      /\ \A i \in DOMAIN audit \ {id} : audit'[i] = audit[i]
  <2>1. /\ IsMapOf(Without(audit, id), AircraftIds, FlightAudit)
        /\ DOMAIN Without(audit, id) = DOMAIN audit \ {id}
        /\ \A i \in DOMAIN audit \ {id} : Without(audit, id)[i] = audit[i]
    <3>1. IsMapOf(audit, AircraftIds, FlightAudit)
      BY <1>2
    <3> QED  BY <3>1 DEF IsMapOf, Without, Restrict
  <2> QED  BY <1>1, <2>1
<1> QED  BY <1>2, <1>3, <1>4 DEF AllAccounted

\* Without any flight there is nothing to account for.
LEMMA NothingAccounted ==
  AllAccounted([id \in {} |-> 0], [id \in {} |-> 0])
BY DEF AllAccounted, IsMapOf

-----------------------------------------------------------------------------
(* What follows from it                                                    *)

\* The closing maximum in FinalizeFlight keeps the consumption between the net
\* drop and the fuel burned, and does nothing to an ordered flight.
LEMMA AccountedFlightsAreRight ==
  ASSUME ProcessorInv
  PROVE  ProcessorTypeOK /\ FuelWithinBounds /\ ExactWhenOrdered /\ SpanCovered
<1>1. ProcessorTypeOK
  BY DEF ProcessorInv, AllAccounted, ProcessorTypeOK
<1>2. ASSUME NEW id \in DOMAIN m_activeFlights
      PROVE  /\ m_activeFlights[id] \in FlightState
             /\ audit[id] \in FlightAudit
             /\ Accounted(m_activeFlights[id], audit[id])
  BY <1>2 DEF ProcessorInv, AllAccounted, IsMapOf
<1>3. ASSUME NEW flight \in FlightState, NEW a \in FlightAudit, Accounted(flight, a),
             NEW crashed \in BOOLEAN
      PROVE  LET consumed == Finalized(flight, crashed).FuelConsumed
                 net      == flight.StartFuel - a.last.FuelQuantity
             IN  /\ 0 <= consumed
                 /\ net <= consumed
                 /\ consumed <= a.burned
                 /\ a.ordered => consumed = a.burned
  <2>1. /\ flight.StartFuel \in Int /\ flight.EndFuel \in Int
        /\ flight.FuelConsumed \in Int /\ a.burned \in Int
    BY ProcessorAssumption DEF FlightState, FlightAudit
  <2>2. /\ 0 <= flight.FuelConsumed
        /\ flight.FuelConsumed <= a.burned
        /\ flight.EndFuel = a.last.FuelQuantity
        /\ flight.StartFuel - flight.EndFuel <= a.burned
        /\ a.ordered => flight.FuelConsumed = a.burned
    BY <1>3 DEF Accounted
  <2>3. Finalized(flight, crashed).FuelConsumed =
          Larger(flight.FuelConsumed, Larger(0, flight.StartFuel - flight.EndFuel))
    BY DEF Finalized
  <2> QED  BY <2>1, <2>2, <2>3 DEF Larger
<1>4. FuelWithinBounds
  BY <1>2, <1>3 DEF FuelWithinBounds
<1>5. ExactWhenOrdered
  <2> SUFFICES ASSUME NEW id \in DOMAIN m_activeFlights, audit[id].ordered
               PROVE  LET flight == m_activeFlights[id] IN
                      /\ flight.FuelConsumed = audit[id].burned
                      /\ Finalized(flight, FALSE).FuelConsumed = audit[id].burned
                      /\ flight.TotalFlightSeconds =
                           TimeOf[flight.EndTimestamp] - TimeOf[flight.StartTimestamp]
                      /\ flight.SampleCount > 1 =>
                           flight.AverageRate =
                             <<flight.FuelConsumed, flight.TotalFlightSeconds>>
    BY DEF ExactWhenOrdered
  <2>1. Finalized(m_activeFlights[id], FALSE).FuelConsumed = audit[id].burned
    BY <1>2, <1>3
  <2> QED  BY <1>2, <2>1 DEF Accounted
<1>6. SpanCovered
  <2> SUFFICES ASSUME NEW id \in DOMAIN m_activeFlights, audit[id].anyTimed
               PROVE  m_activeFlights[id].TotalFlightSeconds
                        >= audit[id].lastTime - audit[id].firstTime
    BY DEF SpanCovered
  <2>1. /\ audit[id].lastTime \in Int /\ audit[id].firstTime \in Int
        /\ m_activeFlights[id].TotalFlightSeconds \in Int
    BY <1>2 DEF FlightState, FlightAudit
  <2> QED  BY <1>2, <2>1 DEF Accounted
<1> QED  BY <1>1, <1>4, <1>5, <1>6

-----------------------------------------------------------------------------
(* The processor                                                           *)

\* The accounting is an invariant of the processor for all sets of aircraft,
\* times and fuel quantities, and any number of samples: types, the bounds on
\* the consumption, exactness for ordered samples and the covered time span.
THEOREM ProcessorCorrect ==
  ProcessorSpec => [](ProcessorTypeOK /\ FuelWithinBounds /\ ExactWhenOrdered /\ SpanCovered)
<1>1. ProcessorInit => ProcessorInv
  BY NothingAccounted DEF ProcessorInit, ProcessorInv
<1>2. ProcessorInv /\ [ProcessorNext]_processorVars => ProcessorInv'
  <2> SUFFICES ASSUME ProcessorInv, [ProcessorNext]_processorVars
               PROVE  ProcessorInv'
    OBVIOUS
  <2>1. ASSUME NEW record \in TelemetryRecord, ProcessRecord(record)
        PROVE  ProcessorInv'
    BY <2>1, ProcessAccounted DEF ProcessRecord, ProcessorInv
  <2>2. ASSUME NEW id \in AircraftIds, EndFlight(id)
        PROVE  ProcessorInv'
    BY <2>2, FinalizeAccounted DEF EndFlight, ProcessorInv
  <2>3. CASE UNCHANGED processorVars
    BY <2>3 DEF processorVars, ProcessorInv, AllAccounted, IsMapOf
  <2> QED  BY <2>1, <2>2, <2>3 DEF ProcessorNext
<1> QED  BY <1>1, <1>2, AccountedFlightsAreRight, PTL DEF ProcessorSpec
=============================================================================
