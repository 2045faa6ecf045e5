-------------------------- MODULE TelemetryProcessor --------------------------
(***************************************************************************)
(* The per-aircraft flight accounting of the server                        *)
(* (src/server/TelemetryProcessor.{h,cpp}): the map m_activeFlights from   *)
(* aircraft ids to the running statistics of the flight in progress, fed   *)
(* one record at a time and closed by FinalizeFlight.                      *)
(*                                                                         *)
(* Fuel quantities and times are integers: the properties are about which  *)
(* differences are added and when, not about rounding.  A rate is kept as  *)
(* the pair <<numerator, denominator>> of the division the code makes, and *)
(* the per-hour averages, which the code always computes from the per-     *)
(* second ones in the same statement list, are left out.                   *)
(***************************************************************************)
EXTENDS Integers, Functions

CONSTANTS
  AircraftIds,      \* the aircraft ids records may carry
  Timestamps,       \* the timestamp texts records may carry
  TimeOf,           \* time_t of each timestamp text that can be parsed
  FuelQuantities    \* the fuel quantities records may carry

ASSUME ProcessorAssumption ==
  /\ DOMAIN TimeOf \subseteq Timestamps
  /\ TimeOf \in [DOMAIN TimeOf -> Int]
  /\ FuelQuantities \subseteq Int

VARIABLES
  m_activeFlights,  \* aircraft id -> FlightState, for the flights in progress
  audit             \* history variable: what was really reported in each flight

processorVars == <<m_activeFlights, audit>>

-----------------------------------------------------------------------------
(* Data                                                                    *)

TelemetryRecord ==
  [AircraftId : AircraftIds, Timestamp : Timestamps, FuelQuantity : FuelQuantities]

\* No rate is divided by zero or by a time that went back.
Rate == Int \X (Nat \ {0})
ZeroRate == <<0, 1>>

\* FlightStatistics together with the Previous... fields of FlightState.
FlightState ==
  [StartTimestamp : Timestamps, EndTimestamp : Timestamps,
   StartFuel : FuelQuantities, EndFuel : FuelQuantities,
   FuelConsumed : Int, CurrentRate : Rate, AverageRate : Rate,
   TotalFlightSeconds : Nat, SampleCount : Nat,
   PreviousSampleTime : Int, PreviousFuelQuantity : FuelQuantities,
   HasPreviousSample : BOOLEAN]

\* What FinalizeFlight hands out: the statistics with the way the flight ended.
FinalStatistics ==
  [StartTimestamp : Timestamps, EndTimestamp : Timestamps,
   StartFuel : FuelQuantities, EndFuel : FuelQuantities,
   FuelConsumed : Int, CurrentRate : Rate, AverageRate : Rate,
   TotalFlightSeconds : Nat, SampleCount : Nat, Completed : BOOLEAN]

\* std::max on numbers.
Larger(a, b) == IF a < b THEN b ELSE a

\* TimeUtils::TryParseTelemetryTimestamp succeeds.
Parses(timestamp) == timestamp \in DOMAIN TimeOf

-----------------------------------------------------------------------------
(* Process                                                                 *)

FirstSample(record) ==
  [StartTimestamp       |-> record.Timestamp,
   EndTimestamp         |-> record.Timestamp,
   StartFuel            |-> record.FuelQuantity,
   EndFuel              |-> record.FuelQuantity,
   FuelConsumed         |-> 0,
   CurrentRate          |-> ZeroRate,
   AverageRate          |-> ZeroRate,
   TotalFlightSeconds   |-> 0,
   SampleCount          |-> 1,
   PreviousSampleTime   |-> IF Parses(record.Timestamp)
                              THEN TimeOf[record.Timestamp] ELSE 0,
   PreviousFuelQuantity |-> record.FuelQuantity,
   HasPreviousSample    |-> Parses(record.Timestamp)]

\* Burn accounted over the time since the previous timed sample; a sample
\* that is not later than it changes nothing here.
TimedUpdate(flight, record) ==
  LET deltaSeconds == Larger(0, TimeOf[record.Timestamp] - flight.PreviousSampleTime)
      deltaFuel    == Larger(0, flight.PreviousFuelQuantity - record.FuelQuantity)
      seconds      == flight.TotalFlightSeconds + deltaSeconds
      consumed     == flight.FuelConsumed + deltaFuel
  IN  IF deltaSeconds > 0
        THEN [flight EXCEPT !.TotalFlightSeconds = seconds,
                            !.FuelConsumed       = consumed,
                            !.CurrentRate        = <<deltaFuel, deltaSeconds>>,
                            !.AverageRate        = <<consumed, seconds>>]
        ELSE flight

\* A wrong variant of the next definition: it adds the net drop every time.
UntimedUpdateAdding(flight, record) ==
  [flight EXCEPT !.FuelConsumed = @ + Larger(0, flight.StartFuel - record.FuelQuantity)]

\* Without two times to compare the code falls back on the net drop so far.
UntimedUpdate(flight, record) ==
  [flight EXCEPT !.FuelConsumed = Larger(0, flight.StartFuel - record.FuelQuantity)]

\* A wrong variant of the next definition: a sample without a drop, as after
\* refuelling, goes to the untimed branch.
UpdatedByDropsOnly(flight, record) ==
  IF flight.HasPreviousSample /\ Parses(record.Timestamp)
       /\ record.FuelQuantity < flight.PreviousFuelQuantity
    THEN TimedUpdate(flight, record)
    ELSE UntimedUpdate(flight, record)

\* Which of the two updates a sample gets.
Updated(flight, record) ==
  IF flight.HasPreviousSample /\ Parses(record.Timestamp)
    THEN TimedUpdate(flight, record)
    ELSE UntimedUpdate(flight, record)

\* A wrong variant of the next definition: the clock stays at the first sample.
NextSampleWithoutClock(flight, record) ==
  [Updated(flight, record) EXCEPT
     !.EndTimestamp         = record.Timestamp,
     !.EndFuel              = record.FuelQuantity,
     !.SampleCount          = @ + 1,
     !.HasPreviousSample    = @ \/ Parses(record.Timestamp),
     !.PreviousFuelQuantity = record.FuelQuantity]

NextSample(flight, record) ==
  LET parsed == Parses(record.Timestamp)
  IN  [Updated(flight, record) EXCEPT
         !.EndTimestamp         = record.Timestamp,
         !.EndFuel              = record.FuelQuantity,
         !.SampleCount          = @ + 1,
         !.PreviousSampleTime   = IF parsed THEN TimeOf[record.Timestamp] ELSE @,
         !.HasPreviousSample    = @ \/ parsed,
         !.PreviousFuelQuantity = record.FuelQuantity]

\* m_activeFlights[id], creating the entry when there is none, then updated.
Put(map, id, value) ==
  [i \in DOMAIN map \cup {id} |-> IF i = id THEN value ELSE map[i]]

Process(record) ==
  LET id == record.AircraftId IN
  m_activeFlights' =
    Put(m_activeFlights, id,
        IF id \in DOMAIN m_activeFlights
          THEN NextSample(m_activeFlights[id], record)
          ELSE FirstSample(record))

-----------------------------------------------------------------------------
(* FinalizeFlight and GetCurrentStatistics                                 *)

\* A wrong variant of the next definition: the net drop comes on top of what was
\* summed up.
FinalizedAdding(flight, crashed) ==
  [StartTimestamp     |-> flight.StartTimestamp,
   EndTimestamp       |-> flight.EndTimestamp,
   StartFuel          |-> flight.StartFuel,
   EndFuel            |-> flight.EndFuel,
   FuelConsumed       |-> flight.FuelConsumed + Larger(0, flight.StartFuel - flight.EndFuel),
   CurrentRate        |-> flight.CurrentRate,
   AverageRate        |-> flight.AverageRate,
   TotalFlightSeconds |-> flight.TotalFlightSeconds,
   SampleCount        |-> flight.SampleCount,
   Completed          |-> ~crashed]

\* Consumption is at least the net drop; the average is over the final total.
Finalized(flight, crashed) ==
  LET consumed == Larger(flight.FuelConsumed,
                         Larger(0, flight.StartFuel - flight.EndFuel))
  IN  [StartTimestamp     |-> flight.StartTimestamp,
       EndTimestamp       |-> flight.EndTimestamp,
       StartFuel          |-> flight.StartFuel,
       EndFuel            |-> flight.EndFuel,
       FuelConsumed       |-> consumed,
       CurrentRate        |-> flight.CurrentRate,
       AverageRate        |-> IF flight.TotalFlightSeconds > 0
                                THEN <<consumed, flight.TotalFlightSeconds>>
                                ELSE flight.AverageRate,
       TotalFlightSeconds |-> flight.TotalFlightSeconds,
       SampleCount        |-> flight.SampleCount,
       Completed          |-> ~crashed]

Without(map, id) == Restrict(map, DOMAIN map \ {id})

\* A wrong variant of the next definition: the entry stays in the map.
FinalizeFlightKeeping(id) ==
  /\ id \in DOMAIN m_activeFlights
  /\ UNCHANGED m_activeFlights

\* The flight was found: its entry is erased. The caller gets Finalized(...).
FinalizeFlight(id) ==
  /\ id \in DOMAIN m_activeFlights
  /\ m_activeFlights' = Without(m_activeFlights, id)

-----------------------------------------------------------------------------
(* The history variable: per flight in progress, the last record as it was *)
(* reported, the fuel burned in all (every drop from one sample to the     *)
(* next), the first and last times that could be parsed, and whether every *)
(* sample so far was timed and strictly later than the one before it.      *)

FlightAudit ==
  [last : TelemetryRecord, burned : Int, ordered : BOOLEAN,
   anyTimed : BOOLEAN, firstTime : Int, lastTime : Int]

FirstAudit(record) ==
  LET parsed == Parses(record.Timestamp)
      time   == IF parsed THEN TimeOf[record.Timestamp] ELSE 0
  IN  [last |-> record, burned |-> 0, ordered |-> parsed,
       anyTimed |-> parsed, firstTime |-> time, lastTime |-> time]

NextAudit(a, record) ==
  LET parsed == Parses(record.Timestamp)
  IN  [last      |-> record,
       burned    |-> a.burned + Larger(0, a.last.FuelQuantity - record.FuelQuantity),
       ordered   |-> a.ordered /\ parsed /\ a.lastTime < TimeOf[record.Timestamp],
       anyTimed  |-> a.anyTimed \/ parsed,
       firstTime |-> IF ~a.anyTimed /\ parsed THEN TimeOf[record.Timestamp] ELSE a.firstTime,
       lastTime  |-> IF parsed THEN TimeOf[record.Timestamp] ELSE a.lastTime]

Observe(record) ==
  LET id == record.AircraftId IN
  audit' = Put(audit, id, IF id \in DOMAIN audit THEN NextAudit(audit[id], record)
                                                 ELSE FirstAudit(record))

Forget(id) == audit' = Without(audit, id)

-----------------------------------------------------------------------------
(* The processor on its own: records and finalisations in any order.       *)

ProcessorInit ==
  /\ m_activeFlights = [id \in {} |-> 0]
  /\ audit = [id \in {} |-> 0]

ProcessRecord(record) ==
  /\ Process(record)
  /\ Observe(record)

EndFlight(id) ==
  /\ FinalizeFlight(id)
  /\ Forget(id)

ProcessorNext ==
  \/ \E record \in TelemetryRecord : ProcessRecord(record)
  \/ \E id \in AircraftIds : EndFlight(id)

ProcessorSpec == ProcessorInit /\ [][ProcessorNext]_processorVars

-----------------------------------------------------------------------------
(* Properties                                                              *)

IsMapOf(map, keys, values) ==
  /\ DOMAIN map \subseteq keys
  /\ map \in [DOMAIN map -> values]

\* Every entry of the two maps is well formed and they have the same keys.  In
\* particular every rate is over a positive time, whatever the samples were.
ProcessorTypeOK ==
  /\ IsMapOf(m_activeFlights, AircraftIds, FlightState)
  /\ IsMapOf(audit, AircraftIds, FlightAudit)
  /\ DOMAIN audit = DOMAIN m_activeFlights

\* Whatever the order of the timestamps and the refuelling in between, the
\* consumption a flight would be closed with now is never negative, never
\* less than the net drop and never more than the fuel really burned: the
\* incremental sums, the untimed fallback that overwrites them and the final
\* maximum never count a drop twice.
FuelWithinBounds ==
  \A id \in DOMAIN m_activeFlights :
    LET consumed == Finalized(m_activeFlights[id], TRUE).FuelConsumed
        net      == m_activeFlights[id].StartFuel - audit[id].last.FuelQuantity
    IN  /\ 0 <= consumed
        /\ net <= consumed
        /\ consumed <= audit[id].burned

\* A flight whose samples are all timed, each later than the one before, is
\* accounted exactly: all the fuel burned, the whole time from first to last
\* sample, and the running average is their quotient.
ExactWhenOrdered ==
  \A id \in DOMAIN m_activeFlights :
    LET flight == m_activeFlights[id] IN
    audit[id].ordered =>
      /\ flight.FuelConsumed = audit[id].burned
      /\ Finalized(flight, FALSE).FuelConsumed = audit[id].burned
      /\ flight.TotalFlightSeconds =
           TimeOf[flight.EndTimestamp] - TimeOf[flight.StartTimestamp]
      /\ flight.SampleCount > 1 =>
           flight.AverageRate = <<flight.FuelConsumed, flight.TotalFlightSeconds>>

\* Even with untimed, repeated or out-of-order samples the flight time covers
\* the span from the first to the last timed sample: clocks going back are
\* ignored and never subtracted.
SpanCovered ==
  \A id \in DOMAIN m_activeFlights :
    audit[id].anyTimed =>
      m_activeFlights[id].TotalFlightSeconds >= audit[id].lastTime - audit[id].firstTime
=============================================================================
