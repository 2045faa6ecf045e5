------------------------------ MODULE FlightLedger ------------------------------
(***************************************************************************)
(* What the session manager promises to the connections that share it,     *)
(* without its maps, its incremental sums and its timestamps: a ledger     *)
(* with at most one open flight per aircraft, the totals of each aircraft  *)
(* since the server started, and the rows that were saved.                 *)
(***************************************************************************)
EXTENDS Integers, Sequences

CONSTANTS AircraftIds, FuelQuantities

VARIABLES
  flights,  \* aircraft id -> what was reported of its open flight
  totals,   \* aircraft id -> number of its closed flights, and their sums
  rows      \* the saved rows, oldest first

ledgerVars == <<flights, totals, rows>>

NoFlight == [samples |-> 0, startFuel |-> 0, endFuel |-> 0, burned |-> 0]
NoTotals == [number |-> 0, consumed |-> 0, seconds |-> 0]

FirstReport(fuel) ==
  [samples |-> 1, startFuel |-> fuel, endFuel |-> fuel, burned |-> 0]

\* Every drop from one report to the next is fuel burned.
FurtherReport(flight, fuel) ==
  [samples   |-> flight.samples + 1,
   startFuel |-> flight.startFuel,
   endFuel   |-> fuel,
   burned    |-> flight.burned + (IF fuel < flight.endFuel THEN flight.endFuel - fuel ELSE 0)]

Init ==
  /\ flights = [id \in AircraftIds |-> NoFlight]
  /\ totals = [id \in AircraftIds |-> NoTotals]
  /\ rows = <<>>

Report(id, fuel) ==
  /\ flights' = [flights EXCEPT ![id] =
                   IF @ = NoFlight THEN FirstReport(fuel) ELSE FurtherReport(@, fuel)]
  /\ UNCHANGED <<totals, rows>>

\* The row of a flight: what was reported of it, what it is said to have
\* consumed, and the totals with it.
RowOf(id, flight, consumed, total) ==
  [aircraft |-> id, samples |-> flight.samples, startFuel |-> flight.startFuel,
   endFuel |-> flight.endFuel, consumed |-> consumed, totals |-> total]

\* The open flight is closed. It consumed no less than the net drop and no more
\* than was burned, and took any time that is not negative. The totals count it
\* whether or not its row is saved.
Close(id) ==
  LET flight == flights[id] IN
  /\ flight # NoFlight
  /\ flights' = [flights EXCEPT ![id] = NoFlight]
  /\ \E consumed \in 0..flight.burned :
       /\ flight.startFuel - flight.endFuel <= consumed
       /\ totals' = [totals EXCEPT ![id] =
                       [number   |-> @.number + 1,
                        consumed |-> @.consumed + consumed,
                        seconds  |-> totals'[id].seconds]]
       /\ totals'[id].seconds >= totals[id].seconds
       /\ \/ rows' = Append(rows, RowOf(id, flight, consumed, totals'[id]))
          \/ rows' = rows

\* The open flight is dropped.
Drop(id) ==
  /\ flights[id] # NoFlight
  /\ flights' = [flights EXCEPT ![id] = NoFlight]
  /\ UNCHANGED <<totals, rows>>

\* Only the rows outlive the server.
Restart ==
  /\ flights' = [id \in AircraftIds |-> NoFlight]
  /\ totals' = [id \in AircraftIds |-> NoTotals]
  /\ UNCHANGED rows

Next ==
  \/ \E id \in AircraftIds, fuel \in FuelQuantities : Report(id, fuel)
  \/ \E id \in AircraftIds : Close(id) \/ Drop(id)
  \/ Restart

Spec == Init /\ [][Next]_ledgerVars
=============================================================================
