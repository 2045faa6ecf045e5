----------------------------- MODULE MCServerApp -----------------------------
(* Two clients of one server.  The configurations differ in whether the     *)
(* clients share an aircraft id, in what they have to send, and in the      *)
(* faults that happen.                                                      *)
EXTENDS ServerApp

CONSTANTS c1, c2, t1, t2

MCTimestamps == {t1, t2}
MCTimeOf == [t \in {t1, t2} |-> IF t = t1 THEN 10 ELSE 12]

Record(id, timestamp, fuel) ==
  [AircraftId |-> id, Timestamp |-> timestamp, FuelQuantity |-> fuel]

SharedId == [c \in {c1, c2} |-> "A"]
OwnIds == [c \in {c1, c2} |-> IF c = c1 THEN "A" ELSE "B"]

\* Two records, and one of the same aircraft.
SharedTelemetry ==
  [c \in {c1, c2} |->
     IF c = c1 THEN <<Record("A", t1, 5), Record("A", t2, 3)>>
               ELSE <<Record("A", t2, 3)>>]

\* Two records after a line that is refused, and one after an empty line.
FleetTelemetry ==
  [c \in {c1, c2} |->
     IF c = c1 THEN <<Malformed, Record("A", t1, 5), Record("A", t2, 3)>>
               ELSE <<Blank, Record("B", t1, 3)>>]

\* One record each.
RestartTelemetry ==
  [c \in {c1, c2} |-> IF c = c1 THEN <<Record("A", t1, 5)>> ELSE <<Record("A", t2, 3)>>]
=============================================================================
