SPECIFICATION Spec
CONSTANTS
  c1 = c1
  c2 = c2
  t1 = t1
  t2 = t2
  Header = Header
  Malformed = Malformed
  Blank = Blank
  NoAircraft = NoAircraft
  NoStatistics = NoStatistics
  Connections = {c1, c2}
  AircraftIds = {"A", "B"}
  Timestamps <- MCTimestamps
  TimeOf <- MCTimeOf
  FuelQuantities = {3, 5}
  IdOf <- OwnIds
  Telemetry <- FleetTelemetry
  LineLength = 2
  Window = 4
  Faults = {"kill", "reset", "send"}
  MaxStarts = 1
  MaxClients = 1
INVARIANTS
  EndToEnd
\* The server blocks in accept once no client is left.
CHECK_DEADLOCK FALSE
