SPECIFICATION Spec
CONSTANTS
  c1 = c1
  c2 = c2
  t1 = t1
  t2 = t2
  Header = Header
  Malformed = Malformed
  Blank = Blank
  NoAircraft = NoAircraft
  NoStatistics = NoStatistics
  Connections = {c1, c2}
  AircraftIds = {"A", "B"}
  Timestamps <- MCTimestamps
  TimeOf <- MCTimeOf
  FuelQuantities = {3, 5}
  IdOf <- SharedId
  Telemetry <- SharedTelemetry
  LineLength = 2
  Window = 3
  Faults = {"kill", "reset", "vanish", "send", "disk", "crash", "bind"}
  MaxStarts = 2
  MaxClients = 1
INVARIANTS
  TypeOK
  NoOrphanFlight
  SamplesConserved
  FailsOnlyWhenShared
  CutOnlyWhenAborted
\* The server blocks in accept once no client is left.
CHECK_DEADLOCK FALSE
