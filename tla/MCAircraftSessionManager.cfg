SPECIFICATION MCSpec
CONSTANTS
  t1 = t1
  t2 = t2
  Header = Header
  AircraftIds = {"A", "B"}
  Timestamps <- MCTimestamps
  TimeOf <- MCTimeOf
  FuelQuantities = {3, 5}
  MaxSamples = 2
  MaxFlights = 3
  MaxLines = 3
INVARIANTS
  SessionTypeOK
  OneHeader
  RowsAddUp
PROPERTIES
  NeverOverwritten
  ImplementsLedger
