SPECIFICATION MCSpec
CONSTANTS
  t1 = t1
  t2 = t2
  t3 = t3
  garbled = garbled
  NaN = NaN
  AircraftIds = {"A"}
  Timestamps <- MCTimestamps
  TimeOf <- MCTimeOf
  FuelQuantities = {0, 2, 3}
  MaxSamples = 4
  MaxTokens = 5
  MaxMembers = 2
INVARIANTS
  ProcessorTypeOK
  FuelWithinBounds
  ExactWhenOrdered
  SpanCovered
  RecordsReadBack
  CutPacketsHarmless
  LinesReadAlike
  SettingsReadBack
\* A file at its bound is complete.
CHECK_DEADLOCK FALSE
