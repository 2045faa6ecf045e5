SPECIFICATION Spec
CONSTANTS
  p1 = p1
  p2 = p2
  p3 = p3
  p4 = p4
  Processes = {p1, p2}
  CommandLine <- ScriptLines
  IntOf <- MCIntOf
  ReadableFiles = {"telemetry_1.txt"}
  ConfigFile = "telemetry_1.txt"
  OwnId = "the launcher's id"
INVARIANT
  UniqueAcrossProcesses
\* Every process ends.
CHECK_DEADLOCK FALSE
