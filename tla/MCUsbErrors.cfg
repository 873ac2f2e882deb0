SPECIFICATION Spec
CONSTANTS
  p1 = p1
  p2 = p2
  Core = Core
  Nobody = Nobody
  Procs <- MCProcs
  WRITES_IN_FLIGHT = 1
  BulkSize = 1
  MaxFaults = 1
SYMMETRY ProcSymmetry
CHECK_DEADLOCK FALSE
INVARIANTS
  ErrorReportedOnce
