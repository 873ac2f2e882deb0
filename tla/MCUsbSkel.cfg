SPECIFICATION Spec
CONSTANTS
  p1 = p1
  p2 = p2
  Core = Core
  Nobody = Nobody
  Procs <- MCProcs
  WRITES_IN_FLIGHT = 2
  BulkSize = 2
  MaxFaults = 1
SYMMETRY ProcSymmetry
CHECK_DEADLOCK FALSE
INVARIANTS
  TypeOK
  SlotsConserved
  NoUseAfterFree
  NoSubmitWhenDisconnected
  ReadUrbIdle
  QuietDuringReset
  LockedCallsReportOnce
PROPERTIES
  ErrorLostOnlyInRace
