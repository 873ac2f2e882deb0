SPECIFICATION FairSpec
CONSTANTS
  m1 = m1
  m2 = m2
  p1 = p1
  p2 = p2
  Studied <- AllDemos
  TsHalf = 2
  TsPenMoves = 3
  KeyPins = {6, 7}
  OutPins = {6}
  InPins = {6, 7}
  KeyMoves = 3
  HwFiles = 2
  Mice <- TwoMice
  NoMouse = NoMouse
  Callers <- TwoProcesses
  NoCaller = NoCaller
  Units = 2
  DmaCalls = 2
  Sectors = 2
  Cells = 5
  Users <- TwoProcesses
  Pages <- UserPages
  DiskCalls = 2
  DiskLoads = 1
  Indexes <- SomeIndexes
  AdminMoves = 1
  I2cLoads = 5
  ChipLosses = 1
  LifeLoads = 2
  LifeFailures = 2
  Readers <- TwoProcesses
  Temperatures <- BelowZero
  DsReads = 2
  DsEvents = 1
  AmUsers <- TwoProcesses
  AmCalls = 4
  AmTroubles = 2
CHECK_DEADLOCK FALSE
INVARIANTS
  DemosTypeOK
  MouseSafeAlone
  DiskKeepsData
  SettingsStick
  ModulesComeAndGo
PROPERTIES
  TouchWorks
  KeysFollowButtons
  DmaAloneWorks
  SensorsRead
