SPECIFICATION FairSpec
CONSTANTS
  eth0 = eth0
  eth1 = eth1
  a1 = a1
  a2 = a2
  NoAddr = NoAddr
  Ifs <- OneIf
  Addrs <- TwoAddrs
  MaxAddrs = 1
  MaxEvents = 4
  RcvBuf = 3
  RecvMsgs = 2
  MayFail = TRUE
CHECK_DEADLOCK FALSE
INVARIANTS
  TypeOK
  NoAddressMissed
  AddressesCurrent
  LinksCurrent
PROPERTIES
  NodesKept
  CatchesUp
