SPECIFICATION Spec
CONSTANTS
  eth0 = eth0
  eth1 = eth1
  a1 = a1
  a2 = a2
  NoAddr = NoAddr
  Ifs <- TwoIfs
  Addrs <- TwoAddrs
  MaxAddrs = 2
  MaxEvents = 2
  RcvBuf = 3
  RecvMsgs = 3
  MayFail = FALSE
CHECK_DEADLOCK FALSE
INVARIANTS
  NewAddressCurrent
