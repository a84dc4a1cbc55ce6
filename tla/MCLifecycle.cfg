SPECIFICATION FairSpec
CONSTANTS
  Clients = {c1, c2}
  Silent = {m}
  Nobody = nobody
  MaxPackets = 2
PROPERTIES StopEndsIoThread StopReturns ClientStopReturns ClientServed
CHECK_DEADLOCK FALSE
