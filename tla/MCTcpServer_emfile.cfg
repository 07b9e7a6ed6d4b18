\* More clients than descriptors.
CONSTANTS
  p1 = p1
  p2 = p2
  f1 = f1
  w1 = w1
  lfd = lfd
  Peer = {p1, p2}
  Fd = {f1}
  ListenFd = lfd
  Worker = {w1}
  MaxReq = 0
  SndCap = 1
  RespLen <- Len1
  MaxEvents = 2
  MaxOut = 1
  Faulty = {}
  Faults = {}
SPECIFICATION FairSpec
PROPERTIES
  EveryClientAccepted
\* The server stops when it is done, and clients need not do anything.
CHECK_DEADLOCK FALSE
