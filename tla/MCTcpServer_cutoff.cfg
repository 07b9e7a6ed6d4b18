\* A response longer than the output buffer may get, to a client that reads.
CONSTANTS
  p1 = p1
  f1 = f1
  w1 = w1
  lfd = lfd
  Peer = {p1}
  Fd = {f1}
  ListenFd = lfd
  Worker = {w1}
  MaxReq = 1
  SndCap = 1
  RespLen <- Len2
  MaxEvents = 1
  MaxOut = 1
  Faulty = {}
  Faults = {}
SPECIFICATION Spec
PROPERTIES
  OnlySlowClientsCutOff
\* The server stops when it is done, and clients need not do anything.
CHECK_DEADLOCK FALSE
