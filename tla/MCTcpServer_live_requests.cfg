\* One client that sends three requests to two workers, with responses of one to
\* three units through a send buffer of one; the second request throws.  No
\* symmetry: it is unsound for liveness.
CONSTANTS
  p1 = p1
  f1 = f1
  w1 = w1
  w2 = w2
  lfd = lfd
  Peer = {p1}
  Fd = {f1}
  ListenFd = lfd
  Worker = {w1, w2}
  MaxReq = 3
  SndCap = 1
  RespLen <- Len123
  MaxEvents = 2
  MaxOut = 3
  Faulty = {2}
  Faults = {}
SPECIFICATION FairSpec
PROPERTIES
  EveryRequestAnswered
  DeadConnectionsClosed
  ShutdownCompletes
CHECK_DEADLOCK FALSE
