\* Two clients with a descriptor each, so that events of both, or of one and of
\* the listening socket, come in one batch, in either order.  Every system call of
\* loop() and its handlers may fail at any time, but close().  No symmetry:
\* EveryClientReached is a liveness property.
CONSTANTS
  p1 = p1
  p2 = p2
  f1 = f1
  f2 = f2
  w1 = w1
  lfd = lfd
  Peer = {p1, p2}
  Fd = {f1, f2}
  ListenFd = lfd
  Worker = {w1}
  MaxReq = 1
  SndCap = 1
  RespLen <- Len2
  MaxEvents = 2
  MaxOut = 2
  Faulty = {}
  Faults = {"epoll_wait", "accept", "add", "mod", "recv", "send"}
SPECIFICATION FairSpec
INVARIANTS
  Mirror
  EventsAreCurrent
  OutArmed
  NoLostEdge
PROPERTIES
  NoLostClient
  EveryClientReached
\* The server stops when it is done, and clients need not do anything.
CHECK_DEADLOCK FALSE
