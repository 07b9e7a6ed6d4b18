\* Two clients of two requests each, two workers, one descriptor: the second
\* client gets the descriptor of the first while its requests are on their way.
\* The responses of one and two units fill the output buffer together.
CONSTANTS
  p1 = p1
  p2 = p2
  f1 = f1
  w1 = w1
  w2 = w2
  lfd = lfd
  Peer = {p1, p2}
  Fd = {f1}
  ListenFd = lfd
  Worker = {w1, w2}
  MaxReq = 2
  SndCap = 1
  RespLen <- Len123
  MaxEvents = 2
  MaxOut = 2
  Faulty = {}
  Faults = {}
SPECIFICATION Spec
SYMMETRY Symmetry
INVARIANTS
  TypeOK
  NoCrossTalk
  StreamIntact
  NothingLost
  GracefulDrain
PROPERTY
  ImplementsService
\* The server stops when it is done, and clients need not do anything.
CHECK_DEADLOCK FALSE
