-------------------------- MODULE TcpServerProofs --------------------------
(***************************************************************************)
(* Theorems about TcpServer, for any clients, descriptors, workers and     *)
(* bounds.                                                                 *)
(***************************************************************************)
EXTENDS TcpServerProps, FiniteSetTheorems, SequenceTheorems, TLAPS

\* The three tables hold the same descriptors.
Tables == DOMAIN sock = DOMAIN connections /\ DOMAIN epoll = DOMAIN connections

\* The IO thread handles events exactly while there are any, is where the first
\* one takes it, and has at most one event of each descriptor.
AtEvent == pc \in {"accept", "read", "write"}
Batch == /\ batch # <<>> <=> AtEvent
         /\ batch # <<>> => pc = Stage(batch)
         /\ \A i, j \in DOMAIN batch : batch[i].fd = batch[j].fd => i = j

IInv == TypeOK /\ Tables /\ Batch /\ EventsAreCurrent

-----------------------------------------------------------------------------
(* The event at hand.                                                       *)

\* A handler works on the connection its event was reported for; only
\* handleWrite() may meet none.
LEMMA AtHand ==
  ASSUME IInv, AtEvent
  PROVE  /\ batch # <<>> /\ batch \in Seq(Events)
         /\ Head(batch) = batch[1] /\ Head(batch) \in Events
         /\ Tail(batch) \in Seq(Events)
         /\ pc \in {"read", "write"} => This \in Fd
         /\ pc = "read" => Has(This) /\ connections[This].conn_id = Head(batch).conn_id
         /\ Has(This) => sock[This] \in Peer
  <1>1. batch # <<>> /\ batch \in Seq(Events)
    BY DEF IInv, TypeOK, LoopTypeOK, Batch
  <1>2. Head(batch) = batch[1] /\ Head(batch) \in Events /\ Tail(batch) \in Seq(Events)
    BY <1>1
  <1>3. pc \in {"read", "write"} => This \in Fd
    BY <1>1, <1>2 DEF IInv, Batch, Stage, Events, This
  <1>4. pc = "read" => Has(This) /\ connections[This].conn_id = Head(batch).conn_id
    <2> SUFFICES ASSUME pc = "read"
                 PROVE  Has(This) /\ connections[This].conn_id = Head(batch).conn_id
      OBVIOUS
    <2>1. 1 \in DOMAIN batch
      BY <1>1
    <2>2. This # ListenFd
      BY <1>3, NetworkAssumption
    <2> QED
      BY <1>2, <2>1, <2>2 DEF IInv, EventsAreCurrent, This
  <1>5. Has(This) => sock[This] \in Peer
    BY DEF IInv, TypeOK, SocketsTypeOK, Tables, Has
  <1> QED
    BY <1>1, <1>2, <1>3, <1>4, <1>5

\* Connections keep their conn_id, but for the one at the event at hand, which
\* may be closed.
Keeping(S) == \A fd \in DOMAIN connections \ S :
                 fd \in DOMAIN connections' /\ connections'[fd].conn_id = connections[fd].conn_id

\* The next event is taken up.
LEMMA NextEvent ==
  ASSUME IInv, AtEvent, Proceed(Tail(batch)), Keeping({This})
  PROVE  LoopTypeOK' /\ Batch' /\ EventsAreCurrent'
  <1> USE AtHand
  <1>1. LoopTypeOK'
    BY DEF LoopTypeOK, Proceed, Stage, IOStates
  <1>2. \A i \in DOMAIN batch' : /\ i + 1 \in DOMAIN batch /\ i + 1 # 1
                               /\ batch'[i] = batch[i + 1]
    BY DEF Proceed
  <1>3. \A i \in DOMAIN batch' : batch'[i].fd # This
    <2>1. 1 \in DOMAIN batch
      OBVIOUS
    <2> QED
      BY <1>2, <2>1 DEF IInv, Batch, This
  <1>4. Batch'
    <2>1. \A i, j \in DOMAIN batch' : batch'[i].fd = batch'[j].fd => i = j
      <3> SUFFICES ASSUME NEW i \in DOMAIN batch', NEW j \in DOMAIN batch',
                          batch'[i].fd = batch'[j].fd
                   PROVE  i = j
        OBVIOUS
      <3>1. i + 1 = j + 1
        BY <1>2 DEF IInv, Batch
      <3>2. i \in Nat /\ j \in Nat
        BY DEF Proceed
      <3> QED
        BY <3>1, <3>2
    <2>2. /\ batch' # <<>> <=> AtEvent'
          /\ batch' # <<>> => pc' = Stage(batch')
      BY DEF Proceed, Stage, AtEvent
    <2> QED
      BY <2>1, <2>2 DEF Batch, Stage
  <1>5. EventsAreCurrent'
    <2> SUFFICES ASSUME NEW i \in DOMAIN batch', batch'[i].fd # ListenFd
                 PROVE  /\ batch'[i].fd \in DOMAIN connections'
                        /\ connections'[batch'[i].fd].conn_id = batch'[i].conn_id
      BY DEF EventsAreCurrent, Has
    <2>1. Has(batch'[i].fd) /\ connections[batch'[i].fd].conn_id = batch'[i].conn_id
      BY <1>2 DEF IInv, EventsAreCurrent
    <2> QED
      BY <1>2, <2>1, <1>3 DEF Keeping, Has
  <1> QED
    BY <1>1, <1>4, <1>5

\* handleRead() is done with its event: handleWrite() gets the rest of it.
LEMMA AfterReading ==
  ASSUME IInv, pc = "read", Proceed(AfterRead), Keeping({This}),
         This \in DOMAIN connections' => connections'[This].conn_id = connections[This].conn_id
  PROVE  LoopTypeOK' /\ Batch' /\ EventsAreCurrent'
  <1> USE AtHand DEF AtEvent
  <1>1. CASE "OUT" \notin Head(batch).events
    <2>1. Proceed(Tail(batch))
      BY <1>1 DEF AfterRead, Proceed
    <2> QED
      BY <2>1, NextEvent
  <1>2. CASE "OUT" \in Head(batch).events
    <2> DEFINE e == [Head(batch) EXCEPT !.events = {"OUT"}]
    <2>1. e \in Events /\ e.fd = This /\ e.conn_id = Head(batch).conn_id /\ e.events = {"OUT"}
      BY DEF Events, This
    <2> HIDE DEF e
    <2>2. batch' = <<e>> \o Tail(batch)
      BY <1>2 DEF AfterRead, Proceed, e
    <2>3. /\ batch' \in Seq(Events) /\ batch' # <<>>
          /\ DOMAIN batch' = DOMAIN batch
          /\ batch'[1] = e /\ Head(batch') = e
          /\ \A i \in DOMAIN batch : i # 1 => batch'[i] = batch[i]
      BY <2>1, <2>2
    <2>4. pc' = "write"
      BY <2>1, <2>3, NetworkAssumption DEF Proceed, Stage
    <2>5. LoopTypeOK'
      BY <2>3, <2>4 DEF LoopTypeOK, IOStates
    <2>6. \A i \in DOMAIN batch : batch'[i].fd = batch[i].fd /\ batch'[i].conn_id = batch[i].conn_id
      BY <2>1, <2>3 DEF This
    <2>7. Batch'
      <3>1. \A i, j \in DOMAIN batch' : batch'[i].fd = batch'[j].fd => i = j
        BY <2>3, <2>6 DEF IInv, Batch
      <3>2. pc' = Stage(batch')
        BY DEF Proceed
      <3> QED
        BY <3>1, <3>2, <2>3, <2>4 DEF Batch, Stage
    <2>8. EventsAreCurrent'
      <3> SUFFICES ASSUME NEW i \in DOMAIN batch', batch'[i].fd # ListenFd
                   PROVE  \/ /\ batch'[i].fd \in DOMAIN connections'
                             /\ connections'[batch'[i].fd].conn_id = batch'[i].conn_id
                          \/ i = 1 /\ batch'[i].fd \notin DOMAIN connections'
        BY <2>4 DEF EventsAreCurrent, Has
      <3>1. CASE i = 1
        BY <3>1, <2>1, <2>3 DEF Has
      <3>2. CASE i # 1
        <4>1. i \in DOMAIN batch /\ 1 \in DOMAIN batch /\ batch'[i] = batch[i]
          BY <3>2, <2>3
        <4>2. batch[i].fd # This
          BY <3>2, <4>1 DEF IInv, Batch, This
        <4>3. Has(batch[i].fd) /\ connections[batch[i].fd].conn_id = batch[i].conn_id
          BY <3>2, <4>1 DEF IInv, EventsAreCurrent
        <4> QED
          BY <4>1, <4>2, <4>3 DEF Keeping, Has
      <3> QED
        BY <3>1, <3>2
    <2> QED
      BY <2>5, <2>7, <2>8
  <1> QED
    BY <1>1, <1>2

\* The IO thread stays where it is, and no connection comes or goes but one that
\* the loop of handleAccept() adds, or any when it has no event at hand.
LEMMA SameEvent ==
  ASSUME IInv, UNCHANGED <<pc, batch>>,
         \/ ~AtEvent
         \/ Keeping({}) /\ (DOMAIN connections' = DOMAIN connections \/ pc = "accept")
  PROVE  LoopTypeOK' /\ Batch' /\ EventsAreCurrent'
  <1>1. LoopTypeOK' /\ Batch'
    BY DEF IInv, TypeOK, LoopTypeOK, Batch, AtEvent, Stage
  <1>2. CASE ~AtEvent
    <2>1. batch' = <<>>
      BY <1>2 DEF IInv, Batch
    <2> QED
      BY <1>1, <2>1 DEF EventsAreCurrent
  <1>3. CASE Keeping({}) /\ (DOMAIN connections' = DOMAIN connections \/ pc = "accept")
    <2>1. ASSUME NEW i \in DOMAIN batch, batch[i].fd # ListenFd
          PROVE  \/ /\ batch[i].fd \in DOMAIN connections'
                    /\ connections'[batch[i].fd].conn_id = batch[i].conn_id
                 \/ i = 1 /\ pc = "write" /\ batch[i].fd \notin DOMAIN connections'
      <3>1. CASE Has(batch[i].fd) /\ connections[batch[i].fd].conn_id = batch[i].conn_id
        BY <1>3, <3>1 DEF Keeping, Has
      <3>2. CASE i = 1 /\ pc = "write" /\ ~Has(batch[i].fd)
        BY <1>3, <3>2 DEF Has
      <3> QED
        BY <2>1, <3>1, <3>2 DEF IInv, EventsAreCurrent
    <2>2. batch' = batch /\ pc' = pc
      OBVIOUS
    <2> QED
      BY <1>1, <2>1, <2>2 DEF EventsAreCurrent, Has
  <1> QED
    BY <1>1, <1>2, <1>3

\* The IO thread moves on outside the handlers.
LEMMA NoEvent ==
  ASSUME IInv, ~AtEvent, ~AtEvent', batch' = batch, pc' \in IOStates
  PROVE  LoopTypeOK' /\ Batch' /\ EventsAreCurrent'
  <1>1. batch' = <<>>
    BY DEF IInv, Batch
  <1> QED
    BY <1>1 DEF LoopTypeOK, Batch, EventsAreCurrent

-----------------------------------------------------------------------------
(* Pieces of the handlers.                                                  *)

LEMMA Disconnecting ==
  ASSUME IInv, NEW fd \in DOMAIN connections, Disconnect(fd), sndq' \in [Peer -> Seq(Units)]
  PROVE  /\ ClientsTypeOK' /\ SocketsTypeOK' /\ EpollTypeOK' /\ MemoryTypeOK' /\ Tables'
         /\ Keeping({fd}) /\ DOMAIN connections' = DOMAIN connections \ {fd}
  <1> USE DEF Disconnect, CloseSocket, Restrict
  <1>1. ClientsTypeOK'
    BY DEF IInv, TypeOK, ClientsTypeOK
  <1>2. SocketsTypeOK'
    BY DEF IInv, TypeOK, SocketsTypeOK, Tables
  <1>3. EpollTypeOK'
    BY DEF IInv, TypeOK, EpollTypeOK, Tables
  <1>4. MemoryTypeOK'
    BY DEF IInv, TypeOK, MemoryTypeOK, Decrement
  <1>5. Tables'
    BY DEF IInv, Tables
  <1>6. Keeping({fd}) /\ DOMAIN connections' = DOMAIN connections \ {fd}
    BY DEF Keeping
  <1> QED
    BY <1>1, <1>2, <1>3, <1>4, <1>5, <1>6

LEMMA Closing ==
  ASSUME IInv, NEW fd \in DOMAIN connections, CloseConnection(fd)
  PROVE  /\ ClientsTypeOK' /\ SocketsTypeOK' /\ EpollTypeOK' /\ MemoryTypeOK' /\ Tables'
         /\ Keeping({fd}) /\ DOMAIN connections' = DOMAIN connections \ {fd}
  <1>1. Disconnect(fd) /\ sndq' \in [Peer -> Seq(Units)]
    BY DEF CloseConnection, IInv, TypeOK, SocketsTypeOK
  <1> QED
    BY <1>1, Disconnecting

LEMMA Watching ==
  ASSUME IInv, NEW fd \in Fd, NEW p, NEW events \in SUBSET {"IN", "OUT"}, Watch(fd, p, events)
  PROVE  EpollTypeOK' /\ DOMAIN epoll' = DOMAIN epoll \cup {fd}
  <1>1. DOMAIN epoll' = DOMAIN epoll \cup {fd}
    BY DEF Watch
  <1>2. epoll' \in [DOMAIN epoll' -> SUBSET {"IN", "OUT"}]
    BY <1>1 DEF Watch, IInv, TypeOK, EpollTypeOK
  <1>3. rdy' \subseteq DOMAIN epoll' \cup {ListenFd}
    BY <1>1 DEF Watch, IInv, TypeOK, EpollTypeOK
  <1> QED
    BY <1>1, <1>2, <1>3 DEF IInv, TypeOK, EpollTypeOK

\* A buffer of a connection is written, its entry otherwise left alone.
LEMMA Writing ==
  ASSUME IInv, NEW fd \in DOMAIN connections, NEW c \in Connections,
         c.conn_id = connections[fd].conn_id,
         connections' = [connections EXCEPT ![fd] = c],
         UNCHANGED <<next_conn_id, active>>
  PROVE  /\ MemoryTypeOK' /\ DOMAIN connections' = DOMAIN connections /\ Keeping({})
  <1>1. MemoryTypeOK' /\ DOMAIN connections' = DOMAIN connections
    BY DEF IInv, TypeOK, MemoryTypeOK
  <1>2. Keeping({})
    BY DEF Keeping
  <1> QED
    BY <1>1, <1>2

LEMMA ArrivingTyped ==
  ASSUME IInv, NEW p \in Peer, Arrive(p), epoll' = epoll
  PROVE  EpollTypeOK'
  BY DEF IInv, TypeOK, EpollTypeOK, Tables, Arrive, FdsOf

-----------------------------------------------------------------------------
(* The inductive invariant.                                                 *)

LEMMA InitIInv == Init => IInv
  <1> SUFFICES ASSUME Init PROVE IInv
    OBVIOUS
  <1>1. ClientsTypeOK /\ SocketsTypeOK /\ EpollTypeOK
    BY NetworkAssumption DEF Init, NetworkInit, ClientsTypeOK, SocketsTypeOK, EpollTypeOK
  <1>2. LoopTypeOK /\ MemoryTypeOK
    BY DEF Init, LoopTypeOK, MemoryTypeOK, IOStates
  <1>3. WorkTypeOK
    BY DEF Init, WorkTypeOK, Queue, EmptyQueue
  <1>4. FlagsTypeOK
    BY DEF Init, FlagsTypeOK
  <1>5. Tables /\ Batch /\ EventsAreCurrent
    BY DEF Init, NetworkInit, Tables, Batch, AtEvent, EventsAreCurrent
  <1> QED
    BY <1>1, <1>2, <1>3, <1>4, <1>5 DEF IInv, TypeOK

\* What keeps its variables keeps its part of the invariant.
LEMMA Untouched ==
  ASSUME IInv
  PROVE  /\ UNCHANGED clients => ClientsTypeOK'
         /\ UNCHANGED <<rcvq, sndq, backlog, sock>> => SocketsTypeOK'
         /\ UNCHANGED <<epoll, rdy>> => EpollTypeOK'
         /\ UNCHANGED memory => MemoryTypeOK'
         /\ UNCHANGED <<queues, workers>> => WorkTypeOK'
         /\ UNCHANGED flags => FlagsTypeOK'
         /\ UNCHANGED <<sock, epoll, connections>> => Tables'
         /\ UNCHANGED <<pc, batch, connections>> => LoopTypeOK' /\ Batch' /\ EventsAreCurrent'
         /\ UNCHANGED connections => \A S : Keeping(S)
  <1>1. /\ UNCHANGED clients => ClientsTypeOK'
        /\ UNCHANGED <<rcvq, sndq, backlog, sock>> => SocketsTypeOK'
        /\ UNCHANGED <<epoll, rdy>> => EpollTypeOK'
    BY DEF IInv, TypeOK, clients, ClientsTypeOK, SocketsTypeOK, EpollTypeOK
  <1>2. UNCHANGED memory => MemoryTypeOK'
    BY DEF IInv, TypeOK, memory, MemoryTypeOK
  <1>3. UNCHANGED <<queues, workers>> => WorkTypeOK'
    BY DEF IInv, TypeOK, queues, workers, WorkTypeOK, Queue
  <1>4. UNCHANGED flags => FlagsTypeOK'
    BY DEF IInv, TypeOK, flags, FlagsTypeOK
  <1>5. UNCHANGED <<sock, epoll, connections>> => Tables'
    BY DEF IInv, Tables
  <1>6. UNCHANGED connections => \A S : Keeping(S)
    BY DEF Keeping
  <1>7. UNCHANGED <<pc, batch, connections>> => LoopTypeOK' /\ Batch' /\ EventsAreCurrent'
    BY <1>6, SameEvent
  <1> QED
    BY <1>1, <1>2, <1>3, <1>4, <1>5, <1>6, <1>7

\* The steps of clients.
LEMMA ClientsStep ==
  ASSUME IInv, NEW p \in Peer, Connect(p) \/ Client(p), UNCHANGED server
  PROVE  IInv'
  <1> USE NetworkAssumption
  <1>1. MemoryTypeOK' /\ WorkTypeOK' /\ FlagsTypeOK' /\ LoopTypeOK' /\ Batch' /\ EventsAreCurrent'
    BY Untouched DEF server, memory
  <1>2. UNCHANGED <<sock, epoll>>
    BY DEF Client, Connect, SendHalf, SendInvalid, Finish, Reset, Read
  <1>3. Tables'
    BY <1>2, Untouched DEF server, memory
  <1>4. EpollTypeOK'
    <2>1. CASE Connect(p)
      BY <2>1 DEF Connect, IInv, TypeOK, EpollTypeOK
    <2>2. CASE SendHalf(p) \/ SendInvalid(p) \/ Finish(p) \/ Reset(p)
      BY <1>2, <2>2, ArrivingTyped DEF SendHalf, SendInvalid, Finish, Reset
    <2>3. CASE Read(p)
      BY <2>3 DEF Read, FdsOf, IInv, TypeOK, EpollTypeOK, Tables
    <2> QED
      BY <2>1, <2>2, <2>3 DEF Client
  <1>5. CASE Connect(p)
    <2>1. ClientsTypeOK'
      BY <1>5 DEF Connect, IInv, TypeOK, ClientsTypeOK
    <2>2. SocketsTypeOK'
      BY <1>5 DEF Connect, IInv, TypeOK, SocketsTypeOK
    <2> QED
      BY <1>1, <1>3, <1>4, <2>1, <2>2 DEF IInv, TypeOK
  <1>6. CASE SendHalf(p)
    <2>1. sent[p] \in Nat /\ sent[p] < 2 * MaxReq
      BY <1>6 DEF SendHalf, Sending, IInv, TypeOK, ClientsTypeOK
    <2>2. Half(p, (sent[p] \div 2) + 1, (sent[p] % 2) + 1) \in Units
      BY <2>1 DEF Half, Units
    <2>3. ClientsTypeOK'
      BY <1>6, <2>1 DEF SendHalf, IInv, TypeOK, ClientsTypeOK
    <2>4. SocketsTypeOK'
      BY <1>6, <2>2 DEF SendHalf, IInv, TypeOK, SocketsTypeOK
    <2> QED
      BY <1>1, <1>3, <1>4, <2>3, <2>4 DEF IInv, TypeOK
  <1>7. CASE SendInvalid(p)
    <2>1. sent[p] \in Nat /\ sent[p] < 2 * MaxReq /\ sent[p] % 2 = 0
      BY <1>7 DEF SendInvalid, Sending, IInv, TypeOK, ClientsTypeOK
    <2>2. sent[p] + 2 \in 0..(2 * MaxReq)
      BY <2>1
    <2>3. Half(p, 0, 1) \in Units
      BY DEF Half, Units
    <2>4. ClientsTypeOK'
      BY <1>7, <2>2 DEF SendInvalid, IInv, TypeOK, ClientsTypeOK
    <2>5. SocketsTypeOK'
      BY <1>7, <2>3 DEF SendInvalid, IInv, TypeOK, SocketsTypeOK
    <2> QED
      BY <1>1, <1>3, <1>4, <2>4, <2>5 DEF IInv, TypeOK
  <1>8. CASE Finish(p)
    <2>1. ClientsTypeOK'
      BY <1>8 DEF Finish, IInv, TypeOK, ClientsTypeOK
    <2>2. SocketsTypeOK'
      BY <1>8, Untouched DEF Finish
    <2> QED
      BY <1>1, <1>3, <1>4, <2>1, <2>2 DEF IInv, TypeOK
  <1>9. CASE Reset(p)
    <2>1. ClientsTypeOK'
      BY <1>9 DEF Reset, IInv, TypeOK, ClientsTypeOK
    <2>2. SocketsTypeOK'
      BY <1>9 DEF Reset, IInv, TypeOK, SocketsTypeOK
    <2> QED
      BY <1>1, <1>3, <1>4, <2>1, <2>2 DEF IInv, TypeOK
  <1>10. CASE Read(p)
    <2>1. sndq[p] \in Seq(Units) /\ sndq[p] # <<>>
      BY <1>10 DEF Read, IInv, TypeOK, SocketsTypeOK
    <2>2. Head(sndq[p]) \in Units /\ Tail(sndq[p]) \in Seq(Units)
      BY <2>1
    <2>3. ClientsTypeOK'
      BY <1>10, <2>2 DEF Read, IInv, TypeOK, ClientsTypeOK
    <2>4. SocketsTypeOK'
      BY <1>10, <2>2 DEF Read, IInv, TypeOK, SocketsTypeOK
    <2> QED
      BY <1>1, <1>3, <1>4, <2>3, <2>4 DEF IInv, TypeOK
  <1> QED
    BY <1>5, <1>6, <1>7, <1>8, <1>9, <1>10 DEF Client

\* The steps of workers.
LEMMA WorkersStep ==
  ASSUME IInv, NEW w \in Worker, Work(w)
  PROVE  IInv'
  <1>1. UNCHANGED <<pc, batch, memory, flags, network>>
    BY DEF Work, WorkerPop, WorkerRespond, WorkerThrow, WorkerExit
  <1>2. /\ ClientsTypeOK' /\ SocketsTypeOK' /\ EpollTypeOK' /\ LoopTypeOK' /\ MemoryTypeOK'
        /\ FlagsTypeOK' /\ Tables' /\ Batch' /\ EventsAreCurrent'
    BY <1>1, Untouched DEF network, memory
  <1>3. WorkTypeOK'
    <2>1. CASE WorkerPop(w)
      <3>1. /\ request_queue.items \in Seq(Messages) /\ request_queue.items # <<>>
            /\ request_queue.stopped \in BOOLEAN
            /\ DOMAIN request_queue = {"items", "stopped"}
        BY <2>1 DEF WorkerPop, CanPop, IInv, TypeOK, WorkTypeOK, Queue
      <3>2. Queue(request_queue, Messages)'
        BY <2>1, <3>1 DEF WorkerPop, Pop, Queue
      <3>3. Front(request_queue) \in Messages
        BY <3>1 DEF Front
      <3>4. DOMAIN busy' \subseteq Worker /\ busy' \in [DOMAIN busy' -> Messages]
        BY <2>1, <3>3 DEF WorkerPop, Insert, IInv, TypeOK, WorkTypeOK
      <3> QED
        BY <2>1, <3>2, <3>4 DEF WorkerPop, IInv, TypeOK, WorkTypeOK, Queue
    <2>2. CASE WorkerRespond(w)
      <3>1. /\ response_queue.items \in Seq(Messages)
            /\ response_queue.stopped \in BOOLEAN
            /\ DOMAIN response_queue = {"items", "stopped"}
        BY DEF IInv, TypeOK, WorkTypeOK, Queue
      <3>2. Reply(busy[w]) \in Messages
        BY <2>2 DEF WorkerRespond, Reply, Messages, IInv, TypeOK, WorkTypeOK
      <3>3. Queue(response_queue, Messages)'
        BY <2>2, <3>1, <3>2 DEF WorkerRespond, Push, Queue
      <3>4. DOMAIN busy' \subseteq Worker /\ busy' \in [DOMAIN busy' -> Messages]
        BY <2>2 DEF WorkerRespond, Finished, Restrict, IInv, TypeOK, WorkTypeOK
      <3> QED
        BY <2>2, <3>3, <3>4 DEF WorkerRespond, IInv, TypeOK, WorkTypeOK, Queue
    <2>3. CASE WorkerThrow(w)
      BY <2>3 DEF WorkerThrow, Finished, Restrict, queues, IInv, TypeOK, WorkTypeOK, Queue
    <2>4. CASE WorkerExit(w)
      BY <2>4 DEF WorkerExit, queues, IInv, TypeOK, WorkTypeOK, Queue
    <2> QED
      BY <2>1, <2>2, <2>3, <2>4 DEF Work
  <1> QED
    BY <1>2, <1>3 DEF IInv, TypeOK

\* The steps of the IO thread outside the handlers, and the signal.
LEMMA LoopStep ==
  ASSUME IInv, Signal \/ Start \/ EpollWait \/ LoopExit
  PROVE  IInv'
  <1> USE NetworkAssumption, ServerAssumption
  <1>1. UNCHANGED <<memory, queues, workers, clients, rcvq, sndq, backlog, sock, epoll>>
    BY DEF Signal, Start, EpollWait, LoopExit, network
  <1>2. ClientsTypeOK' /\ SocketsTypeOK' /\ MemoryTypeOK' /\ WorkTypeOK' /\ Tables'
    BY <1>1, Untouched DEF memory
  <1>3. FlagsTypeOK'
    BY DEF Signal, Start, EpollWait, LoopExit, flags, IInv, TypeOK, FlagsTypeOK
  <1>4. CASE Signal \/ Start \/ LoopExit
    <2>1. EpollTypeOK'
      BY <1>4, Untouched DEF Signal, Start, LoopExit, network
    <2>2. LoopTypeOK' /\ Batch' /\ EventsAreCurrent'
      <3>1. CASE Signal
        BY <3>1, Untouched DEF Signal, memory
      <3>2. CASE Start \/ LoopExit
        BY <3>2, NoEvent DEF Start, LoopExit, AtEvent, IOStates
      <3> QED
        BY <1>4, <3>1, <3>2
    <2> QED
      BY <1>2, <1>3, <2>1, <2>2 DEF IInv, TypeOK
  <1>5. CASE EpollWait
    <2>1. Reported \subseteq Events
      <3> SUFFICES ASSUME NEW fd \in rdy, fd # ListenFd, Pending(fd) # {}
                   PROVE  [fd |-> fd, events |-> Pending(fd), conn_id |-> connections[fd].conn_id]
                            \in Events
        BY DEF Reported, Events
      <3>1. fd \in Fd /\ fd \in DOMAIN connections
        BY DEF IInv, TypeOK, EpollTypeOK, Tables
      <3>2. Pending(fd) \subseteq {"IN", "OUT"}
        BY DEF Pending
      <3>3. connections[fd].conn_id \in Nat
        BY <3>1 DEF IInv, TypeOK, MemoryTypeOK, Connections
      <3> QED
        BY <3>1, <3>2, <3>3 DEF Events
    <2>2. \A e \in Reported : e.fd \in rdy
      BY DEF Reported
    <2>3. \A e, f \in Reported : e.fd = f.fd => e = f
      <3>1. \A e \in Reported : e = IF e.fd = ListenFd
                                    THEN [fd |-> ListenFd, events |-> {"IN"}, conn_id |-> 0]
                                    ELSE [fd |-> e.fd, events |-> Pending(e.fd),
                                          conn_id |-> connections[e.fd].conn_id]
        BY DEF Reported
      <3> QED
        BY <3>1
    <2>4. \A e \in Reported : \/ e.fd = ListenFd
                              \/ Has(e.fd) /\ connections[e.fd].conn_id = e.conn_id
      <3> SUFFICES ASSUME NEW fd \in rdy, fd # ListenFd
                   PROVE  Has(fd)
        BY DEF Reported
      <3> QED
        BY DEF Has, IInv, TypeOK, EpollTypeOK, Tables
    <2>5. EpollTypeOK'
      BY <1>1, <1>5, <2>2 DEF EpollWait, IInv, TypeOK, EpollTypeOK
    <2>6. PICK b \in Injection(1..Fitting, Reported) : Proceed(b)
      BY <1>5 DEF EpollWait
    <2>7. Fitting \in Nat
      <3>1. IsFiniteSet(Reported)
        <4>1. IsFiniteSet(Fd \cup {ListenFd})
          BY FS_AddElement
        <4>2. [e \in Reported |-> e.fd] \in Injection(Reported, Fd \cup {ListenFd})
          BY <2>1, <2>3 DEF Events, Injection, IsInjective
        <4> QED
          BY <4>1, <4>2, FS_Injection
      <3> QED
        BY <3>1, FS_CardinalityType DEF Fitting
    <2>8. /\ b \in Seq(Events) /\ DOMAIN b = 1..Fitting
          /\ \A i \in DOMAIN b : b[i] \in Reported
          /\ \A i, j \in DOMAIN b : b[i] = b[j] => i = j
      BY <2>1, <2>6, <2>7 DEF Injection, IsInjective
    <2>9. batch' = b /\ pc' = Stage(b)
      BY <2>6 DEF Proceed
    <2>10. LoopTypeOK'
      BY <2>8, <2>9 DEF LoopTypeOK, Stage, IOStates
    <2>11. Batch'
      <3>1. \A i, j \in DOMAIN b : b[i].fd = b[j].fd => i = j
        BY <2>3, <2>8
      <3>2. b # <<>> <=> pc' \in {"accept", "read", "write"}
        BY <2>9 DEF Stage
      <3> QED
        BY <2>9, <3>1, <3>2 DEF Batch, AtEvent, Stage
    <2>12. EventsAreCurrent'
      BY <1>1, <2>4, <2>8, <2>9 DEF EventsAreCurrent, Has, memory
    <2> QED
      BY <1>2, <1>3, <2>5, <2>10, <2>11, <2>12 DEF IInv, TypeOK
  <1> QED
    BY <1>4, <1>5

\* handleAccept().
LEMMA AcceptStep ==
  ASSUME IInv, (\E fd \in Fd : Accept(fd)) \/ AcceptTurnAway \/ AcceptDone
  PROVE  IInv'
  <1> USE NetworkAssumption
  <1>1. WorkTypeOK' /\ FlagsTypeOK'
    BY Untouched DEF Accept, AcceptTurnAway, AcceptDone, server
  <1>2. ASSUME NEW fd \in Fd, Accept(fd) PROVE IInv'
    <2> DEFINE p == Head(backlog)
               c == [conn_id |-> next_conn_id, input_buffer |-> <<>>, output_buffer |-> <<>>]
    <2>1. p \in Peer /\ Tail(backlog) \in Seq(Peer)
      BY <1>2 DEF Accept, IInv, TypeOK, SocketsTypeOK
    <2>2. c \in Connections
      BY DEF Connections, IInv, TypeOK, MemoryTypeOK
    <2>3. fd \notin DOMAIN sock /\ fd \notin DOMAIN connections
      BY <1>2 DEF Accept, IInv, Tables
    <2>4. connections' = Insert(connections, fd, c)
      BY <1>2 DEF Accept
    <2>5. Watch(fd, p, {"IN"})
      BY <1>2 DEF Accept
    <2>6. /\ backlog' = Tail(backlog) /\ link' = [link EXCEPT ![p] = "open"]
          /\ sock' = Insert(sock, fd, p)
          /\ UNCHANGED <<mode, sent, got, rcvq, sndq>>
      BY <1>2 DEF Accept
    <2>7. next_conn_id' = next_conn_id + 1 /\ active' = active + 1
      BY <1>2 DEF Accept
    <2>8. pc = "accept" /\ UNCHANGED <<pc, batch>>
      BY <1>2 DEF Accept, Stay
    <2> HIDE DEF p, c
    <2>9. ClientsTypeOK'
      BY <2>6 DEF IInv, TypeOK, ClientsTypeOK
    <2>10. SocketsTypeOK'
      BY <2>1, <2>6 DEF Insert, IInv, TypeOK, SocketsTypeOK
    <2>11. EpollTypeOK' /\ DOMAIN epoll' = DOMAIN epoll \cup {fd}
      BY <2>5, Watching
    <2>12. MemoryTypeOK'
      BY <2>2, <2>4, <2>7 DEF Insert, IInv, TypeOK, MemoryTypeOK
    <2>13. Tables'
      BY <2>4, <2>6, <2>11 DEF Insert, IInv, Tables
    <2>14. Keeping({})
      BY <2>4 DEF Insert, Keeping
    <2>15. LoopTypeOK' /\ Batch' /\ EventsAreCurrent'
      BY <2>8, <2>14, SameEvent
    <2> QED
      BY <1>1, <2>9, <2>10, <2>11, <2>12, <2>13, <2>15 DEF IInv, TypeOK
  <1>3. CASE AcceptTurnAway
    <2>1. ClientsTypeOK'
      BY <1>3 DEF AcceptTurnAway, IInv, TypeOK, ClientsTypeOK
    <2>2. SocketsTypeOK'
      BY <1>3 DEF AcceptTurnAway, IInv, TypeOK, SocketsTypeOK
    <2>3. EpollTypeOK' /\ MemoryTypeOK' /\ Tables' /\ LoopTypeOK' /\ Batch' /\ EventsAreCurrent'
      BY <1>3, Untouched DEF AcceptTurnAway, server, memory
    <2> QED
      BY <1>1, <2>1, <2>2, <2>3 DEF IInv, TypeOK
  <1>4. CASE AcceptDone
    <2>1. ClientsTypeOK' /\ SocketsTypeOK' /\ EpollTypeOK' /\ MemoryTypeOK' /\ Tables' /\ Keeping({This})
      BY <1>4, Untouched DEF AcceptDone, network, memory
    <2>2. LoopTypeOK' /\ Batch' /\ EventsAreCurrent'
      BY <1>4, <2>1, NextEvent DEF AcceptDone, AtEvent
    <2> QED
      BY <1>1, <2>1, <2>2 DEF IInv, TypeOK
  <1> QED
    BY <1>2, <1>3, <1>4

LEMMA Halves == \A n \in Nat : n \div 2 \in Nat /\ 2 * (n \div 2) <= n
  OBVIOUS

\* decode() returns requests of the connection it decodes for.
LEMMA DecodedTyped ==
  ASSUME IInv, NEW fd \in DOMAIN connections, ~Invalid(connections[fd].input_buffer)
  PROVE  Decoded(fd, connections[fd].input_buffer) \in Seq(Messages)
  <1> DEFINE in == connections[fd].input_buffer
  <1>1. in \in Seq(Units) /\ connections[fd].conn_id \in Nat /\ fd \in Fd
    BY DEF IInv, TypeOK, MemoryTypeOK, Connections
  <1>2. \A i \in DOMAIN in : in[i] \in Units /\ in[i].num # 0
    BY <1>1 DEF Invalid, in
  <1> HIDE DEF in
  <1>5. Len(in) \div 2 \in Nat /\ 2 * (Len(in) \div 2) <= Len(in)
    BY <1>1, Halves
  <1>3. \A i \in 1..(Len(in) \div 2) : 2 * i \in DOMAIN in
    BY <1>1, <1>5
  <1>4. \A i \in 1..(Len(in) \div 2) : in[2 * i].from \in Peer /\ in[2 * i].num \in 1..MaxReq
    BY <1>2, <1>3, NetworkAssumption DEF Units
  <1>6. \A i \in 1..(Len(in) \div 2) :
          [fd |-> fd, conn_id |-> connections[fd].conn_id,
           from |-> in[2 * i].from, num |-> in[2 * i].num] \in Messages
    BY <1>1, <1>4 DEF Messages
  <1>7. Decoded(fd, in) \in [1..(Len(in) \div 2) -> Messages]
    BY <1>6 DEF Decoded
  <1>8. Decoded(fd, in) \in Seq(Messages)
    BY <1>5, <1>7
  <1> QED
    BY <1>8 DEF in

\* A response is encoded in units of its client, at least one.
LEMMA EncodedTyped ==
  ASSUME NEW r \in Messages
  PROVE  /\ Encoded(r) \in Seq(Units) /\ Encoded(r) # <<>>
         /\ \A i \in DOMAIN Encoded(r) : Encoded(r)[i].from = r.from /\ Encoded(r)[i].num = r.num
  <1>1. RespLen[r.num] \in Nat \ {0} /\ r.from \in Peer /\ r.num \in 0..MaxReq
    BY NetworkAssumption DEF Messages
  <1>2. \A k \in 1..RespLen[r.num] : [from |-> r.from, num |-> r.num, part |-> k] \in Units
    BY <1>1 DEF Units
  <1>3. Encoded(r) \in Seq(Units)
    BY <1>1, <1>2 DEF Encoded
  <1> QED
    BY <1>1, <1>3 DEF Encoded

\* A buffer of a connection is replaced.
LEMMA Buffers ==
  ASSUME NEW c \in Connections, NEW b \in Seq(Units)
  PROVE  /\ [c EXCEPT !.input_buffer = b] \in Connections
         /\ [c EXCEPT !.output_buffer = b] \in Connections
         /\ [c EXCEPT !.input_buffer = b].conn_id = c.conn_id
         /\ [c EXCEPT !.output_buffer = b].conn_id = c.conn_id
  BY DEF Connections

\* handleRead().
LEMMA ReadStep ==
  ASSUME IInv, RecvData \/ RecvClose \/ DecodeInvalid \/ DecodeEnqueue
  PROVE  IInv'
  <1>1. /\ pc = "read" /\ AtEvent
        /\ Has(This) /\ This \in DOMAIN connections /\ This \in Fd /\ sock[This] \in Peer
    BY AtHand DEF AtEvent, Has, RecvData, RecvClose, DecodeInvalid, DecodeEnqueue, RecvAgain
  <1>2. FlagsTypeOK'
    BY Untouched DEF RecvData, RecvClose, DecodeInvalid, DecodeEnqueue
  <1>3. connections[This] \in Connections
    BY <1>1 DEF IInv, TypeOK, MemoryTypeOK
  <1>4. CASE RecvData
    <2> DEFINE p == sock[This]
               b == Append(connections[This].input_buffer, Head(rcvq[p]))
               c == [connections[This] EXCEPT !.input_buffer = b]
    <2>1. rcvq[p] \in Seq(Units) /\ rcvq[p] # <<>>
      BY <1>1, <1>4 DEF RecvData, IInv, TypeOK, SocketsTypeOK
    <2>2. Head(rcvq[p]) \in Units /\ Tail(rcvq[p]) \in Seq(Units)
      BY <2>1
    <2>3. c \in Connections /\ c.conn_id = connections[This].conn_id
      <3>1. b \in Seq(Units)
        BY <1>3, <2>2 DEF Connections
      <3> HIDE DEF b
      <3> QED
        BY <1>3, <3>1, Buffers
    <2>4. connections' = [connections EXCEPT ![This] = c]
      BY <1>4 DEF RecvData
    <2>5. rcvq' = [rcvq EXCEPT ![p] = Tail(@)]
      BY <1>4 DEF RecvData
    <2>11. rcvq' \in [Peer -> Seq(Units)]
      BY <2>2, <2>5 DEF IInv, TypeOK, SocketsTypeOK
    <2> HIDE DEF p, c
    <2>6. MemoryTypeOK' /\ DOMAIN connections' = DOMAIN connections /\ Keeping({})
      BY <1>1, <1>4, <2>3, <2>4, Writing DEF RecvData
    <2>7. SocketsTypeOK'
      BY <1>4, <2>11 DEF RecvData, IInv, TypeOK, SocketsTypeOK
    <2>8. ClientsTypeOK' /\ EpollTypeOK' /\ WorkTypeOK'
      BY <1>4, Untouched DEF RecvData
    <2>9. Tables'
      BY <1>4, <2>6 DEF RecvData, IInv, Tables
    <2>10. LoopTypeOK' /\ Batch' /\ EventsAreCurrent'
      BY <1>4, <2>6, SameEvent DEF RecvData, Stay
    <2> QED
      BY <1>2, <2>6, <2>7, <2>8, <2>9, <2>10 DEF IInv, TypeOK
  <1>5. CASE RecvClose \/ DecodeInvalid
    <2>1. CloseConnection(This) /\ Proceed(AfterRead)
      BY <1>5 DEF RecvClose, DecodeInvalid
    <2>2. /\ ClientsTypeOK' /\ SocketsTypeOK' /\ EpollTypeOK' /\ MemoryTypeOK' /\ Tables'
          /\ Keeping({This}) /\ DOMAIN connections' = DOMAIN connections \ {This}
      BY <1>1, <2>1, Closing
    <2>3. LoopTypeOK' /\ Batch' /\ EventsAreCurrent'
      BY <1>1, <2>1, <2>2, AfterReading
    <2>4. WorkTypeOK'
      BY <1>5, Untouched DEF RecvClose, DecodeInvalid
    <2> QED
      BY <1>2, <2>2, <2>3, <2>4 DEF IInv, TypeOK
  <1>6. CASE DecodeEnqueue
    <2> DEFINE in == connections[This].input_buffer
               c == [connections[This] EXCEPT !.input_buffer = Rest(in)]
    <2>1. Rest(in) \in Seq(Units)
      <3>1. in \in Seq(Units)
        BY <1>3 DEF Connections
      <3> HIDE DEF in
      <3>2. Len(in) \in Nat /\ Len(in) \div 2 \in Nat
        BY <3>1, Halves
      <3>3. 2 * (Len(in) \div 2) + 1 \in Nat
        BY <3>2
      <3> QED
        BY <3>1, <3>2, <3>3 DEF Rest
    <2>2. c \in Connections /\ c.conn_id = connections[This].conn_id
      BY <1>3, <2>1, Buffers
    <2>3. connections' = [connections EXCEPT ![This] = c]
      BY <1>6 DEF DecodeEnqueue
    <2>4. request_queue' = PushAll(request_queue, Decoded(This, in)) /\ ~Invalid(in)
      BY <1>6 DEF DecodeEnqueue
    <2>5. Decoded(This, in) \in Seq(Messages)
      BY <1>1, <2>4, DecodedTyped
    <2> HIDE DEF c, in
    <2>6. MemoryTypeOK' /\ DOMAIN connections' = DOMAIN connections /\ Keeping({})
      BY <1>1, <1>6, <2>2, <2>3, Writing DEF DecodeEnqueue
    <2>7. WorkTypeOK'
      <3>1. /\ request_queue.items \in Seq(Messages)
            /\ request_queue.stopped \in BOOLEAN
            /\ DOMAIN request_queue = {"items", "stopped"}
        BY DEF IInv, TypeOK, WorkTypeOK, Queue
      <3>2. Queue(request_queue, Messages)'
        BY <2>4, <2>5, <3>1 DEF PushAll, Queue
      <3> QED
        BY <1>6, <3>2 DEF DecodeEnqueue, workers, IInv, TypeOK, WorkTypeOK, Queue
    <2>8. ClientsTypeOK' /\ SocketsTypeOK' /\ EpollTypeOK'
      BY <1>6, Untouched DEF DecodeEnqueue, network
    <2>9. Tables'
      BY <1>6, <2>6 DEF DecodeEnqueue, network, IInv, Tables
    <2>10. LoopTypeOK' /\ Batch' /\ EventsAreCurrent'
      <3>1. Keeping({This}) /\ (This \in DOMAIN connections' =>
                                  connections'[This].conn_id = connections[This].conn_id)
        BY <1>1, <2>6 DEF Keeping
      <3> QED
        BY <1>1, <1>6, <3>1, AfterReading DEF DecodeEnqueue
    <2> QED
      BY <1>2, <2>6, <2>7, <2>8, <2>9, <2>10 DEF IInv, TypeOK
  <1> QED
    BY <1>4, <1>5, <1>6

\* handleWrite().
LEMMA WriteStep ==
  ASSUME IInv, WriteGone \/ (\E n \in 1..SndCap : SendSome(n)) \/ SendRest \/ SendAgain \/ SendFails \/ SendRestClose
  PROVE  IInv'
  <1>1. pc = "write" /\ AtEvent /\ This \in Fd
    BY AtHand DEF AtEvent, WriteGone, SendSome, Transfer, SendRest, SendAgain, SendFails, SendRestClose
  <1>2. WorkTypeOK' /\ FlagsTypeOK'
    BY Untouched DEF WriteGone, SendSome, SendRest, SendAgain, SendFails, SendRestClose
  <1>3. ASSUME NEW n \in Nat, Transfer(n)
        PROVE  /\ This \in DOMAIN connections /\ connections[This] \in Connections
               /\ sock[This] \in Peer /\ connections[This].output_buffer \in Seq(Units)
               /\ n <= Len(connections[This].output_buffer)
               /\ sndq' \in [Peer -> Seq(Units)]
    <2>1. This \in DOMAIN connections /\ sock[This] \in Peer
      BY <1>1, <1>3, AtHand DEF Transfer, Has
    <2>2. connections[This] \in Connections
      BY <2>1 DEF IInv, TypeOK, MemoryTypeOK
    <2>3. connections[This].output_buffer \in Seq(Units)
      BY <2>2 DEF Connections
    <2>4. n <= Len(connections[This].output_buffer)
      BY <1>3 DEF Transfer
    <2>5. SubSeq(connections[This].output_buffer, 1, n) \in Seq(Units)
      BY <2>3, <2>4
    <2>6. sndq' \in [Peer -> Seq(Units)]
      BY <1>3, <2>1, <2>5 DEF Transfer, IInv, TypeOK, SocketsTypeOK
    <2> QED
      BY <2>1, <2>2, <2>3, <2>4, <2>6
  <1>4. CASE WriteGone \/ SendAgain
    <2>1. /\ ClientsTypeOK' /\ SocketsTypeOK' /\ EpollTypeOK' /\ MemoryTypeOK' /\ Tables'
          /\ Keeping({This})
      BY <1>4, Untouched DEF WriteGone, SendAgain, network, memory
    <2>2. LoopTypeOK' /\ Batch' /\ EventsAreCurrent'
      BY <1>1, <1>4, <2>1, NextEvent DEF WriteGone, SendAgain
    <2> QED
      BY <1>2, <2>1, <2>2 DEF IInv, TypeOK
  <1>5. ASSUME NEW n \in 1..SndCap, SendSome(n) PROVE IInv'
    <2> DEFINE out == connections[This].output_buffer
               c == [connections[This] EXCEPT !.output_buffer = Erase(out, n)]
    <2>1. Transfer(n) /\ n \in Nat
      BY <1>5 DEF SendSome
    <2>2. Erase(out, n) \in Seq(Units)
      BY <1>3, <2>1 DEF Erase
    <2>3. c \in Connections /\ c.conn_id = connections[This].conn_id
      BY <1>3, <2>1, <2>2, Buffers
    <2>4. connections' = [connections EXCEPT ![This] = c]
      BY <1>5 DEF SendSome
    <2> HIDE DEF c, out
    <2>5. MemoryTypeOK' /\ DOMAIN connections' = DOMAIN connections /\ Keeping({})
      BY <1>3, <1>5, <2>1, <2>3, <2>4, Writing DEF SendSome
    <2>6. SocketsTypeOK'
      BY <1>3, <1>5, <2>1 DEF SendSome, IInv, TypeOK, SocketsTypeOK
    <2>7. ClientsTypeOK' /\ EpollTypeOK'
      BY <1>5, Untouched DEF SendSome
    <2>8. Tables'
      BY <1>5, <2>5 DEF SendSome, IInv, Tables
    <2>9. LoopTypeOK' /\ Batch' /\ EventsAreCurrent'
      BY <1>5, <2>5, SameEvent DEF SendSome, Stay
    <2> QED
      BY <1>2, <2>5, <2>6, <2>7, <2>8, <2>9 DEF IInv, TypeOK
  <1>6. CASE SendRest
    <2> DEFINE c == [connections[This] EXCEPT !.output_buffer = <<>>]
    <2>1. /\ This \in DOMAIN connections /\ connections[This] \in Connections
          /\ sndq' \in [Peer -> Seq(Units)]
      <3>1. This \in DOMAIN connections
        BY <1>6 DEF SendRest, Transfer, Has
      <3>2. Len(connections[This].output_buffer) \in Nat
        BY <3>1 DEF IInv, TypeOK, MemoryTypeOK, Connections
      <3> QED
        BY <1>3, <1>6, <3>2 DEF SendRest
    <2>2. c \in Connections /\ c.conn_id = connections[This].conn_id
      <3>1. <<>> \in Seq(Units)
        OBVIOUS
      <3> QED
        BY <2>1, <3>1, Buffers
    <2>3. connections' = [connections EXCEPT ![This] = c]
      BY <1>6 DEF SendRest
    <2> HIDE DEF c
    <2>4. MemoryTypeOK' /\ DOMAIN connections' = DOMAIN connections /\ Keeping({})
      BY <1>6, <2>1, <2>2, <2>3, Writing DEF SendRest
    <2>5. SocketsTypeOK' /\ ClientsTypeOK'
      BY <1>6, <2>1, Untouched DEF SendRest, Modify, IInv, TypeOK, SocketsTypeOK
    <2>6. EpollTypeOK' /\ DOMAIN epoll' = DOMAIN epoll \cup {This}
      BY <1>1, <1>6, Watching DEF SendRest, Modify
    <2>7. Tables'
      BY <1>6, <2>1, <2>4, <2>6 DEF SendRest, Modify, IInv, Tables
    <2>8. LoopTypeOK' /\ Batch' /\ EventsAreCurrent'
      BY <1>1, <1>6, <2>4, NextEvent DEF SendRest, Keeping
    <2> QED
      BY <1>2, <2>4, <2>5, <2>6, <2>7, <2>8 DEF IInv, TypeOK
  <1>7. CASE SendFails \/ SendRestClose
    <2>1. This \in DOMAIN connections /\ Disconnect(This) /\ sndq' \in [Peer -> Seq(Units)]
      <3>1. CASE SendFails
        BY <3>1 DEF SendFails, Has, CloseConnection, IInv, TypeOK, SocketsTypeOK
      <3>2. CASE SendRestClose
        <4>1. Len(connections[This].output_buffer) \in Nat
          <5>1. connections[This] \in Connections
            BY <3>2 DEF SendRestClose, Transfer, Has, IInv, TypeOK, MemoryTypeOK
          <5> QED
            BY <5>1 DEF Connections
        <4> QED
          BY <1>3, <3>2, <4>1 DEF SendRestClose
      <3> QED
        BY <1>7, <3>1, <3>2
    <2>2. /\ ClientsTypeOK' /\ SocketsTypeOK' /\ EpollTypeOK' /\ MemoryTypeOK' /\ Tables'
          /\ Keeping({This})
      BY <2>1, Disconnecting
    <2>3. LoopTypeOK' /\ Batch' /\ EventsAreCurrent'
      BY <1>1, <1>7, <2>2, NextEvent DEF SendFails, SendRestClose
    <2> QED
      BY <1>2, <2>2, <2>3 DEF IInv, TypeOK
  <1> QED
    BY <1>4, <1>5, <1>6, <1>7

\* drainResponseQueue().
LEMMA DrainStep ==
  ASSUME IInv, DrainStale \/ DrainOverflow \/ DrainAppend \/ DrainClose \/ DrainDone
  PROVE  IInv'
  <1>1. pc = "drain" /\ ~AtEvent
    BY DEF AtEvent, DrainStale, DrainOverflow, DrainAppend, DrainClose, DrainDone, DrainPop
  <1>2. FlagsTypeOK'
    BY Untouched DEF DrainStale, DrainOverflow, DrainAppend, DrainClose, DrainDone, DrainPop
  <1>3. CASE DrainDone
    <2>1. /\ ClientsTypeOK' /\ SocketsTypeOK' /\ EpollTypeOK' /\ MemoryTypeOK' /\ WorkTypeOK'
          /\ Tables'
      BY <1>3, Untouched DEF DrainDone, network, memory
    <2>2. LoopTypeOK' /\ Batch' /\ EventsAreCurrent'
      BY <1>1, <1>3, NoEvent DEF DrainDone, AtEvent, IOStates
    <2> QED
      BY <1>2, <2>1, <2>2 DEF IInv, TypeOK
  <1>4. ASSUME DrainPop
        PROVE  /\ WorkTypeOK' /\ LoopTypeOK' /\ Batch' /\ EventsAreCurrent'
               /\ Response \in Messages
    <2>1. /\ response_queue.items \in Seq(Messages) /\ response_queue.items # <<>>
          /\ response_queue.stopped \in BOOLEAN
          /\ DOMAIN response_queue = {"items", "stopped"}
      BY <1>4 DEF DrainPop, CanPop, IInv, TypeOK, WorkTypeOK, Queue
    <2>2. Queue(response_queue, Messages)'
      BY <1>4, <2>1 DEF DrainPop, Pop, Queue
    <2>3. WorkTypeOK'
      BY <1>4, <2>2 DEF DrainPop, workers, IInv, TypeOK, WorkTypeOK, Queue
    <2>4. Response \in Messages
      BY <2>1 DEF Response, Front
    <2>5. LoopTypeOK' /\ Batch' /\ EventsAreCurrent'
      BY <1>1, <1>4, SameEvent DEF DrainPop, Stay
    <2> QED
      BY <2>3, <2>4, <2>5
  <1>5. CASE DrainStale
    <2>1. ClientsTypeOK' /\ SocketsTypeOK' /\ EpollTypeOK' /\ MemoryTypeOK' /\ Tables'
      BY <1>5, Untouched DEF DrainStale, network, memory
    <2> QED
      BY <1>2, <1>4, <1>5, <2>1 DEF DrainStale, IInv, TypeOK
  <1>6. CASE DrainOverflow \/ DrainClose
    <2>1. DrainPop /\ Response.fd \in DOMAIN connections /\ CloseConnection(Response.fd)
      BY <1>6 DEF DrainOverflow, DrainClose, Answers, Has
    <2>2. ClientsTypeOK' /\ SocketsTypeOK' /\ EpollTypeOK' /\ MemoryTypeOK' /\ Tables'
      BY <2>1, Closing
    <2> QED
      BY <1>2, <1>4, <2>1, <2>2 DEF IInv, TypeOK
  <1>7. CASE DrainAppend
    <2> DEFINE r == Response
               b == connections[r.fd].output_buffer \o Encoded(r)
               c == [connections[r.fd] EXCEPT !.output_buffer = b]
    <2>1. DrainPop /\ r \in Messages /\ r.fd \in DOMAIN connections
      BY <1>4, <1>7 DEF DrainAppend, Answers, Has
    <2>2. r.fd \in Fd /\ connections[r.fd] \in Connections
      BY <2>1 DEF IInv, TypeOK, MemoryTypeOK
    <2>3. Encoded(r) \in Seq(Units)
      BY <2>1, EncodedTyped
    <2>4. c \in Connections /\ c.conn_id = connections[r.fd].conn_id
      <3>1. b \in Seq(Units)
        BY <2>2, <2>3 DEF Connections
      <3> HIDE DEF b
      <3> QED
        BY <2>2, <3>1, Buffers
    <2>5. connections' = [connections EXCEPT ![r.fd] = c]
      BY <1>7 DEF DrainAppend
    <2>6. Modify(r.fd, {"IN", "OUT"}) /\ UNCHANGED <<next_conn_id, active, sndq>>
      BY <1>7 DEF DrainAppend
    <2> HIDE DEF c, r
    <2>7. MemoryTypeOK' /\ DOMAIN connections' = DOMAIN connections
      BY <2>1, <2>4, <2>5, <2>6, Writing
    <2>8. ClientsTypeOK' /\ SocketsTypeOK'
      BY <2>6, Untouched DEF Modify
    <2>9. EpollTypeOK' /\ DOMAIN epoll' = DOMAIN epoll \cup {r.fd}
      BY <2>2, <2>6, Watching DEF Modify
    <2>10. Tables'
      BY <2>1, <2>6, <2>7, <2>9 DEF Modify, IInv, Tables
    <2> QED
      BY <1>2, <1>4, <2>1, <2>7, <2>8, <2>9, <2>10 DEF IInv, TypeOK
  <1> QED
    BY <1>3, <1>5, <1>6, <1>7

\* stop().
LEMMA StoppingStep ==
  ASSUME IInv, \/ StopListen \/ (\E fd \in Fd : StopClose(fd))
               \/ StopRequests \/ StopResponses \/ Join
  PROVE  IInv'
  <1>1. ~AtEvent
    BY DEF AtEvent, StopListen, StopClose, StopRequests, StopResponses, Join
  <1>2. CASE StopListen
    <2>1. ClientsTypeOK'
      BY <1>2 DEF StopListen, IInv, TypeOK, ClientsTypeOK
    <2>2. SocketsTypeOK'
      BY <1>2 DEF StopListen, IInv, TypeOK, SocketsTypeOK
    <2>3. EpollTypeOK'
      BY <1>2 DEF StopListen, IInv, TypeOK, EpollTypeOK
    <2>4. FlagsTypeOK'
      BY <1>2 DEF StopListen, IInv, TypeOK, FlagsTypeOK
    <2>5. MemoryTypeOK' /\ WorkTypeOK' /\ Tables'
      BY <1>2, Untouched DEF StopListen, memory
    <2>6. LoopTypeOK' /\ Batch' /\ EventsAreCurrent'
      BY <1>1, <1>2, NoEvent DEF StopListen, AtEvent, IOStates
    <2> QED
      BY <2>1, <2>2, <2>3, <2>4, <2>5, <2>6 DEF IInv, TypeOK
  <1>3. ASSUME NEW fd \in Fd, StopClose(fd) PROVE IInv'
    <2>1. ClientsTypeOK' /\ SocketsTypeOK' /\ EpollTypeOK' /\ MemoryTypeOK' /\ Tables'
      BY <1>3, Closing DEF StopClose, Has
    <2>2. WorkTypeOK' /\ FlagsTypeOK'
      BY <1>3, Untouched DEF StopClose
    <2>3. LoopTypeOK' /\ Batch' /\ EventsAreCurrent'
      BY <1>1, <1>3, SameEvent DEF StopClose, Stay
    <2> QED
      BY <2>1, <2>2, <2>3 DEF IInv, TypeOK
  <1>4. CASE StopRequests \/ StopResponses \/ Join
    <2>1. /\ ClientsTypeOK' /\ SocketsTypeOK' /\ EpollTypeOK' /\ MemoryTypeOK' /\ FlagsTypeOK'
          /\ Tables'
      BY <1>4, Untouched DEF StopRequests, StopResponses, Join, network, memory
    <2>2. LoopTypeOK' /\ Batch' /\ EventsAreCurrent'
      BY <1>1, <1>4, NoEvent DEF StopRequests, StopResponses, Join, AtEvent, IOStates
    <2>3. WorkTypeOK'
      <3>1. \A q : Queue(q, Messages) => Queue(Stop(q), Messages)
        BY DEF Queue, Stop
      <3>2. CASE StopRequests
        BY <3>1, <3>2 DEF StopRequests, workers, IInv, TypeOK, WorkTypeOK, Queue
      <3>3. CASE StopResponses
        BY <3>1, <3>3 DEF StopResponses, workers, IInv, TypeOK, WorkTypeOK, Queue
      <3>4. CASE Join
        BY <3>4, Untouched DEF Join
      <3> QED
        BY <1>4, <3>2, <3>3, <3>4
    <2> QED
      BY <2>1, <2>2, <2>3 DEF IInv, TypeOK
  <1> QED
    BY <1>2, <1>3, <1>4

LEMMA StepIInv == IInv /\ [Next]_vars => IInv'
  <1> SUFFICES ASSUME IInv, [Next]_vars PROVE IInv'
    OBVIOUS
  <1>1. CASE Signal \/ Start \/ EpollWait \/ LoopExit
    BY <1>1, LoopStep
  <1>2. CASE (\E fd \in Fd : Accept(fd)) \/ AcceptTurnAway \/ AcceptDone
    BY <1>2, AcceptStep
  <1>3. CASE RecvData \/ RecvClose \/ DecodeInvalid \/ DecodeEnqueue
    BY <1>3, ReadStep
  <1>4. CASE WriteGone \/ (\E n \in 1..SndCap : SendSome(n)) \/ SendRest \/ SendAgain \/ SendFails \/ SendRestClose
    BY <1>4, WriteStep
  <1>5. CASE DrainStale \/ DrainOverflow \/ DrainAppend \/ DrainClose \/ DrainDone
    BY <1>5, DrainStep
  <1>6. CASE StopListen \/ (\E fd \in Fd : StopClose(fd)) \/ StopRequests \/ StopResponses \/ Join
    BY <1>6, StoppingStep
  <1>7. CASE \E w \in Worker : Work(w)
    BY <1>7, WorkersStep
  <1>8. CASE Clients
    BY <1>8, ClientsStep DEF Clients
  <1>9. CASE UNCHANGED vars
    BY <1>9, Untouched DEF vars, server, network, memory, IInv, TypeOK
  <1> QED
    BY <1>1, <1>2, <1>3, <1>4, <1>5, <1>6, <1>7, <1>8, <1>9 DEF Next, IO, AcceptAgain, AcceptFails

\* IInv holds throughout.
LEMMA Invariance == Spec => []IInv
  <1> QED
    BY InitIInv, StepIInv, PTL DEF Spec

-----------------------------------------------------------------------------
(* What follows.                                                            *)

\* Every variable of the server and of the sockets keeps its type.
THEOREM TypeCorrect == Spec => []TypeOK
  <1>1. IInv => TypeOK
    BY DEF IInv
  <1> QED
    BY <1>1, Invariance, PTL

\* No event of a batch is handled by a connection it was not reported for, with
\* any number of descriptors closed and accepted again within the batch.
THEOREM CurrentEvents == Spec => []EventsAreCurrent
  <1>1. IInv => EventsAreCurrent
    BY DEF IInv
  <1> QED
    BY <1>1, Invariance, PTL

-----------------------------------------------------------------------------
(* The count of connections.                                                *)

Counted == active = Cardinality(DOMAIN connections)

\* A set of descriptors is finite, and closing one makes it one smaller.
LEMMA Descriptors ==
  ASSUME IInv
  PROVE  /\ IsFiniteSet(DOMAIN connections) /\ Cardinality(DOMAIN connections) \in Nat
         /\ \A fd \in DOMAIN connections :
              /\ Cardinality(DOMAIN connections) > 0
              /\ Cardinality(DOMAIN connections \ {fd}) = Cardinality(DOMAIN connections) - 1
         /\ \A fd : fd \notin DOMAIN connections =>
              Cardinality(DOMAIN connections \cup {fd}) = Cardinality(DOMAIN connections) + 1
  <1>1. IsFiniteSet(DOMAIN connections)
    <2>1. DOMAIN connections \subseteq Fd
      BY DEF IInv, TypeOK, MemoryTypeOK
    <2> QED
      BY <2>1, NetworkAssumption, FS_Subset
  <1>2. Cardinality(DOMAIN connections) \in Nat
    BY <1>1, FS_CardinalityType
  <1>3. ASSUME NEW fd \in DOMAIN connections
        PROVE  /\ Cardinality(DOMAIN connections) > 0
               /\ Cardinality(DOMAIN connections \ {fd}) = Cardinality(DOMAIN connections) - 1
    <2>1. Cardinality(DOMAIN connections) # 0
      BY <1>1, <1>3, FS_EmptySet
    <2>2. Cardinality(DOMAIN connections \ {fd}) = Cardinality(DOMAIN connections) - 1
      BY <1>1, <1>3, FS_RemoveElement
    <2> QED
      BY <1>2, <2>1, <2>2
  <1>4. ASSUME NEW fd, fd \notin DOMAIN connections
        PROVE  Cardinality(DOMAIN connections \cup {fd}) = Cardinality(DOMAIN connections) + 1
    BY <1>1, <1>4, FS_AddElement
  <1> QED
    BY <1>1, <1>2, <1>3, <1>4

LEMMA StepCounted == IInv /\ Counted /\ [Next]_vars => Counted'
  <1> SUFFICES ASSUME IInv, Counted, [Next]_vars PROVE Counted'
    OBVIOUS
  <1>1. ASSUME NEW fd \in DOMAIN connections, Disconnect(fd) PROVE Counted'
    <2>1. active' = active - 1
      BY <1>1, Descriptors DEF Disconnect, Decrement, Counted
    <2>2. DOMAIN connections' = DOMAIN connections \ {fd}
      BY <1>1 DEF Disconnect, Restrict
    <2> QED
      BY <1>1, <2>1, <2>2, Descriptors DEF Counted
  <1>2. ASSUME NEW fd \in Fd, Accept(fd) PROVE Counted'
    <2>1. fd \notin DOMAIN connections
      BY <1>2 DEF Accept, IInv, Tables
    <2>2. DOMAIN connections' = DOMAIN connections \cup {fd} /\ active' = active + 1
      BY <1>2 DEF Accept, Insert
    <2> QED
      BY <2>1, <2>2, Descriptors DEF Counted
  <1>3. CASE RecvClose \/ DecodeInvalid
    <2>1. This \in DOMAIN connections /\ CloseConnection(This)
      BY <1>3, AtHand DEF AtEvent, Has, RecvClose, DecodeInvalid, RecvAgain
    <2> QED
      BY <1>1, <2>1 DEF CloseConnection
  <1>4. CASE SendFails \/ SendRestClose
    BY <1>1, <1>4 DEF SendFails, SendRestClose, Transfer, Has, CloseConnection
  <1>5. CASE DrainOverflow \/ DrainClose
    BY <1>1, <1>5 DEF DrainOverflow, DrainClose, Answers, Has, CloseConnection
  <1>6. CASE \E fd \in Fd : StopClose(fd)
    BY <1>1, <1>6 DEF StopClose, Has, CloseConnection
  <1>7. CASE UNCHANGED active /\ DOMAIN connections' = DOMAIN connections
    BY <1>7 DEF Counted
  <1>8. CASE RecvData \/ DecodeEnqueue \/ (\E n \in 1..SndCap : SendSome(n)) \/ SendRest \/ DrainAppend
    BY <1>7, <1>8 DEF RecvData, DecodeEnqueue, SendSome, SendRest, DrainAppend
  <1>9. CASE \/ Signal \/ Start \/ EpollWait \/ LoopExit \/ AcceptTurnAway \/ AcceptDone
             \/ WriteGone \/ SendAgain \/ DrainStale \/ DrainDone
             \/ StopListen \/ StopRequests \/ StopResponses \/ Join
    BY <1>7, <1>9 DEF Signal, Start, EpollWait, LoopExit, AcceptTurnAway, AcceptDone, server,
      WriteGone, SendAgain, DrainStale, DrainDone, StopListen, StopRequests, StopResponses, Join,
      memory
  <1>10. CASE (\E w \in Worker : Work(w)) \/ Clients \/ UNCHANGED vars
    BY <1>7, <1>10 DEF Work, WorkerPop, WorkerRespond, WorkerThrow, WorkerExit, Clients, vars,
      server, memory
  <1> QED
    BY <1>2, <1>3, <1>4, <1>5, <1>6, <1>8, <1>9, <1>10 DEF Next, IO, AcceptAgain, AcceptFails

\* StatsManager's count, connections_, the open descriptors and epoll's interest
\* list agree between the steps of the handlers, whichever system calls fail.
THEOREM TablesAgree == Spec => []Mirror
  <1>1. Init => Counted
    <2>1. Cardinality({}) = 0
      BY FS_EmptySet
    <2> QED
      BY <2>1 DEF Init, Counted
  <1>2. IInv /\ Counted => Mirror
    BY DEF IInv, Tables, Counted, Mirror
  <1> QED
    BY <1>1, <1>2, StepCounted, Invariance, PTL DEF Spec

-----------------------------------------------------------------------------
(* Shutdown.                                                                *)

\* A worker that has returned found the queue stopped and empty, and it stays so;
\* the IO thread joins all of them.
Draining == /\ exited # {} => Drained(request_queue)
            /\ DOMAIN busy \cap exited = {}
            /\ pc = "done" => exited = Worker

LEMMA StepDraining == IInv /\ Draining /\ [Next]_vars => Draining'
  <1> SUFFICES ASSUME IInv, Draining, [Next]_vars PROVE Draining'
    OBVIOUS
  <1>1. CASE DecodeEnqueue
    BY <1>1 DEF DecodeEnqueue, RecvAgain, PushAll, workers, Draining, Drained, Proceed, Stage
  <1>2. CASE StopRequests
    BY <1>2 DEF StopRequests, Stop, workers, Draining, Drained, IInv, TypeOK, WorkTypeOK, Queue
  <1>3. CASE Join
    BY <1>3 DEF Join, Joined, workers, queues, Draining, Drained
  <1>4. ASSUME NEW w \in Worker, Work(w) PROVE Draining'
    <2>1. CASE WorkerPop(w)
      BY <2>1 DEF WorkerPop, Idle, CanPop, Insert, Draining, Drained
    <2>2. CASE WorkerRespond(w) \/ WorkerThrow(w)
      BY <2>2 DEF WorkerRespond, WorkerThrow, Finished, Restrict, queues, Draining, Drained
    <2>3. CASE WorkerExit(w)
      BY <2>3 DEF WorkerExit, Idle, queues, Draining, Drained, IInv, TypeOK, WorkTypeOK
    <2> QED
      BY <1>4, <2>1, <2>2, <2>3 DEF Work
  <1>5. CASE UNCHANGED <<request_queue, busy, exited>> /\ pc' # "done"
    BY <1>5 DEF Draining, Drained
  <1>6. CASE UNCHANGED <<request_queue, busy, exited, pc>>
    BY <1>6 DEF Draining, Drained
  <1>7. CASE \/ Start \/ EpollWait \/ LoopExit \/ AcceptDone \/ RecvClose \/ DecodeInvalid
             \/ WriteGone \/ SendRest \/ SendAgain \/ SendFails \/ SendRestClose \/ DrainDone
             \/ StopListen \/ StopResponses
    BY <1>5, <1>7 DEF Start, EpollWait, LoopExit, AcceptDone, RecvClose, DecodeInvalid, WriteGone,
      SendRest, SendAgain, SendFails, SendRestClose, DrainDone, StopListen, StopResponses,
      Proceed, Stage, queues, workers
  <1>8. CASE \/ Signal \/ (\E fd \in Fd : Accept(fd)) \/ AcceptTurnAway \/ RecvData
             \/ (\E n \in 1..SndCap : SendSome(n))
             \/ DrainStale \/ DrainOverflow \/ DrainAppend \/ DrainClose
             \/ (\E fd \in Fd : StopClose(fd)) \/ Clients \/ UNCHANGED vars
    BY <1>6, <1>8 DEF Signal, Accept, AcceptTurnAway, RecvData, SendSome, DrainStale, DrainOverflow,
      DrainAppend, DrainClose, DrainPop, StopClose, Clients, vars, server, Stay, queues, workers
  <1> QED
    BY <1>1, <1>2, <1>3, <1>4, <1>7, <1>8 DEF Next, IO, AcceptAgain, AcceptFails

\* When stop() returns nothing that was accepted waits for a worker any more.
THEOREM DrainedAtTheEnd == Spec => []GracefulDrain
  <1>1. Init => Draining
    BY DEF Init, Draining
  <1>2. IInv /\ Draining => GracefulDrain
    BY ServerAssumption DEF IInv, TypeOK, WorkTypeOK, Draining, Drained, GracefulDrain
  <1> QED
    BY <1>1, <1>2, StepDraining, Invariance, PTL DEF Spec

-----------------------------------------------------------------------------
(* Sockets and the backlog.                                                 *)

\* An open descriptor has a client of its own, a client waits in the backlog once.
Sockets == /\ \A fd \in DOMAIN sock : link[sock[fd]] = "open"
           /\ \A fd, gd \in DOMAIN sock : sock[fd] = sock[gd] => fd = gd
           /\ \A i \in DOMAIN backlog : link[backlog[i]] = "queued"
           /\ \A i, j \in DOMAIN backlog : backlog[i] = backlog[j] => i = j

LEMMA InitSockets == Init => Sockets
  BY DEF Init, NetworkInit, Sockets

LEMMA StepSockets == IInv /\ Sockets /\ [Next]_vars => Sockets'
  <1> SUFFICES ASSUME IInv, Sockets, [Next]_vars PROVE Sockets'
    OBVIOUS
  <1> USE DEF Sockets
  <1>1. /\ link \in [Peer -> {"new", "queued", "open", "closed"}]
        /\ backlog \in Seq(Peer) /\ sock \in [DOMAIN sock -> Peer]
    BY DEF IInv, TypeOK, ClientsTypeOK, SocketsTypeOK
  <1>2. CASE UNCHANGED <<link, backlog, sock>>
    BY <1>2
  <1>3. ASSUME NEW fd \in DOMAIN connections, Disconnect(fd) PROVE Sockets'
    <2>1. fd \in DOMAIN sock
      BY DEF IInv, Tables
    <2> QED
      BY <1>1, <1>3, <2>1 DEF Disconnect, CloseSocket, Restrict
  <1>4. ASSUME backlog # <<>>, backlog' = Tail(backlog)
        PROVE  /\ Head(backlog) \in Peer /\ link[Head(backlog)] = "queued"
               /\ \A i \in DOMAIN backlog' : /\ link[backlog'[i]] = "queued"
                                             /\ backlog'[i] # Head(backlog)
               /\ \A i, j \in DOMAIN backlog' : backlog'[i] = backlog'[j] => i = j
    <2>1. /\ Len(backlog) \in Nat \ {0} /\ DOMAIN backlog = 1..Len(backlog)
          /\ DOMAIN backlog' = 1..(Len(backlog) - 1)
          /\ \A i \in DOMAIN backlog' : backlog'[i] = backlog[i + 1]
          /\ Head(backlog) = backlog[1]
      BY <1>1, <1>4
    <2>2. \A i \in DOMAIN backlog' : i + 1 \in DOMAIN backlog /\ i + 1 # 1 /\ i \in Nat
      BY <2>1
    <2>3. 1 \in DOMAIN backlog
      BY <2>1
    <2> QED
      BY <1>1, <2>1, <2>2, <2>3
  <1>5. ASSUME NEW fd \in Fd, Accept(fd) PROVE Sockets'
    <2> DEFINE p == Head(backlog)
    <2>1. /\ link' = [link EXCEPT ![p] = "open"] /\ sock' = Insert(sock, fd, p)
          /\ fd \notin DOMAIN sock /\ backlog # <<>> /\ backlog' = Tail(backlog)
      BY <1>5 DEF Accept
    <2>2. /\ p \in Peer /\ link[p] = "queued"
          /\ \A i \in DOMAIN backlog' : backlog'[i] # p /\ link[backlog'[i]] = "queued"
          /\ \A i, j \in DOMAIN backlog' : backlog'[i] = backlog'[j] => i = j
      BY <1>4, <2>1
    <2> HIDE DEF p
    <2>3. \A i \in DOMAIN backlog' : link'[backlog'[i]] = "queued"
      <3>1. backlog' \in Seq(Peer)
        BY <1>1, <2>1
      <3>2. \A i \in DOMAIN backlog' : backlog'[i] \in Peer
        BY <3>1
      <3> QED
        BY <1>1, <2>1, <2>2, <3>2
    <2>4. \A x \in DOMAIN sock : sock[x] # p /\ link'[sock[x]] = "open"
      BY <1>1, <2>1, <2>2
    <2>5. DOMAIN sock' = DOMAIN sock \cup {fd} /\ sock'[fd] = p /\ \A x \in DOMAIN sock : sock'[x] = sock[x]
      BY <2>1 DEF Insert
    <2>6. link'[p] = "open"
      BY <1>1, <2>1, <2>2
    <2> QED
      BY <2>2, <2>3, <2>4, <2>5, <2>6
  <1>6. CASE AcceptTurnAway
    <2> DEFINE p == Head(backlog)
    <2>1. /\ link' = [link EXCEPT ![p] = "closed"] /\ sock' = sock
          /\ backlog # <<>> /\ backlog' = Tail(backlog)
      BY <1>6 DEF AcceptTurnAway
    <2>2. /\ p \in Peer /\ link[p] = "queued"
          /\ \A i \in DOMAIN backlog' : backlog'[i] # p /\ link[backlog'[i]] = "queued"
          /\ \A i, j \in DOMAIN backlog' : backlog'[i] = backlog'[j] => i = j
      BY <1>4, <2>1
    <2> HIDE DEF p
    <2>3. \A i \in DOMAIN backlog' : link'[backlog'[i]] = "queued"
      <3>1. backlog' \in Seq(Peer)
        BY <1>1, <2>1
      <3>2. \A i \in DOMAIN backlog' : backlog'[i] \in Peer
        BY <3>1
      <3> QED
        BY <1>1, <2>1, <2>2, <3>2
    <2>4. \A x \in DOMAIN sock : link'[sock[x]] = "open"
      BY <1>1, <2>1, <2>2
    <2> QED
      BY <2>1, <2>2, <2>3, <2>4
  <1>7. CASE StopListen
    BY <1>1, <1>7 DEF StopListen
  <1>8. ASSUME NEW p \in Peer, Connect(p) PROVE Sockets'
    <2>1. /\ link[p] = "new" /\ link' = [link EXCEPT ![p] = "queued"]
          /\ backlog' = Append(backlog, p) /\ sock' = sock
      BY <1>8 DEF Connect
    <2>2. /\ Len(backlog) \in Nat /\ DOMAIN backlog = 1..Len(backlog)
          /\ DOMAIN backlog' = 1..(Len(backlog) + 1)
          /\ \A i \in DOMAIN backlog : backlog'[i] = backlog[i]
          /\ backlog'[Len(backlog) + 1] = p
      BY <1>1, <2>1
    <2>3. \A i \in DOMAIN backlog' : i \in DOMAIN backlog \/ i = Len(backlog) + 1
      BY <2>2
    <2>4. \A i \in DOMAIN backlog : backlog[i] # p /\ backlog[i] \in Peer
      BY <1>1, <2>1
    <2>5. \A i \in DOMAIN backlog' : link'[backlog'[i]] = "queued"
      BY <1>1, <2>1, <2>2, <2>3, <2>4
    <2>6. \A i, j \in DOMAIN backlog' : backlog'[i] = backlog'[j] => i = j
      BY <2>2, <2>3, <2>4
    <2>7. \A x \in DOMAIN sock : link'[sock[x]] = "open"
      BY <1>1, <2>1
    <2> QED
      BY <2>1, <2>5, <2>6, <2>7
  <1>9. CASE RecvClose \/ DecodeInvalid
    <2>1. This \in DOMAIN connections /\ CloseConnection(This)
      BY <1>9, AtHand DEF AtEvent, Has, RecvClose, DecodeInvalid, RecvAgain
    <2> QED
      BY <1>3, <2>1 DEF CloseConnection
  <1>10. CASE SendFails \/ SendRestClose
    BY <1>3, <1>10 DEF SendFails, SendRestClose, Transfer, Has, CloseConnection
  <1>11. CASE DrainOverflow \/ DrainClose
    BY <1>3, <1>11 DEF DrainOverflow, DrainClose, Answers, Has, CloseConnection
  <1>12. CASE \E fd \in Fd : StopClose(fd)
    BY <1>3, <1>12 DEF StopClose, Has, CloseConnection
  <1>13. CASE Clients
    BY <1>2, <1>8, <1>13 DEF Clients, Client, SendHalf, SendInvalid, Finish, Reset, Read
  <1>14. CASE RecvData \/ DecodeEnqueue \/ (\E n \in 1..SndCap : SendSome(n)) \/ SendRest \/ DrainAppend
    BY <1>2, <1>14 DEF RecvData, DecodeEnqueue, SendSome, SendRest, DrainAppend, Modify, network, clients
  <1>15. CASE \/ Signal \/ Start \/ EpollWait \/ LoopExit \/ AcceptDone
              \/ WriteGone \/ SendAgain \/ DrainStale \/ DrainDone
              \/ StopRequests \/ StopResponses \/ Join
              \/ (\E w \in Worker : Work(w)) \/ UNCHANGED vars
    BY <1>2, <1>15 DEF Signal, Start, EpollWait, LoopExit, AcceptDone, WriteGone,
      SendAgain, DrainStale, DrainDone, StopRequests, StopResponses, Join, Work,
      WorkerPop, WorkerRespond, WorkerThrow, WorkerExit, vars, network, clients
  <1> QED
    BY <1>5, <1>6, <1>7, <1>9, <1>10, <1>11, <1>12, <1>13, <1>14, <1>15 DEF Next, IO, AcceptAgain, AcceptFails

-----------------------------------------------------------------------------
(* Nobody reads another client's answers: NoCrossTalk.  A response is put into a *)
(* connection because descriptor and conn_id match; what has to be shown is that *)
(* they then belong to the client that asked.                                *)

\* All units of a sequence come from requests of p.
Of(s, p) == \A i \in DOMAIN s : s[i].from = p

\* The two directions of each client's connection, and the connection's buffers.
Wires == \A p \in Peer : Of(rcvq[p], p) /\ Of(sndq[p], p) /\ Of(got[p], p)
Buffered == \A fd \in DOMAIN connections : /\ Of(connections[fd].input_buffer, sock[fd])
                                           /\ Of(connections[fd].output_buffer, sock[fd])

\* No conn_id is used twice.
Fresh == \A fd \in DOMAIN connections : connections[fd].conn_id < next_conn_id

\* A message on its way: if its connection is still there, it is the one of the
\* client that asked, and if not, no later connection has its conn_id.
InFlight == Range(request_queue.items) \cup Range(busy) \cup Range(response_queue.items)
Tagged(m) == /\ m.conn_id < next_conn_id
             /\ Answers(m) => m.from = sock[m.fd]

Talk == Wires /\ Buffered /\ Fresh /\ \A m \in InFlight : Tagged(m)

-----------------------------------------------------------------------------
\* Pieces and concatenations of a client's units are its own.
LEMMA OfSequences ==
  ASSUME NEW p, NEW s \in Seq(Units), Of(s, p)
  PROVE  /\ \A t \in Seq(Units) : Of(t, p) => Of(s \o t, p)
         /\ \A m \in Nat \ {0}, n \in 0..Len(s) : /\ SubSeq(s, m, n) \in Seq(Units)
                                                 /\ Of(SubSeq(s, m, n), p)
         /\ \A u \in Units : u.from = p => Of(Append(s, u), p)
         /\ s # <<>> => /\ Head(s) \in Units /\ Head(s).from = p
                        /\ Tail(s) \in Seq(Units) /\ Of(Tail(s), p)
  <1>1. \A t \in Seq(Units) : Of(t, p) => Of(s \o t, p)
    BY DEF Of
  <1>2. \A m \in Nat \ {0}, n \in 0..Len(s) : /\ SubSeq(s, m, n) \in Seq(Units)
                                                 /\ Of(SubSeq(s, m, n), p)
    BY DEF Of
  <1>3. \A u \in Units : u.from = p => Of(Append(s, u), p)
    BY DEF Of
  <1>4. s # <<>> => /\ Head(s) \in Units /\ Head(s).from = p
                    /\ Tail(s) \in Seq(Units) /\ Of(Tail(s), p)
    BY DEF Of
  <1> QED
    BY <1>1, <1>2, <1>3, <1>4

\* A message comes into being in decodeAndEnqueue() only; workers and the IO
\* thread hand it on as it is.
LEMMA Flight ==
  ASSUME IInv, [Next]_vars
  PROVE  \/ InFlight' \subseteq InFlight
         \/ /\ DecodeEnqueue
            /\ InFlight' \subseteq
                 InFlight \cup Range(Decoded(This, connections[This].input_buffer))
  <1>1. /\ request_queue.items \in Seq(Messages) /\ response_queue.items \in Seq(Messages)
        /\ busy \in [DOMAIN busy -> Messages]
    BY DEF IInv, TypeOK, WorkTypeOK, Queue
  <1>2. CASE DecodeEnqueue
    <2> DEFINE d == Decoded(This, connections[This].input_buffer)
    <2>1. d \in Seq(Messages)
      BY <1>2, AtHand, DecodedTyped DEF DecodeEnqueue, RecvAgain, AtEvent, Has
    <2>2. request_queue' = PushAll(request_queue, d) /\ UNCHANGED <<response_queue, busy>>
      BY <1>2 DEF DecodeEnqueue, workers
    <2> HIDE DEF d
    <2>3. Range(request_queue.items \o d) \subseteq Range(request_queue.items) \cup Range(d)
      BY <1>1, <2>1 DEF Range
    <2>4. InFlight' \subseteq InFlight \cup Range(d)
      <3>1. request_queue'.items = request_queue.items \/ request_queue'.items = request_queue.items \o d
        BY <2>2 DEF PushAll, IInv, TypeOK, WorkTypeOK, Queue
      <3> QED
        BY <2>2, <2>3, <3>1 DEF InFlight
    <2> QED
      BY <1>2, <2>4 DEF d
  <1>3. ASSUME NEW w \in Worker, Work(w) PROVE InFlight' \subseteq InFlight
    <2>1. CASE WorkerPop(w)
      <3>1. request_queue.items # <<>>
        BY <2>1 DEF WorkerPop, CanPop
      <3>2. /\ Range(request_queue'.items) \subseteq Range(request_queue.items)
            /\ Front(request_queue) \in Range(request_queue.items)
        BY <1>1, <2>1, <3>1 DEF WorkerPop, Pop, Front, Range, IInv, TypeOK, WorkTypeOK, Queue
      <3>3. Range(busy') \subseteq Range(busy) \cup {Front(request_queue)}
        BY <2>1 DEF WorkerPop, Insert, Range
      <3> QED
        BY <2>1, <3>2, <3>3 DEF WorkerPop, InFlight
    <2>2. CASE WorkerRespond(w)
      <3>1. w \in DOMAIN busy /\ busy[w] \in Messages /\ busy[w] \in Range(busy)
        BY <1>1, <2>2 DEF WorkerRespond, Range
      <3>2. Reply(busy[w]) = busy[w]
        BY <3>1 DEF Reply, Messages
      <3>3. Range(Append(response_queue.items, busy[w])) \subseteq
              Range(response_queue.items) \cup {busy[w]}
        BY <1>1, <3>1 DEF Range
      <3>4. \/ response_queue'.items = response_queue.items
            \/ response_queue'.items = Append(response_queue.items, busy[w])
        BY <2>2, <3>2 DEF WorkerRespond, Push, IInv, TypeOK, WorkTypeOK, Queue
      <3>5. Range(busy') \subseteq Range(busy)
        BY <2>2 DEF WorkerRespond, Finished, Restrict, Range
      <3>6. Range(response_queue'.items) \subseteq Range(response_queue.items) \cup {busy[w]}
        BY <3>3, <3>4
      <3>7. request_queue' = request_queue
        BY <2>2 DEF WorkerRespond
      <3> QED
        BY <3>1, <3>5, <3>6, <3>7 DEF InFlight
    <2>3. CASE WorkerThrow(w)
      <3>1. Range(busy') \subseteq Range(busy)
        BY <2>3 DEF WorkerThrow, Finished, Restrict, Range
      <3> QED
        BY <2>3, <3>1 DEF WorkerThrow, queues, InFlight
    <2>4. CASE WorkerExit(w)
      BY <2>4 DEF WorkerExit, queues, InFlight
    <2> QED
      BY <1>3, <2>1, <2>2, <2>3, <2>4 DEF Work
  <1>4. CASE DrainPop
    <2>1. Range(response_queue'.items) \subseteq Range(response_queue.items)
      BY <1>1, <1>4 DEF DrainPop, CanPop, Pop, Range, IInv, TypeOK, WorkTypeOK, Queue
    <2> QED
      BY <1>4, <2>1 DEF DrainPop, workers, InFlight
  <1>5. CASE StopRequests \/ StopResponses
    <2>1. \A q : Queue(q, Messages) => Stop(q).items = q.items
      BY DEF Queue, Stop
    <2> QED
      BY <1>5, <2>1 DEF StopRequests, StopResponses, workers, InFlight, IInv, TypeOK, WorkTypeOK
  <1>6. CASE UNCHANGED <<request_queue, response_queue, busy>>
    BY <1>6 DEF InFlight
  <1>7. CASE \/ Signal \/ Start \/ EpollWait \/ LoopExit
             \/ (\E fd \in Fd : Accept(fd)) \/ AcceptTurnAway \/ AcceptDone
             \/ RecvData \/ RecvClose \/ DecodeInvalid
             \/ WriteGone \/ (\E n \in 1..SndCap : SendSome(n)) \/ SendRest \/ SendAgain \/ SendFails \/ SendRestClose
             \/ DrainDone \/ StopListen \/ (\E fd \in Fd : StopClose(fd)) \/ Join
             \/ Clients \/ UNCHANGED vars
    BY <1>6, <1>7 DEF Signal, Start, EpollWait, LoopExit, Accept, AcceptTurnAway, AcceptDone, RecvData,
      RecvClose, DecodeInvalid, WriteGone, SendSome, SendRest, SendAgain, SendFails, SendRestClose, DrainDone,
      StopListen, StopClose, Join, Clients, vars, server, queues, workers
  <1> QED
    BY <1>2, <1>3, <1>4, <1>5, <1>7 DEF Next, IO, AcceptAgain, AcceptFails, DrainStale, DrainOverflow, DrainAppend, DrainClose

\* What is decoded from a connection's input is tagged with that connection.
LEMMA DecodedTagged ==
  ASSUME IInv, Talk, NEW fd \in DOMAIN connections, ~Invalid(connections[fd].input_buffer),
         NEW m \in Range(Decoded(fd, connections[fd].input_buffer))
  PROVE  Tagged(m)
  <1> DEFINE in == connections[fd].input_buffer
  <1>1. in \in Seq(Units) /\ Of(in, sock[fd])
    BY DEF IInv, TypeOK, MemoryTypeOK, Connections, Talk, Buffered
  <1> HIDE DEF in
  <1>2. Len(in) \in Nat /\ Len(in) \div 2 \in Nat /\ 2 * (Len(in) \div 2) <= Len(in)
    BY <1>1, Halves
  <1>3. PICK i \in 1..(Len(in) \div 2) :
          m = [fd |-> fd, conn_id |-> connections[fd].conn_id,
               from |-> in[2 * i].from, num |-> in[2 * i].num]
    BY DEF Range, Decoded, in
  <1>4. in[2 * i].from = sock[fd]
    <2>1. 2 * i \in DOMAIN in
      BY <1>1, <1>2
    <2> QED
      BY <1>1, <2>1 DEF Of
  <1> QED
    BY <1>3, <1>4 DEF Tagged, Talk, Fresh

-----------------------------------------------------------------------------
\* Connections keep their conn_id and their client, or go.
Steady == /\ next_conn_id' = next_conn_id
          /\ DOMAIN connections' \subseteq DOMAIN connections
          /\ \A fd \in DOMAIN connections' : /\ connections'[fd].conn_id = connections[fd].conn_id
                                             /\ sock'[fd] = sock[fd]

\* The same, and their buffers.
Still == Steady /\ \A fd \in DOMAIN connections' : connections'[fd] = connections[fd]

LEMMA ClosingStill ==
  ASSUME IInv, NEW fd \in DOMAIN connections, Disconnect(fd)
  PROVE  Still /\ UNCHANGED <<rcvq, got>>
  BY DEF Disconnect, CloseSocket, Restrict, Steady, Still, IInv, Tables

LEMMA BufferSteady ==
  ASSUME IInv, NEW fd \in DOMAIN connections, NEW c, c.conn_id = connections[fd].conn_id,
         connections' = [connections EXCEPT ![fd] = c], UNCHANGED <<next_conn_id, sock>>
  PROVE  Steady
  BY DEF Steady

\* Who changes connections and streams.
LEMMA Evolution ==
  ASSUME IInv, [Next]_vars
  PROVE  \/ Still /\ UNCHANGED <<rcvq, sndq, got>>
         \/ Still /\ \E p \in Peer : SendHalf(p) \/ SendInvalid(p) \/ Reset(p) \/ Read(p)
         \/ Still /\ UNCHANGED <<rcvq, got>> /\ SendRestClose
         \/ \E fd \in Fd : Accept(fd)
         \/ RecvData \/ DecodeEnqueue \/ (\E n \in 1..SndCap : SendSome(n)) \/ SendRest \/ DrainAppend
  <1>1. ASSUME UNCHANGED <<memory, sock>> PROVE Still
    BY <1>1 DEF Steady, Still, memory
  <1>2. CASE RecvClose \/ DecodeInvalid
    <2>1. This \in DOMAIN connections /\ CloseConnection(This)
      BY <1>2, AtHand DEF AtEvent, Has, RecvClose, DecodeInvalid, RecvAgain
    <2> QED
      BY <2>1, ClosingStill DEF CloseConnection
  <1>3. CASE SendFails \/ SendRestClose
    BY <1>3, ClosingStill DEF SendFails, SendRestClose, Transfer, Has, CloseConnection
  <1>4. CASE DrainOverflow \/ DrainClose
    BY <1>4, ClosingStill DEF DrainOverflow, DrainClose, Answers, Has, CloseConnection
  <1>5. CASE \E fd \in Fd : StopClose(fd)
    BY <1>5, ClosingStill DEF StopClose, Has, CloseConnection
  <1>6. CASE Clients
    <2>1. UNCHANGED <<memory, sock>>
      BY <1>6 DEF Clients, Client, server, Connect, SendHalf, SendInvalid, Finish, Reset, Read
    <2>2. \/ \E p \in Peer : SendHalf(p) \/ SendInvalid(p) \/ Reset(p) \/ Read(p)
          \/ UNCHANGED <<rcvq, sndq, got>>
      BY <1>6 DEF Clients, Client, Connect, Finish
    <2> QED
      BY <1>1, <2>1, <2>2 DEF Steady, Still, memory
  <1>7. CASE \/ Signal \/ Start \/ EpollWait \/ LoopExit \/ AcceptTurnAway \/ AcceptDone
             \/ WriteGone \/ SendAgain \/ DrainStale \/ DrainDone
             \/ StopListen \/ StopRequests \/ StopResponses \/ Join
             \/ (\E w \in Worker : Work(w)) \/ UNCHANGED vars
    <2>1. UNCHANGED <<memory, sock, rcvq, sndq, got>>
      BY <1>7 DEF Signal, Start, EpollWait, LoopExit, AcceptTurnAway, AcceptDone, WriteGone,
        SendAgain, DrainStale, DrainDone, StopListen, StopRequests, StopResponses, Join, Work,
        WorkerPop, WorkerRespond, WorkerThrow, WorkerExit, vars, server, network, clients, memory
    <2> QED
      BY <1>1, <2>1 DEF Steady, Still, memory
  <1> QED
    BY <1>2, <1>3, <1>4, <1>5, <1>6, <1>7 DEF Next, IO, AcceptAgain, AcceptFails

\* What is sent belongs to the client of the socket.
LEMMA SendingWires ==
  ASSUME IInv, Talk, NEW n \in Nat, Transfer(n), This \in DOMAIN connections, UNCHANGED <<rcvq, got>>
  PROVE  Wires'
  <1> DEFINE p == sock[This]
             out == connections[This].output_buffer
             b == SubSeq(out, 1, n)
  <1>1. /\ out \in Seq(Units) /\ Of(out, p) /\ n \in 0..Len(out)
        /\ p \in Peer
    BY DEF Transfer, IInv, TypeOK, MemoryTypeOK, SocketsTypeOK, Connections, Tables, Talk, Buffered
  <1>2. sndq' = [sndq EXCEPT ![p] = @ \o b]
    BY DEF Transfer
  <1>3. sndq \in [Peer -> Seq(Units)] /\ Of(sndq[p], p)
    BY <1>1 DEF IInv, TypeOK, SocketsTypeOK, Talk, Wires
  <1>4. b \in Seq(Units) /\ Of(b, p)
    <2> HIDE DEF out, p
    <2>1. b \in Seq(Units)
      BY <1>1
    <2>2. Of(b, p)
      BY <1>1 DEF Of
    <2> QED
      BY <2>1, <2>2
  <1> HIDE DEF b, p
  <1>5. Of(sndq[p] \o b, p)
    <2>1. sndq[p] \in Seq(Units)
      BY <1>1, <1>3
    <2> QED
      BY <1>1, <1>3, <1>4, <2>1, OfSequences
  <1> QED
    BY <1>2, <1>3, <1>5 DEF Wires, Talk

\* The three handlers that change a buffer, and what they keep.
LEMMA Buffering ==
  ASSUME IInv, Talk,
         \/ RecvData \/ DecodeEnqueue \/ (\E n \in 1..SndCap : SendSome(n)) \/ SendRest \/ DrainAppend
  PROVE  Wires' /\ Buffered' /\ Steady
  <1>1. \A p \in Peer : /\ rcvq[p] \in Seq(Units) /\ Of(rcvq[p], p)
                        /\ sndq[p] \in Seq(Units) /\ Of(sndq[p], p)
    BY DEF IInv, TypeOK, SocketsTypeOK, Talk, Wires
  <1>2. \A fd \in DOMAIN connections : /\ connections[fd].input_buffer \in Seq(Units)
                                       /\ connections[fd].output_buffer \in Seq(Units)
                                       /\ connections[fd] \in Connections
                                       /\ Of(connections[fd].input_buffer, sock[fd])
                                       /\ Of(connections[fd].output_buffer, sock[fd])
                                       /\ sock[fd] \in Peer
    BY DEF IInv, TypeOK, MemoryTypeOK, SocketsTypeOK, Connections, Tables, Talk, Buffered
  <1>3. ASSUME NEW fd \in DOMAIN connections, NEW b \in Seq(Units), Of(b, sock[fd]),
               \/ connections' = [connections EXCEPT ![fd] = [connections[fd] EXCEPT !.input_buffer = b]]
               \/ connections' = [connections EXCEPT ![fd] = [connections[fd] EXCEPT !.output_buffer = b]],
               UNCHANGED <<next_conn_id, sock>>
        PROVE  Buffered' /\ Steady
    <2>1. CASE connections' = [connections EXCEPT ![fd] = [connections[fd] EXCEPT !.input_buffer = b]]
      BY <1>2, <1>3, <2>1 DEF Buffered, Steady, Connections
    <2>2. CASE connections' = [connections EXCEPT ![fd] = [connections[fd] EXCEPT !.output_buffer = b]]
      BY <1>2, <1>3, <2>2 DEF Buffered, Steady, Connections
    <2> QED
      BY <1>3, <2>1, <2>2
  <1>4. ASSUME NEW n \in Nat, Transfer(n), This \in DOMAIN connections, UNCHANGED <<rcvq, got>>
        PROVE  Wires'
    BY <1>4, SendingWires
  <1>5. CASE RecvData
    <2> DEFINE p == sock[This]
               b == Append(connections[This].input_buffer, Head(rcvq[p]))
    <2>1. This \in DOMAIN connections /\ rcvq[p] # <<>>
      BY <1>5, AtHand DEF RecvData, AtEvent, Has
    <2>2. Head(rcvq[p]) \in Units /\ Head(rcvq[p]).from = p /\ Of(Tail(rcvq[p]), p)
      <3>1. rcvq[p] \in Seq(Units) /\ Of(rcvq[p], p)
        BY <1>1, <1>2, <2>1
      <3> HIDE DEF p
      <3> QED
        BY <2>1, <3>1, OfSequences
    <2>3. b \in Seq(Units) /\ Of(b, p)
      <3> DEFINE in == connections[This].input_buffer
      <3>1. in \in Seq(Units) /\ Of(in, p)
        BY <1>2, <2>1
      <3>2. b = Append(in, Head(rcvq[p]))
        OBVIOUS
      <3> HIDE DEF in, p, b
      <3>3. b \in Seq(Units)
        BY <2>2, <3>1, <3>2
      <3>4. Of(b, p)
        BY <2>2, <3>1, <3>2 DEF Of
      <3> QED
        BY <3>3, <3>4
    <2>4. connections' = [connections EXCEPT ![This] = [connections[This] EXCEPT !.input_buffer = b]]
      BY <1>5 DEF RecvData
    <2>5. UNCHANGED <<next_conn_id, sock, sndq, got>>
      BY <1>5 DEF RecvData, clients
    <2>6. rcvq' = [rcvq EXCEPT ![p] = Tail(@)]
      BY <1>5 DEF RecvData
    <2> HIDE DEF b
    <2>7. Buffered' /\ Steady
      BY <1>3, <2>1, <2>3, <2>4, <2>5
    <2>8. Wires'
      BY <2>2, <2>5, <2>6 DEF Wires, Talk, IInv, TypeOK, SocketsTypeOK
    <2> QED
      BY <2>7, <2>8
  <1>6. CASE DecodeEnqueue
    <2> DEFINE in == connections[This].input_buffer
               b == Rest(in)
    <2>1. This \in DOMAIN connections
      BY <1>6, AtHand DEF DecodeEnqueue, RecvAgain, AtEvent, Has
    <2>2. in \in Seq(Units) /\ Of(in, sock[This])
      BY <1>2, <2>1
    <2>3. connections' = [connections EXCEPT ![This] = [connections[This] EXCEPT !.input_buffer = b]]
      BY <1>6 DEF DecodeEnqueue
    <2> HIDE DEF in
    <2>4. Len(in) \in Nat /\ Len(in) \div 2 \in Nat
      BY <2>2, Halves
    <2>5. b \in Seq(Units) /\ Of(b, sock[This])
      <3>1. 2 * (Len(in) \div 2) + 1 \in Nat \ {0} /\ Len(in) \in 0..Len(in)
        BY <2>4
      <3> QED
        BY <2>2, <2>4, <3>1, OfSequences DEF Rest
    <2>6. UNCHANGED <<next_conn_id, sock, rcvq, sndq, got>>
      BY <1>6 DEF DecodeEnqueue, network, clients
    <2> HIDE DEF b
    <2> QED
      BY <1>3, <2>1, <2>3, <2>5, <2>6 DEF Wires, Talk
  <1>7. ASSUME NEW n \in 1..SndCap, SendSome(n) PROVE Wires' /\ Buffered' /\ Steady
    <2> DEFINE out == connections[This].output_buffer
               b == Erase(out, n)
    <2>1. This \in DOMAIN connections /\ n \in Nat /\ Transfer(n)
      BY <1>7 DEF SendSome, Transfer, Has
    <2>2. b \in Seq(Units) /\ Of(b, sock[This])
      <3>1. out \in Seq(Units) /\ Of(out, sock[This])
        BY <1>2, <2>1
      <3> HIDE DEF out
      <3>2. Len(out) \in 0..Len(out) /\ n + 1 \in Nat \ {0}
        BY <2>1, <3>1
      <3> QED
        BY <2>1, <3>1, <3>2, OfSequences DEF Erase
    <2>3. connections' = [connections EXCEPT ![This] = [connections[This] EXCEPT !.output_buffer = b]]
      BY <1>7 DEF SendSome
    <2>4. UNCHANGED <<next_conn_id, sock, rcvq, got>>
      BY <1>7 DEF SendSome, clients
    <2> HIDE DEF b
    <2> QED
      BY <1>3, <1>4, <2>1, <2>2, <2>3, <2>4
  <1>8. CASE SendRest
    <2> DEFINE n == Len(connections[This].output_buffer)
    <2>1. This \in DOMAIN connections /\ Transfer(n)
      BY <1>8 DEF SendRest, Transfer, Has
    <2>2. n \in Nat
      BY <1>2, <2>1
    <2>3. connections' = [connections EXCEPT ![This] = [connections[This] EXCEPT !.output_buffer = <<>>]]
      BY <1>8 DEF SendRest
    <2>4. UNCHANGED <<next_conn_id, sock, rcvq, got>>
      BY <1>8 DEF SendRest, Modify, clients
    <2>5. <<>> \in Seq(Units) /\ Of(<<>>, sock[This])
      BY DEF Of
    <2> HIDE DEF n
    <2> QED
      BY <1>3, <1>4, <2>1, <2>2, <2>3, <2>4, <2>5
  <1>9. CASE DrainAppend
    <2> DEFINE r == Response
               b == connections[r.fd].output_buffer \o Encoded(r)
    <2>1. r \in InFlight /\ r \in Messages
      <3>1. response_queue.items \in Seq(Messages) /\ response_queue.items # <<>>
        BY <1>9 DEF DrainAppend, DrainPop, CanPop, IInv, TypeOK, WorkTypeOK, Queue
      <3>2. r \in Range(response_queue.items) /\ r \in Messages
        BY <3>1 DEF Response, Front, Range
      <3> QED
        BY <3>2 DEF InFlight
    <2>2. Answers(r) /\ r.fd \in DOMAIN connections
      BY <1>9 DEF DrainAppend, Answers, Has
    <2>3. r.from = sock[r.fd]
      BY <2>1, <2>2 DEF Talk, Tagged
    <2>4. Encoded(r) \in Seq(Units) /\ Of(Encoded(r), sock[r.fd])
      BY <2>1, <2>3, EncodedTyped DEF Of
    <2>5. b \in Seq(Units) /\ Of(b, sock[r.fd])
      <3> DEFINE out == connections[r.fd].output_buffer
      <3>1. out \in Seq(Units) /\ Of(out, sock[r.fd])
        BY <1>2, <2>2
      <3>2. b = out \o Encoded(r)
        OBVIOUS
      <3> HIDE DEF out, b, r
      <3>3. b \in Seq(Units)
        BY <2>4, <3>1, <3>2
      <3>4. Of(b, sock[r.fd])
        BY <2>4, <3>1, <3>2 DEF Of
      <3> QED
        BY <3>3, <3>4
    <2>6. connections' = [connections EXCEPT ![r.fd] = [connections[r.fd] EXCEPT !.output_buffer = b]]
      BY <1>9 DEF DrainAppend
    <2>7. UNCHANGED <<next_conn_id, sock, rcvq, sndq, got>>
      BY <1>9 DEF DrainAppend, Modify, clients
    <2> HIDE DEF b, r
    <2> QED
      BY <1>3, <2>2, <2>5, <2>6, <2>7 DEF Wires, Talk
  <1> QED
    BY <1>5, <1>6, <1>7, <1>8, <1>9

LEMMA InitTalk == Init => Talk
  <1> SUFFICES ASSUME Init PROVE Talk
    OBVIOUS
  <1>1. Wires /\ Buffered /\ Fresh
    BY DEF Init, NetworkInit, Wires, Buffered, Fresh, Of
  <1>2. InFlight = {}
    BY DEF Init, EmptyQueue, InFlight, Range
  <1> QED
    BY <1>1, <1>2 DEF Talk

LEMMA StepTalk == IInv /\ Talk /\ [Next]_vars => Talk'
  <1> SUFFICES ASSUME IInv, Talk, [Next]_vars PROVE Talk'
    OBVIOUS
  <1>1. ASSUME Steady PROVE Fresh' /\ \A m \in InFlight : Tagged(m)'
    BY <1>1 DEF Steady, Talk, Fresh, Tagged, Answers, Has
  <1>2. ASSUME Steady, InFlight' \subseteq InFlight PROVE Fresh' /\ \A m \in InFlight' : Tagged(m)'
    BY <1>1, <1>2
  <1>3. CASE DecodeEnqueue
    <2>1. Wires' /\ Buffered' /\ Steady
      BY <1>3, Buffering
    <2>2. \A m \in Range(Decoded(This, connections[This].input_buffer)) : Tagged(m)
      BY <1>3, AtHand, DecodedTagged DEF DecodeEnqueue, RecvAgain, AtEvent, Has
    <2>3. \A m : Tagged(m) => Tagged(m)'
      BY <2>1 DEF Steady, Tagged, Answers, Has
    <2>4. \A m \in InFlight' : Tagged(m)'
      <3>1. InFlight' \subseteq
              InFlight \cup Range(Decoded(This, connections[This].input_buffer))
        BY Flight
      <3> QED
        BY <2>2, <2>3, <3>1 DEF Talk
    <2> QED
      BY <1>1, <2>1, <2>4 DEF Talk
  <1>4. CASE RecvData \/ (\E n \in 1..SndCap : SendSome(n)) \/ SendRest \/ DrainAppend
    <2>1. Wires' /\ Buffered' /\ Steady
      BY <1>4, Buffering
    <2>2. ~DecodeEnqueue
      BY <1>4 DEF RecvData, SendSome, SendRest, Transfer, DrainAppend, DrainPop, DecodeEnqueue,
        RecvAgain, Readable
    <2> QED
      BY <1>2, <2>1, <2>2, Flight DEF Talk
  <1>5. ASSUME NEW fd \in Fd, Accept(fd) PROVE Talk'
    <2>1. /\ fd \notin DOMAIN connections /\ fd \notin DOMAIN sock
          /\ connections' = Insert(connections, fd, [conn_id |-> next_conn_id,
               input_buffer |-> <<>>, output_buffer |-> <<>>])
          /\ sock' = Insert(sock, fd, Head(backlog))
          /\ next_conn_id' = next_conn_id + 1 /\ next_conn_id \in Nat
      BY <1>5 DEF Accept, IInv, Tables, TypeOK, MemoryTypeOK
    <2>2. \A x \in DOMAIN connections : /\ connections[x].conn_id \in Nat
                                        /\ connections'[x] = connections[x] /\ sock'[x] = sock[x]
      BY <2>1 DEF Insert, IInv, Tables, TypeOK, MemoryTypeOK, Connections
    <2>9. /\ DOMAIN connections' = DOMAIN connections \cup {fd}
          /\ connections'[fd].conn_id = next_conn_id
          /\ connections'[fd].input_buffer = <<>> /\ connections'[fd].output_buffer = <<>>
      BY <2>1 DEF Insert
    <2>3. Wires'
      BY <1>5 DEF Accept, Talk, Wires
    <2>4. Buffered'
      BY <2>2, <2>9 DEF Talk, Buffered, Of
    <2>5. Fresh'
      BY <2>1, <2>2, <2>9 DEF Talk, Fresh
    <2>6. InFlight' \subseteq InFlight
      BY <1>5 DEF Accept, queues, workers, InFlight
    <2>7. \A m \in InFlight : m \in Messages
      BY DEF InFlight, Range, IInv, TypeOK, WorkTypeOK, Queue
    <2>8. \A m \in InFlight : Tagged(m)'
      BY <2>1, <2>2, <2>7, <2>9 DEF Talk, Tagged, Answers, Has, Messages
    <2> QED
      BY <2>3, <2>4, <2>5, <2>6, <2>8 DEF Talk
  <1>6. ASSUME Still, NEW p \in Peer, SendHalf(p) \/ SendInvalid(p) \/ Reset(p) \/ Read(p) PROVE Wires'
    <2>1. /\ rcvq \in [Peer -> Seq(Units)] /\ Of(rcvq[p], p)
          /\ sndq \in [Peer -> Seq(Units)] /\ Of(sndq[p], p)
          /\ got \in [Peer -> Seq(Units)] /\ Of(got[p], p)
      BY DEF IInv, TypeOK, ClientsTypeOK, SocketsTypeOK, Talk, Wires
    <2>2. CASE SendHalf(p) \/ SendInvalid(p)
      <3>1. PICK u : rcvq' = [rcvq EXCEPT ![p] = Append(@, u)] /\ u.from = p
        BY <2>2 DEF SendHalf, SendInvalid, Half
      <3>2. Of(Append(rcvq[p], u), p)
        BY <2>1, <3>1 DEF Of
      <3> QED
        BY <2>1, <2>2, <3>1, <3>2 DEF SendHalf, SendInvalid, Talk, Wires
    <2>3. CASE Reset(p)
      BY <2>1, <2>3 DEF Reset, Talk, Wires, Of
    <2>4. CASE Read(p)
      <3>1. sndq[p] # <<>>
        BY <2>4 DEF Read
      <3>2. Head(sndq[p]) \in Units /\ Head(sndq[p]).from = p /\ Of(Tail(sndq[p]), p)
        <4> DEFINE q == sndq[p]
        <4>1. q \in Seq(Units) /\ Of(q, p) /\ q # <<>>
          BY <2>1, <3>1
        <4> HIDE DEF q
        <4>2. Head(q) \in Units /\ Head(q).from = p /\ Of(Tail(q), p)
          BY <4>1, OfSequences
        <4> QED
          BY <4>2 DEF q
      <3>3. Of(Append(got[p], Head(sndq[p])), p)
        BY <2>1, <3>2, OfSequences
      <3> QED
        BY <2>1, <2>4, <3>2, <3>3 DEF Read, Talk, Wires
    <2> QED
      BY <1>6, <2>2, <2>3, <2>4
  <1>7. ASSUME Still, Wires', ~DecodeEnqueue PROVE Talk'
    <2>1. Buffered'
      BY <1>7 DEF Still, Steady, Talk, Buffered
    <2> QED
      BY <1>2, <1>7, <2>1, Flight DEF Still, Talk
  <1>8. CASE Still /\ UNCHANGED <<rcvq, sndq, got>>
    BY <1>3, <1>7, <1>8 DEF Wires, Talk
  <1>9. CASE Still /\ UNCHANGED <<rcvq, got>> /\ SendRestClose
    <2> DEFINE n == Len(connections[This].output_buffer)
    <2>1. This \in DOMAIN connections /\ Transfer(n)
      BY <1>9 DEF SendRestClose, Transfer, Has
    <2>2. n \in Nat
      BY <2>1 DEF IInv, TypeOK, MemoryTypeOK, Connections
    <2>3. ~DecodeEnqueue
      BY <1>9 DEF SendRestClose, Transfer, DecodeEnqueue, RecvAgain
    <2> HIDE DEF n
    <2>4. Wires'
      BY <1>9, <2>1, <2>2, SendingWires
    <2> QED
      BY <1>7, <1>9, <2>3, <2>4
  <1> QED
    BY <1>3, <1>4, <1>5, <1>6, <1>7, <1>8, <1>9, Evolution

\* A client never reads a unit of an answer to another client's request: not when
\* its descriptor was another client's before, and not whatever order workers
\* finish in.
THEOREM OwnAnswersOnly == Spec => []NoCrossTalk
  <1>1. Talk => NoCrossTalk
    BY DEF Talk, Wires, Of, NoCrossTalk
  <1> QED
    BY <1>1, InitIInv, StepIInv, InitTalk, StepTalk, PTL DEF Spec
-----------------------------------------------------------------------------
(* No edge is lost: OutArmed and NoLostEdge, for any clients, descriptors,  *)
(* batches and failing system calls; and NoLostClient, the same for the     *)
(* listening socket, which only an error of accept() can make an exception  *)
(* of.                                                                      *)

\* Every connection is registered for input, and for output exactly while it has
\* some.
Registered == \A fd \in DOMAIN connections : "IN" \in epoll[fd]

\* What NoLostEdge says of one descriptor.
Safe(fd) == /\ Readable(sock[fd]) => Due(fd, "IN")
            /\ Writable(sock[fd]) /\ connections[fd].output_buffer # <<>> => Due(fd, "OUT")

-----------------------------------------------------------------------------
(* What a step leaves alone.                                                *)

\* The descriptors that remain keep their registration, client and output.
Unmoved == /\ DOMAIN connections' \subseteq DOMAIN connections
           /\ \A fd \in DOMAIN connections' :
                /\ connections'[fd].output_buffer = connections[fd].output_buffer
                /\ epoll'[fd] = epoll[fd] /\ sock'[fd] = sock[fd]

LEMMA ClosingUnmoved ==
  ASSUME IInv, NEW fd \in DOMAIN connections, Disconnect(fd)
  PROVE  /\ Unmoved /\ DOMAIN connections' = DOMAIN connections \ {fd}
         /\ rdy' = rdy \ {fd} /\ UNCHANGED <<rcvq, mode>>
  BY DEF Disconnect, CloseSocket, Restrict, Unmoved, IInv, Tables

\* Who changes registrations and output.
LEMMA Registration ==
  ASSUME IInv, [Next]_vars
  PROVE  \/ Unmoved
         \/ \E fd \in Fd : Accept(fd)
         \/ (\E n \in 1..SndCap : SendSome(n)) \/ SendRest \/ DrainAppend
  <1>1. ASSUME UNCHANGED <<connections, sock, epoll>> PROVE Unmoved
    BY <1>1 DEF Unmoved
  <1>2. CASE RecvClose \/ DecodeInvalid
    <2>1. This \in DOMAIN connections /\ CloseConnection(This)
      BY <1>2, AtHand DEF AtEvent, Has, RecvClose, DecodeInvalid, RecvAgain
    <2> QED
      BY <2>1, ClosingUnmoved DEF CloseConnection
  <1>3. CASE SendFails \/ SendRestClose
    BY <1>3, ClosingUnmoved DEF SendFails, SendRestClose, Transfer, Has, CloseConnection
  <1>4. CASE DrainOverflow \/ DrainClose
    BY <1>4, ClosingUnmoved DEF DrainOverflow, DrainClose, Answers, Has, CloseConnection
  <1>5. CASE \E fd \in Fd : StopClose(fd)
    BY <1>5, ClosingUnmoved DEF StopClose, Has, CloseConnection
  <1>6. CASE RecvData \/ DecodeEnqueue
    <2>1. This \in DOMAIN connections /\ connections[This] \in Connections
      BY <1>6, AtHand DEF AtEvent, Has, RecvData, DecodeEnqueue, RecvAgain, IInv, TypeOK, MemoryTypeOK
    <2>2. UNCHANGED <<sock, epoll>>
      BY <1>6 DEF RecvData, DecodeEnqueue, network
    <2>3. \E b : connections' = [connections EXCEPT ![This] = [connections[This] EXCEPT !.input_buffer = b]]
      BY <1>6 DEF RecvData, DecodeEnqueue
    <2> QED
      BY <2>1, <2>2, <2>3 DEF Unmoved, Connections
  <1>7. CASE Clients
    BY <1>1, <1>7 DEF Clients, Client, server, memory, Connect, SendHalf, SendInvalid, Finish, Reset, Read
  <1>8. CASE \/ Signal \/ Start \/ EpollWait \/ LoopExit \/ AcceptTurnAway \/ AcceptDone
             \/ WriteGone \/ SendAgain \/ DrainStale \/ DrainDone
             \/ StopListen \/ StopRequests \/ StopResponses \/ Join
             \/ (\E w \in Worker : Work(w)) \/ UNCHANGED vars
    BY <1>1, <1>8 DEF Signal, Start, EpollWait, LoopExit, AcceptTurnAway, AcceptDone, WriteGone,
      SendAgain, DrainStale, DrainDone, StopListen, StopRequests, StopResponses, Join, Work,
      WorkerPop, WorkerRespond, WorkerThrow, WorkerExit, vars, server, network, memory
  <1> QED
    BY <1>2, <1>3, <1>4, <1>5, <1>6, <1>7, <1>8 DEF Next, IO, AcceptAgain, AcceptFails

-----------------------------------------------------------------------------
(* EPOLLOUT and the output buffer.                                          *)

LEMMA StepArmed == IInv /\ OutArmed /\ Registered /\ [Next]_vars => OutArmed' /\ Registered'
  <1> SUFFICES ASSUME IInv, OutArmed, Registered, [Next]_vars PROVE OutArmed' /\ Registered'
    OBVIOUS
  <1>1. CASE Unmoved
    BY <1>1 DEF Unmoved, OutArmed, Registered
  <1>2. ASSUME NEW fd \in Fd, NEW p, NEW events,
               Watch(fd, p, events), "IN" \in events,
               DOMAIN connections' \subseteq DOMAIN connections \cup {fd},
               \A x \in DOMAIN connections \ {fd} : connections'[x] = connections[x],
               "OUT" \in events <=> connections'[fd].output_buffer # <<>>
        PROVE  OutArmed' /\ Registered'
    <2>1. epoll'[fd] = events /\ \A x \in DOMAIN connections \ {fd} : epoll'[x] = epoll[x]
      BY <1>2 DEF Watch, IInv, Tables
    <2> QED
      BY <1>2, <2>1 DEF OutArmed, Registered
  <1>3. ASSUME NEW fd \in Fd, Accept(fd) PROVE OutArmed' /\ Registered'
    <2>1. /\ Watch(fd, Head(backlog), {"IN"})
          /\ connections' = Insert(connections, fd, [conn_id |-> next_conn_id,
               input_buffer |-> <<>>, output_buffer |-> <<>>])
          /\ fd \notin DOMAIN connections
      BY <1>3 DEF Accept, IInv, Tables
    <2>2. /\ DOMAIN connections' = DOMAIN connections \cup {fd}
          /\ \A x \in DOMAIN connections \ {fd} : connections'[x] = connections[x]
          /\ connections'[fd].output_buffer = <<>>
      BY <2>1 DEF Insert
    <2> QED
      BY <1>2, <2>1, <2>2
  <1>4. ASSUME NEW n \in 1..SndCap, SendSome(n) PROVE OutArmed' /\ Registered'
    <2> DEFINE out == connections[This].output_buffer
    <2>1. This \in DOMAIN connections /\ connections[This] \in Connections /\ out \in Seq(Units)
      BY <1>4 DEF SendSome, Transfer, Has, IInv, TypeOK, MemoryTypeOK, Connections
    <2>2. n \in Nat /\ n < Len(out) /\ UNCHANGED epoll
      BY <1>4 DEF SendSome
    <2>3. connections' = [connections EXCEPT ![This] =
                            [connections[This] EXCEPT !.output_buffer = Erase(out, n)]]
      BY <1>4 DEF SendSome
    <2> HIDE DEF out
    <2>4. out # <<>> /\ Erase(out, n) # <<>>
      <3>1. Len(out) \in Nat /\ out # <<>>
        BY <2>1, <2>2
      <3>2. Len(Erase(out, n)) = Len(out) - n
        BY <2>1, <2>2, <3>1 DEF Erase
      <3>3. Erase(out, n) # <<>>
        BY <2>2, <3>1, <3>2
      <3> QED
        BY <3>1, <3>3
    <2>5. /\ DOMAIN connections' = DOMAIN connections
          /\ connections'[This].output_buffer = Erase(out, n)
          /\ \A x \in DOMAIN connections \ {This} : connections'[x] = connections[x]
      BY <2>1, <2>3 DEF Connections
    <2> QED
      BY <2>1, <2>2, <2>4, <2>5 DEF OutArmed, Registered, out
  <1>5. CASE SendRest
    <2>1. This \in DOMAIN connections /\ connections[This] \in Connections /\ This \in Fd
      BY <1>5 DEF SendRest, Transfer, Has, IInv, TypeOK, MemoryTypeOK
    <2>2. /\ connections' = [connections EXCEPT ![This] = [connections[This] EXCEPT !.output_buffer = <<>>]]
          /\ Watch(This, sock[This], {"IN"})
      BY <1>5 DEF SendRest, Modify
    <2>3. /\ DOMAIN connections' = DOMAIN connections
          /\ connections'[This].output_buffer = <<>>
          /\ \A x \in DOMAIN connections \ {This} : connections'[x] = connections[x]
      BY <2>1, <2>2 DEF Connections
    <2> QED
      BY <1>2, <2>1, <2>2, <2>3
  <1>6. CASE DrainAppend
    <2> DEFINE r == Response
               out == connections[r.fd].output_buffer
               b == out \o Encoded(r)
    <2>1. r \in Messages
      <3>1. response_queue.items \in Seq(Messages) /\ response_queue.items # <<>>
        BY <1>6 DEF DrainAppend, DrainPop, CanPop, IInv, TypeOK, WorkTypeOK, Queue
      <3> QED
        BY <3>1 DEF Response, Front
    <2>2. r.fd \in DOMAIN connections /\ r.fd \in Fd
      BY <1>6, <2>1 DEF DrainAppend, Answers, Has, Messages
    <2>3. connections[r.fd] \in Connections /\ out \in Seq(Units)
      BY <2>2 DEF IInv, TypeOK, MemoryTypeOK, Connections
    <2>4. /\ connections' = [connections EXCEPT ![r.fd] = [connections[r.fd] EXCEPT !.output_buffer = b]]
          /\ Watch(r.fd, sock[r.fd], {"IN", "OUT"})
      BY <1>6 DEF DrainAppend, Modify
    <2>5. b # <<>>
      <3>1. Encoded(r) \in Seq(Units) /\ Encoded(r) # <<>>
        BY <2>1, EncodedTyped
      <3> HIDE DEF out, r
      <3> QED
        BY <2>3, <3>1
    <2> HIDE DEF b, r
    <2>6. /\ DOMAIN connections' = DOMAIN connections
          /\ connections'[r.fd].output_buffer = b
          /\ \A x \in DOMAIN connections \ {r.fd} : connections'[x] = connections[x]
      BY <2>2, <2>3, <2>4 DEF Connections
    <2> QED
      BY <1>2, <2>2, <2>4, <2>5, <2>6
  <1> QED
    BY <1>1, <1>3, <1>4, <1>5, <1>6, Registration

LEMMA InitArmed == Init => OutArmed /\ Registered /\ NoLostEdge
  BY DEF Init, OutArmed, Registered, NoLostEdge

\* Output is never left without EPOLLOUT, and EPOLLOUT never on without output,
\* through partial sends, EAGAIN, appended responses and failing epoll_ctl() calls.
THEOREM OutputArmed == Spec => []OutArmed
  <1> QED
    BY InitIInv, StepIInv, InitArmed, StepArmed, PTL DEF Spec

-----------------------------------------------------------------------------
(* Edges.                                                                   *)

\* An edge stays due while its descriptor stays ready and the batch keeps it.
LEMMA StaysDue ==
  ASSUME IInv, NEW fd, NEW e, Due(fd, e), fd \in rdy => fd \in rdy',
         \/ batch' = batch
         \/ AtEvent /\ Proceed(Tail(batch)) /\ (fd # This \/ e \notin Head(batch).events)
         \/ pc = "read" /\ Proceed(AfterRead) /\ (fd # This \/ e = "OUT")
  PROVE  Due(fd, e)'
  <1>1. CASE fd \in rdy
    BY <1>1 DEF Due
  <1>2. ASSUME NEW i \in DOMAIN batch, batch[i].fd = fd, e \in batch[i].events
        PROVE  \E j \in DOMAIN batch' : batch'[j].fd = fd /\ e \in batch'[j].events
    <2>1. batch \in Seq(Events)
      BY DEF IInv, TypeOK, LoopTypeOK
    <2>2. CASE batch' = batch
      BY <1>2, <2>2
    <2>3. CASE Proceed(Tail(batch)) /\ (fd # This \/ e \notin Head(batch).events)
      <3>1. i # 1
        BY <1>2, <2>1, <2>3 DEF This
      <3>2. i - 1 \in DOMAIN batch' /\ batch'[i - 1] = batch[i]
        BY <1>2, <2>1, <2>3, <3>1 DEF Proceed
      <3> QED
        BY <1>2, <3>2
    <2>4. CASE pc = "read" /\ Proceed(AfterRead) /\ (fd # This \/ e = "OUT")
      <3>1. batch # <<>> /\ Head(batch) = batch[1] /\ Head(batch) \in Events
        BY <2>4, AtHand DEF AtEvent
      <3>2. CASE "OUT" \notin Head(batch).events
        <4>1. i # 1 /\ batch' = Tail(batch)
          BY <1>2, <2>4, <3>1, <3>2 DEF This, Proceed, AfterRead
        <4>2. i - 1 \in DOMAIN batch' /\ batch'[i - 1] = batch[i]
          BY <1>2, <2>1, <4>1
        <4> QED
          BY <1>2, <4>2
      <3>3. CASE "OUT" \in Head(batch).events
        <4> DEFINE first == [Head(batch) EXCEPT !.events = {"OUT"}]
        <4>1. first.fd = This /\ first.events = {"OUT"}
          BY <3>1 DEF Events, This
        <4>2. batch' = <<first>> \o Tail(batch)
          BY <2>4, <3>3 DEF Proceed, AfterRead
        <4> HIDE DEF first
        <4>3. DOMAIN batch' = DOMAIN batch /\ batch'[1] = first
              /\ \A j \in DOMAIN batch : j # 1 => batch'[j] = batch[j]
          BY <2>1, <3>1, <4>2
        <4>4. CASE i = 1
          BY <1>2, <2>4, <3>1, <4>1, <4>3, <4>4 DEF This
        <4>5. CASE i # 1
          BY <1>2, <4>3, <4>5
        <4> QED
          BY <4>4, <4>5
      <3> QED
        BY <3>2, <3>3
    <2> QED
      BY <2>2, <2>3, <2>4
  <1> QED
    BY <1>1, <1>2 DEF Due

\* The server makes no socket readable or writable: it receives and sends.
Calm == \A p \in Peer : (Readable(p)' => Readable(p)) /\ (Writable(p)' => Writable(p))

LEMMA CalmWhenUnchanged == UNCHANGED <<rcvq, sndq, mode>> => Calm
  BY DEF Calm, Readable, Writable

\* Sending leaves less room than there was.
LEMMA SendingCalm ==
  ASSUME IInv, NEW n \in Nat, Transfer(n), UNCHANGED <<rcvq, mode>>
  PROVE  Calm
  <1> DEFINE p == sock[This]
             out == connections[This].output_buffer
  <1>1. This \in DOMAIN connections /\ p \in Peer
    BY DEF Transfer, Has, IInv, Tables, TypeOK, SocketsTypeOK
  <1>2. out \in Seq(Units) /\ sndq \in [Peer -> Seq(Units)]
    BY <1>1 DEF IInv, TypeOK, MemoryTypeOK, SocketsTypeOK, Connections
  <1>3. sndq' = [sndq EXCEPT ![p] = @ \o SubSeq(out, 1, n)] /\ n <= Len(out)
    BY DEF Transfer
  <1> HIDE DEF p, out
  <1>4. Len(sndq'[p]) = Len(sndq[p]) + n /\ Len(sndq[p]) \in Nat
    <2>1. SubSeq(out, 1, n) \in Seq(Units) /\ Len(SubSeq(out, 1, n)) = n
      BY <1>2, <1>3
    <2> QED
      BY <1>1, <1>2, <1>3, <2>1
  <1>5. \A q \in Peer : Readable(q)' => Readable(q)
    BY DEF Readable
  <1>6. \A q \in Peer : Writable(q)' => Writable(q)
    BY <1>1, <1>2, <1>3, <1>4, NetworkAssumption DEF Writable
  <1> QED
    BY <1>5, <1>6 DEF Calm

\* A descriptor is safe after a step of the server when its edges stay due.
LEMMA Follow ==
  ASSUME IInv, NoLostEdge, Calm,
         NEW fd \in DOMAIN connections, sock'[fd] = sock[fd],
         connections'[fd].output_buffer # <<>> => connections[fd].output_buffer # <<>>,
         \/ Due(fd, "IN") => Due(fd, "IN")'
         \/ ~Readable(sock[fd]),
         \/ Due(fd, "OUT") => Due(fd, "OUT")'
         \/ ~Writable(sock[fd])
         \/ connections'[fd].output_buffer = <<>>
  PROVE  Safe(fd)'
  <1> DEFINE p == sock[fd]
  <1>1. p \in Peer
    BY DEF IInv, Tables, TypeOK, SocketsTypeOK
  <1>2. Safe(fd)
    BY DEF NoLostEdge, Safe
  <1>3. (Readable(p)' => Readable(p)) /\ (Writable(p)' => Writable(p))
    BY <1>1 DEF Calm
  <1>4. Readable(p)' => Due(fd, "IN")'
    BY <1>2, <1>3 DEF Safe
  <1>5. Writable(p)' /\ connections'[fd].output_buffer # <<>> => Due(fd, "OUT")'
    BY <1>2, <1>3 DEF Safe
  <1> QED
    BY <1>4, <1>5 DEF Safe

\* The connections a step leaves are those it found, and safe: for steps that
\* change no connection's output.
LEMMA FollowAll ==
  ASSUME IInv, NoLostEdge, Unmoved, Calm,
         \A fd \in DOMAIN connections' : \A e : Due(fd, e) => Due(fd, e)'
  PROVE  NoLostEdge'
  <1> SUFFICES ASSUME NEW fd \in DOMAIN connections' PROVE Safe(fd)'
    BY DEF NoLostEdge, Safe
  <1>1. fd \in DOMAIN connections /\ sock'[fd] = sock[fd]
    BY DEF Unmoved
  <1>2. connections'[fd].output_buffer = connections[fd].output_buffer
    BY DEF Unmoved
  <1> QED
    BY <1>1, <1>2, Follow

\* Whatever a client does to a socket puts its descriptor on the ready list.
LEMMA ClientsEdges ==
  ASSUME IInv, OutArmed, NoLostEdge, NEW p \in Peer, Connect(p) \/ Client(p), UNCHANGED server
  PROVE  NoLostEdge'
  <1>1. /\ UNCHANGED <<connections, batch, sock, epoll>> /\ rdy \subseteq rdy'
    BY DEF server, memory, Client, Connect, SendHalf, SendInvalid, Finish, Reset, Read, Arrive
  <1>2. \A fd : \A e : Due(fd, e) => Due(fd, e)'
    BY <1>1 DEF Due
  <1> SUFFICES ASSUME NEW fd \in DOMAIN connections PROVE Safe(fd)'
    BY <1>1 DEF NoLostEdge, Safe
  <1>3. Safe(fd) /\ fd \in DOMAIN sock
    BY DEF NoLostEdge, Safe, IInv, Tables
  <1>4. CASE sock[fd] # p \/ Connect(p)
    <2> DEFINE q == sock[fd]
    <2>1. q \in Peer /\ sock' = sock
      BY <1>1, <1>3 DEF IInv, TypeOK, SocketsTypeOK
    <2>2. rcvq \in [Peer -> Seq(Units)] /\ sndq \in [Peer -> Seq(Units)] /\ DOMAIN mode = Peer
      BY DEF IInv, TypeOK, ClientsTypeOK, SocketsTypeOK
    <2>3. rcvq'[q] = rcvq[q] /\ sndq'[q] = sndq[q] /\ mode'[q] = mode[q]
      BY <1>4, <2>1, <2>2 DEF Client, Connect, SendHalf, SendInvalid, Finish, Reset, Read
    <2>4. (Readable(sock[fd])' => Readable(sock[fd])) /\ (Writable(sock[fd])' => Writable(sock[fd]))
      BY <2>1, <2>3 DEF Readable, Writable
    <2> QED
      BY <1>1, <1>2, <1>3, <2>1, <2>4 DEF Safe
  <1>5. CASE sock[fd] = p /\ (SendHalf(p) \/ SendInvalid(p) \/ Finish(p) \/ Reset(p))
    <2>1. fd \in rdy'
      BY <1>3, <1>5 DEF SendHalf, SendInvalid, Finish, Reset, Arrive, FdsOf
    <2> QED
      BY <2>1 DEF Safe, Due
  <1>6. CASE sock[fd] = p /\ Read(p)
    <2>1. Readable(p)' = Readable(p)
      BY <1>6 DEF Read, Readable
    <2>2. CASE Writable(p)
      BY <1>1, <1>2, <1>3, <1>6, <2>1, <2>2 DEF Safe
    <2>3. CASE ~Writable(p)
      <3>1. connections[fd].output_buffer # <<>> => fd \in rdy'
        BY <1>3, <1>6, <2>3 DEF Read, FdsOf, OutArmed
      <3> QED
        BY <1>1, <1>2, <1>3, <1>6, <2>1, <3>1 DEF Safe, Due
    <2> QED
      BY <2>2, <2>3
  <1> QED
    BY <1>4, <1>5, <1>6 DEF Client

\* What epoll_wait() does not report stays ready, and it reports each edge that
\* matters.
LEMMA WaitEdges ==
  ASSUME IInv, OutArmed, Registered, NoLostEdge, EpollWait
  PROVE  NoLostEdge'
  <1> SUFFICES ASSUME NEW fd \in DOMAIN connections PROVE Safe(fd)'
    BY DEF EpollWait, memory, NoLostEdge, Safe
  <1>1. UNCHANGED <<connections, sock, rcvq, sndq, mode>>
    BY DEF EpollWait, memory, clients
  <1>2. Safe(fd) /\ fd # ListenFd
    BY NetworkAssumption DEF NoLostEdge, Safe, IInv, TypeOK, MemoryTypeOK
  <1>3. ~(\E i \in DOMAIN batch : TRUE)
    BY DEF EpollWait, IInv, Batch, AtEvent
  <1>4. PICK b \in Injection(1..Fitting, Reported) :
          batch' = b /\ rdy' = {e.fd : e \in Reported \ Range(b)}
    BY DEF EpollWait, Proceed
  <1>5. ASSUME fd \in rdy, NEW e, e \in Pending(fd) PROVE Due(fd, e)'
    <2> DEFINE report == [fd |-> fd, events |-> Pending(fd), conn_id |-> connections[fd].conn_id]
    <2>1. report \in Reported
      BY <1>2, <1>5 DEF Reported
    <2>2. CASE report \in Range(b)
      <3>1. PICK i \in DOMAIN b : b[i] = report
        BY <2>2 DEF Range
      <3> QED
        BY <1>4, <1>5, <3>1 DEF Due
    <2>3. CASE report \notin Range(b)
      BY <1>4, <2>1, <2>3 DEF Due
    <2> QED
      BY <2>2, <2>3
  <1>6. Readable(sock[fd]) => Due(fd, "IN")'
    <2> SUFFICES ASSUME Readable(sock[fd]) PROVE Due(fd, "IN")'
      OBVIOUS
    <2>1. fd \in rdy
      BY <1>2, <1>3 DEF Safe, Due
    <2>2. "IN" \in Pending(fd)
      BY DEF Registered, Pending
    <2> QED
      BY <1>5, <2>1, <2>2
  <1>7. Writable(sock[fd]) /\ connections[fd].output_buffer # <<>> => Due(fd, "OUT")'
    <2> SUFFICES ASSUME Writable(sock[fd]), connections[fd].output_buffer # <<>> PROVE Due(fd, "OUT")'
      OBVIOUS
    <2>1. fd \in rdy
      BY <1>2, <1>3 DEF Safe, Due
    <2>2. "OUT" \in Pending(fd)
      BY DEF OutArmed, Pending
    <2> QED
      BY <1>5, <2>1, <2>2
  <1>8. /\ Readable(sock[fd])' = Readable(sock[fd])
        /\ Writable(sock[fd])' = Writable(sock[fd])
    BY <1>1 DEF Readable, Writable
  <1> QED
    BY <1>1, <1>6, <1>7, <1>8 DEF Safe

\* A handler drops the event at hand when there is nothing more to do for it.
LEMMA HandlersEdges ==
  ASSUME IInv, OutArmed, NoLostEdge,
         \/ AcceptDone \/ RecvData \/ RecvClose \/ DecodeInvalid \/ DecodeEnqueue
         \/ WriteGone \/ (\E n \in 1..SndCap : SendSome(n)) \/ SendRest \/ SendAgain \/ SendFails \/ SendRestClose
  PROVE  NoLostEdge'
  <1>1. CASE AcceptDone
    <2>1. AtEvent /\ Proceed(Tail(batch)) /\ UNCHANGED <<connections, sock, epoll, rdy, rcvq, sndq, mode>>
      BY <1>1 DEF AcceptDone, AtEvent, memory, network, clients
    <2>2. \A fd \in DOMAIN connections : fd # This
      <3>1. This = ListenFd
        BY <1>1, <2>1, AtHand DEF AcceptDone, IInv, Batch, Stage, This
      <3> QED
        BY <3>1, NetworkAssumption DEF IInv, TypeOK, MemoryTypeOK
    <2>3. \A fd \in DOMAIN connections : \A e : Due(fd, e) => Due(fd, e)'
      BY <2>1, <2>2, StaysDue
    <2> QED
      BY <2>1, <2>3, CalmWhenUnchanged, FollowAll DEF Unmoved
  <1>2. CASE RecvData
    <2>1. This \in DOMAIN connections /\ sock[This] \in Peer
      BY <1>2, AtHand DEF RecvData, AtEvent, Has
    <2>2. Calm
      BY <1>2, <2>1 DEF RecvData, clients, Calm, Readable, Writable
    <2>3. \A fd : \A e : Due(fd, e) => Due(fd, e)'
      BY <1>2 DEF RecvData, Stay, Due
    <2>4. Unmoved
      <3>1. connections[This] \in Connections
        BY <2>1 DEF IInv, TypeOK, MemoryTypeOK
      <3>2. \E b : connections' = [connections EXCEPT ![This] =
                                     [connections[This] EXCEPT !.input_buffer = b]]
        BY <1>2 DEF RecvData
      <3> QED
        BY <1>2, <3>1, <3>2 DEF RecvData, Unmoved, Connections
    <2> QED
      BY <2>2, <2>3, <2>4, FollowAll
  <1>3. CASE RecvClose \/ DecodeInvalid
    <2>1. pc = "read" /\ This \in DOMAIN connections /\ CloseConnection(This) /\ Proceed(AfterRead)
      BY <1>3, AtHand DEF AtEvent, Has, RecvClose, DecodeInvalid, RecvAgain
    <2>2. /\ Unmoved /\ DOMAIN connections' = DOMAIN connections \ {This}
          /\ rdy' = rdy \ {This} /\ UNCHANGED <<rcvq, sndq, mode>>
      BY <2>1, ClosingUnmoved DEF CloseConnection
    <2>3. \A fd \in DOMAIN connections' : \A e : Due(fd, e) => Due(fd, e)'
      BY <2>1, <2>2, StaysDue
    <2> QED
      BY <2>2, <2>3, CalmWhenUnchanged, FollowAll
  <1>4. CASE DecodeEnqueue
    <2>1. pc = "read" /\ This \in DOMAIN connections /\ Proceed(AfterRead) /\ ~Readable(sock[This])
      BY <1>4, AtHand DEF AtEvent, Has, DecodeEnqueue, RecvAgain
    <2>2. UNCHANGED <<sock, rdy, rcvq, sndq, mode>>
      BY <1>4 DEF DecodeEnqueue, network, clients
    <2>3. /\ DOMAIN connections' = DOMAIN connections
          /\ \A fd \in DOMAIN connections :
               connections'[fd].output_buffer = connections[fd].output_buffer
      <3>1. connections[This] \in Connections
        BY <2>1 DEF IInv, TypeOK, MemoryTypeOK
      <3>2. \E b : connections' = [connections EXCEPT ![This] =
                                     [connections[This] EXCEPT !.input_buffer = b]]
        BY <1>4 DEF DecodeEnqueue
      <3> QED
        BY <3>1, <3>2 DEF Connections
    <2>4. ASSUME NEW fd \in DOMAIN connections PROVE Safe(fd)'
      <3>1. Due(fd, "OUT") => Due(fd, "OUT")'
        BY <2>1, <2>2, StaysDue
      <3>2. fd # This => (Due(fd, "IN") => Due(fd, "IN")')
        BY <2>1, <2>2, StaysDue
      <3> QED
        BY <2>1, <2>2, <2>3, <3>1, <3>2, CalmWhenUnchanged, Follow
    <2> QED
      BY <2>3, <2>4 DEF NoLostEdge, Safe
  <1>5. CASE WriteGone
    <2>1. /\ AtEvent /\ Proceed(Tail(batch)) /\ This \notin DOMAIN connections
          /\ UNCHANGED <<connections, sock, epoll, rdy, rcvq, sndq, mode>>
      BY <1>5 DEF WriteGone, AtEvent, Has, memory, network, clients
    <2>2. \A fd \in DOMAIN connections : \A e : Due(fd, e) => Due(fd, e)'
      BY <2>1, StaysDue
    <2> QED
      BY <2>1, <2>2, CalmWhenUnchanged, FollowAll DEF Unmoved
  <1>6. ASSUME NEW n \in 1..SndCap, SendSome(n) PROVE NoLostEdge'
    <2> DEFINE out == connections[This].output_buffer
    <2>1. This \in DOMAIN connections /\ connections[This] \in Connections /\ out \in Seq(Units)
      BY <1>6 DEF SendSome, Transfer, Has, IInv, TypeOK, MemoryTypeOK, Connections
    <2>2. n \in Nat /\ n < Len(out) /\ Transfer(n) /\ UNCHANGED <<sock, rcvq, mode, batch, rdy>>
      BY <1>6 DEF SendSome, clients, Stay
    <2>3. connections' = [connections EXCEPT ![This] =
                            [connections[This] EXCEPT !.output_buffer = Erase(out, n)]]
      BY <1>6 DEF SendSome
    <2> HIDE DEF out
    <2>4. out # <<>>
      BY <2>1, <2>2
    <2>5. /\ DOMAIN connections' = DOMAIN connections
          /\ \A fd \in DOMAIN connections :
               connections'[fd].output_buffer # <<>> => connections[fd].output_buffer # <<>>
      BY <2>1, <2>3, <2>4 DEF Connections, out
    <2>6. \A fd : \A e : Due(fd, e) => Due(fd, e)'
      BY <2>2 DEF Due
    <2>7. \A fd \in DOMAIN connections : Safe(fd)'
      BY <2>2, <2>5, <2>6, SendingCalm, Follow
    <2> QED
      BY <2>5, <2>7 DEF NoLostEdge, Safe
  <1>7. pc = "write" /\ batch # <<>> => "IN" \notin Head(batch).events \/ This = ListenFd
    BY DEF IInv, Batch, Stage, This
  <1>8. CASE SendRest
    <2> DEFINE n == Len(connections[This].output_buffer)
    <2>1. pc = "write" /\ This \in DOMAIN connections /\ Transfer(n) /\ Proceed(Tail(batch))
      BY <1>8 DEF SendRest, Transfer, Has
    <2>2. connections[This] \in Connections /\ n \in Nat /\ This # ListenFd
      BY <2>1, NetworkAssumption DEF IInv, TypeOK, MemoryTypeOK, Connections
    <2>3. UNCHANGED <<sock, rcvq, mode>> /\ rdy \subseteq rdy'
      BY <1>8 DEF SendRest, Modify, Watch, clients
    <2>4. connections' = [connections EXCEPT ![This] = [connections[This] EXCEPT !.output_buffer = <<>>]]
      BY <1>8 DEF SendRest
    <2>5. /\ DOMAIN connections' = DOMAIN connections
          /\ connections'[This].output_buffer = <<>>
          /\ \A fd \in DOMAIN connections \ {This} : connections'[fd] = connections[fd]
      BY <2>1, <2>2, <2>4 DEF Connections
    <2>6. Calm
      BY <2>1, <2>2, <2>3, SendingCalm
    <2>7. ASSUME NEW fd \in DOMAIN connections PROVE Safe(fd)'
      <3>1. Due(fd, "IN") => Due(fd, "IN")'
        BY <1>7, <2>1, <2>2, <2>3, AtHand, StaysDue DEF AtEvent
      <3>2. fd # This => (Due(fd, "OUT") => Due(fd, "OUT")')
        BY <2>1, <2>3, StaysDue DEF AtEvent
      <3> QED
        BY <2>3, <2>5, <2>6, <3>1, <3>2, Follow
    <2> QED
      BY <2>5, <2>7 DEF NoLostEdge, Safe
  <1>9. CASE SendAgain
    <2>1. /\ pc = "write" /\ This \in DOMAIN connections /\ Proceed(Tail(batch))
          /\ ~Writable(sock[This])
          /\ UNCHANGED <<connections, sock, rdy, rcvq, sndq, mode>>
      BY <1>9 DEF SendAgain, Has, memory, network, clients
    <2>2. This # ListenFd
      BY <2>1, NetworkAssumption DEF IInv, TypeOK, MemoryTypeOK
    <2>3. ASSUME NEW fd \in DOMAIN connections PROVE Safe(fd)'
      <3>1. Due(fd, "IN") => Due(fd, "IN")'
        BY <1>7, <2>1, <2>2, AtHand, StaysDue DEF AtEvent
      <3>2. fd # This => (Due(fd, "OUT") => Due(fd, "OUT")')
        BY <2>1, StaysDue DEF AtEvent
      <3> QED
        BY <2>1, <3>1, <3>2, CalmWhenUnchanged, Follow
    <2> QED
      BY <2>1, <2>3 DEF NoLostEdge, Safe
  <1>10. CASE SendFails
    <2>1. AtEvent /\ This \in DOMAIN connections /\ CloseConnection(This) /\ Proceed(Tail(batch))
      BY <1>10 DEF SendFails, AtEvent, Has
    <2>2. /\ Unmoved /\ DOMAIN connections' = DOMAIN connections \ {This}
          /\ rdy' = rdy \ {This} /\ UNCHANGED <<rcvq, sndq, mode>>
      BY <2>1, ClosingUnmoved DEF CloseConnection
    <2>3. \A fd \in DOMAIN connections' : \A e : Due(fd, e) => Due(fd, e)'
      BY <2>1, <2>2, StaysDue
    <2> QED
      BY <2>2, <2>3, CalmWhenUnchanged, FollowAll
  <1>11. CASE SendRestClose
    <2> DEFINE n == Len(connections[This].output_buffer)
    <2>1. AtEvent /\ This \in DOMAIN connections /\ Disconnect(This) /\ Proceed(Tail(batch))
      BY <1>11 DEF SendRestClose, Transfer, AtEvent, Has
    <2>2. /\ Unmoved /\ DOMAIN connections' = DOMAIN connections \ {This}
          /\ rdy' = rdy \ {This} /\ UNCHANGED <<rcvq, mode>>
      BY <2>1, ClosingUnmoved
    <2>3. \A fd \in DOMAIN connections' : \A e : Due(fd, e) => Due(fd, e)'
      BY <2>1, <2>2, StaysDue
    <2>4. n \in Nat /\ Transfer(n)
      <3>1. connections[This] \in Connections
        BY <2>1 DEF IInv, TypeOK, MemoryTypeOK
      <3> QED
        BY <1>11, <3>1 DEF SendRestClose, Connections
    <2> HIDE DEF n
    <2> QED
      BY <2>2, <2>3, <2>4, SendingCalm, FollowAll
  <1> QED
    BY <1>1, <1>2, <1>3, <1>4, <1>5, <1>6, <1>8, <1>9, <1>10, <1>11

LEMMA StepEdges ==
  IInv /\ OutArmed /\ Registered /\ NoLostEdge /\ [Next]_vars => NoLostEdge'
  <1> SUFFICES ASSUME IInv, OutArmed, Registered, NoLostEdge, [Next]_vars PROVE NoLostEdge'
    OBVIOUS
  <1>1. CASE Clients
    BY <1>1, ClientsEdges DEF Clients
  <1>2. CASE EpollWait
    BY <1>2, WaitEdges
  <1>3. CASE \/ AcceptDone \/ RecvData \/ RecvClose \/ DecodeInvalid \/ DecodeEnqueue
             \/ WriteGone \/ (\E n \in 1..SndCap : SendSome(n)) \/ SendRest \/ SendAgain \/ SendFails \/ SendRestClose
    BY <1>3, HandlersEdges
  <1>4. ASSUME NEW fd \in Fd, Accept(fd) PROVE NoLostEdge'
    <2>0. PICK p : p = Head(backlog)
      OBVIOUS
    <2>1. /\ connections' = Insert(connections, fd, [conn_id |-> next_conn_id,
               input_buffer |-> <<>>, output_buffer |-> <<>>])
          /\ sock' = Insert(sock, fd, p) /\ Watch(fd, p, {"IN"})
          /\ UNCHANGED <<batch, rcvq, sndq, mode>>
          /\ fd \notin DOMAIN connections /\ fd \notin DOMAIN sock
      BY <1>4, <2>0 DEF Accept, Stay, IInv, Tables
    <2>2. rdy \subseteq rdy' /\ (Readable(p) => fd \in rdy')
      BY <2>1 DEF Watch
    <2>3. \A x \in DOMAIN connections : connections'[x] = connections[x] /\ sock'[x] = sock[x]
      BY <2>1 DEF Insert, IInv, Tables
    <2>4. DOMAIN connections' = DOMAIN connections \cup {fd} /\ connections'[fd].output_buffer = <<>>
      BY <2>1 DEF Insert
    <2>5. \A x \in DOMAIN connections : Safe(x)'
      <3>1. \A x : \A e : Due(x, e) => Due(x, e)'
        BY <2>1, <2>2 DEF Due
      <3> QED
        BY <2>1, <2>3, <3>1, CalmWhenUnchanged, Follow
    <2>6. Safe(fd)'
      <3>1. sock'[fd] = p
        BY <2>1 DEF Insert
      <3>2. Readable(p)' = Readable(p)
        BY <2>1 DEF Readable
      <3> QED
        BY <2>2, <2>4, <3>1, <3>2 DEF Safe, Due
    <2> QED
      BY <2>4, <2>5, <2>6 DEF NoLostEdge, Safe
  <1>5. CASE DrainAppend
    <2>0. PICK x : x = Response.fd
      OBVIOUS
    <2>1. x \in DOMAIN connections /\ Modify(x, {"IN", "OUT"}) /\ UNCHANGED <<batch, sndq>>
      BY <1>5, <2>0 DEF DrainAppend, DrainPop, Stay, Answers, Has
    <2>2. \E b : connections' = [connections EXCEPT ![x] = [connections[x] EXCEPT !.output_buffer = b]]
      BY <1>5, <2>0 DEF DrainAppend
    <2>3. UNCHANGED <<sock, rcvq, sndq, mode>> /\ rdy \subseteq rdy'
      BY <2>1 DEF Modify, Watch, clients
    <2>4. Writable(sock[x]) => x \in rdy'
      BY <2>1 DEF Modify, Watch
    <2>5. /\ DOMAIN connections' = DOMAIN connections
          /\ \A fd \in DOMAIN connections \ {x} : connections'[fd] = connections[fd]
      BY <2>2
    <2>6. \A fd : \A e : Due(fd, e) => Due(fd, e)'
      BY <2>1, <2>3 DEF Due
    <2>7. \A fd \in DOMAIN connections \ {x} : Safe(fd)'
      BY <2>3, <2>5, <2>6, CalmWhenUnchanged, Follow
    <2>8. Safe(x)'
      <3>1. Safe(x)
        BY <2>1 DEF NoLostEdge, Safe
      <3>2. Readable(sock[x])' = Readable(sock[x]) /\ Writable(sock[x])' = Writable(sock[x])
        BY <2>3 DEF Readable, Writable
      <3> QED
        BY <2>4, <2>6, <3>1, <3>2 DEF Safe, Due
    <2> QED
      BY <2>5, <2>7, <2>8 DEF NoLostEdge, Safe
  <1>6. ASSUME NEW fd \in DOMAIN connections, CloseConnection(fd), batch' = batch PROVE NoLostEdge'
    <2>1. /\ Unmoved /\ DOMAIN connections' = DOMAIN connections \ {fd}
          /\ rdy' = rdy \ {fd} /\ UNCHANGED <<rcvq, sndq, mode>>
      BY <1>6, ClosingUnmoved DEF CloseConnection
    <2>2. \A x \in DOMAIN connections' : \A e : Due(x, e) => Due(x, e)'
      BY <1>6, <2>1 DEF Due
    <2> QED
      BY <2>1, <2>2, CalmWhenUnchanged, FollowAll
  <1>7. CASE DrainOverflow \/ DrainClose
    BY <1>6, <1>7 DEF DrainOverflow, DrainClose, DrainPop, Stay, Answers, Has
  <1>8. CASE \E fd \in Fd : StopClose(fd)
    BY <1>6, <1>8 DEF StopClose, Has, Stay
  <1>9. CASE StopListen
    <2>1. \A fd \in DOMAIN connections : fd # ListenFd
      BY NetworkAssumption DEF IInv, TypeOK, MemoryTypeOK
    <2>2. /\ UNCHANGED <<connections, sock, epoll, batch, rcvq, sndq, mode>>
          /\ rdy' = rdy \ {ListenFd}
      BY <1>9 DEF StopListen, memory
    <2>3. \A fd \in DOMAIN connections' : \A e : Due(fd, e) => Due(fd, e)'
      BY <2>1, <2>2 DEF Due
    <2> QED
      BY <2>2, <2>3, CalmWhenUnchanged, FollowAll DEF Unmoved
  <1>10. CASE \/ Signal \/ Start \/ LoopExit \/ AcceptTurnAway \/ DrainStale \/ DrainDone
              \/ StopRequests \/ StopResponses \/ Join
              \/ (\E w \in Worker : Work(w)) \/ UNCHANGED vars
    <2>1. UNCHANGED <<connections, sock, epoll, rdy, batch, rcvq, sndq, mode>>
      BY <1>10 DEF Signal, Start, LoopExit, AcceptTurnAway, DrainStale, DrainPop, Stay, DrainDone,
        StopRequests, StopResponses, Join, Work, WorkerPop, WorkerRespond, WorkerThrow, WorkerExit,
        vars, server, memory, network, clients
    <2>2. \A fd : \A e : Due(fd, e) => Due(fd, e)'
      BY <2>1 DEF Due
    <2> QED
      BY <2>1, <2>2, CalmWhenUnchanged, FollowAll DEF Unmoved
  <1> QED
    BY <1>1, <1>2, <1>3, <1>4, <1>5, <1>7, <1>8, <1>9, <1>10 DEF Next, IO, AcceptAgain, AcceptFails

\* Whatever can be received, and whatever output can be sent, has its event to
\* come: no connection hangs because an edge was reported and not used up.
THEOREM EdgesKept == Spec => []NoLostEdge
  <1> QED
    BY InitIInv, StepIInv, InitArmed, StepArmed, StepEdges, PTL DEF Spec

-----------------------------------------------------------------------------
(* The listening socket.                                                    *)

LEMMA EnoughDescriptors ==
  ASSUME IInv, Sockets, Cardinality(Peer) <= Cardinality(Fd)
  PROVE  backlog # <<>> => ~(Fd \subseteq DOMAIN sock)
  <1> SUFFICES ASSUME backlog # <<>>, Fd \subseteq DOMAIN sock PROVE FALSE
    OBVIOUS
  <1>1. PICK p \in Peer : link[p] = "queued"
    <2>1. backlog \in Seq(Peer)
      BY DEF IInv, TypeOK, SocketsTypeOK
    <2>2. 1 \in DOMAIN backlog /\ backlog[1] \in Peer
      BY <2>1
    <2> QED
      BY <2>2 DEF Sockets
  <1> DEFINE others == Peer \ {p}
             f == [x \in Fd |-> sock[x]]
  <1>2. f \in [Fd -> others]
    BY <1>1 DEF Sockets, IInv, TypeOK, SocketsTypeOK
  <1>3. IsFiniteSet(others) /\ Cardinality(others) < Cardinality(Fd)
    <2>1. /\ IsFiniteSet(Peer) /\ IsFiniteSet(others) /\ Cardinality(others) = Cardinality(Peer) - 1
          /\ Cardinality(Peer) \in Nat /\ Cardinality(Fd) \in Nat
      BY NetworkAssumption, FS_RemoveElement, FS_CardinalityType
    <2> QED
      BY <2>1
  <1>4. \E x, y \in Fd : x # y /\ f[x] = f[y]
    <2> HIDE DEF others, f
    <2> QED
      BY <1>2, <1>3, NetworkAssumption, FS_PigeonHole
  <1> QED
    BY <1>4 DEF Sockets

LEMMA StepClient == IInv /\ Awaited /\ [Next]_vars => Awaited' \/ AcceptFails
  <1> SUFFICES ASSUME IInv, Awaited, [Next]_vars, ~AcceptFails, backlog' # <<>>
               PROVE  Due(ListenFd, "IN")'
    BY DEF Awaited
  <1>1. CASE Clients
    <2>1. ASSUME NEW p \in Peer, Connect(p) PROVE Due(ListenFd, "IN")'
      BY <2>1 DEF Connect, Due
    <2>2. ASSUME NEW p \in Peer, Client(p) PROVE Due(ListenFd, "IN")'
      <3>1. backlog' = backlog /\ rdy \subseteq rdy'
        BY <2>2 DEF Client, SendHalf, SendInvalid, Finish, Reset, Read, Arrive
      <3> QED
        BY <1>1, <3>1 DEF Clients, server, Awaited, Due
    <2> QED
      BY <1>1, <2>1, <2>2 DEF Clients
  <1>2. CASE EpollWait
    <2>1. backlog # <<>> /\ ListenFd \in rdy
      BY <1>2 DEF EpollWait, Awaited, Due, IInv, Batch, AtEvent
    <2>2. PICK b \in Injection(1..Fitting, Reported) :
            batch' = b /\ rdy' = {e.fd : e \in Reported \ Range(b)}
      BY <1>2 DEF EpollWait, Proceed
    <2> DEFINE report == [fd |-> ListenFd, events |-> {"IN"}, conn_id |-> 0]
    <2>3. report \in Reported
      BY <2>1 DEF Reported
    <2>4. CASE report \in Range(b)
      <3>1. PICK i \in DOMAIN b : b[i] = report
        BY <2>4 DEF Range
      <3> QED
        BY <2>2, <3>1 DEF Due
    <2>5. CASE report \notin Range(b)
      BY <2>2, <2>3, <2>5 DEF Due
    <2> QED
      BY <2>4, <2>5
  <1>3. CASE (\E fd \in Fd : Accept(fd)) \/ AcceptTurnAway
    <2>1. backlog # <<>> /\ rdy \subseteq rdy' /\ batch' = batch
      BY <1>3 DEF Accept, AcceptTurnAway, Watch, Stay, server
    <2> QED
      BY <2>1 DEF Awaited, Due
  <1>4. ~AcceptAgain
    BY DEF AcceptAgain, AcceptDone, network
  <1>5. ASSUME NEW fd \in DOMAIN connections, Disconnect(fd)
        PROVE  backlog' = backlog /\ (ListenFd \in rdy => ListenFd \in rdy')
    BY <1>5, NetworkAssumption DEF Disconnect, CloseSocket, IInv, TypeOK, MemoryTypeOK
  <1>6. CASE \/ RecvData \/ RecvClose \/ DecodeInvalid \/ DecodeEnqueue
             \/ WriteGone \/ (\E n \in 1..SndCap : SendSome(n)) \/ SendRest \/ SendAgain \/ SendFails \/ SendRestClose
    <2>1. AtEvent /\ This # ListenFd
      BY <1>6, AtHand, NetworkAssumption DEF AtEvent, RecvData, RecvClose, DecodeInvalid,
        DecodeEnqueue, RecvAgain, WriteGone, SendSome, SendRest, Transfer, SendAgain, SendFails, SendRestClose
    <2>2. \/ batch' = batch
          \/ Proceed(Tail(batch))
          \/ pc = "read" /\ Proceed(AfterRead)
      BY <1>6 DEF RecvData, RecvClose, DecodeInvalid, DecodeEnqueue, RecvAgain, WriteGone, SendSome,
        SendRest, SendAgain, SendFails, SendRestClose, Stay
    <2>3. backlog' = backlog /\ (ListenFd \in rdy => ListenFd \in rdy')
      <3>1. CASE RecvClose \/ DecodeInvalid \/ SendFails \/ SendRestClose
        BY <1>5, <2>1, <3>1, AtHand DEF RecvClose, DecodeInvalid, RecvAgain, SendFails, SendRestClose, Transfer, Has,
             CloseConnection
      <3>2. CASE \/ RecvData \/ DecodeEnqueue \/ WriteGone \/ (\E n \in 1..SndCap : SendSome(n))
                 \/ SendRest \/ SendAgain
        BY <3>2 DEF RecvData, DecodeEnqueue, WriteGone, SendSome, SendRest, Modify, Watch,
          SendAgain, network
      <3> QED
        BY <1>6, <3>1, <3>2
    <2>4. Due(ListenFd, "IN")
      BY <2>3 DEF Awaited
    <2> QED
      BY <2>1, <2>2, <2>3, <2>4, StaysDue
  <1>7. CASE DrainOverflow \/ DrainClose \/ (\E fd \in Fd : StopClose(fd))
    <2>1. batch' = batch /\ \E fd \in DOMAIN connections : Disconnect(fd)
      BY <1>7 DEF CloseConnection, DrainOverflow, DrainClose, StopClose, DrainPop, Stay, Answers, Has
    <2> QED
      BY <1>5, <2>1 DEF Awaited, Due
  <1>8. CASE DrainAppend
    BY <1>8 DEF DrainAppend, DrainPop, Stay, Modify, Watch, Awaited, Due
  <1>9. ~StopListen
    BY DEF StopListen
  <1>10. CASE \/ Signal \/ Start \/ LoopExit \/ DrainStale \/ DrainDone
              \/ StopRequests \/ StopResponses \/ Join
              \/ (\E w \in Worker : Work(w)) \/ UNCHANGED vars
    <2>1. UNCHANGED <<backlog, rdy, batch>>
      BY <1>10 DEF Signal, Start, LoopExit, DrainStale, DrainPop, Stay, DrainDone,
        StopRequests, StopResponses, Join, Work, WorkerPop, WorkerRespond, WorkerThrow, WorkerExit,
        vars, server, network
    <2> QED
      BY <2>1 DEF Awaited, Due
  <1> QED
    BY <1>1, <1>2, <1>3, <1>4, <1>6, <1>7, <1>8, <1>9, <1>10 DEF Next, IO, AcceptAgain, AcceptFails

\* NoLostClient: handleAccept() ends with an empty backlog, and a client that comes later
\* causes an edge of its own, unless accept() fails; that ends it with clients in the
\* backlog and no edge to come for them.
THEOREM ClientsNoticed == Spec => NoLostClient
  <1>1. IInv /\ [Next]_vars => [Awaited => Awaited' \/ AcceptFails]_vars
    BY StepClient
  <1> QED
    BY <1>1, Invariance, PTL DEF Spec, NoLostClient

\* So whoever waits will be seen, on a server that has a descriptor for every client and
\* whose accept() does not fail otherwise.
THEOREM BacklogWatched ==
  ASSUME Cardinality(Peer) <= Cardinality(Fd), "accept" \notin Faults
  PROVE  Spec => []Awaited
  <1>1. Init => IInv /\ Sockets /\ Awaited
    BY InitIInv, InitSockets DEF Init, NetworkInit, Awaited
  <1>2. IInv /\ Sockets /\ Awaited /\ [Next]_vars => (IInv /\ Sockets /\ Awaited)'
    <2> SUFFICES ASSUME IInv, Sockets, Awaited, [Next]_vars, AcceptFails PROVE Awaited'
      BY StepIInv, StepSockets, StepClient
    <2>1. backlog = <<>> /\ backlog' = backlog
      BY EnoughDescriptors DEF AcceptFails, AcceptDone, network
    <2> QED
      BY <2>1 DEF Awaited
  <1> QED
    BY <1>1, <1>2, PTL DEF Spec

-----------------------------------------------------------------------------
(***************************************************************************)
(* No request is lost, what a client reads is whole responses, and each    *)
(* client is served as ServiceSpec says: NothingLost, StreamIntact and     *)
(* ImplementsService.  What has to be shown is where each request of a     *)
(* connection is: not read yet, in one of the queues or with a worker, or  *)
(* answered.                                                               *)
(***************************************************************************)
-----------------------------------------------------------------------------
(* Counting the messages of a queue, or of the workers, that are in a set.  *)

Hits(s, H) == {i \in DOMAIN s : s[i] \in H}
Count(s, H) == Cardinality(Hits(s, H))
Weight(m, H) == IF m \in H THEN 1 ELSE 0

LEMMA HitsFinite ==
  ASSUME NEW s, IsFiniteSet(DOMAIN s), NEW H
  PROVE  IsFiniteSet(Hits(s, H)) /\ Count(s, H) \in Nat
  BY FS_Subset, FS_CardinalityType DEF Hits, Count

LEMMA SequenceFinite ==
  ASSUME NEW S, NEW s \in Seq(S)
  PROVE  IsFiniteSet(DOMAIN s)
  <1>1. Len(s) \in Nat /\ DOMAIN s = 1..Len(s)
    BY LenProperties
  <1> QED
    BY <1>1, FS_Interval

\* A queue is counted in parts.
LEMMA CountConcat ==
  ASSUME NEW S, NEW s \in Seq(S), NEW t \in Seq(S), NEW H
  PROVE  Count(s \o t, H) = Count(s, H) + Count(t, H)
  <1> DEFINE shifted == {i + Len(s) : i \in Hits(t, H)}
             shift == [i \in Hits(t, H) |-> i + Len(s)]
  <1>1. /\ Len(s) \in Nat /\ Len(t) \in Nat
        /\ DOMAIN s = 1..Len(s) /\ DOMAIN t = 1..Len(t)
        /\ DOMAIN (s \o t) = 1..(Len(s) + Len(t))
        /\ \A i \in 1..(Len(s) + Len(t)) : (s \o t)[i] = IF i <= Len(s) THEN s[i] ELSE t[i - Len(s)]
    BY LenProperties, ConcatProperties
  <1>2. Hits(s \o t, H) = Hits(s, H) \cup shifted
    <2>1. \A i \in Hits(s \o t, H) : i \in Hits(s, H) \cup shifted
      <3> SUFFICES ASSUME NEW i \in Hits(s \o t, H) PROVE i \in Hits(s, H) \cup shifted
        OBVIOUS
      <3>1. CASE i <= Len(s)
        BY <1>1, <3>1 DEF Hits
      <3>2. CASE ~(i <= Len(s))
        <4>1. i - Len(s) \in Hits(t, H) /\ i = (i - Len(s)) + Len(s)
          BY <1>1, <3>2 DEF Hits
        <4> QED
          BY <4>1
      <3> QED
        BY <3>1, <3>2
    <2>2. \A i \in Hits(s, H) : i \in Hits(s \o t, H)
      BY <1>1 DEF Hits
    <2>3. \A i \in Hits(t, H) : i + Len(s) \in Hits(s \o t, H)
      BY <1>1 DEF Hits
    <2> QED
      BY <2>1, <2>2, <2>3
  <1>3. Hits(s, H) \cap shifted = {}
    BY <1>1 DEF Hits
  <1>4. IsFiniteSet(Hits(s, H)) /\ IsFiniteSet(Hits(t, H)) /\ Count(s, H) \in Nat /\ Count(t, H) \in Nat
    BY HitsFinite, SequenceFinite
  <1>5. IsFiniteSet(shifted) /\ Cardinality(shifted) = Count(t, H)
    <2>1. shift \in Bijection(Hits(t, H), shifted)
      <3>1. shift \in [Hits(t, H) -> shifted]
        OBVIOUS
      <3>2. \A i, j \in Hits(t, H) : shift[i] = shift[j] => i = j
        BY <1>1 DEF Hits
      <3>3. \A x \in shifted : \E i \in Hits(t, H) : shift[i] = x
        OBVIOUS
      <3> QED
        BY <3>1, <3>2, <3>3 DEF Bijection, Injection, Surjection, IsInjective
    <2>2. ExistsBijection(Hits(t, H), shifted)
      BY <2>1 DEF ExistsBijection
    <2> QED
      BY <1>4, <2>2, FS_Bijection DEF Count
  <1> HIDE DEF shifted
  <1>6. Cardinality(Hits(s, H) \cup shifted) = Count(s, H) + Count(t, H) - Cardinality({})
    BY <1>3, <1>4, <1>5, FS_Union DEF Count
  <1> QED
    BY <1>2, <1>4, <1>6, FS_EmptySet DEF Count

LEMMA CountOne ==
  ASSUME NEW m, NEW H
  PROVE  Count(<<m>>, H) = Weight(m, H)
  <1>1. Hits(<<m>>, H) = IF m \in H THEN {1} ELSE {}
    BY DEF Hits
  <1> QED
    BY <1>1, FS_EmptySet, FS_Singleton DEF Count, Weight

\* push() and pop().
LEMMA CountAppend ==
  ASSUME NEW S, NEW s \in Seq(S), NEW m \in S, NEW H
  PROVE  Count(Append(s, m), H) = Count(s, H) + Weight(m, H)
  <1>1. Append(s, m) = s \o <<m>> /\ <<m>> \in Seq(S)
    BY AppendIsConcat
  <1>2. Count(s \o <<m>>, H) = Count(s, H) + Count(<<m>>, H)
    BY <1>1, CountConcat
  <1> QED
    BY <1>1, <1>2, CountOne

LEMMA CountTail ==
  ASSUME NEW S, NEW s \in Seq(S), s # <<>>, NEW H
  PROVE  Count(s, H) = Count(Tail(s), H) + Weight(Head(s), H)
  <1>1. Head(s) \in S /\ Tail(s) \in Seq(S) /\ <<Head(s)>> \in Seq(S)
    BY HeadTailProperties
  <1>2. s = <<Head(s)>> \o Tail(s)
    OBVIOUS
  <1>3. Count(<<Head(s)>> \o Tail(s), H) = Count(<<Head(s)>>, H) + Count(Tail(s), H)
    BY <1>1, CountConcat
  <1>4. Count(Tail(s), H) \in Nat
    BY <1>1, HitsFinite, SequenceFinite
  <1>5. Count(s, H) = Count(<<Head(s)>>, H) + Count(Tail(s), H)
    BY <1>2, <1>3
  <1>6. Count(<<Head(s)>>, H) = Weight(Head(s), H)
    BY CountOne
  <1> QED
    BY <1>4, <1>5, <1>6 DEF Weight

\* A worker takes a request, and is done with it.
LEMMA CountInsert ==
  ASSUME NEW f, IsFiniteSet(DOMAIN f), NEW w, w \notin DOMAIN f, NEW m, NEW H
  PROVE  Count(Insert(f, w, m), H) = Count(f, H) + Weight(m, H)
  <1>1. Hits(Insert(f, w, m), H) = IF m \in H THEN Hits(f, H) \cup {w} ELSE Hits(f, H)
    BY DEF Hits, Insert
  <1>2. IsFiniteSet(Hits(f, H)) /\ Count(f, H) \in Nat /\ w \notin Hits(f, H)
    BY HitsFinite DEF Hits
  <1>3. Cardinality(Hits(f, H) \cup {w}) = Cardinality(Hits(f, H)) + 1
    BY <1>2, FS_AddElement
  <1> QED
    BY <1>1, <1>2, <1>3 DEF Count, Weight

LEMMA CountRestrict ==
  ASSUME NEW f, IsFiniteSet(DOMAIN f), NEW w \in DOMAIN f, NEW H
  PROVE  Count(f, H) = Count(Restrict(f, DOMAIN f \ {w}), H) + Weight(f[w], H)
  <1>1. Hits(Restrict(f, DOMAIN f \ {w}), H) = Hits(f, H) \ {w}
    BY DEF Hits, Restrict
  <1>2. IsFiniteSet(Hits(f, H)) /\ Count(f, H) \in Nat /\ (w \in Hits(f, H) <=> f[w] \in H)
    BY HitsFinite DEF Hits
  <1>3. CASE f[w] \in H
    <2>1. Cardinality(Hits(f, H) \ {w}) = Cardinality(Hits(f, H)) - 1
      BY <1>2, <1>3, FS_RemoveElement
    <2>2. Count(Restrict(f, DOMAIN f \ {w}), H) = Count(f, H) - 1
      BY <1>1, <2>1 DEF Count
    <2> QED
      BY <1>2, <1>3, <2>2 DEF Weight
  <1>4. CASE f[w] \notin H
    <2>1. Hits(f, H) \ {w} = Hits(f, H)
      BY <1>2, <1>4
    <2>2. Count(Restrict(f, DOMAIN f \ {w}), H) = Count(f, H)
      BY <1>1, <2>1 DEF Count
    <2> QED
      BY <1>2, <1>4, <2>2 DEF Weight
  <1> QED
    BY <1>3, <1>4

-----------------------------------------------------------------------------
(* What of a client's requests is still to be decoded.                      *)

\* in holds what a client that has sent k halves sent after its first d requests,
\* all of it, or, once it sent an invalid frame, nothing before that.
Incoming(in, k, d) ==
  /\ 2 * d <= k
  /\ IF Invalid(in) THEN \A i \in DOMAIN in : in[i].num = 0 \/ in[i].num > d
     ELSE /\ k = 2 * d + Len(in)
          /\ \A i \in DOMAIN in : in[i].num = d + ((i + 1) \div 2)

LEMMA Doubled == \A a, b \in Nat : (2 * a + b) \div 2 = a + (b \div 2)
  OBVIOUS

LEMMA IncomingHalf ==
  ASSUME NEW in \in Seq(Units), NEW k \in Nat, NEW d \in Nat, NEW p, Incoming(in, k, d)
  PROVE  Incoming(Append(in, Half(p, (k \div 2) + 1, (k % 2) + 1)), k + 1, d)
  <1> DEFINE u == Half(p, (k \div 2) + 1, (k % 2) + 1)
             all == Append(in, u)
  <1>1. u.num = (k \div 2) + 1
    BY DEF Half
  <1> HIDE DEF u
  <1>2. /\ Len(in) \in Nat /\ DOMAIN in = 1..Len(in)
        /\ Len(all) = Len(in) + 1 /\ DOMAIN all = 1..(Len(in) + 1)
        /\ all[Len(in) + 1] = u /\ \A i \in 1..Len(in) : all[i] = in[i]
    OBVIOUS
  <1> HIDE DEF all
  <1>3. 2 * d <= k /\ k \div 2 \in Nat /\ k \div 2 >= d
    BY DEF Incoming
  <1>4. Invalid(all) <=> Invalid(in)
    BY <1>1, <1>2, <1>3, SMTT(30) DEF Invalid
  <1>5. ASSUME Invalid(in) PROVE Incoming(all, k + 1, d)
    <2>1. \A i \in DOMAIN in : in[i].num = 0 \/ in[i].num > d
      BY <1>5 DEF Incoming
    <2>2. u.num > d
      BY <1>1, <1>3
    <2>3. \A i \in DOMAIN all : all[i].num = 0 \/ all[i].num > d
      BY <1>2, <2>1, <2>2
    <2>4. 2 * d <= k + 1
      BY <1>3
    <2> QED
      BY <1>4, <1>5, <2>3, <2>4 DEF Incoming
  <1>6. ASSUME ~Invalid(in) PROVE Incoming(all, k + 1, d)
    <2>1. k = 2 * d + Len(in) /\ \A i \in DOMAIN in : in[i].num = d + ((i + 1) \div 2)
      BY <1>6 DEF Incoming
    <2>2. u.num = d + ((Len(in) + 1 + 1) \div 2)
      <3>1. k \div 2 = d + (Len(in) \div 2)
        BY <1>2, <2>1, Doubled
      <3>2. (2 * 1 + Len(in)) \div 2 = 1 + (Len(in) \div 2)
        BY <1>2, Doubled
      <3>3. 2 * 1 + Len(in) = Len(in) + 1 + 1 /\ Len(in) \div 2 \in Nat
        BY <1>2
      <3> QED
        BY <1>1, <3>1, <3>2, <3>3
    <2>3. \A i \in DOMAIN all : all[i].num = d + ((i + 1) \div 2)
      <3> SUFFICES ASSUME NEW i \in DOMAIN all PROVE all[i].num = d + ((i + 1) \div 2)
        OBVIOUS
      <3>1. CASE i = Len(in) + 1
        BY <1>2, <2>2, <3>1
      <3>2. CASE i \in 1..Len(in)
        BY <1>2, <2>1, <3>2
      <3> QED
        BY <1>2, <3>1, <3>2
    <2>4. k + 1 = 2 * d + Len(all)
      BY <1>2, <2>1
    <2> QED
      BY <1>3, <1>4, <1>6, <2>3, <2>4 DEF Incoming
  <1> QED
    BY <1>5, <1>6 DEF all, u

LEMMA IncomingInvalid ==
  ASSUME NEW in \in Seq(Units), NEW k \in Nat, NEW d \in Nat, NEW p, Incoming(in, k, d)
  PROVE  Incoming(Append(in, Half(p, 0, 1)), k + 2, d)
  <1> DEFINE all == Append(in, Half(p, 0, 1))
  <1>1. Half(p, 0, 1).num = 0
    BY DEF Half
  <1>2. /\ Len(in) \in Nat /\ DOMAIN in = 1..Len(in) /\ DOMAIN all = 1..(Len(in) + 1)
        /\ all[Len(in) + 1].num = 0 /\ \A i \in 1..Len(in) : all[i] = in[i]
    BY <1>1
  <1> HIDE DEF all
  <1>3. Len(in) + 1 \in DOMAIN all
    BY <1>2
  <1>4. Invalid(all)
    BY <1>2, <1>3 DEF Invalid
  <1>5. \A i \in DOMAIN in : in[i].num = 0 \/ in[i].num > d
    <2>1. \A i \in Nat \ {0} : d + ((i + 1) \div 2) > d
      OBVIOUS
    <2> QED
      BY <1>2, <2>1 DEF Incoming
  <1>6. \A i \in DOMAIN all : all[i].num = 0 \/ all[i].num > d
    BY <1>2, <1>5
  <1>7. 2 * d <= k + 2
    BY DEF Incoming
  <1> QED
    BY <1>4, <1>6, <1>7 DEF Incoming, all

\* decode() takes the next requests off the front of the input.
LEMMA IncomingDecode ==
  ASSUME NEW in \in Seq(Units), NEW k \in Nat, NEW d \in Nat, Incoming(in, k, d), ~Invalid(in)
  PROVE  /\ Len(in) \div 2 \in Nat
         /\ \A i \in 1..(Len(in) \div 2) : 2 * i \in DOMAIN in /\ in[2 * i].num = d + i
         /\ Incoming(Rest(in), k, d + (Len(in) \div 2))
  <1> DEFINE h == Len(in) \div 2
             rest == Rest(in)
  <1>1. Len(in) \in Nat /\ DOMAIN in = 1..Len(in) /\ h \in Nat /\ 2 * h <= Len(in)
    BY Halves
  <1>2. k = 2 * d + Len(in) /\ \A i \in DOMAIN in : in[i].num = d + ((i + 1) \div 2)
    BY DEF Incoming
  <1>3. \A i \in 1..h : 2 * i \in DOMAIN in /\ in[2 * i].num = d + i
    <2> SUFFICES ASSUME NEW i \in 1..h PROVE 2 * i \in DOMAIN in /\ in[2 * i].num = d + i
      OBVIOUS
    <2>1. 2 * i \in DOMAIN in
      BY <1>1
    <2>2. (2 * i + 1) \div 2 = i
      BY <1>1
    <2> QED
      BY <1>2, <2>1, <2>2
  <1>4. /\ DOMAIN rest = 1..(Len(in) - 2 * h) /\ Len(rest) = Len(in) - 2 * h
        /\ \A i \in 1..(Len(in) - 2 * h) : rest[i] = in[2 * h + i]
    <2>1. Len(in) \in Nat /\ 2 * h + 1 \in 1..(Len(in) + 1)
      BY <1>1
    <2> HIDE DEF h
    <2>2. rest = SubSeq(in, 2 * h + 1, Len(in))
      BY DEF Rest, h
    <2>3. rest \in Seq(Units) /\ Len(rest) = Len(in) - (2 * h + 1) + 1
          /\ \A i \in 1..Len(rest) : rest[i] = in[2 * h + 1 + i - 1]
      <3>1. 2 * h + 1 \in 1..(Len(in) + 1) /\ Len(in) \in (2 * h + 1 - 1)..Len(in)
        BY <1>1
      <3> QED
        BY <2>2, <3>1, SubSeqProperties
    <2> HIDE DEF rest
    <2> QED
      BY <1>1, <2>3
  <1> HIDE DEF h, rest
  <1>5. \A i \in DOMAIN rest : rest[i].num = d + h + ((i + 1) \div 2)
    <2> SUFFICES ASSUME NEW i \in DOMAIN rest PROVE rest[i].num = d + h + ((i + 1) \div 2)
      OBVIOUS
    <2>1. 2 * h + i \in DOMAIN in /\ i \in Nat
      BY <1>1, <1>4
    <2>2. (2 * h + (i + 1)) \div 2 = h + ((i + 1) \div 2)
      BY <1>1, <2>1, Doubled
    <2>3. (i + 1) \div 2 \in Nat /\ 2 * h + (i + 1) = 2 * h + i + 1
      BY <1>1, <2>1
    <2>4. in[2 * h + i].num = d + ((2 * h + i + 1) \div 2)
      BY <1>2, <2>1
    <2>5. rest[i].num = in[2 * h + i].num
      BY <1>4
    <2>6. rest[i].num = d + (h + ((i + 1) \div 2))
      BY <2>2, <2>3, <2>4, <2>5
    <2> QED
      BY <1>1, <2>3, <2>6
  <1>6. ~Invalid(rest)
    <2> SUFFICES ASSUME NEW i \in DOMAIN rest PROVE rest[i].num # 0
      BY DEF Invalid
    <2>1. 2 * h + i \in DOMAIN in
      BY <1>1, <1>4
    <2> QED
      BY <1>4, <2>1 DEF Invalid
  <1>7. k = 2 * (d + h) + Len(rest) /\ 2 * (d + h) <= k
    BY <1>1, <1>2, <1>4
  <1> QED
    BY <1>1, <1>3, <1>5, <1>6, <1>7 DEF Incoming, h, rest

-----------------------------------------------------------------------------
(* Streams of whole responses.                                              *)

Follows(s, i, k) ==
  /\ 2 * s[i].num <= k
  /\ IF s[i].part = 1
     THEN i = 1 \/ s[i - 1].part = RespLen[s[i - 1].num]
     ELSE i > 1 /\ s[i - 1] = [s[i] EXCEPT !.part = @ - 1]
Intact(s, k) == /\ \A i \in DOMAIN s : Follows(s, i, k)
                /\ \A i, j \in DOMAIN s : s[i] = s[j] => i = j

\* The last response of s is all there.
EndsWhole(s) == s = <<>> \/ s[Len(s)].part = RespLen[s[Len(s)].num]

\* Cut off, a stream is one still; the client may send more meanwhile.
LEMMA IntactPrefix ==
  ASSUME NEW s \in Seq(Units), NEW t \in Seq(Units), NEW k \in Nat, NEW l \in Nat,
         Intact(s \o t, k), k <= l
  PROVE  Intact(s, l)
  <1>1. /\ Len(s) \in Nat /\ DOMAIN s = 1..Len(s)
        /\ DOMAIN s \subseteq DOMAIN (s \o t) /\ \A i \in DOMAIN s : (s \o t)[i] = s[i]
    BY ConcatProperties, LenProperties
  <1> DEFINE a == s \o t
  <1>2. /\ \A i \in DOMAIN a : Follows(a, i, k)
        /\ \A i, j \in DOMAIN a : a[i] = a[j] => i = j
    BY DEF Intact
  <1> HIDE DEF a
  <1>3. ASSUME NEW i \in DOMAIN s PROVE Follows(s, i, l)
    <2>1. i \in DOMAIN a /\ a[i] = s[i] /\ (i = 1 \/ (i > 1 /\ a[i - 1] = s[i - 1]))
      <3>1. i = 1 \/ (i > 1 /\ i - 1 \in DOMAIN s)
        BY <1>1
      <3> QED
        BY <1>1, <3>1 DEF a
    <2>2. s[i].num \in Nat
      <3>1. s[i] \in Units
        BY <1>1
      <3> QED
        BY <3>1, NetworkAssumption DEF Units
    <2>3. 2 * s[i].num <= k
      BY <1>2, <2>1 DEF Follows
    <2>4. 2 * s[i].num <= l
      BY <2>2, <2>3
    <2> QED
      BY <1>2, <2>1, <2>4 DEF Follows
  <1>4. \A i, j \in DOMAIN s : s[i] = s[j] => i = j
    BY <1>1, <1>2 DEF a
  <1> QED
    BY <1>3, <1>4 DEF Intact

\* A response is appended whole.
LEMMA IntactExtend ==
  ASSUME NEW s \in Seq(Units), NEW k \in Nat, NEW r \in Messages,
         Intact(s, k), EndsWhole(s), ~Carries(s, r.num), 2 * r.num <= k
  PROVE  Intact(s \o Encoded(r), k) /\ EndsWhole(s \o Encoded(r))
  <1> DEFINE e == Encoded(r)
             t == s \o e
             L == Len(s)
             R == RespLen[r.num]
  <1>1. R \in Nat \ {0} /\ r.num \in Nat
    BY NetworkAssumption DEF Messages
  <1>2. /\ e \in Seq(Units) /\ Len(e) = R /\ DOMAIN e = 1..R
        /\ \A i \in 1..R : e[i] = [from |-> r.from, num |-> r.num, part |-> i]
    BY <1>1, EncodedTyped DEF Encoded
  <1>3. /\ L \in Nat /\ DOMAIN s = 1..L
        /\ Len(t) = L + R /\ DOMAIN t = 1..(L + R)
        /\ \A i \in 1..L : t[i] = s[i]
        /\ \A i \in 1..R : t[L + i] = e[i]
    <2> HIDE DEF e, R
    <2>1. L \in Nat /\ DOMAIN s = 1..L /\ Len(t) = L + R /\ DOMAIN t = 1..(L + R)
      <3>1. L \in Nat /\ DOMAIN s = 1..L
        BY LenProperties
      <3>2. t \in Seq(Units) /\ Len(t) = L + R
        BY <1>2, ConcatProperties
      <3> QED
        BY <3>1, <3>2, LenProperties
    <2>2. \A i \in 1..(L + R) : t[i] = IF i <= L THEN s[i] ELSE e[i - L]
      <3>1. \A i \in 1..(Len(s) + Len(e)) : (s \o e)[i] = IF i <= Len(s) THEN s[i] ELSE e[i - Len(s)]
        BY <1>2, ConcatProperties
      <3> QED
        BY <1>2, <3>1
    <2> HIDE DEF t, L
    <2>3. \A i \in 1..L : i \in 1..(L + R) /\ i <= L
      BY <1>1, <2>1
    <2>4. \A i \in 1..R : L + i \in 1..(L + R) /\ ~(L + i <= L) /\ (L + i) - L = i
      BY <1>1, <2>1
    <2> QED
      BY <2>1, <2>2, <2>3, <2>4
  <1> HIDE DEF e, t, L, R
  <1>4. \A i \in 1..R : t[L + i] = [from |-> r.from, num |-> r.num, part |-> i]
    BY <1>2, <1>3
  <1>5. ASSUME NEW i \in 1..L PROVE Follows(t, i, k)
    <2>1. t[i] = s[i] /\ (i = 1 \/ (i > 1 /\ t[i - 1] = s[i - 1]))
      BY <1>3
    <2>2. Follows(s, i, k)
      BY <1>3 DEF Intact
    <2> QED
      BY <2>1, <2>2 DEF Follows
  <1>6. ASSUME NEW i \in 1..R PROVE Follows(t, L + i, k)
    <2>1. t[L + i] = [from |-> r.from, num |-> r.num, part |-> i]
      BY <1>4
    <2>2. CASE i = 1
      <3>1. L + i = 1 \/ (L \in 1..L /\ L + i - 1 = L)
        BY <1>3, <2>2
      <3>2. CASE L \in 1..L /\ L + i - 1 = L
        <4>1. s # <<>> /\ t[L] = s[L]
          BY <1>3, <3>2
        <4>2. s[L].part = RespLen[s[L].num]
          BY <4>1 DEF EndsWhole, L
        <4> QED
          BY <2>1, <2>2, <3>2, <4>1, <4>2 DEF Follows
      <3> QED
        BY <2>1, <2>2, <3>1, <3>2 DEF Follows
    <2>3. CASE i # 1
      <3>1. i - 1 \in 1..R /\ L + (i - 1) = L + i - 1 /\ L + i > 1
        BY <1>1, <1>3, <2>3
      <3>2. t[L + i - 1] = [from |-> r.from, num |-> r.num, part |-> i - 1]
        BY <1>4, <3>1
      <3>3. [t[L + i] EXCEPT !.part = @ - 1] = [from |-> r.from, num |-> r.num, part |-> i - 1]
        BY <2>1
      <3>4. t[L + i].num = r.num /\ t[L + i].part # 1
        BY <2>1, <2>3
      <3> QED
        BY <1>1, <1>3, <3>1, <3>2, <3>3, <3>4 DEF Follows
    <2> QED
      BY <2>2, <2>3
  <1>7. \A x \in DOMAIN t : x \in 1..L \/ \E y \in 1..R : x = L + y
    <2> SUFFICES ASSUME NEW x \in DOMAIN t, x \notin 1..L PROVE \E y \in 1..R : x = L + y
      OBVIOUS
    <2>1. x - L \in 1..R /\ x = L + (x - L)
      BY <1>1, <1>3
    <2> QED
      BY <2>1
  <1>8. ASSUME NEW i \in DOMAIN t, NEW j \in DOMAIN t, t[i] = t[j] PROVE i = j
    <2>2. \A x \in 1..L : t[x].num # r.num
      BY <1>3 DEF Carries
    <2>3. ASSUME NEW y \in 1..R PROVE t[L + y].num = r.num /\ t[L + y].part = y
      <3>1. t[L + y] = [from |-> r.from, num |-> r.num, part |-> y]
        BY <1>4
      <3> QED
        BY <3>1
    <2>4. CASE i \in 1..L /\ j \in 1..L
      BY <1>3, <1>8, <2>4 DEF Intact
    <2>5. CASE i \notin 1..L \/ j \notin 1..L
      BY <1>8, <1>7, <2>2, <2>3, <2>5
    <2> QED
      BY <2>4, <2>5
  <1>9. Intact(t, k)
    <2>1. ASSUME NEW i \in DOMAIN t PROVE Follows(t, i, k)
      <3>1. CASE i \in 1..L
        BY <1>5, <3>1
      <3>2. CASE \E y \in 1..R : i = L + y
        <4>1. PICK y \in 1..R : i = L + y
          BY <3>2
        <4> QED
          BY <1>6, <4>1
      <3> QED
        BY <1>7, <3>1, <3>2
    <2> QED
      BY <1>8, <2>1 DEF Intact
  <1>10. EndsWhole(t)
    <2>1. R \in 1..R /\ Len(t) = L + R
      BY <1>1, <1>3
    <2>2. t[Len(t)] = [from |-> r.from, num |-> r.num, part |-> R]
      BY <1>4, <2>1
    <2> QED
      BY <2>2 DEF EndsWhole, R
  <1> QED
    BY <1>9, <1>10 DEF e, t

\* What a stream carries, appended to and cut off.
LEMMA CarriesConcat ==
  ASSUME NEW s \in Seq(Units), NEW t \in Seq(Units), NEW n
  PROVE  Carries(s \o t, n) <=> Carries(s, n) \/ Carries(t, n)
  <1>1. /\ Len(s) \in Nat /\ Len(t) \in Nat
        /\ DOMAIN s = 1..Len(s) /\ DOMAIN t = 1..Len(t)
        /\ DOMAIN (s \o t) = 1..(Len(s) + Len(t))
        /\ \A i \in 1..Len(s) : (s \o t)[i] = s[i]
        /\ \A i \in 1..(Len(s) + Len(t)) : (s \o t)[i] = IF i <= Len(s) THEN s[i] ELSE t[i - Len(s)]
    BY ConcatProperties, LenProperties
  <1> DEFINE a == s \o t
  <1> HIDE DEF a
  <1>2. Carries(a, n) => Carries(s, n) \/ Carries(t, n)
    <2> SUFFICES ASSUME NEW i \in DOMAIN a, a[i].num = n PROVE Carries(s, n) \/ Carries(t, n)
      BY DEF Carries
    <2>1. CASE i <= Len(s)
      BY <1>1, <2>1 DEF Carries, a
    <2>2. CASE ~(i <= Len(s))
      <3>1. i - Len(s) \in DOMAIN t /\ a[i] = t[i - Len(s)]
        BY <1>1, <2>2 DEF a
      <3> QED
        BY <3>1 DEF Carries
    <2> QED
      BY <2>1, <2>2
  <1>3. Carries(s, n) => Carries(a, n)
    BY <1>1 DEF Carries, a
  <1>4. Carries(t, n) => Carries(a, n)
    <2> SUFFICES ASSUME NEW i \in DOMAIN t, t[i].num = n PROVE Carries(a, n)
      BY DEF Carries
    <2>1. Len(s) + i \in DOMAIN a /\ a[Len(s) + i] = t[i]
      BY <1>1 DEF a
    <2> QED
      BY <2>1 DEF Carries
  <1> QED
    BY <1>2, <1>3, <1>4 DEF a

LEMMA EncodedCarries ==
  ASSUME NEW r \in Messages, NEW n
  PROVE  Carries(Encoded(r), n) <=> n = r.num
  <1>1. /\ Encoded(r) \in Seq(Units) /\ Encoded(r) # <<>>
        /\ \A i \in DOMAIN Encoded(r) : Encoded(r)[i].num = r.num
    BY EncodedTyped
  <1> DEFINE e == Encoded(r)
  <1>2. 1 \in DOMAIN e
    BY <1>1
  <1> HIDE DEF e
  <1> QED
    BY <1>1, <1>2 DEF Carries, e

-----------------------------------------------------------------------------
(* Messages on their way through the queues and the workers.                *)

\* The messages of request n of connection c at fd.
Tag(fd, c, n) == {m \in Messages : m.fd = fd /\ m.conn_id = c /\ m.num = n}

InTransit(H) == Count(request_queue.items, H) + Count(busy, H) + Count(response_queue.items, H)

LEMMA TransitTyped ==
  ASSUME IInv, NEW H
  PROVE  /\ request_queue.items \in Seq(Messages) /\ response_queue.items \in Seq(Messages)
         /\ IsFiniteSet(DOMAIN busy)
         /\ Count(request_queue.items, H) \in Nat
         /\ Count(busy, H) \in Nat
         /\ Count(response_queue.items, H) \in Nat
         /\ InTransit(H) \in Nat
  <1>1. request_queue.items \in Seq(Messages) /\ response_queue.items \in Seq(Messages)
    BY DEF IInv, TypeOK, WorkTypeOK, Queue
  <1>2. IsFiniteSet(DOMAIN busy)
    <2>1. DOMAIN busy \subseteq Worker
      BY DEF IInv, TypeOK, WorkTypeOK
    <2> QED
      BY <2>1, ServerAssumption, FS_Subset
  <1>3. /\ Count(request_queue.items, H) \in Nat
        /\ Count(busy, H) \in Nat
        /\ Count(response_queue.items, H) \in Nat
    BY <1>1, <1>2, SequenceFinite, HitsFinite
  <1> QED
    BY <1>1, <1>2, <1>3 DEF InTransit

\* A worker hands its message on, unless dispatch() throws.
LEMMA TransitWork ==
  ASSUME IInv, NEW w \in Worker, Work(w), NEW H
  PROVE  \/ InTransit(H)' = InTransit(H)
         \/ /\ w \in DOMAIN busy /\ busy[w] \in Messages
            /\ busy[w].num \in Faulty \/ response_queue.stopped
            /\ InTransit(H)' = InTransit(H) - Weight(busy[w], H)
  <1>1. /\ request_queue.items \in Seq(Messages) /\ response_queue.items \in Seq(Messages)
        /\ IsFiniteSet(DOMAIN busy)
        /\ Count(request_queue.items, H) \in Nat
        /\ Count(busy, H) \in Nat
        /\ Count(response_queue.items, H) \in Nat
    BY TransitTyped
  <1>2. \A m : Weight(m, H) \in {0, 1}
    BY DEF Weight
  <1>3. \A x \in DOMAIN busy : busy[x] \in Messages
    BY DEF IInv, TypeOK, WorkTypeOK
  <1>4. CASE WorkerPop(w)
    <2> DEFINE q == request_queue.items
    <2>1. q # <<>> /\ w \notin DOMAIN busy
      BY <1>4 DEF WorkerPop, CanPop, Idle
    <2>2. /\ request_queue'.items = Tail(q) /\ busy' = Insert(busy, w, Head(q))
          /\ response_queue' = response_queue
      BY <1>4 DEF WorkerPop, Pop, Front, IInv, TypeOK, WorkTypeOK, Queue
    <2>3. Count(q, H) = Count(Tail(q), H) + Weight(Head(q), H) /\ Count(Tail(q), H) \in Nat
      <3>1. Tail(q) \in Seq(Messages)
        BY <1>1, <2>1, HeadTailProperties
      <3> QED
        BY <1>1, <2>1, <3>1, CountTail, SequenceFinite, HitsFinite
    <2>4. Count(Insert(busy, w, Head(q)), H) = Count(busy, H) + Weight(Head(q), H)
      BY <1>1, <2>1, CountInsert
    <2>5. InTransit(H)' = Count(Tail(q), H) + Count(Insert(busy, w, Head(q)), H)
                          + Count(response_queue.items, H)
      BY <2>2 DEF InTransit
    <2> HIDE DEF q
    <2>6. InTransit(H) = Count(q, H) + Count(busy, H) + Count(response_queue.items, H)
      BY DEF InTransit, q
    <2> QED
      BY <1>1, <1>2, <2>3, <2>4, <2>5, <2>6
  <1>5. CASE WorkerRespond(w) \/ WorkerThrow(w)
    <2> DEFINE rest == Restrict(busy, DOMAIN busy \ {w})
               out == response_queue.items
    <2>1. w \in DOMAIN busy /\ busy' = rest /\ request_queue' = request_queue /\ busy[w] \in Messages
      BY <1>3, <1>5 DEF WorkerRespond, WorkerThrow, Finished, queues
    <2>2. Count(busy, H) = Count(rest, H) + Weight(busy[w], H) /\ Count(rest, H) \in Nat
      <3>1. DOMAIN rest \subseteq DOMAIN busy
        BY DEF Restrict
      <3>2. IsFiniteSet(DOMAIN rest)
        BY <1>1, <3>1, FS_Subset
      <3> QED
        BY <1>1, <2>1, <3>2, CountRestrict, HitsFinite
    <2>3. InTransit(H)' = Count(request_queue.items, H) + Count(rest, H) + Count(response_queue'.items, H)
      BY <2>1 DEF InTransit
    <2> HIDE DEF rest
    <2>4. CASE response_queue'.items = Append(out, busy[w])
      <3>1. Count(Append(out, busy[w]), H) = Count(out, H) + Weight(busy[w], H)
        BY <1>1, <2>1, CountAppend
      <3>2. InTransit(H) = Count(request_queue.items, H) + Count(busy, H) + Count(out, H)
        BY DEF InTransit
      <3>3. Count(response_queue'.items, H) = Count(out, H) + Weight(busy[w], H)
        BY <2>4, <3>1
      <3>4. Count(out, H) \in Nat
        BY <1>1
      <3> HIDE DEF out
      <3>5. InTransit(H)' = InTransit(H)
        BY <1>1, <1>2, <2>2, <2>3, <3>2, <3>3, <3>4, SMTT(30)
      <3> QED
        BY <3>5
    <2>5. CASE response_queue'.items = out /\ (busy[w].num \in Faulty \/ response_queue.stopped)
      <3>1. InTransit(H) = Count(request_queue.items, H) + Count(busy, H) + Count(out, H)
        BY DEF InTransit
      <3>2. Count(response_queue'.items, H) = Count(out, H) /\ Count(out, H) \in Nat
        BY <1>1, <2>5
      <3> HIDE DEF out
      <3>3. InTransit(H)' = InTransit(H) - Weight(busy[w], H)
        BY <1>1, <1>2, <2>2, <2>3, <3>1, <3>2, SMTT(30)
      <3> QED
        BY <2>1, <2>5, <3>3
    <2>6. CASE WorkerRespond(w)
      <3>1. Reply(busy[w]) = busy[w]
        BY <2>1 DEF Reply, Messages
      <3>2. \/ response_queue'.items = Append(out, busy[w])
            \/ response_queue'.items = out /\ response_queue.stopped
        BY <2>6, <3>1 DEF WorkerRespond, Push, IInv, TypeOK, WorkTypeOK, Queue
      <3> QED
        BY <2>4, <2>5, <3>2
    <2>7. CASE WorkerThrow(w)
      BY <2>5, <2>7 DEF WorkerThrow, queues
    <2> QED
      BY <1>5, <2>6, <2>7
  <1>6. CASE WorkerExit(w)
    BY <1>6 DEF WorkerExit, queues, InTransit
  <1> QED
    BY <1>4, <1>5, <1>6 DEF Work

\* The IO thread takes a response.
LEMMA TransitDrain ==
  ASSUME IInv, DrainPop, NEW H
  PROVE  /\ Response \in Messages
         /\ InTransit(H)' = InTransit(H) - Weight(Response, H)
         /\ InTransit(H) >= Weight(Response, H)
  <1> DEFINE q == response_queue.items
  <1>1. /\ q \in Seq(Messages)
        /\ Count(request_queue.items, H) \in Nat
        /\ Count(busy, H) \in Nat
    BY TransitTyped
  <1>2. /\ q # <<>> /\ response_queue'.items = Tail(q) /\ Response = Head(q)
        /\ request_queue' = request_queue /\ busy' = busy
    BY DEF DrainPop, CanPop, Pop, Response, Front, workers, IInv, TypeOK, WorkTypeOK, Queue
  <1>3. Head(q) \in Messages /\ Tail(q) \in Seq(Messages)
    BY <1>1, <1>2, HeadTailProperties
  <1>4. Count(q, H) = Count(Tail(q), H) + Weight(Head(q), H) /\ Count(Tail(q), H) \in Nat
    BY <1>1, <1>2, <1>3, CountTail, SequenceFinite, HitsFinite
  <1>5. InTransit(H)' = Count(request_queue.items, H) + Count(busy, H) + Count(Tail(q), H)
    BY <1>2 DEF InTransit
  <1>6. InTransit(H) = Count(request_queue.items, H) + Count(busy, H) + Count(q, H)
    BY DEF InTransit
  <1>7. Weight(Head(q), H) \in {0, 1}
    BY DEF Weight
  <1>8. Response = Head(q) /\ Response \in Messages
    BY <1>2, <1>3
  <1> HIDE DEF q
  <1>9. InTransit(H)' = InTransit(H) - Weight(Head(q), H) /\ InTransit(H) >= Weight(Head(q), H)
    BY <1>1, <1>4, <1>5, <1>6, <1>7
  <1> QED
    BY <1>8, <1>9

\* decodeAndEnqueue() adds what it decodes.
LEMMA TransitDecode ==
  ASSUME IInv, DecodeEnqueue, ~request_queue.stopped, NEW H
  PROVE  InTransit(H)' = InTransit(H) + Count(Decoded(This, connections[This].input_buffer), H)
  <1> DEFINE q == request_queue.items
             d == Decoded(This, connections[This].input_buffer)
  <1>1. d \in Seq(Messages)
    BY AtHand, DecodedTyped DEF DecodeEnqueue, RecvAgain, AtEvent, Has
  <1>2. request_queue' = PushAll(request_queue, d) /\ UNCHANGED <<response_queue, busy>>
    BY DEF DecodeEnqueue, workers
  <1> HIDE DEF d
  <1>3. request_queue'.items = q \o d
    BY <1>2 DEF PushAll, IInv, TypeOK, WorkTypeOK, Queue
  <1>4. /\ q \in Seq(Messages) /\ Count(q, H) \in Nat
        /\ Count(busy, H) \in Nat /\ Count(response_queue.items, H) \in Nat
    BY TransitTyped
  <1>5. Count(q \o d, H) = Count(q, H) + Count(d, H) /\ Count(d, H) \in Nat
    BY <1>1, <1>4, CountConcat, SequenceFinite, HitsFinite
  <1>6. InTransit(H)' = Count(q \o d, H) + Count(busy, H) + Count(response_queue.items, H)
    BY <1>2, <1>3 DEF InTransit
  <1>7. InTransit(H) = Count(q, H) + Count(busy, H) + Count(response_queue.items, H)
    BY DEF InTransit
  <1> HIDE DEF q
  <1>8. InTransit(H)' = InTransit(H) + Count(d, H)
    BY <1>4, <1>5, <1>6, <1>7
  <1> QED
    BY <1>8 DEF d

\* Nothing else gets on the way or off it.
LEMMA TransitElse ==
  ASSUME IInv, [Next]_vars, ~DecodeEnqueue, ~DrainPop, ~(\E w \in Worker : Work(w)), NEW H
  PROVE  InTransit(H)' = InTransit(H)
  <1>1. CASE UNCHANGED <<request_queue, response_queue, busy>>
    BY <1>1 DEF InTransit
  <1>2. CASE StopRequests \/ StopResponses
    <2>1. /\ request_queue'.items = request_queue.items
          /\ response_queue'.items = response_queue.items /\ busy' = busy
      BY <1>2 DEF StopRequests, StopResponses, Stop, workers, IInv, TypeOK, WorkTypeOK, Queue
    <2> QED
      BY <2>1 DEF InTransit
  <1>3. CASE \/ Signal \/ Start \/ EpollWait \/ LoopExit
             \/ (\E fd \in Fd : Accept(fd)) \/ AcceptTurnAway \/ AcceptDone
             \/ RecvData \/ RecvClose \/ DecodeInvalid
             \/ WriteGone \/ (\E n \in 1..SndCap : SendSome(n)) \/ SendRest \/ SendAgain \/ SendFails \/ SendRestClose
             \/ DrainDone \/ StopListen \/ (\E fd \in Fd : StopClose(fd)) \/ Join
             \/ Clients \/ UNCHANGED vars
    BY <1>1, <1>3 DEF Signal, Start, EpollWait, LoopExit, Accept, AcceptTurnAway, AcceptDone, RecvData,
      RecvClose, DecodeInvalid, WriteGone, SendSome, SendRest, SendAgain, SendFails, SendRestClose, DrainDone,
      StopListen, StopClose, Join, Clients, vars, server, queues, workers
  <1> QED
    BY <1>2, <1>3 DEF Next, IO, AcceptAgain, AcceptFails, DrainStale, DrainOverflow, DrainAppend, DrainClose

-----------------------------------------------------------------------------
(* Sockets, clients and shutdown.                                           *)

\* A client that was not accepted yet got nothing, and all it sent is there.
Unserved == /\ \A p \in Peer : mode[p] = "rst" => sndq[p] = <<>>
            /\ \A p \in Peer : link[p] \in {"new", "queued"} =>
                 got[p] = <<>> /\ sndq[p] = <<>> /\ Incoming(rcvq[p], sent[p], 0)

\* The queues are stopped when there is no connection left.
Stopping == pc \in {"stop_responses", "join", "done"}
Stops == /\ request_queue.stopped \/ response_queue.stopped => Stopping
         /\ Stopping => DOMAIN connections = {}

\* The streams and what clients did to them stay as they are.
ClientsRest == /\ UNCHANGED <<sent, got, rcvq, sndq>>
               /\ \A p \in Peer : mode'[p] = "rst" <=> mode[p] = "rst"

LEMMA Movements ==
  ASSUME IInv, [Next]_vars
  PROVE  \/ ClientsRest
         \/ RecvData \/ (\E n \in 1..SndCap : SendSome(n)) \/ SendRest \/ SendRestClose
         \/ \E p \in Peer : /\ SendHalf(p) \/ SendInvalid(p) \/ Reset(p) \/ Read(p)
                            /\ UNCHANGED server
  <1>1. CASE UNCHANGED <<mode, sent, got, rcvq, sndq>>
    BY <1>1 DEF ClientsRest
  <1>2. CASE RecvClose \/ DecodeInvalid \/ SendFails \/ DrainOverflow \/ DrainClose
             \/ (\E fd \in Fd : StopClose(fd))
    BY <1>1, <1>2 DEF RecvClose, DecodeInvalid, SendFails, DrainOverflow, DrainClose, StopClose,
      CloseConnection, Disconnect
  <1>3. ASSUME NEW p \in Peer, Finish(p) PROVE ClientsRest
    BY <1>3 DEF Finish, ClientsRest, IInv, TypeOK, ClientsTypeOK
  <1>4. CASE Clients
    BY <1>1, <1>3, <1>4 DEF Clients, Client, Connect
  <1>5. CASE \/ Signal \/ Start \/ EpollWait \/ LoopExit \/ (\E fd \in Fd : Accept(fd))
             \/ AcceptTurnAway \/ AcceptDone \/ DecodeEnqueue
             \/ WriteGone \/ SendAgain \/ DrainStale \/ DrainAppend \/ DrainDone
             \/ StopListen \/ StopRequests \/ StopResponses \/ Join
             \/ (\E w \in Worker : Work(w)) \/ UNCHANGED vars
    BY <1>1, <1>5 DEF Signal, Start, EpollWait, LoopExit, Accept, AcceptTurnAway, AcceptDone,
      DecodeEnqueue, WriteGone, SendAgain, DrainStale, DrainAppend, Modify, DrainDone, StopListen,
      StopRequests, StopResponses, Join, Work, WorkerPop, WorkerRespond, WorkerThrow, WorkerExit,
      vars, network, clients
  <1> QED
    BY <1>2, <1>4, <1>5 DEF Next, IO, AcceptAgain, AcceptFails

\* Nobody goes back to the backlog.
LEMMA Links ==
  ASSUME IInv, [Next]_vars, NEW p \in Peer, link'[p] \in {"new", "queued"}
  PROVE  link[p] \in {"new", "queued"}
  <1>1. link \in [Peer -> {"new", "queued", "open", "closed"}]
    BY DEF IInv, TypeOK, ClientsTypeOK
  <1>2. CASE UNCHANGED link
    BY <1>2
  <1>3. CASE RecvClose \/ DecodeInvalid \/ SendFails \/ SendRestClose \/ DrainOverflow \/ DrainClose
             \/ (\E fd \in Fd : StopClose(fd))
    BY <1>1, <1>3 DEF RecvClose, DecodeInvalid, SendFails, SendRestClose, DrainOverflow, DrainClose, StopClose,
      CloseConnection, Disconnect, CloseSocket
  <1>4. CASE (\E fd \in Fd : Accept(fd)) \/ AcceptTurnAway \/ StopListen
    BY <1>1, <1>4 DEF Accept, AcceptTurnAway, StopListen
  <1>5. CASE Clients
    BY <1>1, <1>2, <1>5 DEF Clients, Client, Connect, SendHalf, SendInvalid, Finish, Reset, Read
  <1>6. CASE RecvData \/ DecodeEnqueue \/ (\E n \in 1..SndCap : SendSome(n)) \/ SendRest \/ DrainAppend
    BY <1>2, <1>6 DEF RecvData, DecodeEnqueue, SendSome, SendRest, DrainAppend, Modify, network, clients
  <1>7. CASE \/ Signal \/ Start \/ EpollWait \/ LoopExit \/ AcceptDone
             \/ WriteGone \/ SendAgain \/ DrainStale \/ DrainDone
             \/ StopRequests \/ StopResponses \/ Join
             \/ (\E w \in Worker : Work(w)) \/ UNCHANGED vars
    BY <1>2, <1>7 DEF Signal, Start, EpollWait, LoopExit, AcceptDone, WriteGone,
      SendAgain, DrainStale, DrainDone, StopRequests, StopResponses, Join, Work,
      WorkerPop, WorkerRespond, WorkerThrow, WorkerExit, vars, network, clients
  <1> QED
    BY <1>3, <1>4, <1>5, <1>6, <1>7 DEF Next, IO, AcceptAgain, AcceptFails

LEMMA StepUnserved == IInv /\ Sockets /\ Unserved /\ [Next]_vars => Unserved'
  <1> SUFFICES ASSUME IInv, Sockets, Unserved, [Next]_vars PROVE Unserved'
    OBVIOUS
  <1>1. /\ sent \in [Peer -> 0..(2 * MaxReq)] /\ mode \in [Peer -> {"up", "fin", "rst"}]
        /\ got \in [Peer -> Seq(Units)]
        /\ rcvq \in [Peer -> Seq(Units)] /\ sndq \in [Peer -> Seq(Units)]
    BY DEF IInv, TypeOK, ClientsTypeOK, SocketsTypeOK
  <1>2. CASE ClientsRest
    BY <1>2, Links DEF ClientsRest, Unserved
  <1>3. ASSUME NEW fd \in DOMAIN connections
        PROVE  sock[fd] \in Peer /\ link[sock[fd]] = "open"
    BY DEF Sockets, IInv, Tables, TypeOK, SocketsTypeOK
  <1>4. CASE RecvData \/ (\E n \in 1..SndCap : SendSome(n)) \/ SendRest \/ SendRestClose
    <2> DEFINE p == sock[This]
    <2>1. This \in DOMAIN connections
      BY <1>4, AtHand DEF RecvData, SendSome, SendRest, SendRestClose, Transfer, AtEvent, Has
    <2>2. p \in Peer /\ link[p] = "open"
      BY <1>3, <2>1
    <2>3. sent' = sent /\ got' = got /\ mode' = mode
      BY <1>4 DEF RecvData, SendSome, SendRest, SendRestClose, Disconnect, Modify, clients
    <2>4. \A q \in Peer \ {p} : rcvq'[q] = rcvq[q] /\ sndq'[q] = sndq[q]
      BY <1>1, <1>4, <2>2 DEF RecvData, SendSome, SendRest, SendRestClose, Disconnect, Transfer, Modify
    <2>5. mode[p] = "rst" => sndq'[p] = sndq[p]
      BY <1>4 DEF RecvData, SendSome, SendRest, SendRestClose, Transfer
    <2> HIDE DEF p
    <2>6. \A q \in Peer : link'[q] \in {"new", "queued"} => q # p /\ link[q] \in {"new", "queued"}
      BY <2>2, Links
    <2> QED
      BY <2>2, <2>3, <2>4, <2>5, <2>6 DEF Unserved
  <1>5. ASSUME NEW p \in Peer, UNCHANGED server, SendHalf(p) PROVE Unserved'
    <2> DEFINE u == Half(p, (sent[p] \div 2) + 1, (sent[p] % 2) + 1)
    <2>1. /\ rcvq' = [rcvq EXCEPT ![p] = Append(@, u)] /\ sent' = [sent EXCEPT ![p] = @ + 1]
          /\ UNCHANGED <<link, mode, got, sndq>>
      BY <1>5 DEF SendHalf
    <2>2. sent[p] \in Nat /\ rcvq[p] \in Seq(Units) /\ 0 \in Nat
      BY <1>1
    <2>3. Incoming(rcvq[p], sent[p], 0) => Incoming(Append(rcvq[p], u), sent[p] + 1, 0)
      BY <2>2, IncomingHalf
    <2> HIDE DEF u
    <2>4. /\ rcvq'[p] = Append(rcvq[p], u) /\ sent'[p] = sent[p] + 1
          /\ \A q \in Peer \ {p} : rcvq'[q] = rcvq[q] /\ sent'[q] = sent[q]
      BY <1>1, <2>1
    <2> QED
      BY <2>1, <2>3, <2>4 DEF Unserved
  <1>6. ASSUME NEW p \in Peer, UNCHANGED server, SendInvalid(p) PROVE Unserved'
    <2> DEFINE u == Half(p, 0, 1)
    <2>1. /\ rcvq' = [rcvq EXCEPT ![p] = Append(@, u)] /\ sent' = [sent EXCEPT ![p] = @ + 2]
          /\ UNCHANGED <<link, mode, got, sndq>>
      BY <1>6 DEF SendInvalid
    <2>2. sent[p] \in Nat /\ rcvq[p] \in Seq(Units) /\ 0 \in Nat
      BY <1>1
    <2>3. Incoming(rcvq[p], sent[p], 0) => Incoming(Append(rcvq[p], u), sent[p] + 2, 0)
      BY <2>2, IncomingInvalid
    <2> HIDE DEF u
    <2>4. /\ rcvq'[p] = Append(rcvq[p], u) /\ sent'[p] = sent[p] + 2
          /\ \A q \in Peer \ {p} : rcvq'[q] = rcvq[q] /\ sent'[q] = sent[q]
      BY <1>1, <2>1
    <2> QED
      BY <2>1, <2>3, <2>4 DEF Unserved
  <1>7. ASSUME NEW p \in Peer, Reset(p) PROVE Unserved'
    BY <1>1, <1>7 DEF Reset, Unserved
  <1>8. ASSUME NEW p \in Peer, Read(p) PROVE Unserved'
    BY <1>1, <1>8 DEF Read, Unserved
  <1> QED
    BY <1>2, <1>4, <1>5, <1>6, <1>7, <1>8, Movements

LEMMA StepStops == IInv /\ Talk /\ Stops /\ [Next]_vars => Stops'
  <1> SUFFICES ASSUME IInv, Talk, Stops, [Next]_vars PROVE Stops'
    OBVIOUS
  <1>1. \A q : Queue(q, Messages) => /\ Stop(q).stopped = TRUE /\ Pop(q).stopped = q.stopped
                                     /\ \A v : Push(q, v).stopped = q.stopped
                                     /\ \A s : PushAll(q, s).stopped = q.stopped
    BY DEF Queue, Stop, Pop, Push, PushAll
  <1>2. Queue(request_queue, Messages) /\ Queue(response_queue, Messages)
    BY DEF IInv, TypeOK, WorkTypeOK
  <1>3. CASE \E fd \in Fd : Accept(fd)
    BY <1>3 DEF Accept, Stay, queues, Stops, Stopping
  <1>4. CASE StopRequests
    BY <1>1, <1>2, <1>4 DEF StopRequests, memory, Stops, Stopping
  <1>5. CASE StopResponses
    BY <1>1, <1>2, <1>5 DEF StopResponses, memory, Stops, Stopping
  <1>6. ASSUME DOMAIN connections' \subseteq DOMAIN connections,
               Stopping' <=> Stopping,
               request_queue'.stopped = request_queue.stopped,
               response_queue'.stopped = response_queue.stopped
        PROVE  Stops'
    BY <1>6 DEF Stops
  <1>7. ASSUME NEW w \in Worker, Work(w) PROVE Stops'
    <2>1. UNCHANGED <<connections, pc>>
      BY <1>7 DEF Work, WorkerPop, WorkerRespond, WorkerThrow, WorkerExit, memory
    <2>2. /\ request_queue'.stopped = request_queue.stopped
          /\ response_queue'.stopped = response_queue.stopped
      BY <1>1, <1>2, <1>7 DEF Work, WorkerPop, WorkerRespond, WorkerThrow, WorkerExit, queues
    <2> QED
      BY <1>6, <2>1, <2>2 DEF Stopping
  <1>8. ASSUME ~(\E fd \in Fd : Accept(fd)) PROVE DOMAIN connections' \subseteq DOMAIN connections
    <2>1. Still \/ Steady
      BY <1>8, Evolution, Buffering
    <2> QED
      BY <2>1 DEF Still, Steady
  <1>9. CASE DecodeEnqueue \/ DrainStale \/ DrainOverflow \/ DrainAppend \/ DrainClose
    <2>1. ~(\E fd \in Fd : Accept(fd))
      BY <1>9 DEF Accept, DecodeEnqueue, RecvAgain, DrainStale, DrainOverflow, DrainAppend, DrainClose,
        DrainPop
    <2>2. /\ request_queue'.stopped = request_queue.stopped
          /\ response_queue'.stopped = response_queue.stopped
      BY <1>1, <1>2, <1>9 DEF DecodeEnqueue, DrainStale, DrainOverflow, DrainAppend, DrainClose, DrainPop
    <2>3. ~Stopping /\ ~Stopping'
      BY <1>9 DEF DecodeEnqueue, RecvAgain, DrainStale, DrainOverflow, DrainAppend, DrainClose,
        DrainPop, Proceed, Stage, Stay, Stopping
    <2> QED
      BY <1>6, <1>8, <2>1, <2>2, <2>3
  <1>10. CASE \/ Signal \/ Start \/ EpollWait \/ LoopExit \/ AcceptTurnAway \/ AcceptDone
              \/ RecvData \/ RecvClose \/ DecodeInvalid
              \/ WriteGone \/ (\E n \in 1..SndCap : SendSome(n)) \/ SendRest \/ SendAgain \/ SendFails \/ SendRestClose
              \/ DrainDone \/ StopListen \/ (\E fd \in Fd : StopClose(fd)) \/ Join
              \/ Clients \/ UNCHANGED vars
    <2>1. (Stopping' <=> Stopping) /\ UNCHANGED queues
      BY <1>10 DEF Signal, Start, EpollWait, LoopExit, AcceptTurnAway, AcceptDone, RecvData,
        RecvClose, DecodeInvalid, RecvAgain, WriteGone, SendSome, SendRest, Transfer, SendAgain,
        SendFails, SendRestClose, DrainDone, StopListen, StopClose, Join, Clients, vars, server,
        Proceed, Stage, Stay, Stopping
    <2> QED
      BY <1>3, <1>6, <1>8, <2>1 DEF queues
  <1> QED
    BY <1>3, <1>4, <1>5, <1>7, <1>9, <1>10 DEF Next, IO, AcceptAgain, AcceptFails

-----------------------------------------------------------------------------
(* What the server has made for each client.                                *)

LEMMA Regroup ==
  \A s, t, u \in Seq(Units) : (s \o t) \o u = s \o (t \o u)
  BY ConcatAssociative

LEMMA OnlyOne ==
  ASSUME NEW D, NEW f, NEW x \in D, \A y \in D : f[y] = f[x] => y = x
  PROVE  LET S == {y \in D : f[y] = f[x]} IN S # {} /\ (CHOOSE z \in S : TRUE) = x
  <1>1. {y \in D : f[y] = f[x]} = {x}
    OBVIOUS
  <1> QED
    BY <1>1

\* What is unsent is the output of the client's connection.
Outputs ==
  \A p \in Peer :
    /\ \A fd \in DOMAIN connections : sock[fd] = p => Unsent(p) = connections[fd].output_buffer
    /\ (\A fd \in DOMAIN connections : sock[fd] # p) => Unsent(p) = <<>>

LEMMA UnsentIs == Tables /\ Sockets => Outputs
  <1> SUFFICES ASSUME Tables, Sockets PROVE Outputs
    OBVIOUS
  <1>1. ASSUME NEW fd \in DOMAIN connections, NEW p \in Peer, sock[fd] = p
        PROVE  Unsent(p) = connections[fd].output_buffer
    <2>1. \A y \in DOMAIN connections : sock[y] = sock[fd] => y = fd
      BY DEF Sockets, Tables
    <2> DEFINE S == {y \in DOMAIN connections : sock[y] = p}
    <2>2. S # {} /\ (CHOOSE z \in S : TRUE) = fd
      BY <1>1, <2>1, OnlyOne
    <2> QED
      BY <2>2 DEF Unsent
  <1>2. ASSUME NEW p \in Peer, \A fd \in DOMAIN connections : sock[fd] # p PROVE Unsent(p) = <<>>
    <2>1. {y \in DOMAIN connections : sock[y] = p} = {}
      BY <1>2
    <2> QED
      BY <2>1 DEF Unsent
  <1> QED
    BY <1>1, <1>2 DEF Outputs

LEMMA UnsentWillBe == Tables' /\ Sockets' => Outputs'
  BY UnsentIs, PTL

LEMMA StreamTyped ==
  ASSUME IInv, Sockets, NEW p \in Peer
  PROVE  /\ got[p] \in Seq(Units) /\ sndq[p] \in Seq(Units)
         /\ Unsent(p) \in Seq(Units) /\ sndq[p] \o Unsent(p) \in Seq(Units)
         /\ Stream(p) \in Seq(Units)
  <1>1. got[p] \in Seq(Units) /\ sndq[p] \in Seq(Units)
    BY DEF IInv, TypeOK, ClientsTypeOK, SocketsTypeOK
  <1>2. Outputs
    BY UnsentIs DEF IInv
  <1>3. Unsent(p) \in Seq(Units)
    <2>1. CASE \E fd \in DOMAIN connections : sock[fd] = p
      <3>1. PICK fd \in DOMAIN connections : sock[fd] = p
        BY <2>1
      <3>2. connections[fd].output_buffer \in Seq(Units)
        BY DEF IInv, TypeOK, MemoryTypeOK, Connections
      <3> QED
        BY <1>2, <3>1, <3>2 DEF Outputs
    <2>2. CASE \A fd \in DOMAIN connections : sock[fd] # p
      <3>1. Unsent(p) = <<>>
        BY <1>2, <2>2 DEF Outputs
      <3> QED
        BY <3>1
    <2> QED
      BY <2>1, <2>2
  <1>4. sndq[p] \o Unsent(p) \in Seq(Units)
    BY <1>1, <1>3, ConcatProperties
  <1>5. Stream(p) \in Seq(Units)
    BY <1>1, <1>4, ConcatProperties DEF Stream
  <1> QED
    BY <1>1, <1>3, <1>4, <1>5

\* drainResponseQueue() puts a whole response behind the stream of its client.
LEMMA AppendStream ==
  ASSUME IInv, Talk, Sockets, DrainAppend, NEW p \in Peer
  PROVE  IF p = sock[Response.fd] /\ mode[p] # "rst"
         THEN Stream(p)' = Stream(p) \o Encoded(Response)
         ELSE Stream(p)' = Stream(p)
  <1>1. Outputs /\ Outputs'
    <2>1. [Next]_vars
      BY DEF Next, IO, AcceptAgain, AcceptFails
    <2>2. IInv' /\ Sockets'
      BY <2>1, StepIInv, StepSockets
    <2> QED
      BY <2>2, UnsentIs, UnsentWillBe DEF IInv
  <1>2. /\ got[p] \in Seq(Units) /\ sndq[p] \in Seq(Units) /\ Unsent(p) \in Seq(Units)
        /\ sndq[p] \o Unsent(p) \in Seq(Units)
    BY StreamTyped
  <1> DEFINE r == Response
             out == connections[r.fd].output_buffer
  <1>3. r.fd \in DOMAIN connections /\ r \in Messages
    BY TransitDrain DEF DrainAppend, Answers, Has
  <1>4. connections[r.fd] \in Connections /\ out \in Seq(Units)
    BY <1>3 DEF IInv, TypeOK, MemoryTypeOK, Connections
  <1>5. connections' = [connections EXCEPT ![r.fd].output_buffer = @ \o Encoded(r)]
    BY DEF DrainAppend
  <1>6. UNCHANGED <<got, sndq, mode, sock>>
    BY DEF DrainAppend, Modify, clients
  <1>7. /\ DOMAIN connections' = DOMAIN connections
        /\ connections'[r.fd].output_buffer = out \o Encoded(r)
        /\ \A x \in DOMAIN connections \ {r.fd} : connections'[x] = connections[x]
    BY <1>3, <1>4, <1>5 DEF Connections
  <1>8. CASE p # sock[r.fd]
    <2>1. Unsent(p)' = Unsent(p)
      <3>1. CASE \E x \in DOMAIN connections : sock[x] = p
        BY <1>1, <1>6, <1>7, <1>8, <3>1 DEF Outputs
      <3>2. CASE \A x \in DOMAIN connections : sock[x] # p
        BY <1>1, <1>6, <1>7, <3>2 DEF Outputs
      <3> QED
        BY <3>1, <3>2
    <2> QED
      BY <1>6, <1>8, <2>1 DEF Stream
  <1>9. CASE p = sock[r.fd] /\ mode[p] = "rst"
    BY <1>6, <1>9 DEF Stream
  <1>10. CASE p = sock[r.fd] /\ mode[p] # "rst"
    <2>1. Unsent(p) = out /\ Unsent(p)' = out \o Encoded(r)
      BY <1>1, <1>3, <1>6, <1>7, <1>10 DEF Outputs
    <2>2. Stream(p) = got[p] \o (sndq[p] \o out) /\ Stream(p)' = got[p] \o (sndq[p] \o (out \o Encoded(r)))
      BY <1>6, <1>10, <2>1 DEF Stream
    <2>3. Encoded(r) \in Seq(Units) /\ sndq[p] \o out \in Seq(Units)
      BY <1>2, <1>3, <1>4, EncodedTyped, ConcatProperties
    <2> HIDE DEF r, out
    <2>4. sndq[p] \o (out \o Encoded(r)) = (sndq[p] \o out) \o Encoded(r)
      <3>1. \A s \in Seq(Units) : (sndq[p] \o out) \o s = sndq[p] \o (out \o s)
        BY <1>2, <1>4, Regroup, Zenon
      <3> QED
        BY <2>3, <3>1
    <2>5. got[p] \o ((sndq[p] \o out) \o Encoded(r)) = (got[p] \o (sndq[p] \o out)) \o Encoded(r)
      BY <1>2, <2>3, Regroup
    <2>6. Stream(p)' = Stream(p) \o Encoded(r)
      BY <2>2, <2>4, <2>5
    <2> QED
      BY <1>10, <2>6 DEF r
  <1> QED
    BY <1>8, <1>9, <1>10

\* The client reads on: the first unit of what is sent becomes the last it has read.
LEMMA ReadOn ==
  ASSUME NEW g \in Seq(Units), NEW s \in Seq(Units), s # <<>>, NEW u \in Seq(Units)
  PROVE  /\ Append(g, Head(s)) \o (Tail(s) \o u) = g \o (s \o u)
         /\ Len(g) < Len(g \o (s \o u)) /\ (g \o (s \o u))[Len(g) + 1] = Head(s)
  <1>1. /\ Head(s) \in Units /\ Tail(s) \in Seq(Units) /\ <<Head(s)>> \in Seq(Units)
        /\ Tail(s) \o u \in Seq(Units) /\ s \o u \in Seq(Units)
    BY HeadTailProperties, ConcatProperties
  <1>2. s = <<Head(s)>> \o Tail(s) /\ Append(g, Head(s)) = g \o <<Head(s)>>
    BY <1>1, AppendIsConcat
  <1>3. PICK h, r : h = <<Head(s)>> /\ r = Tail(s)
    OBVIOUS
  <1>4. h \in Seq(Units) /\ r \in Seq(Units) /\ r \o u \in Seq(Units)
    BY <1>1, <1>3
  <1>5. (g \o h) \o (r \o u) = g \o (h \o (r \o u))
    BY <1>4, Regroup, Zenon
  <1>6. (h \o r) \o u = h \o (r \o u)
    <2>1. \A v \in Seq(Units) : (h \o r) \o v = h \o (r \o v)
      BY <1>4, Regroup, Zenon
    <2> QED
      BY <2>1, Zenon
  <1>7. Len(s) \in Nat /\ Len(s) > 0 /\ s[1] = Head(s)
    OBVIOUS
  <1>8. Len(s \o u) = Len(s) + Len(u) /\ (s \o u)[1] = Head(s)
    BY <1>7
  <1>9. Len(g) \in Nat /\ Len(u) \in Nat
    OBVIOUS
  <1>10. PICK v : v = s \o u
    OBVIOUS
  <1>11. v \in Seq(Units) /\ Len(v) > 0 /\ v[1] = Head(s)
    BY <1>1, <1>7, <1>8, <1>9, <1>10
  <1>12. Len(g) < Len(g \o v) /\ (g \o v)[Len(g) + 1] = v[1]
    BY <1>11
  <1> QED
    BY <1>2, <1>3, <1>5, <1>6, <1>10, <1>11, <1>12

LEMMA ReadStream ==
  ASSUME IInv, Sockets, Unserved, NEW p \in Peer, Read(p), UNCHANGED server
  PROVE  /\ Stream(p)' = Stream(p)
         /\ Len(got[p]) < Len(Stream(p)) /\ Stream(p)[Len(got[p]) + 1] = Head(sndq[p])
  <1>1. got[p] \in Seq(Units) /\ sndq[p] \in Seq(Units) /\ Unsent(p) \in Seq(Units)
    BY StreamTyped
  <1>2. UNCHANGED <<connections, sock>>
    BY DEF server, memory, Read
  <1>3. Unsent(p)' = Unsent(p)
    BY <1>2 DEF Unsent
  <1>4. got \in [Peer -> Seq(Units)] /\ sndq \in [Peer -> Seq(Units)]
    BY DEF IInv, TypeOK, ClientsTypeOK, SocketsTypeOK
  <1>5. /\ sndq[p] # <<>> /\ UNCHANGED <<mode, sent, link>>
        /\ got'[p] = Append(got[p], Head(sndq[p])) /\ sndq'[p] = Tail(sndq[p])
    BY <1>4 DEF Read
  <1>6. mode[p] # "rst"
    BY <1>5 DEF Unserved
  <1>7. /\ Stream(p) = got[p] \o (sndq[p] \o Unsent(p))
        /\ Stream(p)' = Append(got[p], Head(sndq[p])) \o (Tail(sndq[p]) \o Unsent(p))
    BY <1>3, <1>5, <1>6 DEF Stream
  <1>8. PICK g, s, u : g = got[p] /\ s = sndq[p] /\ u = Unsent(p)
    OBVIOUS
  <1>9. g \in Seq(Units) /\ s \in Seq(Units) /\ s # <<>> /\ u \in Seq(Units)
    BY <1>1, <1>5, <1>8
  <1>10. /\ Append(g, Head(s)) \o (Tail(s) \o u) = g \o (s \o u)
         /\ Len(g) < Len(g \o (s \o u)) /\ (g \o (s \o u))[Len(g) + 1] = Head(s)
    BY <1>9, ReadOn
  <1> QED
    BY <1>7, <1>8, <1>10

\* A stream stays, is cut off with its connection, or grows by a whole response.
LEMMA StreamStep ==
  ASSUME IInv, Talk, Sockets, Unserved, [Next]_vars, NEW p \in Peer
  PROVE  \/ Stream(p)' = Stream(p)
         \/ /\ \E t \in Seq(Units) : Stream(p) = Stream(p)' \o t
            /\ mode'[p] = "rst" \/ \A fd \in DOMAIN connections' : sock'[fd] # p
         \/ /\ DrainAppend /\ p = sock[Response.fd] /\ mode[p] # "rst"
            /\ Stream(p)' = Stream(p) \o Encoded(Response)
  <1>1. IInv' /\ Sockets' /\ Outputs /\ Outputs'
    <2>1. IInv' /\ Sockets'
      BY StepIInv, StepSockets
    <2> QED
      BY <2>1, UnsentIs, UnsentWillBe DEF IInv
  <1>2. /\ got[p] \in Seq(Units) /\ sndq[p] \in Seq(Units) /\ Unsent(p) \in Seq(Units)
        /\ sndq[p] \o Unsent(p) \in Seq(Units)
    BY StreamTyped
  <1>3. ASSUME UNCHANGED <<got, sndq>>, mode'[p] = "rst" <=> mode[p] = "rst", Unsent(p)' = Unsent(p)
        PROVE  Stream(p)' = Stream(p)
    BY <1>3 DEF Stream
  <1>4. ASSUME DOMAIN connections' = DOMAIN connections,
               \A fd \in DOMAIN connections :
                 sock'[fd] = sock[fd] /\ connections'[fd].output_buffer = connections[fd].output_buffer
        PROVE  Unsent(p)' = Unsent(p)
    <2>1. CASE \E fd \in DOMAIN connections : sock[fd] = p
      BY <1>1, <1>4, <2>1 DEF Outputs
    <2>2. CASE \A fd \in DOMAIN connections : sock[fd] # p
      BY <1>1, <1>4, <2>2 DEF Outputs
    <2> QED
      BY <2>1, <2>2
  <1>5. CASE Still /\ ClientsRest
    <2>1. CASE \E fd \in DOMAIN connections' : sock[fd] = p
      BY <1>1, <1>3, <1>5, <2>1 DEF Outputs, Still, Steady, ClientsRest
    <2>2. CASE \A fd \in DOMAIN connections' : sock[fd] # p
      <3>1. \A fd \in DOMAIN connections' : sock'[fd] # p
        BY <1>5, <2>2 DEF Still, Steady
      <3>2. Unsent(p)' = <<>>
        BY <1>1, <3>1 DEF Outputs
      <3>3. got'[p] = got[p] /\ sndq'[p] = sndq[p] /\ (mode'[p] = "rst" <=> mode[p] = "rst")
        BY <1>5 DEF ClientsRest
      <3>4. CASE mode[p] = "rst"
        BY <3>3, <3>4 DEF Stream
      <3>5. CASE mode[p] # "rst"
        <4>1. Stream(p) = got[p] \o (sndq[p] \o Unsent(p))
          BY <3>5 DEF Stream
        <4>2. Stream(p)' = got[p] \o (sndq[p] \o <<>>)
          BY <3>2, <3>3, <3>5 DEF Stream
        <4>3. Stream(p)' = got[p] \o sndq[p]
          BY <1>2, <4>2, ConcatEmptySeq
        <4>4. (got[p] \o sndq[p]) \o Unsent(p) = got[p] \o (sndq[p] \o Unsent(p))
          BY <1>2, Regroup
        <4>5. Stream(p) = Stream(p)' \o Unsent(p)
          BY <4>1, <4>3, <4>4
        <4> QED
          BY <1>2, <3>1, <4>5
      <3> QED
        BY <3>4, <3>5
    <2> QED
      BY <2>1, <2>2
  <1>6. ASSUME NEW fd \in Fd, Accept(fd) PROVE Stream(p)' = Stream(p)
    <2>1. /\ fd \notin DOMAIN connections /\ backlog # <<>>
          /\ DOMAIN connections' = DOMAIN connections \cup {fd}
          /\ connections'[fd].output_buffer = <<>> /\ sock'[fd] = Head(backlog)
          /\ \A x \in DOMAIN connections : connections'[x] = connections[x] /\ sock'[x] = sock[x]
          /\ UNCHANGED <<got, sndq, mode>>
      BY <1>6 DEF Accept, Insert, IInv, Tables
    <2>2. CASE \E x \in DOMAIN connections : sock[x] = p
      BY <1>1, <1>3, <2>1, <2>2 DEF Outputs
    <2>3. CASE \A x \in DOMAIN connections : sock[x] # p
      <3>1. Unsent(p) = <<>>
        BY <1>1, <2>3 DEF Outputs
      <3>2. Unsent(p)' = <<>>
        <4>1. CASE p = Head(backlog)
          BY <1>1, <2>1, <4>1 DEF Outputs
        <4>2. CASE p # Head(backlog)
          BY <1>1, <2>1, <2>3, <4>2 DEF Outputs
        <4> QED
          BY <4>1, <4>2
      <3> QED
        BY <1>3, <2>1, <3>1, <3>2
    <2> QED
      BY <2>2, <2>3
  <1>7. CASE RecvData \/ DecodeEnqueue
    <2>1. This \in DOMAIN connections
      BY <1>7, AtHand DEF RecvData, DecodeEnqueue, RecvAgain, AtEvent, Has
    <2>2. PICK b : connections' = [connections EXCEPT ![This] = [connections[This] EXCEPT !.input_buffer = b]]
      BY <1>7 DEF RecvData, DecodeEnqueue
    <2>3. UNCHANGED <<got, sndq, mode, sock>>
      BY <1>7 DEF RecvData, DecodeEnqueue, network, clients
    <2>4. connections[This] \in Connections
      BY <2>1 DEF IInv, TypeOK, MemoryTypeOK
    <2>5. /\ DOMAIN connections' = DOMAIN connections
          /\ \A fd \in DOMAIN connections :
               sock'[fd] = sock[fd] /\ connections'[fd].output_buffer = connections[fd].output_buffer
      BY <2>2, <2>3, <2>4 DEF Connections
    <2> QED
      BY <1>3, <1>4, <2>3, <2>5
  <1>8. ASSUME NEW q \in Peer, SendHalf(q) \/ SendInvalid(q) \/ Reset(q) \/ Read(q), UNCHANGED server
        PROVE  \/ Stream(p)' = Stream(p)
               \/ mode'[p] = "rst" /\ \E t \in Seq(Units) : Stream(p) = Stream(p)' \o t
    <2>1. UNCHANGED <<connections, sock>>
      BY <1>8 DEF server, memory, SendHalf, SendInvalid, Reset, Read
    <2>2. Unsent(p)' = Unsent(p)
      BY <2>1 DEF Unsent
    <2>3. /\ got \in [Peer -> Seq(Units)] /\ sndq \in [Peer -> Seq(Units)]
          /\ mode \in [Peer -> {"up", "fin", "rst"}]
      BY DEF IInv, TypeOK, ClientsTypeOK, SocketsTypeOK
    <2>4. CASE SendHalf(q) \/ SendInvalid(q)
      BY <1>3, <2>2, <2>4 DEF SendHalf, SendInvalid
    <2>5. CASE (Reset(q) \/ Read(q)) /\ p # q
      <3>1. got'[p] = got[p] /\ sndq'[p] = sndq[p] /\ mode'[p] = mode[p]
        BY <2>3, <2>5 DEF Reset, Read
      <3> QED
        BY <2>2, <3>1 DEF Stream
    <2>6. CASE Reset(p)
      <3>1. mode'[p] = "rst" /\ got'[p] = got[p] /\ mode[p] # "rst"
        BY <2>3, <2>6 DEF Reset
      <3>2. Stream(p)' = got[p] \o <<>> /\ Stream(p) = got[p] \o (sndq[p] \o Unsent(p))
        BY <3>1 DEF Stream
      <3>3. Stream(p)' = got[p]
        BY <1>2, <3>2, ConcatEmptySeq
      <3> QED
        BY <1>2, <3>1, <3>2, <3>3
    <2>7. CASE Read(p)
      BY <1>8, <2>7, ReadStream
    <2> QED
      BY <1>8, <2>4, <2>5, <2>6, <2>7
  <1>9. ASSUME NEW n \in Nat, Transfer(n), UNCHANGED <<got, mode, sock>>,
               connections' = [connections EXCEPT ![This] =
                  [connections[This] EXCEPT !.output_buffer = Erase(connections[This].output_buffer, n)]]
        PROVE  Stream(p)' = Stream(p)
    <2> DEFINE fd == This
               out == connections[fd].output_buffer
               q == sock[fd]
    <2>1. /\ fd \in DOMAIN connections /\ connections[fd] \in Connections
          /\ out \in Seq(Units) /\ n <= Len(out)
          /\ q \in Peer /\ mode[q] # "rst"
          /\ sndq' = [sndq EXCEPT ![q] = @ \o SubSeq(out, 1, n)]
      BY <1>9 DEF Transfer, Has, IInv, TypeOK, MemoryTypeOK, SocketsTypeOK, Connections, Tables
    <2>2. sndq \in [Peer -> Seq(Units)]
      BY DEF IInv, TypeOK, SocketsTypeOK
    <2>3. /\ DOMAIN connections' = DOMAIN connections
          /\ connections'[fd].output_buffer = Erase(out, n)
          /\ \A x \in DOMAIN connections \ {fd} : connections'[x] = connections[x]
      BY <1>9, <2>1 DEF Connections
    <2> HIDE DEF fd
    <2>4. CASE p # q
      <3>1. sndq'[p] = sndq[p]
        BY <2>1, <2>2, <2>4
      <3>2. Unsent(p)' = Unsent(p)
        <4>1. CASE \E x \in DOMAIN connections : sock[x] = p
          <5>1. PICK x \in DOMAIN connections : sock[x] = p
            BY <4>1
          <5>2. x # fd /\ sock'[x] = p /\ connections'[x] = connections[x] /\ x \in DOMAIN connections'
            BY <1>9, <2>3, <2>4, <5>1
          <5> QED
            BY <1>1, <5>1, <5>2 DEF Outputs
        <4>2. CASE \A x \in DOMAIN connections : sock[x] # p
          BY <1>1, <1>9, <2>3, <4>2 DEF Outputs
        <4> QED
          BY <4>1, <4>2
      <3> QED
        BY <1>9, <3>1, <3>2 DEF Stream
    <2>5. CASE p = q
      <3>1. sndq'[p] = sndq[p] \o SubSeq(out, 1, n)
        BY <2>1, <2>2, <2>5
      <3>2. Unsent(p) = out /\ Unsent(p)' = Erase(out, n)
        BY <1>1, <1>9, <2>1, <2>3, <2>5 DEF Outputs
      <3>3. SubSeq(out, 1, n) \o Erase(out, n) = out
        <4>1. 1 \in 1..(Len(out) + 1) /\ n \in (1 - 1)..Len(out) /\ Len(out) \in n..Len(out)
          BY <2>1
        <4> HIDE DEF out
        <4>2. SubSeq(out, 1, n) \o SubSeq(out, n + 1, Len(out)) = SubSeq(out, 1, Len(out))
          BY <2>1, <4>1, ConcatAdjacentSubSeq
        <4> QED
          BY <2>1, <4>2, SubSeqFull DEF Erase
      <3>4. SubSeq(out, 1, n) \in Seq(Units) /\ Erase(out, n) \in Seq(Units)
        <4> HIDE DEF out
        <4>1. /\ \A i \in 1..n : out[i] \in Units
              /\ \A i \in (n + 1)..Len(out) : out[i] \in Units
              /\ 1 \in Int /\ n \in Int /\ n + 1 \in Int /\ Len(out) \in Int
          BY <2>1
        <4> QED
          BY <4>1, SubSeqProperties DEF Erase
      <3>5. Stream(p) = got[p] \o (sndq[p] \o out)
        BY <2>1, <2>5, <3>2 DEF Stream
      <3>6. Stream(p)' = got[p] \o ((sndq[p] \o SubSeq(out, 1, n)) \o Erase(out, n))
        BY <1>9, <2>1, <2>5, <3>1, <3>2 DEF Stream
      <3> HIDE DEF out
      <3>7. (sndq[p] \o SubSeq(out, 1, n)) \o Erase(out, n) = sndq[p] \o (SubSeq(out, 1, n) \o Erase(out, n))
        BY <1>2, <3>4, Regroup
      <3> QED
        BY <3>3, <3>5, <3>6, <3>7
    <2> QED
      BY <2>4, <2>5
  <1>10. ASSUME NEW n \in 1..SndCap, SendSome(n) PROVE Stream(p)' = Stream(p)
    <2>1. /\ n \in Nat /\ Transfer(n) /\ UNCHANGED <<got, mode, sock>>
          /\ connections' = [connections EXCEPT ![This] =
               [connections[This] EXCEPT !.output_buffer = Erase(connections[This].output_buffer, n)]]
      BY <1>10 DEF SendSome, clients
    <2> QED
      BY <1>9, <2>1
  <1>11. CASE SendRest
    <2> DEFINE out == connections[This].output_buffer
               n == Len(out)
    <2>1. This \in DOMAIN connections /\ Transfer(n) /\ UNCHANGED <<got, mode, sock>>
      BY <1>11 DEF SendRest, Transfer, Has, Modify, clients
    <2>2. out \in Seq(Units) /\ n \in Nat
      BY <2>1 DEF IInv, TypeOK, MemoryTypeOK, Connections
    <2>3. Erase(out, n) = <<>>
      <3> HIDE DEF out
      <3>1. n \in Int /\ n + 1 \in Int /\ n < n + 1
        BY <2>2
      <3> QED
        BY <3>1, SubSeqEmpty DEF Erase
    <2>4. connections' = [connections EXCEPT ![This] =
               [connections[This] EXCEPT !.output_buffer = Erase(out, n)]]
      BY <1>11, <2>3 DEF SendRest
    <2> HIDE DEF n
    <2> QED
      BY <1>9, <2>1, <2>2, <2>4
  <1>12. CASE DrainAppend
    BY <1>12, AppendStream
  <1>13. CASE Still /\ SendRestClose
    <2> DEFINE fd == This
               out == connections[fd].output_buffer
               q == sock[fd]
    <2>1. /\ fd \in DOMAIN connections /\ Transfer(Len(out)) /\ Disconnect(fd)
          /\ out \in Seq(Units) /\ q \in Peer
      BY <1>13 DEF SendRestClose, Transfer, Has, IInv, TypeOK, MemoryTypeOK, SocketsTypeOK,
        Connections, Tables
    <2>2. SubSeq(out, 1, Len(out)) = out
      <3> HIDE DEF out
      <3> QED
        BY <2>1, SubSeqFull
    <2>3. mode[q] # "rst" /\ sndq' = [sndq EXCEPT ![q] = @ \o out]
      BY <2>1, <2>2 DEF Transfer
    <2>4. /\ UNCHANGED <<got, mode>>
          /\ DOMAIN connections' = DOMAIN connections \ {fd}
          /\ \A x \in DOMAIN connections \ {fd} : connections'[x] = connections[x] /\ sock'[x] = sock[x]
      BY <2>1 DEF Disconnect, CloseSocket, Restrict, IInv, Tables
    <2>5. sndq \in [Peer -> Seq(Units)]
      BY DEF IInv, TypeOK, SocketsTypeOK
    <2>6. \A x \in DOMAIN connections : sock[x] = q => x = fd
      BY <2>1 DEF Sockets, IInv, Tables
    <2>7. Unsent(q) = out
      BY <1>1, <2>1 DEF Outputs
    <2> HIDE DEF fd, out, q
    <2>8. CASE p = q
      <3>1. \A x \in DOMAIN connections' : sock'[x] # p
        BY <2>4, <2>6, <2>8
      <3>2. Unsent(p)' = <<>>
        BY <1>1, <3>1 DEF Outputs
      <3>3. Stream(p) = got[p] \o (sndq[p] \o out)
        BY <2>3, <2>7, <2>8 DEF Stream
      <3>4. sndq'[p] = sndq[p] \o out
        BY <2>1, <2>3, <2>5, <2>8
      <3>5. Stream(p)' = got[p] \o ((sndq[p] \o out) \o <<>>)
        BY <2>3, <2>4, <2>8, <3>2, <3>4 DEF Stream
      <3>6. (sndq[p] \o out) \o <<>> = sndq[p] \o out
        <4>1. sndq[p] \o out \in Seq(Units)
          BY <1>2, <2>1
        <4> QED
          BY <4>1, ConcatEmptySeq
      <3> QED
        BY <3>3, <3>5, <3>6
    <2>9. CASE p # q
      <3>1. sndq'[p] = sndq[p] /\ got'[p] = got[p] /\ mode'[p] = mode[p]
        BY <2>3, <2>4, <2>5, <2>9
      <3>2. Unsent(p)' = Unsent(p)
        <4>1. CASE \E x \in DOMAIN connections : sock[x] = p
          <5>1. PICK x \in DOMAIN connections : sock[x] = p
            BY <4>1
          <5>2. x # fd /\ sock'[x] = p /\ connections'[x] = connections[x] /\ x \in DOMAIN connections'
            BY <2>4, <2>9, <5>1 DEF q
          <5> QED
            BY <1>1, <5>1, <5>2 DEF Outputs
        <4>2. CASE \A x \in DOMAIN connections : sock[x] # p
          BY <1>1, <2>4, <4>2 DEF Outputs
        <4> QED
          BY <4>1, <4>2
      <3> QED
        BY <3>1, <3>2 DEF Stream
    <2> QED
      BY <2>8, <2>9
  <1>14. SendRestClose => Still
    BY ClosingStill DEF SendRestClose, Transfer, Has
  <1> QED
    BY <1>5, <1>6, <1>7, <1>8, <1>10, <1>11, <1>12, <1>13, <1>14, Evolution, Movements

-----------------------------------------------------------------------------
(* The accounts of a connection.                                            *)

\* What was sent and not yet decoded.
Input(fd) == connections[fd].input_buffer \o rcvq[sock[fd]]

\* The places of request n behind the input: on its way, or in the stream.
Said(p, n) == IF Answered(p, n) THEN 1 ELSE 0
Onward(fd, n) == InTransit(Tag(fd, connections[fd].conn_id, n)) + Said(sock[fd], n)

\* A request that was decoded may have been dropped.
Excused(fd, n) == mode[sock[fd]] = "rst" \/ n \in Faulty

\* The first d requests were decoded, each is in one place now; the others are
\* still in the input.
Account(fd, d) ==
  /\ Incoming(Input(fd), sent[sock[fd]], d)
  /\ \A n \in 1..MaxReq :
       /\ n > d => Onward(fd, n) = 0
       /\ n <= d => \/ Onward(fd, n) = 1
                    \/ Onward(fd, n) = 0 /\ Excused(fd, n)
Flow == \A fd \in DOMAIN connections : \E d \in 0..MaxReq : Account(fd, d)

\* Streams are whole responses, and, while they may grow, end with one.
Connected(p) == mode[p] # "rst" /\ \E fd \in DOMAIN connections : sock[fd] = p
Whole == \A p \in Peer : /\ Intact(Stream(p), sent[p])
                         /\ Connected(p) => EndsWhole(Stream(p))

FInv == Sockets /\ Unserved /\ Stops /\ Flow /\ Whole

-----------------------------------------------------------------------------
\* A connection that is there after a step was there before it, or is accepted.
LEMMA Survival ==
  ASSUME IInv, Talk, [Next]_vars, NEW fd \in DOMAIN connections'
  PROVE  \/ fd \in Fd /\ Accept(fd) /\ fd \notin DOMAIN connections
         \/ /\ fd \in DOMAIN connections
            /\ connections'[fd].conn_id = connections[fd].conn_id
            /\ sock'[fd] = sock[fd]
  <1>1. CASE Still \/ Steady
    BY <1>1 DEF Still, Steady
  <1>2. ASSUME NEW gd \in Fd, Accept(gd)
        PROVE  \/ gd = fd /\ fd \notin DOMAIN connections
               \/ fd \in DOMAIN connections /\ connections'[fd] = connections[fd] /\ sock'[fd] = sock[fd]
    BY <1>2 DEF Accept, Insert, IInv, Tables
  <1> QED
    BY <1>1, <1>2, Evolution, Buffering

LEMMA Ratchet ==
  ASSUME IInv, [Next]_vars, NEW p \in Peer
  PROVE  /\ sent[p] \in Nat /\ sent'[p] \in Nat /\ sent[p] <= sent'[p]
         /\ mode[p] = "rst" => mode'[p] = "rst"
  <1>1. sent \in [Peer -> 0..(2 * MaxReq)] /\ mode \in [Peer -> {"up", "fin", "rst"}]
    BY DEF IInv, TypeOK, ClientsTypeOK
  <1>2. \A q \in Peer : sent[q] \in Nat
    BY <1>1, NetworkAssumption
  <1>3. CASE ClientsRest
    BY <1>2, <1>3 DEF ClientsRest
  <1>4. CASE RecvData \/ (\E n \in 1..SndCap : SendSome(n)) \/ SendRest \/ SendRestClose
    <2>1. UNCHANGED <<mode, sent>>
      BY <1>4 DEF RecvData, SendSome, SendRest, SendRestClose, Disconnect, Modify, clients
    <2> QED
      BY <1>2, <2>1
  <1>5. ASSUME NEW q \in Peer, SendHalf(q) \/ SendInvalid(q) \/ Reset(q) \/ Read(q)
        PROVE  /\ sent[p] \in Nat /\ sent'[p] \in Nat /\ sent[p] <= sent'[p]
               /\ mode[p] = "rst" => mode'[p] = "rst"
    <2>1. sent' = sent \/ sent' = [sent EXCEPT ![q] = @ + 1] \/ sent' = [sent EXCEPT ![q] = @ + 2]
      BY <1>5 DEF SendHalf, SendInvalid, Reset, Read
    <2>2. mode' = mode \/ mode' = [mode EXCEPT ![q] = "rst"]
      BY <1>5 DEF SendHalf, SendInvalid, Reset, Read
    <2> QED
      BY <1>1, <1>2, <2>1, <2>2
  <1> QED
    BY <1>3, <1>4, <1>5, Movements

\* Whoever gets a response has asked for it, and has no answer yet.
LEMMA Unanswered ==
  ASSUME IInv, Talk, FInv, DrainAppend
  PROVE  LET r == Response IN
         /\ r \in Messages /\ r.fd \in DOMAIN connections /\ sock[r.fd] \in Peer
         /\ ~Answered(sock[r.fd], r.num)
         /\ 2 * r.num <= sent[sock[r.fd]]
  <1>1. DrainPop /\ Answers(Response)
    BY DEF DrainAppend
  <1>2. PICK r : r = Response
    OBVIOUS
  <1>3. /\ r \in Messages /\ r.fd \in DOMAIN connections
        /\ connections[r.fd].conn_id = r.conn_id /\ sock[r.fd] \in Peer
    BY <1>1, <1>2, TransitDrain DEF Answers, Has, IInv, TypeOK, SocketsTypeOK, Tables
  <1> DEFINE H == Tag(r.fd, r.conn_id, r.num)
  <1>4. r \in H /\ Weight(r, H) = 1
    BY <1>3 DEF Tag, Weight
  <1>5. InTransit(H) \in Nat /\ InTransit(H) >= 1
    <2> HIDE DEF H
    <2>1. InTransit(H) >= Weight(Response, H) /\ InTransit(H) \in Nat
      BY <1>1, TransitDrain, TransitTyped
    <2> QED
      BY <1>2, <1>4, <2>1
  <1>6. PICK d \in 0..MaxReq : Account(r.fd, d)
    BY <1>3 DEF FInv, Flow
  <1>7. Onward(r.fd, r.num) = InTransit(H) + Said(sock[r.fd], r.num)
    BY <1>3 DEF Onward
  <1>8. r.num \in 1..MaxReq /\ r.num \in Nat /\ d \in Nat
    BY <1>3, <1>6 DEF Messages
  <1>9. Said(sock[r.fd], r.num) \in {0, 1}
    BY DEF Said
  <1> HIDE DEF H
  <1>10. r.num <= d /\ Said(sock[r.fd], r.num) = 0
    BY <1>5, <1>6, <1>7, <1>8, <1>9 DEF Account
  <1>11. sent[sock[r.fd]] \in Nat /\ 2 * d <= sent[sock[r.fd]]
    <2>1. sent[sock[r.fd]] \in 0..(2 * MaxReq)
      BY <1>3 DEF IInv, TypeOK, ClientsTypeOK
    <2> QED
      BY <1>6, <2>1, NetworkAssumption DEF Account, Incoming
  <1>12. 2 * r.num <= sent[sock[r.fd]]
    BY <1>8, <1>10, <1>11
  <1>13. ~Answered(sock[r.fd], r.num)
    BY <1>10 DEF Said
  <1> QED
    BY <1>2, <1>3, <1>12, <1>13

LEMMA StreamsTyped == IInv /\ Sockets => \A p \in Peer : Stream(p) \in Seq(Units)
  BY StreamTyped

LEMMA StreamsWillBe == IInv' /\ Sockets' => (\A p \in Peer : Stream(p) \in Seq(Units))'
  BY StreamsTyped, PTL

\* A client that is just accepted has an empty stream.
LEMMA AcceptedEmpty ==
  ASSUME IInv, Talk, FInv, NEW fd \in Fd, Accept(fd)
  PROVE  \E p \in Peer : p = Head(backlog) /\ sock'[fd] = p /\ Stream(p)' = <<>>
  <1>0. PICK p : p = Head(backlog)
    OBVIOUS
  <1>1. /\ backlog # <<>> /\ fd \notin DOMAIN sock
        /\ sock' = Insert(sock, fd, p)
        /\ connections' = Insert(connections, fd,
             [conn_id |-> next_conn_id, input_buffer |-> <<>>, output_buffer |-> <<>>])
        /\ UNCHANGED <<got, sndq>>
    BY <1>0 DEF Accept
  <1>2. p \in Peer /\ link[p] = "queued"
    <2>1. backlog \in Seq(Peer)
      BY DEF IInv, TypeOK, SocketsTypeOK
    <2>2. 1 \in DOMAIN backlog /\ Head(backlog) = backlog[1] /\ backlog[1] \in Peer
      BY <1>1, <2>1
    <2> QED
      BY <1>0, <2>2 DEF FInv, Sockets
  <1>3. got[p] = <<>> /\ sndq[p] = <<>>
    BY <1>2 DEF FInv, Unserved
  <1>4. Outputs'
    <2>1. [Next]_vars
      BY DEF Next, IO, AcceptAgain, AcceptFails
    <2>2. IInv' /\ Sockets'
      BY <2>1, StepIInv, StepSockets DEF FInv
    <2> QED
      BY <2>2, UnsentWillBe DEF IInv
  <1>5. sock'[fd] = p /\ fd \in DOMAIN connections' /\ connections'[fd].output_buffer = <<>>
    BY <1>1 DEF Insert, IInv, Tables
  <1>6. Unsent(p)' = <<>>
    BY <1>2, <1>4, <1>5 DEF Outputs
  <1>7. Stream(p)' = <<>>
    BY <1>1, <1>3, <1>6 DEF Stream
  <1> QED
    BY <1>0, <1>2, <1>5, <1>7

LEMMA StepWhole == IInv /\ Talk /\ FInv /\ [Next]_vars => Whole'
  <1> SUFFICES ASSUME IInv, Talk, FInv, [Next]_vars PROVE Whole'
    OBVIOUS
  <1>1. IInv' /\ Sockets'
    BY StepIInv, StepSockets DEF FInv
  <1>2. \A p \in Peer : Stream(p) \in Seq(Units) /\ Stream(p)' \in Seq(Units)
    BY <1>1, StreamsTyped, StreamsWillBe DEF FInv
  <1>3. ASSUME NEW p \in Peer, NEW u, u = Stream(p)'
        PROVE  Intact(u, sent'[p]) /\ (Connected(p)' => EndsWhole(u))
    <2> DEFINE s == Stream(p)
    <2>1. s \in Seq(Units) /\ u \in Seq(Units) /\ Intact(s, sent[p])
          /\ (Connected(p) => EndsWhole(s))
      BY <1>2, <1>3 DEF FInv, Whole
    <2>2. /\ sent[p] \in Nat /\ sent'[p] \in Nat /\ sent[p] <= sent'[p]
          /\ mode[p] = "rst" => mode'[p] = "rst"
      BY Ratchet
    <2>3. \/ u = s
          \/ /\ \E t \in Seq(Units) : s = u \o t
             /\ mode'[p] = "rst" \/ \A fd \in DOMAIN connections' : sock'[fd] # p
          \/ /\ DrainAppend /\ p = sock[Response.fd] /\ mode[p] # "rst"
             /\ u = s \o Encoded(Response)
      BY <1>3, StreamStep DEF FInv
    <2>4. ASSUME NEW fd \in DOMAIN connections', sock'[fd] = p, mode'[p] # "rst"
          PROVE  Connected(p) \/ u = <<>>
      BY <1>3, <2>2, <2>4, Survival, AcceptedEmpty DEF Connected
    <2> HIDE DEF s
    <2>5. CASE u = s
      <3>1. Intact(u, sent'[p])
        <4>1. s = u \o <<>> /\ <<>> \in Seq(Units)
          BY <2>1, <2>5, ConcatEmptySeq
        <4> QED
          BY <2>1, <2>2, <4>1, IntactPrefix
      <3>2. Connected(p)' => EndsWhole(u)
        BY <2>1, <2>4, <2>5 DEF Connected, EndsWhole
      <3> QED
        BY <3>1, <3>2
    <2>6. CASE /\ \E t \in Seq(Units) : s = u \o t
               /\ mode'[p] = "rst" \/ \A fd \in DOMAIN connections' : sock'[fd] # p
      <3>1. Intact(u, sent'[p])
        BY <2>1, <2>2, <2>6, IntactPrefix
      <3> QED
        BY <2>6, <3>1 DEF Connected
    <2>7. CASE /\ DrainAppend /\ p = sock[Response.fd] /\ mode[p] # "rst"
               /\ u = s \o Encoded(Response)
      <3>1. PICK r : r = Response
        OBVIOUS
      <3>2. /\ r \in Messages /\ r.fd \in DOMAIN connections
            /\ ~Carries(s, r.num) /\ 2 * r.num <= sent[p]
        BY <2>7, <3>1, Unanswered DEF Answered, s
      <3>3. EndsWhole(s)
        BY <2>1, <2>7, <3>1, <3>2 DEF Connected
      <3>4. Intact(u, sent[p]) /\ EndsWhole(u)
        BY <2>1, <2>2, <2>7, <3>1, <3>2, <3>3, IntactExtend
      <3>5. Intact(u, sent'[p])
        <4>1. u = u \o <<>> /\ <<>> \in Seq(Units)
          BY <2>1, ConcatEmptySeq
        <4> QED
          BY <2>1, <2>2, <3>4, <4>1, IntactPrefix
      <3> QED
        BY <3>4, <3>5
    <2> QED
      BY <2>3, <2>5, <2>6, <2>7
  <1> QED
    BY <1>3 DEF Whole, Connected, Intact, Follows, EndsWhole

-----------------------------------------------------------------------------
(* The accounts through a step.                                             *)

\* The first unit received moves from the socket to the buffer; one that
\* arrives is put behind.
LEMMA Moved ==
  ASSUME NEW b \in Seq(Units), NEW q \in Seq(Units), q # <<>>
  PROVE  Append(b, Head(q)) \o Tail(q) = b \o q
  <1>1. Head(q) \in Units /\ Tail(q) \in Seq(Units) /\ <<Head(q)>> \in Seq(Units)
    BY HeadTailProperties
  <1>2. q = <<Head(q)>> \o Tail(q) /\ Append(b, Head(q)) = b \o <<Head(q)>>
    <2>1. \A t \in Seq(Units), h \in Units : <<h>> \o t \in Seq(Units)
      OBVIOUS
    <2> QED
      BY <1>1
  <1> QED
    BY <1>1, <1>2, Regroup

LEMMA Arrived ==
  ASSUME NEW b \in Seq(Units), NEW q \in Seq(Units), NEW u \in Units
  PROVE  b \o Append(q, u) = Append(b \o q, u)
  OBVIOUS

\* What happens to the input of a connection that stays, but for decode().
LEMMA InputStep ==
  ASSUME IInv, Talk, Sockets, [Next]_vars, ~DecodeEnqueue,
         NEW fd \in DOMAIN connections, fd \in DOMAIN connections', sock'[fd] = sock[fd],
         NEW p, p = sock[fd]
  PROVE  \/ Input(fd)' = Input(fd) /\ sent'[p] = sent[p]
         \/ /\ Input(fd)' = Append(Input(fd), Half(p, (sent[p] \div 2) + 1, (sent[p] % 2) + 1))
            /\ sent'[p] = sent[p] + 1
         \/ Input(fd)' = Append(Input(fd), Half(p, 0, 1)) /\ sent'[p] = sent[p] + 2
  <1>1. /\ sent \in [Peer -> 0..(2 * MaxReq)] /\ rcvq \in [Peer -> Seq(Units)] /\ p \in Peer
        /\ connections[fd].input_buffer \in Seq(Units)
        /\ \A x \in DOMAIN connections : connections[x] \in Connections
    BY DEF IInv, TypeOK, ClientsTypeOK, SocketsTypeOK, MemoryTypeOK, Connections, Tables
  <1>2. sent[p] \in Nat /\ rcvq[p] \in Seq(Units)
    BY <1>1, NetworkAssumption
  <1>3. ASSUME ~RecvData
        PROVE  connections'[fd].input_buffer = connections[fd].input_buffer
    <2>1. CASE Still
      BY <2>1 DEF Still
    <2>2. ASSUME NEW gd \in Fd, Accept(gd)
          PROVE  connections'[fd].input_buffer = connections[fd].input_buffer
      BY <2>2 DEF Accept, Insert, IInv, Tables
    <2>3. ASSUME NEW gd \in DOMAIN connections, NEW b,
                 connections' = [connections EXCEPT ![gd].output_buffer = b]
          PROVE  connections'[fd].input_buffer = connections[fd].input_buffer
      BY <1>1, <2>3 DEF Connections
    <2>4. CASE (\E n \in 1..SndCap : SendSome(n)) \/ SendRest
      BY <2>3, <2>4 DEF SendSome, SendRest, Transfer, Has
    <2>5. CASE DrainAppend
      BY <2>3, <2>5 DEF DrainAppend, Answers, Has
    <2> QED
      BY <1>3, <2>1, <2>2, <2>4, <2>5, Evolution
  <1>4. ASSUME ~RecvData, rcvq'[p] = rcvq[p] PROVE Input(fd)' = Input(fd)
    BY <1>3, <1>4 DEF Input
  <1>5. CASE ClientsRest /\ ~RecvData
    BY <1>4, <1>5 DEF ClientsRest
  <1>6. CASE ((\E n \in 1..SndCap : SendSome(n)) \/ SendRest \/ SendRestClose) /\ ~RecvData
    BY <1>4, <1>6 DEF SendSome, SendRest, SendRestClose, Disconnect, Modify, clients
  <1>7. ASSUME NEW q \in Peer, SendHalf(q) \/ SendInvalid(q) \/ Reset(q) \/ Read(q),
               UNCHANGED server, ~RecvData
        PROVE  \/ Input(fd)' = Input(fd) /\ sent'[p] = sent[p]
               \/ /\ Input(fd)' = Append(Input(fd), Half(p, (sent[p] \div 2) + 1, (sent[p] % 2) + 1))
                  /\ sent'[p] = sent[p] + 1
               \/ Input(fd)' = Append(Input(fd), Half(p, 0, 1)) /\ sent'[p] = sent[p] + 2
    <2>1. CASE rcvq'[p] = rcvq[p] /\ sent'[p] = sent[p]
      BY <1>4, <1>7, <2>1
    <2>2. ASSUME NEW u \in Units, rcvq'[p] = Append(rcvq[p], u)
          PROVE  Input(fd)' = Append(Input(fd), u)
      <3>1. connections[fd].input_buffer \o Append(rcvq[p], u) =
              Append(connections[fd].input_buffer \o rcvq[p], u)
        BY <1>1, <1>2, Arrived
      <3> QED
        BY <1>3, <1>7, <2>2, <3>1 DEF Input
    <2>3. CASE q = p /\ SendHalf(q)
      <3>1. Half(p, (sent[p] \div 2) + 1, (sent[p] % 2) + 1) \in Units
        <4>1. sent[p] < 2 * MaxReq
          BY <2>3 DEF SendHalf, Sending
        <4>2. (sent[p] \div 2) + 1 \in 0..MaxReq /\ (sent[p] % 2) + 1 \in Nat \ {0}
          BY <1>2, <4>1, NetworkAssumption
        <4> QED
          BY <1>1, <4>2 DEF Half, Units
      <3> QED
        BY <1>1, <2>2, <2>3, <3>1 DEF SendHalf
    <2>4. CASE q = p /\ SendInvalid(q)
      <3>1. Half(p, 0, 1) \in Units
        BY <1>1, NetworkAssumption DEF Half, Units
      <3> QED
        BY <1>1, <2>2, <2>4, <3>1 DEF SendInvalid
    <2>5. CASE q # p \/ Reset(q) \/ Read(q)
      BY <1>1, <1>7, <2>1, <2>5 DEF SendHalf, SendInvalid, Reset, Read
    <2> QED
      BY <1>7, <2>3, <2>4, <2>5
  <1>8. CASE RecvData
    <2>1. PICK q : q = sock[This]
      OBVIOUS
    <2>2. /\ This \in DOMAIN connections /\ rcvq[q] # <<>> /\ q \in Peer
          /\ connections' = [connections EXCEPT ![This].input_buffer =
                                 Append(connections[This].input_buffer, Head(rcvq[q]))]
          /\ rcvq' = [rcvq EXCEPT ![q] = Tail(rcvq[q])]
          /\ sent' = sent
      BY <1>8, <2>1, AtHand DEF RecvData, AtEvent, Has, clients, IInv, TypeOK, SocketsTypeOK, Tables
    <2>3. CASE fd # This
      <3>1. p # q
        BY <2>1, <2>2, <2>3 DEF Sockets, IInv, Tables
      <3>2. connections'[fd] = connections[fd] /\ rcvq'[p] = rcvq[p]
        BY <1>1, <2>2, <2>3, <3>1
      <3> QED
        BY <2>2, <3>2 DEF Input
    <2>4. CASE fd = This
      <3>1. p = q
        BY <2>1, <2>4
      <3>2. connections'[fd].input_buffer = Append(connections[fd].input_buffer, Head(rcvq[p]))
        BY <1>1, <2>2, <2>4, <3>1 DEF Connections
      <3>3. rcvq'[p] = Tail(rcvq[p])
        BY <1>1, <2>2, <3>1
      <3>4. connections[fd].input_buffer \in Seq(Units) /\ rcvq[p] \in Seq(Units) /\ rcvq[p] # <<>>
        BY <1>1, <1>2, <2>2, <3>1
      <3>5. Append(connections[fd].input_buffer, Head(rcvq[p])) \o Tail(rcvq[p])
              = connections[fd].input_buffer \o rcvq[p]
        BY <3>4, Moved
      <3>6. Input(fd)' = Input(fd)
        BY <3>2, <3>3, <3>5 DEF Input
      <3> QED
        BY <2>2, <3>6
    <2> QED
      BY <2>3, <2>4
  <1> QED
    BY <1>5, <1>6, <1>7, <1>8, Movements

\* Only drainResponseQueue() takes responses.
LEMMA Popping ==
  ASSUME IInv, [Next]_vars, DrainPop
  PROVE  \/ DrainStale \/ DrainOverflow \/ DrainAppend \/ DrainClose
         \/ \E w \in Worker : Work(w)
  <1>1. pc = "drain" /\ response_queue' # response_queue
    <2> DEFINE q == response_queue.items
    <2>1. q \in Seq(Messages) /\ q # <<>> /\ response_queue'.items = Tail(q)
      BY DEF DrainPop, CanPop, Pop, IInv, TypeOK, WorkTypeOK, Queue
    <2>2. Len(Tail(q)) # Len(q)
      BY <2>1
    <2> QED
      BY <2>1, <2>2 DEF DrainPop
  <1>2. ~(\/ Signal \/ DrainDone \/ Clients \/ UNCHANGED vars)
    BY <1>1 DEF Signal, DrainDone, Clients, vars, server, queues
  <1>3. ~(\/ Start \/ EpollWait \/ LoopExit
          \/ (\E fd \in Fd : Accept(fd)) \/ AcceptTurnAway \/ AcceptDone
          \/ RecvData \/ RecvClose \/ DecodeInvalid \/ DecodeEnqueue
          \/ WriteGone \/ (\E n \in 1..SndCap : SendSome(n)) \/ SendRest \/ SendAgain \/ SendFails \/ SendRestClose
          \/ StopListen \/ (\E fd \in Fd : StopClose(fd)) \/ StopRequests \/ StopResponses \/ Join)
    BY <1>1 DEF Start, EpollWait, LoopExit, Accept, AcceptTurnAway, AcceptDone, RecvData,
      RecvClose, DecodeInvalid, DecodeEnqueue, RecvAgain, WriteGone, SendSome, SendRest, Transfer,
      SendAgain, SendFails, SendRestClose, StopListen, StopClose, StopRequests, StopResponses, Join
  <1> QED
    BY <1>2, <1>3 DEF Next, IO, AcceptAgain, AcceptFails

\* The messages of a connection that stays, but for decode().
LEMMA TransitStep ==
  ASSUME IInv, FInv, [Next]_vars, ~DecodeEnqueue,
         NEW fd \in DOMAIN connections, fd \in DOMAIN connections',
         NEW n \in 1..MaxReq, NEW H, H = Tag(fd, connections[fd].conn_id, n)
  PROVE  \/ InTransit(H)' = InTransit(H)
         \/ InTransit(H)' = InTransit(H) - 1 /\ n \in Faulty
         \/ InTransit(H)' = InTransit(H) - 1 /\ DrainAppend /\ Response.fd = fd /\ Response.num = n
  <1>1. InTransit(H) \in Nat
    BY TransitTyped
  <1>2. \A m : Weight(m, H) = (IF m \in H THEN 1 ELSE 0)
    BY DEF Weight
  <1>3. \A m \in H : m.fd = fd /\ m.conn_id = connections[fd].conn_id /\ m.num = n
    BY DEF Tag
  <1>4. ASSUME NEW w \in Worker, Work(w)
        PROVE  \/ InTransit(H)' = InTransit(H)
               \/ InTransit(H)' = InTransit(H) - 1 /\ n \in Faulty
    <2>1. ~response_queue.stopped
      BY DEF FInv, Stops
    <2>2. \/ InTransit(H)' = InTransit(H)
          \/ busy[w].num \in Faulty /\ InTransit(H)' = InTransit(H) - Weight(busy[w], H)
      BY <1>4, <2>1, TransitWork
    <2> QED
      BY <1>1, <1>2, <1>3, <2>2
  <1>5. CASE DrainPop /\ Response \notin H
    BY <1>1, <1>2, <1>5, TransitDrain
  <1>6. CASE /\ DrainPop /\ Response \in H
             /\ DrainStale \/ DrainOverflow \/ DrainAppend \/ DrainClose
    <2>1. Response.fd = fd /\ Response.num = n /\ Answers(Response)
      BY <1>3, <1>6 DEF Answers, Has
    <2>2. InTransit(H)' = InTransit(H) - 1
      BY <1>1, <1>2, <1>6, TransitDrain
    <2>3. ~CloseConnection(fd)
      BY DEF CloseConnection, Disconnect, Restrict
    <2>4. DrainAppend
      BY <1>6, <2>1, <2>3 DEF DrainStale, DrainOverflow, DrainClose
    <2> QED
      BY <2>1, <2>2, <2>4
  <1>7. CASE ~DrainPop /\ ~(\E w \in Worker : Work(w))
    BY <1>7, TransitElse
  <1> QED
    BY <1>4, <1>5, <1>6, <1>7, Popping

LEMMA TransitCounts == IInv => \A H : InTransit(H) \in Nat
  BY TransitTyped

LEMMA TransitWillCount == IInv' => (\A H : InTransit(H) \in Nat)'
  BY TransitCounts, PTL

\* A request that was decoded stays in one place, or goes for one of two reasons.
LEMMA OnwardStep ==
  ASSUME IInv, Talk, FInv, [Next]_vars, ~DecodeEnqueue,
         NEW fd \in DOMAIN connections, fd \in DOMAIN connections',
         connections'[fd].conn_id = connections[fd].conn_id, sock'[fd] = sock[fd],
         NEW n \in 1..MaxReq, Onward(fd, n) \in {0, 1}
  PROVE  \/ Onward(fd, n)' = Onward(fd, n)
         \/ Onward(fd, n)' = 0 /\ Excused(fd, n)'
  <1>1. PICK c : c = connections[fd].conn_id
    OBVIOUS
  <1>2. PICK p \in Peer : p = sock[fd]
    BY DEF IInv, TypeOK, SocketsTypeOK, Tables
  <1>3. PICK K : K = Tag(fd, c, n)
    OBVIOUS
  <1>4. /\ Onward(fd, n) = InTransit(K) + Said(p, n)
        /\ Onward(fd, n)' = InTransit(K)' + Said(p, n)'
        /\ Excused(fd, n)' <=> mode'[p] = "rst" \/ n \in Faulty
    BY <1>1, <1>2, <1>3 DEF Onward, Excused
  <1>5. /\ InTransit(K) \in Nat /\ InTransit(K)' \in Nat
        /\ Said(p, n) \in {0, 1} /\ Said(p, n)' \in {0, 1}
    <2>1. IInv'
      BY StepIInv
    <2> QED
      BY <2>1, TransitCounts, TransitWillCount DEF Said
  <1>6. /\ \/ InTransit(K)' = InTransit(K)
           \/ InTransit(K)' = InTransit(K) - 1 /\ n \in Faulty
           \/ InTransit(K)' = InTransit(K) - 1 /\ DrainAppend /\ Response.fd = fd /\ Response.num = n
    BY <1>1, <1>3, TransitStep
  <1>7. /\ Stream(p) \in Seq(Units) /\ Stream(p)' \in Seq(Units)
        /\ mode[p] = "rst" => mode'[p] = "rst"
    <2>1. IInv' /\ Sockets'
      BY StepIInv, StepSockets DEF FInv
    <2> QED
      BY <2>1, StreamsTyped, StreamsWillBe, Ratchet DEF FInv
  <1>8. \/ Stream(p)' = Stream(p)
        \/ mode'[p] = "rst" /\ \E t \in Seq(Units) : Stream(p) = Stream(p)' \o t
        \/ /\ DrainAppend /\ p = sock[Response.fd] /\ mode[p] # "rst"
           /\ Stream(p)' = Stream(p) \o Encoded(Response)
    BY <1>2, StreamStep DEF FInv
  <1>9. CASE mode'[p] = "rst"
    <2>1. ~(DrainAppend /\ mode[p] # "rst")
      BY <1>9 DEF DrainAppend, Modify, clients
    <2>2. Answered(p, n)' => Answered(p, n)
      BY <1>7, <1>8, <2>1, CarriesConcat DEF Answered
    <2>3. Said(p, n)' <= Said(p, n)
      BY <2>2 DEF Said
    <2> QED
      BY <1>4, <1>5, <1>6, <1>9, <2>3
  <1>10. CASE mode'[p] # "rst" /\ DrainAppend /\ Response.fd = fd
    <2>1. PICK r : r = Response
      OBVIOUS
    <2>2. /\ r \in Messages /\ r.fd = fd /\ r.conn_id = c
          /\ ~Answered(p, r.num)
      BY <1>1, <1>2, <1>10, <2>1, Unanswered DEF DrainAppend, Answers
    <2>3. Stream(p)' = Stream(p) \o Encoded(r)
      BY <1>2, <1>7, <1>10, <2>1, AppendStream DEF FInv
    <2>4. Answered(p, n)' <=> Answered(p, n) \/ n = r.num
      <3>1. Encoded(r) \in Seq(Units)
        BY <2>2, EncodedTyped
      <3> QED
        BY <1>7, <2>2, <2>3, <3>1, CarriesConcat, EncodedCarries DEF Answered
    <2>5. InTransit(K)' = InTransit(K) - Weight(r, K)
      BY <1>10, <2>1, TransitDrain DEF DrainAppend
    <2>6. r \in K <=> n = r.num
      BY <1>3, <2>2 DEF Tag
    <2>7. CASE n = r.num
      BY <1>4, <1>5, <2>2, <2>4, <2>5, <2>6, <2>7 DEF Weight, Said
    <2>8. CASE n # r.num
      BY <1>4, <1>5, <2>4, <2>5, <2>6, <2>8 DEF Weight, Said
    <2> QED
      BY <2>7, <2>8
  <1>11. CASE mode'[p] # "rst" /\ ~(DrainAppend /\ Response.fd = fd)
    <2>1. DrainAppend => p # sock[Response.fd]
      BY <1>2, <1>11 DEF DrainAppend, Answers, Has, FInv, Sockets, IInv, Tables
    <2>2. Said(p, n)' = Said(p, n)
      BY <1>8, <1>11, <2>1 DEF Said, Answered
    <2> QED
      BY <1>4, <1>5, <1>6, <1>11, <2>2
  <1> QED
    BY <1>9, <1>10, <1>11

LEMMA CountSome ==
  ASSUME NEW s, NEW H, NEW i \in DOMAIN s, s[i] \in H, \A j \in DOMAIN s : s[j] \in H => j = i
  PROVE  Count(s, H) = 1
  <1>1. Hits(s, H) = {i}
    BY DEF Hits
  <1> QED
    BY <1>1, FS_Singleton DEF Count

LEMMA CountNone ==
  ASSUME NEW s, NEW H, \A j \in DOMAIN s : s[j] \notin H
  PROVE  Count(s, H) = 0
  <1>1. Hits(s, H) = {}
    BY DEF Hits
  <1> QED
    BY <1>1, FS_EmptySet DEF Count

\* decode() changes nobody's stream.
LEMMA DecodeStream ==
  ASSUME IInv, Talk, Sockets, DecodeEnqueue, NEW p \in Peer
  PROVE  Stream(p)' = Stream(p)
  <1>1. Outputs /\ Outputs'
    <2>1. [Next]_vars
      BY DEF Next, IO, AcceptAgain, AcceptFails
    <2>2. IInv' /\ Sockets'
      BY <2>1, StepIInv, StepSockets
    <2> QED
      BY <2>2, UnsentIs, UnsentWillBe DEF IInv
  <1>2. /\ UNCHANGED <<got, sndq, mode, sock>>
        /\ DOMAIN connections' = DOMAIN connections
        /\ \A x \in DOMAIN connections :
             connections'[x].output_buffer = connections[x].output_buffer
    <2>1. \A x \in DOMAIN connections : connections[x] \in Connections
      BY DEF IInv, TypeOK, MemoryTypeOK
    <2> QED
      BY <2>1 DEF DecodeEnqueue, network, clients, Connections
  <1>3. Unsent(p)' = Unsent(p)
    <2>1. CASE \E x \in DOMAIN connections : sock[x] = p
      BY <1>1, <1>2, <2>1 DEF Outputs
    <2>2. CASE \A x \in DOMAIN connections : sock[x] # p
      BY <1>1, <1>2, <2>2 DEF Outputs
    <2> QED
      BY <2>1, <2>2
  <1> QED
    BY <1>2, <1>3 DEF Stream

\* What decode() adds to the messages of request n of a connection.
LEMMA DecodedCount ==
  ASSUME IInv, DecodeEnqueue, NEW fd \in DOMAIN connections, NEW d \in Nat,
         fd = This => Incoming(connections[fd].input_buffer, sent[sock[fd]], d),
         NEW n \in 1..MaxReq, NEW H, H = Tag(fd, connections[fd].conn_id, n)
  PROVE  LET in == connections[This].input_buffer IN
         Count(Decoded(This, in), H) =
           IF fd = This /\ d < n /\ n <= d + (Len(in) \div 2) THEN 1 ELSE 0
  <1>1. PICK in : in = connections[This].input_buffer
    OBVIOUS
  <1>2. PICK D : D = Decoded(This, in)
    OBVIOUS
  <1>3. /\ This \in DOMAIN connections /\ ~Invalid(in) /\ in \in Seq(Units)
        /\ D \in Seq(Messages)
    BY <1>1, <1>2, AtHand, DecodedTyped DEF DecodeEnqueue, RecvAgain, AtEvent, Has, IInv, TypeOK,
      MemoryTypeOK, Connections
  <1>4. /\ DOMAIN D = 1..(Len(in) \div 2)
        /\ \A i \in DOMAIN D : /\ D[i] \in Messages /\ D[i].fd = This
                               /\ D[i].conn_id = connections[This].conn_id
                               /\ D[i].num = in[2 * i].num
    BY <1>2, <1>3 DEF Decoded
  <1>5. n \in Nat
    OBVIOUS
  <1>6. CASE fd # This
    BY <1>1, <1>2, <1>4, <1>6, CountNone DEF Tag
  <1>7. CASE fd = This
    <2>1. /\ Len(in) \div 2 \in Nat
          /\ \A i \in DOMAIN D : i \in Nat /\ (D[i] \in H <=> d + i = n)
      <3>1. sent[sock[fd]] \in Nat
        BY NetworkAssumption DEF IInv, TypeOK, ClientsTypeOK, SocketsTypeOK, Tables
      <3>2. /\ Len(in) \div 2 \in Nat
            /\ \A i \in DOMAIN D : i \in Nat /\ D[i].num = d + i
        <4>1. PICK k \in Nat : Incoming(in, k, d)
          BY <1>1, <1>7, <3>1
        <4>2. /\ Len(in) \div 2 \in Nat
              /\ \A i \in 1..(Len(in) \div 2) : in[2 * i].num = d + i
          BY <1>3, <4>1, IncomingDecode
        <4>3. \A i \in 1..(Len(in) \div 2) : i \in Nat
          BY <4>2
        <4> QED
          BY <1>4, <4>2, <4>3
      <3> QED
        BY <1>4, <1>7, <3>2 DEF Tag
    <2>2. CASE d < n /\ n <= d + (Len(in) \div 2)
      <3>1. PICK i : i = n - d
        OBVIOUS
      <3>2. i \in DOMAIN D /\ D[i] \in H /\ \A j \in DOMAIN D : D[j] \in H => j = i
        BY <1>4, <1>5, <2>1, <2>2, <3>1
      <3> QED
        BY <1>1, <1>2, <1>7, <2>2, <3>2, CountSome
    <2>3. CASE ~(d < n /\ n <= d + (Len(in) \div 2))
      <3>1. \A i \in DOMAIN D : D[i] \notin H
        BY <1>4, <1>5, <2>1, <2>3
      <3> QED
        BY <1>1, <1>2, <2>3, <3>1, CountNone
    <2> QED
      BY <2>2, <2>3
  <1> QED
    BY <1>6, <1>7

\* decode() gives each request it takes off the input its place in the queue.
LEMMA DecodeFlow ==
  ASSUME IInv, Talk, FInv, DecodeEnqueue, NEW fd \in DOMAIN connections,
         NEW d \in 0..MaxReq, Account(fd, d)
  PROVE  \E e \in 0..MaxReq : Account(fd, e)'
  <1>1. PICK c, p, in, k : /\ c = connections[fd].conn_id /\ p = sock[fd]
                           /\ in = connections[This].input_buffer /\ k = sent[p]
    OBVIOUS
  <1>2. /\ This \in DOMAIN connections /\ ~Invalid(in) /\ in \in Seq(Units)
        /\ p \in Peer /\ k \in 0..(2 * MaxReq) /\ k \in Nat /\ d \in Nat
        /\ connections[This] \in Connections
        /\ connections[fd].input_buffer \in Seq(Units)
        /\ rcvq[p] \in Seq(Units) /\ rcvq[sock[This]] = <<>>
    <2>1. This \in DOMAIN connections /\ ~Invalid(in) /\ rcvq[sock[This]] = <<>>
      BY <1>1, AtHand DEF DecodeEnqueue, RecvAgain, AtEvent, Has, Readable
    <2>2. \A x \in DOMAIN connections : /\ connections[x] \in Connections
                                        /\ connections[x].input_buffer \in Seq(Units)
                                        /\ sock[x] \in Peer
      BY DEF IInv, TypeOK, MemoryTypeOK, SocketsTypeOK, Tables, Connections
    <2>3. rcvq \in [Peer -> Seq(Units)] /\ sent \in [Peer -> 0..(2 * MaxReq)]
      BY DEF IInv, TypeOK, ClientsTypeOK, SocketsTypeOK
    <2> QED
      BY <1>1, <2>1, <2>2, <2>3, NetworkAssumption
  <1>3. /\ connections' = [connections EXCEPT ![This].input_buffer = Rest(in)]
        /\ UNCHANGED <<sent, rcvq, sock, mode>>
    BY <1>1 DEF DecodeEnqueue, network, clients
  <1>4. connections'[fd].conn_id = c /\ sock'[fd] = p /\ sent'[p] = k
    BY <1>1, <1>2, <1>3 DEF Connections
  <1>5. PICK e \in 0..MaxReq :
          /\ Incoming(Input(fd)', k, e)
          /\ e = d + (IF fd = This THEN Len(in) \div 2 ELSE 0)
          /\ fd = This => Incoming(in, k, d) /\ Len(in) \div 2 \in Nat
    <2>1. CASE fd # This
      <3>1. Input(fd)' = Input(fd)
        BY <1>1, <1>2, <1>3, <2>1 DEF Input
      <3>2. Incoming(Input(fd)', k, d)
        BY <1>1, <3>1 DEF Account
      <3>3. d = d + 0
        BY <1>2
      <3> QED
        BY <2>1, <3>2, <3>3
    <2>2. CASE fd = This
      <3>1. Input(fd) = in
        <4>1. in \o <<>> = in
          BY <1>2, ConcatEmptySeq
        <4> QED
          BY <1>1, <1>2, <2>2, <4>1 DEF Input
      <3>2. Input(fd)' = Rest(in)
        <4>1. Rest(in) \in Seq(Units)
          <5>1. [Next]_vars
            BY DEF Next, IO, AcceptAgain, AcceptFails
          <5>2. connections'[fd].input_buffer \in Seq(Units)
            BY <1>2, <1>3, <2>2, <5>1, StepIInv DEF IInv, TypeOK, MemoryTypeOK, Connections
          <5> QED
            BY <1>2, <1>3, <2>2, <5>2 DEF Connections
        <4>2. Rest(in) \o <<>> = Rest(in)
          BY <4>1, ConcatEmptySeq
        <4>3. connections'[fd].input_buffer = Rest(in) /\ rcvq'[sock'[fd]] = <<>>
          BY <1>1, <1>2, <1>3, <2>2 DEF Connections
        <4> QED
          BY <4>2, <4>3 DEF Input
      <3>3. Incoming(in, k, d)
        BY <1>1, <3>1 DEF Account
      <3>4. Len(in) \div 2 \in Nat /\ Incoming(Rest(in), k, d + (Len(in) \div 2))
        BY <1>2, <3>3, IncomingDecode
      <3>5. d + (Len(in) \div 2) \in 0..MaxReq
        <4>1. 2 * (d + (Len(in) \div 2)) <= k
          BY <3>4 DEF Incoming
        <4> QED
          BY <1>2, <3>4, <4>1, NetworkAssumption
      <3> QED
        BY <2>2, <3>2, <3>3, <3>4, <3>5
    <2> QED
      BY <2>1, <2>2
  <1>6. ASSUME NEW n \in 1..MaxReq
        PROVE  /\ Onward(fd, n)' = Onward(fd, n) + (IF d < n /\ n <= e THEN 1 ELSE 0)
               /\ Excused(fd, n)' <=> Excused(fd, n)
    <2>1. PICK K : K = Tag(fd, c, n)
      OBVIOUS
    <2>2. /\ Onward(fd, n) = InTransit(K) + Said(p, n)
          /\ Onward(fd, n)' = InTransit(K)' + Said(p, n)'
      BY <1>1, <1>4, <2>1 DEF Onward
    <2>3. Said(p, n)' = Said(p, n) /\ Said(p, n) \in Nat /\ InTransit(K) \in Nat
      BY <1>2, DecodeStream, TransitTyped DEF FInv, Said, Answered
    <2>4. InTransit(K)' = InTransit(K) + Count(Decoded(This, in), K)
      BY <1>1, TransitDecode DEF FInv, Stops
    <2>5. Count(Decoded(This, in), K) = IF d < n /\ n <= e THEN 1 ELSE 0
      <3>1. Count(Decoded(This, in), K) =
              IF fd = This /\ d < n /\ n <= d + (Len(in) \div 2) THEN 1 ELSE 0
        BY <1>1, <1>2, <1>5, <2>1, DecodedCount
      <3>2. n \in Nat
        OBVIOUS
      <3> QED
        BY <1>2, <1>5, <3>1, <3>2
    <2> QED
      BY <1>1, <1>3, <2>2, <2>3, <2>4, <2>5 DEF Excused
  <1>7. \A n \in 1..MaxReq : n \in Nat
    OBVIOUS
  <1>8. d <= e
    BY <1>2, <1>5
  <1>9. ASSUME NEW n \in 1..MaxReq
        PROVE  /\ n > e => Onward(fd, n)' = 0
               /\ n <= e => Onward(fd, n)' = 1 \/ (Onward(fd, n)' = 0 /\ Excused(fd, n)')
    <2>1. /\ n > d => Onward(fd, n) = 0
          /\ n <= d => Onward(fd, n) = 1 \/ (Onward(fd, n) = 0 /\ Excused(fd, n))
      BY DEF Account
    <2> QED
      BY <1>2, <1>6, <1>7, <1>8, <2>1
  <1>10. (Input(fd)' = Input(fd)') /\ sent'[sock'[fd]] = k
    BY <1>4
  <1>11. Incoming(Input(fd), sent[sock[fd]], e)'
    BY <1>5, <1>10 DEF Incoming, Invalid
  <1> QED
    BY <1>9, <1>11 DEF Account


\* All that an accepted client has sent is still in its socket.
LEMMA AcceptFlow ==
  ASSUME IInv, Talk, FInv, NEW fd \in Fd, Accept(fd)
  PROVE  Account(fd, 0)'
  <1>1. PICK p \in Peer : p = Head(backlog) /\ sock'[fd] = p /\ Stream(p)' = <<>>
    BY AcceptedEmpty
  <1>2. PICK c : c = next_conn_id
    OBVIOUS
  <1>3. /\ connections'[fd].conn_id = c /\ connections'[fd].input_buffer = <<>>
        /\ UNCHANGED <<queues, workers, sent, rcvq>>
    BY <1>2 DEF Accept, Insert, IInv, Tables
  <1>4. rcvq[p] \in Seq(Units) /\ Incoming(rcvq[p], sent[p], 0)
    <2>1. backlog \in Seq(Peer) /\ backlog # <<>> /\ rcvq \in [Peer -> Seq(Units)]
      BY DEF Accept, IInv, TypeOK, SocketsTypeOK
    <2>2. 1 \in DOMAIN backlog /\ p = backlog[1]
      BY <1>1, <2>1
    <2> QED
      BY <2>1, <2>2 DEF FInv, Sockets, Unserved
  <1>5. Input(fd)' = rcvq[p]
    <2>1. <<>> \o rcvq[p] = rcvq[p]
      BY <1>4, ConcatEmptySeq
    <2> QED
      BY <1>1, <1>3, <2>1 DEF Input
  <1>6. Incoming(Input(fd), sent[sock[fd]], 0)'
    BY <1>1, <1>3, <1>4, <1>5 DEF Incoming, Invalid
  <1>7. ASSUME NEW n \in 1..MaxReq PROVE Onward(fd, n)' = 0
    <2>1. PICK K : K = Tag(fd, c, n)
      OBVIOUS
    <2>2. Onward(fd, n)' = InTransit(K)' + Said(p, n)'
      BY <1>1, <1>3, <2>1 DEF Onward
    <2>3. Said(p, n)' = 0
      BY <1>1 DEF Said, Answered, Carries
    <2>4. \A m \in InFlight : m \notin K
      <3>1. c \in Nat /\ \A m \in InFlight : m.conn_id < c
        BY <1>2 DEF Talk, Tagged, IInv, TypeOK, MemoryTypeOK
      <3>2. \A m \in K : m.conn_id = c
        BY <2>1 DEF Tag
      <3> QED
        BY <3>1, <3>2
    <2>5. /\ \A j \in DOMAIN request_queue.items : request_queue.items[j] \notin K
          /\ \A j \in DOMAIN busy : busy[j] \notin K
          /\ \A j \in DOMAIN response_queue.items : response_queue.items[j] \notin K
      BY <2>4 DEF InFlight, Range
    <2>6. InTransit(K)' = 0
      BY <1>3, <2>5, CountNone DEF InTransit, queues, workers
    <2> QED
      BY <2>2, <2>3, <2>6
  <1>8. \A n \in 1..MaxReq : ~(n <= 0)
    OBVIOUS
  <1> QED
    BY <1>6, <1>7, <1>8 DEF Account

\* Every step keeps the account of a connection that was there before.
LEMMA AccountStep ==
  ASSUME IInv, Talk, FInv, [Next]_vars,
         NEW fd \in DOMAIN connections, fd \in DOMAIN connections',
         connections'[fd].conn_id = connections[fd].conn_id, sock'[fd] = sock[fd]
  PROVE  \E d \in 0..MaxReq : Account(fd, d)'
  <1>1. PICK d \in 0..MaxReq : Account(fd, d)
    BY DEF FInv, Flow
  <1>2. CASE DecodeEnqueue
    BY <1>1, <1>2, DecodeFlow
  <1>3. CASE ~DecodeEnqueue
    <2>1. PICK p, in, k : p = sock[fd] /\ in = Input(fd) /\ k = sent[p]
      OBVIOUS
    <2>2. p \in Peer /\ in \in Seq(Units) /\ k \in Nat /\ d \in Nat /\ Incoming(in, k, d)
      <3>1. p \in Peer /\ connections[fd].input_buffer \in Seq(Units)
        BY <2>1 DEF IInv, TypeOK, MemoryTypeOK, SocketsTypeOK, Tables, Connections
      <3>2. rcvq[p] \in Seq(Units) /\ k \in Nat
        BY <2>1, <3>1, NetworkAssumption DEF IInv, TypeOK, ClientsTypeOK, SocketsTypeOK
      <3> QED
        BY <1>1, <2>1, <3>1, <3>2, ConcatProperties DEF Input, Account
    <2>3. \/ Input(fd)' = in /\ sent'[p] = k
          \/ /\ Input(fd)' = Append(in, Half(p, (k \div 2) + 1, (k % 2) + 1))
             /\ sent'[p] = k + 1
          \/ Input(fd)' = Append(in, Half(p, 0, 1)) /\ sent'[p] = k + 2
      BY <1>3, <2>1, InputStep DEF FInv
    <2>4. Incoming(Input(fd)', sent'[p], d)
      BY <2>2, <2>3, IncomingHalf, IncomingInvalid
    <2>5. Incoming(Input(fd), sent[sock[fd]], d)'
      BY <2>1, <2>4 DEF Incoming, Invalid
    <2>6. ASSUME NEW n \in 1..MaxReq
          PROVE  /\ n > d => Onward(fd, n)' = 0
                 /\ n <= d => Onward(fd, n)' = 1 \/ (Onward(fd, n)' = 0 /\ Excused(fd, n)')
      <3>1. /\ n > d => Onward(fd, n) = 0
            /\ n <= d => Onward(fd, n) = 1 \/ (Onward(fd, n) = 0 /\ Excused(fd, n))
        BY <1>1 DEF Account
      <3>2. n \in Nat /\ d \in Nat
        BY <2>2
      <3>3. Onward(fd, n) \in {0, 1}
        BY <3>1, <3>2
      <3>4. \/ Onward(fd, n)' = Onward(fd, n)
            \/ Onward(fd, n)' = 0 /\ Excused(fd, n)'
        BY <1>3, <3>3, OnwardStep
      <3>5. Excused(fd, n) => Excused(fd, n)'
        BY <2>1, <2>2, Ratchet DEF Excused
      <3> QED
        BY <3>1, <3>2, <3>4, <3>5
    <2> QED
      BY <2>5, <2>6 DEF Account
  <1> QED
    BY <1>2, <1>3

LEMMA StepFlow == IInv /\ Talk /\ FInv /\ [Next]_vars => Flow'
  <1> SUFFICES ASSUME IInv, Talk, FInv, [Next]_vars, NEW fd \in DOMAIN connections'
               PROVE  \E d \in 0..MaxReq : Account(fd, d)'
    BY DEF Flow
  <1>1. 0 \in 0..MaxReq
    BY NetworkAssumption
  <1> QED
    BY <1>1, Survival, AcceptFlow, AccountStep

LEMMA InitFInv == Init => FInv
  <1> SUFFICES ASSUME Init PROVE FInv
    OBVIOUS
  <1>1. Sockets /\ Stops
    BY DEF Init, NetworkInit, Sockets, Stops, Stopping, EmptyQueue
  <1>2. Unserved
    BY NetworkAssumption DEF Init, NetworkInit, Unserved, Incoming, Invalid
  <1>3. Flow
    BY DEF Init, NetworkInit, Flow
  <1>4. ASSUME NEW p \in Peer PROVE Stream(p) = <<>>
    BY DEF Init, NetworkInit, Stream, Unsent
  <1>5. Whole
    BY <1>4 DEF Whole, Intact, Connected, EndsWhole, Follows
  <1> QED
    BY <1>1, <1>2, <1>3, <1>5 DEF FInv

LEMMA StepFInv == IInv /\ Talk /\ FInv /\ [Next]_vars => FInv'
  BY StepSockets, StepUnserved, StepStops, StepFlow, StepWhole DEF FInv

LEMMA FlowInvariance == Spec => [](IInv /\ Talk /\ FInv)
  <1>1. Init => IInv /\ Talk /\ FInv
    BY InitIInv, InitTalk, InitFInv
  <1>2. IInv /\ Talk /\ FInv /\ [Next]_vars => (IInv /\ Talk /\ FInv)'
    BY StepIInv, StepTalk, StepFInv
  <1> QED
    BY <1>1, <1>2, PTL DEF Spec


\* StreamIntact: what the server makes for a client is a sequence of whole
\* responses to requests it sent, none of them twice, through partial sends, full
\* buffers and reused descriptors.
THEOREM WholeStreams == Spec => []StreamIntact
  <1>1. Whole => StreamIntact
    BY DEF Whole, StreamIntact, Intact, Follows
  <1> QED
    BY <1>1, FlowInvariance, PTL DEF FInv

\* A request in the input was not decoded; one that was sent and not decoded is
\* in the input, or there is an invalid frame.
LEMMA WhatIsIncoming ==
  ASSUME NEW in \in Seq(Units), NEW k \in Nat, NEW d \in Nat, Incoming(in, k, d),
         NEW n \in Nat \ {0}
  PROVE  /\ Carries(in, n) => n > d
         /\ n > d /\ ~Carries(in, n) => Carries(in, 0) \/ k < 2 * n - 1
  <1>1. Len(in) \in Nat /\ DOMAIN in = 1..Len(in)
    OBVIOUS
  <1>2. CASE Invalid(in)
    BY <1>2 DEF Incoming, Invalid, Carries
  <1>3. CASE ~Invalid(in)
    <2>1. /\ k = 2 * d + Len(in)
          /\ \A i \in DOMAIN in : in[i].num = d + ((i + 1) \div 2)
      BY <1>3 DEF Incoming
    <2>2. \A i \in Nat \ {0} : d + ((i + 1) \div 2) > d
      OBVIOUS
    <2>3. Carries(in, n) => n > d
      BY <1>1, <2>1, <2>2 DEF Carries
    <2>4. ASSUME n > d, ~(k < 2 * n - 1) PROVE Carries(in, n)
      <3>1. PICK i : i = 2 * (n - d) - 1
        OBVIOUS
      <3>2. i \in DOMAIN in /\ d + ((i + 1) \div 2) = n
        BY <1>1, <2>1, <2>4, <3>1
      <3> QED
        BY <2>1, <3>2 DEF Carries
    <2> QED
      BY <2>3, <2>4
  <1> QED
    BY <1>2, <1>3

\* NothingLost: while its connection lives, every request is in exactly one place
\* between the client's socket and the response, unless its dispatch() throws or
\* the client reset the connection; none is worked on twice.
THEOREM NoRequestLost == Spec => []NothingLost
  <1>1. ASSUME IInv, FInv, NEW fd \in DOMAIN connections, NEW n \in 1..MaxReq
        PROVE  \/ Places(fd, n) = 1
               \/ Places(fd, n) = 0 /\ \/ sent[sock[fd]] < 2 * n - 1
                                       \/ mode[sock[fd]] = "rst"
                                       \/ Received(fd, 0)
                                       \/ n \in Faulty
    <2>1. PICK p, in, k, c : /\ p = sock[fd] /\ in = Input(fd) /\ k = sent[p]
                             /\ c = connections[fd].conn_id
      OBVIOUS
    <2>2. PICK d \in 0..MaxReq : Account(fd, d)
      BY <1>1 DEF FInv, Flow
    <2>3. p \in Peer /\ in \in Seq(Units) /\ k \in Nat /\ d \in Nat /\ Incoming(in, k, d)
      <3>1. p \in Peer /\ connections[fd].input_buffer \in Seq(Units)
        BY <1>1, <2>1 DEF IInv, TypeOK, MemoryTypeOK, SocketsTypeOK, Tables, Connections
      <3>2. rcvq[p] \in Seq(Units) /\ k \in Nat
        BY <1>1, <2>1, <3>1, NetworkAssumption DEF IInv, TypeOK, ClientsTypeOK, SocketsTypeOK
      <3> QED
        BY <2>1, <2>2, <3>1, <3>2, ConcatProperties DEF Input, Account
    <2>4. PICK K : K = Tag(fd, c, n)
      OBVIOUS
    <2>5. Places(fd, n) = Onward(fd, n) + (IF Carries(in, n) THEN 1 ELSE 0)
      <3>1. ASSUME NEW s, \A i \in DOMAIN s : s[i] \in Messages
            PROVE  Cardinality(Carried(s, fd, n)) = Count(s, K)
        <4>1. Carried(s, fd, n) = Hits(s, K)
          BY <2>1, <2>4, <3>1 DEF Carried, Hits, Tag
        <4> QED
          BY <4>1 DEF Count
      <3>2. /\ Cardinality(Carried(request_queue.items, fd, n)) = Count(request_queue.items, K)
            /\ Cardinality(Carried(busy, fd, n)) = Count(busy, K)
            /\ Cardinality(Carried(response_queue.items, fd, n)) = Count(response_queue.items, K)
        BY <1>1, <3>1 DEF IInv, TypeOK, WorkTypeOK, Queue
      <3>3. /\ Count(request_queue.items, K) \in Nat /\ Count(busy, K) \in Nat
            /\ Count(response_queue.items, K) \in Nat
        BY <1>1, TransitTyped
      <3>4. Onward(fd, n) = (Count(request_queue.items, K) + Count(busy, K)
                             + Count(response_queue.items, K)) + Said(p, n)
        BY <2>1, <2>4 DEF Onward, InTransit
      <3>5. Received(fd, n) <=> Carries(in, n)
        BY <2>1 DEF Received, Input
      <3> QED
        BY <2>1, <3>2, <3>3, <3>4, <3>5 DEF Places, Said
    <2>6. Received(fd, 0) <=> Carries(in, 0)
      BY <2>1 DEF Received, Input
    <2>7. /\ n > d => Onward(fd, n) = 0
          /\ n <= d => Onward(fd, n) = 1 \/ (Onward(fd, n) = 0 /\ Excused(fd, n))
      BY <2>2 DEF Account
    <2>8. n \in Nat \ {0}
      OBVIOUS
    <2>9. CASE n <= d
      <3>1. ~Carries(in, n)
        BY <2>3, <2>8, <2>9, WhatIsIncoming
      <3> QED
        BY <2>1, <2>5, <2>7, <2>9, <3>1 DEF Excused
    <2>10. CASE n > d
      BY <2>1, <2>3, <2>5, <2>6, <2>7, <2>8, <2>10, WhatIsIncoming
    <2> QED
      BY <2>3, <2>8, <2>9, <2>10
  <1>2. IInv /\ FInv => NothingLost
    BY <1>1 DEF NothingLost
  <1> QED
    BY <1>2, FlowInvariance, PTL

-----------------------------------------------------------------------------
(* The service of each client.                                              *)

\* A connection that is open has a descriptor.
Owned == \A p \in Peer : link[p] = "open" => FdsOf(p) # {}

LEMMA StepOwned == IInv /\ Sockets /\ Owned /\ [Next]_vars => Owned'
  <1> SUFFICES ASSUME IInv, Sockets, Owned, [Next]_vars PROVE Owned'
    OBVIOUS
  <1> USE DEF FdsOf, Owned
  <1>1. /\ link \in [Peer -> {"new", "queued", "open", "closed"}]
        /\ backlog \in Seq(Peer) /\ sock \in [DOMAIN sock -> Peer]
        /\ DOMAIN sock = DOMAIN connections
    BY DEF IInv, TypeOK, ClientsTypeOK, SocketsTypeOK, Tables
  <1>2. ASSUME UNCHANGED sock, \A p \in Peer : link'[p] = "open" => link[p] = "open" PROVE Owned'
    BY <1>2
  <1>3. ASSUME NEW fd \in DOMAIN connections, Disconnect(fd) PROVE Owned'
    <2>1. /\ link' = [link EXCEPT ![sock[fd]] = "closed"]
          /\ DOMAIN sock' = DOMAIN sock \ {fd} /\ \A x \in DOMAIN sock' : sock'[x] = sock[x]
      BY <1>3 DEF Disconnect, CloseSocket, Restrict
    <2> QED
      BY <1>1, <2>1
  <1>4. ASSUME NEW fd \in Fd, Accept(fd) PROVE Owned'
    <2>1. /\ link' = [link EXCEPT ![Head(backlog)] = "open"]
          /\ DOMAIN sock' = DOMAIN sock \cup {fd} /\ sock'[fd] = Head(backlog)
          /\ \A x \in DOMAIN sock : sock'[x] = sock[x]
      BY <1>4 DEF Accept, Insert
    <2> QED
      BY <1>1, <2>1
  <1>5. CASE AcceptTurnAway \/ StopListen
    BY <1>1, <1>2, <1>5 DEF AcceptTurnAway, StopListen
  <1>6. CASE Clients
    BY <1>1, <1>2, <1>6 DEF Clients, Client, Connect, SendHalf, SendInvalid, Finish, Reset, Read
  <1>7. CASE RecvClose \/ DecodeInvalid
    <2>1. This \in DOMAIN connections /\ Disconnect(This)
      BY <1>7, AtHand DEF AtEvent, Has, RecvClose, DecodeInvalid, RecvAgain, CloseConnection
    <2> QED
      BY <1>3, <2>1
  <1>8. CASE SendFails \/ SendRestClose \/ DrainOverflow \/ DrainClose \/ (\E fd \in Fd : StopClose(fd))
    BY <1>3, <1>8 DEF SendFails, SendRestClose, Transfer, DrainOverflow, DrainClose, StopClose, Answers, Has,
      CloseConnection
  <1>9. CASE \/ Signal \/ Start \/ EpollWait \/ LoopExit \/ AcceptDone \/ RecvData \/ DecodeEnqueue
             \/ WriteGone \/ (\E n \in 1..SndCap : SendSome(n)) \/ SendRest \/ SendAgain
             \/ DrainStale \/ DrainAppend \/ DrainDone \/ StopRequests \/ StopResponses \/ Join
             \/ (\E w \in Worker : Work(w)) \/ UNCHANGED vars
    <2>1. UNCHANGED <<sock, link>>
      BY <1>9 DEF Signal, Start, EpollWait, LoopExit, AcceptDone, RecvData, DecodeEnqueue, WriteGone,
        SendSome, SendRest, SendAgain, DrainStale, DrainAppend, Modify, DrainDone, StopRequests,
        StopResponses, Join, Work, WorkerPop, WorkerRespond, WorkerThrow, WorkerExit,
        vars, network, clients
    <2> QED
      BY <1>2, <2>1
  <1> QED
    BY <1>4, <1>5, <1>6, <1>7, <1>8, <1>9 DEF Next, IO, AcceptAgain, AcceptFails

\* What is over stays over.
LEMMA StaysOver ==
  ASSUME IInv, Sockets, [Next]_vars, NEW p \in Peer, Over(p)
  PROVE  Over(p)'
  <1>1. /\ link \in [Peer -> {"new", "queued", "open", "closed"}]
        /\ backlog \in Seq(Peer) /\ sock \in [DOMAIN sock -> Peer]
    BY DEF IInv, TypeOK, ClientsTypeOK, SocketsTypeOK
  <1>2. mode[p] = "rst" => mode'[p] = "rst"
    BY Ratchet
  <1>3. ASSUME link[p] = "closed" PROVE link'[p] = "closed"
    <2>1. CASE UNCHANGED link
      BY <1>3, <2>1
    <2>2. CASE RecvClose \/ DecodeInvalid \/ SendFails \/ SendRestClose \/ DrainOverflow \/ DrainClose
               \/ (\E fd \in Fd : StopClose(fd))
      BY <1>1, <1>3, <2>2 DEF RecvClose, DecodeInvalid, SendFails, SendRestClose, DrainOverflow, DrainClose, StopClose,
        CloseConnection, Disconnect, CloseSocket
    <2>3. CASE AcceptTurnAway \/ StopListen
      BY <1>1, <1>3, <2>3 DEF AcceptTurnAway, StopListen
    <2>4. ASSUME NEW fd \in Fd, Accept(fd) PROVE link'[p] = "closed"
      <3>1. link[Head(backlog)] = "queued" /\ link' = [link EXCEPT ![Head(backlog)] = "open"]
        <4>1. backlog # <<>>
          BY <2>4 DEF Accept
        <4>2. 1 \in DOMAIN backlog /\ Head(backlog) = backlog[1]
          BY <1>1, <4>1
        <4> QED
          BY <2>4, <4>2 DEF Accept, Sockets
      <3> QED
        BY <1>1, <1>3, <3>1
    <2>5. CASE Clients
      BY <1>1, <1>3, <2>1, <2>5 DEF Clients, Client, Connect, SendHalf, SendInvalid, Finish, Reset, Read
    <2>6. CASE RecvData \/ DecodeEnqueue \/ (\E n \in 1..SndCap : SendSome(n)) \/ SendRest \/ DrainAppend
      BY <2>1, <2>6 DEF RecvData, DecodeEnqueue, SendSome, SendRest, DrainAppend, Modify, network, clients
    <2>7. CASE \/ Signal \/ Start \/ EpollWait \/ LoopExit \/ AcceptDone
               \/ WriteGone \/ SendAgain \/ DrainStale \/ DrainDone
               \/ StopRequests \/ StopResponses \/ Join
               \/ (\E w \in Worker : Work(w)) \/ UNCHANGED vars
      BY <2>1, <2>7 DEF Signal, Start, EpollWait, LoopExit, AcceptDone, WriteGone,
        SendAgain, DrainStale, DrainDone, StopRequests, StopResponses, Join, Work,
        WorkerPop, WorkerRespond, WorkerThrow, WorkerExit, vars, network, clients
    <2> QED
      BY <2>2, <2>3, <2>4, <2>5, <2>6, <2>7 DEF Next, IO, AcceptAgain, AcceptFails
  <1> QED
    BY <1>2, <1>3 DEF Over

\* The client reads on.
LEMMA Reading ==
  ASSUME IInv, Sockets, Unserved, NEW p \in Peer, Read(p), UNCHANGED server
  PROVE  Service(p)!Receive
  <1>1. got \in [Peer -> Seq(Units)]
    BY DEF IInv, TypeOK, ClientsTypeOK
  <1>2. got'[p] = Append(got[p], Head(sndq[p])) /\ UNCHANGED <<mode, sent, link>>
    BY <1>1 DEF Read
  <1>3. /\ Stream(p)' = Stream(p)
        /\ Len(got[p]) < Len(Stream(p)) /\ Stream(p)[Len(got[p]) + 1] = Head(sndq[p])
    BY ReadStream
  <1> QED
    BY <1>2, <1>3 DEF Service!Receive, Over

LEMMA WholeHalves == \A a \in Nat : /\ (a + 2) \div 2 = (a \div 2) + 1
                               /\ (a + 1) \div 2 \in {a \div 2, (a \div 2) + 1}
  OBVIOUS

\* The client asks, or sends the first half of a request.
LEMMA Asking ==
  ASSUME IInv, NEW p \in Peer, SendHalf(p) \/ SendInvalid(p), UNCHANGED server
  PROVE  /\ Stream(p)' = Stream(p) /\ UNCHANGED got
         /\ Service(p)!Ask \/ UNCHANGED Service(p)!vars
  <1>1. UNCHANGED <<connections, sock, got, sndq, mode, link>> /\ Sending(p)
    BY DEF server, memory, SendHalf, SendInvalid
  <1>2. Stream(p)' = Stream(p)
    BY <1>1 DEF Stream, Unsent
  <1>3. sent \in [Peer -> 0..(2 * MaxReq)] /\ sent[p] \in Nat
    BY NetworkAssumption DEF IInv, TypeOK, ClientsTypeOK
  <1>4. sent'[p] \in {sent[p] + 1, sent[p] + 2}
    BY <1>3 DEF SendHalf, SendInvalid
  <1>5. sent'[p] \div 2 \in {sent[p] \div 2, (sent[p] \div 2) + 1}
    BY <1>3, <1>4, WholeHalves
  <1>6. ~Over(p) /\ Over(p)' = Over(p)
    BY <1>1 DEF Sending, Over
  <1> QED
    BY <1>1, <1>2, <1>5, <1>6 DEF Service!Ask, Service!vars

\* The stream and what is read of it, for a connection that is not there.
LEMMA Unheard ==
  ASSUME IInv, Sockets, Unserved, NEW p \in Peer, link[p] \in {"new", "queued"}
  PROVE  Stream(p) = <<>>
  <1>1. \A fd \in DOMAIN connections : sock[fd] # p
    BY DEF Sockets, IInv, Tables
  <1>2. Unsent(p) = <<>>
    BY <1>1, UnsentIs DEF IInv, Outputs
  <1>3. got[p] = <<>> /\ sndq[p] = <<>>
    BY DEF Unserved
  <1> QED
    BY <1>2, <1>3 DEF Stream

\* What is read is the beginning of the stream.
LEMMA ReadPart ==
  ASSUME IInv, Sockets, NEW p \in Peer
  PROVE  Len(got[p]) \in 0..Len(Stream(p)) /\ Stream(p) \in Seq(Units)
  <1>1. /\ got[p] \in Seq(Units) /\ sndq[p] \o Unsent(p) \in Seq(Units)
        /\ Stream(p) \in Seq(Units)
    BY StreamTyped
  <1>2. PICK g, s : g = got[p] /\ s = sndq[p] \o Unsent(p)
    OBVIOUS
  <1>3. Stream(p) = g \o s \/ Stream(p) = g \o <<>>
    BY <1>2 DEF Stream
  <1>4. g \in Seq(Units) /\ s \in Seq(Units)
    BY <1>1, <1>2
  <1>5. Len(g) \in 0..Len(g \o s) /\ Len(g) \in 0..Len(g \o <<>>)
    BY <1>4
  <1> QED
    BY <1>1, <1>2, <1>3, <1>5

LEMMA ReadPartNext == IInv' /\ Sockets' => (\A p \in Peer : Len(got[p]) \in 0..Len(Stream(p)))'
  <1>1. IInv /\ Sockets => \A p \in Peer : Len(got[p]) \in 0..Len(Stream(p))
    BY ReadPart
  <1> QED
    BY <1>1, PTL

\* A step in which a client neither sends nor reads.
LEMMA Silence ==
  ASSUME IInv, [Next]_vars, NEW p \in Peer,
         ~((SendHalf(p) \/ SendInvalid(p) \/ Read(p)) /\ UNCHANGED server)
  PROVE  sent'[p] = sent[p] /\ got'[p] = got[p]
  <1>1. sent \in [Peer -> 0..(2 * MaxReq)] /\ got \in [Peer -> Seq(Units)]
    BY DEF IInv, TypeOK, ClientsTypeOK
  <1>2. CASE ClientsRest
    BY <1>2 DEF ClientsRest
  <1>3. CASE RecvData \/ (\E n \in 1..SndCap : SendSome(n)) \/ SendRest \/ SendRestClose
    BY <1>3 DEF RecvData, SendSome, SendRest, SendRestClose, Disconnect, Modify, clients
  <1>4. ASSUME NEW q \in Peer, SendHalf(q) \/ SendInvalid(q) \/ Reset(q) \/ Read(q), UNCHANGED server
        PROVE  sent'[p] = sent[p] /\ got'[p] = got[p]
    <2>1. CASE q = p
      BY <1>4, <2>1 DEF Reset
    <2>2. CASE q # p
      BY <1>1, <1>4, <2>2 DEF SendHalf, SendInvalid, Reset, Read
    <2> QED
      BY <2>1, <2>2
  <1> QED
    BY <1>2, <1>3, <1>4, Movements

\* A whole response, to the client that asked for it.
LEMMA Answering ==
  ASSUME IInv, Talk, FInv, DrainAppend, NEW p \in Peer, p = sock[Response.fd], mode[p] # "rst",
         Stream(p)' = Stream(p) \o Encoded(Response), sent'[p] = sent[p], got'[p] = got[p]
  PROVE  \E n \in 1..(sent[p] \div 2) : Service(p)!Answer(n)
  <1>1. PICK r : r = Response
    OBVIOUS
  <1>2. /\ r \in Messages /\ r.fd \in DOMAIN connections
        /\ ~Answered(p, r.num) /\ 2 * r.num <= sent[p]
    BY <1>1, Unanswered
  <1>3. Answers(r) /\ r \in InFlight
    <2>1. response_queue.items # <<>> /\ response_queue.items \in Seq(Messages)
      BY DEF DrainAppend, DrainPop, CanPop, IInv, TypeOK, WorkTypeOK, Queue
    <2>2. Head(response_queue.items) \in Range(response_queue.items)
      BY <2>1 DEF Range
    <2> QED
      BY <1>1, <2>2 DEF DrainAppend, InFlight, Front, Response
  <1>4. r.from = p
    BY <1>1, <1>3 DEF Talk, Tagged
  <1>5. Encoded(r) = Service(p)!Response(r.num)
    BY <1>4 DEF Encoded, Service!Response
  <1>6. ~Over(p) /\ Over(p)' = Over(p)
    <2>1. UNCHANGED <<mode, link>>
      BY DEF DrainAppend, Modify, clients
    <2>2. link[p] = "open"
      BY <1>1, <1>2 DEF FInv, Sockets, IInv, Tables
    <2> QED
      BY <2>1, <2>2 DEF Over
  <1>7. ~Service(p)!Answered(r.num)
    BY <1>2 DEF Answered, Carries, Service!Answered
  <1>8. r.num \in 1..(sent[p] \div 2)
    <2>1. r.num \in Nat \ {0} /\ sent[p] \in Nat
      BY <1>2, NetworkAssumption DEF Messages, IInv, TypeOK, ClientsTypeOK
    <2> QED
      BY <1>2, <2>1
  <1> QED
    BY <1>1, <1>5, <1>6, <1>7, <1>8 DEF Service!Answer

LEMMA Beginning ==
  ASSUME NEW u \in Seq(Units), NEW t \in Seq(Units)
  PROVE  Len(u) <= Len(u \o t) /\ SubSeq(u \o t, 1, Len(u)) = u
  <1>1. Len(u) <= Len(u \o t) /\ Len(u) \in Nat
    OBVIOUS
  <1>2. CASE Len(u) = 0
    <2>1. u = <<>>
      BY <1>2
    <2> QED
      BY <1>1, <1>2, <2>1, SubSeqEmpty
  <1>3. CASE Len(u) > 0
    <2>1. SubSeq(u \o t, 1, Len(u)) = SubSeq(u, 1, Len(u))
      BY <1>1, <1>3, SubSeqOfConcat1
    <2> QED
      BY <1>1, <2>1, SubSeqFull
  <1> QED
    BY <1>1, <1>2, <1>3

\* What is cut off a stream, or nothing, with the end of the connection.
LEMMA Ending ==
  ASSUME NEW p \in Peer, NEW s \in Seq(Units), NEW u \in Seq(Units), NEW t \in Seq(Units),
         s = u \o t, s = Stream(p), u = Stream(p)', Len(got[p]) \in 0..Len(u),
         Over(p)', sent'[p] = sent[p], got'[p] = got[p]
  PROVE  Service(p)!End
  <1>1. Len(u) <= Len(s) /\ u = SubSeq(s, 1, Len(u))
    BY Beginning
  <1>2. \E n \in Len(got[p])..Len(Stream(p)) : Stream(p)' = SubSeq(Stream(p), 1, n)
    <2>1. PICK g : g = Len(got[p])
      OBVIOUS
    <2>2. g \in 0..Len(u) /\ Len(u) \in Nat /\ Len(s) \in Nat
      BY <2>1
    <2>3. Len(u) \in g..Len(s)
      BY <1>1, <2>2
    <2> QED
      BY <1>1, <2>1, <2>3
  <1> QED
    BY <1>2 DEF Service!End

LEMMA ServiceStep ==
  ASSUME IInv, Talk, FInv, Owned, [Next]_vars, NEW p \in Peer
  PROVE  [Service(p)!Next]_(Service(p)!vars)
  <1> USE DEF Service!Next, Service!vars
  <1>1. IInv' /\ Sockets' /\ Unserved' /\ Owned'
    BY StepIInv, StepSockets, StepUnserved, StepOwned DEF FInv
  <1>2. CASE Read(p) /\ UNCHANGED server
    BY <1>2, Reading DEF FInv
  <1>3. CASE (SendHalf(p) \/ SendInvalid(p)) /\ UNCHANGED server
    BY <1>3, Asking
  <1>4. CASE ~((SendHalf(p) \/ SendInvalid(p) \/ Read(p)) /\ UNCHANGED server)
    <2>1. sent'[p] = sent[p] /\ got'[p] = got[p]
      BY <1>4, Silence
    <2>2. Stream(p) \in Seq(Units) /\ Stream(p)' \in Seq(Units)
      BY <1>1, StreamsTyped, StreamsWillBe DEF FInv
    <2>3. Len(got[p]) \in 0..Len(Stream(p)')
      BY <1>1, <2>1, ReadPartNext
    <2>4. Over(p) => Over(p)'
      BY StaysOver DEF FInv
    <2>5. CASE Stream(p)' = Stream(p)
      <3>1. CASE Over(p)' = Over(p)
        BY <2>1, <2>5, <3>1
      <3>2. CASE Over(p)'
        <4>1. Stream(p) = Stream(p)' \o <<>> /\ <<>> \in Seq(Units)
          BY <2>2, <2>5, ConcatEmptySeq
        <4> QED
          BY <2>1, <2>2, <2>3, <3>2, <4>1, Ending
      <3> QED
        BY <2>4, <3>1, <3>2 DEF Over
    <2>6. CASE /\ \E t \in Seq(Units) : Stream(p) = Stream(p)' \o t
               /\ mode'[p] = "rst" \/ \A fd \in DOMAIN connections' : sock'[fd] # p
      <3>1. CASE Over(p)'
        BY <2>1, <2>2, <2>3, <2>6, <3>1, Ending
      <3>2. CASE ~Over(p)'
        <4>1. link'[p] \in {"new", "queued"}
          <5>1. link' \in [Peer -> {"new", "queued", "open", "closed"}] /\ DOMAIN sock' = DOMAIN connections'
            BY <1>1 DEF IInv, TypeOK, ClientsTypeOK, Tables
          <5>2. link'[p] # "open"
            BY <1>1, <2>6, <3>2, <5>1 DEF Over, Owned, FdsOf
          <5> QED
            BY <3>2, <5>1, <5>2 DEF Over
        <4>2. Stream(p) = <<>>
          BY <4>1, Links, Unheard DEF FInv
        <4>3. Stream(p)' = <<>>
          <5>1. PICK u, t : u = Stream(p)' /\ t \in Seq(Units) /\ u \o t = <<>>
            BY <2>6, <4>2
          <5>2. u \in Seq(Units)
            BY <2>2, <5>1
          <5>3. u = <<>>
            BY <5>1, <5>2, ConcatEqualIffEmpty
          <5> QED
            BY <5>1, <5>3
        <4> QED
          BY <2>5, <4>2, <4>3
      <3> QED
        BY <3>1, <3>2
    <2>7. CASE /\ DrainAppend /\ p = sock[Response.fd] /\ mode[p] # "rst"
               /\ Stream(p)' = Stream(p) \o Encoded(Response)
      BY <2>1, <2>7, Answering
    <2> QED
      BY <2>5, <2>6, <2>7, StreamStep DEF FInv
  <1> QED
    BY <1>2, <1>3, <1>4

\* ImplementsService: whatever clients, workers and the IO thread do, each client
\* is served as ServiceSpec says.
THEOREM ServiceImplemented == Spec => ImplementsService
  <1>1. Init => Owned /\ \A p \in Peer : Service(p)!Init
    <2> SUFFICES ASSUME Init PROVE Owned /\ \A p \in Peer : Service(p)!Init
      OBVIOUS
    <2>1. Owned
      BY DEF Init, NetworkInit, Owned
    <2>2. ASSUME NEW p \in Peer PROVE Service(p)!Init
      <3>1. Stream(p) = <<>>
        BY DEF Init, NetworkInit, Stream, Unsent
      <3>2. sent[p] = 0 /\ got[p] = <<>> /\ mode[p] = "up" /\ link[p] = "new" /\ 0 \div 2 = 0
        BY DEF Init, NetworkInit
      <3> QED
        BY <3>1, <3>2 DEF Service!Init, Over
    <2> QED
      BY <2>1, <2>2
  <1>2. IInv /\ Talk /\ FInv /\ Owned /\ [Next]_vars => Owned'
    BY StepOwned DEF FInv
  <1>3. IInv /\ Talk /\ FInv /\ Owned /\ [Next]_vars
        => \A p \in Peer : [Service(p)!Next]_(Service(p)!vars)
    BY ServiceStep
  <1> QED
    BY <1>1, <1>2, <1>3, FlowInvariance, PTL DEF Spec, ImplementsService
=============================================================================
