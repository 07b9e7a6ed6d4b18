----------------------------- MODULE TcpServer -----------------------------
(***************************************************************************)
(* TcpServer: one IO thread that owns every connection, worker threads that*)
(* own none, and two queues between them.  A request carries the descriptor*)
(* and the conn_id of the connection it was read from, its response carries*)
(* them back, and the IO thread uses them to find the connection again, if *)
(* it is still the same one.                                               *)
(*                                                                         *)
(* The IO thread takes one step per system call; between two steps clients *)
(* and workers may do anything.  The queues are those of ClosableQueue,    *)
(* which BlockQueue implements.                                            *)
(*                                                                         *)
(* Each definition whose name ends in Wrong is a slip the next definition  *)
(* could contain; nothing uses it, except to see that the properties would *)
(* tell.                                                                   *)
(***************************************************************************)
EXTENDS Network, ClosableQueue

CONSTANTS Worker,     \* worker threads
          MaxEvents,  \* the capacity of epoll_wait()'s array
          MaxOut,     \* MAX_OUT_BUFFER_SIZE, in units
          Faulty,     \* numbers of the requests whose dispatch() throws
          Faults      \* system calls that may fail for no reason of a client's

ASSUME ServerAssumption ==
  /\ IsFiniteSet(Worker) /\ Worker # {}
  /\ MaxEvents \in Nat \ {0}
  /\ MaxOut \in Nat
  /\ Faulty \subseteq 1..MaxReq
  /\ Faults \subseteq {"epoll_wait", "accept", "add", "mod", "recv", "send"}

VARIABLES pc,             \* where the IO thread is
          batch,          \* events of the last epoll_wait() still to handle
          connections,    \* connections_, by descriptor
          next_conn_id,
          active,         \* StatsManager's count of connections
          request_queue,
          response_queue,
          busy,           \* the request each working worker has
          exited,         \* the workers that have returned
          running,        \* running_
          sigint          \* SIGINT was delivered

memory == <<connections, next_conn_id, active>>
queues == <<request_queue, response_queue>>
workers == <<busy, exited>>
flags == <<running, sigint>>
server == <<pc, batch, memory, queues, workers, flags>>
vars == <<server, network>>

\* Messages.  from and num stand for what the client wrote: request_id, type
\* and payload.
Messages == [fd : Fd, conn_id : Nat, from : Peer, num : 1..MaxReq]

Connections == [conn_id : Nat, input_buffer : Seq(Units), output_buffer : Seq(Units)]

\* An event of epoll_wait().  conn_id is the model's: the connection that had
\* the descriptor when the event was reported.
Events == [fd : Fd \cup {ListenFd}, events : SUBSET {"IN", "OUT"}, conn_id : Nat]

Init == /\ NetworkInit
        /\ pc = "start"
        /\ batch = <<>>
        /\ connections = <<>>
        /\ next_conn_id = 1
        /\ active = 0
        /\ request_queue = EmptyQueue
        /\ response_queue = EmptyQueue
        /\ busy = <<>>
        /\ exited = {}
        /\ running = FALSE
        /\ sigint = FALSE

-----------------------------------------------------------------------------
(* Pieces of the handlers.                                                  *)

\* The IO thread goes on with the events b: where the first one takes it, and
\* after the last one to the response queue.
Stage(b) == IF b = <<>> THEN "drain"
            ELSE IF Head(b).fd = ListenFd THEN "accept"
            ELSE IF "IN" \in Head(b).events THEN "read" ELSE "write"
Proceed(b) == batch' = b /\ pc' = Stage(b)

\* handleRead() is called again for an event it has handled.
AfterReadWrong == IF "OUT" \in Head(batch).events THEN batch ELSE Tail(batch)

\* loop() after handleRead(): handleWrite() of the same event if it has EPOLLOUT.
AfterRead == IF "OUT" \in Head(batch).events
             THEN <<[Head(batch) EXCEPT !.events = {"OUT"}]>> \o Tail(batch)
             ELSE Tail(batch)

Stay == UNCHANGED <<pc, batch>>

\* The descriptor of the event at hand, and its connection.
This == Head(batch).fd
Has(fd) == fd \in DOMAIN connections

\* A closed connection is not counted off.
DecrementWrong(n) == n

\* StatsManager::decrementConnections().
Decrement(n) == IF n > 0 THEN n - 1 ELSE 0

\* closeConnection(), of a descriptor that has a connection.  The client can still
\* read what is in the send buffer of the socket.
Disconnect(fd) == /\ CloseSocket(fd)
                  /\ connections' = Restrict(connections, DOMAIN connections \ {fd})
                  /\ active' = Decrement(active)
                  /\ UNCHANGED <<next_conn_id, mode, sent, got, rcvq, backlog>>

\* The same when nothing was sent in the step.
CloseConnection(fd) == Disconnect(fd) /\ UNCHANGED sndq

\* EPOLLOUT stays on once it was asked for.
ModifyWrong(fd, events) == /\ Watch(fd, sock[fd], events \cup {"OUT"})
                           /\ UNCHANGED <<clients, rcvq, backlog, sock>>

\* EPOLLOUT is never asked for.
ModifyInWrong(fd, events) == /\ Watch(fd, sock[fd], {"IN"})
                             /\ UNCHANGED <<clients, rcvq, backlog, sock>>

\* Nothing happens to the sockets but what modifyConnectionEvents() does.
Modify(fd, events) == /\ Watch(fd, sock[fd], events)
                      /\ UNCHANGED <<clients, rcvq, backlog, sock>>

\* ProtocolCodec::decode() on an input buffer.  Everything before an invalid
\* frame is whole frames, so decode() always gets to it.
Invalid(in) == \E i \in DOMAIN in : in[i].num = 0
Decoded(fd, in) ==
  [i \in 1..(Len(in) \div 2) |->
     [fd |-> fd, conn_id |-> connections[fd].conn_id,
      from |-> in[2 * i].from, num |-> in[2 * i].num]]

\* The half of a frame that is left is thrown away with the frames.
RestWrong(in) == <<>>

\* input_buffer.erase(0, read_index).
Rest(in) == SubSeq(in, 2 * (Len(in) \div 2) + 1, Len(in))

\* ProtocolCodec::encode().
Encoded(r) == [k \in 1..RespLen[r.num] |-> [from |-> r.from, num |-> r.num, part |-> k]]

-----------------------------------------------------------------------------
(* start() and loop().                                                      *)

\* From the registration of the handler on: initServer(), running_, workers.
Start == /\ pc = "start"
         /\ running' = TRUE
         /\ pc' = "wait"
         /\ UNCHANGED <<batch, memory, queues, workers, sigint, network>>

\* static_sigint_handler(), in whatever thread.
Signal == /\ ~sigint
          /\ pc # "done"
          /\ sigint' = TRUE
          /\ running' = FALSE
          /\ UNCHANGED <<pc, batch, memory, queues, workers, network>>

\* What epoll_wait() has to report.
Reported == {[fd |-> fd, events |-> Pending(fd), conn_id |-> connections[fd].conn_id] :
                fd \in {x \in rdy \ {ListenFd} : Pending(x) # {}}}
            \cup (IF ListenFd \in rdy /\ backlog # <<>>
                  THEN {[fd |-> ListenFd, events |-> {"IN"}, conn_id |-> 0]} ELSE {})

\* As many of them as fit, in any order; the rest stay ready.  Without any, the
\* call times out and returns none.
Fitting == IF Cardinality(Reported) < MaxEvents THEN Cardinality(Reported) ELSE MaxEvents
EpollWait == /\ pc = "wait"
             /\ running
             /\ \E b \in Injection(1..Fitting, Reported) :
                  /\ Proceed(b)
                  /\ rdy' = {e.fd : e \in Reported \ Range(b)}
             /\ UNCHANGED <<memory, queues, workers, flags,
                            clients, rcvq, sndq, backlog, sock, epoll>>

\* The loop is left when running_ is FALSE, or when epoll_wait() fails.
LoopExit == /\ pc = "wait"
            /\ ~running \/ "epoll_wait" \in Faults
            /\ pc' = "close_listen"
            /\ UNCHANGED <<batch, memory, queues, workers, flags, network>>

-----------------------------------------------------------------------------
(* handleAccept().                                                          *)

\* accept(), epoll_ctl(ADD) and the new entry.  insert() leaves an entry that is
\* there already alone.
Accept(fd) ==
  LET p == Head(backlog) IN
  /\ pc = "accept"
  /\ backlog # <<>>
  /\ fd \notin DOMAIN sock
  /\ backlog' = Tail(backlog)
  /\ link' = [link EXCEPT ![p] = "open"]
  /\ sock' = Insert(sock, fd, p)
  /\ Watch(fd, p, {"IN"})
  /\ connections' = Insert(connections, fd,
       [conn_id |-> next_conn_id, input_buffer |-> <<>>, output_buffer |-> <<>>])
  /\ next_conn_id' = next_conn_id + 1
  /\ active' = active + 1
  /\ Stay
  /\ UNCHANGED <<queues, workers, flags, mode, sent, got, rcvq, sndq>>

\* The loop is left with the client that is turned away.
AcceptTurnAwayWrong == /\ pc = "accept"
                       /\ "add" \in Faults
                       /\ backlog # <<>>
                       /\ Fd \ DOMAIN sock # {}
                       /\ backlog' = Tail(backlog)
                       /\ link' = [link EXCEPT ![Head(backlog)] = "closed"]
                       /\ Proceed(Tail(batch))
                       /\ UNCHANGED <<memory, queues, workers, flags,
                                      mode, sent, got, rcvq, sndq, sock, epoll, rdy>>

\* epoll_ctl(ADD) fails: the client is turned away, the loop goes on.
AcceptTurnAway == /\ pc = "accept"
                  /\ "add" \in Faults
                  /\ backlog # <<>>
                  /\ Fd \ DOMAIN sock # {}
                  /\ backlog' = Tail(backlog)
                  /\ link' = [link EXCEPT ![Head(backlog)] = "closed"]
                  /\ UNCHANGED <<server, mode, sent, got, rcvq, sndq, sock, epoll, rdy>>

\* The loop of accept() is left; whoever is in the backlog stays there.
AcceptDone == /\ pc = "accept"
              /\ Proceed(Tail(batch))
              /\ UNCHANGED <<memory, queues, workers, flags, network>>

\* EAGAIN: nobody is left.
AcceptAgain == AcceptDone /\ backlog = <<>>

\* Any other error, EMFILE when no descriptor is left among them: logged, and the
\* loop is left as well.
AcceptFails == AcceptDone /\ ("accept" \in Faults \/ Fd \subseteq DOMAIN sock)

-----------------------------------------------------------------------------
(* handleRead().  That its connection is there is the invariant             *)
(* EventsAreCurrent.                                                        *)

RecvData == LET p == sock[This] IN
            /\ pc = "read"
            /\ rcvq[p] # <<>>
            /\ connections' = [connections EXCEPT ![This].input_buffer =
                                 Append(@, Head(rcvq[p]))]
            /\ rcvq' = [rcvq EXCEPT ![p] = Tail(@)]
            /\ Stay
            /\ UNCHANGED <<next_conn_id, active, queues, workers, flags,
                           clients, sndq, backlog, sock, epoll, rdy>>

\* End of file or an error: closed, without a look at the input buffer.
RecvClose == /\ pc = "read"
             /\ \/ rcvq[sock[This]] = <<>> /\ mode[sock[This]] # "up"
                \/ "recv" \in Faults
             /\ CloseConnection(This)
             /\ Proceed(AfterRead)
             /\ UNCHANGED <<queues, workers, flags>>

\* One recv() for an event.
RecvAgainWrong == pc = "read"

\* EAGAIN, then decodeAndEnqueue().
RecvAgain == pc = "read" /\ ~Readable(sock[This])

DecodeInvalid == /\ RecvAgain
                 /\ Invalid(connections[This].input_buffer)
                 /\ CloseConnection(This)
                 /\ Proceed(AfterRead)
                 /\ UNCHANGED <<queues, workers, flags>>

DecodeEnqueue == LET in == connections[This].input_buffer IN
                 /\ RecvAgain
                 /\ ~Invalid(in)
                 /\ request_queue' = PushAll(request_queue, Decoded(This, in))
                 /\ connections' = [connections EXCEPT ![This].input_buffer = Rest(in)]
                 /\ Proceed(AfterRead)
                 /\ UNCHANGED <<next_conn_id, active, response_queue, workers, flags, network>>

-----------------------------------------------------------------------------
(* handleWrite().                                                           *)

\* The connection was closed by handleRead() for the same event.
WriteGone == /\ pc = "write"
             /\ ~Has(This)
             /\ Proceed(Tail(batch))
             /\ UNCHANGED <<memory, queues, workers, flags, network>>

\* What was sent stays in the buffer.
EraseWrong(out, n) == out

\* One unit too many is erased.
EraseMoreWrong(out, n) == SubSeq(out, n + 2, Len(out))

\* output_buffer.erase(0, n).
Erase(out, n) == SubSeq(out, n + 1, Len(out))

\* send() takes n units of the output buffer.
Transfer(n) ==
  LET p == sock[This]
      out == connections[This].output_buffer
  IN /\ pc = "write"
     /\ Has(This)
     /\ mode[p] # "rst"
     /\ n <= Len(out) /\ Len(sndq[p]) + n <= SndCap
     /\ sndq' = [sndq EXCEPT ![p] = @ \o SubSeq(out, 1, n)]

SendSome(n) ==
  LET out == connections[This].output_buffer IN
  /\ Transfer(n)
  /\ n < Len(out)
  /\ connections' = [connections EXCEPT ![This].output_buffer = Erase(@, n)]
  /\ Stay
  /\ UNCHANGED <<next_conn_id, active, queues, workers, flags,
                 clients, rcvq, backlog, sock, epoll, rdy>>

\* The buffer is empty: EPOLLOUT is no longer asked for.
SendRest ==
  /\ Transfer(Len(connections[This].output_buffer))
  /\ connections' = [connections EXCEPT ![This].output_buffer = <<>>]
  /\ Modify(This, {"IN"})
  /\ Proceed(Tail(batch))
  /\ UNCHANGED <<next_conn_id, active, queues, workers, flags>>

\* EAGAIN: what is left waits for the next EPOLLOUT.
SendAgain == /\ pc = "write"
             /\ Has(This)
             /\ ~Writable(sock[This])
             /\ Proceed(Tail(batch))
             /\ UNCHANGED <<memory, queues, workers, flags, network>>

\* send() fails.
SendFails == /\ pc = "write"
             /\ Has(This)
             /\ mode[sock[This]] = "rst" \/ "send" \in Faults
             /\ CloseConnection(This)
             /\ Proceed(Tail(batch))
             /\ UNCHANGED <<queues, workers, flags>>

\* epoll_ctl(MOD) fails once everything is sent: modifyConnectionEvents() closes.
SendRestClose == /\ "mod" \in Faults
                 /\ Transfer(Len(connections[This].output_buffer))
                 /\ Disconnect(This)
                 /\ Proceed(Tail(batch))
                 /\ UNCHANGED <<queues, workers, flags>>

-----------------------------------------------------------------------------
(* drainResponseQueue().                                                    *)

\* The response that is popped.
Response == Front(response_queue)

\* Whatever connection has the descriptor now.
AnswersWrong(r) == Has(r.fd)

\* Its connection is still there, and has the same conn_id.
Answers(r) == Has(r.fd) /\ connections[r.fd].conn_id = r.conn_id
Overflows(r) == Len(connections[r.fd].output_buffer) + Len(Encoded(r)) > MaxOut

DrainPop == /\ pc = "drain"
            /\ CanPop(response_queue)
            /\ response_queue' = Pop(response_queue)
            /\ Stay
            /\ UNCHANGED <<request_queue, workers, flags>>

DrainStale == /\ DrainPop
              /\ ~Answers(Response)
              /\ UNCHANGED <<memory, network>>

DrainOverflow == /\ DrainPop
                 /\ Answers(Response)
                 /\ Overflows(Response)
                 /\ CloseConnection(Response.fd)

DrainAppend == LET r == Response IN
               /\ DrainPop
               /\ Answers(r)
               /\ ~Overflows(r)
               /\ connections' = [connections EXCEPT ![r.fd].output_buffer = @ \o Encoded(r)]
               /\ Modify(r.fd, {"IN", "OUT"})
               /\ UNCHANGED <<next_conn_id, active, sndq>>

\* epoll_ctl(MOD) fails after the append.
DrainClose == /\ DrainPop
              /\ "mod" \in Faults
              /\ Answers(Response)
              /\ ~Overflows(Response)
              /\ CloseConnection(Response.fd)

DrainDone == /\ pc = "drain"
             /\ ~CanPop(response_queue)
             /\ pc' = "wait"
             /\ UNCHANGED <<batch, memory, queues, workers, flags, network>>

-----------------------------------------------------------------------------
(* stop(), which the destructor calls when start() has returned.            *)

\* The listening socket is not closed.
StopListenWrong == /\ pc = "close_listen"
                   /\ pc' = "close_connections"
                   /\ running' = FALSE
                   /\ UNCHANGED <<batch, memory, queues, workers, sigint, network>>

\* The listening socket is closed, and with it the connections in its backlog.
StopListen == /\ pc = "close_listen"
              /\ pc' = "close_connections"
              /\ running' = FALSE
              /\ backlog' = <<>>
              /\ link' = [p \in Peer |-> IF link[p] = "queued" THEN "closed" ELSE link[p]]
              /\ rdy' = rdy \ {ListenFd}
              /\ UNCHANGED <<batch, memory, queues, workers, sigint,
                             mode, sent, got, rcvq, sndq, sock, epoll>>

StopClose(fd) == /\ pc = "close_connections"
                 /\ Has(fd)
                 /\ CloseConnection(fd)
                 /\ Stay
                 /\ UNCHANGED <<queues, workers, flags>>

StopRequests == /\ pc = "close_connections"
                /\ DOMAIN connections = {}
                /\ request_queue' = Stop(request_queue)
                /\ pc' = "stop_responses"
                /\ UNCHANGED <<batch, memory, response_queue, workers, flags, network>>

StopResponses == /\ pc = "stop_responses"
                 /\ response_queue' = Stop(response_queue)
                 /\ pc' = "join"
                 /\ UNCHANGED <<batch, memory, request_queue, workers, flags, network>>

\* The workers are left alone.
JoinedWrong == TRUE

\* Every worker is joined, the epoll descriptor closed.
Joined == exited = Worker
Join == /\ pc = "join"
        /\ Joined
        /\ pc' = "done"
        /\ UNCHANGED <<batch, memory, queues, workers, flags, network>>

-----------------------------------------------------------------------------
(* The worker threads.                                                      *)

Idle(w) == w \in Worker \ (DOMAIN busy \cup exited)

WorkerPop(w) == /\ Idle(w)
                /\ CanPop(request_queue)
                /\ busy' = Insert(busy, w, Front(request_queue))
                /\ request_queue' = Pop(request_queue)
                /\ UNCHANGED <<pc, batch, memory, response_queue, exited, flags, network>>

Finished(w) == busy' = Restrict(busy, DOMAIN busy \ {w})

\* Descriptor and conn_id mixed up.
ReplyWrong(req) ==
  [fd |-> req.conn_id, conn_id |-> req.fd, from |-> req.from, num |-> req.num]

\* dispatch() and push() of the response, with the request's fd and conn_id.
Reply(req) == [fd |-> req.fd, conn_id |-> req.conn_id, from |-> req.from, num |-> req.num]
WorkerRespond(w) == /\ w \in DOMAIN busy
                    /\ busy[w].num \notin Faulty
                    /\ response_queue' = Push(response_queue, Reply(busy[w]))
                    /\ Finished(w)
                    /\ UNCHANGED <<pc, batch, memory, request_queue, exited, flags, network>>

\* dispatch() throws: logged, and the request is forgotten.
WorkerThrow(w) == /\ w \in DOMAIN busy
                  /\ busy[w].num \in Faulty
                  /\ Finished(w)
                  /\ UNCHANGED <<pc, batch, memory, queues, exited, flags, network>>

\* pop() returns false.
WorkerExit(w) == /\ Idle(w)
                 /\ Drained(request_queue)
                 /\ exited' = exited \cup {w}
                 /\ UNCHANGED <<pc, batch, memory, queues, busy, flags, network>>

-----------------------------------------------------------------------------
Listening == pc \notin {"start", "close_connections", "stop_responses", "join", "done"}

Clients == \E p \in Peer : /\ \/ Listening /\ Connect(p)
                              \/ Client(p)
                           /\ UNCHANGED server

IO == \/ Start \/ EpollWait \/ LoopExit
      \/ (\E fd \in Fd : Accept(fd)) \/ AcceptTurnAway \/ AcceptAgain \/ AcceptFails
      \/ RecvData \/ RecvClose \/ DecodeInvalid \/ DecodeEnqueue
      \/ WriteGone \/ (\E n \in 1..SndCap : SendSome(n)) \/ SendRest
      \/ SendAgain \/ SendFails \/ SendRestClose
      \/ DrainStale \/ DrainOverflow \/ DrainAppend \/ DrainClose \/ DrainDone
      \/ StopListen \/ (\E fd \in Fd : StopClose(fd))
      \/ StopRequests \/ StopResponses \/ Join

Work(w) == WorkerPop(w) \/ WorkerRespond(w) \/ WorkerThrow(w) \/ WorkerExit(w)

Next == Signal \/ Clients \/ IO \/ \E w \in Worker : Work(w)

Spec == Init /\ [][Next]_vars

\* Every thread of the process runs.  Signals are nobody's duty.
FairServer == WF_vars(IO) /\ \A w \in Worker : WF_vars(Work(w))

\* A client that reads what it is sent.
FairClients == \A p \in Peer : WF_vars(Read(p) /\ UNCHANGED server)

FairSpec == Spec /\ FairServer /\ FairClients
=============================================================================
