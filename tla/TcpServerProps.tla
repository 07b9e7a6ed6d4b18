--------------------------- MODULE TcpServerProps ---------------------------
(***************************************************************************)
(* What TcpServer is correct for: the properties of its runs and theorems. *)
(***************************************************************************)
EXTENDS TcpServer

IOStates == {"start", "wait", "accept", "read", "write", "drain", "close_listen",
             "close_connections", "stop_responses", "join", "done"}

Queue(q, S) == q.items \in Seq(S) /\ q.stopped \in BOOLEAN /\ DOMAIN q = {"items", "stopped"}

ClientsTypeOK == /\ link \in [Peer -> {"new", "queued", "open", "closed"}]
                 /\ mode \in [Peer -> {"up", "fin", "rst"}]
                 /\ sent \in [Peer -> 0..(2 * MaxReq)]
                 /\ got \in [Peer -> Seq(Units)]

SocketsTypeOK == /\ rcvq \in [Peer -> Seq(Units)]
                 /\ sndq \in [Peer -> Seq(Units)]
                 /\ backlog \in Seq(Peer)
                 /\ DOMAIN sock \subseteq Fd /\ sock \in [DOMAIN sock -> Peer]

EpollTypeOK == /\ DOMAIN epoll \subseteq Fd
               /\ epoll \in [DOMAIN epoll -> SUBSET {"IN", "OUT"}]
               /\ rdy \subseteq DOMAIN epoll \cup {ListenFd}

LoopTypeOK == /\ pc \in IOStates
              /\ batch \in Seq(Events)

MemoryTypeOK == /\ DOMAIN connections \subseteq Fd
                /\ connections \in [DOMAIN connections -> Connections]
                /\ next_conn_id \in Nat \ {0}
                /\ active \in Nat

WorkTypeOK == /\ Queue(request_queue, Messages)
              /\ Queue(response_queue, Messages)
              /\ DOMAIN busy \subseteq Worker /\ busy \in [DOMAIN busy -> Messages]
              /\ exited \subseteq Worker

FlagsTypeOK == running \in BOOLEAN /\ sigint \in BOOLEAN

\* Every variable has its type.
TypeOK == /\ ClientsTypeOK /\ SocketsTypeOK /\ EpollTypeOK
          /\ LoopTypeOK /\ MemoryTypeOK /\ WorkTypeOK /\ FlagsTypeOK

-----------------------------------------------------------------------------
(* Responses.                                                               *)

\* All the server has made for p: read, sent, or still to send.  After a reset
\* the client gets no more of it.
Unsent(p) == LET fds == {fd \in DOMAIN connections : sock[fd] = p} IN
             IF fds = {} THEN <<>>
             ELSE connections[CHOOSE fd \in fds : TRUE].output_buffer
Stream(p) == got[p] \o (IF mode[p] = "rst" THEN <<>> ELSE sndq[p] \o Unsent(p))

\* A client reads nothing but answers to requests of its own, although a response
\* finds its connection by a descriptor that may belong to another client by the
\* time the worker is done.
NoCrossTalk == \A p \in Peer : \A i \in DOMAIN got[p] : got[p][i].from = p

\* Whole responses to requests that were sent, each with its parts in order, no
\* request answered twice: what a client reads stays a sequence of frames through
\* partial sends.
StreamIntact ==
  \A p \in Peer : LET s == Stream(p) IN
    /\ \A i \in DOMAIN s :
         /\ 2 * s[i].num <= sent[p]
         /\ IF s[i].part = 1
            THEN i = 1 \/ s[i - 1].part = RespLen[s[i - 1].num]
            ELSE i > 1 /\ s[i - 1] = [s[i] EXCEPT !.part = @ - 1]
    /\ \A i, j \in DOMAIN s : s[i] = s[j] => i = j

\* What happens to each client is what ServiceSpec promises it, in every step of
\* clients, workers and the IO thread: its stream only grows by a whole response
\* to a request of its own, nothing in it changes, is lost or comes after the end,
\* and only the end of the connection takes anything back that was not read.
Over(p) == mode[p] = "rst" \/ link[p] = "closed"
Service(p) == INSTANCE ServiceSpec WITH Owner <- p, asked <- sent[p] \div 2,
                stream <- Stream(p), got <- got[p], ended <- Over(p)
ImplementsService ==
  /\ \A p \in Peer : Service(p)!Init
  /\ [][\A p \in Peer : [Service(p)!Next]_(Service(p)!vars)]_vars

\* Where request n of p, whose connection is at fd, can be.
Carried(s, fd, n) == {i \in DOMAIN s : /\ s[i].fd = fd /\ s[i].num = n
                                       /\ s[i].conn_id = connections[fd].conn_id}
Carries(s, n) == \E i \in DOMAIN s : s[i].num = n
Received(fd, n) == Carries(connections[fd].input_buffer \o rcvq[sock[fd]], n)
Answered(p, n) == Carries(Stream(p), n)
Places(fd, n) == Cardinality(Carried(request_queue.items, fd, n))
                 + Cardinality(Carried(busy, fd, n))
                 + Cardinality(Carried(response_queue.items, fd, n))
                 + (IF Received(fd, n) THEN 1 ELSE 0)
                 + (IF Answered(sock[fd], n) THEN 1 ELSE 0)

\* While its connection lives, a request is in exactly one place on its way:
\* still in the input, queued, with a worker, queued as a response, or in the
\* output.  None gets lost but one whose dispatch() throws, none is worked on twice.
NothingLost ==
  \A fd \in DOMAIN connections : \A n \in 1..MaxReq :
    \/ Places(fd, n) = 1
    \/ Places(fd, n) = 0 /\ \/ sent[sock[fd]] < 2 * n - 1
                            \/ mode[sock[fd]] = "rst"
                            \/ Received(fd, 0)
                            \/ n \in Faulty

-----------------------------------------------------------------------------
(* Connections, descriptors and events.                                     *)

\* The server's table, the process's descriptors, epoll's interest list and
\* StatsManager's count agree between the steps of the handlers, whatever fails in them.
\* (Accepting a client is one step, and so is closing a connection.)
Mirror == /\ DOMAIN sock = DOMAIN connections
          /\ DOMAIN epoll = DOMAIN connections
          /\ active = Cardinality(DOMAIN connections)

\* An event is handled by the connection it was reported for, or, as the second
\* half of an event whose first half closed that connection, by none: a
\* descriptor closed and accepted again meets no event of its former owner.
EventsAreCurrent ==
  \A i \in DOMAIN batch :
    \/ batch[i].fd = ListenFd
    \/ Has(batch[i].fd) /\ connections[batch[i].fd].conn_id = batch[i].conn_id
    \/ i = 1 /\ pc = "write" /\ ~Has(batch[i].fd)

\* EPOLLOUT is asked for exactly while there is output: no output is left
\* without an event to send it, and an idle connection causes no events.
OutArmed == \A fd \in DOMAIN connections :
              "OUT" \in epoll[fd] <=> connections[fd].output_buffer # <<>>

\* The edge for e on fd is still to come to a handler.
Due(fd, e) == fd \in rdy \/ \E i \in DOMAIN batch : batch[i].fd = fd /\ e \in batch[i].events

\* With edge triggering an edge comes once.  Whatever could be received or sent
\* is on the ready list, or in the batch, or its handler is not done.
NoLostEdge == \A fd \in DOMAIN connections :
                /\ Readable(sock[fd]) => Due(fd, "IN")
                /\ Writable(sock[fd]) /\ connections[fd].output_buffer # <<>> => Due(fd, "OUT")

\* The same for the listening socket: whoever waits in the backlog will be seen.
Awaited == backlog # <<>> => Due(ListenFd, "IN")

\* Only an error of accept(), for lack of a descriptor or whatever reason, leaves clients
\* in the backlog with no edge to come: not a full batch, a client that is turned away, a
\* connection that is closed or a client that comes while others are accepted.
NoLostClient == [][Awaited => Awaited' \/ AcceptFails]_vars

-----------------------------------------------------------------------------
(* Shutdown.                                                                *)

\* Once stop() has joined, no worker has a request and none is left: what was
\* accepted before the stop was worked on.
GracefulDrain == pc = "done" => /\ request_queue.items = <<>>
                                /\ DOMAIN busy = {}
                                /\ exited = Worker

-----------------------------------------------------------------------------
(* Liveness.                                                                *)

\* A request that is wholly sent is answered, unless its connection ends, the
\* server is told to stop, or its dispatch throws: that stops no other request.
Sent(p, n) == sent[p] >= 2 * n /\ link[p] # "closed"
Served(p, n) == \E i \in DOMAIN got[p] : got[p][i].num = n /\ got[p][i].part = RespLen[n]
EveryRequestAnswered ==
  \A p \in Peer : \A n \in (1..MaxReq) \ Faulty :
    Sent(p, n) ~> Served(p, n) \/ mode[p] # "up" \/ link[p] = "closed" \/ ~running

\* A client that left, or whose stream is invalid, does not keep its descriptor.
Dead(p) == mode[p] # "up" \/ \E fd \in FdsOf(p) : Received(fd, 0)
DeadConnectionsClosed == \A p \in Peer : link[p] = "open" /\ Dead(p) ~> link[p] = "closed"

\* The loop sees running_, the workers see the stopped queue, stop() joins them.
ShutdownCompletes == pc # "start" /\ ~running ~> pc = "done"

\* A client in the backlog is accepted, turned away, or closed with the listening
\* socket, as long as no error of accept() takes the edge that would bring the loop to it.
EveryClientReached ==
  \A p \in Peer : link[p] = "queued" ~> link[p] # "queued" \/ ~Due(ListenFd, "IN")

-----------------------------------------------------------------------------
(* What the documents and scripts say, and the code does not do.            *)

\* Ctrl+C shuts the server down.
SigintStops == sigint ~> pc = "done"

\* The loop accepts all that wait: a client in the backlog leaves it once there is a
\* descriptor for it.
Full == Fd \subseteq DOMAIN sock
EveryClientAccepted ==
  \A p \in Peer : link[p] = "queued" /\ ~Full ~> link[p] # "queued" \/ Full

\* The output limit cuts off clients that do not read: at the moment it strikes
\* there is unread output.
OnlySlowClientsCutOff ==
  [][DrainOverflow => connections[Response.fd].output_buffer # <<>>]_vars

\* Every request the connection has sent gets a response.
NoRequestForgotten ==
  \A fd \in DOMAIN connections : \A n \in 1..MaxReq :
    sent[sock[fd]] >= 2 * n /\ mode[sock[fd]] # "rst" /\ ~Received(fd, 0) => Places(fd, n) = 1
=============================================================================
