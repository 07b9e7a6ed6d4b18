------------------------------ MODULE Network ------------------------------
(***************************************************************************)
(* What TcpServer runs on: clients, the two directions of each TCP         *)
(* connection, the listening socket's backlog and an edge-triggered epoll  *)
(* instance.  None of it is code of the server; it is modelled from the    *)
(* system calls the server makes and what they return.                     *)
(*                                                                         *)
(* A client is one TCP connection: a program that reconnects is another    *)
(* client.  The byte streams are sequences of units.  A request travels as *)
(* two units, so that a read may end in the middle of it, a response as    *)
(* RespLen[num].  A unit carries who sent the request and its number there *)
(* (what request_id and payload stand for); the server never looks at from.*)
(***************************************************************************)
EXTENDS Naturals, Sequences, FiniteSets, Functions

CONSTANTS Peer,      \* clients
          Fd,        \* descriptors the process has left for connections
          ListenFd,  \* the listening socket
          MaxReq,    \* bound: requests a client sends
          SndCap,    \* units a socket's send buffer holds
          RespLen    \* the length in units of the response to each request

ASSUME NetworkAssumption ==
  /\ IsFiniteSet(Peer)
  /\ IsFiniteSet(Fd)
  /\ ListenFd \notin Fd
  /\ MaxReq \in Nat
  /\ SndCap \in Nat \ {0}
  /\ RespLen \in [1..MaxReq -> Nat \ {0}]

VARIABLES link,     \* "new", "queued" in the backlog, "open" or "closed"
          mode,     \* what the client did to its end: "up", "fin" or "rst"
          sent,     \* how many halves of requests the client has sent
          got,      \* the units the client has read
          rcvq,     \* units in the server's socket, not received yet
          sndq,     \* units in the server's socket, not read by the client yet
          backlog,  \* clients waiting to be accepted
          sock,     \* the client behind each open descriptor
          epoll,    \* the events each descriptor is registered for
          rdy       \* epoll's ready list

clients == <<link, mode, sent, got>>
network == <<clients, rcvq, sndq, backlog, sock, epoll, rdy>>

\* Half k of request n of client p.  Number 0 is a frame with an invalid
\* body_length, which is recognised from its first half on.
Half(p, n, k) == [from |-> p, num |-> n, part |-> k]

\* std::unordered_map::insert(): an entry that is there already is left alone.
Insert(f, x, y) == [z \in DOMAIN f \cup {x} |-> IF z \in DOMAIN f THEN f[z] ELSE y]

Units == [from : Peer, num : 0..MaxReq, part : Nat \ {0}]

NetworkInit == /\ link = [p \in Peer |-> "new"]
               /\ mode = [p \in Peer |-> "up"]
               /\ sent = [p \in Peer |-> 0]
               /\ got = [p \in Peer |-> <<>>]
               /\ rcvq = [p \in Peer |-> <<>>]
               /\ sndq = [p \in Peer |-> <<>>]
               /\ backlog = <<>>
               /\ sock = <<>>
               /\ epoll = <<>>
               /\ rdy = {}

-----------------------------------------------------------------------------
(* epoll.                                                                   *)

\* recv() and send() would not return EAGAIN.
Readable(p) == rcvq[p] # <<>> \/ mode[p] # "up"
Writable(p) == Len(sndq[p]) < SndCap \/ mode[p] = "rst"

FdsOf(p) == {fd \in DOMAIN sock : sock[fd] = p}

\* What epoll_wait() reports for a client's descriptor.
Pending(fd) == {e \in epoll[fd] : \/ e = "IN" /\ Readable(sock[fd])
                                  \/ e = "OUT" /\ Writable(sock[fd])}

\* epoll_ctl() with ADD or MOD: sets what fd, a socket of p, is registered for,
\* and puts it on the ready list if that is pending already.
Watch(fd, p, events) ==
  /\ epoll' = [x \in DOMAIN epoll \cup {fd} |-> IF x = fd THEN events ELSE epoll[x]]
  /\ rdy' = IF \/ "IN" \in events /\ Readable(p)
               \/ "OUT" \in events /\ Writable(p)
            THEN rdy \cup {fd} ELSE rdy

\* close(): the descriptor is free again, epoll forgets it.
CloseSocket(fd) == /\ sock' = Restrict(sock, DOMAIN sock \ {fd})
                   /\ epoll' = Restrict(epoll, DOMAIN epoll \ {fd})
                   /\ rdy' = rdy \ {fd}
                   /\ link' = [link EXCEPT ![sock[fd]] = "closed"]

-----------------------------------------------------------------------------
(* The clients.                                                             *)

Connect(p) == /\ link[p] = "new"
              /\ link' = [link EXCEPT ![p] = "queued"]
              /\ backlog' = Append(backlog, p)
              /\ rdy' = rdy \cup {ListenFd}
              /\ UNCHANGED <<mode, sent, got, rcvq, sndq, sock, epoll>>

\* Something arrives from p: an edge on its descriptor, if it has one.
Arrive(p) == rdy' = rdy \cup FdsOf(p)

Sending(p) == link[p] \in {"queued", "open"} /\ mode[p] = "up" /\ sent[p] < 2 * MaxReq

\* The next half of a request.
SendHalf(p) == /\ Sending(p)
               /\ rcvq' = [rcvq EXCEPT ![p] = Append(@,
                             Half(p, (sent[p] \div 2) + 1, (sent[p] % 2) + 1))]
               /\ sent' = [sent EXCEPT ![p] = @ + 1]
               /\ Arrive(p)
               /\ UNCHANGED <<link, mode, got, sndq, backlog, sock, epoll>>

\* A frame whose body_length is out of range, in place of a request.
SendInvalid(p) == /\ Sending(p)
                  /\ sent[p] % 2 = 0
                  /\ rcvq' = [rcvq EXCEPT ![p] = Append(@, Half(p, 0, 1))]
                  /\ sent' = [sent EXCEPT ![p] = @ + 2]
                  /\ Arrive(p)
                  /\ UNCHANGED <<link, mode, got, sndq, backlog, sock, epoll>>

\* The client shuts down its sending direction.
Finish(p) == /\ link[p] \in {"queued", "open"} /\ mode[p] = "up"
             /\ mode' = [mode EXCEPT ![p] = "fin"]
             /\ Arrive(p)
             /\ UNCHANGED <<link, sent, got, rcvq, sndq, backlog, sock, epoll>>

\* The client resets the connection.  What was received before can still be read.
Reset(p) == /\ link[p] \in {"queued", "open"} /\ mode[p] # "rst"
            /\ mode' = [mode EXCEPT ![p] = "rst"]
            /\ sndq' = [sndq EXCEPT ![p] = <<>>]
            /\ Arrive(p)
            /\ UNCHANGED <<link, sent, got, rcvq, backlog, sock, epoll>>

\* The client reads a unit.  Room in a send buffer that was full is an edge for
\* a descriptor registered for it.
Read(p) == /\ sndq[p] # <<>>
           /\ got' = [got EXCEPT ![p] = Append(@, Head(sndq[p]))]
           /\ sndq' = [sndq EXCEPT ![p] = Tail(@)]
           /\ rdy' = IF Writable(p) THEN rdy
                     ELSE rdy \cup {fd \in FdsOf(p) : "OUT" \in epoll[fd]}
           /\ UNCHANGED <<link, mode, sent, rcvq, backlog, sock, epoll>>

\* Anything a client may do while the server listens or not.
Client(p) == \/ SendHalf(p) \/ SendInvalid(p) \/ Finish(p) \/ Reset(p) \/ Read(p)
=============================================================================
