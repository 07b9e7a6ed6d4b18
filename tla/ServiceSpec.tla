---------------------------- MODULE ServiceSpec ----------------------------
(***************************************************************************)
(* The abstract specification of TcpServer: what one client is promised.   *)
(* There is no descriptor, event, buffer, queue or worker here, and no     *)
(* other client: the client asks, the server puts whole responses on a     *)
(* stream, the client reads them, and at some point the connection ends.   *)
(***************************************************************************)
EXTENDS Naturals, Sequences

CONSTANTS Owner,   \* whose connection this is
          RespLen  \* the length in units of the response to each request

VARIABLES asked,   \* how many requests the client has sent
          stream,  \* all it will read, unless the connection ends first
          got,     \* the part of it that it has read
          ended    \* the connection is over: nothing is put on the stream any more

Init == /\ asked = 0
        /\ stream = <<>>
        /\ got = <<>>
        /\ ended = FALSE

\* The client has sent a request to its end, or an invalid frame in place of one.
Ask == /\ ~ended
       /\ asked' = asked + 1
       /\ UNCHANGED <<stream, got, ended>>

\* The response to request n, a whole one.
Response(n) == [k \in 1..RespLen[n] |-> [from |-> Owner, num |-> n, part |-> k]]

\* Request n is answered, in any order and once.
Answered(n) == \E i \in DOMAIN stream : stream[i].num = n
Answer(n) == /\ ~ended
             /\ ~Answered(n)
             /\ stream' = stream \o Response(n)
             /\ UNCHANGED <<asked, got, ended>>

\* The client reads on.
Receive == /\ Len(got) < Len(stream)
           /\ got' = Append(got, stream[Len(got) + 1])
           /\ UNCHANGED <<asked, stream, ended>>

\* The connection is over.  What was not read yet may be lost from some point on.
End == /\ ended' = TRUE
       /\ \E n \in Len(got)..Len(stream) : stream' = SubSeq(stream, 1, n)
       /\ UNCHANGED <<asked, got>>

Next == Ask \/ (\E n \in 1..asked : Answer(n)) \/ Receive \/ End

vars == <<asked, stream, got, ended>>

Spec == Init /\ [][Next]_vars
=============================================================================
