---------------------------- MODULE MCTcpServer ----------------------------
(* Instances of TcpServer for TLC. *)
EXTENDS TcpServerProps, TLC

\* The lengths of the responses to each request.
Len1  == [n \in 1..MaxReq |-> 1]
Len2  == [n \in 1..MaxReq |-> 2]
Len123 == [n \in 1..MaxReq |-> n]

\* Clients, descriptors and workers are interchangeable in the safety runs.
Symmetry == Permutations(Peer) \cup Permutations(Fd) \cup Permutations(Worker)
=============================================================================
