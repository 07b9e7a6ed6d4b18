----------------------------- MODULE DurableLog -----------------------------
(***************************************************************************)
(* The abstract specification of the access log: records are added at the  *)
(* end, one at a time and each at most once, and a client may only be told *)
(* of a record that is there.  A crash is no step of this specification:   *)
(* it takes nothing away.                                                  *)
(***************************************************************************)
EXTENDS Naturals, Sequences, Functions

CONSTANT Record  \* what may be pushed: the numbers of requests

VARIABLES lines,  \* the records of the log, oldest first
          acked   \* the records whose clients have their LOG_ACK

Init == lines = <<>> /\ acked = {}

Add(n) == /\ n \notin Range(lines)
          /\ lines' = Append(lines, n)
          /\ UNCHANGED acked

Acknowledge(n) == /\ n \in Range(lines)
                  /\ acked' = acked \cup {n}
                  /\ UNCHANGED lines

Next == \E n \in Record : Add(n) \/ Acknowledge(n)

Spec == Init /\ [][Next]_<<lines, acked>>
=============================================================================
