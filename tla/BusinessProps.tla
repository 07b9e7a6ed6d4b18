--------------------------- MODULE BusinessProps ---------------------------
(***************************************************************************)
(* What the counters, the answers and the access log promise.              *)
(***************************************************************************)
EXTENDS Business

TypeOK ==
  /\ stream \in {"none", "open", "bad", "closed"}
  /\ mutex \subseteq Worker
  /\ {buffer, file} \subseteq Seq([num : 1..MaxRequests, part : {"text", "end"}])
  /\ total \in [Counters -> Nat]
  /\ next \in 1..(MaxRequests + 1)
  /\ waiting \subseteq Requests
  /\ job \in [Worker -> {Idle} \cup Jobs]
  /\ responses \subseteq Responses
  /\ uncounted \in {0, 1}
  /\ given \in [{"acks", "errors", "all"} -> Nat]
  /\ acked \subseteq 1..MaxRequests
  /\ crashes \in 0..MaxCrashes

\* What a file f holds.  The records whose text is followed by its end:
Whole(f) == {n \in 1..MaxRequests : \E i \in 1..(Len(f) - 1) :
                f[i] = Piece(n, "text") /\ f[i + 1] = Piece(n, "end")}

\* whether each end comes right after the text of its own record:
Ended(f) == \A i \in DOMAIN f : f[i].part = "end" => i > 1 /\ f[i - 1] = Piece(f[i].num, "text")

\* the places of the texts that are not followed by their end:
Torn(f) == {i \in DOMAIN f : /\ f[i].part = "text"
                             /\ i < Len(f) => f[i + 1] # Piece(f[i].num, "end")}

\* the records whose lines were ended, oldest first:
Records(f) == LET upto[i \in 0..Len(f)] == IF i = 0 THEN <<>>
                                           ELSE IF f[i].part = "end" THEN Append(upto[i - 1], f[i].num)
                                           ELSE upto[i - 1]
              IN upto[Len(f)]

\* A client that has its LOG_ACK finds its record in the file, whole and on consecutive
\* pieces, whatever other workers wrote meanwhile and although the process crashed since.
\* (What a crash tore off before it may stand in front of it on the line.)
AckedWritten == acked \subseteq Whole(file)

\* The workers that have written the text of a long record and not its end.
Tearing == {w \in Worker : job[w].at \in {"end", "flush"} /\ job[w].req.num \in Long}

\* Workers that append at the same time never mix their records: each end of a line comes
\* right after the text of its own record.  A text without one is that of a long record
\* and, unless its writer still has the mutex, a crash tore it: one for each at most.
LinesWhole == /\ Ended(file)
              /\ \A i \in Torn(file) : file[i].num \in Long
              /\ Cardinality(Torn(file)) <= crashes + Cardinality(Tearing)

\* The lines of the file and the acknowledgements are those of DurableLog: no record is
\* ended twice or goes away again, also over a crash, and none is acknowledged that was
\* not ended before.  A text that a crash tears is no record yet, and never will be one.
Lines == Records(file)
Log == INSTANCE DurableLog WITH Record <- 1..MaxRequests, lines <- Lines
ImplementsDurableLog == Log!Spec

Stats == {r \in responses : r.type = "STATS_RESP"}

\* A STATS answer reports no request that it does not report the bytes of, and no more
\* logged or refused records than requests of which it reports the bytes: the counters
\* are loaded while others change them, but in an order that keeps this much.
StatsPlausible == \A r \in Stats :
  /\ r.stat[1] <= r.stat[4]
  /\ r.stat[2] + r.stat[3] <= r.stat[4]

\* A STATS answer counts at least all that the clients had received from this process when
\* the request was sent, and the request itself; and at most what has happened by now.
StatsCurrent == \A r \in Stats :
  /\ r.stat[1] > r.req.seen.all
  /\ r.stat[2] >= r.req.seen.acks
  /\ r.stat[3] >= r.req.seen.errors
  /\ r.stat[5] >= r.req.seen.all
  /\ \A i \in 1..Len(Loads) : r.stat[i] <= total[Loads[i]]

\* When nothing is under way, the counters are the answers that were given: nothing was
\* counted twice or forgotten by workers that raced.
Quiet == /\ waiting = {} /\ responses = {} /\ uncounted = 0
         /\ \A w \in Worker : job[w] = Idle
CountersAgree == Quiet => /\ total["logs"] = given.acks
                          /\ total["errors"] = given.errors
                          /\ total["sent"] = given.all
                          /\ total["requests"] = total["recv"]

Underway(n) == \/ \E r \in waiting : r.num = n
               \/ \E w \in Worker : job[w] # Idle /\ job[w].req.num = n
               \/ \E r \in responses : r.req.num = n

\* Every request that was read comes to its end, although workers wait for the mutex of
\* the log and for the construction of LogStorage.
RequestsEnd == \A n \in 1..MaxRequests : []<>~Underway(n)
=============================================================================
