------------------------------ MODULE Business ------------------------------
(***************************************************************************)
(* What the workers do with the requests: Dispatcher::dispatch(), the      *)
(* handlers, the counters of StatsManager and the access log.  A worker    *)
(* takes one step for every access to state that others can see: an        *)
(* increment, a load, a step of LogStorage.  What a handler does with its  *)
(* own request and response is part of the step before.                    *)
(*                                                                         *)
(* The IO thread is TcpServer's, reduced to what it does to the counters:  *)
(* it counts what recv() read before the requests are in the queue, and    *)
(* what send() sent before it does anything else.  A request and a response*)
(* are one unit of the byte counters, whatever their lengths.  Connections *)
(* do not come and go here; handleStats()'s loads of the connections and of*)
(* the sizes of the queues are left out.                                   *)
(*                                                                         *)
(* The process may crash between any two steps and start again.            *)
(*                                                                         *)
(* Definitions whose names end in Wrong are slips that the properties must *)
(* notice; nothing uses them.                                              *)
(***************************************************************************)
EXTENDS FiniteSets, LogStorage

CONSTANTS Kinds,       \* the kinds of request that clients send
          MaxRequests, \* bound: requests that are ever sent
          MaxCrashes   \* bound: crashes

\* LOG is a LOG_PUSH whose payload is a record; of an INVALID one the payload is
\* empty, too long, no JSON or no record; of a RANGE one it is JSON with a number
\* that no double holds, which parse() reports by an out_of_range exception.
ASSUME BusinessAssumption ==
  /\ Kinds \subseteq {"PING", "ECHO", "LOG", "INVALID", "RANGE", "STATS", "UNKNOWN"}
  /\ MaxRequests \in Nat
  /\ MaxCrashes \in Nat
  /\ IsFiniteSet(Worker)

Counters == {"requests", "logs", "errors", "recv", "sent"}

VARIABLES total,     \* StatsManager's atomics
          next,      \* the number of the next request
          waiting,   \* the request queue
          job,       \* what each worker is at
          responses, \* the response queue
          uncounted, \* what was sent and is not counted yet
          given,     \* what the clients have received from this process
          acked,     \* history: the records that were ever acknowledged
          crashes

counts == <<total, given>>
history == <<acked, crashes>>
vars == <<log, counts, next, waiting, job, responses, uncounted, history>>

Zero == [c \in Counters |-> 0]

\* given counts the LOG_ACKs, the ERROR_RESPs about a LOG_PUSH, and all responses.
Nothing == [acks |-> 0, errors |-> 0, all |-> 0]

\* seen is what the clients had received when the request was sent.
Requests == [num : 1..MaxRequests, kind : Kinds, seen : [{"acks", "errors", "all"} -> Nat]]

Types == {"PONG", "ECHO_RESP", "LOG_ACK", "ERROR_RESP", "STATS_RESP"}

\* stat is what handleStats() has loaded so far.
Responses == [req : Requests, type : Types, stat : Seq(Nat)]

\* at is the worker's next step.
Idle == [at |-> "idle"]
Jobs == [at : {"respond", "refuse", "throw", "stats", "log", "lock", "text", "end",
               "flush", "unlock", "ack"},
         req : Requests, type : Types, stat : Seq(Nat)]

Init == /\ LogInit
        /\ total = Zero
        /\ next = 1
        /\ waiting = {} /\ job = [w \in Worker |-> Idle] /\ responses = {}
        /\ uncounted = 0
        /\ given = Nothing
        /\ acked = {}
        /\ crashes = 0

Count(c) == total' = [total EXCEPT ![c] = @ + 1]

-----------------------------------------------------------------------------
(* The IO thread.                                                           *)

\* recv(), incrementReadBytes(), decode() and push(): one step, for nobody else knows of
\* the request before it is in the queue.  MaxRequests bounds it.
Recv(kind) ==
  /\ uncounted = 0
  /\ next <= MaxRequests
  /\ waiting' = waiting \cup {[num |-> next, kind |-> kind,
                               seen |-> IF kind = "STATS" THEN given ELSE Nothing]}
  /\ next' = next + 1
  /\ Count("recv")
  /\ UNCHANGED <<log, given, job, responses, uncounted, history>>

\* send().  Which response is sent next is left open.
Send(r) ==
  /\ uncounted = 0
  /\ r \in responses
  /\ responses' = responses \ {r}
  /\ uncounted' = 1
  /\ given' = [acks   |-> given.acks + (IF r.type = "LOG_ACK" THEN 1 ELSE 0),
               errors |-> given.errors + (IF r.type = "ERROR_RESP" /\ r.req.kind # "UNKNOWN"
                                          THEN 1 ELSE 0),
               all    |-> given.all + 1]
  /\ acked' = acked \cup (IF r.type = "LOG_ACK" THEN {r.req.num} ELSE {})
  /\ UNCHANGED <<log, total, next, waiting, job, crashes>>

\* incrementWriteBytes() is not called.
CountSentWrong == uncounted = 1 /\ uncounted' = 0 /\ UNCHANGED total

\* incrementWriteBytes().
CountSent == uncounted = 1 /\ uncounted' = 0 /\ Count("sent")

IoCountSent == CountSent /\ UNCHANGED <<log, given, next, waiting, job, responses, history>>

-----------------------------------------------------------------------------
(* The workers.                                                             *)

At(w, at) == job[w].at = at
Goto(w, at) == job' = [job EXCEPT ![w].at = at]
io == <<next, waiting, responses, uncounted>>

\* One of handleLogPush()'s refusals forgets incrementErrors().
HandlerWrong(kind) == CASE kind \in {"PING", "ECHO", "UNKNOWN", "INVALID"} -> "respond"
                        [] kind = "LOG" -> "log"
                        [] kind = "RANGE" -> "throw"
                        [] kind = "STATS" -> "stats"

\* The handler that dispatch() calls, up to its first access to something shared.
Handler(kind) == CASE kind \in {"PING", "ECHO", "UNKNOWN"} -> "respond"
                   [] kind = "LOG" -> "log"
                   [] kind = "INVALID" -> "refuse"
                   [] kind = "RANGE" -> "throw"
                   [] kind = "STATS" -> "stats"

\* The type of the response, as long as nothing else is known.
Type(kind) == CASE kind = "PING" -> "PONG"
                [] kind = "ECHO" -> "ECHO_RESP"
                [] OTHER -> "ERROR_RESP"

\* request_queue_.pop(), incrementRequests() and the switch: until it is counted, nobody
\* can tell whether the request is still in the queue, whose order does not matter here.
Dispatch(w) == /\ At(w, "idle")
               /\ \E r \in waiting :
                    /\ waiting' = waiting \ {r}
                    /\ job' = [job EXCEPT ![w] = [at |-> Handler(r.kind), req |-> r,
                                                  type |-> Type(r.kind), stat |-> <<>>]]
               /\ Count("requests")
               /\ UNCHANGED <<log, given, next, responses, uncounted, history>>

\* A payload that is no record, or a log that is not open: an error is counted.
Refuse(w) == /\ At(w, "refuse")
             /\ Count("errors")
             /\ Goto(w, "respond")
             /\ UNCHANGED <<log, given, io, history>>

\* An exception that handleLogPush() does not catch: the worker's loop does.
Throw(w) == /\ At(w, "throw")
            /\ job' = [job EXCEPT ![w] = Idle]
            /\ UNCHANGED <<log, counts, io, history>>

\* LogStorage::getInstance(), and is_open() without the lock.
OpenLog(w) == /\ At(w, "log")
              /\ Open
              /\ UNCHANGED <<job, counts, io, history>>

CheckLog(w) == /\ At(w, "log")
               /\ stream # "none"
               /\ Goto(w, IF IsOpen THEN "lock" ELSE "refuse")
               /\ UNCHANGED <<log, counts, io, history>>

LockLog(w) == /\ At(w, "lock")
              /\ Lock(w)
              /\ Goto(w, "text")
              /\ UNCHANGED <<counts, io, history>>

WriteLine(w) == /\ At(w, "text")
                /\ Write(Piece(job[w].req.num, "text"))
                /\ Goto(w, "end")
                /\ UNCHANGED <<counts, io, history>>

WriteEnd(w) == /\ At(w, "end")
               /\ Write(Piece(job[w].req.num, "end"))
               /\ Goto(w, "flush")
               /\ UNCHANGED <<counts, io, history>>

FlushLog(w) == /\ At(w, "flush")
               /\ Flush
               /\ Goto(w, "unlock")
               /\ UNCHANGED <<counts, io, history>>

UnlockLog(w) == /\ At(w, "unlock")
                /\ Unlock(w)
                /\ Goto(w, "ack")
                /\ UNCHANGED <<counts, io, history>>

\* incrementLogMessages(): append() returned true.
Logged(w) == /\ At(w, "ack")
             /\ Count("logs")
             /\ job' = [job EXCEPT ![w].at = "respond", ![w].type = "LOG_ACK"]
             /\ UNCHANGED <<log, given, io, history>>

\* The requests are loaded last.
LoadsWrong == <<"logs", "errors", "recv", "sent", "requests">>

\* The order in which handleStats() loads the counters.
Loads == <<"requests", "logs", "errors", "recv", "sent">>

Load(w) == /\ At(w, "stats")
           /\ LET stat == Append(job[w].stat, total[Loads[Len(job[w].stat) + 1]]) IN
                job' = [job EXCEPT ![w].stat = stat,
                                   ![w].at = IF Len(stat) = Len(Loads) THEN "respond" ELSE @,
                                   ![w].type = "STATS_RESP"]
           /\ UNCHANGED <<log, counts, io, history>>

\* response_queue_.push().
Respond(w) ==
  /\ At(w, "respond")
  /\ responses' = responses \cup {[req |-> job[w].req, type |-> job[w].type, stat |-> job[w].stat]}
  /\ job' = [job EXCEPT ![w] = Idle]
  /\ UNCHANGED <<log, counts, next, waiting, uncounted, history>>

Work(w) == \/ Dispatch(w) \/ Refuse(w) \/ Throw(w)
           \/ OpenLog(w) \/ CheckLog(w) \/ LockLog(w) \/ WriteLine(w) \/ WriteEnd(w)
           \/ FlushLog(w) \/ UnlockLog(w) \/ Logged(w)
           \/ Load(w) \/ Respond(w)

Io == IoCountSent \/ \E r \in responses : Send(r)

-----------------------------------------------------------------------------

\* The process ends, and is started again: everything but the file is gone.
Crash == /\ crashes < MaxCrashes
         /\ crashes' = crashes + 1
         /\ LogCrash
         /\ total' = Zero /\ given' = Nothing
         /\ waiting' = {} /\ job' = [w \in Worker |-> Idle] /\ responses' = {} /\ uncounted' = 0
         /\ UNCHANGED <<next, acked>>

Next == \/ \E kind \in Kinds : Recv(kind)
        \/ Io
        \/ \E w \in Worker : Work(w)
        \/ Crash

Spec == Init /\ [][Next]_vars

\* Both kinds of thread are scheduled; nobody has to send or to crash.
FairSpec == /\ Spec
            /\ WF_vars(Io)
            /\ \A w \in Worker : WF_vars(Work(w))
=============================================================================
