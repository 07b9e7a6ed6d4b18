--------------------------- MODULE BusinessProofs ---------------------------
(***************************************************************************)
(* Proofs about Business, for any number of workers, requests and crashes. *)
(***************************************************************************)
EXTENDS BusinessProps, Induction, SequenceTheorems

USE DEF At, Goto, counts, io, history, log

Pieces == [num : 1..MaxRequests, part : {"text", "end"}]

LEMMA Working ==
  ASSUME TypeOK, NEW w \in Worker, job[w].at # "idle"
  PROVE  /\ job[w] \in Jobs
         /\ job[w].req \in Requests
         /\ job[w].req.num \in 1..MaxRequests
  BY DEF TypeOK, Jobs, Idle, Requests

\* What becomes of a worker's job.
LEMMA JobTypeOK ==
  ASSUME TypeOK, NEW w \in Worker, NEW j \in {Idle} \cup Jobs, job' = [job EXCEPT ![w] = j]
  PROVE  job' \in [Worker -> {Idle} \cup Jobs]
  BY DEF TypeOK

LEMMA CountTypeOK ==
  ASSUME TypeOK, NEW c \in Counters, Count(c)
  PROVE  total' \in [Counters -> Nat]
  BY DEF TypeOK, Count

\* What writing does to the stream.
LEMMA StoreTypeOK ==
  ASSUME TypeOK, NEW s \in Seq(Pieces), Store(s)
  PROVE  /\ file' \in Seq(Pieces) /\ buffer' \in Seq(Pieces) /\ mutex' = mutex
         /\ stream' \in {"none", "open", "bad", "closed"}
  <1>1. file \in Seq(Pieces)
    BY DEF TypeOK, Pieces
  <1>2. \A k \in 0..Len(s) : SubSeq(s, 1, k) \in Seq(Pieces)
    OBVIOUS
  <1>3. <<>> \in Seq(Pieces) /\ file \o s \in Seq(Pieces)
        /\ \A k \in 0..Len(s) : file \o SubSeq(s, 1, k) \in Seq(Pieces)
    BY <1>1, <1>2
  <1> QED
    BY <1>3 DEF Store, TypeOK

LEMMA WriteTypeOK ==
  ASSUME TypeOK, NEW p \in Pieces, Write(p)
  PROVE  /\ file' \in Seq(Pieces) /\ buffer' \in Seq(Pieces) /\ mutex' = mutex
         /\ stream' \in {"none", "open", "bad", "closed"}
  <1>1. file \in Seq(Pieces) /\ buffer \in Seq(Pieces) /\ Append(buffer, p) \in Seq(Pieces)
    BY DEF TypeOK, Pieces
  <1>2. CASE Store(Append(buffer, p))
    BY <1>1, <1>2, StoreTypeOK
  <1> QED
    BY <1>1, <1>2 DEF Write, TypeOK

\* handleStats() has not loaded everything as long as it loads.
Partial == \A w \in Worker : job[w].at = "stats" => Len(job[w].stat) < 5

LEMMA FewLoaded ==
  ASSUME NEW s \in Seq(Nat), Len(s) < 5
  PROVE  Len(s) \in 0..4
  <1>1. Len(s) \in Nat
    OBVIOUS
  <1>2. \A n \in Nat : n < 5 => n \in 0..4
    OBVIOUS
  <1> QED
    BY <1>1, <1>2, Zenon

\* The counter that is loaded next.
LEMMA LoadOK ==
  ASSUME TypeOK, NEW n \in 0..4
  PROVE  Loads[n + 1] \in Counters /\ total[Loads[n + 1]] \in Nat
  BY DEF TypeOK, Loads, Counters

LEMMA TypeInit == Init => TypeOK
  <1> SUFFICES ASSUME Init PROVE TypeOK
    OBVIOUS
  <1>1. total \in [Counters -> Nat] /\ given \in [{"acks", "errors", "all"} -> Nat]
    BY DEF Init, Zero, Nothing
  <1>2. <<>> \in Seq(Pieces)
    OBVIOUS
  <1> QED
    BY <1>1, <1>2, BusinessAssumption DEF Init, LogInit, TypeOK, Pieces

LEMMA TypeStep == TypeOK /\ Partial /\ [Next]_vars => TypeOK'
  <1> SUFFICES ASSUME TypeOK, Partial, [Next]_vars PROVE TypeOK'
    OBVIOUS
  <1>a. Seq(Pieces) = Seq([num : 1..MaxRequests, part : {"text", "end"}])
    BY DEF Pieces
  <1>1. ASSUME NEW kind \in Kinds, Recv(kind) PROVE TypeOK'
    <2>1. [num |-> next, kind |-> kind, seen |-> IF kind = "STATS" THEN given ELSE Nothing] \in Requests
      BY <1>1, BusinessAssumption DEF Recv, TypeOK, Requests, Nothing
    <2>2. total' \in [Counters -> Nat]
      BY <1>1, CountTypeOK DEF Recv, Counters
    <2>3. next' \in 1..(MaxRequests + 1)
      BY <1>1, BusinessAssumption DEF Recv, TypeOK
    <2> QED
      BY <1>1, <2>1, <2>2, <2>3 DEF Recv, TypeOK
  <1>2. ASSUME IoCountSent PROVE TypeOK'
    <2>1. total' \in [Counters -> Nat]
      BY <1>2, CountTypeOK DEF IoCountSent, CountSent, Counters
    <2> QED
      BY <1>2, <2>1 DEF IoCountSent, CountSent, TypeOK
  <1>3. ASSUME NEW r \in responses, Send(r) PROVE TypeOK'
    <2>1. given' \in [{"acks", "errors", "all"} -> Nat]
      BY <1>3 DEF Send, TypeOK
    <2>2. r.req.num \in 1..MaxRequests
      BY DEF TypeOK, Responses, Requests
    <2> QED
      BY <1>3, <2>1, <2>2 DEF Send, TypeOK
  <1>4. ASSUME NEW w \in Worker, Work(w) PROVE TypeOK'
    <2>1. CASE Dispatch(w)
      <3>1. total' \in [Counters -> Nat]
        BY <2>1, CountTypeOK DEF Dispatch, Counters
      <3>2. PICK r \in waiting : /\ waiting' = waiting \ {r}
                                 /\ job' = [job EXCEPT ![w] = [at |-> Handler(r.kind), req |-> r,
                                                  type |-> Type(r.kind), stat |-> <<>>]]
        BY <2>1 DEF Dispatch
      <3>3. r \in Requests /\ r.kind \in Kinds
        BY DEF TypeOK, Requests
      <3>4. Handler(r.kind) \in {"respond", "refuse", "throw", "stats", "log"} /\ Type(r.kind) \in Types
        BY <3>3, BusinessAssumption DEF Handler, Type, Types
      <3>5. [at |-> Handler(r.kind), req |-> r, type |-> Type(r.kind), stat |-> <<>>] \in Jobs
        BY <3>3, <3>4 DEF Jobs
      <3>6. job' \in [Worker -> {Idle} \cup Jobs]
        BY <3>2, <3>5, JobTypeOK
      <3> QED
        BY <2>1, <3>1, <3>2, <3>6 DEF Dispatch, TypeOK
    <2>2. CASE Refuse(w)
      <3>1. total' \in [Counters -> Nat]
        BY <2>2, CountTypeOK DEF Refuse, Counters
      <3>2. job' \in [Worker -> {Idle} \cup Jobs]
        BY <2>2, Working DEF Refuse, TypeOK, Jobs
      <3> QED
        BY <2>2, <3>1, <3>2 DEF Refuse, TypeOK
    <2>3. CASE Throw(w)
      BY <2>3 DEF Throw, TypeOK
    <2>4. CASE OpenLog(w)
      BY <2>4 DEF OpenLog, Open, TypeOK
    <2>5. CASE CheckLog(w)
      <3>1. job' \in [Worker -> {Idle} \cup Jobs]
        BY <2>5, Working DEF CheckLog, TypeOK, Jobs
      <3> QED
        BY <2>5, <3>1 DEF CheckLog, TypeOK
    <2>6. CASE LockLog(w)
      <3>1. job' \in [Worker -> {Idle} \cup Jobs]
        BY <2>6, Working DEF LockLog, TypeOK, Jobs
      <3> QED
        BY <2>6, <3>1 DEF LockLog, Lock, TypeOK
    <2>7. CASE WriteLine(w) \/ WriteEnd(w)
      <3>1. job' \in [Worker -> {Idle} \cup Jobs]
        <4>1. PICK at \in {"end", "flush"} : job' = [job EXCEPT ![w].at = at]
          BY <2>7 DEF WriteLine, WriteEnd
        <4>2. job[w] \in Jobs
          BY <2>7, Working DEF WriteLine, WriteEnd
        <4>3. [job[w] EXCEPT !.at = at] \in Jobs
          BY <4>2 DEF Jobs
        <4> QED
          BY <4>1, <4>3, JobTypeOK
      <3>2. Piece(job[w].req.num, "text") \in Pieces /\ Piece(job[w].req.num, "end") \in Pieces
        BY <2>7, Working DEF WriteLine, WriteEnd, Piece, Pieces
      <3>3. PICK p \in Pieces : Write(p)
        BY <2>7, <3>2 DEF WriteLine, WriteEnd
      <3>4. /\ file' \in Seq(Pieces) /\ buffer' \in Seq(Pieces) /\ mutex' = mutex
            /\ stream' \in {"none", "open", "bad", "closed"}
        BY <3>3, WriteTypeOK
      <3>5. UNCHANGED <<counts, io, history>>
        BY <2>7 DEF WriteLine, WriteEnd
      <3> QED
        BY <3>1, <3>4, <3>5, <1>a DEF io, TypeOK
    <2>8. CASE FlushLog(w)
      <3>1. job' \in [Worker -> {Idle} \cup Jobs]
        BY <2>8, Working DEF FlushLog, TypeOK, Jobs
      <3>2. buffer \in Seq(Pieces)
        BY DEF TypeOK, Pieces
      <3>4. file' \in Seq(Pieces) /\ buffer' \in Seq(Pieces) /\ mutex' = mutex
            /\ stream' \in {"none", "open", "bad", "closed"}
        BY <2>8, <3>2, StoreTypeOK DEF FlushLog, Flush
      <3> QED
        BY <2>8, <3>1, <3>4, <1>a DEF FlushLog, TypeOK
    <2>9. CASE UnlockLog(w)
      <3>1. job' \in [Worker -> {Idle} \cup Jobs]
        BY <2>9, Working DEF UnlockLog, TypeOK, Jobs
      <3> QED
        BY <2>9, <3>1 DEF UnlockLog, Unlock, TypeOK
    <2>10. CASE Logged(w)
      <3>1. total' \in [Counters -> Nat]
        BY <2>10, CountTypeOK DEF Logged, Counters
      <3>2. job' \in [Worker -> {Idle} \cup Jobs]
        <4>1. [job[w] EXCEPT !.at = "respond", !.type = "LOG_ACK"] \in Jobs
          BY <2>10, Working DEF Logged, Jobs, Types
        <4>2. job' = [job EXCEPT ![w] = [job[w] EXCEPT !.at = "respond", !.type = "LOG_ACK"]]
          BY <2>10 DEF Logged
        <4> QED
          BY <4>1, <4>2, JobTypeOK
      <3> QED
        BY <2>10, <3>1, <3>2 DEF Logged, TypeOK
    <2>11. CASE Load(w)
      <3> DEFINE stat == Append(job[w].stat, total[Loads[Len(job[w].stat) + 1]])
                 at == IF Len(stat) = Len(Loads) THEN "respond" ELSE job[w].at
      <3>1. job[w] \in Jobs
        BY <2>11, Working DEF Load
      <3>2. Len(job[w].stat) < 5
        BY <2>11 DEF Load, Partial
      <3>3. stat \in Seq(Nat) /\ at \in {"respond", "stats"}
        <4>1. job[w].stat \in Seq(Nat) /\ Len(job[w].stat) \in 0..4
          BY <3>1, <3>2, FewLoaded DEF Jobs
        <4>2. total[Loads[Len(job[w].stat) + 1]] \in Nat
          BY <4>1, LoadOK
        <4> QED
          BY <2>11, <4>1, <4>2 DEF Load
      <3> HIDE DEF stat, at
      <3>4. job' = [job EXCEPT ![w] = [job[w] EXCEPT !.stat = stat, !.at = at, !.type = "STATS_RESP"]]
        BY <2>11 DEF Load, stat, at
      <3>5. [job[w] EXCEPT !.stat = stat, !.at = at, !.type = "STATS_RESP"] \in Jobs
        BY <3>1, <3>3 DEF Jobs, Types
      <3>6. job' \in [Worker -> {Idle} \cup Jobs]
        BY <3>4, <3>5, JobTypeOK
      <3> QED
        BY <2>11, <3>6 DEF Load, TypeOK
    <2>12. CASE Respond(w)
      <3>1. [req |-> job[w].req, type |-> job[w].type, stat |-> job[w].stat] \in Responses
        BY <2>12, Working DEF Respond, Jobs, Responses
      <3> QED
        BY <2>12, <3>1 DEF Respond, TypeOK
    <2> QED
      BY <1>4, <2>1, <2>2, <2>3, <2>4, <2>5, <2>6, <2>7, <2>8, <2>9, <2>10, <2>11, <2>12 DEF Work
  <1>5. CASE Crash
    <2>1. Zero \in [Counters -> Nat] /\ Nothing \in [{"acks", "errors", "all"} -> Nat]
      BY DEF Zero, Nothing
    <2>2. crashes' \in 0..MaxCrashes
      BY <1>5, BusinessAssumption DEF Crash, TypeOK
    <2>3. <<>> \in Seq(Pieces)
      OBVIOUS
    <2> QED
      BY <1>5, <2>1, <2>2, <2>3, <1>a DEF Crash, LogCrash, TypeOK
  <1>6. CASE UNCHANGED vars
    BY <1>6 DEF vars, TypeOK
  <1> QED
    BY <1>1, <1>2, <1>3, <1>4, <1>5, <1>6 DEF Next, Io

-----------------------------------------------------------------------------
LEMMA LenLoads == Len(Loads) = 5
  BY DEF Loads

LEMMA PartialStep == TypeOK /\ Partial /\ [Next]_vars => Partial'
  <1> SUFFICES ASSUME TypeOK, Partial, [Next]_vars, NEW v \in Worker, job'[v].at = "stats"
               PROVE  Len(job'[v].stat) < 5
    BY DEF Partial
  <1>1. ASSUME NEW w \in Worker, Work(w) PROVE Len(job'[v].stat) < 5
    <2>1. job \in [Worker -> {Idle} \cup Jobs]
      BY DEF TypeOK
    <2>2. CASE Dispatch(w)
      <3>1. PICK r \in waiting : job' = [job EXCEPT ![w] = [at |-> Handler(r.kind), req |-> r,
                                                  type |-> Type(r.kind), stat |-> <<>>]]
        BY <2>2 DEF Dispatch
      <3> QED
        BY <2>1, <3>1 DEF Partial
    <2>3. CASE Load(w)
      <3>1. job[w] \in Jobs
        BY <2>3, Working DEF Load
      <3>2. Len(job[w].stat) \in 0..4
        <4>1. job[w].stat \in Seq(Nat) /\ Len(job[w].stat) < 5
          BY <2>3, <3>1 DEF Load, Partial, Jobs
        <4> QED
          BY <4>1, FewLoaded
      <3>3. total[Loads[Len(job[w].stat) + 1]] \in Nat
        BY <3>2, LoadOK
      <3> QED
        BY <2>1, <2>3, <3>1, <3>2, <3>3, LenLoads DEF Load, Partial, Jobs
    <2>4. CASE Respond(w) \/ Throw(w)
      BY <2>1, <2>4 DEF Respond, Throw, Idle, Partial
    <2>5. CASE OpenLog(w)
      BY <2>5 DEF OpenLog, Partial
    <2>6. CASE Refuse(w) \/ CheckLog(w)
      <3>1. job[w] \in Jobs
        BY <2>6, Working DEF Refuse, CheckLog
      <3>2. job'[w].at # "stats" /\ \A u \in Worker \ {w} : job'[u] = job[u]
        BY <2>1, <2>6, <3>1 DEF Refuse, CheckLog, Jobs
      <3> QED
        BY <3>2 DEF Partial
    <2>7. CASE LockLog(w) \/ WriteLine(w) \/ WriteEnd(w)
      <3>1. job[w] \in Jobs
        BY <2>7, Working DEF LockLog, WriteLine, WriteEnd
      <3>2. job'[w].at # "stats" /\ \A u \in Worker \ {w} : job'[u] = job[u]
        BY <2>1, <2>7, <3>1 DEF LockLog, WriteLine, WriteEnd, Jobs
      <3> QED
        BY <3>2 DEF Partial
    <2>8. CASE FlushLog(w) \/ UnlockLog(w) \/ Logged(w)
      <3>1. job[w] \in Jobs
        BY <2>8, Working DEF FlushLog, UnlockLog, Logged
      <3>2. job'[w].at # "stats" /\ \A u \in Worker \ {w} : job'[u] = job[u]
        BY <2>1, <2>8, <3>1 DEF FlushLog, UnlockLog, Logged, Jobs
      <3> QED
        BY <3>2 DEF Partial
    <2> QED
      BY <1>1, <2>2, <2>3, <2>4, <2>5, <2>6, <2>7, <2>8 DEF Work
  <1>2. CASE Crash
    BY <1>2 DEF Crash, Idle
  <1>3. CASE UNCHANGED job
    BY <1>3 DEF Partial
  <1> QED
    BY <1>1, <1>2, <1>3 DEF Next, Io, IoCountSent, Send, Recv, vars

\* Type correctness: TypeOK is an invariant.
THEOREM TypeCorrect == Spec => []TypeOK
  <1>1. Init => TypeOK /\ Partial
    BY TypeInit DEF Init, Idle, Partial
  <1>2. TypeOK /\ Partial /\ [Next]_vars => TypeOK' /\ Partial'
    BY TypeStep, PartialStep
  <1> QED
    BY <1>1, <1>2, PTL DEF Spec

-----------------------------------------------------------------------------
(* The mutex and the buffer, when writing does not fail.                    *)

Critical == {"text", "end", "flush", "unlock"}

\* The text of record n was written: to the file or into the buffer.
Begun(n) == n \in Long => file # <<>> /\ file[Len(file)] = Piece(n, "text")
Kept(n) == IF n \in Long THEN <<>> ELSE <<Piece(n, "text")>>

\* The buffer is what the worker w has written so far and is not in the file.
Buffered(w) ==
  LET n == job[w].req.num IN
  /\ job[w].at \in {"text", "unlock"} => buffer = <<>>
  /\ job[w].at = "end" => Begun(n) /\ buffer = Kept(n)
  /\ job[w].at = "flush" => Begun(n) /\ buffer = Append(Kept(n), Piece(n, "end"))

\* One worker at most is between lock() and unlock(), and the buffer is its own.
Exclusive == /\ stream # "bad"
             /\ \A w \in Worker : w \in mutex <=> job[w].at \in Critical
             /\ \A v, w \in mutex : v = w
             /\ mutex = {} => buffer = <<>>
             /\ \A w \in mutex : Buffered(w)

LEMMA ExclusiveInit == Init => Exclusive
  BY DEF Init, LogInit, Exclusive, Idle, Critical

LEMMA ExclusiveStep ==
  ASSUME TypeOK, Exclusive, "write" \notin Faults, [Next]_vars
  PROVE  Exclusive'
  <1>0. job \in [Worker -> {Idle} \cup Jobs] /\ mutex \subseteq Worker
    BY DEF TypeOK
  \* A worker that comes and goes outside of the lock.
  <1>a. ASSUME NEW w \in Worker, NEW j, job' = [job EXCEPT ![w] = j],
               job[w].at \notin Critical, j.at \notin Critical,
               UNCHANGED <<mutex, buffer, file>>, stream' # "bad"
        PROVE  Exclusive'
    <2>1. w \notin mutex /\ job'[w] = j /\ \A u \in Worker \ {w} : job'[u] = job[u]
      BY <1>a, <1>0 DEF Exclusive
    <2> QED
      BY <1>a, <1>0, <2>1 DEF Exclusive, Buffered, Begun
  <1>1. ASSUME NEW w \in Worker, Work(w) PROVE Exclusive'
    <2>0. stream' # "bad"
      BY <1>1 DEF Work, Exclusive, Dispatch, Refuse, Throw, OpenLog, Open, CheckLog, LockLog, Lock,
                  WriteLine, WriteEnd, Write, Store, FlushLog, Flush, UnlockLog, Unlock, Logged, Load,
                  Respond
    <2>1. CASE Dispatch(w)
      <3>1. PICK r \in waiting : job' = [job EXCEPT ![w] = [at |-> Handler(r.kind), req |-> r,
                                                  type |-> Type(r.kind), stat |-> <<>>]]
        BY <2>1 DEF Dispatch
      <3>2. Handler(r.kind) \notin Critical
        BY BusinessAssumption DEF Handler, Critical, TypeOK, Requests
      <3> QED
        BY <2>0, <2>1, <3>1, <3>2, <1>a DEF Dispatch, Critical
    <2>2. CASE Refuse(w) \/ CheckLog(w)
      <3>1. job[w] \in Jobs
        BY <2>2, Working DEF Refuse, CheckLog
      <3>2. PICK at \in {"respond", "lock", "refuse"} : job' = [job EXCEPT ![w].at = at]
        BY <2>2 DEF Refuse, CheckLog
      <3>3. job' = [job EXCEPT ![w] = [job[w] EXCEPT !.at = at]]
        BY <3>2
      <3>4. [job[w] EXCEPT !.at = at].at = at
        BY <3>1 DEF Jobs
      <3> QED
        BY <2>0, <2>2, <3>3, <3>4, <1>a DEF Refuse, CheckLog, Critical
    <2>3. CASE Throw(w) \/ Respond(w)
      BY <2>0, <2>3, <1>a DEF Throw, Respond, Critical, Idle
    <2>4. CASE OpenLog(w)
      BY <2>0, <2>4 DEF OpenLog, Open, Exclusive, Buffered, Begun
    <2>5. CASE LockLog(w)
      <3>1. job[w] \in Jobs
        BY <2>5, Working DEF LockLog
      <3>2. mutex = {} /\ mutex' = {w} /\ buffer = <<>> /\ buffer' = <<>>
        BY <2>5 DEF LockLog, Lock, Free, Exclusive
      <3>3. job'[w].at = "text" /\ \A u \in Worker \ {w} : job'[u] = job[u]
        BY <2>5, <3>1, <1>0 DEF LockLog, Jobs
      <3> QED
        BY <2>0, <3>2, <3>3 DEF Exclusive, Buffered, Critical
    <2>6. CASE WriteLine(w) \/ WriteEnd(w) \/ FlushLog(w)
      <3>1. job[w] \in Jobs /\ job[w].req \in Requests
        BY <2>6, Working DEF WriteLine, WriteEnd, FlushLog
      <3>2. w \in mutex /\ mutex' = mutex /\ Buffered(w)
        BY <2>6 DEF WriteLine, WriteEnd, FlushLog, Write, Flush, Store, Exclusive, Critical
      <3>3. PICK at \in {"end", "flush", "unlock"} : job' = [job EXCEPT ![w].at = at]
        BY <2>6 DEF WriteLine, WriteEnd, FlushLog
      <3>4. job'[w].at = at /\ job'[w].req = job[w].req /\ \A u \in Worker \ {w} : job'[u] = job[u]
        BY <3>1, <3>3, <1>0 DEF Jobs
      <3>5. Buffered(w)'
        <4>1. CASE WriteLine(w)
          <5> DEFINE n == job[w].req.num
                     t == Piece(n, "text")
          <5>1. buffer = <<>> /\ job'[w].at = "end" /\ Write(t) /\ stream # "bad"
            BY <4>1, <3>1, <3>2, <1>0 DEF WriteLine, Exclusive, Buffered, Jobs
          <5>2. Direct(t) <=> n \in Long
            BY DEF Direct, Piece
          <5>3. file \in Seq(Pieces) /\ t \in Pieces
            BY <3>1 DEF TypeOK, Pieces, Piece, Requests
          <5> HIDE DEF n, t
          <5>4. Append(<<>>, t) = <<t>>
            BY <5>3
          <5>5. CASE n \in Long
            <6>1. buffer' = <<>> /\ file' = file \o <<t>>
              BY <5>1, <5>2, <5>4, <5>5 DEF Write, Store
            <6>2. file' # <<>> /\ file'[Len(file')] = t
              BY <5>3, <6>1
            <6> QED
              BY <3>4, <5>1, <5>5, <6>1, <6>2 DEF Buffered, Begun, Kept, n, t
          <5>6. CASE n \notin Long
            <6>1. buffer' = <<t>>
              BY <5>1, <5>2, <5>4, <5>6 DEF Write
            <6> QED
              BY <3>4, <5>1, <5>6, <6>1 DEF Buffered, Begun, Kept, n, t
          <5> QED
            BY <5>5, <5>6
        <4>2. CASE WriteEnd(w)
          <5>1. /\ Begun(job[w].req.num) /\ buffer = Kept(job[w].req.num) /\ job'[w].at = "flush"
                /\ Write(Piece(job[w].req.num, "end")) /\ stream # "bad"
            BY <4>2, <3>1, <3>2, <1>0 DEF WriteEnd, Exclusive, Buffered, Jobs
          <5>2. ~Direct(Piece(job[w].req.num, "end"))
            BY DEF Direct, Piece
          <5>3. buffer' = Append(Kept(job[w].req.num), Piece(job[w].req.num, "end")) /\ file' = file
            BY <5>1, <5>2 DEF Write
          <5> QED
            BY <5>1, <5>3, <3>4 DEF Buffered, Begun, Kept
        <4>3. CASE FlushLog(w)
          <5>1. buffer' = <<>> /\ job'[w].at = "unlock"
            BY <4>3, <3>1, <1>0 DEF FlushLog, Flush, Store, Jobs
          <5> QED
            BY <5>1, <3>4 DEF Buffered
        <4> QED
          BY <2>6, <4>1, <4>2, <4>3
      <3> QED
        BY <2>0, <2>6, <3>2, <3>4, <3>5, <1>0 DEF WriteLine, WriteEnd, FlushLog, Exclusive, Critical
    <2>7. CASE UnlockLog(w)
      <3>1. job[w] \in Jobs
        BY <2>7, Working DEF UnlockLog
      <3>2. w \in mutex /\ mutex' = {} /\ buffer' = <<>>
        BY <2>7 DEF UnlockLog, Unlock, Exclusive, Buffered, Critical
      <3>3. job'[w].at = "ack" /\ \A u \in Worker \ {w} : job'[u] = job[u] /\ u \notin mutex
        BY <2>7, <3>1, <3>2, <1>0 DEF UnlockLog, Exclusive, Jobs
      <3> QED
        BY <2>0, <3>2, <3>3 DEF Exclusive, Critical
    <2>8. CASE Logged(w)
      <3>1. job[w] \in Jobs
        BY <2>8, Working DEF Logged
      <3>2. job' = [job EXCEPT ![w] = [job[w] EXCEPT !.at = "respond", !.type = "LOG_ACK"]]
        BY <2>8 DEF Logged
      <3>3. [job[w] EXCEPT !.at = "respond", !.type = "LOG_ACK"].at = "respond"
        BY <3>1 DEF Jobs
      <3> QED
        BY <2>0, <2>8, <3>2, <3>3, <1>a DEF Logged, Critical
    <2>9. CASE Load(w)
      <3> DEFINE stat == Append(job[w].stat, total[Loads[Len(job[w].stat) + 1]])
                 at == IF Len(stat) = Len(Loads) THEN "respond" ELSE job[w].at
                 j == [job[w] EXCEPT !.stat = stat, !.at = at, !.type = "STATS_RESP"]
      <3>1. job[w] \in Jobs
        BY <2>9, Working DEF Load
      <3>2. at \notin Critical
        BY <2>9 DEF Load, Critical
      <3>3. job' = [job EXCEPT ![w] = j]
        BY <2>9 DEF Load
      <3> HIDE DEF at, stat
      <3>4. j.at = at
        BY <3>1 DEF Jobs
      <3> QED
        BY <2>0, <2>9, <3>2, <3>3, <3>4, <1>a DEF Load, Critical
    <2> QED
      BY <1>1, <2>1, <2>2, <2>3, <2>4, <2>5, <2>6, <2>7, <2>8, <2>9 DEF Work
  <1>2. CASE Crash
    BY <1>2 DEF Crash, LogCrash, Exclusive, Idle, Critical
  <1>3. CASE UNCHANGED <<log, job>>
    BY <1>3 DEF Exclusive, Buffered, Begun
  <1> QED
    BY <1>1, <1>2, <1>3 DEF Next, Io, IoCountSent, CountSent, Send, Recv, vars

-----------------------------------------------------------------------------
(* The records of a file.                                                   *)

\* u[i] is the records of the first i pieces of f.
Follows(u, f) == u = [i \in 0..Len(f) |-> IF i = 0 THEN <<>>
                                         ELSE IF f[i].part = "end" THEN Append(u[i - 1], f[i].num)
                                         ELSE u[i - 1]]

LEMMA RecordsUpto ==
  ASSUME NEW f \in Seq(Pieces)
  PROVE  \E u \in [0..Len(f) -> Seq(Nat)] :
            /\ u[0] = <<>> /\ Records(f) = u[Len(f)]
            /\ \A i \in 1..Len(f) :
                 u[i] = IF f[i].part = "end" THEN Append(u[i - 1], f[i].num) ELSE u[i - 1]
  <1> DEFINE n == Len(f)
             S == Seq(Nat)
             step == [x \in (1..n) \X S |-> IF f[x[1]].part = "end" THEN Append(x[2], f[x[1]].num) ELSE x[2]]
  <1>1. n \in Nat /\ <<>> \in S /\ \A i \in 1..n : f[i].num \in Nat
    <2>1. n \in Nat /\ <<>> \in S /\ \A i \in 1..n : f[i] \in Pieces
      OBVIOUS
    <2>2. \A p \in Pieces : p.num \in Nat
      BY BusinessAssumption DEF Pieces
    <2> QED
      BY <2>1, <2>2, Zenon
  <1>2. \A a \in S : \A m \in Nat : Append(a, m) \in S
    OBVIOUS
  <1> HIDE DEF n, S
  <1>3. step \in [(1..n) \X S -> S]
    BY <1>1, <1>2
  <1>4. \A i \in 1..n : \A a \in S : step[<<i, a>>] = IF f[i].part = "end" THEN Append(a, f[i].num) ELSE a
    OBVIOUS
  <1> HIDE DEF step
  <1>5. \E u : Recursive(u, n, S, <<>>, step)
    BY <1>1, <1>3, Recursion DEF Steps
  <1>6. PICK u : Recursive(u, n, S, <<>>, step)
    BY <1>5
  <1>7. u \in [0..n -> S] /\ u[0] = <<>> /\ \A i \in 1..n : u[i] = step[<<i, u[i - 1]>>]
    BY <1>6 DEF Recursive
  <1>8. \A i \in 1..n : i - 1 \in 0..n /\ u[i - 1] \in S
    BY <1>1, <1>7
  <1>9. \A i \in 1..n : u[i] = IF f[i].part = "end" THEN Append(u[i - 1], f[i].num) ELSE u[i - 1]
    BY <1>4, <1>7, <1>8
  <1>10. Follows(u, f)
    <2>1. \A i \in 0..n : u[i] = IF i = 0 THEN <<>>
                                 ELSE IF f[i].part = "end" THEN Append(u[i - 1], f[i].num) ELSE u[i - 1]
      <3> TAKE i \in 0..n
      <3>1. i = 0 \/ (i # 0 /\ i \in 1..n)
        BY <1>1
      <3> QED
        BY <1>7, <1>9, <3>1, Zenon
    <2>2. u = [i \in 0..n |-> u[i]]
      BY <1>7
    <2>3. [i \in 0..n |-> u[i]] = [i \in 0..n |-> IF i = 0 THEN <<>>
             ELSE IF f[i].part = "end" THEN Append(u[i - 1], f[i].num) ELSE u[i - 1]]
      BY <2>1, Zenon
    <2> QED
      BY <2>2, <2>3, Zenon DEF Follows, n
  <1> DEFINE g == CHOOSE g : Follows(g, f)
  <1>11. Follows(g, f)
    BY <1>10
  <1>12. Records(f) = g[n]
    BY DEF Records, Follows, n
  <1> HIDE DEF g
  <1>13. g[0] = <<>> /\ \A i \in 1..n : g[i] = IF f[i].part = "end" THEN Append(g[i - 1], f[i].num) ELSE g[i - 1]
    <2> DEFINE F(i) == IF i = 0 THEN <<>> ELSE IF f[i].part = "end" THEN Append(g[i - 1], f[i].num) ELSE g[i - 1]
    <2>1. g = [i \in 0..n |-> F(i)]
      BY <1>11 DEF Follows, n
    <2>2. \A i \in 0..n : g[i] = F(i)
      <3> HIDE DEF F
      <3> QED
        BY <2>1, Zenon
    <2>3. 0 \in 0..n /\ \A i \in 1..n : i \in 0..n /\ i # 0
      BY <1>1
    <2> QED
      BY <2>2, <2>3, Zenon
  <1>14. 0..n \subseteq {i \in 0..n : g[i] = u[i]}
    <2> DEFINE C == {i \in 0..n : g[i] = u[i]}
    <2>1. 0 \in C
      BY <1>1, <1>7, <1>13
    <2>2. \A k \in 0..n : k \in C /\ k < n => k + 1 \in C
      <3> SUFFICES ASSUME NEW k \in 0..n, g[k] = u[k], k < n PROVE k + 1 \in 0..n /\ g[k + 1] = u[k + 1]
        OBVIOUS
      <3>1. k + 1 \in 1..n /\ (k + 1) - 1 = k /\ k + 1 \in 0..n
        BY <1>1
      <3> QED
        BY <1>9, <1>13, <3>1
    <2> HIDE DEF C
    <2>3. 0..n \subseteq C
      BY <1>1, <2>1, <2>2, Upwards
    <2> QED
      BY <2>3 DEF C
  <1>15. Records(f) = u[n]
    BY <1>1, <1>12, <1>14
  <1> QED
    BY <1>7, <1>9, <1>15 DEF n, S

LEMMA RecordsAppend ==
  ASSUME NEW f \in Seq(Pieces), NEW p \in Pieces
  PROVE  /\ Records(f) \in Seq(Nat)
         /\ Records(Append(f, p)) = IF p.part = "end" THEN Append(Records(f), p.num) ELSE Records(f)
  <1> DEFINE n == Len(f)
             h == Append(f, p)
  <1>1. n \in Nat /\ h \in Seq(Pieces) /\ Len(h) = n + 1 /\ h[n + 1] = p /\ \A i \in 1..n : h[i] = f[i]
    OBVIOUS
  <1>2. PICK u \in [0..n -> Seq(Nat)] :
            /\ u[0] = <<>> /\ Records(f) = u[n]
            /\ \A i \in 1..n : u[i] = IF f[i].part = "end" THEN Append(u[i - 1], f[i].num) ELSE u[i - 1]
    BY RecordsUpto
  <1> HIDE DEF h
  <1>3. PICK v \in [0..(n + 1) -> Seq(Nat)] :
            /\ v[0] = <<>> /\ Records(h) = v[n + 1]
            /\ \A i \in 1..(n + 1) : v[i] = IF h[i].part = "end" THEN Append(v[i - 1], h[i].num) ELSE v[i - 1]
    <2>1. \E v \in [0..Len(h) -> Seq(Nat)] :
            /\ v[0] = <<>> /\ Records(h) = v[Len(h)]
            /\ \A i \in 1..Len(h) : v[i] = IF h[i].part = "end" THEN Append(v[i - 1], h[i].num) ELSE v[i - 1]
      BY <1>1, RecordsUpto, Zenon
    <2>2. Len(h) = n + 1
      BY <1>1
    <2> QED
      BY <2>1, <2>2, Zenon
  <1> HIDE DEF n
  <1>4. 0..n \subseteq {i \in 0..n : v[i] = u[i]}
    <2> DEFINE C == {i \in 0..n : v[i] = u[i]}
    <2>1. 0 \in C
      BY <1>1, <1>2, <1>3
    <2>2. \A k \in 0..n : k \in C /\ k < n => k + 1 \in C
      <3> SUFFICES ASSUME NEW k \in 0..n, v[k] = u[k], k < n PROVE k + 1 \in 0..n /\ v[k + 1] = u[k + 1]
        OBVIOUS
      <3>1. k + 1 \in 1..n /\ k + 1 \in 1..(n + 1) /\ (k + 1) - 1 = k /\ k + 1 \in 0..n
        BY <1>1
      <3> QED
        BY <1>1, <1>2, <1>3, <3>1
    <2> HIDE DEF C
    <2>3. 0..n \subseteq C
      BY <1>1, <2>1, <2>2, Upwards
    <2> QED
      BY <2>3 DEF C
  <1>5. v[n] = Records(f) /\ n \in 0..n
    BY <1>1, <1>2, <1>4
  <1>6. n + 1 \in 1..(n + 1) /\ (n + 1) - 1 = n
    BY <1>1
  <1>7. v[n + 1] = IF p.part = "end" THEN Append(v[n], p.num) ELSE v[n]
    BY <1>1, <1>3, <1>6
  <1> QED
    BY <1>2, <1>3, <1>5, <1>7 DEF h

LEMMA NoRecords == Records(<<>>) = <<>>
  <1>1. <<>> \in Seq(Pieces) /\ Len(<<>>) = 0
    OBVIOUS
  <1> QED
    BY <1>1, RecordsUpto

LEMMA Inside ==
  ASSUME NEW m \in Nat, NEW i \in 1..m
  PROVE  /\ i \in 1..(m + 1)
         /\ i = m \/ (i < m /\ i < m + 1 /\ i + 1 \in 1..m)
  OBVIOUS

\* What a text, the end of its line, or both make of a file.
TextAdded(f, n, g) ==
  /\ g \in Seq(Pieces) /\ g # <<>> /\ g[Len(g)] = Piece(n, "text")
  /\ \A i \in DOMAIN f : g[i] = f[i]
  /\ Ended(g)
  /\ Torn(g) = Torn(f) \cup {Len(g)} /\ Len(g) \notin Torn(f)
  /\ Whole(f) \subseteq Whole(g)
  /\ Records(g) = Records(f)

EndAdded(f, n, g) ==
  /\ \A i \in DOMAIN f : g[i] = f[i]
  /\ Ended(g)
  /\ Torn(g) = Torn(f) \ {Len(f)} /\ Len(f) \in Torn(f)
  /\ Whole(f) \cup {n} \subseteq Whole(g)
  /\ Records(g) = Append(Records(f), n)

LineAdded(f, n, g) ==
  /\ \A i \in DOMAIN f : g[i] = f[i]
  /\ Ended(g)
  /\ Torn(g) = Torn(f)
  /\ Whole(f) \cup {n} \subseteq Whole(g)
  /\ Records(g) = Append(Records(f), n)

\* A text is added to a file.
LEMMA AddText ==
  ASSUME NEW f \in Seq(Pieces), Ended(f), NEW n \in 1..MaxRequests,
         NEW g, g = Append(f, Piece(n, "text"))
  PROVE  TextAdded(f, n, g)
  <1>1. Piece(n, "text") \in Pieces /\ Piece(n, "text").part = "text"
    BY DEF Piece, Pieces
  <1>2. \A m : Piece(n, "text") # Piece(m, "end")
    BY DEF Piece
  <1> DEFINE t == Piece(n, "text")
  <1> HIDE DEF t
  <1>3. g = Append(f, t) /\ t \in Pieces
    BY <1>1 DEF t
  <1>4. /\ g \in Seq(Pieces) /\ Len(g) = Len(f) + 1 /\ Len(f) \in Nat /\ g[Len(f) + 1] = t
        /\ DOMAIN f = 1..Len(f) /\ DOMAIN g = 1..(Len(f) + 1)
        /\ \A i \in 1..Len(f) : g[i] = f[i]
    BY <1>3
  <1>5. g # <<>>
    BY <1>4
  <1>6. Ended(g)
    <2> SUFFICES ASSUME NEW i \in 1..(Len(f) + 1), g[i].part = "end"
                 PROVE  i > 1 /\ g[i - 1] = Piece(g[i].num, "text")
      BY <1>4 DEF Ended
    <2>1. i \in 1..Len(f)
      BY <1>1, <1>4 DEF t
    <2>2. i > 1 /\ f[i - 1] = Piece(f[i].num, "text")
      BY <1>4, <2>1 DEF Ended
    <2>3. i - 1 \in 1..Len(f)
      BY <1>4, <2>1, <2>2
    <2> QED
      BY <1>4, <2>1, <2>2, <2>3
  <1>7. Torn(g) = Torn(f) \cup {Len(f) + 1}
    <2>1. \A i \in 1..Len(f) : i \in Torn(g) <=> i \in Torn(f)
      <3> TAKE i \in 1..Len(f)
      <3>1. CASE i < Len(f)
        <4>1. g[i + 1] = f[i + 1] /\ g[i] = f[i] /\ i < Len(g)
          BY <1>4, <3>1
        <4> QED
          BY <1>4, <3>1, <4>1 DEF Torn
      <3>2. CASE i = Len(f)
        <4>1. g[i + 1] = t /\ g[i] = f[i]
          BY <1>4, <3>2
        <4> QED
          BY <1>2, <1>4, <3>2, <4>1 DEF Torn, t
      <3>3. i < Len(f) \/ i = Len(f)
        <4>1. Len(f) \in Nat
          BY <1>4
        <4> QED
          BY <4>1, Inside
      <3> QED
        BY <3>1, <3>2, <3>3
    <2>2. Len(f) + 1 \in Torn(g)
      BY <1>1, <1>4 DEF Torn, t
    <2>3. Torn(g) \subseteq 1..(Len(f) + 1) /\ Torn(f) \subseteq 1..Len(f)
      BY <1>4 DEF Torn
    <2>4. 1..(Len(f) + 1) = (1..Len(f)) \cup {Len(f) + 1}
      BY <1>4
    <2> QED
      BY <2>1, <2>2, <2>3, <2>4
  <1>8. Len(f) + 1 \notin Torn(f)
    BY <1>4 DEF Torn
  <1>9. Whole(f) \subseteq Whole(g)
    <2>1. \A i \in 1..(Len(f) - 1) : /\ i \in 1..(Len(g) - 1) /\ i \in 1..Len(f) /\ i + 1 \in 1..Len(f)
      BY <1>4
    <2> QED
      BY <1>4, <2>1 DEF Whole
  <1>10. Records(g) = Records(f)
    BY <1>1, <1>3, RecordsAppend DEF t
  <1> QED
    BY <1>4, <1>5, <1>6, <1>7, <1>8, <1>9, <1>10 DEF t, TextAdded

\* The end of the line is added to the text at the end of a file.
LEMMA AddEnd ==
  ASSUME NEW f \in Seq(Pieces), Ended(f), NEW n \in 1..MaxRequests,
         f # <<>>, f[Len(f)] = Piece(n, "text"),
         NEW g, g = Append(f, Piece(n, "end"))
  PROVE  EndAdded(f, n, g)
  <1>1. /\ Piece(n, "end") \in Pieces /\ Piece(n, "end").part = "end" /\ Piece(n, "end").num = n
        /\ Piece(n, "text").part = "text" /\ Piece(n, "text").num = n
    BY DEF Piece, Pieces
  <1> DEFINE e == Piece(n, "end")
             t == Piece(n, "text")
  <1> HIDE DEF e, t
  <1>3. g = Append(f, e) /\ e \in Pieces
    BY <1>1 DEF e
  <1>4. /\ g \in Seq(Pieces) /\ Len(g) = Len(f) + 1 /\ Len(f) \in Nat \ {0} /\ g[Len(f) + 1] = e
        /\ DOMAIN f = 1..Len(f) /\ DOMAIN g = 1..(Len(f) + 1)
        /\ \A i \in 1..Len(f) : g[i] = f[i]
    BY <1>3
  <1>5. f[Len(f)] = t /\ Len(f) \in 1..Len(f) /\ g[Len(f)] = t
    <2>1. \A m \in Nat \ {0} : m \in 1..m
      OBVIOUS
    <2>2. Len(f) \in 1..Len(f)
      BY <1>4, <2>1, Zenon
    <2> QED
      BY <1>4, <2>2, Zenon DEF t
  <1>6. Ended(g)
    <2> SUFFICES ASSUME NEW i \in 1..(Len(f) + 1), g[i].part = "end"
                 PROVE  i > 1 /\ g[i - 1] = Piece(g[i].num, "text")
      BY <1>4 DEF Ended
    <2>1. CASE i = Len(f) + 1
      <3>1. i > 1 /\ i - 1 = Len(f) /\ g[i] = e
        BY <1>4, <2>1
      <3> QED
        BY <1>1, <1>5, <3>1 DEF e, t
    <2>2. CASE i \in 1..Len(f)
      <3>1. i > 1 /\ f[i - 1] = Piece(f[i].num, "text")
        BY <1>4, <2>2 DEF Ended
      <3>2. i - 1 \in 1..Len(f)
        BY <1>4, <2>2, <3>1
      <3> QED
        BY <1>4, <2>2, <3>1, <3>2
    <2> QED
      BY <1>4, <2>1, <2>2
  <1>7. Torn(g) = Torn(f) \ {Len(f)}
    <2>1. \A i \in 1..Len(f) : i # Len(f) => (i \in Torn(g) <=> i \in Torn(f))
      <3> SUFFICES ASSUME NEW i \in 1..Len(f), i # Len(f) PROVE i \in Torn(g) <=> i \in Torn(f)
        OBVIOUS
      <3>1. i < Len(f) /\ i < Len(f) + 1 /\ i + 1 \in 1..Len(f)
        <4>1. Len(f) \in Nat
          BY <1>4
        <4> QED
          BY <4>1, Inside
      <3>2. g[i + 1] = f[i + 1] /\ g[i] = f[i] /\ i < Len(g)
        BY <1>4, <3>1, Zenon
      <3>3. i \in DOMAIN f /\ i \in DOMAIN g
        <4>1. Len(f) \in Nat
          BY <1>4
        <4>2. i \in 1..(Len(f) + 1)
          BY <4>1, Inside
        <4> QED
          BY <1>4, <4>2
      <3> QED
        BY <3>1, <3>2, <3>3, Zenon DEF Torn
    <2>2. Len(f) \notin Torn(g)
      <3>1. Len(f) < Len(g) /\ g[Len(f) + 1] = Piece(g[Len(f)].num, "end")
        BY <1>1, <1>4, <1>5 DEF e, t
      <3> QED
        BY <3>1 DEF Torn
    <2>3. Len(f) + 1 \notin Torn(g)
      BY <1>1, <1>4 DEF Torn, e
    <2>4. Torn(g) \subseteq 1..(Len(f) + 1) /\ Torn(f) \subseteq 1..Len(f)
      BY <1>4 DEF Torn
    <2>5. 1..(Len(f) + 1) = (1..Len(f)) \cup {Len(f) + 1}
      BY <1>4
    <2> QED
      BY <2>1, <2>2, <2>3, <2>4, <2>5
  <1>8. Len(f) \in Torn(f)
    BY <1>1, <1>4, <1>5 DEF Torn, t
  <1>9. Whole(f) \subseteq Whole(g)
    <2>1. \A i \in 1..(Len(f) - 1) : /\ i \in 1..(Len(g) - 1) /\ i \in 1..Len(f) /\ i + 1 \in 1..Len(f)
      BY <1>4
    <2> QED
      BY <1>4, <2>1 DEF Whole
  <1>10. n \in Whole(g)
    <2>1. Len(f) \in 1..(Len(g) - 1) /\ g[Len(f)] = Piece(n, "text") /\ g[Len(f) + 1] = Piece(n, "end")
      BY <1>4, <1>5 DEF e, t
    <2> QED
      BY <2>1 DEF Whole
  <1>11. Records(g) = Append(Records(f), n)
    BY <1>1, <1>3, RecordsAppend DEF e
  <1> QED
    BY <1>4, <1>6, <1>7, <1>8, <1>9, <1>10, <1>11 DEF EndAdded

\* A text and the end of its line are added at once.
LEMMA AddLine ==
  ASSUME NEW f \in Seq(Pieces), Ended(f), NEW n \in 1..MaxRequests,
         NEW g, g = f \o Append(<<Piece(n, "text")>>, Piece(n, "end"))
  PROVE  LineAdded(f, n, g)
  <1> DEFINE t == Piece(n, "text")
             e == Piece(n, "end")
             h == Append(f, t)
  <1>1. t \in Pieces /\ e \in Pieces
    BY DEF Piece, Pieces
  <1>2. g = Append(h, e)
    <2> HIDE DEF t, e
    <2>1. f \o Append(<<t>>, e) = Append(Append(f, t), e)
      BY <1>1
    <2> QED
      BY <2>1 DEF t, e
  <1>3. DOMAIN f \subseteq DOMAIN h
    <2> HIDE DEF t
    <2> QED
      BY <1>1
  <1> HIDE DEF h
  <1>4. TextAdded(f, n, h)
    BY AddText, Zenon DEF h
  <1>5. EndAdded(h, n, g)
    <2>1. h \in Seq(Pieces) /\ Ended(h) /\ h # <<>> /\ h[Len(h)] = Piece(n, "text")
      BY <1>4, Zenon DEF TextAdded
    <2> QED
      BY <1>2, <2>1, AddEnd, Zenon
  <1> HIDE DEF t, e
  <1>6. \A i \in DOMAIN f : g[i] = f[i]
    BY <1>3, <1>4, <1>5, Zenon DEF TextAdded, EndAdded
  <1>7. Torn(g) = Torn(f)
    BY <1>4, <1>5 DEF TextAdded, EndAdded
  <1>8. Whole(f) \cup {n} \subseteq Whole(g) /\ Records(g) = Append(Records(f), n)
    BY <1>4, <1>5 DEF TextAdded, EndAdded
  <1> QED
    BY <1>5, <1>6, <1>7, <1>8 DEF LineAdded, EndAdded

-----------------------------------------------------------------------------
(* The log.                                                                 *)

\* The records that are in the file.
Written == Log!Range(Lines)

\* They are whole.
Found == Written \subseteq Whole(file)

LEMMA LinesTyped == TypeOK => Lines \in Seq(Nat)
  <1> SUFFICES ASSUME TypeOK PROVE Lines \in Seq(Nat)
    OBVIOUS
  <1>1. file \in Seq(Pieces)
    BY DEF TypeOK, Pieces
  <1>2. PICK u \in [0..Len(file) -> Seq(Nat)] : Records(file) = u[Len(file)]
    BY <1>1, RecordsUpto
  <1>3. Len(file) \in 0..Len(file)
    BY <1>1
  <1> QED
    BY <1>2, <1>3 DEF Lines

LEMMA WrittenNumbers == TypeOK => Written \subseteq Nat
  BY LinesTyped DEF Written, Log!Range

LEMMA RangeAppend ==
  ASSUME NEW s \in Seq(Nat), NEW n \in Nat
  PROVE  Log!Range(Append(s, n)) = Log!Range(s) \cup {n}
  <1> DEFINE a == Append(s, n)
  <1>1. /\ DOMAIN s = 1..Len(s) /\ DOMAIN a = 1..(Len(s) + 1) /\ Len(s) \in Nat
        /\ a[Len(s) + 1] = n /\ \A i \in 1..Len(s) : a[i] = s[i]
    OBVIOUS
  <1>2. 1..(Len(s) + 1) = (1..Len(s)) \cup {Len(s) + 1}
    BY <1>1
  <1> HIDE DEF a
  <1>3. Log!Range(a) = Log!Range(s) \cup {n}
    BY <1>1, <1>2 DEF Log!Range
  <1> QED
    BY <1>3 DEF a

-----------------------------------------------------------------------------
(* Who is where, and whose record is written.                               *)

Numbers ==
  /\ \A r \in waiting : r.num < next /\ r.num \notin Written
  /\ \A r, s \in waiting : r.num = s.num => r = s
  /\ \A w \in Worker : job[w] # Idle =>
       /\ job[w].req.num < next
       /\ \A r \in waiting : r.num # job[w].req.num
       /\ \A v \in Worker \ {w} : job[v] # Idle => job[v].req.num # job[w].req.num
  /\ \A n \in Written : n < next

Truthful ==
  /\ \A w \in Worker : job[w] # Idle =>
       /\ job[w].at \in {"log", "lock", "text", "end", "flush"} => job[w].req.num \notin Written
       /\ job[w].at \in {"unlock", "ack"} => job[w].req.num \in Written
       /\ job[w].type = "LOG_ACK" => job[w].req.num \in Written
  /\ \A r \in responses : r.type = "LOG_ACK" => r.req.num \in Written
  /\ acked \subseteq Written

\* What a step does to the job of the worker that takes it.
Moves(w) ==
  /\ \A u \in Worker \ {w} : job'[u] = job[u]
  /\ job[w] # Idle
  /\ job'[w] # Idle =>
       /\ job'[w].req = job[w].req
       /\ job'[w].at \in {"log", "lock", "text", "end", "flush"} =>
            job[w].at \in {"log", "lock", "text", "end"}
       /\ job'[w].at \in {"unlock", "ack"} => FlushLog(w) \/ job[w].at = "unlock"
       /\ job'[w].type = "LOG_ACK" => job[w].type = "LOG_ACK" \/ job[w].at = "ack"

LEMMA Movement ==
  ASSUME TypeOK, NEW w \in Worker, Work(w), ~Dispatch(w)
  PROVE  Moves(w) /\ UNCHANGED <<waiting, next>>
  <1>1. job \in [Worker -> {Idle} \cup Jobs] /\ job[w].at # "idle" /\ job[w] # Idle
    BY DEF TypeOK, Work, Refuse, Throw, OpenLog, CheckLog, LockLog, WriteLine, WriteEnd,
           FlushLog, UnlockLog, Logged, Load, Respond, Idle
  <1>2. job[w] \in Jobs
    BY <1>1, Working
  <1>3. UNCHANGED <<waiting, next>>
    BY DEF Work, Refuse, Throw, OpenLog, CheckLog, LockLog, WriteLine, WriteEnd,
           FlushLog, UnlockLog, Logged, Load, Respond
  <1>4. CASE Throw(w) \/ Respond(w)
    BY <1>1, <1>3, <1>4 DEF Throw, Respond, Moves
  <1>5. CASE OpenLog(w)
    BY <1>1, <1>3, <1>5 DEF OpenLog, Moves
  <1>6. CASE Refuse(w) \/ CheckLog(w)
    BY <1>1, <1>2, <1>3, <1>6 DEF Refuse, CheckLog, Moves, Jobs
  <1>7. CASE LockLog(w) \/ WriteLine(w) \/ WriteEnd(w)
    BY <1>1, <1>2, <1>3, <1>7 DEF LockLog, WriteLine, WriteEnd, Moves, Jobs
  <1>8. CASE FlushLog(w)
    <2>1. job' = [job EXCEPT ![w].at = "unlock"]
      BY <1>8 DEF FlushLog
    <2> QED
      BY <1>1, <1>2, <1>3, <1>8, <2>1 DEF Moves, Jobs
  <1>9. CASE UnlockLog(w) \/ Logged(w)
    BY <1>1, <1>2, <1>3, <1>9 DEF UnlockLog, Logged, Moves, Jobs
  <1>10. CASE Load(w)
    <2> DEFINE stat == Append(job[w].stat, total[Loads[Len(job[w].stat) + 1]])
               at == IF Len(stat) = Len(Loads) THEN "respond" ELSE job[w].at
    <2>1. job' = [job EXCEPT ![w] = [job[w] EXCEPT !.stat = stat, !.at = at, !.type = "STATS_RESP"]]
      BY <1>10 DEF Load
    <2>2. at \in {"respond", "stats"}
      BY <1>10 DEF Load
    <2> HIDE DEF stat, at
    <2> QED
      BY <1>1, <1>2, <1>3, <2>1, <2>2 DEF Moves, Jobs
  <1> QED
    BY <1>4, <1>5, <1>6, <1>7, <1>8, <1>9, <1>10 DEF Work

\* What flush() does to the file.
LEMMA FlushMoves ==
  ASSUME TypeOK, Exclusive, LinesWhole, "write" \notin Faults, NEW w \in Worker, FlushLog(w)
  PROVE  LET n == job[w].req.num IN
         /\ job[w] \in Jobs /\ n \in 1..MaxRequests
         /\ \A i \in DOMAIN file : file'[i] = file[i]
         /\ Ended(file')
         /\ IF n \in Long THEN Len(file) \in Torn(file) /\ Torn(file') = Torn(file) \ {Len(file)}
            ELSE Torn(file') = Torn(file)
         /\ Whole(file) \cup {n} \subseteq Whole(file')
         /\ Lines' = Append(Lines, n)
         /\ Written' = Written \cup {n}
  <1> DEFINE n == job[w].req.num
  <1>1. job[w] \in Jobs /\ n \in 1..MaxRequests /\ n \in Nat
    BY Working, BusinessAssumption DEF FlushLog
  <1>2. /\ Begun(n) /\ buffer = Append(Kept(n), Piece(n, "end"))
        /\ file' = file \o buffer
    BY DEF FlushLog, Flush, Store, Exclusive, Critical, Buffered
  <1>3. file \in Seq(Pieces) /\ Ended(file) /\ Piece(n, "end") \in Pieces
    BY <1>1 DEF TypeOK, Pieces, Piece, LinesWhole
  <1> HIDE DEF n
  <1>4. /\ \A i \in DOMAIN file : file'[i] = file[i]
        /\ Ended(file')
        /\ IF n \in Long THEN Len(file) \in Torn(file) /\ Torn(file') = Torn(file) \ {Len(file)}
           ELSE Torn(file') = Torn(file)
        /\ Whole(file) \cup {n} \subseteq Whole(file')
        /\ Records(file') = Append(Records(file), n)
    <2>1. CASE n \in Long
      <3> DEFINE e == Piece(n, "end")
      <3>1. file # <<>> /\ file[Len(file)] = Piece(n, "text") /\ file' = file \o Append(<<>>, e)
        BY <1>2, <2>1 DEF Begun, Kept
      <3>2. e \in Pieces
        BY <1>3
      <3> HIDE DEF e
      <3>3. file \o Append(<<>>, e) = Append(file, e)
        BY <1>3, <3>2
      <3>4. file' = Append(file, Piece(n, "end"))
        BY <3>1, <3>3 DEF e
      <3> QED
        <4>1. EndAdded(file, n, file')
          BY <1>1, <1>3, <3>1, <3>4, AddEnd
        <4> QED
          BY <2>1, <4>1 DEF EndAdded
    <2>2. CASE n \notin Long
      <3>1. file' = file \o Append(<<Piece(n, "text")>>, Piece(n, "end"))
        BY <1>2, <2>2 DEF Kept
      <3> QED
        <4>1. LineAdded(file, n, file')
          BY <1>1, <1>3, <3>1, AddLine, Zenon
        <4> QED
          BY <2>2, <4>1 DEF LineAdded
    <2> QED
      BY <2>1, <2>2
  <1>5. Lines' = Append(Lines, n)
    BY <1>4 DEF Lines
  <1>6. Written' = Written \cup {n}
    BY <1>1, <1>5, LinesTyped, RangeAppend DEF Written
  <1> QED
    BY <1>1, <1>4, <1>5, <1>6 DEF n

\* What writing a text does to it.
LEMMA TextMoves ==
  ASSUME TypeOK, Exclusive, LinesWhole, "write" \notin Faults, NEW w \in Worker, WriteLine(w)
  PROVE  LET n == job[w].req.num IN
         /\ n \notin Long => UNCHANGED file
         /\ n \in Long => /\ \A i \in DOMAIN file : file'[i] = file[i]
                          /\ file'[Len(file')].num = n
                          /\ Ended(file')
                          /\ Torn(file') = Torn(file) \cup {Len(file')} /\ Len(file') \notin Torn(file)
                          /\ Whole(file) \subseteq Whole(file')
         /\ UNCHANGED Lines
  <1> DEFINE n == job[w].req.num
             t == Piece(n, "text")
  <1>1. n \in 1..MaxRequests /\ t \in Pieces /\ t.num = n
    BY Working DEF WriteLine, Piece, Pieces
  <1>2. Direct(t) <=> n \in Long
    BY DEF Direct, Piece
  <1>3. file \in Seq(Pieces) /\ Ended(file) /\ buffer = <<>> /\ stream # "bad" /\ Write(t)
    BY DEF TypeOK, Pieces, LinesWhole, WriteLine, Exclusive, Critical, Buffered
  <1> HIDE DEF n
  <1>4. CASE n \notin Long
    <2>1. UNCHANGED file
      BY <1>2, <1>3, <1>4 DEF Write
    <2> QED
      BY <1>4, <2>1 DEF Lines, n
  <1>5. CASE n \in Long
    <2>1. file' = file \o Append(<<>>, t)
      BY <1>2, <1>3, <1>5 DEF Write, Store
    <2>2. file' = Append(file, Piece(n, "text"))
      <3> HIDE DEF t
      <3>1. file \o Append(<<>>, t) = Append(file, t)
        BY <1>1, <1>3
      <3> QED
        BY <2>1, <3>1 DEF t
    <2>3. /\ \A i \in DOMAIN file : file'[i] = file[i]
          /\ file'[Len(file')] = t
          /\ Ended(file')
          /\ Torn(file') = Torn(file) \cup {Len(file')} /\ Len(file') \notin Torn(file)
          /\ Whole(file) \subseteq Whole(file')
          /\ Records(file') = Records(file)
      <3>1. TextAdded(file, n, file')
        BY <1>1, <1>3, <2>2, AddText, Zenon
      <3> QED
        BY <3>1, Zenon DEF TextAdded
    <2> QED
      BY <1>1, <1>5, <2>3 DEF Lines, n
  <1> QED
    BY <1>4, <1>5

\* No other step of a worker changes the file.
LEMMA OtherWork ==
  ASSUME TypeOK, Exclusive, LinesWhole, "write" \notin Faults, NEW w \in Worker, Work(w), ~FlushLog(w)
  PROVE  /\ UNCHANGED <<Lines, Written>>
         /\ WriteLine(w) \/ UNCHANGED file
  <1>1. CASE WriteLine(w)
    BY <1>1, TextMoves DEF Written
  <1>2. CASE WriteEnd(w)
    <2>1. ~Direct(Piece(job[w].req.num, "end"))
      BY DEF Direct, Piece
    <2>2. UNCHANGED file
      BY <1>2, <2>1 DEF WriteEnd, Write
    <2> QED
      BY <2>2 DEF Written, Lines
  <1>3. CASE ~WriteLine(w) /\ ~WriteEnd(w)
    <2>1. UNCHANGED file
      BY <1>3 DEF Work, Dispatch, Refuse, Throw, OpenLog, Open, CheckLog, LockLog, Lock, UnlockLog, Unlock,
                  Logged, Load, Respond
    <2> QED
      BY <2>1 DEF Written, Lines
  <1> QED
    BY <1>1, <1>2, <1>3

\* The lines of the file change when a worker flushes, and then by its own record.
LEMMA FileMoves ==
  ASSUME TypeOK, Exclusive, LinesWhole, "write" \notin Faults, [Next]_vars
  PROVE  \/ /\ UNCHANGED Lines
            /\ \A w \in Worker : ~FlushLog(w)
         \/ \E w \in Worker :
              /\ FlushLog(w)
              /\ job[w] \in Jobs
              /\ Lines' = Append(Lines, job[w].req.num)
              /\ Written' = Written \cup {job[w].req.num}
  <1>1. CASE \E w \in Worker : FlushLog(w)
    BY <1>1, FlushMoves
  <1>2. CASE \A w \in Worker : ~FlushLog(w)
    <2>1. CASE \E w \in Worker : Work(w)
      BY <1>2, <2>1, OtherWork
    <2>2. CASE UNCHANGED file
      BY <1>2, <2>2 DEF Lines
    <2> QED
      BY <2>1, <2>2 DEF Next, Io, IoCountSent, Send, Recv, vars, Crash, LogCrash
  <1> QED
    BY <1>1, <1>2

\* One worker at most is about to end a line.
LEMMA OneTearing ==
  ASSUME TypeOK, Exclusive
  PROVE  /\ Tearing \subseteq mutex
         /\ \A w \in mutex : Tearing \subseteq {w}
         /\ Cardinality(Tearing) \in 0..1
  <1>1. Tearing \subseteq mutex /\ \A w \in mutex : Tearing \subseteq {w}
    BY DEF Tearing, Exclusive, Critical
  <1>2. CASE Tearing = {}
    BY <1>1, <1>2, FS_EmptySet
  <1>3. CASE Tearing # {}
    <2>1. PICK w : Tearing = {w}
      BY <1>1, <1>3
    <2> QED
      BY <1>1, <2>1, FS_Singleton
  <1> QED
    BY <1>2, <1>3

\* The steps that leave the texts as they are.
LEMMA SameTearing ==
  ASSUME TypeOK, NEW w \in Worker, Work(w), ~FlushLog(w), ~WriteLine(w)
  PROVE  Tearing' = Tearing
  <1>0. job \in [Worker -> {Idle} \cup Jobs]
    BY DEF TypeOK
  <1>1. CASE WriteEnd(w)
    <2>1. job[w] \in Jobs /\ job[w].at = "end"
      BY <1>1, Working DEF WriteEnd
    <2>2. /\ job'[w].at = "flush" /\ job'[w].req = job[w].req
          /\ \A u \in Worker \ {w} : job'[u] = job[u]
      BY <1>0, <1>1, <2>1 DEF WriteEnd, Jobs
    <2> QED
      BY <2>1, <2>2 DEF Tearing
  <1>2. CASE Dispatch(w)
    <2>1. PICK r \in waiting : job' = [job EXCEPT ![w] = [at |-> Handler(r.kind), req |-> r,
                                                  type |-> Type(r.kind), stat |-> <<>>]]
      BY <1>2 DEF Dispatch
    <2>2. Handler(r.kind) \notin {"end", "flush"}
      BY BusinessAssumption DEF Handler, TypeOK, Requests
    <2>3. job[w].at = "idle" /\ job'[w].at = Handler(r.kind) /\ \A u \in Worker \ {w} : job'[u] = job[u]
      BY <1>0, <1>2, <2>1 DEF Dispatch
    <2> QED
      BY <2>2, <2>3 DEF Tearing
  <1>3. CASE ~WriteEnd(w) /\ ~Dispatch(w)
    <2>1. Moves(w)
      BY <1>3, Movement
    <2>2. job[w].at \notin {"end", "flush"}
      BY <1>3 DEF Work, Refuse, Throw, OpenLog, CheckLog, LockLog, UnlockLog, Logged, Load, Respond
    <2>3. job'[w].at \notin {"end", "flush"}
      <3>1. CASE job'[w] = Idle
        BY <3>1 DEF Idle
      <3>2. CASE OpenLog(w)
        BY <2>2, <3>2 DEF OpenLog
      <3>3. CASE Refuse(w) \/ CheckLog(w) \/ LockLog(w) \/ UnlockLog(w) \/ Logged(w)
        <4>1. job[w] \in Jobs
          BY <3>3, Working DEF Refuse, CheckLog, LockLog, UnlockLog, Logged
        <4> QED
          BY <1>0, <3>3, <4>1 DEF Refuse, CheckLog, LockLog, UnlockLog, Logged, Jobs
      <3>4. CASE Load(w)
        <4> DEFINE stat == Append(job[w].stat, total[Loads[Len(job[w].stat) + 1]])
                   at == IF Len(stat) = Len(Loads) THEN "respond" ELSE job[w].at
        <4>1. job' = [job EXCEPT ![w] = [job[w] EXCEPT !.stat = stat, !.at = at, !.type = "STATS_RESP"]]
          BY <3>4 DEF Load
        <4>2. at \notin {"end", "flush"} /\ job[w] \in Jobs
          BY <2>2, <3>4, Working DEF Load
        <4> HIDE DEF stat, at
        <4> QED
          BY <1>0, <4>1, <4>2 DEF Jobs
      <3>5. CASE Throw(w) \/ Respond(w)
        BY <1>0, <3>5 DEF Throw, Respond, Idle
      <3> QED
        BY <1>3, <3>2, <3>3, <3>4, <3>5 DEF Work
    <2> QED
      BY <2>1, <2>2, <2>3 DEF Moves, Tearing
  <1> QED
    BY <1>1, <1>2, <1>3

LEMMA LinesStep ==
  ASSUME TypeOK, Exclusive, LinesWhole, "write" \notin Faults, [Next]_vars
  PROVE  LinesWhole'
  <1>0. /\ job \in [Worker -> {Idle} \cup Jobs] /\ mutex \subseteq Worker /\ crashes \in Nat
        /\ file \in Seq(Pieces)
    BY BusinessAssumption DEF TypeOK, Pieces
  <1>1. IsFiniteSet(Torn(file)) /\ Cardinality(Torn(file)) \in Nat
    <2>1. Torn(file) \subseteq 1..Len(file) /\ Len(file) \in Nat
      BY <1>0 DEF Torn
    <2>2. IsFiniteSet(1..Len(file))
      BY <2>1, FS_Interval
    <2> QED
      BY <2>1, <2>2, FS_Subset, FS_CardinalityType
  <1>2. Cardinality(Tearing) \in 0..1 /\ Tearing \subseteq mutex /\ \A w \in mutex : Tearing \subseteq {w}
    BY OneTearing
  <1>3. \A i \in Torn(file) : i \in DOMAIN file /\ file[i].num \in Long
    BY DEF LinesWhole, Torn
  <1>4. Cardinality(Torn(file)) <= crashes + Cardinality(Tearing)
    BY DEF LinesWhole
  <1>5. ASSUME NEW w \in Worker, FlushLog(w) PROVE LinesWhole'
    <2> DEFINE n == job[w].req.num
    <2>1. /\ job[w] \in Jobs
          /\ \A i \in DOMAIN file : file'[i] = file[i]
          /\ Ended(file')
          /\ IF n \in Long THEN Len(file) \in Torn(file) /\ Torn(file') = Torn(file) \ {Len(file)}
             ELSE Torn(file') = Torn(file)
      BY <1>5, FlushMoves
    <2>2. w \in mutex /\ job[w].at = "flush" /\ UNCHANGED crashes
      BY <1>5 DEF FlushLog, Exclusive, Critical
    <2>3. job'[w].at = "unlock" /\ \A u \in Worker \ {w} : job'[u] = job[u]
      BY <1>0, <1>5, <2>1 DEF FlushLog, Jobs
    <2>4. Tearing' = {}
      BY <1>2, <2>2, <2>3 DEF Tearing
    <2>5. Tearing = IF n \in Long THEN {w} ELSE {}
      BY <1>2, <2>2 DEF Tearing
    <2>6. Cardinality(Tearing') = 0
      BY <2>4, FS_EmptySet
    <2> HIDE DEF n
    <2>7. Cardinality(Torn(file')) <= crashes
      <3>1. CASE n \in Long
        <4>1. Cardinality(Torn(file')) = Cardinality(Torn(file)) - 1 /\ Cardinality(Tearing) = 1
          <5>1. /\ Len(file) \in Torn(file) /\ Torn(file') = Torn(file) \ {Len(file)} /\ Tearing = {w}
            BY <2>1, <2>5, <3>1
          <5>2. Cardinality(Torn(file) \ {Len(file)}) = Cardinality(Torn(file)) - 1
            BY <1>1, <5>1, FS_RemoveElement
          <5> QED
            BY <5>1, <5>2, FS_Singleton
        <4> QED
          BY <1>0, <1>1, <1>4, <4>1
      <3>2. CASE n \notin Long
        <4>1. Torn(file') = Torn(file) /\ Cardinality(Tearing) = 0
          BY <2>1, <2>5, <3>2, FS_EmptySet
        <4> QED
          BY <1>0, <1>1, <1>4, <4>1
      <3> QED
        BY <3>1, <3>2
    <2>8. Torn(file') \subseteq Torn(file)
      BY <2>1
    <2>9. \A i \in Torn(file') : file'[i].num \in Long
      BY <1>3, <2>1, <2>8
    <2>10. Cardinality(Torn(file')) <= crashes' + Cardinality(Tearing')
      BY <1>0, <2>2, <2>6, <2>7
    <2> QED
      BY <2>1, <2>9, <2>10 DEF LinesWhole
  <1>6. ASSUME NEW w \in Worker, WriteLine(w) PROVE LinesWhole'
    <2> DEFINE n == job[w].req.num
    <2>1. /\ n \notin Long => UNCHANGED file
          /\ n \in Long => /\ \A i \in DOMAIN file : file'[i] = file[i]
                           /\ file'[Len(file')].num = n
                           /\ Ended(file')
                           /\ Torn(file') = Torn(file) \cup {Len(file')} /\ Len(file') \notin Torn(file)
      BY <1>6, TextMoves
    <2>2. w \in mutex /\ job[w].at = "text" /\ UNCHANGED crashes /\ job[w] \in Jobs
      BY <1>6, Working DEF WriteLine, Exclusive, Critical
    <2>3. job'[w].at = "end" /\ job'[w].req = job[w].req /\ \A u \in Worker \ {w} : job'[u] = job[u]
      BY <1>0, <1>6, <2>2 DEF WriteLine, Jobs
    <2>4. Tearing = {}
      BY <1>2, <2>2 DEF Tearing
    <2>5. Tearing' = IF n \in Long THEN {w} ELSE {}
      BY <2>3, <2>4 DEF Tearing
    <2>6. Cardinality(Tearing) = 0
      BY <2>4, FS_EmptySet
    <2> HIDE DEF n
    <2>7. CASE n \in Long
      <3>1. Cardinality(Torn(file')) = Cardinality(Torn(file)) + 1
        BY <1>1, <2>1, <2>7, FS_AddElement
      <3>2. Cardinality(Tearing') = 1
        BY <2>5, <2>7, FS_Singleton
      <3>3. Cardinality(Torn(file')) <= crashes' + Cardinality(Tearing')
        BY <1>0, <1>1, <1>4, <2>2, <2>6, <3>1, <3>2
      <3>4. \A i \in Torn(file') : file'[i].num \in Long
        BY <1>3, <2>1, <2>7
      <3> QED
        BY <2>1, <2>7, <3>3, <3>4 DEF LinesWhole
    <2>8. CASE n \notin Long
      <3>1. Tearing' = Tearing /\ UNCHANGED <<file, crashes>>
        BY <2>1, <2>2, <2>4, <2>5, <2>8
      <3> QED
        BY <3>1 DEF LinesWhole
    <2> QED
      BY <2>7, <2>8
  <1>7. CASE Crash
    <2>1. UNCHANGED file /\ crashes' = crashes + 1 /\ Tearing' = {}
      BY <1>7 DEF Crash, LogCrash, Tearing, Idle
    <2>2. Cardinality(Tearing') = 0
      BY <2>1, FS_EmptySet
    <2>3. Cardinality(Torn(file)) <= crashes' + Cardinality(Tearing')
      BY <1>0, <1>1, <1>2, <1>4, <2>1, <2>2
    <2> QED
      BY <2>1, <2>3 DEF LinesWhole
  <1>8. ASSUME UNCHANGED <<file, crashes>>, Tearing' = Tearing PROVE LinesWhole'
    BY <1>8 DEF LinesWhole
  <1>9. ASSUME NEW w \in Worker, Work(w), ~FlushLog(w), ~WriteLine(w) PROVE LinesWhole'
    <2>1. Tearing' = Tearing
      BY <1>9, SameTearing
    <2>2. UNCHANGED file
      BY <1>9, OtherWork
    <2>3. UNCHANGED crashes
      BY <1>9 DEF Work, Dispatch, Refuse, Throw, OpenLog, CheckLog, LockLog, WriteEnd, UnlockLog,
                  Logged, Load, Respond
    <2> QED
      BY <1>8, <2>1, <2>2, <2>3
  <1>10. CASE (\E kind \in Kinds : Recv(kind)) \/ Io \/ UNCHANGED vars
    <2>1. UNCHANGED <<file, crashes, job>>
      BY <1>10 DEF Recv, Io, IoCountSent, Send, vars
    <2> QED
      BY <1>8, <2>1 DEF Tearing
  <1> QED
    BY <1>5, <1>6, <1>7, <1>9, <1>10 DEF Next

LEMMA FoundStep ==
  ASSUME TypeOK, Exclusive, LinesWhole, Found, "write" \notin Faults, [Next]_vars
  PROVE  Found'
  <1>1. CASE \E w \in Worker : FlushLog(w)
    BY <1>1, FlushMoves DEF Found
  <1>2. CASE UNCHANGED file
    BY <1>2 DEF Found, Written, Lines
  <1>3. ASSUME NEW w \in Worker, WriteLine(w) PROVE Found'
    <2>1. Whole(file) \subseteq Whole(file') /\ UNCHANGED Lines
      BY <1>3, TextMoves
    <2> QED
      BY <2>1 DEF Found, Written
  <1>4. ASSUME NEW w \in Worker, Work(w), ~FlushLog(w) PROVE Found'
    BY <1>2, <1>3, <1>4, OtherWork
  <1> QED
    BY <1>1, <1>2, <1>4 DEF Next, Io, IoCountSent, Send, Recv, vars, Crash, LogCrash

IInv == TypeOK /\ Partial /\ Exclusive /\ LinesWhole /\ Found /\ Numbers /\ Truthful

LEMMA IInit == Init => IInv
  <1> SUFFICES ASSUME Init PROVE IInv
    OBVIOUS
  <1>1. TypeOK /\ Partial /\ Exclusive
    BY TypeInit, ExclusiveInit DEF Init, Idle, Partial
  <1>2. file = <<>> /\ crashes = 0 /\ Tearing = {}
    BY DEF Init, LogInit, Tearing, Idle
  <1>3. Torn(file) = {} /\ Ended(file) /\ Lines = <<>>
    BY <1>2, NoRecords DEF Torn, Ended, Lines
  <1>4. LinesWhole /\ Written = {} /\ Found
    BY <1>2, <1>3, FS_EmptySet DEF LinesWhole, Written, Found, Log!Range
  <1> QED
    BY <1>1, <1>4 DEF Init, IInv, Numbers, Truthful

LEMMA NumbersStep ==
  ASSUME IInv, "write" \notin Faults, [Next]_vars
  PROVE  Numbers'
  <1> USE DEF IInv
  <1>0. /\ \A r \in waiting : r.num \in Nat
        /\ next \in Nat
        /\ job \in [Worker -> {Idle} \cup Jobs]
    BY BusinessAssumption DEF TypeOK, Requests
  <1>1. \A w \in Worker : job[w] # Idle => job[w].req.num \in Nat
    BY <1>0 DEF Jobs, Requests
  <1>2. CASE \E kind \in Kinds : Recv(kind)
    <2>1. PICK r : waiting' = waiting \cup {r} /\ r.num = next
      <3>1. PICK kind \in Kinds : Recv(kind)
        BY <1>2
      <3> DEFINE q == [num |-> next, kind |-> kind, seen |-> IF kind = "STATS" THEN given ELSE Nothing]
      <3>2. waiting' = waiting \cup {q} /\ q.num = next
        BY <3>1 DEF Recv
      <3> QED
        BY <3>2
    <2>2. next' = next + 1 /\ UNCHANGED <<file, job>>
      BY <1>2 DEF Recv
    <2>3. Written' = Written /\ Written \subseteq Nat
      BY <2>2, WrittenNumbers DEF Written, Lines
    <2> QED
      BY <2>1, <2>2, <2>3, <1>0, <1>1 DEF Numbers
  <1>3. ASSUME NEW w \in Worker, Work(w) PROVE Numbers'
    <2>1. CASE Dispatch(w)
      <3>1. PICK r \in waiting : /\ waiting' = waiting \ {r}
                                 /\ job' = [job EXCEPT ![w] = [at |-> Handler(r.kind), req |-> r,
                                                  type |-> Type(r.kind), stat |-> <<>>]]
        BY <2>1 DEF Dispatch
      <3>2. UNCHANGED <<next, Written>>
        BY <2>1 DEF Dispatch, Written, Lines
      <3>3. job'[w].req = r /\ \A u \in Worker \ {w} : job'[u] = job[u]
        BY <3>1, <1>0
      <3> QED
        BY <3>1, <3>2, <3>3, <1>0, <1>1 DEF Numbers
    <2>2. CASE ~Dispatch(w)
      <3>1. Moves(w) /\ UNCHANGED <<waiting, next>>
        BY <1>3, <2>2, Movement
      <3>2. CASE FlushLog(w)
        <4>1. /\ \A v \in Worker : FlushLog(v) => v = w
              /\ job[w] # Idle
          BY <3>1, <3>2, <1>0 DEF FlushLog, Exclusive, Moves, Critical
        <4>2. Written' = Written \cup {job[w].req.num}
          BY <3>2, <4>1, FileMoves
        <4> QED
          BY <3>1, <4>1, <4>2, <1>0, <1>1 DEF Numbers, Moves
      <3>3. CASE ~FlushLog(w)
        <4>2. UNCHANGED Written
          BY <1>3, <3>3, OtherWork
        <4> QED
          BY <3>1, <4>2, <1>0, <1>1 DEF Numbers, Moves
      <3> QED
        BY <3>2, <3>3
    <2> QED
      BY <2>1, <2>2
  <1>4. CASE Crash
    <2>1. UNCHANGED Written
      BY <1>4 DEF Crash, LogCrash, Written, Lines
    <2> QED
      BY <1>4, <2>1 DEF Crash, Numbers
  <1>5. CASE Io \/ UNCHANGED vars
    <2>1. UNCHANGED <<Written, waiting, job, next>>
      BY <1>5 DEF Io, IoCountSent, Send, vars, Written, Lines
    <2> QED
      BY <2>1 DEF Numbers
  <1> QED
    BY <1>2, <1>3, <1>4, <1>5 DEF Next

LEMMA TruthfulStep ==
  ASSUME IInv, "write" \notin Faults, [Next]_vars
  PROVE  Truthful'
  <1> USE DEF IInv
  <1>0. job \in [Worker -> {Idle} \cup Jobs]
    BY DEF TypeOK
  <1>1. ASSUME NEW w \in Worker, Work(w) PROVE Truthful'
    <2>1. CASE Dispatch(w)
      <3>1. PICK r \in waiting : job' = [job EXCEPT ![w] = [at |-> Handler(r.kind), req |-> r,
                                                  type |-> Type(r.kind), stat |-> <<>>]]
        BY <2>1 DEF Dispatch
      <3>2. UNCHANGED <<Written, responses, acked>>
        BY <2>1 DEF Dispatch, Written, Lines
      <3>3. job'[w].req = r /\ job'[w].type = Type(r.kind) /\ job'[w].at = Handler(r.kind)
            /\ \A u \in Worker \ {w} : job'[u] = job[u]
        BY <3>1, <1>0
      <3>4. Type(r.kind) # "LOG_ACK" /\ Handler(r.kind) \notin {"unlock", "ack"} /\ r.num \notin Written
        BY BusinessAssumption DEF Type, Handler, Numbers, TypeOK, Requests
      <3> QED
        BY <3>2, <3>3, <3>4 DEF Truthful
    <2>2. CASE ~Dispatch(w)
      <3>1. Moves(w)
        BY <1>1, <2>2, Movement
      <3>2. CASE FlushLog(w)
        <4>1. \A v \in Worker : FlushLog(v) => v = w
          BY <3>2 DEF FlushLog, Exclusive, Critical
        <4>2. Written' = Written \cup {job[w].req.num}
          BY <3>2, <4>1, FileMoves
        <4>3. UNCHANGED <<responses, acked>>
          BY <3>2 DEF FlushLog
        <4>4. job'[w].at = "unlock" /\ job'[w].req = job[w].req
          BY <3>1, <3>2, <1>0, Working DEF FlushLog, Moves, Idle, Jobs
        <4> QED
          BY <3>1, <4>2, <4>3, <4>4 DEF Truthful, Numbers, Moves
      <3>3. CASE ~FlushLog(w)
        <4>1. UNCHANGED acked
          BY <1>1, <2>2, <3>3 DEF Work, Refuse, Throw, OpenLog, CheckLog, LockLog,
                  WriteLine, WriteEnd, UnlockLog, Logged, Load, Respond
        <4>2. UNCHANGED Written
          BY <1>1, <3>3, OtherWork
        <4>3. \A r \in responses' : r \in responses \/ (r.type = job[w].type /\ r.req = job[w].req)
          BY <1>1, <2>2, <3>3 DEF Work, Refuse, Throw, OpenLog, CheckLog, LockLog,
                  WriteLine, WriteEnd, UnlockLog, Logged, Load, Respond
        <4> QED
          BY <3>1, <3>3, <4>1, <4>2, <4>3 DEF Truthful, Moves
      <3> QED
        BY <3>2, <3>3
    <2> QED
      BY <2>1, <2>2
  <1>2. CASE \E r \in responses : Send(r)
    <2>1. UNCHANGED <<Written, job>>
      BY <1>2 DEF Send, Written, Lines
    <2> QED
      BY <1>2, <2>1 DEF Truthful, Send
  <1>3. CASE Crash
    <2>1. UNCHANGED Written
      BY <1>3 DEF Crash, LogCrash, Written, Lines
    <2> QED
      BY <1>3, <2>1 DEF Crash, Truthful
  <1>4. CASE UNCHANGED <<file, job, responses, acked>>
    <2>1. UNCHANGED Written
      BY <1>4 DEF Written, Lines
    <2> QED
      BY <1>4, <2>1 DEF Truthful
  <1> QED
    BY <1>1, <1>2, <1>3, <1>4 DEF Next, Io, IoCountSent, Recv, vars

LEMMA IStep == IInv /\ "write" \notin Faults /\ [Next]_vars => IInv'
  <1> SUFFICES ASSUME IInv, "write" \notin Faults, [Next]_vars PROVE IInv'
    OBVIOUS
  <1>1. TypeOK' /\ Partial' /\ Exclusive'
    BY TypeStep, PartialStep, ExclusiveStep DEF IInv
  <1>2. LinesWhole' /\ Found'
    BY LinesStep, FoundStep DEF IInv
  <1> QED
    BY <1>1, <1>2, NumbersStep, TruthfulStep DEF IInv

LEMMA Invariant ==
  ASSUME "write" \notin Faults
  PROVE  Spec => []IInv
  <1>1. Init => IInv
    BY IInit
  <1>2. IInv /\ [Next]_vars => IInv'
    BY IStep
  <1> QED
    BY <1>1, <1>2, PTL DEF Spec

\* Unless writing fails, each end of a line comes right after the text of its own record,
\* and no text is torn but by a crash, one for each, and that of a long record: LinesWhole.
THEOREM LinesStayWhole ==
  ASSUME "write" \notin Faults
  PROVE  Spec => []LinesWhole
  <1>1. IInv => LinesWhole
    BY DEF IInv
  <1> QED
    BY <1>1, Invariant, PTL

\* Unless writing fails, an acknowledged record is in the file: AckedWritten.
THEOREM AcknowledgedIsWritten ==
  ASSUME "write" \notin Faults
  PROVE  Spec => []AckedWritten
  <1>1. IInv => AckedWritten
    BY DEF IInv, Found, Truthful, AckedWritten
  <1> QED
    BY <1>1, Invariant, PTL

-----------------------------------------------------------------------------
(* The abstract log.                                                        *)

LEMMA AddsALine ==
  ASSUME IInv, "write" \notin Faults, [Next]_vars
  PROVE  [Log!Next]_<<Lines, acked>>
  <1> USE DEF IInv
  <1>1. Log!Range(Lines) = Written
    BY DEF Written
  <1>2. CASE \E w \in Worker : FlushLog(w)
    <2>1. PICK w \in Worker : /\ FlushLog(w) /\ job[w] \in Jobs
                             /\ Lines' = Append(Lines, job[w].req.num)
      BY <1>2, FileMoves
    <2>2. job[w].req.num \notin Written /\ job[w].req.num \in 1..MaxRequests
      BY <2>1, Working DEF FlushLog, Truthful, Idle
    <2>3. UNCHANGED acked
      BY <2>1 DEF FlushLog
    <2> QED
      BY <1>1, <2>1, <2>2, <2>3 DEF Log!Next, Log!Add
  <1>3. CASE \A w \in Worker : ~FlushLog(w)
    <2>2. UNCHANGED Lines
      BY <1>3, FileMoves
    <2>3. CASE \E r \in responses : Send(r)
      <3>1. PICK r \in responses : Send(r)
        BY <2>3
      <3>2. CASE r.type = "LOG_ACK"
        <4>1. r.req.num \in Written /\ r.req.num \in 1..MaxRequests
          BY <3>2 DEF Truthful, TypeOK, Responses, Requests
        <4> QED
          BY <1>1, <2>2, <3>1, <3>2, <4>1 DEF Send, Log!Next, Log!Acknowledge
      <3>3. CASE r.type # "LOG_ACK"
        BY <2>2, <3>1, <3>3 DEF Send
      <3> QED
        BY <3>2, <3>3
    <2>4. CASE UNCHANGED acked
      BY <2>2, <2>4
    <2> QED
      BY <2>3, <2>4 DEF Next, Io, IoCountSent, Recv, Crash, vars, Work, Dispatch, Refuse, Throw, OpenLog,
                        CheckLog, LockLog, WriteLine, WriteEnd, FlushLog, UnlockLog, Logged, Load, Respond
  <1> QED
    BY <1>2, <1>3

\* Unless writing fails, the file and the acknowledgements implement DurableLog.
THEOREM LogRefines ==
  ASSUME "write" \notin Faults
  PROVE  Spec => ImplementsDurableLog
  <1>1. Init => Log!Init
    <2>2. Init => Lines = <<>>
      BY NoRecords DEF Init, LogInit, Lines
    <2> QED
      BY <2>2 DEF Init, Log!Init
  <1>2. IInv /\ [Next]_vars => [Log!Next]_<<Lines, acked>>
    BY AddsALine
  <1> QED
    BY <1>1, <1>2, Invariant, PTL DEF Spec, ImplementsDurableLog, Log!Spec

-----------------------------------------------------------------------------
(* The counters: StatsPlausible, StatsCurrent and CountersAgree.  The invariant *)
(* of the first says where every request that was counted is: in the queue, *)
(* with a worker that has yet to count its outcome, or done.  That of the    *)
(* others also balances the counters with the answers on their way and those *)
(* that were given.                                                        *)

\* The workers that may still count a record or an error.
Counting == {w \in Worker :
               job[w].at \in {"refuse", "log", "lock", "text", "end", "flush", "unlock", "ack"}}

Tally == /\ IsFiniteSet(waiting) /\ \A r \in waiting : r.num < next
         /\ total["requests"] + Cardinality(waiting) = total["recv"]
         /\ total["logs"] + total["errors"] + Cardinality(Counting) <= total["requests"]

\* What is known of the counters that were loaded so far, when they are at t now.
Seen(stat, t) ==
  /\ Len(stat) >= 1 => stat[1] <= t["requests"]
  /\ Len(stat) = 2 => stat[2] <= t["logs"]
  /\ Len(stat) >= 3 => stat[2] + stat[3] <= t["requests"]
  /\ Len(stat) >= 4 => stat[1] <= stat[4] /\ stat[2] + stat[3] <= stat[4]

Snapshots ==
  /\ \A w \in Worker : job[w] # Idle =>
       /\ Seen(job[w].stat, total)
       /\ job[w].type = "STATS_RESP" =>
            job[w].at = "stats" \/ (job[w].at = "respond" /\ Len(job[w].stat) = 5)
  /\ StatsPlausible

CInv == TypeOK /\ Partial /\ Tally /\ Snapshots

LEMMA CountingFinite == IsFiniteSet(Counting) /\ Cardinality(Counting) \in Nat
  BY FS_Subset, FS_CardinalityType, BusinessAssumption DEF Counting

LEMMA Numeric ==
  ASSUME TypeOK
  PROVE  /\ \A c \in Counters : total[c] \in Nat
         /\ total["requests"] \in Nat /\ total["logs"] \in Nat /\ total["errors"] \in Nat
         /\ total["recv"] \in Nat /\ total["sent"] \in Nat
  BY DEF TypeOK, Counters

LEMMA CInit == Init => CInv
  <1> SUFFICES ASSUME Init PROVE CInv
    OBVIOUS
  <1>1. TypeOK /\ Partial
    BY TypeInit DEF Init, Idle, Partial
  <1>2. Counting = {}
    BY DEF Init, Counting, Idle
  <1> QED
    BY <1>1, <1>2, FS_EmptySet DEF Init, CInv, Tally, Snapshots, Zero, Counters, StatsPlausible, Stats

\* What a step does to the counters.
LEMMA Increment ==
  ASSUME TypeOK, NEW c \in Counters, Count(c)
  PROVE  /\ total'[c] = total[c] + 1
         /\ \A d \in Counters \ {c} : total'[d] = total[d]
  BY DEF TypeOK, Count

LEMMA Monotone ==
  ASSUME TypeOK, [Next]_vars, ~Crash
  PROVE  \A c \in Counters : total[c] <= total'[c]
  <1>1. CASE UNCHANGED total
    BY <1>1, Numeric
  <1>2. CASE \E c \in Counters : Count(c)
    BY <1>2, Increment, Numeric
  <1> QED
    BY <1>1, <1>2 DEF Next, Io, IoCountSent, CountSent, Send, Recv, vars, Counters,
       Work, Dispatch, Refuse, Throw, OpenLog, CheckLog, LockLog, WriteLine, WriteEnd, FlushLog,
       UnlockLog, Logged, Load, Respond

\* Who has yet to count the outcome of a request.
LEMMA CountingMoves ==
  ASSUME TypeOK, NEW w \in Worker, Work(w), ~Dispatch(w)
  PROVE  /\ Counting' \subseteq Counting
         /\ Refuse(w) \/ Logged(w) => w \in Counting /\ Counting' = Counting \ {w}
  <1>1. job \in [Worker -> {Idle} \cup Jobs]
    BY DEF TypeOK
  <1>2. job[w] # Idle /\ job[w] \in Jobs /\ \A u \in Worker \ {w} : job'[u] = job[u]
    <2>1. Moves(w)
      BY Movement
    <2> QED
      BY <1>1, <2>1 DEF Moves
  <1>3. CASE Refuse(w) \/ Logged(w)
    BY <1>1, <1>2, <1>3 DEF Refuse, Logged, Counting, Jobs
  <1>4. CASE Throw(w) \/ Respond(w)
    BY <1>1, <1>2, <1>4 DEF Throw, Respond, Counting, Idle, Refuse, Logged
  <1>5. CASE OpenLog(w)
    BY <1>5 DEF OpenLog, Counting, Refuse, Logged
  <1>6. CASE CheckLog(w) \/ LockLog(w) \/ WriteLine(w) \/ WriteEnd(w) \/ FlushLog(w) \/ UnlockLog(w)
    <2>1. w \in Counting
      BY <1>6 DEF CheckLog, LockLog, WriteLine, WriteEnd, FlushLog, UnlockLog, Counting
    <2>2. Counting' \subseteq Counting
      BY <1>2, <2>1 DEF Counting
    <2> QED
      BY <1>6, <2>2 DEF CheckLog, LockLog, WriteLine, WriteEnd, FlushLog, UnlockLog, Refuse, Logged
  <1>7. CASE Load(w)
    <2>1. job'[w].at \in {"stats", "respond"}
      BY <1>1, <1>2, <1>7 DEF Load, Jobs
    <2>2. Counting' \subseteq Counting
      BY <1>2, <2>1 DEF Counting
    <2> QED
      BY <1>7, <2>2 DEF Load, Refuse, Logged
  <1> QED
    BY <1>3, <1>4, <1>5, <1>6, <1>7 DEF Work

LEMMA TallyStep ==
  ASSUME CInv, [Next]_vars
  PROVE  Tally'
  <1> USE DEF CInv
  <1>0. Cardinality(waiting) \in Nat /\ next \in Nat /\ \A r \in waiting : r.num \in Nat
    BY FS_CardinalityType, BusinessAssumption DEF Tally, TypeOK, Requests
  <1>1. CASE \E kind \in Kinds : Recv(kind)
    <2>1. PICK kind \in Kinds : Recv(kind)
      BY <1>1
    <2> DEFINE q == [num |-> next, kind |-> kind, seen |-> IF kind = "STATS" THEN given ELSE Nothing]
    <2>2. waiting' = waiting \cup {q} /\ q.num = next /\ next' = next + 1 /\ Count("recv")
          /\ UNCHANGED job
      BY <2>1 DEF Recv
    <2> HIDE DEF q
    <2>3. q \notin waiting
      BY <2>2, <1>0 DEF Tally
    <2>4. IsFiniteSet(waiting') /\ Cardinality(waiting') = Cardinality(waiting) + 1
      BY <2>2, <2>3, FS_AddElement DEF Tally
    <2>5. \A r \in waiting' : r.num < next'
      BY <2>2, <1>0 DEF Tally
    <2>6. /\ total'["recv"] = total["recv"] + 1 /\ total'["requests"] = total["requests"]
          /\ total'["logs"] = total["logs"] /\ total'["errors"] = total["errors"]
      BY <2>2, Increment DEF Counters
    <2>7. Counting' = Counting
      BY <2>2 DEF Counting
    <2> QED
      BY <2>4, <2>5, <2>6, <2>7, <1>0, Numeric DEF Tally
  <1>2. ASSUME NEW w \in Worker, Work(w) PROVE Tally'
    <2>1. CASE Dispatch(w)
      <3>1. PICK r \in waiting : waiting' = waiting \ {r}
        BY <2>1 DEF Dispatch
      <3>2. IsFiniteSet(waiting') /\ Cardinality(waiting') = Cardinality(waiting) - 1
        BY <3>1, FS_RemoveElement DEF Tally
      <3>3. /\ total'["requests"] = total["requests"] + 1 /\ total'["recv"] = total["recv"]
            /\ total'["logs"] = total["logs"] /\ total'["errors"] = total["errors"]
        BY <2>1, Increment DEF Dispatch, Counters
      <3>4. job \in [Worker -> {Idle} \cup Jobs]
        BY DEF TypeOK
      <3>5. Counting' \subseteq Counting \cup {w}
        BY <2>1, <3>4 DEF Dispatch, Counting
      <3>6. IsFiniteSet(Counting \cup {w}) /\ Cardinality(Counting \cup {w}) <= Cardinality(Counting) + 1
        <4>1. /\ IsFiniteSet(Counting \cup {w})
              /\ Cardinality(Counting \cup {w}) =
                   IF w \in Counting THEN Cardinality(Counting) ELSE Cardinality(Counting) + 1
          BY CountingFinite, FS_AddElement, Zenon
        <4>2. Cardinality(Counting) \in Nat
          BY CountingFinite
        <4> QED
          BY <4>1, <4>2
      <3>7. Cardinality(Counting') <= Cardinality(Counting \cup {w}) /\ Cardinality(Counting') \in Nat
        BY <3>5, <3>6, FS_Subset, FS_CardinalityType
      <3>8. Cardinality(Counting \cup {w}) \in Nat
        BY <3>6, FS_CardinalityType
      <3>9. UNCHANGED next
        BY <2>1 DEF Dispatch
      <3> QED
        BY <3>1, <3>2, <3>3, <3>6, <3>7, <3>8, <3>9, <1>0, CountingFinite, Numeric DEF Tally
    <2>2. CASE ~Dispatch(w)
      <3>1. UNCHANGED <<waiting, next>>
        BY <1>2, <2>2, Movement
      <3>2. Counting' \subseteq Counting /\ (Refuse(w) \/ Logged(w) => w \in Counting /\ Counting' = Counting \ {w})
        BY <1>2, <2>2, CountingMoves
      <3>3. Cardinality(Counting') <= Cardinality(Counting) /\ Cardinality(Counting') \in Nat
        BY <3>2, CountingFinite, FS_Subset, FS_CardinalityType
      <3>4. CASE Refuse(w) \/ Logged(w)
        <4>1. Cardinality(Counting') = Cardinality(Counting) - 1
          BY <3>2, <3>4, CountingFinite, FS_RemoveElement
        <4>2. /\ total'["requests"] = total["requests"] /\ total'["recv"] = total["recv"]
              /\ total'["logs"] + total'["errors"] = total["logs"] + total["errors"] + 1
          BY <3>4, Increment, Numeric DEF Refuse, Logged, Counters
        <4>3. total'["logs"] \in Nat /\ total'["errors"] \in Nat
          BY <3>4, Increment, Numeric DEF Refuse, Logged, Counters
        <4> QED
          BY <3>1, <4>1, <4>2, <4>3, <1>0, CountingFinite, Numeric DEF Tally
      <3>5. CASE ~(Refuse(w) \/ Logged(w))
        <4>1. UNCHANGED total
          BY <1>2, <2>2, <3>5 DEF Work, Throw, OpenLog, CheckLog, LockLog, WriteLine, WriteEnd, FlushLog,
             UnlockLog, Load, Respond
        <4> QED
          BY <3>1, <3>3, <4>1, CountingFinite, Numeric DEF Tally
      <3> QED
        BY <3>4, <3>5
    <2> QED
      BY <2>1, <2>2
  <1>3. CASE Io
    <2>1. UNCHANGED <<waiting, next, job>>
      BY <1>3 DEF Io, IoCountSent, Send
    <2>2. Counting' = Counting
      BY <2>1 DEF Counting
    <2>3. /\ total'["requests"] = total["requests"] /\ total'["recv"] = total["recv"]
          /\ total'["logs"] = total["logs"] /\ total'["errors"] = total["errors"]
      BY <1>3, Increment DEF Io, IoCountSent, CountSent, Send, Counters
    <2> QED
      BY <2>1, <2>2, <2>3 DEF Tally
  <1>4. CASE Crash
    <2>1. Counting' = {}
      BY <1>4 DEF Crash, Counting, Idle
    <2> QED
      BY <1>4, <2>1, FS_EmptySet DEF Crash, Tally, Zero, Counters
  <1>5. CASE UNCHANGED vars
    <2>1. Counting' = Counting
      BY <1>5 DEF vars, Counting
    <2> QED
      BY <1>5, <2>1 DEF vars, Tally
  <1> QED
    BY <1>1, <1>2, <1>3, <1>4, <1>5 DEF Next

\* What was seen stays true while the counters grow.
LEMMA SeenStays ==
  ASSUME NEW t \in [Counters -> Nat], NEW u \in [Counters -> Nat], \A c \in Counters : t[c] <= u[c],
         NEW s \in Seq(Nat), Seen(s, t)
  PROVE  Seen(s, u)
  <1>1. /\ t["requests"] <= u["requests"] /\ t["logs"] <= u["logs"]
        /\ t["requests"] \in Nat /\ t["logs"] \in Nat /\ u["requests"] \in Nat /\ u["logs"] \in Nat
    BY DEF Counters
  <1>2. Len(s) \in Nat /\ \A i \in 1..Len(s) : s[i] \in Nat
    OBVIOUS
  <1>3. /\ Len(s) >= 1 => s[1] \in Nat
        /\ Len(s) = 2 => s[2] \in Nat
        /\ Len(s) >= 3 => s[2] \in Nat /\ s[3] \in Nat
    BY <1>2
  <1> QED
    BY <1>1, <1>2, <1>3 DEF Seen

\* One more counter is loaded.
LEMMA SeenMore ==
  ASSUME TypeOK, Tally, NEW s \in Seq(Nat), Seen(s, total), Len(s) \in 0..4
  PROVE  Seen(Append(s, total[Loads[Len(s) + 1]]), total)
  <1> DEFINE x == total[Loads[Len(s) + 1]]
             t == Append(s, x)
  <1>1. x \in Nat
    BY LoadOK
  <1> HIDE DEF x
  <1>2. t \in Seq(Nat) /\ Len(t) = Len(s) + 1 /\ t[Len(s) + 1] = x /\ \A i \in 1..Len(s) : t[i] = s[i]
    BY <1>1
  <1>3. Len(s) \in Nat /\ \A i \in 1..Len(s) : s[i] \in Nat
    OBVIOUS
  <1>4. Cardinality(waiting) \in Nat
    BY FS_CardinalityType DEF Tally
  <1> HIDE DEF t
  <1>5. ASSUME Len(s) = 0 PROVE Seen(t, total)
    <2>1. x = total["requests"]
      BY <1>5 DEF x, Loads
    <2> QED
      BY <1>2, <1>5, <2>1, Numeric DEF Seen
  <1>6. ASSUME Len(s) = 1 PROVE Seen(t, total)
    <2>1. x = total["logs"]
      BY <1>6 DEF x, Loads
    <2>2. t[1] = s[1] /\ t[2] = x /\ Len(t) = 2
      BY <1>2, <1>6
    <2> QED
      BY <1>6, <2>1, <2>2, Numeric DEF Seen
  <1>7. ASSUME Len(s) = 2 PROVE Seen(t, total)
    <2>1. x = total["errors"]
      BY <1>7 DEF x, Loads
    <2>2. t[1] = s[1] /\ t[2] = s[2] /\ t[3] = x /\ Len(t) = 3 /\ s[1] \in Nat /\ s[2] \in Nat
      BY <1>2, <1>3, <1>7
    <2>3. s[2] + x <= total["requests"]
      BY <1>7, <2>1, <2>2, Numeric, CountingFinite DEF Seen, Tally
    <2> QED
      BY <1>7, <2>2, <2>3 DEF Seen
  <1>8. ASSUME Len(s) = 3 PROVE Seen(t, total)
    <2>1. x = total["recv"]
      BY <1>8 DEF x, Loads
    <2>2. t[1] = s[1] /\ t[2] = s[2] /\ t[3] = s[3] /\ t[4] = x /\ Len(t) = 4
          /\ s[1] \in Nat /\ s[2] \in Nat /\ s[3] \in Nat
      BY <1>2, <1>3, <1>8
    <2>3. total["requests"] <= x
      BY <2>1, <1>4, Numeric DEF Tally
    <2> QED
      BY <1>8, <1>1, <2>2, <2>3, Numeric, SMTT(30) DEF Seen
  <1>9. ASSUME Len(s) = 4 PROVE Seen(t, total)
    <2>1. t[1] = s[1] /\ t[2] = s[2] /\ t[3] = s[3] /\ t[4] = s[4] /\ Len(t) = 5
      BY <1>2, <1>9
    <2> QED
      BY <1>9, <2>1 DEF Seen
  <1> QED
    BY <1>5, <1>6, <1>7, <1>8, <1>9 DEF t, x

LEMMA SnapshotsStep ==
  ASSUME CInv, TypeOK', [Next]_vars
  PROVE  Snapshots'
  <1> USE DEF CInv
  <1>0. job \in [Worker -> {Idle} \cup Jobs] /\ total \in [Counters -> Nat] /\ total' \in [Counters -> Nat]
    BY DEF TypeOK
  <1>1. CASE Crash
    BY <1>1 DEF Crash, Snapshots, StatsPlausible, Stats
  <1>2. CASE ~Crash
    <2>1. \A c \in Counters : total[c] <= total'[c]
      BY <1>2, Monotone
    <2>2. ASSUME NEW w \in Worker, job[w] # Idle
          PROVE  Seen(job[w].stat, total') /\ job[w].stat \in Seq(Nat) /\ job[w] \in Jobs
      <3>1. job[w].stat \in Seq(Nat) /\ Seen(job[w].stat, total) /\ job[w] \in Jobs
        BY <1>0, <2>2 DEF Jobs, Snapshots
      <3> QED
        BY <1>0, <2>1, <3>1, SeenStays
    <2>3. CASE UNCHANGED job /\ responses' \subseteq responses
      BY <2>2, <2>3 DEF Snapshots, StatsPlausible, Stats
    <2>4. ASSUME NEW w \in Worker, Work(w) PROVE Snapshots'
      <3>1. ASSUME UNCHANGED responses, \A u \in Worker \ {w} : job'[u] = job[u],
                   job'[w] # Idle => /\ Seen(job'[w].stat, total')
                                     /\ job'[w].type = "STATS_RESP" =>
                                          job'[w].at = "stats" \/ (job'[w].at = "respond" /\ Len(job'[w].stat) = 5)
            PROVE  Snapshots'
        BY <2>2, <3>1 DEF Snapshots, StatsPlausible, Stats
      <3>2. CASE Dispatch(w)
        <4>1. PICK r \in waiting : job' = [job EXCEPT ![w] = [at |-> Handler(r.kind), req |-> r,
                                                  type |-> Type(r.kind), stat |-> <<>>]]
          BY <3>2 DEF Dispatch
        <4>2. Type(r.kind) # "STATS_RESP" /\ Seen(<<>>, total')
          BY DEF Type, Seen
        <4> QED
          BY <1>0, <3>1, <3>2, <4>1, <4>2 DEF Dispatch
      <3>3. CASE Load(w)
        <4> DEFINE stat == Append(job[w].stat, total[Loads[Len(job[w].stat) + 1]])
                   at == IF Len(stat) = Len(Loads) THEN "respond" ELSE job[w].at
        <4>1. job[w] # Idle /\ job[w] \in Jobs /\ job[w].stat \in Seq(Nat)
          BY <3>3, Working DEF Load, Jobs, Idle
        <4>2. Len(job[w].stat) \in 0..4
          BY <3>3, <4>1, FewLoaded DEF Load, Partial
        <4>3. Seen(stat, total)
          BY <4>1, <4>2, SeenMore DEF Snapshots
        <4>4. UNCHANGED <<total, responses>>
          BY <3>3 DEF Load
        <4>5. at = "stats" \/ (at = "respond" /\ Len(stat) = 5)
          BY <3>3, LenLoads DEF Load
        <4>6. job' = [job EXCEPT ![w] = [job[w] EXCEPT !.stat = stat, !.at = at, !.type = "STATS_RESP"]]
          BY <3>3 DEF Load
        <4> HIDE DEF stat, at
        <4>7. job'[w].stat = stat /\ job'[w].at = at /\ \A u \in Worker \ {w} : job'[u] = job[u]
          BY <1>0, <4>1, <4>6 DEF Jobs
        <4> QED
          BY <3>1, <4>3, <4>4, <4>5, <4>7
      <3>4. CASE Respond(w)
        <4>1. job[w] # Idle /\ job[w] \in Jobs
          BY <3>4, Working DEF Respond, Idle
        <4>2. \A r \in responses' : r \in responses \/ (r.type = job[w].type /\ r.stat = job[w].stat)
          BY <3>4 DEF Respond
        <4>3. job[w].type = "STATS_RESP" =>
                job[w].stat[1] <= job[w].stat[4] /\ job[w].stat[2] + job[w].stat[3] <= job[w].stat[4]
          BY <3>4, <4>1 DEF Respond, Snapshots, Seen
        <4>4. StatsPlausible'
          BY <4>2, <4>3 DEF StatsPlausible, Stats, Snapshots
        <4>5. job'[w] = Idle /\ \A u \in Worker \ {w} : job'[u] = job[u]
          BY <1>0, <3>4 DEF Respond
        <4> QED
          BY <2>2, <4>4, <4>5 DEF Snapshots
      <3>5. CASE ~Dispatch(w) /\ ~Load(w) /\ ~Respond(w)
        <4>1. Moves(w)
          BY <2>4, <3>5, Movement
        <4>2. UNCHANGED responses
          BY <2>4, <3>5 DEF Work, Refuse, Throw, OpenLog, CheckLog, LockLog, WriteLine, WriteEnd, FlushLog,
             UnlockLog, Logged
        <4>3. job[w] # Idle /\ job[w] \in Jobs /\ job[w].at \notin {"stats", "respond"}
          BY <1>0, <2>4, <3>5, <4>1 DEF Moves, Work, Refuse, Throw, OpenLog, CheckLog, LockLog, WriteLine,
             WriteEnd, FlushLog, UnlockLog, Logged
        <4>4. job[w].type # "STATS_RESP"
          BY <4>3 DEF Snapshots
        <4>5. job'[w] # Idle => job'[w].stat = job[w].stat /\ job'[w].type # "STATS_RESP"
          <5>1. CASE Throw(w)
            BY <1>0, <5>1 DEF Throw
          <5>2. CASE OpenLog(w)
            BY <4>4, <5>2 DEF OpenLog
          <5>3. CASE Logged(w)
            BY <1>0, <4>3, <5>3 DEF Logged, Jobs
          <5>4. CASE Refuse(w) \/ CheckLog(w) \/ LockLog(w) \/ WriteLine(w)
            BY <1>0, <4>3, <4>4, <5>4 DEF Refuse, CheckLog, LockLog, WriteLine, Jobs
          <5>5. CASE WriteEnd(w) \/ FlushLog(w) \/ UnlockLog(w)
            BY <1>0, <4>3, <4>4, <5>5 DEF WriteEnd, FlushLog, UnlockLog, Jobs
          <5> QED
            BY <2>4, <3>5, <5>1, <5>2, <5>3, <5>4, <5>5 DEF Work
        <4>6. Seen(job[w].stat, total')
          BY <2>2, <4>3
        <4> QED
          BY <3>1, <4>1, <4>2, <4>5, <4>6 DEF Moves
      <3> QED
        BY <3>2, <3>3, <3>4, <3>5
    <2> QED
      BY <1>2, <2>3, <2>4 DEF Next, Io, IoCountSent, Send, Recv, vars
  <1> QED
    BY <1>1, <1>2

\* The loads of handleStats() come in an order that keeps the answer plausible:
\* StatsPlausible.
THEOREM AnswersArePlausible == Spec => []StatsPlausible
  <1>1. CInv /\ [Next]_vars => CInv'
    BY TypeStep, PartialStep, TallyStep, SnapshotsStep DEF CInv
  <1>2. CInv => StatsPlausible
    BY DEF CInv, Snapshots
  <1> QED
    BY <1>1, <1>2, CInit, PTL DEF Spec

-----------------------------------------------------------------------------
(* Where the outcome of every request is, and what a client knew when it    *)
(* asked.                                                                   *)

\* A job or a response that refuses a record.
Refused(j) == j.type = "ERROR_RESP" /\ j.req.kind # "UNKNOWN"

Busy == {w \in Worker : job[w] # Idle}

\* What is counted but not sent: the workers and the responses that acknowledge or refuse.
Acking == {w \in Worker : job[w].at = "respond" /\ job[w].type = "LOG_ACK"}
Refusing == {w \in Worker : job[w].at = "respond" /\ Refused(job[w])}
Acks == {r \in responses : r.type = "LOG_ACK"}
Refusals == {r \in responses : Refused(r)}

\* No request is in two places.
Distinct ==
  /\ \A r \in responses : r.req.num < next
  /\ \A w \in Busy : job[w].req.num < next
  /\ \A r, s \in waiting : r.num = s.num => r = s
  /\ \A r \in waiting : /\ \A w \in Busy : r.num # job[w].req.num
                        /\ \A s \in responses : r.num # s.req.num
  /\ \A w \in Busy : /\ \A v \in Busy : job[v].req.num = job[w].req.num => v = w
                     /\ \A s \in responses : job[w].req.num # s.req.num

\* A worker that has not come to its answer would refuse.
Outcomes == \A w \in Worker : job[w].at \notin {"idle", "respond", "stats"} => Refused(job[w])

\* Every count is an answer that was given or is on its way.
Balance ==
  /\ IsFiniteSet(responses)
  /\ given.acks + Cardinality(Acks) + Cardinality(Acking) = total["logs"]
  /\ given.errors + Cardinality(Refusals) + Cardinality(Refusing) = total["errors"]
  /\ given.all + Cardinality(responses) + Cardinality(Busy) <= total["requests"]
  /\ given.all = total["sent"] + uncounted

\* What the clients had received when r was sent has been counted.
Fresh(r, g, t) == /\ r.seen.acks <= g.acks
                  /\ r.seen.errors <= g.errors
                  /\ r.seen.all <= t["sent"]

\* The counters that were loaded so far count it too.
Reports(seen, stat) ==
  /\ Len(stat) >= 1 => stat[1] > seen.all
  /\ Len(stat) >= 2 => stat[2] >= seen.acks
  /\ Len(stat) >= 3 => stat[3] >= seen.errors
  /\ Len(stat) >= 5 => stat[5] >= seen.all

\* They are not ahead of the counters t.
Past(stat, t) == \A i \in 1..5 : i <= Len(stat) => stat[i] <= t[Loads[i]]

Current == /\ \A r \in waiting : Fresh(r, given, total)
           /\ \A w \in Busy : /\ Fresh(job[w].req, given, total)
                              /\ Reports(job[w].req.seen, job[w].stat)
                              /\ Past(job[w].stat, total)
           /\ \A r \in Stats : /\ Len(r.stat) = 5
                              /\ Reports(r.req.seen, r.stat)
                              /\ Past(r.stat, total)

LInv == CInv /\ Distinct /\ Outcomes /\ Balance /\ Current

LEMMA LInit == Init => LInv
  <1> SUFFICES ASSUME Init PROVE LInv
    OBVIOUS
  <1>1. CInv
    BY CInit
  <1>2. Busy = {} /\ Acking = {} /\ Refusing = {} /\ Acks = {} /\ Refusals = {}
    BY DEF Init, Busy, Acking, Refusing, Acks, Refusals, Idle
  <1>3. Distinct /\ Outcomes /\ Current
    BY <1>2 DEF Init, Distinct, Outcomes, Current, Stats, Idle
  <1>4. Balance
    BY <1>2, FS_EmptySet DEF Init, Balance, Zero, Nothing, Counters
  <1> QED
    BY <1>1, <1>3, <1>4 DEF LInv

\* A set that changes in x only.
LEMMA Toggle ==
  ASSUME NEW S, NEW T, NEW x, IsFiniteSet(S), S \ {x} = T \ {x}
  PROVE  /\ IsFiniteSet(T) /\ Cardinality(S) \in Nat /\ Cardinality(T) \in Nat
         /\ x \in T /\ x \notin S => Cardinality(T) = Cardinality(S) + 1
         /\ x \in S /\ x \notin T => Cardinality(T) = Cardinality(S) - 1
         /\ (x \in S <=> x \in T) => T = S
  <1>1. CASE x \in T /\ x \notin S
    <2>1. T = S \cup {x}
      BY <1>1
    <2>2. IsFiniteSet(T) /\ Cardinality(T) = Cardinality(S) + 1
      BY <1>1, <2>1, FS_AddElement
    <2> QED
      BY <1>1, <2>2, FS_CardinalityType
  <1>2. CASE x \in S /\ x \notin T
    <2>1. T = S \ {x}
      BY <1>2
    <2>2. IsFiniteSet(T) /\ Cardinality(T) = Cardinality(S) - 1
      BY <1>2, <2>1, FS_RemoveElement
    <2> QED
      BY <1>2, <2>2, FS_CardinalityType
  <1>3. CASE x \in S <=> x \in T
    <2>1. T = S
      BY <1>3
    <2> QED
      BY <1>3, <2>1, FS_CardinalityType
  <1> QED
    BY <1>1, <1>2, <1>3

LEMMA WorkersFinite ==
  IsFiniteSet(Busy) /\ IsFiniteSet(Acking) /\ IsFiniteSet(Refusing)
  BY FS_Subset, BusinessAssumption DEF Busy, Acking, Refusing

-----------------------------------------------------------------------------
(* What a step does to the job of the worker that takes it.                 *)

\* w's job becomes j.
Becomes(w, j) == job'[w] = j /\ \A u \in Worker \ {w} : job'[u] = job[u]

\* The request stays, with what was loaded for it.
Keeps(w) == job'[w].req = job[w].req /\ job'[w].stat = job[w].stat

LEMMA Assigned ==
  ASSUME TypeOK, NEW w \in Worker, NEW j, job' = [job EXCEPT ![w] = j]
  PROVE  Becomes(w, j)
  BY DEF TypeOK, Becomes

LEMMA Dispatched ==
  ASSUME TypeOK, NEW w \in Worker, Dispatch(w)
  PROVE  /\ job[w] = Idle
         /\ \E r \in waiting :
              /\ waiting' = waiting \ {r}
              /\ Becomes(w, [at |-> Handler(r.kind), req |-> r, type |-> Type(r.kind), stat |-> <<>>])
  <1>1. job[w] = Idle
    BY DEF Dispatch, TypeOK, Jobs
  <1> QED
    BY <1>1, Assigned DEF Dispatch

LEMMA Refuses ==
  ASSUME TypeOK, NEW w \in Worker, Refuse(w)
  PROVE  /\ job[w] \in Jobs /\ job[w].at = "refuse"
         /\ Becomes(w, [job[w] EXCEPT !.at = "respond"]) /\ Keeps(w)
         /\ job'[w] \in Jobs /\ job'[w].at = "respond" /\ job'[w].type = job[w].type
  <1>1. job[w] \in Jobs /\ job[w].at = "refuse"
    BY Working DEF Refuse
  <1>2. Becomes(w, [job[w] EXCEPT !.at = "respond"])
    BY Assigned DEF Refuse
  <1> QED
    BY <1>1, <1>2 DEF Becomes, Keeps, Jobs

LEMMA Logs ==
  ASSUME TypeOK, NEW w \in Worker, Logged(w)
  PROVE  /\ job[w] \in Jobs /\ job[w].at = "ack"
         /\ Becomes(w, [job[w] EXCEPT !.at = "respond", !.type = "LOG_ACK"]) /\ Keeps(w)
         /\ job'[w] \in Jobs /\ job'[w].at = "respond" /\ job'[w].type = "LOG_ACK"
  <1>1. job[w] \in Jobs /\ job[w].at = "ack"
    BY Working DEF Logged
  <1>2. Becomes(w, [job[w] EXCEPT !.at = "respond", !.type = "LOG_ACK"])
    <2>1. job' = [job EXCEPT ![w] = [job[w] EXCEPT !.at = "respond", !.type = "LOG_ACK"]]
      BY DEF Logged
    <2> QED
      BY <2>1, Assigned
  <1> QED
    BY <1>1, <1>2 DEF Becomes, Keeps, Jobs, Types

\* The steps in LogStorage.
Logging(w) == \/ OpenLog(w) \/ CheckLog(w) \/ LockLog(w) \/ WriteLine(w) \/ WriteEnd(w)
              \/ FlushLog(w) \/ UnlockLog(w)

LEMMA StepsOn ==
  ASSUME TypeOK, NEW w \in Worker, Logging(w)
  PROVE  /\ job[w] \in Jobs /\ job[w].at \notin {"respond", "stats"}
         /\ Becomes(w, job'[w]) /\ Keeps(w)
         /\ job'[w] \in Jobs /\ job'[w].at \notin {"respond", "stats"} /\ job'[w].type = job[w].type
         /\ UNCHANGED <<total, given, io>>
  <1>1. job[w] \in Jobs /\ job[w].at \notin {"respond", "stats"} /\ UNCHANGED <<total, given, io>>
    BY Working DEF Logging, OpenLog, CheckLog, LockLog, WriteLine, WriteEnd, FlushLog, UnlockLog
  <1>2. CASE UNCHANGED job
    BY <1>1, <1>2 DEF Becomes, Keeps
  <1>3. CASE \E at \in {"lock", "refuse", "text", "end", "flush", "unlock", "ack"} : Goto(w, at)
    <2>1. PICK at \in {"lock", "refuse", "text", "end", "flush", "unlock", "ack"} : Goto(w, at)
      BY <1>3
    <2>2. Becomes(w, [job[w] EXCEPT !.at = at])
      BY <2>1, Assigned
    <2> QED
      BY <1>1, <2>1, <2>2 DEF Becomes, Keeps, Jobs
  <1> QED
    BY <1>2, <1>3 DEF Logging, OpenLog, CheckLog, LockLog, WriteLine, WriteEnd, FlushLog, UnlockLog

LEMMA Loaded ==
  ASSUME TypeOK, Partial, NEW w \in Worker, Load(w)
  PROVE  /\ job[w] \in Jobs /\ job[w].at = "stats" /\ Len(job[w].stat) \in 0..4
         /\ Becomes(w, job'[w])
         /\ job'[w] \in Jobs /\ job'[w].at \in {"stats", "respond"} /\ job'[w].type = "STATS_RESP"
         /\ job'[w].req = job[w].req
         /\ job'[w].stat = Append(job[w].stat, total[Loads[Len(job[w].stat) + 1]])
  <1> DEFINE stat == Append(job[w].stat, total[Loads[Len(job[w].stat) + 1]])
             at == IF Len(stat) = Len(Loads) THEN "respond" ELSE job[w].at
  <1>1. job[w] \in Jobs /\ job[w].at = "stats"
    BY Working DEF Load
  <1>2. job[w].stat \in Seq(Nat) /\ Len(job[w].stat) \in 0..4
    BY <1>1, FewLoaded DEF Partial, Jobs
  <1>3. stat \in Seq(Nat) /\ at \in {"stats", "respond"}
    <2>1. total[Loads[Len(job[w].stat) + 1]] \in Nat
      BY <1>2, LoadOK
    <2>2. stat \in Seq(Nat)
      BY <1>2, <2>1
    <2> QED
      BY <1>1, <2>2
  <1>4. job' = [job EXCEPT ![w] = [job[w] EXCEPT !.stat = stat, !.at = at, !.type = "STATS_RESP"]]
    BY DEF Load
  <1>5. stat = Append(job[w].stat, total[Loads[Len(job[w].stat) + 1]])
    OBVIOUS
  <1> HIDE DEF stat, at
  <1>6. Becomes(w, [job[w] EXCEPT !.stat = stat, !.at = at, !.type = "STATS_RESP"])
    BY <1>4, Assigned
  <1>7. /\ job'[w] \in Jobs /\ job'[w].at = at /\ job'[w].type = "STATS_RESP"
        /\ job'[w].req = job[w].req /\ job'[w].stat = stat
    BY <1>1, <1>3, <1>6 DEF Becomes, Jobs, Types
  <1> QED
    BY <1>1, <1>2, <1>3, <1>5, <1>6, <1>7 DEF Becomes

LEMMA Ends ==
  ASSUME TypeOK, NEW w \in Worker, Throw(w) \/ Respond(w)
  PROVE  /\ job[w] \in Jobs /\ job[w] # Idle
         /\ Becomes(w, Idle)
         /\ Respond(w) => job[w].at = "respond"
         /\ Throw(w) => job[w].at = "throw"
  BY Working, Assigned DEF Throw, Respond, Idle, Jobs

\* Any other step leaves the jobs, the requests and their numbers alone.
LEMMA Others ==
  ASSUME [Next]_vars, ~Crash, \A kind \in Kinds : ~Recv(kind), \A r \in responses : ~Send(r),
         \A w \in Worker : ~Work(w)
  PROVE  /\ UNCHANGED <<next, waiting, job, responses, given>>
         /\ \/ CountSent
            \/ UNCHANGED <<total, uncounted>>
  BY DEF Next, Io, IoCountSent, CountSent, vars

\* Who is at what, but for the worker that takes the step.
LEMMA Elsewhere ==
  ASSUME NEW w \in Worker, NEW j, Becomes(w, j)
  PROVE  /\ Busy \ {w} = Busy' \ {w}
         /\ Acking \ {w} = Acking' \ {w}
         /\ Refusing \ {w} = Refusing' \ {w}
  BY DEF Becomes, Busy, Acking, Refusing, Refused

LEMMA OutcomesStep ==
  ASSUME LInv, [Next]_vars
  PROVE  Outcomes'
  <1> USE DEF LInv, CInv
  <1>1. ASSUME NEW w \in Worker, Work(w) PROVE Outcomes'
    <2>1. ASSUME NEW j, Becomes(w, j), j.at \notin {"idle", "respond", "stats"} => Refused(j)
          PROVE  Outcomes'
      BY <2>1 DEF Outcomes, Becomes, Refused
    <2>2. CASE Dispatch(w)
      <3>1. PICK r \in waiting :
              Becomes(w, [at |-> Handler(r.kind), req |-> r, type |-> Type(r.kind), stat |-> <<>>])
        BY <2>2, Dispatched
      <3>2. r.kind \in Kinds
        BY DEF TypeOK, Requests
      <3>3. Handler(r.kind) \notin {"idle", "respond", "stats"} =>
              Type(r.kind) = "ERROR_RESP" /\ r.kind # "UNKNOWN"
        BY <3>2, BusinessAssumption DEF Handler, Type
      <3> QED
        BY <2>1, <3>1, <3>3 DEF Refused
    <2>3. CASE Refuse(w)
      BY <2>1, <2>3, Refuses DEF Becomes
    <2>4. CASE Logged(w)
      BY <2>1, <2>4, Logs DEF Becomes
    <2>5. CASE Logging(w)
      <3>1. job[w].at \notin {"idle", "respond", "stats"}
        BY <2>5, StepsOn DEF Jobs
      <3>2. Becomes(w, job'[w]) /\ job'[w].req = job[w].req /\ job'[w].type = job[w].type
        BY <2>5, StepsOn DEF Keeps
      <3> QED
        BY <2>1, <3>1, <3>2 DEF Outcomes, Refused
    <2>6. CASE Load(w)
      BY <2>1, <2>6, Loaded
    <2>7. CASE Throw(w) \/ Respond(w)
      BY <2>1, <2>7, Ends DEF Idle
    <2> QED
      BY <1>1, <2>2, <2>3, <2>4, <2>5, <2>6, <2>7 DEF Work, Logging
  <1>2. CASE Crash
    BY <1>2 DEF Crash, Outcomes, Idle
  <1>3. CASE UNCHANGED job
    BY <1>3 DEF Outcomes, Refused
  <1> QED
    BY <1>1, <1>2, <1>3, Others DEF Recv, Send

LEMMA DistinctStep ==
  ASSUME LInv, [Next]_vars
  PROVE  Distinct'
  <1> USE DEF LInv, CInv
  <1>0. /\ next \in Nat /\ \A r \in waiting : r.num \in Nat /\ r.num < next
        /\ \A r \in responses : r.req.num \in Nat
        /\ \A w \in Busy : job[w] \in Jobs /\ job[w].req.num \in Nat
    BY BusinessAssumption DEF TypeOK, Requests, Responses, Jobs, Busy, Tally
  <1>1. CASE \E kind \in Kinds : Recv(kind)
    <2>1. PICK kind \in Kinds : Recv(kind)
      BY <1>1
    <2>2. PICK q : q = [num |-> next, kind |-> kind, seen |-> IF kind = "STATS" THEN given ELSE Nothing]
      OBVIOUS
    <2>3. waiting' = waiting \cup {q} /\ q.num = next /\ next' = next + 1 /\ UNCHANGED <<job, responses>>
      BY <2>1, <2>2 DEF Recv
    <2>4. Busy' = Busy
      BY <2>3 DEF Busy
    <2> QED
      BY <1>0, <2>3, <2>4 DEF Distinct
  <1>2. ASSUME NEW w \in Worker, Work(w) PROVE Distinct'
    <2>1. CASE Dispatch(w)
      <3>1. PICK r \in waiting :
              /\ waiting' = waiting \ {r}
              /\ Becomes(w, [at |-> Handler(r.kind), req |-> r, type |-> Type(r.kind), stat |-> <<>>])
        BY <2>1, Dispatched
      <3>2. UNCHANGED <<next, responses>>
        BY <2>1 DEF Dispatch
      <3>3. job'[w].req = r /\ Busy' \ {w} = Busy \ {w} /\ \A u \in Worker \ {w} : job'[u] = job[u]
        BY <3>1, Elsewhere DEF Becomes
      <3>4. w \notin Busy
        BY <2>1, Dispatched DEF Busy
      <3>5. Busy \subseteq Worker
        BY DEF Busy
      <3>6. \A u \in Busy' : \/ u = w /\ job'[u].req = r
                             \/ u \in Busy /\ job'[u].req = job[u].req
        BY <3>3, <3>4, <3>5
      <3> QED
        BY <1>0, <3>1, <3>2, <3>6 DEF Distinct
    <2>2. ASSUME UNCHANGED <<next, waiting>>, Busy' \subseteq Busy,
                 \A u \in Busy' : job'[u].req = job[u].req,
                 \A r \in responses' : \/ r \in responses
                                       \/ /\ w \in Busy /\ w \notin Busy'
                                          /\ r.req = job[w].req
          PROVE  Distinct'
      BY <1>0, <2>2 DEF Distinct
    <2>3. CASE Refuse(w) \/ Logged(w) \/ Logging(w) \/ Load(w)
      <3>1. job[w] \in Jobs /\ Becomes(w, job'[w]) /\ job'[w].req = job[w].req
        BY <2>3, Refuses, Logs, StepsOn, Loaded DEF Becomes, Keeps
      <3>2. UNCHANGED <<next, waiting, responses>>
        BY <2>3, StepsOn DEF Refuse, Logged, Load
      <3>3. job[w] # Idle
        BY <3>1 DEF Jobs, Idle
      <3>4. Busy' \subseteq Busy /\ \A u \in Busy' : job'[u].req = job[u].req
        BY <3>1, <3>3 DEF Busy, Becomes
      <3> QED
        BY <2>2, <3>2, <3>4
    <2>4. CASE Throw(w) \/ Respond(w)
      <3>1. job[w] # Idle /\ Becomes(w, Idle)
        BY <2>4, Ends
      <3>2. w \in Busy /\ w \notin Busy' /\ Busy' \subseteq Busy /\ \A u \in Busy' : job'[u].req = job[u].req
        BY <3>1 DEF Busy, Becomes
      <3>3. UNCHANGED <<next, waiting>>
        BY <2>4 DEF Throw, Respond
      <3>4. \A r \in responses' : r \in responses \/ r.req = job[w].req
        BY <2>4 DEF Throw, Respond
      <3> QED
        BY <2>2, <3>2, <3>3, <3>4
    <2> QED
      BY <1>2, <2>1, <2>3, <2>4 DEF Work, Logging
  <1>3. CASE \E r \in responses : Send(r)
    <2>1. UNCHANGED <<next, waiting, job>> /\ responses' \subseteq responses
      BY <1>3 DEF Send
    <2>2. Busy' = Busy
      BY <2>1 DEF Busy
    <2> QED
      BY <2>1, <2>2 DEF Distinct
  <1>4. CASE Crash
    <2>1. Busy' = {}
      BY <1>4 DEF Crash, Busy
    <2> QED
      BY <1>4, <2>1 DEF Crash, Distinct
  <1>5. CASE UNCHANGED <<next, waiting, job, responses>>
    <2>1. Busy' = Busy
      BY <1>5 DEF Busy
    <2> QED
      BY <1>5, <2>1 DEF Distinct
  <1> QED
    BY <1>1, <1>2, <1>3, <1>4, <1>5, Others

LEMMA GivenNat ==
  ASSUME TypeOK
  PROVE  given.acks \in Nat /\ given.errors \in Nat /\ given.all \in Nat /\ uncounted \in {0, 1}
  BY DEF TypeOK

LEMMA Parts ==
  ASSUME IsFiniteSet(responses)
  PROVE  /\ IsFiniteSet(Acks) /\ IsFiniteSet(Refusals)
         /\ Cardinality(Acks) \in Nat /\ Cardinality(Refusals) \in Nat /\ Cardinality(responses) \in Nat
         /\ Cardinality(Busy) \in Nat /\ Cardinality(Acking) \in Nat /\ Cardinality(Refusing) \in Nat
  BY WorkersFinite, FS_Subset, FS_CardinalityType DEF Acks, Refusals

LEMMA BalanceStep ==
  ASSUME LInv, TypeOK', [Next]_vars
  PROVE  Balance'
  <1> USE DEF LInv, CInv
  <1>0. /\ IsFiniteSet(responses)
        /\ Cardinality(Acks) \in Nat /\ Cardinality(Refusals) \in Nat /\ Cardinality(responses) \in Nat
        /\ Cardinality(Busy) \in Nat /\ Cardinality(Acking) \in Nat /\ Cardinality(Refusing) \in Nat
    BY Parts DEF Balance
  <1>a. ASSUME UNCHANGED responses
        PROVE  Acks' = Acks /\ Refusals' = Refusals
    BY <1>a DEF Acks, Refusals
  <1>b. ASSUME UNCHANGED job
        PROVE  Busy' = Busy /\ Acking' = Acking /\ Refusing' = Refusing
    BY <1>b DEF Busy, Acking, Refusing
  <1>1. CASE \E kind \in Kinds : Recv(kind)
    <2>1. UNCHANGED <<job, responses, given, uncounted>> /\ Count("recv")
      BY <1>1 DEF Recv
    <2>2. /\ total'["logs"] = total["logs"] /\ total'["errors"] = total["errors"]
          /\ total'["requests"] = total["requests"] /\ total'["sent"] = total["sent"]
      BY <2>1, Increment DEF Counters
    <2> QED
      BY <1>a, <1>b, <2>1, <2>2 DEF Balance
  <1>2. CASE \E r \in responses : Send(r)
    <2>1. PICK r \in responses : Send(r)
      BY <1>2
    <2>2. /\ UNCHANGED <<job, total>> /\ responses' = responses \ {r} /\ uncounted = 0 /\ uncounted' = 1
          /\ given' = [acks   |-> given.acks + (IF r.type = "LOG_ACK" THEN 1 ELSE 0),
                       errors |-> given.errors + (IF Refused(r) THEN 1 ELSE 0),
                       all    |-> given.all + 1]
      BY <2>1 DEF Send, Refused
    <2>3. /\ IsFiniteSet(responses') /\ Cardinality(responses') = Cardinality(responses) - 1
      BY <1>0, <2>2, FS_RemoveElement
    <2>4. given'.acks + Cardinality(Acks') = given.acks + Cardinality(Acks)
      <3>1. Acks \ {r} = Acks' \ {r} /\ r \notin Acks' /\ (r \in Acks <=> r.type = "LOG_ACK")
        BY <2>2 DEF Acks
      <3>2. /\ r \in Acks => Cardinality(Acks') = Cardinality(Acks) - 1
            /\ r \notin Acks => Acks' = Acks
        BY <1>0, <3>1, Parts, Toggle
      <3> QED
        BY <1>0, <2>2, <3>1, <3>2, GivenNat
    <2>5. given'.errors + Cardinality(Refusals') = given.errors + Cardinality(Refusals)
      <3>1. Refusals \ {r} = Refusals' \ {r} /\ r \notin Refusals' /\ (r \in Refusals <=> Refused(r))
        BY <2>2 DEF Refusals
      <3>2. /\ r \in Refusals => Cardinality(Refusals') = Cardinality(Refusals) - 1
            /\ r \notin Refusals => Refusals' = Refusals
        BY <1>0, <3>1, Parts, Toggle
      <3> QED
        BY <1>0, <2>2, <3>1, <3>2, GivenNat
    <2>6. given'.all = given.all + 1
      BY <2>2
    <2> QED
      BY <1>0, <1>b, <2>2, <2>3, <2>4, <2>5, <2>6, GivenNat, Numeric DEF Balance
  <1>3. ASSUME NEW w \in Worker, Work(w) PROVE Balance'
    <2>0. UNCHANGED <<given, uncounted>>
      BY <1>3 DEF Work, Dispatch, Refuse, Throw, OpenLog, CheckLog, LockLog, WriteLine, WriteEnd, FlushLog,
             UnlockLog, Logged, Load, Respond
    <2>1. CASE Dispatch(w)
      <3>1. PICK r \in waiting :
              Becomes(w, [at |-> Handler(r.kind), req |-> r, type |-> Type(r.kind), stat |-> <<>>])
        BY <2>1, Dispatched
      <3>2. r.kind \in Kinds /\ job[w] = Idle
        BY <2>1, Dispatched DEF TypeOK, Requests
      <3>3. w \notin Busy /\ w \notin Acking /\ w \notin Refusing /\ w \notin Acking'
        BY <3>1, <3>2 DEF Busy, Acking, Refusing, Becomes, Idle, Type
      <3>4. w \notin Refusing'
        <4>1. Handler(r.kind) = "respond" => Type(r.kind) # "ERROR_RESP" \/ r.kind = "UNKNOWN"
          BY <3>2, BusinessAssumption DEF Handler, Type
        <4> QED
          BY <3>1, <4>1 DEF Refusing, Refused, Becomes
      <3>5. w \in Busy'
        BY <3>1, <3>2, BusinessAssumption DEF Busy, Becomes, Idle, Handler
      <3>6. Acking' = Acking /\ Refusing' = Refusing /\ Cardinality(Busy') = Cardinality(Busy) + 1
        BY <3>1, <3>3, <3>4, <3>5, Elsewhere, WorkersFinite, Toggle
      <3>7. UNCHANGED responses /\ Count("requests")
        BY <2>1 DEF Dispatch
      <3>8. /\ total'["requests"] = total["requests"] + 1 /\ total'["sent"] = total["sent"]
            /\ total'["logs"] = total["logs"] /\ total'["errors"] = total["errors"]
        BY <3>7, Increment DEF Counters
      <3> QED
        BY <1>0, <1>a, <2>0, <3>6, <3>7, <3>8, GivenNat, Numeric DEF Balance
    <2>2. CASE Refuse(w)
      <3>1. Becomes(w, job'[w]) /\ job'[w].at = "respond" /\ job[w].at = "refuse" /\ Refused(job'[w])
            /\ job[w] # Idle /\ job'[w] # Idle
        <4>1. Becomes(w, job'[w]) /\ job'[w].at = "respond" /\ job[w].at = "refuse"
              /\ job'[w].type = job[w].type /\ job'[w].req = job[w].req
          BY <2>2, Refuses DEF Keeps, Becomes
        <4>2. Refused(job[w])
          BY <4>1 DEF Outcomes
        <4> QED
          BY <4>1, <4>2 DEF Refused, Idle
      <3>2. w \in Busy /\ w \in Busy' /\ w \notin Acking /\ w \notin Acking' /\ w \notin Refusing
            /\ w \in Refusing'
        BY <3>1 DEF Busy, Acking, Refusing, Refused
      <3>3. Busy' = Busy /\ Acking' = Acking /\ Cardinality(Refusing') = Cardinality(Refusing) + 1
        BY <3>1, <3>2, Elsewhere, WorkersFinite, Toggle
      <3>4. UNCHANGED responses /\ Count("errors")
        BY <2>2 DEF Refuse
      <3>5. /\ total'["requests"] = total["requests"] /\ total'["sent"] = total["sent"]
            /\ total'["logs"] = total["logs"] /\ total'["errors"] = total["errors"] + 1
        BY <3>4, Increment DEF Counters
      <3>6. Acks' = Acks /\ Refusals' = Refusals /\ UNCHANGED responses
        BY <1>a, <3>4
      <3>7. given'.errors + Cardinality(Refusals') + Cardinality(Refusing') = total'["errors"]
        BY <1>0, <2>0, <3>3, <3>5, <3>6, GivenNat, Numeric DEF Balance
      <3> QED
        BY <2>0, <3>3, <3>5, <3>6, <3>7 DEF Balance
    <2>3. CASE Logged(w)
      <3>1. Becomes(w, job'[w]) /\ job'[w].at = "respond" /\ job[w].at = "ack" /\ job'[w].type = "LOG_ACK"
            /\ job[w] # Idle /\ job'[w] # Idle
        <4>1. Becomes(w, job'[w]) /\ job'[w].at = "respond" /\ job[w].at = "ack" /\ job'[w].type = "LOG_ACK"
          BY <2>3, Logs DEF Becomes
        <4> QED
          BY <4>1 DEF Idle
      <3>2. w \in Busy /\ w \in Busy' /\ w \notin Acking /\ w \in Acking' /\ w \notin Refusing
            /\ w \notin Refusing'
        BY <3>1 DEF Busy, Acking, Refusing, Refused
      <3>3. Busy' = Busy /\ Refusing' = Refusing /\ Cardinality(Acking') = Cardinality(Acking) + 1
        BY <3>1, <3>2, Elsewhere, WorkersFinite, Toggle
      <3>4. UNCHANGED responses /\ Count("logs")
        BY <2>3 DEF Logged
      <3>5. /\ total'["requests"] = total["requests"] /\ total'["sent"] = total["sent"]
            /\ total'["logs"] = total["logs"] + 1 /\ total'["errors"] = total["errors"]
        BY <3>4, Increment DEF Counters
      <3> QED
        BY <1>0, <1>a, <2>0, <3>3, <3>4, <3>5, GivenNat, Numeric DEF Balance
    <2>4. CASE Logging(w) \/ Load(w)
      <3>1. Becomes(w, job'[w]) /\ job[w] \in Jobs /\ job'[w] \in Jobs
            /\ job[w].at # "respond" /\ (job'[w].at = "respond" => job'[w].type = "STATS_RESP")
        BY <2>4, StepsOn, Loaded
      <3>2. w \in Busy /\ w \in Busy' /\ w \notin Acking /\ w \notin Acking' /\ w \notin Refusing
            /\ w \notin Refusing'
        BY <3>1 DEF Busy, Acking, Refusing, Refused, Jobs, Idle
      <3>3. Busy' = Busy /\ Refusing' = Refusing /\ Acking' = Acking
        BY <3>1, <3>2, Elsewhere, WorkersFinite, Toggle
      <3>4. UNCHANGED <<responses, total>>
        BY <2>4, StepsOn DEF Load
      <3> QED
        BY <1>a, <2>0, <3>3, <3>4 DEF Balance
    <2>5. CASE Throw(w)
      <3>1. Becomes(w, Idle) /\ job[w] # Idle /\ job[w].at = "throw"
        BY <2>5, Ends
      <3>2. w \in Busy /\ w \notin Busy' /\ w \notin Acking /\ w \notin Acking' /\ w \notin Refusing
            /\ w \notin Refusing'
        BY <3>1 DEF Busy, Acking, Refusing, Becomes, Idle
      <3>3. Cardinality(Busy') = Cardinality(Busy) - 1 /\ Refusing' = Refusing /\ Acking' = Acking
        BY <3>1, <3>2, Elsewhere, WorkersFinite, Toggle
      <3>4. UNCHANGED <<responses, total>>
        BY <2>5 DEF Throw
      <3> QED
        BY <1>0, <1>a, <2>0, <3>3, <3>4, GivenNat, Numeric DEF Balance
    <2>6. CASE Respond(w)
      <3>1. Becomes(w, Idle) /\ job[w] # Idle /\ job[w].at = "respond"
        BY <2>6, Ends
      <3>2. PICK p : p = [req |-> job[w].req, type |-> job[w].type, stat |-> job[w].stat]
        OBVIOUS
      <3>3. responses' = responses \cup {p} /\ UNCHANGED total
        BY <2>6, <3>2 DEF Respond
      <3>4. w \in Busy /\ w \notin Busy' /\ w \notin Acking' /\ w \notin Refusing'
        BY <3>1 DEF Busy, Acking, Refusing, Becomes, Idle
      <3>5. p \notin responses
        BY <3>2, <3>4 DEF Distinct
      <3>6. /\ IsFiniteSet(responses') /\ Cardinality(responses') = Cardinality(responses) + 1
            /\ Cardinality(Busy') = Cardinality(Busy) - 1
        <4>1. IsFiniteSet(responses') /\ Cardinality(responses') = Cardinality(responses) + 1
          BY <1>0, <3>3, <3>5, FS_AddElement
        <4> QED
          BY <4>1, <3>1, <3>4, Elsewhere, WorkersFinite, Toggle
      <3>7. Cardinality(Acks') + Cardinality(Acking') = Cardinality(Acks) + Cardinality(Acking)
        <4>1. Acks \ {p} = Acks' \ {p} /\ p \notin Acks /\ (p \in Acks' <=> w \in Acking)
          BY <3>1, <3>2, <3>3, <3>5 DEF Acks, Acking
        <4>2. /\ p \in Acks' => Cardinality(Acks') = Cardinality(Acks) + 1
              /\ p \notin Acks' => Acks' = Acks
          BY <1>0, <4>1, Parts, Toggle
        <4>3. /\ w \in Acking => Cardinality(Acking') = Cardinality(Acking) - 1
              /\ w \notin Acking => Acking' = Acking
          BY <3>1, <3>4, Elsewhere, WorkersFinite, Toggle
        <4> QED
          BY <1>0, <4>1, <4>2, <4>3
      <3>8. Cardinality(Refusals') + Cardinality(Refusing') = Cardinality(Refusals) + Cardinality(Refusing)
        <4>1. Refusals \ {p} = Refusals' \ {p} /\ p \notin Refusals /\ (p \in Refusals' <=> w \in Refusing)
          BY <3>1, <3>2, <3>3, <3>4, <3>5 DEF Refusals, Refusing, Refused, Busy
        <4>2. /\ p \in Refusals' => Cardinality(Refusals') = Cardinality(Refusals) + 1
              /\ p \notin Refusals' => Refusals' = Refusals
          BY <1>0, <4>1, Parts, Toggle
        <4>3. /\ w \in Refusing => Cardinality(Refusing') = Cardinality(Refusing) - 1
              /\ w \notin Refusing => Refusing' = Refusing
          BY <3>1, <3>4, Elsewhere, WorkersFinite, Toggle
        <4> QED
          BY <1>0, <4>1, <4>2, <4>3
      <3>9. Cardinality(Acks') \in Nat /\ Cardinality(Refusals') \in Nat
            /\ Cardinality(Acking') \in Nat /\ Cardinality(Refusing') \in Nat
        <4>1. IsFiniteSet(Acks') /\ IsFiniteSet(Refusals') /\ IsFiniteSet(Acking') /\ IsFiniteSet(Refusing')
          BY <3>6, FS_Subset, BusinessAssumption DEF Acks, Refusals, Acking, Refusing
        <4> QED
          BY <4>1, FS_CardinalityType
      <3> QED
        BY <1>0, <2>0, <3>3, <3>6, <3>7, <3>8, <3>9, GivenNat, Numeric DEF Balance
    <2> QED
      BY <1>3, <2>1, <2>2, <2>3, <2>4, <2>5, <2>6 DEF Work, Logging
  <1>4. CASE Crash
    <2>1. Busy' = {} /\ Acking' = {} /\ Refusing' = {} /\ Acks' = {} /\ Refusals' = {}
      BY <1>4 DEF Crash, Busy, Acking, Refusing, Acks, Refusals, Idle
    <2> QED
      BY <1>4, <2>1, FS_EmptySet DEF Crash, Balance, Zero, Nothing, Counters
  <1>5. CASE CountSent /\ UNCHANGED <<job, responses, given>>
    <2>1. /\ total'["logs"] = total["logs"] /\ total'["errors"] = total["errors"]
          /\ total'["requests"] = total["requests"] /\ total'["sent"] = total["sent"] + 1
          /\ uncounted = 1 /\ uncounted' = 0
      BY <1>5, Increment DEF CountSent, Counters
    <2> QED
      BY <1>a, <1>b, <1>5, <2>1, Numeric DEF Balance
  <1>6. CASE UNCHANGED <<total, job, responses, given, uncounted>>
    BY <1>a, <1>b, <1>6 DEF Balance
  <1> QED
    BY <1>1, <1>2, <1>3, <1>4, <1>5, <1>6, Others

\* Nothing is taken back but by a crash.
LEMMA GivenGrows ==
  ASSUME TypeOK, [Next]_vars, ~Crash
  PROVE  given.acks <= given'.acks /\ given.errors <= given'.errors /\ given.all <= given'.all
  <1>1. CASE UNCHANGED given
    BY <1>1, GivenNat
  <1>2. CASE \E r \in responses : Send(r)
    BY <1>2, GivenNat DEF Send
  <1> QED
    BY <1>1, <1>2 DEF Next, Io, IoCountSent, Recv, vars, Work, Dispatch, Refuse, Throw, OpenLog, CheckLog,
       LockLog, WriteLine, WriteEnd, FlushLog, UnlockLog, Logged, Load, Respond

LEMMA FreshStays ==
  ASSUME TypeOK, TypeOK', [Next]_vars, ~Crash, NEW r \in Requests, Fresh(r, given, total)
  PROVE  Fresh(r, given', total')
  <1>1. r.seen.acks \in Nat /\ r.seen.errors \in Nat /\ r.seen.all \in Nat
    BY DEF Requests
  <1>2. total["sent"] <= total'["sent"] /\ total'["sent"] \in Nat
    BY Monotone DEF Counters, TypeOK
  <1>3. given'.acks \in Nat /\ given'.errors \in Nat
    BY DEF TypeOK
  <1> QED
    BY <1>1, <1>2, <1>3, GivenGrows, GivenNat, Numeric DEF Fresh

LEMMA Loadable == \A i \in 1..5 : Loads[i] \in Counters
  BY DEF Loads, Counters

LEMMA PastStays ==
  ASSUME NEW t \in [Counters -> Nat], NEW u \in [Counters -> Nat], \A c \in Counters : t[c] <= u[c],
         NEW s \in Seq(Nat), Past(s, t)
  PROVE  Past(s, u)
  <1> SUFFICES ASSUME NEW i \in 1..5, i <= Len(s) PROVE s[i] <= u[Loads[i]]
    BY DEF Past
  <1>1. Loads[i] \in Counters
    BY Loadable
  <1>2. s[i] <= t[Loads[i]]
    BY DEF Past
  <1>3. s[i] \in Nat
    OBVIOUS
  <1>4. t[Loads[i]] \in Nat /\ u[Loads[i]] \in Nat /\ t[Loads[i]] <= u[Loads[i]]
    BY <1>1
  <1> QED
    BY <1>2, <1>3, <1>4

\* w's request is counted, and not answered.
LEMMA OwnRequest ==
  ASSUME TypeOK, Balance, NEW w \in Busy
  PROVE  given.all < total["requests"]
  <1>1. Cardinality(Busy \ {w}) = Cardinality(Busy) - 1 /\ IsFiniteSet(Busy \ {w})
    BY WorkersFinite, FS_RemoveElement
  <1>2. Cardinality(Busy \ {w}) \in Nat
    BY <1>1, FS_CardinalityType
  <1>3. Cardinality(responses) \in Nat /\ Cardinality(Busy) \in Nat
    BY Parts DEF Balance
  <1> QED
    BY <1>1, <1>2, <1>3, GivenNat, Numeric DEF Balance

\* handleStats() loads one more counter for r.
LEMMA ReportsMore ==
  ASSUME TypeOK, Balance, NEW w \in Busy, NEW r \in Requests, Fresh(r, given, total),
         NEW s \in Seq(Nat), Len(s) \in 0..4, Reports(r.seen, s), Past(s, total)
  PROVE  /\ Reports(r.seen, Append(s, total[Loads[Len(s) + 1]]))
         /\ Past(Append(s, total[Loads[Len(s) + 1]]), total)
  <1> DEFINE x == total[Loads[Len(s) + 1]]
             t == Append(s, x)
  <1>1. x \in Nat
    BY LoadOK
  <1>x. x = total[Loads[Len(s) + 1]]
    OBVIOUS
  <1> HIDE DEF x
  <1>2. Len(t) = Len(s) + 1 /\ t[Len(s) + 1] = x /\ \A i \in 1..Len(s) : t[i] = s[i]
    BY <1>1
  <1> HIDE DEF t
  <1>3. Past(t, total)
    <2> SUFFICES ASSUME NEW i \in 1..5, i <= Len(t) PROVE t[i] <= total[Loads[i]]
      BY DEF Past
    <2>1. CASE i = Len(s) + 1
      BY <1>1, <1>2, <1>x, <2>1
    <2>2. CASE i <= Len(s)
      BY <1>2, <2>2 DEF Past
    <2> QED
      BY <1>2, <2>1, <2>2
  <1>4. r.seen.acks \in Nat /\ r.seen.errors \in Nat /\ r.seen.all \in Nat
    BY DEF Requests
  <1>5. /\ r.seen.all < total["requests"] /\ r.seen.all <= total["sent"]
        /\ r.seen.acks <= total["logs"] /\ r.seen.errors <= total["errors"]
    <2>1. given.all < total["requests"]
      BY OwnRequest
    <2>2. /\ Cardinality(Acks) \in Nat /\ Cardinality(Acking) \in Nat
          /\ Cardinality(Refusals) \in Nat /\ Cardinality(Refusing) \in Nat
      BY Parts DEF Balance
    <2>3. given.all = total["sent"] + uncounted /\ given.acks <= total["logs"] /\ given.errors <= total["errors"]
      <3>1. /\ given.acks + Cardinality(Acks) + Cardinality(Acking) = total["logs"]
            /\ given.errors + Cardinality(Refusals) + Cardinality(Refusing) = total["errors"]
            /\ given.all = total["sent"] + uncounted
        BY DEF Balance
      <3>2. given.acks \in Nat /\ given.errors \in Nat
        BY GivenNat
      <3> QED
        BY <2>2, <3>1, <3>2
    <2>4. r.seen.acks <= given.acks /\ r.seen.errors <= given.errors /\ r.seen.all <= total["sent"]
      BY DEF Fresh
    <2>5. /\ given.acks \in Nat /\ given.errors \in Nat /\ given.all \in Nat /\ uncounted \in Nat
          /\ total["requests"] \in Nat /\ total["sent"] \in Nat /\ total["logs"] \in Nat /\ total["errors"] \in Nat
      BY GivenNat, Numeric
    <2>6. r.seen.all < total["requests"]
      BY <1>4, <2>1, <2>3, <2>4, <2>5
    <2>7. r.seen.acks <= total["logs"] /\ r.seen.errors <= total["errors"]
      BY <1>4, <2>3, <2>4, <2>5
    <2> QED
      BY <2>4, <2>6, <2>7
  <1>6. Reports(r.seen, t)
    <2>1. CASE Len(s) = 0
      <3>1. x = total["requests"]
        BY <1>x, <2>1 DEF Loads
      <3> QED
        BY <1>2, <1>5, <2>1, <3>1 DEF Reports
    <2>2. CASE Len(s) = 1
      <3>1. x = total["logs"] /\ t[1] = s[1]
        BY <1>2, <1>x, <2>2 DEF Loads
      <3> QED
        BY <1>2, <1>5, <2>2, <3>1 DEF Reports
    <2>3. CASE Len(s) = 2
      <3>1. x = total["errors"] /\ t[1] = s[1] /\ t[2] = s[2]
        BY <1>2, <1>x, <2>3 DEF Loads
      <3> QED
        BY <1>2, <1>5, <2>3, <3>1 DEF Reports
    <2>4. CASE Len(s) = 3
      <3>1. t[1] = s[1] /\ t[2] = s[2] /\ t[3] = s[3]
        BY <1>2, <2>4
      <3> QED
        BY <1>2, <2>4, <3>1 DEF Reports
    <2>5. CASE Len(s) = 4
      <3>1. x = total["sent"] /\ t[1] = s[1] /\ t[2] = s[2] /\ t[3] = s[3]
        BY <1>2, <1>x, <2>5 DEF Loads
      <3> QED
        BY <1>2, <1>5, <2>5, <3>1 DEF Reports
    <2> QED
      BY <2>1, <2>2, <2>3, <2>4, <2>5
  <1> QED
    BY <1>3, <1>6 DEF t, x

LEMMA CurrentStep ==
  ASSUME LInv, TypeOK', [Next]_vars
  PROVE  Current'
  <1> USE DEF LInv, CInv
  <1>1. CASE Crash
    <2>1. Busy' = {}
      BY <1>1 DEF Crash, Busy
    <2> QED
      BY <1>1, <2>1 DEF Crash, Current, Stats
  <1>2. CASE ~Crash
    <2>0. total \in [Counters -> Nat] /\ total' \in [Counters -> Nat]
          /\ \A c \in Counters : total[c] <= total'[c]
      BY <1>2, Monotone DEF TypeOK
    <2>1. \A r \in waiting : Fresh(r, given', total')
      BY <1>2, FreshStays DEF Current, TypeOK
    <2>2. ASSUME NEW w \in Busy
          PROVE  /\ job[w] \in Jobs /\ Fresh(job[w].req, given, total) /\ Reports(job[w].req.seen, job[w].stat)
                 /\ Past(job[w].stat, total')
                 /\ Fresh(job[w].req, given', total')
      <3>1. job[w] \in Jobs /\ job[w].stat \in Seq(Nat) /\ job[w].req \in Requests
        BY DEF Busy, TypeOK, Jobs
      <3>2. Past(job[w].stat, total')
        BY <2>0, <3>1, PastStays DEF Current
      <3> QED
        BY <1>2, <3>1, <3>2, FreshStays DEF Current
    <2>3. ASSUME NEW r \in Stats
          PROVE  Len(r.stat) = 5 /\ Reports(r.req.seen, r.stat) /\ Past(r.stat, total')
      <3>1. r.stat \in Seq(Nat)
        BY DEF Stats, TypeOK, Responses
      <3> QED
        BY <2>0, <3>1, PastStays DEF Current
    \* The jobs and the responses that are new.
    <2> DEFINE Waits == \A r \in waiting' : r \in waiting \/ Fresh(r, given', total')
               Works == \A w \in Busy' :
                          \/ w \in Busy /\ job'[w].req = job[w].req /\ job'[w].stat = job[w].stat
                          \/ /\ Fresh(job'[w].req, given', total')
                             /\ Reports(job'[w].req.seen, job'[w].stat) /\ Past(job'[w].stat, total')
               Answers == \A r \in Stats' :
                            \/ r \in Stats
                            \/ Len(r.stat) = 5 /\ Reports(r.req.seen, r.stat) /\ Past(r.stat, total')
    <2>4. ASSUME Waits, Works, Answers
          PROVE  Current'
      <3>1. \A r \in waiting' : Fresh(r, given', total')
        BY <2>1, <2>4
      <3>2. ASSUME NEW w \in Busy'
            PROVE  /\ Fresh(job'[w].req, given', total') /\ Reports(job'[w].req.seen, job'[w].stat)
                   /\ Past(job'[w].stat, total')
        <4>1. CASE w \in Busy /\ job'[w].req = job[w].req /\ job'[w].stat = job[w].stat
          BY <2>2, <4>1
        <4>2. CASE /\ Fresh(job'[w].req, given', total')
                   /\ Reports(job'[w].req.seen, job'[w].stat) /\ Past(job'[w].stat, total')
          BY <4>2
        <4> QED
          BY <2>4, <4>1, <4>2
      <3>3. \A r \in Stats' : Len(r.stat) = 5 /\ Reports(r.req.seen, r.stat) /\ Past(r.stat, total')
        BY <2>3, <2>4
      <3> QED
        BY <3>1, <3>2, <3>3 DEF Current
    <2> HIDE DEF Waits, Works, Answers
    <2>5. CASE \E kind \in Kinds : Recv(kind)
      <3>1. PICK kind \in Kinds : Recv(kind)
        BY <2>5
      <3>2. PICK q : q = [num |-> next, kind |-> kind, seen |-> IF kind = "STATS" THEN given ELSE Nothing]
        OBVIOUS
      <3>3. waiting' = waiting \cup {q} /\ UNCHANGED <<job, responses, given>> /\ uncounted = 0 /\ Count("recv")
        BY <3>1, <3>2 DEF Recv
      <3>4. total'["sent"] = total["sent"] /\ given.all = total["sent"]
        BY <3>3, Increment, Numeric DEF Balance, Counters
      <3>5. Fresh(q, given', total')
        BY <3>2, <3>3, <3>4, GivenNat, Numeric DEF Fresh, Nothing
      <3>6. Busy' = Busy /\ Stats' = Stats
        BY <3>3 DEF Busy, Stats
      <3>7. Waits
        BY <3>3, <3>5 DEF Waits
      <3>8. Works /\ Answers
        BY <3>3, <3>6 DEF Works, Answers
      <3> QED
        BY <2>4, <3>7, <3>8
    <2>6. ASSUME NEW w \in Worker, Work(w) PROVE Current'
      <3>1. CASE Dispatch(w)
        <4>1. PICK r \in waiting :
                /\ waiting' = waiting \ {r}
                /\ Becomes(w, [at |-> Handler(r.kind), req |-> r, type |-> Type(r.kind), stat |-> <<>>])
          BY <3>1, Dispatched
        <4>2. job'[w].req = r /\ job'[w].stat = <<>> /\ \A u \in Worker \ {w} : job'[u] = job[u]
          BY <4>1 DEF Becomes
        <4>3. Stats' = Stats
          BY <3>1 DEF Dispatch, Stats
        <4>4. Reports(r.seen, <<>>) /\ Past(<<>>, total') /\ Fresh(r, given', total')
          BY <2>1 DEF Reports, Past
        <4>5. \A u \in Busy' : u = w \/ (u \in Busy /\ job'[u] = job[u])
          BY <4>2 DEF Busy
        <4>8. Waits
          BY <4>1, <4>2, <4>3, <4>4, <4>5 DEF Waits
        <4>9. Works
          BY <4>1, <4>2, <4>3, <4>4, <4>5 DEF Works
        <4>10. Answers
          BY <4>1, <4>2, <4>3, <4>4, <4>5 DEF Answers
        <4> QED
          BY <2>4, <4>8, <4>9, <4>10
      <3>2. CASE Refuse(w) \/ Logged(w) \/ Logging(w)
        <4>1. Becomes(w, job'[w]) /\ Keeps(w) /\ job[w] \in Jobs
          BY <3>2, Refuses, Logs, StepsOn DEF Becomes
        <4>2. UNCHANGED <<waiting, responses>>
          BY <3>2, StepsOn DEF Refuse, Logged
        <4>3. Stats' = Stats
          BY <4>2 DEF Stats
        <4>4. w \in Busy
          BY <4>1 DEF Busy, Jobs, Idle
        <4>5. \A u \in Busy' : u \in Busy /\ job'[u].req = job[u].req /\ job'[u].stat = job[u].stat
          BY <4>1, <4>4 DEF Busy, Becomes, Keeps
        <4>8. Waits
          BY <4>2, <4>3, <4>5 DEF Waits
        <4>9. Works
          BY <4>2, <4>3, <4>5 DEF Works
        <4>10. Answers
          BY <4>2, <4>3, <4>5 DEF Answers
        <4> QED
          BY <2>4, <4>8, <4>9, <4>10
      <3>3. CASE Load(w)
        <4>1. /\ Becomes(w, job'[w]) /\ job[w] \in Jobs /\ Len(job[w].stat) \in 0..4
              /\ job'[w].req = job[w].req
              /\ job'[w].stat = Append(job[w].stat, total[Loads[Len(job[w].stat) + 1]])
          BY <3>3, Loaded
        <4>2. UNCHANGED <<waiting, responses, total>>
          BY <3>3 DEF Load
        <4>3. Stats' = Stats
          BY <4>2 DEF Stats
        <4>4. w \in Busy /\ job[w].req \in Requests /\ job[w].stat \in Seq(Nat)
          BY <4>1 DEF Busy, Jobs, Idle
        <4>5. Reports(job'[w].req.seen, job'[w].stat) /\ Past(job'[w].stat, total')
          BY <2>2, <4>1, <4>2, <4>4, ReportsMore
        <4>6. Fresh(job'[w].req, given', total')
          BY <2>2, <4>1, <4>4
        <4>7. \A u \in Busy' : u = w \/ (u \in Busy /\ job'[u] = job[u])
          BY <4>1 DEF Busy, Becomes
        <4>8. Waits
          BY <4>2, <4>3, <4>5, <4>6, <4>7 DEF Waits
        <4>9. Works
          BY <4>2, <4>3, <4>5, <4>6, <4>7 DEF Works
        <4>10. Answers
          BY <4>2, <4>3, <4>5, <4>6, <4>7 DEF Answers
        <4> QED
          BY <2>4, <4>8, <4>9, <4>10
      <3>4. CASE Throw(w) \/ Respond(w)
        <4>1. Becomes(w, Idle) /\ job[w] \in Jobs /\ job[w] # Idle
          BY <3>4, Ends
        <4>2. \A u \in Busy' : u \in Busy /\ job'[u] = job[u]
          BY <4>1 DEF Busy, Becomes
        <4>3. UNCHANGED waiting
          BY <3>4 DEF Throw, Respond
        <4>4. w \in Busy
          BY <4>1 DEF Busy
        <4>5. ASSUME NEW r \in Stats'
              PROVE  r \in Stats \/ (Len(r.stat) = 5 /\ Reports(r.req.seen, r.stat) /\ Past(r.stat, total'))
          <5>1. CASE r \in responses
            BY <5>1 DEF Stats
          <5>2. CASE r \notin responses
            <6>1. /\ r = [req |-> job[w].req, type |-> job[w].type, stat |-> job[w].stat]
                  /\ Respond(w) /\ r.type = "STATS_RESP"
              BY <3>4, <5>2 DEF Throw, Respond, Stats
            <6>2. Len(job[w].stat) = 5
              BY <4>1, <6>1 DEF Snapshots, Respond
            <6> QED
              BY <2>2, <4>4, <6>1, <6>2
          <5> QED
            BY <5>1, <5>2
        <4>8. Waits
          BY <4>2, <4>3, <4>5 DEF Waits
        <4>9. Works
          BY <4>2, <4>3, <4>5 DEF Works
        <4>10. Answers
          BY <4>2, <4>3, <4>5 DEF Answers
        <4> QED
          BY <2>4, <4>8, <4>9, <4>10
      <3> QED
        BY <2>6, <3>1, <3>2, <3>3, <3>4 DEF Work, Logging
    <2>7. CASE UNCHANGED <<waiting, job>> /\ responses' \subseteq responses
      <3>1. Busy' = Busy /\ Stats' \subseteq Stats
        BY <2>7 DEF Busy, Stats
      <3>2. Waits /\ Works /\ Answers
        BY <2>7, <3>1 DEF Waits, Works, Answers
      <3> QED
        BY <2>4, <3>2
    <2> QED
      BY <1>2, <2>5, <2>6, <2>7, Others DEF Send
  <1> QED
    BY <1>1, <1>2

LEMMA Ledger == Spec => []LInv
  <1>1. LInv /\ [Next]_vars => LInv'
    BY TypeStep, PartialStep, TallyStep, SnapshotsStep, DistinctStep, OutcomesStep, BalanceStep, CurrentStep
       DEF LInv, CInv
  <1> QED
    BY <1>1, LInit, PTL DEF Spec

\* A STATS answer counts all that the clients had received when they asked, and nothing that
\* has not happened: StatsCurrent.
THEOREM AnswersAreCurrent == Spec => []StatsCurrent
  <1>1. LInv => StatsCurrent
    <2> SUFFICES ASSUME LInv, NEW r \in Stats
                 PROVE  /\ r.stat[1] > r.req.seen.all
                        /\ r.stat[2] >= r.req.seen.acks
                        /\ r.stat[3] >= r.req.seen.errors
                        /\ r.stat[5] >= r.req.seen.all
                        /\ \A i \in 1..Len(Loads) : r.stat[i] <= total[Loads[i]]
      BY DEF StatsCurrent
    <2>1. Len(r.stat) = 5 /\ Reports(r.req.seen, r.stat) /\ Past(r.stat, total)
      BY DEF LInv, Current
    <2> QED
      BY <2>1, LenLoads DEF Reports, Past
  <1> QED
    BY <1>1, Ledger, PTL

\* When nothing is under way, the counters are the answers that were given: CountersAgree.
THEOREM CountersAddUp == Spec => []CountersAgree
  <1>1. LInv => CountersAgree
    <2> SUFFICES ASSUME LInv, Quiet
                 PROVE  /\ total["logs"] = given.acks
                        /\ total["errors"] = given.errors
                        /\ total["sent"] = given.all
                        /\ total["requests"] = total["recv"]
      BY DEF CountersAgree
    <2>1. Acks = {} /\ Refusals = {} /\ Acking = {} /\ Refusing = {} /\ waiting = {} /\ uncounted = 0
      BY DEF Quiet, Acks, Refusals, Acking, Refusing, Idle
    <2>2. Cardinality({}) = 0
      BY FS_EmptySet
    <2> QED
      BY <2>1, <2>2, GivenNat, Numeric DEF LInv, CInv, Tally, Balance
  <1> QED
    BY <1>1, Ledger, PTL
=============================================================================
