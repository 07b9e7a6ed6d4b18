-------------------------- MODULE BlockQueueProofs --------------------------
(***************************************************************************)
(* Theorems about BlockQueue, for any threads, items and bounds.           *)
(***************************************************************************)
EXTENDS BlockQueue, FiniteSetTheorems, TLAPS

(***************************************************************************)
(* What a thread knows of the queue at each place inside the mutex: this,  *)
(* with the mutual exclusion that keeps it true, is what makes every       *)
(* method one step of the abstract queue.                                  *)
(***************************************************************************)
Knows(t) == /\ pc[t] \in {"push.lock", "push.test", "push.append"} => item[t] \in Item
            /\ pc[t] = "push.append" => ~is_stopped
            /\ pc[t] = "pop.check" => Ready
            /\ pc[t] \in {"pop.take", "try.take"} => data_queue # <<>>
            /\ pc[t] \in {"pop.drop", "try.drop"} =>
                 data_queue # <<>> /\ item[t] = Head(data_queue)

IInv == TypeOK /\ MutualExclusion /\ \A t \in Thread : Knows(t)

\* Every outcome the methods come to is one of QueueSpec's.
LEMMA Outcomes == /\ {Abs!None, Abs!Pushed, Abs!Refused, Abs!Over, Abs!Nothing, Abs!Halted}
                       \subseteq Abs!Outcome
                  /\ \A v \in Item : Abs!Got(v) \in Abs!Outcome
                  /\ \A n \in Nat : Abs!Size(n) \in Abs!Outcome
  <1>1. {Abs!None, Abs!Pushed, Abs!Refused, Abs!Over, Abs!Nothing, Abs!Halted}
          \subseteq Abs!Outcome
    BY DEF Abs!None, Abs!Pushed, Abs!Refused, Abs!Over, Abs!Nothing, Abs!Halted, Abs!Outcome
  <1>2. \A v \in Item : Abs!Got(v) \in Abs!Outcome
    BY DEF Abs!Got, Abs!Outcome
  <1>3. \A n \in Nat : Abs!Size(n) \in Abs!Outcome
    BY DEF Abs!Size, Abs!Outcome
  <1> QED
    BY <1>1, <1>2, <1>3

LEMMA InitIInv == Init => IInv
  <1> SUFFICES ASSUME Init PROVE IInv
    OBVIOUS
  <1>1. TypeOK
    <2>1. data_queue \in Seq(Item) /\ mtx \in Thread \cup {Free}
      BY DEF Init
    <2>5. is_stopped \in BOOLEAN
      BY DEF Init
    <2>2. pc \in [Thread -> Label] /\ item \in [Thread -> Item \cup {NoItem}]
      BY DEF Init, Label
    <2>3. result \in [Thread -> Abs!Outcome]
      BY Outcomes DEF Init
    <2>4. calls \in 0..MaxCalls /\ spurious \in 0..MaxSpurious
      BY QueueAssumption DEF Init
    <2> QED
      BY <2>1, <2>2, <2>3, <2>4, <2>5 DEF TypeOK
  <1>2. MutualExclusion
    BY QueueAssumption DEF Init, MutualExclusion, Inside
  <1>3. \A t \in Thread : Knows(t)
    BY DEF Init, Knows
  <1> QED
    BY <1>1, <1>2, <1>3 DEF IInv

LEMMA StepIInv == IInv /\ [Next]_vars => IInv'
  <1> SUFFICES ASSUME IInv, [Next]_vars PROVE IInv'
    OBVIOUS
  <1> USE QueueAssumption
  <1>1. ASSUME NEW t \in Thread, CallAny(t) PROVE IInv'
    <2>1. TypeOK'
      BY <1>1, Outcomes DEF IInv, TypeOK, Goto, Queue, Bounds, Label, AtLock, Inside, Knows, CallAny, Call
    <2>2. MutualExclusion'
      BY <1>1 DEF IInv, TypeOK, MutualExclusion, Goto, Queue, Bounds, AtLock, Inside, CallAny, Call
    <2>3. \A u \in Thread : Knows(u)'
      BY <1>1 DEF IInv, TypeOK, MutualExclusion, Knows, Ready, Goto, Queue, Bounds, AtLock, Inside, CallAny, Call
    <2> QED
      BY <2>1, <2>2, <2>3 DEF IInv
  <1>2. ASSUME NEW t \in Thread, SpuriousWake(t) PROVE IInv'
    <2>1. TypeOK'
      BY <1>2, Outcomes DEF IInv, TypeOK, Goto, Queue, Bounds, Label, AtLock, Inside, Knows, SpuriousWake
    <2>2. MutualExclusion'
      BY <1>2 DEF IInv, TypeOK, MutualExclusion, Goto, Queue, Bounds, AtLock, Inside, SpuriousWake
    <2>3. \A u \in Thread : Knows(u)'
      BY <1>2 DEF IInv, TypeOK, MutualExclusion, Knows, Ready, Goto, Queue, Bounds, AtLock, Inside, SpuriousWake
    <2> QED
      BY <2>1, <2>2, <2>3 DEF IInv
  <1>3. ASSUME NEW t \in Thread, Lock(t) PROVE IInv'
    <2>1. TypeOK'
      BY <1>3, Outcomes DEF IInv, TypeOK, Goto, Queue, Bounds, Label, AtLock, Inside, Knows, Lock, CanLock, Entry
    <2>2. MutualExclusion'
      BY <1>3 DEF IInv, TypeOK, MutualExclusion, Goto, Queue, Bounds, AtLock, Inside, Lock, CanLock, Entry
    <2>3. \A u \in Thread : Knows(u)'
      BY <1>3 DEF IInv, TypeOK, MutualExclusion, Knows, Ready, Goto, Queue, Bounds, AtLock, Inside, Lock, CanLock, Entry
    <2> QED
      BY <2>1, <2>2, <2>3 DEF IInv
  <1>4. ASSUME NEW t \in Thread, Unlock(t) PROVE IInv'
    <2>1. TypeOK'
      BY <1>4, Outcomes DEF IInv, TypeOK, Goto, Queue, Bounds, Label, AtLock, Inside, Knows, Unlock
    <2>2. MutualExclusion'
      BY <1>4 DEF IInv, TypeOK, MutualExclusion, Goto, Queue, Bounds, AtLock, Inside, Unlock
    <2>3. \A u \in Thread : Knows(u)'
      BY <1>4 DEF IInv, TypeOK, MutualExclusion, Knows, Ready, Goto, Queue, Bounds, AtLock, Inside, Unlock
    <2> QED
      BY <2>1, <2>2, <2>3 DEF IInv
  <1>5. ASSUME NEW t \in Thread, PushRefused(t) PROVE IInv'
    <2>1. TypeOK'
      BY <1>5, Outcomes DEF IInv, TypeOK, Goto, Queue, Bounds, Label, AtLock, Inside, Knows, PushRefused, Leave
    <2>2. MutualExclusion'
      BY <1>5 DEF IInv, TypeOK, MutualExclusion, Goto, Queue, Bounds, AtLock, Inside, PushRefused, Leave
    <2>3. \A u \in Thread : Knows(u)'
      BY <1>5 DEF IInv, TypeOK, MutualExclusion, Knows, Ready, Goto, Queue, Bounds, AtLock, Inside, PushRefused, Leave
    <2> QED
      BY <2>1, <2>2, <2>3 DEF IInv
  <1>6. ASSUME NEW t \in Thread, PushAccepted(t) PROVE IInv'
    <2>1. TypeOK'
      BY <1>6, Outcomes DEF IInv, TypeOK, Goto, Queue, Bounds, Label, AtLock, Inside, Knows, PushAccepted
    <2>2. MutualExclusion'
      BY <1>6 DEF IInv, TypeOK, MutualExclusion, Goto, Queue, Bounds, AtLock, Inside, PushAccepted
    <2>3. \A u \in Thread : Knows(u)'
      BY <1>6 DEF IInv, TypeOK, MutualExclusion, Knows, Ready, Goto, Queue, Bounds, AtLock, Inside, PushAccepted
    <2> QED
      BY <2>1, <2>2, <2>3 DEF IInv
  <1>7. ASSUME NEW t \in Thread, PushAppend(t) PROVE IInv'
    <2>1. TypeOK'
      BY <1>7, Outcomes DEF IInv, TypeOK, Goto, Queue, Bounds, Label, AtLock, Inside, Knows, PushAppend
    <2>2. MutualExclusion'
      BY <1>7 DEF IInv, TypeOK, MutualExclusion, Goto, Queue, Bounds, AtLock, Inside, PushAppend
    <2>3. \A u \in Thread : Knows(u)'
      BY <1>7 DEF IInv, TypeOK, MutualExclusion, Knows, Ready, Goto, Queue, Bounds, AtLock, Inside, PushAppend
    <2> QED
      BY <2>1, <2>2, <2>3 DEF IInv
  <1>8. ASSUME NEW t \in Thread, PushNotify(t) PROVE IInv'
    <2>1. TypeOK'
      BY <1>8, Outcomes DEF IInv, TypeOK, Goto, Queue, Bounds, Label, AtLock, Inside, Knows, PushNotify, NotifyOne, Waiting
    <2>2. MutualExclusion'
      BY <1>8 DEF IInv, TypeOK, MutualExclusion, Goto, Queue, Bounds, AtLock, Inside, PushNotify, NotifyOne, Waiting
    <2>3. \A u \in Thread : Knows(u)'
      BY <1>8 DEF IInv, TypeOK, MutualExclusion, Knows, Ready, Goto, Queue, Bounds, AtLock, Inside, PushNotify, NotifyOne, Waiting
    <2> QED
      BY <2>1, <2>2, <2>3 DEF IInv
  <1>9. ASSUME NEW t \in Thread, PopWait(t) PROVE IInv'
    <2>1. TypeOK'
      BY <1>9, Outcomes DEF IInv, TypeOK, Goto, Queue, Bounds, Label, AtLock, Inside, Knows, PopWait
    <2>2. MutualExclusion'
      BY <1>9 DEF IInv, TypeOK, MutualExclusion, Goto, Queue, Bounds, AtLock, Inside, PopWait
    <2>3. \A u \in Thread : Knows(u)'
      BY <1>9 DEF IInv, TypeOK, MutualExclusion, Knows, Ready, Goto, Queue, Bounds, AtLock, Inside, PopWait
    <2> QED
      BY <2>1, <2>2, <2>3 DEF IInv
  <1>10. ASSUME NEW t \in Thread, PopReady(t) PROVE IInv'
    <2>1. TypeOK'
      BY <1>10, Outcomes DEF IInv, TypeOK, Goto, Queue, Bounds, Label, AtLock, Inside, Knows, PopReady
    <2>2. MutualExclusion'
      BY <1>10 DEF IInv, TypeOK, MutualExclusion, Goto, Queue, Bounds, AtLock, Inside, PopReady
    <2>3. \A u \in Thread : Knows(u)'
      BY <1>10 DEF IInv, TypeOK, MutualExclusion, Knows, Ready, Goto, Queue, Bounds, AtLock, Inside, PopReady
    <2> QED
      BY <2>1, <2>2, <2>3 DEF IInv
  <1>11. ASSUME NEW t \in Thread, PopOver(t) PROVE IInv'
    <2>1. TypeOK'
      BY <1>11, Outcomes DEF IInv, TypeOK, Goto, Queue, Bounds, Label, AtLock, Inside, Knows, PopOver, Leave
    <2>2. MutualExclusion'
      BY <1>11 DEF IInv, TypeOK, MutualExclusion, Goto, Queue, Bounds, AtLock, Inside, PopOver, Leave
    <2>3. \A u \in Thread : Knows(u)'
      BY <1>11 DEF IInv, TypeOK, MutualExclusion, Knows, Ready, Goto, Queue, Bounds, AtLock, Inside, PopOver, Leave
    <2> QED
      BY <2>1, <2>2, <2>3 DEF IInv
  <1>12. ASSUME NEW t \in Thread, PopFound(t) PROVE IInv'
    <2>1. TypeOK'
      BY <1>12, Outcomes DEF IInv, TypeOK, Goto, Queue, Bounds, Label, AtLock, Inside, Knows, PopFound
    <2>2. MutualExclusion'
      BY <1>12 DEF IInv, TypeOK, MutualExclusion, Goto, Queue, Bounds, AtLock, Inside, PopFound
    <2>3. \A u \in Thread : Knows(u)'
      BY <1>12 DEF IInv, TypeOK, MutualExclusion, Knows, Ready, Goto, Queue, Bounds, AtLock, Inside, PopFound
    <2> QED
      BY <2>1, <2>2, <2>3 DEF IInv
  <1>13. ASSUME NEW t \in Thread, TryNothing(t) PROVE IInv'
    <2>1. TypeOK'
      BY <1>13, Outcomes DEF IInv, TypeOK, Goto, Queue, Bounds, Label, AtLock, Inside, Knows, TryNothing, Leave
    <2>2. MutualExclusion'
      BY <1>13 DEF IInv, TypeOK, MutualExclusion, Goto, Queue, Bounds, AtLock, Inside, TryNothing, Leave
    <2>3. \A u \in Thread : Knows(u)'
      BY <1>13 DEF IInv, TypeOK, MutualExclusion, Knows, Ready, Goto, Queue, Bounds, AtLock, Inside, TryNothing, Leave
    <2> QED
      BY <2>1, <2>2, <2>3 DEF IInv
  <1>14. ASSUME NEW t \in Thread, TryFound(t) PROVE IInv'
    <2>1. TypeOK'
      BY <1>14, Outcomes DEF IInv, TypeOK, Goto, Queue, Bounds, Label, AtLock, Inside, Knows, TryFound
    <2>2. MutualExclusion'
      BY <1>14 DEF IInv, TypeOK, MutualExclusion, Goto, Queue, Bounds, AtLock, Inside, TryFound
    <2>3. \A u \in Thread : Knows(u)'
      BY <1>14 DEF IInv, TypeOK, MutualExclusion, Knows, Ready, Goto, Queue, Bounds, AtLock, Inside, TryFound
    <2> QED
      BY <2>1, <2>2, <2>3 DEF IInv
  <1>15. ASSUME NEW t \in Thread, Take(t) PROVE IInv'
    <2>1. TypeOK'
      BY <1>15, Outcomes DEF IInv, TypeOK, Goto, Queue, Bounds, Label, AtLock, Inside, Knows, Take
    <2>2. MutualExclusion'
      BY <1>15 DEF IInv, TypeOK, MutualExclusion, Goto, Queue, Bounds, AtLock, Inside, Take
    <2>3. \A u \in Thread : Knows(u)'
      BY <1>15 DEF IInv, TypeOK, MutualExclusion, Knows, Ready, Goto, Queue, Bounds, AtLock, Inside, Take
    <2> QED
      BY <2>1, <2>2, <2>3 DEF IInv
  <1>16. ASSUME NEW t \in Thread, Drop(t) PROVE IInv'
    <2>1. TypeOK'
      BY <1>16, Outcomes DEF IInv, TypeOK, Goto, Queue, Bounds, Label, AtLock, Inside, Knows, Drop, Leave
    <2>2. MutualExclusion'
      BY <1>16 DEF IInv, TypeOK, MutualExclusion, Goto, Queue, Bounds, AtLock, Inside, Drop, Leave
    <2>3. \A u \in Thread : Knows(u)'
      BY <1>16 DEF IInv, TypeOK, MutualExclusion, Knows, Ready, Goto, Queue, Bounds, AtLock, Inside, Drop, Leave
    <2> QED
      BY <2>1, <2>2, <2>3 DEF IInv
  <1>17. ASSUME NEW t \in Thread, StopSet(t) PROVE IInv'
    <2>1. TypeOK'
      BY <1>17, Outcomes DEF IInv, TypeOK, Goto, Queue, Bounds, Label, AtLock, Inside, Knows, StopSet
    <2>2. MutualExclusion'
      BY <1>17 DEF IInv, TypeOK, MutualExclusion, Goto, Queue, Bounds, AtLock, Inside, StopSet
    <2>3. \A u \in Thread : Knows(u)'
      BY <1>17 DEF IInv, TypeOK, MutualExclusion, Knows, Ready, Goto, Queue, Bounds, AtLock, Inside, StopSet
    <2> QED
      BY <2>1, <2>2, <2>3 DEF IInv
  <1>18. ASSUME NEW t \in Thread, StopNotify(t) PROVE IInv'
    <2>1. TypeOK'
      BY <1>18, Outcomes DEF IInv, TypeOK, Goto, Queue, Bounds, Label, AtLock, Inside, Knows, StopNotify, Woken, Waiting
    <2>2. MutualExclusion'
      BY <1>18 DEF IInv, TypeOK, MutualExclusion, Goto, Queue, Bounds, AtLock, Inside, StopNotify, Woken, Waiting
    <2>3. \A u \in Thread : Knows(u)'
      BY <1>18 DEF IInv, TypeOK, MutualExclusion, Knows, Ready, Goto, Queue, Bounds, AtLock, Inside, StopNotify, Woken, Waiting
    <2> QED
      BY <2>1, <2>2, <2>3 DEF IInv
  <1>19. ASSUME NEW t \in Thread, SizeRead(t) PROVE IInv'
    <2>1. TypeOK'
      BY <1>19, Outcomes DEF IInv, TypeOK, Goto, Queue, Bounds, Label, AtLock, Inside, Knows, SizeRead, Leave
    <2>2. MutualExclusion'
      BY <1>19 DEF IInv, TypeOK, MutualExclusion, Goto, Queue, Bounds, AtLock, Inside, SizeRead, Leave
    <2>3. \A u \in Thread : Knows(u)'
      BY <1>19 DEF IInv, TypeOK, MutualExclusion, Knows, Ready, Goto, Queue, Bounds, AtLock, Inside, SizeRead, Leave
    <2> QED
      BY <2>1, <2>2, <2>3 DEF IInv
  <1>20. CASE UNCHANGED vars
    BY <1>20 DEF vars, IInv, TypeOK, MutualExclusion, Knows, Ready
  <1> QED
    BY <1>1, <1>2, <1>3, <1>4, <1>5, <1>6, <1>7, <1>8, <1>9, <1>10, <1>11, <1>12, <1>13, <1>14, <1>15, <1>16, <1>17, <1>18, <1>19, <1>20 DEF Next, Step

\* Every variable keeps its type.
THEOREM TypeCorrect == Spec => []TypeOK
  <1>1. Spec => []IInv
    BY InitIInv, StepIInv, PTL DEF Spec
  <1>2. IInv => TypeOK
    BY DEF IInv
  <1> QED
    BY <1>1, <1>2, PTL

\* No two threads are between lock and unlock, though wait() releases the mutex and
\* takes it again, whatever wakes the waiting thread.
THEOREM Exclusion == Spec => []MutualExclusion
  <1>1. Spec => []IInv
    BY InitIInv, StepIInv, PTL DEF Spec
  <1>2. IInv => MutualExclusion
    BY DEF IInv
  <1> QED
    BY <1>1, <1>2, PTL

-----------------------------------------------------------------------------
(***************************************************************************)
(* Refinement: the steps that append, remove, set the flag or settle an    *)
(* outcome are the steps of QueueSpec, all others leave its state alone.   *)
(***************************************************************************)
AbsVars == <<[items |-> data_queue, stopped |-> is_stopped], result>>

LEMMA InitRefines == Init => Abs!Init
  BY DEF Init, Abs!Init, Abs!EmptyQueue

LEMMA StepRefines == IInv /\ [Next]_vars => [Abs!Next]_AbsVars
  <1> SUFFICES ASSUME IInv, [Next]_vars PROVE [Abs!Next]_AbsVars
    OBVIOUS
  <1> USE DEF AbsVars, Queue, Bounds
  <1>1. ASSUME NEW t \in Thread,
               \/ CallAny(t) \/ SpuriousWake(t) \/ Lock(t) \/ Unlock(t)
               \/ PushAccepted(t) \/ PushNotify(t) \/ PopWait(t) \/ PopReady(t)
               \/ PopFound(t) \/ TryFound(t) \/ Take(t) \/ StopNotify(t)
        PROVE  UNCHANGED AbsVars
    BY <1>1 DEF CallAny, Call, SpuriousWake, Lock, Unlock, PushAccepted, PushNotify,
       PopWait, PopReady, PopFound, TryFound, Take, StopNotify
  <1>2. ASSUME NEW t \in Thread, PushRefused(t) PROVE Abs!Next
    <2>1. is_stopped /\ item[t] \in Item
      BY <1>2 DEF PushRefused, IInv, Knows
    <2>2. Abs!DoPush(t, item[t])
      BY <1>2, <2>1 DEF PushRefused, Leave, Abs!DoPush, Abs!Push, Abs!Return
    <2> QED
      BY <2>1, <2>2 DEF Abs!Next
  <1>3. ASSUME NEW t \in Thread, PushAppend(t) PROVE Abs!Next
    <2>1. ~is_stopped /\ item[t] \in Item
      BY <1>3 DEF PushAppend, IInv, Knows
    <2>2. Abs!DoPush(t, item[t])
      BY <1>3, <2>1 DEF PushAppend, Abs!DoPush, Abs!Push, Abs!Return
    <2> QED
      BY <2>1, <2>2 DEF Abs!Next
  <1>4. ASSUME NEW t \in Thread, PopOver(t) PROVE Abs!Next
    <2>1. Abs!DoPopOver(t)
      BY <1>4 DEF PopOver, Leave, Abs!DoPopOver, Abs!Drained, Abs!Return
    <2> QED
      BY <2>1 DEF Abs!Next
  <1>5. ASSUME NEW t \in Thread, TryNothing(t) PROVE Abs!Next
    <2>1. Abs!DoTryNothing(t)
      BY <1>5 DEF TryNothing, Leave, Abs!DoTryNothing, Abs!CanPop, Abs!Return
    <2> QED
      BY <2>1 DEF Abs!Next
  <1>6. ASSUME NEW t \in Thread, Drop(t) PROVE Abs!Next
    <2>1. data_queue # <<>> /\ item[t] = Head(data_queue)
      BY <1>6 DEF Drop, IInv, Knows
    <2> DEFINE q == [items |-> data_queue, stopped |-> is_stopped]
    <2>2. /\ [q EXCEPT !.items = Tail(@)] = [items |-> Tail(data_queue), stopped |-> is_stopped]
          /\ Head(q.items) = item[t] /\ q.items # <<>>
      BY <2>1
    <2>3. q' = [items |-> Tail(data_queue), stopped |-> is_stopped]
      BY <1>6 DEF Drop
    <2>4. result' = [result EXCEPT ![t] = Abs!Got(item[t])]
      BY <1>6 DEF Drop, Leave
    <2>5. Abs!DoPop(t)
      BY <2>2, <2>3, <2>4 DEF Abs!DoPop, Abs!CanPop, Abs!Pop, Abs!Front, Abs!Return
    <2> QED
      BY <2>5 DEF Abs!Next
  <1>7. ASSUME NEW t \in Thread, StopSet(t) PROVE Abs!Next
    <2> DEFINE q == [items |-> data_queue, stopped |-> is_stopped]
    <2>1. [q EXCEPT !.stopped = TRUE] = [items |-> data_queue, stopped |-> TRUE]
      <3>1. \A b : [q EXCEPT !.stopped = b] = [items |-> data_queue, stopped |-> b]
        OBVIOUS
      <3> QED
        BY <3>1
    <2>2. q' = [items |-> data_queue, stopped |-> TRUE]
      BY <1>7 DEF StopSet
    <2>3. Abs!DoStop(t)
      BY <1>7, <2>1, <2>2 DEF StopSet, Abs!DoStop, Abs!Stop, Abs!Return
    <2> QED
      BY <2>3 DEF Abs!Next
  <1>8. ASSUME NEW t \in Thread, SizeRead(t) PROVE Abs!Next
    <2>1. Abs!DoSize(t)
      BY <1>8 DEF SizeRead, Leave, Abs!DoSize, Abs!Return
    <2> QED
      BY <2>1 DEF Abs!Next
  <1>9. CASE UNCHANGED vars
    BY <1>9 DEF vars
  <1> QED
    BY <1>1, <1>2, <1>3, <1>4, <1>5, <1>6, <1>7, <1>8, <1>9 DEF Next, Step

\* Callers see one atomic queue, whatever threads and items there are.
THEOREM Refinement == Spec => Linearizable
  <1>1. Spec => []IInv
    BY InitIInv, StepIInv, PTL DEF Spec
  <1> QED
    BY <1>1, InitRefines, StepRefines, PTL DEF Spec, Linearizable, Abs!Spec, AbsVars

-----------------------------------------------------------------------------
(***************************************************************************)
(* Sleeping threads.                                                       *)
(***************************************************************************)
LEMMA StepNoSleep == IInv /\ NoSleepAfterStop /\ [Next]_vars => NoSleepAfterStop'
  <1> SUFFICES ASSUME IInv, NoSleepAfterStop, [Next]_vars PROVE NoSleepAfterStop'
    OBVIOUS
  <1> USE DEF NoSleepAfterStop, Waiting, Goto, Queue, Bounds, IInv, TypeOK
  <1>1. ASSUME NEW t \in Thread, CallAny(t) PROVE NoSleepAfterStop'
    BY <1>1 DEF CallAny, Call, AtLock
  <1>2. ASSUME NEW t \in Thread, SpuriousWake(t) PROVE NoSleepAfterStop'
    BY <1>2 DEF SpuriousWake
  <1>3. ASSUME NEW t \in Thread, Lock(t) PROVE NoSleepAfterStop'
    BY <1>3 DEF Lock, CanLock, AtLock, Entry
  <1>4. ASSUME NEW t \in Thread, PushNotify(t) PROVE NoSleepAfterStop'
    BY <1>4 DEF PushNotify, NotifyOne
  <1>5. ASSUME NEW t \in Thread, PopWait(t) PROVE NoSleepAfterStop'
    BY <1>5 DEF PopWait, Ready
  <1>6. ASSUME NEW t \in Thread, StopSet(t) PROVE NoSleepAfterStop'
    BY <1>6 DEF StopSet
  <1>7. ASSUME NEW t \in Thread, StopNotify(t) PROVE NoSleepAfterStop'
    <2>1. Waiting' = {}
      BY <1>7 DEF StopNotify, Woken
    <2> QED
      BY <2>1
  <1>8. ASSUME NEW t \in Thread,
               \/ Unlock(t) \/ PushRefused(t) \/ PushAccepted(t) \/ PushAppend(t)
               \/ PopReady(t) \/ PopOver(t) \/ PopFound(t) \/ TryNothing(t)
               \/ TryFound(t) \/ Take(t) \/ Drop(t) \/ SizeRead(t)
        PROVE  NoSleepAfterStop'
    BY <1>8 DEF Unlock, PushRefused, PushAccepted, PushAppend, PopReady, PopOver,
       PopFound, TryNothing, TryFound, Take, Drop, SizeRead, Leave
  <1>9. CASE UNCHANGED vars
    BY <1>9 DEF vars
  <1> QED
    BY <1>1, <1>2, <1>3, <1>4, <1>5, <1>6, <1>7, <1>8, <1>9 DEF Next, Step

\* Nobody sleeps through a stop.
THEOREM StopWakesAll == Spec => []NoSleepAfterStop
  <1>1. Spec => []IInv
    BY InitIInv, StepIInv, PTL DEF Spec
  <1>2. Init => NoSleepAfterStop
    BY DEF Init, NoSleepAfterStop
  <1> QED
    BY <1>1, <1>2, StepNoSleep, PTL DEF Spec

-----------------------------------------------------------------------------
(***************************************************************************)
(* Wake-ups: what a step does to the queue's length, it does to the number *)
(* of the threads that serve it, or more.                                  *)
(***************************************************************************)
LEMMA ServingFinite == IsFiniteSet(Serving) /\ IsFiniteSet(Serving')
  <1>1. Serving \subseteq Thread /\ Serving' \subseteq Thread
    BY DEF Serving
  <1> QED
    BY <1>1, QueueAssumption, FS_Subset

\* A step that takes nobody from Serving, puts nobody to sleep and adds no item.
LEMMA Harmless ==
  ASSUME IInv, NoLostWakeup, Serving \subseteq Serving', Waiting' \subseteq Waiting,
         data_queue' = data_queue
  PROVE  NoLostWakeup'
  <1>1. Cardinality(Serving) <= Cardinality(Serving')
    BY ServingFinite, FS_Subset
  <1>2. Len(data_queue) \in Nat /\ Cardinality(Serving) \in Nat /\ Cardinality(Serving') \in Nat
    BY ServingFinite, FS_CardinalityType DEF IInv, TypeOK
  <1> QED
    BY <1>1, <1>2 DEF NoLostWakeup

LEMMA StepNoLostWakeup == IInv /\ NoLostWakeup /\ [Next]_vars => NoLostWakeup'
  <1> SUFFICES ASSUME IInv, NoLostWakeup, [Next]_vars PROVE NoLostWakeup'
    OBVIOUS
  <1>0. /\ data_queue \in Seq(Item) /\ Len(data_queue) \in Nat
        /\ Cardinality(Serving) \in Nat /\ Cardinality(Serving') \in Nat
        /\ pc \in [Thread -> Label]
    BY ServingFinite, FS_CardinalityType DEF IInv, TypeOK
  <1> USE DEF Goto, Queue, Bounds
  <1>1. ASSUME NEW t \in Thread,
               \/ CallAny(t) \/ SpuriousWake(t) \/ Unlock(t) \/ PushRefused(t)
               \/ PushAccepted(t) \/ PopReady(t) \/ PopFound(t) \/ TryNothing(t)
               \/ TryFound(t) \/ Take(t) \/ StopSet(t) \/ SizeRead(t)
        PROVE  NoLostWakeup'
    <2>1. /\ Serving \subseteq Serving' /\ Waiting' \subseteq Waiting
          /\ data_queue' = data_queue
      BY <1>0, <1>1 DEF CallAny, Call, SpuriousWake, Unlock, PushRefused, PushAccepted,
         PopReady, PopFound, TryNothing, TryFound, Take, StopSet, SizeRead, Leave,
         AtLock, Serving, Waiting
    <2> QED
      BY <2>1, Harmless
  <1>2. ASSUME NEW t \in Thread, Lock(t) PROVE NoLostWakeup'
    <2>1. /\ Serving \subseteq Serving' /\ Waiting' \subseteq Waiting
          /\ data_queue' = data_queue
      BY <1>0, <1>2 DEF Lock, CanLock, AtLock, Entry, Serving, Waiting
    <2> QED
      BY <2>1, Harmless
  \* One item more, and its push() is about to notify.
  <1>3. ASSUME NEW t \in Thread, PushAppend(t) PROVE NoLostWakeup'
    <2>1. /\ Serving' = Serving \cup {t} /\ t \notin Serving /\ Waiting' = Waiting
      BY <1>0, <1>3 DEF PushAppend, Serving, Waiting
    <2>2. Cardinality(Serving') = Cardinality(Serving) + 1
      BY <2>1, ServingFinite, FS_AddElement
    <2>3. item[t] \in Item
      BY <1>3 DEF PushAppend, IInv, Knows
    <2>4. Len(data_queue') = Len(data_queue) + 1
      BY <1>0, <1>3, <2>3 DEF PushAppend
    <2> QED
      BY <1>0, <2>1, <2>2, <2>4 DEF NoLostWakeup
  \* The notified thread takes the place of the one that notified it.
  <1>4. ASSUME NEW t \in Thread, PushNotify(t) PROVE NoLostWakeup'
    <2>1. data_queue' = data_queue /\ pc[t] = "push.notify"
      BY <1>4 DEF PushNotify
    <2>2. CASE Waiting = {} /\ Goto(t, "unlock")
      <3>1. Waiting' = {}
        BY <1>0, <2>2 DEF Waiting
      <3> QED
        BY <3>1 DEF NoLostWakeup
    <2>3. ASSUME NEW u \in Waiting, pc' = [pc EXCEPT ![u] = "pop.lock", ![t] = "unlock"]
          PROVE  NoLostWakeup'
      <3>1. u \in Thread /\ pc[u] = "pop.wait" /\ u # t
        BY <2>1 DEF Waiting
      <3>2. /\ Serving' = (Serving \ {t}) \cup {u} /\ t \in Serving /\ u \notin Serving
            /\ Waiting' \subseteq Waiting
        BY <1>0, <2>1, <2>3, <3>1 DEF Serving, Waiting
      <3>3. Cardinality(Serving \ {t}) = Cardinality(Serving) - 1 /\ IsFiniteSet(Serving \ {t})
        BY <3>2, ServingFinite, FS_RemoveElement
      <3>4. u \notin Serving \ {t}
        BY <3>2
      <3>5. Cardinality((Serving \ {t}) \cup {u}) = Cardinality(Serving \ {t}) + 1
        BY <3>3, <3>4, FS_AddElement
      <3>6. Cardinality(Serving') = Cardinality(Serving)
        BY <1>0, <3>2, <3>3, <3>5
      <3> QED
        BY <1>0, <2>1, <3>2, <3>6 DEF NoLostWakeup
    <2> QED
      BY <1>4, <2>2, <2>3 DEF PushNotify, NotifyOne
  \* Who goes to sleep, or gives up, has seen an empty queue.
  <1>5. ASSUME NEW t \in Thread, PopWait(t) \/ PopOver(t) PROVE NoLostWakeup'
    <2>1. Len(data_queue') = 0
      BY <1>0, <1>5 DEF PopWait, PopOver, Ready
    <2> QED
      BY <1>0, <2>1 DEF NoLostWakeup
  \* One item less and, if it was not a Try_pop(), one thread less.
  <1>6. ASSUME NEW t \in Thread, Drop(t) PROVE NoLostWakeup'
    <2>1. data_queue # <<>>
      BY <1>6 DEF Drop, IInv, Knows
    <2>2. Len(data_queue') = Len(data_queue) - 1
      BY <1>0, <1>6, <2>1 DEF Drop
    <2>3. Waiting' = Waiting /\ Serving \ {t} \subseteq Serving'
      BY <1>0, <1>6 DEF Drop, Leave, Waiting, Serving
    <2>4. Cardinality(Serving) - 1 <= Cardinality(Serving \ {t})
      <3>1. Cardinality(Serving \ {t}) =
              IF t \in Serving THEN Cardinality(Serving) - 1 ELSE Cardinality(Serving)
        BY ServingFinite, FS_RemoveElement
      <3> QED
        BY <1>0, <3>1
    <2>5. Cardinality(Serving \ {t}) <= Cardinality(Serving') /\ Cardinality(Serving \ {t}) \in Nat
      BY <2>3, ServingFinite, FS_Subset, FS_CardinalityType
    <2> QED
      BY <1>0, <2>2, <2>3, <2>4, <2>5 DEF NoLostWakeup
  <1>7. ASSUME NEW t \in Thread, StopNotify(t) PROVE NoLostWakeup'
    <2>1. Waiting' = {}
      BY <1>7 DEF StopNotify, Woken, Waiting
    <2> QED
      BY <2>1 DEF NoLostWakeup
  <1>8. CASE UNCHANGED vars
    BY <1>8 DEF vars, NoLostWakeup, Waiting, Serving
  <1> QED
    BY <1>1, <1>2, <1>3, <1>4, <1>5, <1>6, <1>7, <1>8 DEF Next, Step

\* While a thread sleeps, every item has a thread of its own on the way to it.
THEOREM WakeupsSuffice == Spec => []NoLostWakeup
  <1>1. Spec => []IInv
    BY InitIInv, StepIInv, PTL DEF Spec
  <1>2. Init => NoLostWakeup
    BY DEF Init, NoLostWakeup, Waiting
  <1> QED
    BY <1>1, <1>2, StepNoLostWakeup, PTL DEF Spec
=============================================================================
