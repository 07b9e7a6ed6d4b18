----------------------------- MODULE QueueSpec -----------------------------
(***************************************************************************)
(* The abstract specification of BlockQueue<T>: every call takes effect in *)
(* one step, on a ClosableQueue, and result[t] is what thread t's latest   *)
(* call came to.  There is no lock, no waiting set and no waking here:     *)
(* whatever the implementation does with them, its callers may only see    *)
(* these steps.                                                            *)
(***************************************************************************)
EXTENDS Naturals, ClosableQueue

CONSTANTS Thread,  \* the threads that share the queue
          Item     \* what they put into it

VARIABLES q,       \* the queue, a record of ClosableQueue
          result   \* the outcome of each thread's latest call

\* The outcomes of a call.  None is the outcome before the first one.
None    == [kind |-> "none"]
Pushed  == [kind |-> "pushed"]               \* push() returned true
Refused == [kind |-> "refused"]              \* push() returned false
Got(v)  == [kind |-> "item", val |-> v]      \* pop() or Try_pop() took v
Over    == [kind |-> "over"]                 \* pop() returned false
Nothing == [kind |-> "nothing"]              \* Try_pop() returned false
Halted  == [kind |-> "halted"]               \* stop() returned
Size(n) == [kind |-> "size", val |-> n]      \* size() returned n

Outcome == [kind : {"none", "pushed", "refused", "over", "nothing", "halted"}]
           \cup [kind : {"item"}, val : Item]
           \cup [kind : {"size"}, val : Nat]

Return(t, r) == result' = [result EXCEPT ![t] = r]

Init == /\ q = EmptyQueue
        /\ result = [t \in Thread |-> None]

\* push(v): true exactly when the queue took the item.
DoPush(t, v) == /\ q' = Push(q, v)
                /\ Return(t, IF q.stopped THEN Refused ELSE Pushed)

\* pop() and Try_pop() with an item there: the oldest one, once.
DoPop(t) == /\ CanPop(q)
            /\ q' = Pop(q)
            /\ Return(t, Got(Front(q)))

\* pop() gives up only on a stopped queue with nothing left to take.
DoPopOver(t) == /\ Drained(q)
                /\ UNCHANGED q
                /\ Return(t, Over)

\* Try_pop() gives up on any queue that is empty.
DoTryNothing(t) == /\ ~CanPop(q)
                   /\ UNCHANGED q
                   /\ Return(t, Nothing)

DoStop(t) == q' = Stop(q) /\ Return(t, Halted)

DoSize(t) == UNCHANGED q /\ Return(t, Size(Len(q.items)))

Next == \E t \in Thread : \/ \E v \in Item : DoPush(t, v)
                          \/ DoPop(t)
                          \/ DoPopOver(t)
                          \/ DoTryNothing(t)
                          \/ DoStop(t)
                          \/ DoSize(t)

Spec == Init /\ [][Next]_<<q, result>>
=============================================================================
