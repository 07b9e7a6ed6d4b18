----------------------------- MODULE BlockQueue -----------------------------
(***************************************************************************)
(* BlockQueue<T>: a std::queue behind one mutex, with a condition variable *)
(* for the threads that pop() finds nothing for.  Any thread may call any  *)
(* method at any time.  A method runs between taking and giving back the   *)
(* mutex, one statement a step, so that what the mutex protects shows; a   *)
(* wait gives the mutex back and blocks in one step, and a thread that is  *)
(* woken has to take the mutex again before it looks at the queue.         *)
(*                                                                         *)
(* Each definition whose name ends in Wrong is a slip the next definition  *)
(* could contain; nothing uses it, except to see that the properties would *)
(* tell.                                                                   *)
(***************************************************************************)
EXTENDS Naturals, Sequences, FiniteSets

CONSTANTS Thread,       \* the threads that share the queue
          Item,         \* what they put into it
          Free,         \* the owner of a mutex nobody holds
          NoItem,       \* the item of a call that has none
          MaxCalls,     \* bound: the calls all threads make together
          MaxSpurious   \* bound: wake-ups of the condition variable unasked for

ASSUME QueueAssumption ==
  /\ IsFiniteSet(Thread)
  /\ Free \notin Thread
  /\ NoItem \notin Item
  /\ MaxCalls \in Nat
  /\ MaxSpurious \in Nat

VARIABLES data_queue,   \* the items, oldest first
          is_stopped,
          mtx,          \* the thread that holds the mutex, or Free
          pc,           \* where each thread is
          item,         \* the argument of a push(), the item a pop() has copied
          result,       \* the outcome of each thread's latest call
          calls,        \* how many calls were made
          spurious      \* how many wake-ups came unasked

vars == <<data_queue, is_stopped, mtx, pc, item, result, calls, spurious>>

\* What callers see: the queue as a record, and the outcomes.
Abs == INSTANCE QueueSpec WITH q <- [items |-> data_queue, stopped |-> is_stopped]

\* Where a call waits for the mutex, and where it goes on when it has it.
AtLock == {"push.lock", "pop.lock", "try.lock", "stop.lock", "size.lock"}
Entry == [l \in AtLock |->
            CASE l = "push.lock" -> "push.test"
              [] l = "pop.lock"  -> "pop.test"
              [] l = "try.lock"  -> "try.test"
              [] l = "stop.lock" -> "stop.set"
              [] l = "size.lock" -> "size.read"]

\* Where a thread holds the mutex.
Inside == {"push.test", "push.append", "push.notify", "pop.test", "pop.check",
           "pop.take", "pop.drop", "try.test", "try.take", "try.drop",
           "stop.set", "stop.notify", "size.read", "unlock"}

Label == AtLock \cup Inside \cup {"idle", "pop.wait"}

Init == /\ data_queue = <<>>
        /\ is_stopped = FALSE
        /\ mtx = Free
        /\ pc = [t \in Thread |-> "idle"]
        /\ item = [t \in Thread |-> NoItem]
        /\ result = [t \in Thread |-> Abs!None]
        /\ calls = 0
        /\ spurious = 0

Goto(t, l) == pc' = [pc EXCEPT ![t] = l]

Waiting == {u \in Thread : pc[u] = "pop.wait"}

Queue == <<data_queue, is_stopped>>
Bounds == <<calls, spurious>>

-----------------------------------------------------------------------------
(* Calls and the mutex.                                                     *)

\* The argument of a push() is not kept.
CallWrong(t, l, v) == /\ pc[t] = "idle"
                      /\ calls < MaxCalls
                      /\ calls' = calls + 1
                      /\ Goto(t, l)
                      /\ UNCHANGED <<Queue, mtx, item, result, spurious>>

\* Thread t calls the method that starts at l, with item v if it takes one.
Call(t, l, v) == /\ pc[t] = "idle"
                 /\ calls < MaxCalls
                 /\ calls' = calls + 1
                 /\ Goto(t, l)
                 /\ item' = [item EXCEPT ![t] = v]
                 /\ UNCHANGED <<Queue, mtx, result, spurious>>

CallAny(t) == \/ \E v \in Item : Call(t, "push.lock", v)
              \/ \E l \in AtLock \ {"push.lock"} : Call(t, l, NoItem)

\* The constructor of the lock guard returns: only when nobody has the mutex.
CanLock(t) == mtx = Free
Lock(t) == /\ pc[t] \in AtLock
           /\ CanLock(t)
           /\ mtx' = t
           /\ Goto(t, Entry[pc[t]])
           /\ UNCHANGED <<Queue, item, result, Bounds>>

\* The lock guard's destructor, and the return to the caller.
Unlock(t) == /\ pc[t] = "unlock"
             /\ mtx' = Free
             /\ Goto(t, "idle")
             /\ item' = [item EXCEPT ![t] = NoItem]
             /\ UNCHANGED <<Queue, result, Bounds>>

\* The call's outcome is settled and only the unlocking is left.
Leave(t, r) == /\ Goto(t, "unlock")
               /\ result' = [result EXCEPT ![t] = r]

-----------------------------------------------------------------------------
(* The methods.                                                             *)

PushRefused(t) == /\ pc[t] = "push.test"
                  /\ is_stopped
                  /\ Leave(t, Abs!Refused)
                  /\ UNCHANGED <<Queue, mtx, item, Bounds>>

PushAccepted(t) == /\ pc[t] = "push.test"
                   /\ ~is_stopped
                   /\ Goto(t, "push.append")
                   /\ UNCHANGED <<Queue, mtx, item, result, Bounds>>

PushAppend(t) == /\ pc[t] = "push.append"
                 /\ data_queue' = Append(data_queue, item[t])
                 /\ result' = [result EXCEPT ![t] = Abs!Pushed]
                 /\ Goto(t, "push.notify")
                 /\ UNCHANGED <<is_stopped, mtx, item, Bounds>>

\* Only the push() that ends an empty queue wakes a thread.
NotifyOneWrong(t) == \/ Len(data_queue) = 1 /\ \E u \in Waiting :
                          pc' = [pc EXCEPT ![u] = "pop.lock", ![t] = "unlock"]
                     \/ (Len(data_queue) # 1 \/ Waiting = {}) /\ Goto(t, "unlock")

\* cv_.notify_one(): one of the waiting threads, if there is any, goes for
\* the mutex.
NotifyOne(t) == \/ \E u \in Waiting :
                     pc' = [pc EXCEPT ![u] = "pop.lock", ![t] = "unlock"]
                \/ Waiting = {} /\ Goto(t, "unlock")

PushNotify(t) == /\ pc[t] = "push.notify"
                 /\ NotifyOne(t)
                 /\ UNCHANGED <<Queue, mtx, item, result, Bounds>>

\* The predicate of cv_.wait().
Ready == data_queue # <<>> \/ is_stopped

\* The thread blocks with the mutex in its hands.
PopWaitWrong(t) == /\ pc[t] = "pop.test"
                   /\ ~Ready
                   /\ Goto(t, "pop.wait")
                   /\ UNCHANGED <<Queue, mtx, item, result, Bounds>>

\* The mutex is given back and the thread blocks, in one step.
PopWait(t) == /\ pc[t] = "pop.test"
              /\ ~Ready
              /\ mtx' = Free
              /\ Goto(t, "pop.wait")
              /\ UNCHANGED <<Queue, item, result, Bounds>>

\* The condition variable may wake a thread that nobody notified.
SpuriousWake(t) == /\ pc[t] = "pop.wait"
                   /\ spurious < MaxSpurious
                   /\ spurious' = spurious + 1
                   /\ Goto(t, "pop.lock")
                   /\ UNCHANGED <<Queue, mtx, item, result, calls>>

PopReady(t) == /\ pc[t] = "pop.test"
               /\ Ready
               /\ Goto(t, "pop.check")
               /\ UNCHANGED <<Queue, mtx, item, result, Bounds>>

\* pop() gives up on a stopped queue, whatever is left in it.
PopOverWrong(t) == /\ pc[t] = "pop.check"
                   /\ is_stopped
                   /\ Leave(t, Abs!Over)
                   /\ UNCHANGED <<Queue, mtx, item, Bounds>>

\* data_queue.empty() && _is_stopped
PopOver(t) == /\ pc[t] = "pop.check"
              /\ data_queue = <<>> /\ is_stopped
              /\ Leave(t, Abs!Over)
              /\ UNCHANGED <<Queue, mtx, item, Bounds>>

PopFound(t) == /\ pc[t] = "pop.check"
               /\ ~(data_queue = <<>> /\ is_stopped)
               /\ Goto(t, "pop.take")
               /\ UNCHANGED <<Queue, mtx, item, result, Bounds>>

TryNothing(t) == /\ pc[t] = "try.test"
                 /\ data_queue = <<>>
                 /\ Leave(t, Abs!Nothing)
                 /\ UNCHANGED <<Queue, mtx, item, Bounds>>

TryFound(t) == /\ pc[t] = "try.test"
               /\ data_queue # <<>>
               /\ Goto(t, "try.take")
               /\ UNCHANGED <<Queue, mtx, item, result, Bounds>>

\* item = std::move(data_queue.front())
Take(t) == /\ pc[t] \in {"pop.take", "try.take"}
           /\ item' = [item EXCEPT ![t] = Head(data_queue)]
           /\ Goto(t, IF pc[t] = "pop.take" THEN "pop.drop" ELSE "try.drop")
           /\ UNCHANGED <<Queue, mtx, result, Bounds>>

\* data_queue.pop(): what the caller gets is the item it copied before.
Drop(t) == /\ pc[t] \in {"pop.drop", "try.drop"}
           /\ data_queue' = Tail(data_queue)
           /\ Leave(t, Abs!Got(item[t]))
           /\ UNCHANGED <<is_stopped, mtx, item, Bounds>>

StopSet(t) == /\ pc[t] = "stop.set"
              /\ is_stopped' = TRUE
              /\ result' = [result EXCEPT ![t] = Abs!Halted]
              /\ Goto(t, "stop.notify")
              /\ UNCHANGED <<data_queue, mtx, item, Bounds>>

\* stop() wakes one thread.
WokenWrong(w) == LET one == CHOOSE u \in w : TRUE IN
                 [u \in Thread |-> IF w # {} /\ u = one THEN "pop.lock" ELSE pc[u]]

\* cv_.notify_all(): every waiting thread goes for the mutex.
Woken(w) == [u \in Thread |-> IF u \in w THEN "pop.lock" ELSE pc[u]]
StopNotify(t) == /\ pc[t] = "stop.notify"
                 /\ pc' = [Woken(Waiting) EXCEPT ![t] = "unlock"]
                 /\ UNCHANGED <<Queue, mtx, item, result, Bounds>>

SizeRead(t) == /\ pc[t] = "size.read"
               /\ Leave(t, Abs!Size(Len(data_queue)))
               /\ UNCHANGED <<Queue, mtx, item, Bounds>>

-----------------------------------------------------------------------------
\* A step of thread t inside a call that it can take without being woken.
Step(t) == \/ Lock(t) \/ Unlock(t)
           \/ PushRefused(t) \/ PushAccepted(t) \/ PushAppend(t) \/ PushNotify(t)
           \/ PopWait(t) \/ PopReady(t) \/ PopOver(t) \/ PopFound(t)
           \/ TryNothing(t) \/ TryFound(t) \/ Take(t) \/ Drop(t)
           \/ StopSet(t) \/ StopNotify(t) \/ SizeRead(t)

Next == \E t \in Thread : CallAny(t) \/ SpuriousWake(t) \/ Step(t)

Spec == Init /\ [][Next]_vars

\* The scheduler runs every thread that can run.  Calls and spurious wake-ups
\* are nobody's duty.
FairSpec == Spec /\ \A t \in Thread : WF_vars(Step(t))

-----------------------------------------------------------------------------
(* Properties.                                                              *)

TypeOK == /\ data_queue \in Seq(Item)
          /\ is_stopped \in BOOLEAN
          /\ mtx \in Thread \cup {Free}
          /\ pc \in [Thread -> Label]
          /\ item \in [Thread -> Item \cup {NoItem}]
          /\ result \in [Thread -> Abs!Outcome]
          /\ calls \in 0..MaxCalls
          /\ spurious \in 0..MaxSpurious

\* Two threads are never between lock and unlock together, wake-ups included.
MutualExclusion == \A t \in Thread : pc[t] \in Inside <=> mtx = t

\* The threads an item in the queue can count on: they have yet to look at
\* it, or they are about to wake one that will.
Serving == {t \in Thread : pc[t] \in {"pop.lock", "pop.test", "pop.check",
                                      "pop.take", "pop.drop", "push.notify"}}

\* No wake-up is lost: while a thread waits, each item in the queue has a
\* thread of its own on the way to it, although notify_one() picks the thread,
\* wake-ups may be spurious, and pop() and Try_pop() calls that never waited
\* may take the item first.
NoLostWakeup == Waiting # {} => Len(data_queue) <= Cardinality(Serving)

\* Once stopped, nobody sleeps except until the stop() that is still running
\* has notified.
NoSleepAfterStop ==
  is_stopped /\ Waiting # {} => \E t \in Thread : pc[t] = "stop.notify"

\* Callers see one atomic queue: items come out once each in the order they
\* went in, nothing goes in after the stop, pop() gives up only when there is
\* nothing left to take.
Linearizable == Abs!Spec

\* A thread does not sleep beside an item: the item is taken or the thread
\* wakes.
NobodyStarves ==
  \A t \in Thread : pc[t] = "pop.wait" /\ data_queue # <<>>
                       ~> pc[t] # "pop.wait" \/ data_queue = <<>>

\* Every call returns in the end, except a pop() that waits for an item of a queue
\* nobody has stopped: the shutdown's premise is that stop() releases them all.
CallsReturn ==
  \A t \in Thread :
    pc[t] # "idle" ~> pc[t] = "idle" \/ (pc[t] = "pop.wait" /\ ~is_stopped)
=============================================================================
