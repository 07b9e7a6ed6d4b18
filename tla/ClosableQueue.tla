--------------------------- MODULE ClosableQueue ---------------------------
(***************************************************************************)
(* What BlockQueue<T> promises, as a data type.  A queue is a record: the  *)
(* items that were accepted and not yet taken, oldest first, and whether   *)
(* stop() has been called.  Every operation of the class is atomic to its  *)
(* callers, so an operation is an operator on such records; TcpServer uses *)
(* them for its two queues, QueueSpec turns them into a state machine, and *)
(* BlockQueue shows that the mutex and the condition variable implement it.*)
(***************************************************************************)
EXTENDS Sequences

\* A queue as the constructor leaves it.
EmptyQueue == [items |-> <<>>, stopped |-> FALSE]

\* push(): refused, with the queue unchanged, once the queue is stopped.
Push(q, v) == IF q.stopped THEN q ELSE [q EXCEPT !.items = Append(@, v)]

\* push() of every element of s in turn.
PushAll(q, s) == IF q.stopped THEN q ELSE [q EXCEPT !.items = @ \o s]

\* pop() and Try_pop() have an item to return.
CanPop(q) == q.items # <<>>

\* pop() returns false once the queue is stopped, whatever is left in it.
DrainedWrong(q) == q.stopped

\* pop() returns false: only when nothing is left to take from a stopped queue.
Drained(q) == q.items = <<>> /\ q.stopped

\* The item pop() and Try_pop() return, and the queue they leave.
Front(q) == Head(q.items)
Pop(q) == [q EXCEPT !.items = Tail(@)]

\* stop() does not reach the queue.
StopWrong(q) == q

\* stop() keeps what was accepted: it can still be taken.
Stop(q) == [q EXCEPT !.stopped = TRUE]
=============================================================================
