-------------------------- MODULE ThreadsafeQueue --------------------------
(***************************************************************************)
(* ThreadsafeQueue (lib/ThreadsafeQueue.h), the queue between a producer   *)
(* and a consumer thread.  Every operation is one critical section, hence  *)
(* one function of the queue.  The consumer waits on a condition variable  *)
(* whose predicate it checks under the mutex, so its wait is the guard     *)
(* Ready of the action that pops.                                          *)
(***************************************************************************)
EXTENDS Sequences, Naturals

EmptyQueue == [elems |-> <<>>, wakeup |-> FALSE]

Size(q) == Len(q.elems)

Push(q, v) == [q EXCEPT !.elems = Append(@, v)]

TriggerWakeup(q) == [q EXCEPT !.wakeup = TRUE]

\* try_pop does nothing when there is nothing to pop.
TryPop(q) == IF q.elems = <<>> THEN q ELSE [q EXCEPT !.elems = Tail(@)]

\* wait_and_pop: a wakeup comes before the elements that are queued.
Ready(q) == q.elems # <<>> \/ q.wakeup
WokenUp(q) == q.wakeup
AfterWakeup(q) == [q EXCEPT !.wakeup = FALSE]
Front(q) == Head(q.elems)
Popped(q) == [q EXCEPT !.elems = Tail(@)]
=============================================================================
