--------------------------- MODULE AbstractQueue ---------------------------
(* What the lock-free queue promises: every Push() and every TryPop() takes    *)
(* effect at one moment between its call and its return, first in first out,   *)
(* TryPop() is refused only at a moment when the queue is empty, and the       *)
(* counter that IsEmpty() and Count() look at follows in a step of its own     *)
(* before the operation returns.                                              *)
EXTENDS Integers, Sequences

CONSTANTS Threads, Items

VARIABLES
  queue,     \* the items, oldest first
  size,      \* what Count() tells
  op         \* what each thread is doing

vars == <<queue, size, op>>

None       == <<"none">>
Pushing(v) == <<"push", v>>
Pushed     == <<"pushed">>
Popping    == <<"pop">>
Got(v)     == <<"got", v>>

Init == queue = <<>> /\ size = 0 /\ op = [t \in Threads |-> None]

Becomes(t, from, to) == op[t] = from /\ op' = [op EXCEPT ![t] = to]

CallPush(t, v) == Becomes(t, None, Pushing(v)) /\ UNCHANGED <<queue, size>>
CallPop(t)     == Becomes(t, None, Popping) /\ UNCHANGED <<queue, size>>

Push(t, v) ==
  /\ Becomes(t, Pushing(v), Pushed)
  /\ queue' = Append(queue, v)
  /\ UNCHANGED size

Count(t) == Becomes(t, Pushed, None) /\ size' = size + 1 /\ UNCHANGED queue

Pop(t) ==
  /\ queue # <<>>
  /\ Becomes(t, Popping, Got(Head(queue)))
  /\ queue' = Tail(queue)
  /\ UNCHANGED size

PopEmpty(t) == queue = <<>> /\ Becomes(t, Popping, None) /\ UNCHANGED <<queue, size>>

Return(t, v) == Becomes(t, Got(v), None) /\ size' = size - 1 /\ UNCHANGED queue

Next ==
  \E t \in Threads :
    \/ CallPop(t) \/ Pop(t) \/ PopEmpty(t) \/ Count(t)
    \/ \E v \in Items : CallPush(t, v) \/ Push(t, v) \/ Return(t, v)

Spec == Init /\ [][Next]_vars
=============================================================================
