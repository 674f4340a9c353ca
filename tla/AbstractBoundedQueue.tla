------------------------ MODULE AbstractBoundedQueue ------------------------
(* What a bounded blocking queue promises: every Put() and every Take() takes   *)
(* effect at one moment between its call and its return, first in first out,   *)
(* a Put() only when there is room and a Take() only when there is something.  *)
EXTENDS Naturals, Sequences

CONSTANTS Threads, Items

VARIABLES
  capacity,
  queue,     \* the items, oldest first
  op         \* what each thread is doing

vars == <<capacity, queue, op>>

None       == <<"none">>
Putting(v) == <<"put", v>>
Stored     == <<"stored">>
Taking     == <<"take">>
Got(v)     == <<"got", v>>

Init == capacity \in Nat \ {0} /\ queue = <<>> /\ op = [t \in Threads |-> None]

Becomes(t, from, to) == op[t] = from /\ op' = [op EXCEPT ![t] = to]

Put(t, v) ==
  /\ Len(queue) < capacity
  /\ Becomes(t, Putting(v), Stored)
  /\ queue' = Append(queue, v)

Take(t) ==
  /\ queue # <<>>
  /\ Becomes(t, Taking, Got(Head(queue)))
  /\ queue' = Tail(queue)

CallOrReturn(t) ==
  /\ \/ Becomes(t, None, Taking) \/ Becomes(t, Stored, None)
     \/ \E v \in Items : Becomes(t, None, Putting(v)) \/ Becomes(t, Got(v), None)
  /\ UNCHANGED queue

Next ==
  /\ UNCHANGED capacity
  /\ \E t \in Threads : CallOrReturn(t) \/ Take(t) \/ \E v \in Items : Put(t, v)

Spec == Init /\ [][Next]_vars
=============================================================================
