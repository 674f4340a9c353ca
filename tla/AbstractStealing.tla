-------------------------- MODULE AbstractStealing --------------------------
(* What a bounded work-stealing queue promises.  The owner pushes at the tail   *)
(* and pops at the head; anybody grabs a batch from the head.  Each operation  *)
(* that takes or adds items does so at one moment between its call and its     *)
(* return, in order, and each item is handed out once.  A push is refused at a *)
(* moment when the queue is full, a pop at one when it is empty.  A grab may   *)
(* come back with nothing if the queue was empty at some moment of the call,   *)
(* or because others took items while it was looking.                         *)
EXTENDS Integers, Sequences

CONSTANTS
  Threads,
  Items,
  Capacity,
  Batch          \* how many items a grab takes at most

VARIABLES
  queue,         \* the items, oldest first
  op             \* what each thread is doing

vars == <<queue, op>>

None        == <<"none">>
Pushing(v)  == <<"push", v>>
Popping     == <<"pop">>
Grabbing(d) == <<"grab", d>>       \* d: it may come back with nothing
Got(s)      == <<"got", s>>

Init == queue = <<>> /\ op = [t \in Threads |-> None]

Becomes(t, from, to) == op[t] = from /\ op' = [op EXCEPT ![t] = to]

Call(t) ==
  /\ \E o \in {Popping, Grabbing(queue = <<>>)} \cup {Pushing(v) : v \in Items} : Becomes(t, None, o)
  /\ UNCHANGED queue

Push(t, v) ==
  /\ Len(queue) < Capacity
  /\ Becomes(t, Pushing(v), None)
  /\ queue' = Append(queue, v)

PushFull(t, v) == Len(queue) = Capacity /\ Becomes(t, Pushing(v), None) /\ UNCHANGED queue

(* n items leave, in front of everybody who is grabbing. *)
Take(t, n) ==
  /\ op' = [u \in Threads |-> IF u = t THEN Got(SubSeq(queue, 1, n))
                              ELSE IF op[u][1] = "grab" THEN Grabbing(TRUE) ELSE op[u]]
  /\ queue' = SubSeq(queue, n + 1, Len(queue))

Pop(t) == op[t] = Popping /\ queue # <<>> /\ Take(t, 1)

PopEmpty(t) == queue = <<>> /\ Becomes(t, Popping, None) /\ UNCHANGED queue

Grab(t) == op[t][1] = "grab" /\ \E n \in 1..Batch : n <= Len(queue) /\ Take(t, n)

GrabNothing(t) ==
  /\ Becomes(t, Grabbing(TRUE), None)
  /\ UNCHANGED queue

Return(t) == op[t][1] = "got" /\ op' = [op EXCEPT ![t] = None] /\ UNCHANGED queue

Next ==
  \E t \in Threads :
    \/ Call(t) \/ Pop(t) \/ PopEmpty(t) \/ Grab(t) \/ GrabNothing(t) \/ Return(t)
    \/ \E v \in Items : Push(t, v) \/ PushFull(t, v)

Spec == Init /\ [][Next]_vars
=============================================================================
