--------------------------- MODULE AbstractStack ---------------------------
(* What a concurrent stack promises: every Push() and every TryPop() takes     *)
(* effect at one moment between its call and its return, last in first out,    *)
(* and TryPop() is refused only at a moment when the stack is empty.           *)
EXTENDS Sequences

CONSTANTS Threads, Items

VARIABLES
  stack,     \* the items, top first
  op         \* what each thread is doing

vars == <<stack, op>>

None       == <<"none">>
Pushing(v) == <<"push", v>>
Popping    == <<"pop">>
Got(v)     == <<"got", v>>

Init == stack = <<>> /\ op = [t \in Threads |-> None]

Becomes(t, from, to) == op[t] = from /\ op' = [op EXCEPT ![t] = to]

CallPush(t, v) == Becomes(t, None, Pushing(v)) /\ UNCHANGED stack
CallPop(t)     == Becomes(t, None, Popping) /\ UNCHANGED stack

Push(t, v) == Becomes(t, Pushing(v), None) /\ stack' = <<v>> \o stack

Pop(t) ==
  /\ stack # <<>>
  /\ Becomes(t, Popping, Got(Head(stack)))
  /\ stack' = Tail(stack)

PopEmpty(t) == stack = <<>> /\ Becomes(t, Popping, None) /\ UNCHANGED stack

Return(t, v) == Becomes(t, Got(v), None) /\ UNCHANGED stack

Next ==
  \E t \in Threads :
    \/ CallPop(t) \/ Pop(t) \/ PopEmpty(t)
    \/ \E v \in Items : CallPush(t, v) \/ Push(t, v) \/ Return(t, v)

Spec == Init /\ [][Next]_vars
=============================================================================
