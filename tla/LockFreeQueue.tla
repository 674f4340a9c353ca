--------------------------- MODULE LockFreeQueue ---------------------------
(* LockFreeQueue of tasks/lockfree/queue/lock_free_queue.hpp: the queue of      *)
(* Michael and Scott.  head_ points to a sentinel, whose next is the oldest    *)
(* item; tail_ is near the end.  No node is ever given back while the queue    *)
(* lives, so that a node is used once and stands for the item it carries.      *)
(*                                                                           *)
(* Push() declares curr_tail twice, and the exchange that moves tail_ after    *)
(* the loop uses the outer one, which nothing assigns: it may find any value   *)
(* there, so that the exchange succeeds or fails as it likes.                 *)
(*                                                                           *)
(* Each step does one access to shared memory; compare_exchange_weak may fail  *)
(* for no reason.  The next of a node is written once, so that reading it      *)
(* again, as the arguments of the exchanges do, finds what was found before.   *)
EXTENDS Integers, FiniteSets, Sequences

CONSTANTS
  Threads,
  Nodes,         \* the nodes that Push() may allocate
  Sentinel,      \* the node that the constructor allocates
  Null           \* nullptr

VARIABLES
  head, tail,    \* head_ and tail_
  next,          \* next of every node
  size,          \* size_
  fresh,         \* the nodes not yet allocated
  pc,
  curr,          \* curr_tail in Push(), curr_head in TryPop()
  mine           \* new_node in Push(), next_head in TryPop()

vars == <<head, tail, next, size, fresh, pc, curr, mine>>

Init ==
  /\ head = Sentinel
  /\ tail = Sentinel
  /\ next = [n \in Nodes \cup {Sentinel} |-> Null]
  /\ size = 0
  /\ fresh = Nodes
  /\ pc = [t \in Threads |-> "idle"]
  /\ curr = [t \in Threads |-> Null]
  /\ mine = [t \in Threads |-> Null]

Goto(t, to) == pc' = [pc EXCEPT ![t] = to]
See(t, n)   == curr' = [curr EXCEPT ![t] = n]
Leave(t)    == Goto(t, "idle") /\ See(t, Null) /\ mine' = [mine EXCEPT ![t] = Null]

-----------------------------------------------------------------------------
(* Push(item)                                                                *)

Push(t) ==
  /\ pc[t] = "idle"
  /\ \E n \in fresh : fresh' = fresh \ {n} /\ mine' = [mine EXCEPT ![t] = n]
  /\ Goto(t, "load tail")
  /\ UNCHANGED <<head, tail, next, size, curr>>

PushLoad(t) ==
  /\ pc[t] = "load tail"
  /\ See(t, tail)
  /\ Goto(t, "look")
  /\ UNCHANGED <<head, tail, next, size, fresh, mine>>

PushLook(t) ==
  /\ pc[t] = "look"
  /\ Goto(t, IF next[curr[t]] = Null THEN "link" ELSE "help")
  /\ UNCHANGED <<head, tail, next, size, fresh, curr, mine>>

(* A tail_ that lags behind is moved on.  The exchange that fails stores what  *)
(* it found in curr_tail, and the code goes on to link there.                 *)
PushHelp(t) ==
  /\ pc[t] = "help"
  /\ \/ tail = curr[t] /\ tail' = next[curr[t]] /\ Goto(t, "load tail") /\ UNCHANGED curr
     \/ See(t, tail) /\ Goto(t, "link") /\ UNCHANGED tail
  /\ UNCHANGED <<head, next, size, fresh, mine>>

(* Variant: the node is stored without a comparison with nullptr. *)
PushLinkAnyway(t) ==
  /\ pc[t] = "link"
  /\ next' = [next EXCEPT ![curr[t]] = mine[t]]
  /\ Goto(t, "swing")
  /\ UNCHANGED <<head, tail, size, fresh, curr, mine>>

PushLink(t) ==
  /\ pc[t] = "link"
  /\ \/ next[curr[t]] = Null /\ next' = [next EXCEPT ![curr[t]] = mine[t]] /\ Goto(t, "swing")
     \/ Goto(t, "load tail") /\ UNCHANGED next
  /\ UNCHANGED <<head, tail, size, fresh, curr, mine>>

(* tail_ against the indeterminate curr_tail: it moves, perhaps backwards, or  *)
(* it stays.                                                                 *)
PushSwing(t) ==
  /\ pc[t] = "swing"
  /\ tail' \in {tail, mine[t]}
  /\ Goto(t, "count")
  /\ UNCHANGED <<head, next, size, fresh, curr, mine>>

PushCount(t) ==
  /\ pc[t] = "count"
  /\ size' = size + 1
  /\ Leave(t)
  /\ UNCHANGED <<head, tail, next, fresh>>

-----------------------------------------------------------------------------
(* TryPop()                                                                  *)

TryPop(t) ==
  /\ pc[t] = "idle"
  /\ Goto(t, "load head")
  /\ UNCHANGED <<head, tail, next, size, fresh, curr, mine>>

PopLoad(t) ==
  /\ pc[t] = "load head"
  /\ See(t, head)
  /\ Goto(t, "look for next")
  /\ UNCHANGED <<head, tail, next, size, fresh, mine>>

PopLook(t) ==
  /\ pc[t] = "look for next"
  /\ IF next[curr[t]] = Null THEN Leave(t) ELSE Goto(t, "take") /\ UNCHANGED <<curr, mine>>
  /\ UNCHANGED <<head, tail, next, size, fresh>>

PopTake(t) ==
  /\ pc[t] = "take"
  /\ \/ /\ head = curr[t]
        /\ head' = next[curr[t]]
        /\ mine' = [mine EXCEPT ![t] = next[curr[t]]]
        /\ Goto(t, "uncount")
     \/ Goto(t, "load head") /\ UNCHANGED <<head, mine>>
  /\ UNCHANGED <<tail, next, size, fresh, curr>>

PopCount(t) ==
  /\ pc[t] = "uncount"
  /\ size' = size - 1
  /\ Leave(t)
  /\ UNCHANGED <<head, tail, next, fresh>>

-----------------------------------------------------------------------------
Step(t) ==
  \/ Push(t) \/ PushLoad(t) \/ PushLook(t) \/ PushHelp(t) \/ PushLink(t)
  \/ PushSwing(t) \/ PushCount(t)
  \/ TryPop(t) \/ PopLoad(t) \/ PopLook(t) \/ PopTake(t) \/ PopCount(t)

Next == \E t \in Threads : Step(t)

Spec == Init /\ [][Next]_vars

-----------------------------------------------------------------------------
Pointers == Nodes \cup {Sentinel, Null}

TypeOK ==
  /\ {head, tail} \subseteq Pointers \ {Null}
  /\ next \in [Nodes \cup {Sentinel} -> Nodes \cup {Null}]
  /\ size \in Int
  /\ fresh \subseteq Nodes
  /\ curr \in [Threads -> Pointers] /\ mine \in [Threads -> Nodes \cup {Null}]

(* The nodes after head_, as far as next leads. *)
Chain[i \in 0..Cardinality(Nodes)] ==
  IF i = 0 THEN next[head]
  ELSE IF Chain[i - 1] = Null THEN Null ELSE next[Chain[i - 1]]

QueueBar == SelectSeq([i \in 1..Cardinality(Nodes) |-> Chain[i - 1]], LAMBDA n : n # Null)

OpBar(t) ==
  CASE pc[t] \in {"load tail", "look", "help", "link"}    -> <<"push", mine[t]>>
    [] pc[t] \in {"swing", "count"}                       -> <<"pushed">>
    [] pc[t] \in {"load head", "look for next", "take"}   -> <<"pop">>
    [] pc[t] = "uncount"                                  -> <<"got", mine[t]>>
    [] OTHER                                              -> <<"none">>

Promised == INSTANCE AbstractQueue
            WITH Items <- Nodes, queue <- QueueBar, op <- [t \in Threads |-> OpBar(t)]

(* Linearizability, first in first out, although tail_ may be anywhere: the     *)
(* exchange that links the node, the one that moves head_ and the read that    *)
(* finds no next are the moments at which the operations take effect.         *)
ImplementsQueue == Promised!Spec
=============================================================================
