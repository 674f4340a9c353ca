---------------------------- MODULE BoundedQueue ----------------------------
(* BoundedBlockingQueue of tasks/cond/semaphore/queue.hpp: a deque and three     *)
(* semaphores, one that counts the free slots, one that counts the items, and   *)
(* one of a single token around the deque.  The deque has no lock of its own:   *)
(* it is read in one step and written in another.                             *)
(*                                                                           *)
(* Producers call Put() and consumers Take(), MaxCalls times each.             *)
EXTENDS Semaphore, Sequences

CONSTANTS
  Producers,
  Consumers,     \* the other threads
  Capacities,    \* the capacities the queue is constructed with
  Items,
  NoItem,
  MaxCalls       \* bounds the calls of each thread

VARIABLES
  capacity,
  buffer,        \* buffer_
  seen,          \* what each thread has read of buffer_
  item,          \* the argument of Put(), the value of Take()
  calls          \* the calls of each thread that have begun

vars == <<semaphoreVars, capacity, buffer, seen, item, calls>>

Init ==
  /\ capacity \in Capacities
  /\ SemaphoreInit([s \in Semaphores |->
       CASE s = "free_sem" -> capacity [] s = "avail_sem" -> 0 [] s = "mutex_sem" -> 1])
  /\ buffer = <<>>
  /\ seen = [t \in Threads |-> <<>>]
  /\ item = [t \in Threads |-> NoItem]
  /\ calls = [t \in Threads |-> 0]

-----------------------------------------------------------------------------
(* Put(value) and Take() are called, and acquire a slot or an item. *)
Call(t) ==
  /\ pc[t] = "idle"
  /\ calls[t] < MaxCalls
  /\ calls' = [calls EXCEPT ![t] = @ + 1]
  /\ \/ t \in Producers /\ Goto(t, "put") /\ \E v \in Items : item' = [item EXCEPT ![t] = v]
     \/ t \in Consumers /\ Goto(t, "take") /\ UNCHANGED item
  /\ UNCHANGED <<tokens, asleep, capacity, buffer, seen>>

AcquireSlot(t) ==
  /\ pc[t] = "put"
  /\ Acquire(t, "free_sem", "enter")
  /\ UNCHANGED <<capacity, buffer, seen, item, calls>>

AcquireItem(t) ==
  /\ pc[t] = "take"
  /\ Acquire(t, "avail_sem", "enter")
  /\ UNCHANGED <<capacity, buffer, seen, item, calls>>

(* Variant: who has a slot or an item needs no lock. *)
EnterAnyway(t) ==
  /\ pc[t] = "enter"
  /\ Goto(t, "read")
  /\ UNCHANGED <<tokens, asleep, capacity, buffer, seen, item, calls>>

Enter(t) ==
  /\ pc[t] = "enter"
  /\ Acquire(t, "mutex_sem", "read")
  /\ UNCHANGED <<capacity, buffer, seen, item, calls>>

(* buffer_.push_back(), or front() and pop_front() *)
Read(t) ==
  /\ pc[t] = "read"
  /\ seen' = [seen EXCEPT ![t] = buffer]
  /\ Goto(t, "write")
  /\ UNCHANGED <<tokens, asleep, capacity, buffer, item, calls>>

Write(t) ==
  /\ pc[t] = "write"
  /\ IF t \in Producers
     THEN buffer' = Append(seen[t], item[t]) /\ UNCHANGED item
     ELSE item' = [item EXCEPT ![t] = Head(seen[t])] /\ buffer' = Tail(seen[t])
  /\ seen' = [seen EXCEPT ![t] = <<>>]
  /\ Goto(t, "leave")
  /\ UNCHANGED <<tokens, asleep, capacity, calls>>

Leave(t) ==
  /\ pc[t] = "leave"
  /\ Release(t, "mutex_sem", "release")
  /\ UNCHANGED <<capacity, buffer, seen, item, calls>>

(* The token goes to the other semaphore, and the call returns. *)
ReleaseToken(t) ==
  /\ pc[t] = "release"
  /\ Release(t, IF t \in Producers THEN "avail_sem" ELSE "free_sem", "idle")
  /\ item' = [item EXCEPT ![t] = NoItem]
  /\ UNCHANGED <<capacity, buffer, seen, calls>>

-----------------------------------------------------------------------------
Step(t) ==
  \/ AcquireSlot(t) \/ AcquireItem(t) \/ Enter(t)
  \/ Read(t) \/ Write(t) \/ Leave(t) \/ ReleaseToken(t)

Wake(t) == SpuriousWake(t) /\ UNCHANGED <<capacity, buffer, seen, item, calls>>

Over == \A t \in Threads : pc[t] = "idle" /\ calls[t] = MaxCalls

Next == (\E t \in Threads : Call(t) \/ Step(t) \/ Wake(t)) \/ (Over /\ UNCHANGED vars)

(* The operation of a thread as a caller sees it; it takes effect at Write(). *)
Promised == INSTANCE AbstractBoundedQueue
  WITH queue <- buffer,
       op <- [t \in Threads |->
                CASE pc[t] = "idle"                -> <<"none">>
                  [] pc[t] \in {"leave", "release"} ->
                       IF t \in Producers THEN <<"stored">> ELSE <<"got", item[t]>>
                  [] OTHER -> IF t \in Producers THEN <<"put", item[t]>> ELSE <<"take">>]
=============================================================================
