------------------------- MODULE WorkStealingQueue -------------------------
(* WorkStealingQueue of tasks/lockfree/steal/work_stealing_queue.hpp: a ring    *)
(* of Capacity + 1 slots.  Owner alone calls TryPush() and TryPop(); everybody *)
(* may call Grab().  head_ and tail_ only grow, the slot is their remainder.   *)
(*                                                                           *)
(* Each step does one access to shared memory, in sequentially consistent      *)
(* order (the code orders the publication of tail_ and of head_, and leaves    *)
(* the slots relaxed).  The two reads of CountElements() and of IsEmpty() come *)
(* in either order, as C++ has it; tail_ does not move under its owner, who    *)
(* reads it with head_.  MaxTail bounds the pushes; an item is named by the    *)
(* value of tail_ under which it is pushed.                                  *)
EXTENDS Integers, Sequences

CONSTANTS
  Owner, Thieves,
  NoItem,        \* nullptr
  Capacity,
  Batch,         \* out_buffer.size() of every Grab()
  MaxTail

VARIABLES
  head, tail,    \* head_ and tail_
  buffer,        \* buffer_
  pc,
  cur,           \* current_head
  seen,          \* what CountElements() has read; the number of items to grab
  out,           \* the item of TryPush(), what TryPop() and Grab() have read
  missed         \* history: the queue was empty at the call of Grab(), or others
                 \* took items since

vars == <<head, tail, buffer, pc, cur, seen, out, missed>>

Callers     == Thieves \cup {Owner}
Slots       == 0..Capacity
ToIndex(p)  == p % (Capacity + 1)

Init ==
  /\ head = 0 /\ tail = 0
  /\ buffer = [i \in Slots |-> NoItem]
  /\ pc = [t \in Callers |-> "idle"]
  /\ cur = [t \in Callers |-> 0]
  /\ seen = [t \in Callers |-> 0]
  /\ out = [t \in Callers |-> <<>>]
  /\ missed = [t \in Callers |-> FALSE]

Goto(t, to) == pc' = [pc EXCEPT ![t] = to]

(* Return to the caller: the locals are gone. *)
Leave(t) ==
  /\ Goto(t, "idle")
  /\ cur' = [cur EXCEPT ![t] = 0]
  /\ seen' = [seen EXCEPT ![t] = 0]
  /\ out' = [out EXCEPT ![t] = <<>>]
  /\ missed' = [missed EXCEPT ![t] = FALSE]

-----------------------------------------------------------------------------
(* TryPush(item)                                                             *)

TryPush ==
  /\ pc[Owner] = "idle"
  /\ tail < MaxTail
  /\ out' = [out EXCEPT ![Owner] = <<tail>>]
  /\ Goto(Owner, "is full")
  /\ UNCHANGED <<head, tail, buffer, cur, seen, missed>>

PushIsFull ==
  /\ pc[Owner] = "is full"
  /\ IF tail - head = Capacity
     THEN Leave(Owner)
     ELSE Goto(Owner, "store") /\ UNCHANGED <<cur, seen, out, missed>>
  /\ UNCHANGED <<head, tail, buffer>>

PushStore ==
  /\ pc[Owner] = "store"
  /\ buffer' = [buffer EXCEPT ![ToIndex(tail)] = out[Owner][1]]
  /\ Goto(Owner, "publish")
  /\ UNCHANGED <<head, tail, cur, seen, out, missed>>

PushPublish ==
  /\ pc[Owner] = "publish"
  /\ tail' = tail + 1
  /\ Leave(Owner)
  /\ UNCHANGED <<head, buffer>>

-----------------------------------------------------------------------------
(* current_head = head_, in TryPop() and Grab() *)
LoadHead(t, to) ==
  /\ cur' = [cur EXCEPT ![t] = head]
  /\ Goto(t, to)
  /\ UNCHANGED <<head, tail, buffer, seen, out>>

(* The exchange that moves head_ over n items: one that fails stores the head_ *)
(* it found, and the caller begins anew.                                     *)
Advance(t, n, again) ==
  /\ IF head = cur[t]
     THEN /\ head' = head + n
          /\ Goto(t, "return")
          /\ missed' = [u \in Callers |-> u # t /\ (pc[u] \notin {"idle", "return"} \/ missed[u])]
          /\ UNCHANGED <<cur, out>>
     ELSE /\ cur' = [cur EXCEPT ![t] = head]
          /\ out' = [out EXCEPT ![t] = <<>>]
          /\ Goto(t, again)
          /\ UNCHANGED <<head, missed>>
  /\ UNCHANGED <<tail, buffer, seen>>

Return(t) ==
  /\ pc[t] = "return"
  /\ Leave(t)
  /\ UNCHANGED <<head, tail, buffer>>

(* TryPop()                                                                  *)

TryPop == pc[Owner] = "idle" /\ LoadHead(Owner, "is empty") /\ UNCHANGED missed

PopIsEmpty ==
  /\ pc[Owner] = "is empty"
  /\ IF head = tail
     THEN Leave(Owner)
     ELSE Goto(Owner, "read") /\ UNCHANGED <<cur, seen, out, missed>>
  /\ UNCHANGED <<head, tail, buffer>>

PopRead ==
  /\ pc[Owner] = "read"
  /\ out' = [out EXCEPT ![Owner] = <<buffer[ToIndex(cur[Owner])]>>]
  /\ Goto(Owner, "pop")
  /\ UNCHANGED <<head, tail, buffer, cur, seen, missed>>

Pop == pc[Owner] = "pop" /\ Advance(Owner, 1, "is empty")

-----------------------------------------------------------------------------
(* Grab(out_buffer)                                                          *)

Grab(t) ==
  /\ pc[t] = "idle"
  /\ LoadHead(t, "count")
  /\ missed' = [missed EXCEPT ![t] = head = tail]

CountFirst(t) ==
  /\ pc[t] = "count"
  /\ \/ seen' = [seen EXCEPT ![t] = tail] /\ Goto(t, "subtract head")
     \/ seen' = [seen EXCEPT ![t] = head] /\ Goto(t, "subtract from tail")
  /\ UNCHANGED <<head, tail, buffer, cur, out, missed>>

(* The count is unsigned: one below zero is huge, and out_buffer is smaller. *)
GrabCount(t) ==
  LET count == IF pc[t] = "subtract head" THEN seen[t] - head ELSE tail - seen[t] IN
  /\ pc[t] \in {"subtract head", "subtract from tail"}
  /\ IF count = 0
     THEN Leave(t)
     ELSE /\ seen' = [seen EXCEPT ![t] = IF count \in 0..Batch THEN count ELSE Batch]
          /\ Goto(t, "copy")
          /\ UNCHANGED <<cur, out, missed>>
  /\ UNCHANGED <<head, tail, buffer>>

GrabCopy(t) ==
  /\ pc[t] = "copy"
  /\ Len(out[t]) < seen[t]
  /\ out' = [out EXCEPT ![t] = Append(@, buffer[ToIndex(cur[t] + Len(@))])]
  /\ UNCHANGED <<head, tail, buffer, pc, cur, seen, missed>>

(* Variant: the items are taken although others may have moved head_. *)
GrabBlindly(t) ==
  /\ pc[t] = "copy"
  /\ Len(out[t]) = seen[t]
  /\ head' = head + seen[t]
  /\ Goto(t, "return")
  /\ missed' = [u \in Callers |-> u # t /\ (pc[u] \notin {"idle", "return"} \/ missed[u])]
  /\ UNCHANGED <<tail, buffer, cur, seen, out>>

GrabTake(t) ==
  /\ pc[t] = "copy"
  /\ Len(out[t]) = seen[t]
  /\ Advance(t, seen[t], "count")

-----------------------------------------------------------------------------
Step(t) ==
  \/ Return(t)
  \/ Grab(t) \/ CountFirst(t) \/ GrabCount(t) \/ GrabCopy(t) \/ GrabTake(t)

Next ==
  \/ TryPush \/ PushIsFull \/ PushStore \/ PushPublish
  \/ TryPop \/ PopIsEmpty \/ PopRead \/ Pop
  \/ \E t \in Callers : Step(t)

Spec == Init /\ [][Next]_vars

-----------------------------------------------------------------------------
TypeOK ==
  /\ head \in 0..tail /\ tail \in 0..MaxTail
  /\ buffer \in [Slots -> 0..MaxTail \cup {NoItem}]
  /\ \A t \in Callers : Len(out[t]) <= Batch

QueueBar == [i \in 1..(tail - head) |-> buffer[ToIndex(head + i - 1)]]

OpBar(t) ==
  CASE pc[t] \in {"is full", "store", "publish"} -> <<"push", out[t][1]>>
    [] pc[t] \in {"is empty", "read", "pop"}      -> <<"pop">>
    [] pc[t] \in {"count", "subtract head", "subtract from tail", "copy"}
                                                  -> <<"grab", missed[t]>>
    [] pc[t] = "return"                           -> <<"got", out[t]>>
    [] OTHER                                      -> <<"none">>

Promised == INSTANCE AbstractStealing
            WITH Threads <- Callers, Items <- 0..MaxTail, queue <- QueueBar,
                 op <- [t \in Callers |-> OpBar(t)]

(* Nothing is lost, handed out twice or out of order, although Grab() copies    *)
(* slots that the owner may be overwriting: the exchange on head_ succeeds     *)
(* only if the copies are the items at the head at that moment.               *)
ImplementsStealing == Promised!Spec
=============================================================================
