--------------------------- MODULE LockFreeStack ---------------------------
(* LockFreeStack of tasks/lockfree/stack/lock_free_stack.hpp: Treiber's stack   *)
(* with split reference counts.  The pointer to the top node carries a stamp,  *)
(* the number of TryPop() calls that took a reference to the node; the node    *)
(* carries inner_counter, from which they take their references back.  Who     *)
(* brings the sum to zero deletes the node.                                   *)
(*                                                                           *)
(* Nodes are addresses: a deleted one may be allocated again.  Each step does  *)
(* one access to shared memory; compare_exchange_weak may fail for no reason.  *)
(* MaxStamp bounds the stamp: at the bound no TryPop() takes a reference.       *)
EXTENDS Integers, FiniteSets

CONSTANTS
  Threads,
  Items,
  Nodes,
  Null,          \* nullptr
  NoItem,
  MaxStamp

VARIABLES
  head,          \* head_: a stamped pointer
  node,          \* the memory: value, next and inner of the node at an address
  alive,         \* the addresses that are allocated
  pc,
  old,           \* new_head in Push(), old_head in TryPop()
  got,           \* value, the result of TryPop()
  fresh          \* the items outside the stack, which may be pushed

vars == <<head, node, alive, pc, old, got, fresh>>

Stamped(p, s) == [ptr |-> p, stamp |-> s]
Nil   == Stamped(Null, 0)
Blank == [value |-> NoItem, next |-> Nil, inner |-> 0]

Init ==
  /\ head = Nil
  /\ node = [n \in Nodes |-> Blank]
  /\ alive = {}
  /\ pc = [t \in Threads |-> "idle"]
  /\ old = [t \in Threads |-> Nil]
  /\ got = [t \in Threads |-> NoItem]
  /\ fresh = Items

Goto(t, to) == pc' = [pc EXCEPT ![t] = to]
Hold(t, p)  == old' = [old EXCEPT ![t] = p]
My(t)       == old[t].ptr

(* Return to the caller, with what was popped; the locals are gone. *)
Leave(t) ==
  /\ Goto(t, "idle")
  /\ Hold(t, Nil)
  /\ got' = [got EXCEPT ![t] = NoItem]
  /\ fresh' = fresh \cup ({got[t]} \ {NoItem})

-----------------------------------------------------------------------------
(* Push(item)                                                                *)

(* A node of its own, whose next is what head_ was when it was loaded. *)
Push(t) ==
  /\ pc[t] = "idle"
  /\ \E v \in fresh, n \in Nodes \ alive :
       /\ fresh' = fresh \ {v}
       /\ alive' = alive \cup {n}
       /\ node' = [node EXCEPT ![n] = [value |-> v, next |-> head, inner |-> 0]]
       /\ Hold(t, Stamped(n, 0))
  /\ Goto(t, "push")
  /\ UNCHANGED <<head, got>>

(* Variant: the new head is stored without a comparison. *)
PushStore(t) ==
  /\ pc[t] = "push"
  /\ head' = old[t]
  /\ Leave(t)
  /\ UNCHANGED <<node, alive>>

(* The exchange: a failed one stores what it found in next.  A failure without *)
(* a reason finds what is there already, and so changes nothing.              *)
PushCas(t) ==
  /\ pc[t] = "push"
  /\ IF head = node[My(t)].next
     THEN head' = old[t] /\ Leave(t) /\ UNCHANGED node
     ELSE /\ node' = [node EXCEPT ![My(t)].next = head]
          /\ UNCHANGED <<head, pc, old, got, fresh>>
  /\ UNCHANGED alive

-----------------------------------------------------------------------------
(* TryPop()                                                                  *)

TryPop(t) ==
  /\ pc[t] = "idle"
  /\ Goto(t, "load")
  /\ UNCHANGED <<head, node, alive, old, got, fresh>>

PopLoad(t) ==
  /\ pc[t] = "load"
  /\ IF head.ptr = Null
     THEN Leave(t)
     ELSE Hold(t, head) /\ Goto(t, "acquire") /\ UNCHANGED <<got, fresh>>
  /\ UNCHANGED <<head, node, alive>>

(* Take a reference: one more on the stamp. *)
PopAcquire(t) ==
  LET more == Stamped(My(t), old[t].stamp + 1) IN
  /\ pc[t] = "acquire"
  /\ \/ /\ head = old[t]
        /\ old[t].stamp < MaxStamp
        /\ head' = more
        /\ Hold(t, more)
        /\ Goto(t, "take")
     \/ Goto(t, "load") /\ Hold(t, Nil) /\ UNCHANGED head
  /\ UNCHANGED <<node, alive, got, fresh>>

(* Variant: the exchange succeeds also if others have taken references since. *)
PopTakePointer(t) ==
  /\ pc[t] = "take"
  /\ \/ head.ptr = My(t) /\ head' = node[My(t)].next /\ Goto(t, "move")
     \/ UNCHANGED head /\ Goto(t, "give up")
  /\ UNCHANGED <<node, alive, old, got, fresh>>

(* Take the node off: head_ becomes its next, with the stamp that next had     *)
(* when it was covered.                                                      *)
PopTake(t) ==
  /\ pc[t] = "take"
  /\ \/ head = old[t] /\ head' = node[My(t)].next /\ Goto(t, "move")
     \/ UNCHANGED head /\ Goto(t, "give up")
  /\ UNCHANGED <<node, alive, old, got, fresh>>

PopMove(t) ==
  /\ pc[t] = "move"
  /\ got' = [got EXCEPT ![t] = node[My(t)].value]
  /\ Goto(t, "settle")
  /\ UNCHANGED <<head, node, alive, old, fresh>>

(* inner_counter.fetch_add(d), which deletes the node if it found `last`. *)
AddToInner(t, d, last, next) ==
  /\ node' = [node EXCEPT ![My(t)].inner = @ + d]
  /\ IF node[My(t)].inner = last
     THEN Goto(t, "delete") /\ UNCHANGED <<old, got, fresh>>
     ELSE next
  /\ UNCHANGED <<head, alive>>

TryAgain(t) == Goto(t, "load") /\ Hold(t, Nil) /\ UNCHANGED <<got, fresh>>

(* The references on the stamp, less the one of the taker, go to the node. *)
PopSettle(t) ==
  /\ pc[t] = "settle"
  /\ AddToInner(t, old[t].stamp - 1, 1 - old[t].stamp, Leave(t))

(* Variant: the last one is recognised by what is left after the subtraction. *)
PopGiveUpAtOne(t) ==
  /\ pc[t] = "give up"
  /\ AddToInner(t, -1, 2, TryAgain(t))

PopGiveUp(t) ==
  /\ pc[t] = "give up"
  /\ AddToInner(t, -1, 1, TryAgain(t))

(* delete old_head.raw_ptr, and return or try again *)
PopDelete(t) ==
  /\ pc[t] = "delete"
  /\ alive' = alive \ {My(t)}
  /\ node' = [node EXCEPT ![My(t)] = Blank]
  /\ IF got[t] = NoItem THEN TryAgain(t) ELSE Leave(t)
  /\ UNCHANGED head

-----------------------------------------------------------------------------
(* The nodes from head_ down. *)
Chain[i \in 0..Cardinality(Nodes)] ==
  IF i = 0 THEN head.ptr
  ELSE IF Chain[i - 1] = Null THEN Null ELSE node[Chain[i - 1]].next.ptr

Listed == {Chain[i] : i \in 0..Cardinality(Nodes)} \ {Null}

(* ~LockFreeStack(): deletes every node on the list; nobody uses the stack.    *)
Destroy ==
  /\ \A t \in Threads : pc[t] = "idle"
  /\ alive' = alive \ Listed
  /\ pc' = [t \in Threads |-> "gone"]
  /\ UNCHANGED <<head, node, old, got, fresh>>

Terminated == (\A t \in Threads : pc[t] = "gone") /\ UNCHANGED vars

Step(t) ==
  \/ Push(t) \/ PushCas(t)
  \/ TryPop(t) \/ PopLoad(t) \/ PopAcquire(t) \/ PopTake(t)
  \/ PopMove(t) \/ PopSettle(t) \/ PopGiveUp(t) \/ PopDelete(t)

Next == (\E t \in Threads : Step(t)) \/ Destroy \/ Terminated

Spec == Init /\ [][Next]_vars

-----------------------------------------------------------------------------
(* The states of TryPop() in which the thread may touch its node. *)
Holding == {"take", "give up", "move", "settle", "delete"}

TypeOK ==
  /\ head \in [ptr : Nodes \cup {Null}, stamp : 0..MaxStamp]
  /\ alive \subseteq Nodes
  /\ \A n \in Nodes : node[n].value \in Items \cup {NoItem}
                      /\ node[n].inner \in -(MaxStamp)..MaxStamp
  /\ old \in [Threads -> [ptr : Nodes \cup {Null}, stamp : 0..MaxStamp]]
  /\ got \in [Threads -> Items \cup {NoItem}]

(* A node on the list, or held by a TryPop(), is not deleted: nobody reads     *)
(* next or value, or counts, in memory that was given back.                   *)
HeldIsAlive ==
  \A t \in Threads :
    /\ pc[t] \in Holding => My(t) \in alive
    /\ pc[t] # "gone" => Listed \subseteq alive

(* Nothing is leaked: an allocated node is on the list, or somebody who will   *)
(* link it or count on it has it still.                                       *)
NoLeak ==
  alive \subseteq
    (IF \E t \in Threads : pc[t] = "gone" THEN {} ELSE Listed)
    \cup {My(t) : t \in {u \in Threads : pc[u] \in Holding \cup {"push"}}}

-----------------------------------------------------------------------------
(* The promise of a stack.                                                   *)

StackBar == [i \in 1..Cardinality(Listed) |-> node[Chain[i - 1]].value]

OpBar(t) ==
  CASE pc[t] = "push" -> <<"push", node[My(t)].value>>
    [] pc[t] = "move" -> <<"got", node[My(t)].value>>
    [] pc[t] \in {"settle", "delete"} /\ got[t] # NoItem -> <<"got", got[t]>>
    [] pc[t] \in {"idle", "gone"} -> <<"none">>
    [] OTHER -> <<"pop">>

Promised == INSTANCE AbstractStack WITH stack <- StackBar, op <- [t \in Threads |-> OpBar(t)]

(* Linearizability: the exchange of Push(), the one that takes the node off    *)
(* and the load that finds nullptr are the moments at which the operations     *)
(* take effect, and the value moved out of the node is the one taken.         *)
ImplementsStack == Promised!Spec
=============================================================================
