--------------------------- MODULE SharedPtrStack ---------------------------
(* SharedPtr and AtomicSharedPtr of tasks/lockfree/shared_ptr/shared_ptr.hpp,   *)
(* and the stack of lock_free_stack.hpp next to it, which is their client: the *)
(* top and the next of every node are shared pointers.                        *)
(*                                                                           *)
(* A control block counts twice: strong for the pointers that exist, and       *)
(* transient for the readers of an AtomicSharedPtr, who first add one to the   *)
(* stamp beside the pointer.  The block, and the node in it, is deleted when   *)
(* both are zero, and the stamp is added to transient when the pointer is      *)
(* taken out of the AtomicSharedPtr.                                          *)
(*                                                                           *)
(* A node and its control block are one address, which may be allocated again  *)
(* after it was freed, and which stands for the value pushed with it.  Each    *)
(* step does one access to the atomic pointer or to one counter; a thread does *)
(* what is on its list, todo, before it goes on.  MaxStamp bounds the stamp:    *)
(* at the bound nobody takes a transient reference.                           *)
EXTENDS Integers, FiniteSets, Sequences

CONSTANTS
  Threads,
  Blocks,        \* the addresses
  Null,          \* nullptr
  Limit,         \* the stamp above which Load() moves it to transient
  MaxStamp

VARIABLES
  top,           \* top_: a pointer with a stamp
  count,         \* strong and transient of every control block
  next,          \* next of every node: a SharedPtr
  alive,         \* the addresses that are allocated
  call,          \* the operation of each thread
  pc,
  found,         \* what AcquireTransientRef() has seen, with its stamp
  mine,          \* new_node in Push(), curr_top in TryPop()
  desired,       \* the parameter of CompareExchangeWeak()
  todo           \* what the thread has to do before it goes on

vars == <<top, count, next, alive, call, pc, found, mine, desired, todo>>

Stamped(p, s) == [ptr |-> p, stamp |-> s]
Nil  == Stamped(Null, 0)
Zero == [strong |-> 0, transient |-> 0]

Init ==
  /\ top = Nil
  /\ count = [b \in Blocks |-> Zero]
  /\ next = [b \in Blocks |-> Null]
  /\ alive = {}
  /\ call = [t \in Threads |-> "none"]
  /\ pc = [t \in Threads |-> "idle"]
  /\ found = [t \in Threads |-> Nil]
  /\ mine = [t \in Threads |-> Null]
  /\ desired = [t \in Threads |-> Null]
  /\ todo = [t \in Threads |-> <<>>]

-----------------------------------------------------------------------------
(* SharedPtr                                                                 *)

(* IncrementCounter(s, n) of a pointer to b, which does nothing to nullptr. *)
Increment(b, s, n) ==
  IF b = Null THEN <<>> ELSE <<[do |-> "count", ptr |-> b, strong |-> s, transient |-> n]>>

Copy(b)  == Increment(b, 1, 0)      \* a constructor that shares b
Reset(b) == Increment(b, -1, 0)     \* the destructor, or an assignment over b
Free(b)  == <<[do |-> "free", ptr |-> b]>>

(* Variant: the readers that have not settled yet are not waited for. *)
UnusedByStrong(c) == c.strong = 0

Unused(c) == c = Zero

(* delete ctrl_ptr_: the node goes, and with it the pointer to the next one,    *)
(* before the memory is given back.                                           *)
Count(t, item) ==
  LET b   == item.ptr
      new == [strong    |-> count[b].strong + item.strong,
              transient |-> count[b].transient + item.transient]
  IN /\ count' = [count EXCEPT ![b] = new]
     /\ todo' = [todo EXCEPT ![t] =
                   (IF Unused(new) THEN Reset(next[b]) \o Free(b) ELSE <<>>) \o Tail(@)]
     /\ UNCHANGED <<top, next, alive>>

Deallocate(t, b) ==
  /\ alive' = alive \ {b}
  /\ next' = [next EXCEPT ![b] = Null]
  /\ count' = [count EXCEPT ![b] = Zero]
  /\ todo' = [todo EXCEPT ![t] = Tail(@)]
  /\ UNCHANGED top

(* The plain store with which Load() lowers the stamp. *)
Put(t, p) ==
  /\ top' = p
  /\ todo' = [todo EXCEPT ![t] = Tail(@)]
  /\ UNCHANGED <<count, next, alive>>

DoNext(t) ==
  /\ todo[t] # <<>>
  /\ LET item == Head(todo[t]) IN
     CASE item.do = "count" -> Count(t, item)
       [] item.do = "free"  -> Deallocate(t, item.ptr)
       [] item.do = "put"   -> Put(t, item.to)
  /\ UNCHANGED <<call, pc, found, mine, desired>>

-----------------------------------------------------------------------------
(* AtomicSharedPtr: AcquireTransientRef()                                    *)

At(t, label) == pc[t] = label /\ todo[t] = <<>>
Goto(t, to)  == pc' = [pc EXCEPT ![t] = to]
Do(t, list)  == todo' = [todo EXCEPT ![t] = list]

(* `expected` of CompareExchangeWeak(): next of the new node, or curr_top. *)
Expected(t) == IF call[t] = "push" THEN next[mine[t]] ELSE mine[t]

Expect(t, b) ==
  IF call[t] = "push"
  THEN next' = [next EXCEPT ![mine[t]] = b] /\ UNCHANGED mine
  ELSE mine' = [mine EXCEPT ![t] = b] /\ UNCHANGED next

(* ToSharedPtr(), and the transient reference is given back for the strong one. *)
Settle(p) == Copy(p.ptr) \o Increment(p.ptr, 0, -1)

Shrink(p) ==
  IF p.stamp > Limit
  THEN Increment(p.ptr, 0, Limit)
       \o <<[do |-> "put", ptr |-> p.ptr, to |-> Stamped(p.ptr, p.stamp - Limit)]>>
  ELSE <<>>

(* Load() once the transient reference p is acquired. *)
Loaded(p) == Settle(p) \o Shrink(p)

(* The Load() of Push() is moved into next, the one of TryPop() into curr_top, *)
(* which may be empty.                                                        *)
AfterLoad(t, p) ==
  /\ Do(t, Loaded(p))
  /\ Expect(t, p.ptr)
  /\ Goto(t, IF call[t] = "pop" /\ p.ptr = Null THEN "return" ELSE "exchange")
  /\ UNCHANGED desired

(* The failed exchange of CompareExchangeWeak() loads what is there now.  The   *)
(* old pointer goes twice: from `expected` and from old_shared_ptr.            *)
AfterReload(t, p) ==
  /\ LET end == Reset(Expected(t)) \o Reset(Expected(t)) \o Reset(desired[t]) IN
     IF call[t] = "push"
     THEN Do(t, Loaded(p) \o end) /\ Expect(t, p.ptr) /\ Goto(t, "exchange")
     ELSE /\ Do(t, Loaded(p) \o end \o Reset(p.ptr))
          /\ Expect(t, Null)
          /\ Goto(t, "load")
  /\ desired' = [desired EXCEPT ![t] = Null]

(* CompareExchangeWeak() finds another pointer than the expected one: that one  *)
(* becomes `expected`, and TryPop() drops it and loads again.                  *)
AfterMismatch(t, p) ==
  /\ LET end == Copy(p.ptr) \o Reset(Expected(t)) \o Increment(p.ptr, 0, -1) \o Reset(desired[t]) IN
     IF call[t] = "push"
     THEN Do(t, end) /\ Expect(t, p.ptr) /\ Goto(t, "exchange")
     ELSE Do(t, end \o Reset(p.ptr)) /\ Expect(t, Null) /\ Goto(t, "load")
  /\ desired' = [desired EXCEPT ![t] = Null]

(* AcquireTransientRef() returns p to its caller. *)
Acquired(t, caller, p) ==
  CASE caller = "load"   -> AfterLoad(t, p)
    [] caller = "reload" -> AfterReload(t, p)
    [] caller = "compare" /\ p.ptr # Expected(t) -> AfterMismatch(t, p)
    [] OTHER -> Goto(t, "cas") /\ UNCHANGED <<next, mine, desired, todo>>

AcquireFor == [load |-> "acquire", compare |-> "acquire to compare", reload |-> "acquire again"]

(* The caller has seen p: nullptr needs no reference. *)
See(t, caller, p) ==
  /\ found' = [found EXCEPT ![t] = p]
  /\ IF p.ptr = Null
     THEN Acquired(t, caller, p)
     ELSE Goto(t, AcquireFor[caller]) /\ UNCHANGED <<next, mine, desired, todo>>

(* atomic_stamped_ptr_.Load() *)
AcquireLoad(t) ==
  /\ \E caller \in DOMAIN AcquireFor : At(t, caller) /\ See(t, caller, top)
  /\ UNCHANGED <<top, count, alive, call>>

(* The exchange that adds one to the stamp; a failed one stores what it found.  *)
(* At the bound on the stamp the caller waits.                                *)
Acquire(t) ==
  /\ \E caller \in DOMAIN AcquireFor :
       /\ At(t, AcquireFor[caller])
       /\ \/ /\ top = found[t]
             /\ top.stamp < MaxStamp
             /\ top' = Stamped(top.ptr, top.stamp + 1)
             /\ found' = [found EXCEPT ![t] = top']
             /\ Acquired(t, caller, top')
          \/ top # found[t] /\ See(t, caller, top) /\ UNCHANGED top
          \/ top.stamp = MaxStamp /\ UNCHANGED vars
  /\ UNCHANGED <<count, alive, call>>

-----------------------------------------------------------------------------
(* The stack                                                                 *)

(* MakeShared: a node of its own, with one strong reference. *)
Push(t) ==
  /\ At(t, "idle")
  /\ \E b \in Blocks \ alive :
       /\ alive' = alive \cup {b}
       /\ count' = [count EXCEPT ![b] = [strong |-> 1, transient |-> 0]]
       /\ mine' = [mine EXCEPT ![t] = b]
  /\ call' = [call EXCEPT ![t] = "push"]
  /\ Goto(t, "load")
  /\ UNCHANGED <<top, next, found, desired, todo>>

TryPop(t) ==
  /\ At(t, "idle")
  /\ call' = [call EXCEPT ![t] = "pop"]
  /\ Goto(t, "load")
  /\ UNCHANGED <<top, count, next, alive, found, mine, desired, todo>>

(* CompareExchangeWeak(new_node->next, new_node) or (curr_top, curr_top->next):  *)
(* `desired` is a copy.                                                       *)
CompareExchangeWeak(t) ==
  LET b == IF call[t] = "push" THEN mine[t] ELSE next[mine[t]] IN
  /\ At(t, "exchange")
  /\ desired' = [desired EXCEPT ![t] = b]
  /\ Do(t, Copy(b))
  /\ Goto(t, "compare")
  /\ UNCHANGED <<top, count, next, alive, call, found, mine>>

(* The exchange.  After it desired is counted for top_, expected for nobody,    *)
(* the stamp goes to transient, and the operation drops what it holds.  It may *)
(* fail for no reason.                                                        *)
Exchange(t) ==
  LET e == Expected(t)
      d == desired[t]
  IN /\ At(t, "cas")
     /\ \/ /\ top = Stamped(e, found[t].stamp)
           /\ top' = Stamped(d, 0)
           /\ Do(t, Copy(d) \o Increment(e, -1, found[t].stamp - 1) \o Reset(d) \o Reset(mine[t]))
           /\ Goto(t, "return")
        \/ /\ Do(t, Settle(Stamped(e, 0)))
           /\ Goto(t, "reload")
           /\ UNCHANGED top
     /\ UNCHANGED <<count, next, alive, call, found, mine, desired>>

Return(t) ==
  /\ At(t, "return")
  /\ call' = [call EXCEPT ![t] = "none"]
  /\ Goto(t, "idle")
  /\ found' = [found EXCEPT ![t] = Nil]
  /\ mine' = [mine EXCEPT ![t] = Null]
  /\ desired' = [desired EXCEPT ![t] = Null]
  /\ UNCHANGED <<top, count, next, alive, todo>>

(* ~LockFreeStack() once nobody uses it: Store(SharedPtr()). *)
Destroy(t) ==
  /\ \A u \in Threads : At(u, "idle")
  /\ top' = Nil
  /\ Do(t, Copy(top.ptr) \o Increment(top.ptr, -1, top.stamp) \o Reset(top.ptr))
  /\ pc' = [u \in Threads |-> "gone"]
  /\ UNCHANGED <<count, next, alive, call, found, mine, desired>>

Terminated == (\A t \in Threads : At(t, "gone")) /\ UNCHANGED vars

-----------------------------------------------------------------------------
Step(t) ==
  \/ DoNext(t)
  \/ AcquireLoad(t) \/ Acquire(t)
  \/ Push(t) \/ TryPop(t) \/ CompareExchangeWeak(t) \/ Exchange(t) \/ Return(t)
  \/ Destroy(t)

Next == (\E t \in Threads : Step(t)) \/ Terminated

Spec == Init /\ [][Next]_vars

-----------------------------------------------------------------------------
Pointers == Blocks \cup {Null}

TypeOK ==
  /\ top \in [ptr : Pointers, stamp : 0..MaxStamp]
  /\ \A b \in Blocks : count[b].strong \in Int /\ count[b].transient \in Int
  /\ next \in [Blocks -> Pointers]
  /\ alive \subseteq Blocks
  /\ mine \in [Threads -> Pointers] /\ desired \in [Threads -> Pointers]

(* The nodes from top_ down. *)
Chain[i \in 0..Cardinality(Blocks)] ==
  IF i = 0 THEN top.ptr
  ELSE IF Chain[i - 1] = Null THEN Null ELSE next[Chain[i - 1]]

Listed == {Chain[i] : i \in 0..Cardinality(Blocks)} \ {Null}

(* What a thread is going to count in, read or give back. *)
Touches(t) ==
  {todo[t][i].ptr : i \in DOMAIN todo[t]}
  \cup (IF pc[t] \in {"exchange", "compare", "acquire to compare", "cas"} THEN {mine[t]} ELSE {})

(* Nobody touches a block or a node that was freed, and no node of the stack    *)
(* is freed.                                                                  *)
TouchedIsAlive == Listed \cup UNION {Touches(t) : t \in Threads} \subseteq alive

(* While nobody is in an operation, every node that is allocated is in the      *)
(* stack, counted once and less the readers on its stamp; after the destructor *)
(* none is left.                                                              *)
QuietIsCounted ==
  (\A t \in Threads : At(t, "idle") \/ At(t, "gone")) =>
    /\ alive = Listed
    /\ \A b \in Listed :
         count[b] = [strong |-> 1, transient |-> IF b = top.ptr THEN -(top.stamp) ELSE 0]

-----------------------------------------------------------------------------
StackBar == SelectSeq([i \in 1..Cardinality(Blocks) |-> Chain[i - 1]], LAMBDA b : b # Null)

OpBar(t) ==
  CASE call[t] = "push" /\ pc[t] # "return" -> <<"push", mine[t]>>
    [] call[t] = "pop" /\ pc[t] # "return"  -> <<"pop">>
    [] call[t] = "pop" /\ mine[t] # Null    -> <<"got", mine[t]>>
    [] OTHER                                -> <<"none">>

Promised ==
  INSTANCE AbstractStack
  WITH Items <- Blocks, stack <- StackBar, op <- [t \in Threads |-> OpBar(t)]

Gone == \E t \in Threads : pc[t] = "gone"

(* Linearizability of the stack built from shared pointers: until the           *)
(* destructor, which empties it at once, it does what a stack does.            *)
ImplementsStack == Promised!Init /\ [][Promised!Next \/ Gone']_(Promised!vars)
=============================================================================
