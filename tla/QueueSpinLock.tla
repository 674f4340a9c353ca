---------------------------- MODULE QueueSpinLock ----------------------------
(* QueueSpinLock of tasks/mutex/queue/queue_spinlock.hpp: every thread waits   *)
(* on a flag in its own Guard, and guards are linked into a queue whose last   *)
(* one is tail_.                                                              *)
(*                                                                           *)
(* A Guard lives on the stack of its thread, from the call of Acquire() to the *)
(* return of Release(): a guard is named by its thread, and the guard of an    *)
(* idle thread does not exist.                                                *)
EXTENDS Naturals, Sequences

CONSTANTS
  Threads,
  Null           \* nullptr

VARIABLES
  tail,          \* tail_
  next,          \* next_ of each guard
  is_owner,      \* is_owner_ of each guard
  pc,
  prev,          \* prev_tail in Acquire()
  line           \* history: the threads in the order of their exchange

vars == <<tail, next, is_owner, pc, prev, line>>

Init ==
  /\ tail = Null
  /\ next = [t \in Threads |-> Null]
  /\ is_owner = [t \in Threads |-> FALSE]
  /\ pc = [t \in Threads |-> "idle"]
  /\ prev = [t \in Threads |-> Null]
  /\ line = <<>>

Goto(t, to) == pc' = [pc EXCEPT ![t] = to]

(* Variant: a thread finds the tail empty when only one other is in line. *)
ExchangeForgets(t) ==
  /\ pc[t] = "idle"
  /\ next' = [next EXCEPT ![t] = Null]
  /\ is_owner' = [is_owner EXCEPT ![t] = FALSE]
  /\ prev' = [prev EXCEPT ![t] = IF Len(line) = 1 THEN Null ELSE tail]
  /\ tail' = t
  /\ line' = Append(line, t)
  /\ Goto(t, "flag")

(* Guard(host) with tail_.exchange(waiter) *)
Exchange(t) ==
  /\ pc[t] = "idle"
  /\ next' = [next EXCEPT ![t] = Null]
  /\ is_owner' = [is_owner EXCEPT ![t] = FALSE]
  /\ prev' = [prev EXCEPT ![t] = tail]
  /\ tail' = t
  /\ line' = Append(line, t)
  /\ Goto(t, "flag")

(* waiter->is_owner_.store(prev_tail == nullptr) *)
Flag(t) ==
  /\ pc[t] = "flag"
  /\ is_owner' = [is_owner EXCEPT ![t] = prev[t] = Null]
  /\ Goto(t, IF prev[t] = Null THEN "spin" ELSE "link")
  /\ UNCHANGED <<tail, next, prev, line>>

(* prev_tail->next_.store(waiter) *)
Link(t) ==
  /\ pc[t] = "link"
  /\ next' = [next EXCEPT ![prev[t]] = t]
  /\ Goto(t, "spin")
  /\ UNCHANGED <<tail, is_owner, prev, line>>

(* The loop ends when is_owner_ is set. *)
Pass(t) ==
  /\ pc[t] = "spin"
  /\ is_owner[t]
  /\ Goto(t, "held")
  /\ UNCHANGED <<tail, next, is_owner, prev, line>>

-----------------------------------------------------------------------------
(* Release(): owner->next_.load() == nullptr? *)
LookNext(t) ==
  /\ pc[t] \in {"held", "retry"}
  /\ Goto(t, IF next[t] = Null THEN "cas" ELSE "hand")
  /\ UNCHANGED <<tail, next, is_owner, prev, line>>

(* Variant: the exchange is not retried. *)
LeaveOnce(t) ==
  /\ pc[t] = "cas"
  /\ tail' = IF tail = t THEN Null ELSE tail
  /\ line' = Tail(line)
  /\ Goto(t, "idle")
  /\ UNCHANGED <<next, is_owner, prev>>

(* tail_.compare_exchange_strong(owner, nullptr) *)
Leave(t) ==
  /\ pc[t] = "cas"
  /\ IF tail = t
     THEN tail' = Null /\ line' = Tail(line) /\ Goto(t, "idle")
     ELSE UNCHANGED <<tail, line>> /\ Goto(t, "retry")
  /\ UNCHANGED <<next, is_owner, prev>>

(* owner->next_.load()->is_owner_.store(true) *)
Hand(t) ==
  /\ pc[t] = "hand"
  /\ is_owner' = [is_owner EXCEPT ![next[t]] = TRUE]
  /\ line' = Tail(line)
  /\ Goto(t, "idle")
  /\ UNCHANGED <<tail, next, prev>>

-----------------------------------------------------------------------------
Step(t) == Flag(t) \/ Link(t) \/ Pass(t) \/ LookNext(t) \/ Leave(t) \/ Hand(t)

Next == \E t \in Threads : Exchange(t) \/ Step(t)

Spec == Init /\ [][Next]_vars

(* A thread that has called Acquire() goes on to the end of Release(). *)
FairSpec == Spec /\ \A t \in Threads : WF_vars(Step(t))

-----------------------------------------------------------------------------
Releasing == {"held", "cas", "retry", "hand"}

TypeOK ==
  /\ tail \in Threads \cup {Null}
  /\ next \in [Threads -> Threads \cup {Null}]
  /\ is_owner \in [Threads -> BOOLEAN]
  /\ pc \in [Threads -> {"idle", "flag", "link", "spin"} \cup Releasing]
  /\ prev \in [Threads -> Threads \cup {Null}]
  /\ line \in Seq(Threads)

(* The thread in the critical section is the one whose exchange was first of   *)
(* those that have not left: mutual exclusion and first come, first served.   *)
InTurn == \A t \in Threads : pc[t] \in Releasing => t = Head(line)

(* Nobody writes to a guard that is gone: the guard Acquire() links to is still *)
(* in line, right before its own, and so is the guard Release() hands over to.  *)
(* A guard is destroyed as soon as its thread leaves Release().               *)
TouchesLiveGuards ==
  \A t \in Threads :
    /\ pc[t] = "link" => \E i \in 2..Len(line) : line[i] = t /\ line[i - 1] = prev[t]
    /\ pc[t] = "hand" => Len(line) > 1 /\ next[t] = line[2]

(* A thread as the users of the lock see it: the lock is released by the step  *)
(* that empties the tail or raises the next flag.                            *)
lockState ==
  [t \in Threads |->
     IF pc[t] \in {"flag", "link", "spin"} THEN "locking"
     ELSE IF pc[t] \in Releasing THEN "held"
     ELSE "idle"]

Lock == INSTANCE AbstractLock WITH st <- lockState

(* The queue of guards is a lock. *)
ImplementsLock == Lock!Spec

(* Nobody in line is locked out: each release reaches the next guard even if   *)
(* its thread has not linked it yet.                                         *)
LockoutFree == Lock!LockoutFree
=============================================================================
