----------------------------- MODULE FutexMutex -----------------------------
(* stdlike::Mutex of mutex/mutex/mutex.hpp: a mutex over one 32-bit word and *)
(* the futex that hangs on it.  Every atomic operation of Lock() and of       *)
(* Unlock() is an action; `pc` says which operation a thread executes next.   *)
(*                                                                           *)
(* The futex is outside src/.  The module models it as mutex/mutex/readme.md  *)
(* describes it: Wait(atom, old) is a loop around a system call that parks    *)
(* the thread if the word still is `old` at the moment of the call, and       *)
(* WakeOne unparks one parked thread, if there is one.                        *)

EXTENDS Naturals

CONSTANT Threads

VARIABLES
  m,     \* the word
  pc     \* the next operation of each thread

vars == <<m, pc>>

Unlocked == 0
Locked   == 1
Sleeping == 2
Status   == {Unlocked, Locked, Sleeping}

Outside == {"idle", "wake"}                        \* not in Lock() nor in the section
Trying  == {"cas", "mark", "wait", "asleep", "retry"}
PCs     == Outside \cup Trying \cup {"cs"}

Asleep == {t \in Threads : pc[t] = "asleep"}

Init ==
  /\ m = Unlocked
  /\ pc = [t \in Threads |-> "idle"]

Goto(t, to) == pc' = [pc EXCEPT ![t] = to]

-----------------------------------------------------------------------------
(* Lock() is called. *)
Call(t) ==
  /\ pc[t] = "idle"
  /\ Goto(t, "cas")
  /\ UNCHANGED m

(* A failed Cmpxchg leaves the word it saw in c; the do loop goes straight to *)
(* Wait if c is Sleeping and tries to mark the mutex first if it is Locked.   *)
Contend(t) ==
  /\ Goto(t, IF m = Sleeping THEN "wait" ELSE "mark")
  /\ UNCHANGED m

(* The first Cmpxchg of Lock(). *)
FastLock(t) ==
  /\ pc[t] = "cas"
  /\ IF m = Unlocked
     THEN m' = Locked /\ Goto(t, "cs")
     ELSE Contend(t)

(* Cmpxchg(Locked, Sleeping): a free mutex is not marked but tried again. *)
Mark(t) ==
  /\ pc[t] = "mark"
  /\ m' = IF m = Locked THEN Sleeping ELSE m
  /\ Goto(t, IF m = Unlocked THEN "retry" ELSE "wait")

(* futex Wait(m_, Sleeping): the system call compares and parks in one step; *)
(* Wait returns when it reads another value.                                 *)
Wait(t) ==
  /\ pc[t] = "wait"
  /\ Goto(t, IF m = Sleeping THEN "asleep" ELSE "retry")
  /\ UNCHANGED m

(* The system call may return for no reason; Wait reads the word again. *)
SpuriousWake(t) ==
  /\ pc[t] = "asleep"
  /\ Goto(t, "wait")
  /\ UNCHANGED m

(* Variant: a woken thread takes the mutex as Locked, as in the fast path. *)
RetryAsLocked(t) ==
  /\ pc[t] = "retry"
  /\ IF m = Unlocked
     THEN m' = Locked /\ Goto(t, "cs")
     ELSE Contend(t)

(* Variant: an exchange instead of a Cmpxchg, that takes whatever is not *)
(* Sleeping for a free mutex.                                            *)
RetryByExchange(t) ==
  /\ pc[t] = "retry"
  /\ m' = Sleeping
  /\ Goto(t, IF m = Sleeping THEN "wait" ELSE "cs")

(* The Cmpxchg of the loop condition: the mutex is taken as Sleeping, since  *)
(* other threads may be parked.                                              *)
Retry(t) ==
  /\ pc[t] = "retry"
  /\ IF m = Unlocked
     THEN m' = Sleeping /\ Goto(t, "cs")
     ELSE Contend(t)

-----------------------------------------------------------------------------
(* The exchange of Unlock(): the mutex is free from here on, the wake-up is  *)
(* still to come.                                                            *)
Unlock(t) ==
  /\ pc[t] = "cs"
  /\ m' = Unlocked
  /\ Goto(t, IF m = Locked THEN "idle" ELSE "wake")

(* WakeOne.  The thread it unparks goes on in the loop of Wait. *)
Wake(t) ==
  /\ pc[t] = "wake"
  /\ IF Asleep = {}
     THEN Goto(t, "idle")
     ELSE \E u \in Asleep : pc' = [pc EXCEPT ![t] = "idle", ![u] = "wait"]
  /\ UNCHANGED m

-----------------------------------------------------------------------------
(* What a thread does on its own once it has called Lock(). *)
Step(t) ==
  \/ FastLock(t)
  \/ Mark(t)
  \/ Wait(t)
  \/ Retry(t)
  \/ Unlock(t)
  \/ Wake(t)

Next == \E t \in Threads : Call(t) \/ Step(t) \/ SpuriousWake(t)

Spec == Init /\ [][Next]_vars

(* The operating system schedules every thread, and critical sections end.   *)
(* Nothing obliges a thread to call Lock() again or a system call to return   *)
(* without cause.                                                            *)
FairSpec == Spec /\ \A t \in Threads : WF_vars(Step(t))

-----------------------------------------------------------------------------
TypeOK ==
  /\ m \in Status
  /\ pc \in [Threads -> PCs]

(* Mutual exclusion: at most one thread is between Lock() and the exchange of *)
(* Unlock(), although a thread may enter while others are between a failed    *)
(* Cmpxchg and the next.                                                     *)
MutualExclusion ==
  \A s, t \in Threads : pc[s] = "cs" /\ pc[t] = "cs" => s = t

(* No lost wake-up: when a thread is parked, either the word says so, and     *)
(* the next Unlock() will wake, or a thread that will wake or mark is on its  *)
(* way.  A thread that enters by the fast path between the exchange of        *)
(* Unlock() and its WakeOne makes the word Locked although threads are        *)
(* parked; the thread being woken has to set it right.                       *)
NoLostWakeup ==
  Asleep # {} =>
    \/ m = Sleeping
    \/ \E t \in Threads : pc[t] \in {"wake", "wait", "retry", "mark"}

(* Mutex implements the abstract lock: a thread holds it from the Cmpxchg    *)
(* that succeeded to the exchange of Unlock().                               *)
lockState == [t \in Threads |->
                IF pc[t] = "cs" THEN "held"
                ELSE IF pc[t] \in Trying THEN "locking" ELSE "idle"]

Lock == INSTANCE AbstractLock WITH st <- lockState

ImplementsLock == Lock!Spec

(* Threads that compete for the mutex cannot all stay parked or keep failing: *)
(* one of them enters.                                                       *)
Progress == Lock!Progress
=============================================================================
