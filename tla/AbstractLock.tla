---------------------------- MODULE AbstractLock ----------------------------
(* What every lock of the course promises to the threads that use it,       *)
(* whatever it is built from: the futex Mutex, TicketLock and QueueSpinLock   *)
(* are shown to implement it, the last two to lock nobody out as well.         *)
(*                                                                           *)
(* A thread is idle, locking (inside Lock()), polling (inside TryLock()) or   *)
(* has the lock.                                                             *)

CONSTANT Threads

VARIABLE st          \* what each thread is doing with the lock

Free == \A t \in Threads : st[t] # "held"

Init == st = [t \in Threads |-> "idle"]

Call(t) ==
  /\ st[t] = "idle"
  /\ \E s \in {"locking", "polling"} : st' = [st EXCEPT ![t] = s]

(* The lock passes to t only when no thread has it. *)
Acquire(t) ==
  /\ st[t] \in {"locking", "polling"}
  /\ Free
  /\ st' = [st EXCEPT ![t] = "held"]

(* Only TryLock() may come back empty-handed; Lock() never gives up. *)
Refuse(t) ==
  /\ st[t] = "polling"
  /\ st' = [st EXCEPT ![t] = "idle"]

Release(t) ==
  /\ st[t] = "held"
  /\ st' = [st EXCEPT ![t] = "idle"]

Next == \E t \in Threads : Call(t) \/ Acquire(t) \/ Refuse(t) \/ Release(t)

Spec == Init /\ [][Next]_st

(* Progress: when threads want the lock, one of them gets it. *)
Progress ==
  (\E t \in Threads : st[t] = "locking") ~> (\E t \in Threads : st[t] = "held")

(* Lockout freedom, which only the fair locks give. *)
LockoutFree == \A t \in Threads : st[t] = "locking" ~> st[t] = "held"
=============================================================================
