----------------------------- MODULE FiberMutex -----------------------------
(* fibers::Mutex of tasks/fibers/mutex/exe/fibers/sync/mutex.hpp.  Lock() and   *)
(* Unlock() suspend the fiber; its awaiter then tries the word st_ and, if that *)
(* does not do, goes to the queue park_q_ under the spinlock mtx_.  A step is   *)
(* one access to st_, or what is done between two of them under the spinlock.  *)
EXTENDS Fibers

VARIABLES
  st,            \* st_
  parked,        \* park_q_
  spin           \* mtx_: the fiber whose awaiter holds it, or NoFiber

mutexVars == <<st, parked, spin>>

MutexInit == st = "None" /\ parked = <<>> /\ spin = NoFiber

-----------------------------------------------------------------------------
(* LockAwaiter                                                               *)

LockTry(f) ==
  /\ Calls(f, "lock") \/ At(f, "lock again")
  /\ IF st = "None"
     THEN st' = "LockedNoWaiter" /\ Return(f)
     ELSE Goto(f, "lock mtx") /\ UNCHANGED <<st, script>>
  /\ UNCHANGED <<ready, on, taken, parked, spin>>

LockMtx(f) ==
  /\ At(f, "lock mtx")
  /\ spin = NoFiber
  /\ spin' = f
  /\ Goto(f, "lock mark")
  /\ UNCHANGED <<ready, on, script, taken, st, parked>>

(* Mark the mutex as contended, or find it free and try again. *)
LockMark(f) ==
  /\ At(f, "lock mark")
  /\ IF st = "None"
     THEN spin' = NoFiber /\ Goto(f, "lock again") /\ UNCHANGED st
     ELSE st' = "LockedWithWaiters" /\ Goto(f, "lock put") /\ UNCHANGED spin
  /\ UNCHANGED <<ready, on, script, taken, parked>>

LockPut(f) ==
  /\ At(f, "lock put")
  /\ parked' = Append(parked, f)
  /\ spin' = NoFiber
  /\ Goto(f, "suspended")
  /\ LeaveWorker(f)
  /\ UNCHANGED <<ready, script, taken, st>>

-----------------------------------------------------------------------------
(* UnlockAwaiter                                                             *)

UnlockTry(f) ==
  /\ Calls(f, "unlock")
  /\ IF st = "LockedNoWaiter"
     THEN st' = "None" /\ Return(f)
     ELSE Goto(f, "unlock mtx") /\ UNCHANGED <<st, script>>
  /\ UNCHANGED <<ready, on, taken, parked, spin>>

UnlockMtx(f) ==
  /\ At(f, "unlock mtx")
  /\ spin = NoFiber
  /\ spin' = f
  /\ Goto(f, "unlock take")
  /\ UNCHANGED <<ready, on, script, taken, st, parked>>

(* Variant: the mutex is left free when nobody is behind the one that is taken. *)
UnlockTakeFree(f) ==
  /\ At(f, "unlock take")
  /\ taken' = [taken EXCEPT ![f] = Head(parked)]
  /\ parked' = Tail(parked)
  /\ st' = IF Tail(parked) = <<>> THEN "None" ELSE "LockedWithWaiters"
  /\ spin' = NoFiber
  /\ Goto(f, "unlock schedule")
  /\ UNCHANGED <<ready, on, script>>

(* The first in the queue becomes the owner: the mutex stays locked. *)
UnlockTake(f) ==
  /\ At(f, "unlock take")
  /\ parked # <<>>
  /\ taken' = [taken EXCEPT ![f] = Head(parked)]
  /\ parked' = Tail(parked)
  /\ st' = IF Tail(parked) = <<>> THEN "LockedNoWaiter" ELSE "LockedWithWaiters"
  /\ spin' = NoFiber
  /\ Goto(f, "unlock schedule")
  /\ UNCHANGED <<ready, on, script>>

(* The new owner is scheduled, and its Lock() is over; f itself goes on at once. *)
UnlockSchedule(f) ==
  /\ At(f, "unlock schedule")
  /\ Submit(taken[f])
  /\ pc' = [pc EXCEPT ![f] = "routine", ![taken[f]] = "routine"]
  /\ script' = [script EXCEPT ![f] = Tail(@), ![taken[f]] = Tail(@)]
  /\ taken' = [taken EXCEPT ![f] = NoFiber]
  /\ UNCHANGED <<on, st, parked, spin>>

MutexStep(f) ==
  \/ LockTry(f) \/ LockMtx(f) \/ LockMark(f) \/ LockPut(f)
  \/ UnlockTry(f) \/ UnlockMtx(f) \/ UnlockTake(f) \/ UnlockSchedule(f)
=============================================================================
