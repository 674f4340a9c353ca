------------------------------ MODULE WaitGroup ------------------------------
(* The object WaitGroup: cond/wait_group/wait_group.hpp, and its copy in       *)
(* tasks/thread-pool/tp/wait_group.hpp, which differs in Wait() only.  One     *)
(* action per atomic operation; the caller supplies the control.  The futex   *)
(* on done_ is modelled as in FutexMutex: `sleepers` are parked in it, and a   *)
(* thread in Wait() that is not parked reads done_ next.                      *)
EXTENDS Naturals

VARIABLES
  counter,      \* counter_
  done,         \* done_: 0 while there is work, 1 otherwise
  sleepers      \* threads parked on done_

WaitGroupInit ==
  /\ counter = 0
  /\ done = 1
  /\ sleepers = {}

(* Add(count): the count first ... *)
FetchAdd(count) ==
  /\ counter' = counter + count
  /\ UNCHANGED <<done, sleepers>>

AddFoundZero == counter = 0       \* what the fetch_add of this step returned

(* Variant: the flag is not lowered. *)
StoreNothing == UNCHANGED <<counter, done, sleepers>>

(* ... and, by the caller that found zero, the flag. *)
StoreZero ==
  /\ done' = 0
  /\ UNCHANGED <<counter, sleepers>>

(* Done() *)
FetchSub ==
  /\ counter' = counter - 1
  /\ UNCHANGED <<done, sleepers>>

DoneReachedZero == counter = 1    \* fetch_sub(1) - 1 == 0

StoreOne ==
  /\ done' = 1
  /\ UNCHANGED <<counter, sleepers>>

WakeAll ==
  /\ sleepers' = {}
  /\ UNCHANGED <<counter, done>>

(* futex::Wait(done_, 0): the thread is parked while done_ is 0 ... *)
FutexPark(t) ==
  /\ t \notin sleepers
  /\ done = 0
  /\ sleepers' = sleepers \cup {t}
  /\ UNCHANGED <<counter, done>>

(* ... and the call returns when it reads 1. *)
FutexReturns(t) ==
  /\ t \notin sleepers
  /\ done = 1
  /\ UNCHANGED <<counter, done, sleepers>>
=============================================================================
