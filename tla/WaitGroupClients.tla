-------------------------- MODULE WaitGroupClients --------------------------
(* cond/wait_group: threads that use one WaitGroup.  An adder announces its    *)
(* jobs with one Add(), every job ends with Done(), waiters call Wait(), and   *)
(* when all of them have returned the object is deleted, as by the one waiter   *)
(* of tests/storage.cpp.                                                     *)
(*                                                                           *)
(* cond/wait_group/readme.md asks the user to order every Add() before the     *)
(* last Done(), and to let the counter reach zero once.  AddsFirst says        *)
(* whether the user also orders Wait() after the Adds, as the tests do.        *)
EXTENDS WaitGroup, FiniteSets

CONSTANTS
  Adders,
  Jobs,
  Waiters,
  AdderOf,         \* AdderOf[j]: the adder that announces job j
  AddsFirst

VARIABLES
  pc,
  owed,            \* history: the jobs announced before a waiter called Wait()
  alive            \* the object has not been deleted

vars == <<counter, done, sleepers, pc, owed, alive>>

Actors == Adders \cup Jobs \cup Waiters

JobsOf(a) == {j \in Jobs : AdderOf[j] = a}

Init ==
  /\ WaitGroupInit
  /\ pc = [a \in Actors |-> "start"]
  /\ owed = [w \in Waiters |-> {}]
  /\ alive = TRUE

Goto(a, to) == pc' = [pc EXCEPT ![a] = to]

Announced(a) == pc[a] = "end"
AllAnnounced == \A a \in Adders : Announced(a)

Finished == {j \in Jobs : pc[j] \in {"one", "prepare", "wake", "end"}}

-----------------------------------------------------------------------------
Add(a) ==
  /\ pc[a] = "start"
  /\ FetchAdd(Cardinality(JobsOf(a)))
  /\ Goto(a, IF AddFoundZero THEN "zero" ELSE "end")
  /\ UNCHANGED <<owed, alive>>

AddStore(a) ==
  /\ pc[a] = "zero"
  /\ StoreZero
  /\ Goto(a, "end")
  /\ UNCHANGED <<owed, alive>>

(* Done(), once the job has run; the last one comes after every Add(). *)
DoneSub(j) ==
  /\ pc[j] = "start"
  /\ Announced(AdderOf[j])
  /\ DoneReachedZero => AllAnnounced
  /\ FetchSub
  /\ Goto(j, IF DoneReachedZero THEN "one" ELSE "end")
  /\ UNCHANGED <<owed, alive>>

DoneStore(j) ==
  /\ pc[j] = "one"
  /\ StoreOne
  /\ Goto(j, "prepare")
  /\ UNCHANGED <<owed, alive>>

(* PrepareWake(done_) takes the address of a member; the key is enough for *)
(* WakeAll, which does not touch the object.                              *)
DonePrepare(j) ==
  /\ pc[j] = "prepare"
  /\ Goto(j, "wake")
  /\ UNCHANGED <<counter, done, sleepers, owed, alive>>

DoneWake(j) ==
  /\ pc[j] = "wake"
  /\ WakeAll
  /\ Goto(j, "end")
  /\ UNCHANGED <<owed, alive>>

(* Wait() is called, once there is something to wait for. *)
CallWait(w) ==
  /\ pc[w] = "start"
  /\ \E a \in Adders : Announced(a)
  /\ AddsFirst => AllAnnounced
  /\ Goto(w, "wait")
  /\ owed' = [owed EXCEPT ![w] = {j \in Jobs : Announced(AdderOf[j])}]
  /\ UNCHANGED <<counter, done, sleepers, alive>>

(* while (done_.load() == 0) futex::Wait(done_, 0) *)
Wait(w) ==
  /\ pc[w] = "wait"
  /\ \/ FutexPark(w) /\ UNCHANGED pc
     \/ FutexReturns(w) /\ Goto(w, "end")
  /\ UNCHANGED <<owed, alive>>

(* delete wg *)
Delete ==
  /\ alive
  /\ \A w \in Waiters : pc[w] = "end"
  /\ alive' = FALSE
  /\ UNCHANGED <<counter, done, sleepers, pc, owed>>

Terminated ==
  /\ ~alive
  /\ \A a \in Actors : pc[a] = "end"
  /\ UNCHANGED vars

-----------------------------------------------------------------------------
Step(a) ==
  \/ a \in Adders /\ (Add(a) \/ AddStore(a))
  \/ a \in Jobs /\ (DoneSub(a) \/ DoneStore(a) \/ DonePrepare(a) \/ DoneWake(a))
  \/ a \in Waiters /\ Wait(a)

Next ==
  \/ \E a \in Actors : Step(a)
  \/ \E w \in Waiters : CallWait(w)
  \/ Delete
  \/ Terminated

Spec == Init /\ [][Next]_vars

(* Threads that are inside an operation are scheduled, and jobs end. *)
FairSpec == Spec /\ \A a \in Actors : WF_vars(Step(a))

-----------------------------------------------------------------------------
(* Wait() blocks until the counter is zero: when it returns, every job that   *)
(* had been announced when it was called has counted itself out.              *)
WaitBlocks == \A w \in Waiters : pc[w] = "end" => owed[w] \subseteq Finished

(* Wait() does not return before the Done() that counted to zero has stored   *)
(* done_, so that store goes to an object that still exists: the race the     *)
(* comment in Wait() describes.  PrepareWake, after the store, is not held to   *)
(* that: by then the group may be gone.                                      *)
StoreToLiveObject == \A j \in Jobs : pc[j] = "one" => alive

(* Wait() returns once the work is done, whichever of the waiters are parked  *)
(* when the flag is stored.                                                  *)
WaitReturns == \A w \in Waiters : pc[w] = "wait" ~> pc[w] = "end"
=============================================================================
