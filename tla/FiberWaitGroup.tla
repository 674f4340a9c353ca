--------------------------- MODULE FiberWaitGroup ---------------------------
(* fibers::WaitGroup of tasks/fibers/mutex/exe/fibers/sync/wait_group.hpp.      *)
(* The last Done() wakes the fibers in the queue.  A fiber that comes too late  *)
(* for the queue goes on by itself; if it is the only one in Wait() it first   *)
(* spins, on the worker, until that Done() has finished with the object.      *)
EXTENDS Fibers

VARIABLES
  countdown,     \* done_calls_countdown_
  inWait,        \* suspended_waits_counter_
  completed,     \* is_last_wait_completed_
  queued,        \* wait_q_
  latch          \* mtx_: the fiber that holds it, or NoFiber

groupVars == <<countdown, inWait, completed, queued, latch>>

GroupInit ==
  /\ countdown = 0
  /\ inWait = 0
  /\ completed = FALSE
  /\ queued = <<>>
  /\ latch = NoFiber

Add(f) ==
  /\ Calls(f, "add")
  /\ countdown' = countdown + 1
  /\ Return(f)
  /\ UNCHANGED <<ready, on, taken, inWait, completed, queued, latch>>

-----------------------------------------------------------------------------
(* Done()                                                                    *)

(* Variant: every Done() wakes the fibers in the queue. *)
DoneSubAny(f) ==
  /\ Calls(f, "done")
  /\ countdown' = countdown - 1
  /\ Goto(f, "done lock")
  /\ UNCHANGED <<ready, on, script, taken, inWait, completed, queued, latch>>

DoneSub(f) ==
  /\ Calls(f, "done")
  /\ countdown' = countdown - 1
  /\ IF countdown = 1 THEN Goto(f, "done lock") /\ UNCHANGED script ELSE Return(f)
  /\ UNCHANGED <<ready, on, taken, inWait, completed, queued, latch>>

DoneLock(f) ==
  /\ At(f, "done lock")
  /\ latch = NoFiber
  /\ latch' = f
  /\ Goto(f, "done look")
  /\ UNCHANGED <<ready, on, script, taken, countdown, inWait, completed, queued>>

(* IsEmpty(), and the spinlock is released. *)
DoneLook(f) ==
  /\ At(f, "done look")
  /\ latch' = NoFiber
  /\ Goto(f, IF queued = <<>> THEN "done empty" ELSE "done take")
  /\ UNCHANGED <<ready, on, script, taken, countdown, inWait, completed, queued>>

DoneEmpty(f) ==
  /\ At(f, "done empty")
  /\ completed' = TRUE
  /\ Return(f)
  /\ UNCHANGED <<ready, on, taken, countdown, inWait, queued, latch>>

(* Take() and IsEmpty() *)
DoneTake(f) ==
  /\ At(f, "done take")
  /\ taken' = [taken EXCEPT ![f] = Head(queued)]
  /\ queued' = Tail(queued)
  /\ Goto(f, IF Tail(queued) = <<>> THEN "done flag" ELSE "done next")
  /\ UNCHANGED <<ready, on, script, countdown, inWait, completed, latch>>

(* The flag is set before the last fiber is scheduled: once it runs, the object *)
(* may go.                                                                    *)
DoneFlag(f) ==
  /\ At(f, "done flag")
  /\ completed' = TRUE
  /\ Goto(f, "done last")
  /\ UNCHANGED <<ready, on, script, taken, countdown, inWait, queued, latch>>

DoneSchedule(f) ==
  /\ At(f, "done next") \/ At(f, "done last")
  /\ Submit(taken[f])
  /\ taken' = [taken EXCEPT ![f] = NoFiber]
  /\ LET last == pc[f] = "done last" IN
     /\ pc' = [pc EXCEPT ![taken[f]] = "waited", ![f] = IF last THEN "routine" ELSE "done take"]
     /\ script' = [script EXCEPT ![f] = IF last THEN Tail(@) ELSE @]
  /\ UNCHANGED <<on, groupVars>>

-----------------------------------------------------------------------------
(* Wait(): WaitGroupAwaiter                                                  *)

WaitCall(f) ==
  /\ Calls(f, "wait")
  /\ inWait' = inWait + 1
  /\ Goto(f, "wait lock")
  /\ UNCHANGED <<ready, on, script, taken, countdown, completed, queued, latch>>

WaitLock(f) ==
  /\ At(f, "wait lock")
  /\ latch = NoFiber
  /\ latch' = f
  /\ Goto(f, "wait look")
  /\ UNCHANGED <<ready, on, script, taken, countdown, inWait, completed, queued>>

(* TryEnqueue() *)
TryEnqueue(f) ==
  /\ At(f, "wait look")
  /\ IF countdown # 0
     THEN /\ queued' = Append(queued, f)
          /\ Goto(f, "suspended")
          /\ LeaveWorker(f)
     ELSE Goto(f, "wait count") /\ UNCHANGED <<on, queued>>
  /\ latch' = NoFiber
  /\ UNCHANGED <<ready, script, taken, countdown, inWait, completed>>

(* Variant: a late fiber goes on at once. *)
WaitCountNever(f) ==
  /\ At(f, "wait count")
  /\ Goto(f, "wait schedule")
  /\ UNCHANGED <<ready, on, script, taken, groupVars>>

(* Reschedule(): am I the only one? *)
WaitCount(f) ==
  /\ At(f, "wait count")
  /\ Goto(f, IF inWait = 1 THEN "wait spin" ELSE "wait schedule")
  /\ UNCHANGED <<ready, on, script, taken, groupVars>>

WaitSpin(f) ==
  /\ At(f, "wait spin")
  /\ completed
  /\ Goto(f, "wait schedule")
  /\ UNCHANGED <<ready, on, script, taken, groupVars>>

WaitSchedule(f) ==
  /\ At(f, "wait schedule")
  /\ Goto(f, "waited")
  /\ Reschedule(f)
  /\ UNCHANGED <<script, taken, groupVars>>

(* The rest of Wait(), once the fiber is resumed. *)
WaitReturn(f) ==
  /\ At(f, "waited")
  /\ inWait' = inWait - 1
  /\ Return(f)
  /\ UNCHANGED <<ready, on, taken, countdown, completed, queued, latch>>

GroupStep(f) ==
  \/ Add(f)
  \/ DoneSub(f) \/ DoneLock(f) \/ DoneLook(f) \/ DoneEmpty(f)
  \/ DoneTake(f) \/ DoneFlag(f) \/ DoneSchedule(f)
  \/ WaitCall(f) \/ WaitLock(f) \/ TryEnqueue(f) \/ WaitCount(f) \/ WaitSpin(f)
  \/ WaitSchedule(f) \/ WaitReturn(f)
=============================================================================
