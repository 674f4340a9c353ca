----------------------------- MODULE FiberEvent -----------------------------
(* fibers::Event of tasks/fibers/mutex/exe/fibers/sync/event.hpp, the one-shot  *)
(* event of fibers: Wait() and Fire().                                        *)
EXTENDS Fibers

VARIABLES
  fired,         \* is_fired_
  waiting,       \* wait_q_
  guard          \* lock_: the fiber that holds it, or NoFiber

eventVars == <<fired, waiting, guard>>

EventInit == fired = FALSE /\ waiting = <<>> /\ guard = NoFiber

-----------------------------------------------------------------------------
(* Wait(): EventAwaiter                                                      *)

AwaitLock(f) ==
  /\ Calls(f, "await")
  /\ guard = NoFiber
  /\ guard' = f
  /\ Goto(f, "await look")
  /\ UNCHANGED <<ready, on, script, taken, fired, waiting>>

(* Variant: the fiber is scheduled also when it was put in the queue. *)
AwaitLookAndSchedule(f) ==
  /\ At(f, "await look")
  /\ waiting' = IF fired THEN waiting ELSE Append(waiting, f)
  /\ guard' = NoFiber
  /\ Goto(f, "await schedule")
  /\ UNCHANGED <<ready, on, script, taken, fired>>

(* is_fired_ decides, and the lock is released. *)
AwaitLook(f) ==
  /\ At(f, "await look")
  /\ IF fired
     THEN Goto(f, "await schedule") /\ UNCHANGED <<on, waiting>>
     ELSE /\ waiting' = Append(waiting, f)
          /\ Goto(f, "suspended")
          /\ LeaveWorker(f)
  /\ guard' = NoFiber
  /\ UNCHANGED <<ready, script, taken, fired>>

AwaitSchedule(f) ==
  /\ At(f, "await schedule")
  /\ Return(f)
  /\ Reschedule(f)
  /\ UNCHANGED <<taken, eventVars>>

-----------------------------------------------------------------------------
(* Fire()                                                                    *)

FireLock(f) ==
  /\ Calls(f, "fire")
  /\ guard = NoFiber
  /\ guard' = f
  /\ Goto(f, "fire set")
  /\ UNCHANGED <<ready, on, script, taken, fired, waiting>>

FireSet(f) ==
  /\ At(f, "fire set")
  /\ fired' = TRUE
  /\ guard' = NoFiber
  /\ IF waiting = <<>> THEN Return(f) ELSE Goto(f, "fire take") /\ UNCHANGED script
  /\ UNCHANGED <<ready, on, taken, waiting>>

(* Take() and IsEmpty(), without the lock: nobody puts himself there any more. *)
FireTake(f) ==
  /\ At(f, "fire take")
  /\ taken' = [taken EXCEPT ![f] = Head(waiting)]
  /\ waiting' = Tail(waiting)
  /\ Goto(f, IF Tail(waiting) = <<>> THEN "fire last" ELSE "fire next")
  /\ UNCHANGED <<ready, on, script, fired, guard>>

(* The fiber is scheduled; after the last one Fire() returns. *)
FireSchedule(f) ==
  /\ At(f, "fire next") \/ At(f, "fire last")
  /\ Submit(taken[f])
  /\ taken' = [taken EXCEPT ![f] = NoFiber]
  /\ LET last == pc[f] = "fire last" IN
     /\ pc' = [pc EXCEPT ![taken[f]] = "routine", ![f] = IF last THEN "routine" ELSE "fire take"]
     /\ script' = [script EXCEPT ![taken[f]] = Tail(@), ![f] = IF last THEN Tail(@) ELSE @]
  /\ UNCHANGED <<on, eventVars>>

EventStep(f) ==
  \/ AwaitLock(f) \/ AwaitLook(f) \/ AwaitSchedule(f)
  \/ FireLock(f) \/ FireSet(f) \/ FireTake(f) \/ FireSchedule(f)
=============================================================================
