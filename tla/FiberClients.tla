---------------------------- MODULE FiberClients ----------------------------
(* Fibers that share a Mutex, an Event and a WaitGroup, as the tests and the    *)
(* example of tasks/fibers/mutex/readme.md do.  A plan says which fibers the    *)
(* main thread starts, in which order, and what the routine of each does.      *)
(*                                                                           *)
(* "delete" is the end of the event and of the group: a fiber does it when it  *)
(* knows that every Wait() has returned.                                      *)
EXTENDS FiberMutex, FiberEvent, FiberWaitGroup, FiniteSets

CONSTANT
  Plans          \* records: begin, a sequence of fibers; script[f], the routine of f

VARIABLE
  deleted        \* the event and the group are gone

vars == <<fiberVars, mutexVars, eventVars, groupVars, deleted>>

Init ==
  /\ \E plan \in Plans : FibersInit(plan)
  /\ MutexInit /\ EventInit /\ GroupInit
  /\ deleted = FALSE

Ops(f) == {script[f][i] : i \in DOMAIN script[f]}

Delete(f) ==
  /\ Calls(f, "delete")
  /\ \A g \in AllFibers : Ops(g) \cap {"wait", "await"} = {}
  /\ deleted' = TRUE
  /\ Return(f)
  /\ UNCHANGED <<ready, on, taken, mutexVars, eventVars, groupVars>>

-----------------------------------------------------------------------------
Step(f) ==
  \/ FiberStep(f) /\ UNCHANGED <<mutexVars, eventVars, groupVars, deleted>>
  \/ MutexStep(f) /\ UNCHANGED <<eventVars, groupVars, deleted>>
  \/ EventStep(f) /\ UNCHANGED <<mutexVars, groupVars, deleted>>
  \/ GroupStep(f) /\ UNCHANGED <<mutexVars, eventVars, deleted>>
  \/ Delete(f)

Resume(w) == Run(w) /\ UNCHANGED <<mutexVars, eventVars, groupVars, deleted>>

AllDone == \A f \in AllFibers : pc[f] = "deleted"

Terminated == AllDone /\ UNCHANGED vars

Next == (\E w \in Workers : Resume(w)) \/ (\E f \in AllFibers : Step(f)) \/ Terminated

Spec == Init /\ [][Next]_vars

(* Every worker goes on with what it runs, and an idle one takes a task.  A     *)
(* worker that finds a spinlock taken may find it taken again and again.       *)
FairSpec ==
  /\ Spec
  /\ \A w \in Workers : WF_vars(Resume(w))
  /\ \A f \in AllFibers : WF_vars(Step(f))

-----------------------------------------------------------------------------
TypeOK ==
  /\ ready \in Seq(AllFibers)
  /\ on \in [Workers -> AllFibers \cup {NoFiber}]
  /\ taken \in [AllFibers -> AllFibers \cup {NoFiber}]
  /\ st \in {"None", "LockedNoWaiter", "LockedWithWaiters"}
  /\ <<fired, completed, deleted>> \in BOOLEAN \X BOOLEAN \X BOOLEAN
  /\ <<countdown, inWait>> \in Nat \X Nat
  /\ {spin, guard, latch} \subseteq AllFibers \cup {NoFiber}

(* The fibers between a Lock() and the Unlock() after it, whether they run or   *)
(* have yielded.                                                              *)
Owns(f) ==
  \E i \in 1..Len(script[f]) : script[f][i] = "unlock" /\ \A j \in 1..(i - 1) : script[f][j] # "lock"
InCritical(f) == pc[f] = "routine" /\ Owns(f)

(* The mutex is handed over without being free in between, and still has one    *)
(* owner at most.                                                             *)
Exclusive == \A f, g \in AllFibers : InCritical(f) /\ InCritical(g) => f = g

(* A fiber is never resumed twice and never lost: from Go() until it is deleted *)
(* it is in one place, among the tasks of the pool, on a worker, in the queue   *)
(* of one primitive, or on its way from there to the pool.                     *)
Times(q, f) == Cardinality({i \in DOMAIN q : q[i] = f})
Places(f)   ==
  Times(ready, f) + Times(parked, f) + Times(waiting, f) + Times(queued, f)
  + Times(on, f) + Times(taken, f)
Begun(f)    == \A g \in AllFibers : f \notin Ops(g)

OnePlace == \A f \in AllFibers : Places(f) = IF Begun(f) /\ pc[f] # "deleted" THEN 1 ELSE 0

(* A fiber goes on after Wait() only when the event was fired, or when all the  *)
(* jobs that were added are done.                                             *)
ResumedInTime ==
  [][\A f \in AllFibers : script'[f] # script[f] =>
        /\ Head(script[f]) = "await" => fired
        /\ Head(script[f]) = "wait" => countdown = 0]_vars

(* Fire(), Done() and the awaiters do not touch the event or the group after    *)
(* the fibers that waited have gone on and deleted it: the tests storage.cpp.   *)
Touches == {"await look", "fire set", "fire take", "fire next",
            "done lock", "done look", "done empty", "done take", "done flag", "done next",
            "wait lock", "wait look", "wait count", "wait spin", "waited"}

TouchesLive == deleted => \A f \in AllFibers : pc[f] \notin Touches

(* Nobody stays in a queue for ever, whatever falls between the suspension of a *)
(* fiber and its place in the queue, and the lock, the event or the last Done() *)
(* it waits for.                                                              *)
EveryFiberEnds == <>AllDone
=============================================================================
