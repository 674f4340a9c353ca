------------------------------- MODULE Fibers -------------------------------
(* Fibers of tasks/fibers/mutex/exe/fibers: core/fiber.cpp, sched/go.cpp and    *)
(* sched/yield.cpp, over the coroutines of coro/core.cpp.                      *)
(*                                                                           *)
(* A fiber runs on a worker of the thread pool until it suspends itself with an *)
(* awaiter.  The worker then leaves its coroutine and calls AwaitSuspend(),     *)
(* which decides when the fiber goes on: now, on this worker (Run), when the   *)
(* pool gets to it (Schedule), or when somebody takes it from a queue.  Both   *)
(* the routine and the awaiter of a fiber are steps of that fiber here, taken  *)
(* while it is on a worker.                                                   *)
(*                                                                           *)
(* A routine is a sequence of operations; a fiber among them is a Go().  The   *)
(* operation that is being executed is the head.  The pool is seen from        *)
(* outside, as a queue from which free workers take fibers in turn.           *)
EXTENDS Naturals, Sequences

CONSTANTS
  AllFibers,
  Workers,
  NoFiber

VARIABLES
  ready,         \* the tasks of the pool: fibers that are scheduled
  on,            \* the fiber on each worker
  pc,            \* where each fiber is, in its routine or in its awaiter
  script,        \* what is left of its routine
  taken          \* the fiber it has taken from a wait queue

fiberVars == <<ready, on, pc, script, taken>>

(* A plan does without a fiber by giving it nothing to do. *)
FibersInit(plan) ==
  /\ ready = plan.begin
  /\ on = [w \in Workers |-> NoFiber]
  /\ pc = [f \in AllFibers |-> IF plan.script[f] = <<>> THEN "deleted" ELSE "routine"]
  /\ script = plan.script
  /\ taken = [f \in AllFibers |-> NoFiber]

OnWorker(f)   == \E w \in Workers : on[w] = f
At(f, label)  == OnWorker(f) /\ pc[f] = label
Calls(f, op)  == At(f, "routine") /\ script[f] # <<>> /\ Head(script[f]) = op
Goto(f, to)   == pc' = [pc EXCEPT ![f] = to]
Submit(f)     == ready' = Append(ready, f)
LeaveWorker(f) == on' = [w \in Workers |-> IF on[w] = f THEN NoFiber ELSE on[w]]

(* The operation of f is over: its routine goes on, on the same worker. *)
Return(f) ==
  /\ script' = [script EXCEPT ![f] = Tail(@)]
  /\ Goto(f, "routine")

(* f->Schedule() by its own awaiter. *)
Reschedule(f) == Submit(f) /\ LeaveWorker(f)

-----------------------------------------------------------------------------
(* A worker takes a task and calls Run(): the coroutine is resumed. *)
Run(w) ==
  /\ on[w] = NoFiber
  /\ ready # <<>>
  /\ on' = [on EXCEPT ![w] = Head(ready)]
  /\ ready' = Tail(ready)
  /\ UNCHANGED <<pc, script, taken>>

(* Go(): a new fiber, which is scheduled. *)
Go(f) ==
  /\ At(f, "routine") /\ script[f] # <<>> /\ Head(script[f]) \in AllFibers
  /\ Submit(Head(script[f]))
  /\ Return(f)
  /\ UNCHANGED <<on, taken>>

Yield(f) ==
  /\ Calls(f, "yield")
  /\ Return(f)
  /\ Reschedule(f)
  /\ UNCHANGED taken

(* The routine returns, the coroutine is completed, and Run() deletes the fiber. *)
Complete(f) ==
  /\ At(f, "routine") /\ script[f] = <<>>
  /\ Goto(f, "deleted")
  /\ LeaveWorker(f)
  /\ UNCHANGED <<ready, script, taken>>

FiberStep(f) == Go(f) \/ Yield(f) \/ Complete(f)
=============================================================================
