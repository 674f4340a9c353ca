----------------------------- MODULE FiberSleep -----------------------------
(* Fibers that sleep: tasks/fibers/sleep_for, where the scheduler is an          *)
(* asio::io_context whose run() is called by several threads.                  *)
(*                                                                           *)
(* asio is modelled as the code uses it: post() puts a handler into the queue   *)
(* that all threads take from, defer() keeps it until the handler that calls    *)
(* it has returned, a timer puts its handler into the queue when it expires,    *)
(* whatever the delay, and run() returns when there is neither a handler nor    *)
(* a timer left.                                                              *)
EXTENDS Naturals, Sequences

CONSTANTS
  AllFibers,
  Workers,       \* the threads in run()
  NoFiber,
  Plans          \* records: begin, a sequence of fibers; script[f], the routine of f

VARIABLES
  handlers,      \* <<"run" | "arm" | "wake", f>>: the queue of the io_context
  deferred,      \* the handlers each thread keeps until its handler returns
  timers,        \* the fibers whose timer is armed
  on,            \* the fiber whose Run() is on each thread
  coro,          \* the coroutine of each fiber
  status,        \* status_
  script         \* what is left of its routine, the stop it is in included

vars == <<handlers, deferred, timers, on, coro, status, script>>

(* Go() in the main thread. *)
Init ==
  /\ \E plan \in Plans :
       /\ handlers = [i \in DOMAIN plan.begin |-> <<"run", plan.begin[i]>>]
       /\ script = plan.script
       /\ coro = [f \in AllFibers |->
                    IF \E i \in DOMAIN plan.begin : plan.begin[i] = f THEN "created" ELSE "none"]
  /\ deferred = [w \in Workers |-> <<>>]
  /\ timers = {}
  /\ on = [w \in Workers |-> NoFiber]
  /\ status = [f \in AllFibers |-> "Runnable"]

Op(f) == IF script[f] = <<>> THEN "end" ELSE Head(script[f])

-----------------------------------------------------------------------------
(* A thread in run() takes a handler.                                        *)

(* Run() up to Resume(): the routine begins, or goes on after the stop. *)
Enter(w, f) ==
  /\ on' = [on EXCEPT ![w] = f]
  /\ coro' = [coro EXCEPT ![f] = "running"]
  /\ status' = [status EXCEPT ![f] = "Running"]
  /\ script' = [script EXCEPT ![f] = IF coro[f] = "created" THEN @ ELSE Tail(@)]
  /\ UNCHANGED timers

(* The handler that SleepFor() defers: async_wait() on the timer. *)
Arm(f) ==
  /\ timers' = timers \cup {f}
  /\ UNCHANGED <<on, coro, status, script>>

TakeHandler(w) ==
  /\ on[w] = NoFiber
  /\ handlers # <<>>
  /\ LET h == Head(handlers) IN IF h[1] = "arm" THEN Arm(h[2]) ELSE Enter(w, h[2])
  /\ handlers' = Tail(handlers)
  /\ UNCHANGED deferred

(* The timer of f expires. *)
Expire(f) ==
  /\ f \in timers
  /\ timers' = timers \ {f}
  /\ handlers' = Append(handlers, <<"wake", f>>)
  /\ UNCHANGED <<deferred, on, coro, status, script>>

-----------------------------------------------------------------------------
(* The routine of the fiber on w                                             *)

Calls(w, op) == on[w] # NoFiber /\ coro[on[w]] = "running" /\ Op(on[w]) = op

Switch(w, to) == coro' = [coro EXCEPT ![on[w]] = to]

Go(w, f) ==
  /\ Calls(w, f)
  /\ handlers' = Append(handlers, <<"run", f>>)
  /\ coro' = [coro EXCEPT ![f] = "created"]
  /\ script' = [script EXCEPT ![on[w]] = Tail(@)]
  /\ UNCHANGED <<deferred, timers, on, status>>

(* Variant: the handler is posted, so that another thread may take it at once. *)
SleepForByPost(w) ==
  /\ Calls(w, "sleep")
  /\ status' = [status EXCEPT ![on[w]] = "Sleeping"]
  /\ handlers' = Append(handlers, <<"arm", on[w]>>)
  /\ Switch(w, "stopping")
  /\ UNCHANGED <<deferred, timers, on, script>>

(* MarkSleep() and defer(); then Yield(). *)
SleepFor(w) ==
  /\ Calls(w, "sleep")
  /\ status' = [status EXCEPT ![on[w]] = "Sleeping"]
  /\ deferred' = [deferred EXCEPT ![w] = Append(@, <<"arm", on[w]>>)]
  /\ Switch(w, "stopping")
  /\ UNCHANGED <<handlers, timers, on, script>>

(* Suspend(): control goes back to Run(). *)
Yield(w) ==
  /\ on[w] # NoFiber
  /\ \/ Calls(w, "yield")
     \/ coro[on[w]] = "stopping"
  /\ Switch(w, "suspended")
  /\ UNCHANGED <<handlers, deferred, timers, on, status, script>>

End(w) ==
  /\ Calls(w, "end")
  /\ Switch(w, "completed")
  /\ UNCHANGED <<handlers, deferred, timers, on, status, script>>

-----------------------------------------------------------------------------
(* Run() after Resume()                                                      *)

(* The handler returns: what it has deferred goes into the queue. *)
Leave(w, posted) ==
  /\ on' = [on EXCEPT ![w] = NoFiber]
  /\ handlers' = handlers \o posted \o deferred[w]
  /\ deferred' = [deferred EXCEPT ![w] = <<>>]

(* delete this *)
Delete(w) ==
  /\ on[w] # NoFiber
  /\ coro[on[w]] = "completed"
  /\ Switch(w, "deleted")
  /\ Leave(w, <<>>)
  /\ UNCHANGED <<timers, status, script>>

Sleep(w) ==
  /\ on[w] # NoFiber
  /\ coro[on[w]] = "suspended" /\ status[on[w]] = "Sleeping"
  /\ Leave(w, <<>>)
  /\ UNCHANGED <<timers, coro, status, script>>

(* Schedule(): a fiber that has only yielded. *)
Schedule(w) ==
  /\ on[w] # NoFiber
  /\ coro[on[w]] = "suspended" /\ status[on[w]] # "Sleeping"
  /\ Leave(w, <<<<"run", on[w]>>>>)
  /\ UNCHANGED <<timers, coro, status, script>>

-----------------------------------------------------------------------------
Step(w) ==
  \/ TakeHandler(w)
  \/ \E f \in AllFibers : Go(w, f)
  \/ SleepFor(w) \/ Yield(w) \/ End(w)
  \/ Delete(w) \/ Sleep(w) \/ Schedule(w)

(* run() returns to its callers. *)
NoWork ==
  /\ handlers = <<>> /\ timers = {}
  /\ \A w \in Workers : on[w] = NoFiber /\ deferred[w] = <<>>

Terminated == NoWork /\ UNCHANGED vars

Next == (\E w \in Workers : Step(w)) \/ (\E f \in AllFibers : Expire(f)) \/ Terminated

Spec == Init /\ [][Next]_vars

-----------------------------------------------------------------------------
TypeOK ==
  /\ handlers \in Seq({"run", "arm", "wake"} \X AllFibers)
  /\ deferred \in [Workers -> Seq({"arm"} \X AllFibers)]
  /\ timers \subseteq AllFibers
  /\ on \in [Workers -> AllFibers \cup {NoFiber}]
  /\ coro \in [AllFibers -> {"none", "created", "running", "stopping", "suspended", "completed", "deleted"}]
  /\ status \in [AllFibers -> {"Runnable", "Running", "Sleeping"}]

(* What will continue f: its handlers and its timer. *)
Continuations(f) ==
  {<<"queue", i>> : i \in {j \in DOMAIN handlers : handlers[j][2] = f}}
  \cup {<<"timer", f>> : g \in timers \cap {f}}

(* The race the readme warns of: a fiber is never resumed while it still stops,  *)
(* by its timer or otherwise.  What is to continue it is there once, after the   *)
(* fiber has left its thread, and never for a fiber that is deleted.            *)
ResumedAfterStop ==
  \A f \in AllFibers :
    /\ Continuations(f) # {} => /\ coro[f] \in {"created", "suspended"}
                                /\ \A w \in Workers : on[w] # f
    /\ \A c, d \in Continuations(f) : c = d

(* run() returns only after every fiber has ended: none sleeps for ever, and     *)
(* none is forgotten.                                                          *)
AllEnded == \A f \in AllFibers : coro[f] \in {"none", "deleted"}
RunReturnsLate == NoWork => AllEnded
=============================================================================
