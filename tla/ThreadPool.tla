----------------------------- MODULE ThreadPool -----------------------------
(* tp::ThreadPool of tasks/thread-pool/tp/thread_pool.cpp, composed with its   *)
(* queue (BlockingQueue) and its wait group (WaitGroup).                     *)
(*                                                                           *)
(* Submit() is called by client threads and, through ThreadPool::Current(),    *)
(* by tasks that run in the pool.  The thread `Main` calls WaitIdle() whenever *)
(* it likes and Stop() once, when the clients have returned.  A plan says what *)
(* is submitted by whom, and whether Main waits with WaitIdle() before it      *)
(* stops the pool, as most tests do.                                          *)
EXTENDS BlockingQueue, WaitGroup, FiniteSets

CONSTANTS
  Workers,
  Clients,
  Main,
  Tasks,
  NoTask,
  Plans            \* the set of plans: records with
                   \*   script[c]: the sequence of tasks client c submits
                   \*   child[t]: the task that t submits before it ends, or NoTask
                   \*   patient: Stop() is called after a last WaitIdle() only

(* The threads are different ones, and a pool has at least one worker. *)
ASSUME ThreadsAssumption ==
  /\ IsFiniteSet(Workers) /\ Workers # {} /\ IsFiniteSet(Clients)
  /\ Workers \cap Clients = {} /\ Main \notin Workers \cup Clients

(* A task is one call of Submit(): no two places of a plan have the same. *)
ASSUME PlansAssumption ==
  /\ NoTask \notin Tasks
  /\ \A p \in Plans :
       /\ p.script \in [Clients -> Seq(Tasks)]
       /\ p.child \in [Tasks -> Tasks \cup {NoTask}]
       /\ p.patient \in BOOLEAN
       /\ \A c, d \in Clients : \A i \in 1..Len(p.script[c]), j \in 1..Len(p.script[d]) :
            p.script[c][i] = p.script[d][j] => c = d /\ i = j
       /\ \A t, u \in Tasks : p.child[t] = p.child[u] /\ p.child[t] # NoTask => t = u
       /\ \A t \in Tasks, c \in Clients : \A i \in 1..Len(p.script[c]) : p.child[t] # p.script[c][i]

VARIABLES
  plan,            \* the plan of this execution
  running,         \* is_running_
  roused,          \* workers NOT parked on worker_routine_cv_
  pc,
  task,            \* the task each worker has taken
  left,            \* what each client still has to submit
  quiet,           \* Main may call Stop()
  accepted, ran, ended,   \* history: Put() returned true, executions, bodies ended
  submitted, owed         \* history: Submit() returned; the same when WaitIdle() began

poolVars == <<plan, running, roused, pc, task, left, quiet>>
history  == <<accepted, ran, ended, submitted, owed>>
vars     == <<queue, opened, parked, counter, done, sleepers, poolVars, history>>

Actors == Workers \cup Clients \cup {Main}

Init ==
  /\ QueueInit
  /\ WaitGroupInit
  /\ plan \in Plans
  /\ running = FALSE
  /\ roused = Workers
  /\ pc = [a \in Actors |-> IF a \in Workers THEN "take" ELSE "free"]
  /\ task = [w \in Workers |-> NoTask]
  /\ left = plan.script
  /\ quiet = ~plan.patient
  /\ accepted = {}
  /\ ran = [t \in Tasks |-> 0]
  /\ ended = {}
  /\ submitted = {}
  /\ owed = {}

queueVars == <<queue, opened, parked>>
groupVars == <<counter, done, sleepers>>

Goto(a, to) == pc' = [pc EXCEPT ![a] = to]

(* worker_routine_mtx_ is held across three steps by a worker that has found  *)
(* the queue empty, has still to read is_running_ and may then be parked;     *)
(* every other section under it is one step.                                 *)
MutexFree == \A w \in Workers : pc[w] \notin {"check", "park"}

-----------------------------------------------------------------------------
(* Submit(task), by actor a.                                                 *)

Submitting(a) == IF a \in Workers THEN plan.child[task[a]] ELSE Head(left[a])

CallSubmit(c) ==
  /\ pc[c] = "free"
  /\ left[c] # <<>>
  /\ Goto(c, "add")
  /\ UNCHANGED <<plan, queueVars, groupVars, running, roused, task, left, quiet, history>>

(* Variant: the task is not announced to the wait group. *)
SubmitNoAdd(a) ==
  /\ pc[a] = "add"
  /\ Goto(a, "put")
  /\ UNCHANGED <<plan, queueVars, groupVars, running, roused, task, left, quiet, history>>

SubmitAdd(a) ==
  /\ pc[a] = "add"
  /\ FetchAdd(1)
  /\ Goto(a, IF AddFoundZero THEN "zero" ELSE "put")
  /\ UNCHANGED <<plan, queueVars, running, roused, task, left, quiet, history>>

SubmitAddStore(a) ==
  /\ pc[a] = "zero"
  /\ StoreZero
  /\ Goto(a, "put")
  /\ UNCHANGED <<plan, queueVars, running, roused, task, left, quiet, history>>

(* The result of Put() is ignored: Submit() goes on as if a closed queue had  *)
(* taken the task.                                                           *)
SubmitPut(a) ==
  /\ pc[a] = "put"
  /\ \/ /\ Push(Submitting(a))
        /\ accepted' = accepted \cup {Submitting(a)}
        /\ Goto(a, "notify")
     \/ /\ Reject
        /\ Goto(a, "flag")
        /\ UNCHANGED accepted
  /\ UNCHANGED <<plan, groupVars, running, roused, task, left, quiet, ran, ended, submitted, owed>>

SubmitNotify(a) ==
  /\ pc[a] = "notify"
  /\ NotifyOne
  /\ Goto(a, "flag")
  /\ UNCHANGED <<plan, groupVars, running, roused, task, left, quiet, history>>

SubmitFlag(a) ==
  /\ pc[a] = "flag"
  /\ running' = TRUE
  /\ Goto(a, "bell")
  /\ UNCHANGED <<plan, queueVars, groupVars, roused, task, left, quiet, history>>

(* notify_one under the lock; Submit() returns. *)
SubmitBell(a) ==
  /\ pc[a] = "bell"
  /\ MutexFree
  /\ \E W \in OneFewer(Workers \ roused) : roused' = Workers \ W
  /\ submitted' = submitted \cup {Submitting(a)}
  /\ IF a \in Workers
     THEN Goto(a, "sub") /\ UNCHANGED left
     ELSE Goto(a, "free") /\ left' = [left EXCEPT ![a] = Tail(@)]
  /\ UNCHANGED <<plan, queueVars, groupVars, running, task, quiet, accepted, ran, ended, owed>>

Submit(a) ==
  \/ SubmitAdd(a)
  \/ SubmitAddStore(a)
  \/ SubmitPut(a)
  \/ SubmitNotify(a)
  \/ SubmitFlag(a)
  \/ SubmitBell(a)

-----------------------------------------------------------------------------
(* WorkerRoutine()                                                           *)

WorkerTake(w) ==
  /\ pc[w] = "take"
  /\ \/ Pop(w) /\ task' = [task EXCEPT ![w] = Head(queue)] /\ Goto(w, "run")
     \/ Park(w) /\ UNCHANGED <<plan, task, pc>>
     \/ TakeNothing(w) /\ Goto(w, "nothing") /\ UNCHANGED task
  /\ UNCHANGED <<plan, groupVars, running, roused, left, quiet, history>>

(* task(): a task that has a child submits it. *)
WorkerRun(w) ==
  /\ pc[w] = "run"
  /\ ran' = [ran EXCEPT ![task[w]] = @ + 1]
  /\ ended' = ended \cup {task[w]}
  /\ Goto(w, IF plan.child[task[w]] = NoTask THEN "sub" ELSE "add")
  /\ UNCHANGED <<plan, queueVars, groupVars, running, roused, task, left, quiet,
                 accepted, submitted, owed>>

(* incomplete_task_wg_.Done() *)
WorkerDone(w) ==
  /\ pc[w] = "sub"
  /\ FetchSub
  /\ Goto(w, IF DoneReachedZero THEN "one" ELSE "door")
  /\ UNCHANGED <<plan, queueVars, running, roused, task, left, quiet, history>>

WorkerDoneStore(w) ==
  /\ pc[w] = "one"
  /\ StoreOne
  /\ Goto(w, "wake")
  /\ UNCHANGED <<plan, queueVars, running, roused, task, left, quiet, history>>

WorkerDoneWake(w) ==
  /\ pc[w] = "wake"
  /\ WakeAll
  /\ Goto(w, "door")
  /\ UNCHANGED <<plan, queueVars, running, roused, task, left, quiet, history>>

(* Take() returned nullopt: leave the loop unless the pool is running. *)
WorkerNothing(w) ==
  /\ pc[w] = "nothing"
  /\ Goto(w, IF running THEN "door" ELSE "exit")
  /\ UNCHANGED <<plan, queueVars, groupVars, running, roused, task, left, quiet, history>>

(* worker_routine_cv_.wait: the first half of the predicate ... *)
WorkerDoor(w) ==
  /\ pc[w] = "door"
  /\ w \in roused
  /\ MutexFree
  /\ Goto(w, IF queue # <<>> THEN "take" ELSE "check")
  /\ UNCHANGED <<plan, queueVars, groupVars, running, roused, task, left, quiet, history>>

(* ... and the second. *)
WorkerCheck(w) ==
  /\ pc[w] = "check"
  /\ Goto(w, IF running THEN "park" ELSE "take")
  /\ UNCHANGED <<plan, queueVars, groupVars, running, roused, task, left, quiet, history>>

(* The predicate is false: the worker waits, which releases the lock, and     *)
(* evaluates the predicate again when it is roused.                           *)
WorkerPark(w) ==
  /\ pc[w] = "park"
  /\ roused' = roused \ {w}
  /\ Goto(w, "door")
  /\ UNCHANGED <<plan, queueVars, groupVars, running, task, left, quiet, history>>

Work(w) ==
  \/ WorkerTake(w)
  \/ WorkerRun(w)
  \/ Submit(w)
  \/ WorkerDone(w)
  \/ WorkerDoneStore(w)
  \/ WorkerDoneWake(w)
  \/ WorkerNothing(w)
  \/ WorkerDoor(w)
  \/ WorkerCheck(w)
  \/ WorkerPark(w)

-----------------------------------------------------------------------------
(* WaitIdle() and Stop(), by Main.                                           *)

ClientsReturned == \A c \in Clients : pc[c] = "free" /\ left[c] = <<>>

CallWaitIdle ==
  /\ pc[Main] = "free"
  /\ Goto(Main, IF ClientsReturned THEN "load last" ELSE "load")
  /\ owed' = submitted
  /\ UNCHANGED <<plan, queueVars, groupVars, running, roused, task, left, quiet,
                 accepted, ran, ended, submitted>>

(* Variant: WaitIdle() trusts the flag, as the WaitGroup of cond/wait_group. *)
IdleLoadFlag(phase) ==
  /\ pc[Main] = phase
  /\ IF done = 1
     THEN Goto(Main, "free") /\ quiet' = (quiet \/ phase = "load last")
     ELSE Goto(Main, IF phase = "load" THEN "wait" ELSE "wait last") /\ UNCHANGED quiet
  /\ UNCHANGED <<plan, queueVars, groupVars, running, roused, task, left, history>>

(* while (counter_.load() != init_) ... *)
IdleLoad(phase) ==
  /\ pc[Main] = phase
  /\ IF counter = 0
     THEN Goto(Main, "free") /\ quiet' = (quiet \/ phase = "load last")
     ELSE Goto(Main, IF phase = "load" THEN "wait" ELSE "wait last") /\ UNCHANGED quiet
  /\ UNCHANGED <<plan, queueVars, groupVars, running, roused, task, left, history>>

(* ... futex::Wait(done_, 0) *)
IdleWait(phase) ==
  /\ pc[Main] = phase
  /\ \/ FutexPark(Main) /\ UNCHANGED pc
     \/ FutexReturns(Main) /\ Goto(Main, IF phase = "wait" THEN "load" ELSE "load last")
  /\ UNCHANGED <<plan, queueVars, running, roused, task, left, quiet, history>>

WaitIdle ==
  \/ \E phase \in {"load", "load last"} : IdleLoad(phase)
  \/ \E phase \in {"wait", "wait last"} : IdleWait(phase)

CallStop ==
  /\ pc[Main] = "free"
  /\ quiet
  /\ ClientsReturned
  /\ Goto(Main, "stop")
  /\ UNCHANGED <<plan, queueVars, groupVars, running, roused, task, left, quiet, history>>

StopFlag ==
  /\ pc[Main] = "stop"
  /\ running' = FALSE
  /\ Goto(Main, "close")
  /\ UNCHANGED <<plan, queueVars, groupVars, roused, task, left, quiet, history>>

StopClose ==
  /\ pc[Main] = "close"
  /\ Shut
  /\ Goto(Main, "close notify")
  /\ UNCHANGED <<plan, groupVars, running, roused, task, left, quiet, history>>

StopCloseNotify ==
  /\ pc[Main] = "close notify"
  /\ NotifyAll
  /\ Goto(Main, "bell")
  /\ UNCHANGED <<plan, groupVars, running, roused, task, left, quiet, history>>

(* Variant: the notification without the "important lock" of the comment. *)
StopBellUnlocked ==
  /\ pc[Main] = "bell"
  /\ roused' = Workers
  /\ Goto(Main, "join")
  /\ UNCHANGED <<plan, queueVars, groupVars, running, task, left, quiet, history>>

StopBell ==
  /\ pc[Main] = "bell"
  /\ MutexFree
  /\ roused' = Workers
  /\ Goto(Main, "join")
  /\ UNCHANGED <<plan, queueVars, groupVars, running, task, left, quiet, history>>

StopJoin ==
  /\ pc[Main] = "join"
  /\ \A w \in Workers : pc[w] = "exit"
  /\ Goto(Main, "stopped")
  /\ UNCHANGED <<plan, queueVars, groupVars, running, roused, task, left, quiet, history>>

Stop == StopFlag \/ StopClose \/ StopCloseNotify \/ StopBell \/ StopJoin

Terminated == pc[Main] = "stopped" /\ UNCHANGED vars

-----------------------------------------------------------------------------
Next ==
  \/ \E w \in Workers : Work(w)
  \/ \E c \in Clients : CallSubmit(c) \/ Submit(c)
  \/ CallWaitIdle
  \/ WaitIdle
  \/ CallStop
  \/ Stop
  \/ Terminated

Spec == Init /\ [][Next]_vars

(* Every thread is scheduled, bodies of tasks end, clients submit what their   *)
(* script says.  Main calls WaitIdle() and Stop() as it likes.                *)
FairSpec ==
  /\ Spec
  /\ \A w \in Workers : WF_vars(Work(w))
  /\ \A c \in Clients : WF_vars(CallSubmit(c) \/ Submit(c))
  /\ WF_vars(WaitIdle)
  /\ WF_vars(Stop)

-----------------------------------------------------------------------------
TypeOK ==
  /\ queue \in Seq(Tasks)
  /\ counter \in 0..Cardinality(Tasks)
  /\ done \in {0, 1}
  /\ <<opened, running, quiet>> \in BOOLEAN \X BOOLEAN \X BOOLEAN
  /\ parked \subseteq Workers /\ roused \subseteq Workers /\ sleepers \subseteq {Main}
  /\ task \in [Workers -> Tasks \cup {NoTask}]

(* The wait group counts exactly the tasks that a Submit() has announced and  *)
(* no worker has counted out: those queued, those being put and those taken.  *)
CounterIsWork ==
  counter = Len(queue)
            + Cardinality({a \in Actors : pc[a] \in {"zero", "put"}})
            + Cardinality({w \in Workers : pc[w] \in
                 {"run", "add", "zero", "put", "notify", "flag", "bell", "sub"}})

(* WaitIdle() returns only when everything submitted before the call has run, *)
(* the tasks that those tasks submitted included.                            *)
IdleMeansDone ==
  pc[Main] = "free" => owed \cup ({plan.child[t] : t \in owed} \ {NoTask}) \subseteq ended

(* Stop() is no cancellation: when it returns, what the queue accepted has    *)
(* run, once, and the two assertions of the destructor hold.                 *)
StopDrains ==
  pc[Main] = "stopped" =>
    /\ queue = <<>> /\ ~opened
    /\ \A t \in Tasks : ran[t] = IF t \in accepted THEN 1 ELSE 0

(* No task is stranded in the queue while workers are parked on the two       *)
(* condition variables.                                                      *)
EveryTaskRuns == \A t \in Tasks : t \in accepted ~> ran[t] = 1

(* WaitIdle() returns, since the scripts are finite.                          *)
IdleReturns == pc[Main] \in {"load", "load last"} ~> pc[Main] = "free"

(* Stop() returns: every worker leaves its loop.                              *)
StopReturns == pc[Main] = "stop" ~> pc[Main] = "stopped"
=============================================================================
