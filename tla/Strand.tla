------------------------------- MODULE Strand -------------------------------
(* exe::executors::Strand of tasks/executors/exe/executors/strand.cpp: tasks   *)
(* are put into a lock-free queue and run in batches by a job, Run(), that     *)
(* the strand submits to the underlying executor when it has something to do. *)
(*                                                                           *)
(* Submitters are the threads (or tasks) that call Submit(); runners are the  *)
(* threads of the underlying executor, which runs every job once but in no    *)
(* particular order.  The queue is exe::support::MSQueue seen from outside:   *)
(* Put() links the task and then, in a second step, counts it in size_;        *)
(* Take() unlinks and then counts down; IsEmpty() looks at size_ only.        *)
(*                                                                           *)
(* scheduled_ and size_ are unsigned in the code, and scheduled_ does wrap     *)
(* below zero.  Here they are integers: apart from = 0 the code compares       *)
(* scheduled_ only at the end of a job, and CountIsPositive shows that no      *)
(* counter is below zero while a job is active.                               *)
EXTENDS Integers, Sequences

CONSTANTS
  Submitters,
  Runners,
  Tasks

VARIABLES
  tasks,         \* tasks_, in the order of the links
  size,          \* tasks_.size_
  sched,         \* scheduled_
  pending,       \* Run() jobs in the underlying executor that have not begun
  pc,
  batch,         \* processing_tasks of each runner
  completed,     \* what RunTasks has counted
  refs, owner,   \* the count of Impl's references; the Strand still holds one
  order, ran     \* history: tasks in the order of Put(), and as they ran

vars == <<tasks, size, sched, pending, pc, batch, completed, refs, owner, order, ran>>

Range(s) == {s[i] : i \in DOMAIN s}

Init ==
  /\ tasks = <<>>
  /\ size = 0
  /\ sched = 0
  /\ pending = 0
  /\ pc = [a \in Submitters \cup Runners |-> "idle"]
  /\ batch = [r \in Runners |-> <<>>]
  /\ completed = [r \in Runners |-> 0]
  /\ refs = 1
  /\ owner = TRUE
  /\ order = <<>>
  /\ ran = <<>>

Goto(a, to) == pc' = [pc EXCEPT ![a] = to]

(* SubmitSelf() *)
LaunchJob ==
  /\ pending' = pending + 1
  /\ refs' = refs + 1

-----------------------------------------------------------------------------
(* Submit(task): tasks_.Put links the task ... *)
Put(s) ==
  /\ pc[s] = "idle"
  /\ owner
  /\ \E t \in Tasks \ Range(order) :
       /\ tasks' = Append(tasks, t)
       /\ order' = Append(order, t)
  /\ Goto(s, "size")
  /\ UNCHANGED <<size, sched, pending, batch, completed, refs, owner, ran>>

(* ... and counts it. *)
PutSize(s) ==
  /\ pc[s] = "size"
  /\ size' = size + 1
  /\ Goto(s, "count")
  /\ UNCHANGED <<tasks, sched, pending, batch, completed, refs, owner, order, ran>>

(* Variant: the first task in the queue, not the first that is counted, starts *)
(* a job.                                                                     *)
CountByQueue(s) ==
  /\ pc[s] = "count"
  /\ sched' = sched + 1
  /\ Goto(s, IF size = 1 THEN "launch" ELSE "idle")
  /\ UNCHANGED <<tasks, size, pending, batch, completed, refs, owner, order, ran>>

(* scheduled_.fetch_add(1) *)
Count(s) ==
  /\ pc[s] = "count"
  /\ sched' = sched + 1
  /\ Goto(s, IF sched = 0 THEN "launch" ELSE "idle")
  /\ UNCHANGED <<tasks, size, pending, batch, completed, refs, owner, order, ran>>

Launch(s) ==
  /\ pc[s] = "launch"
  /\ LaunchJob
  /\ Goto(s, "idle")
  /\ UNCHANGED <<tasks, size, sched, batch, completed, owner, order, ran>>

(* The Strand object is destroyed once nobody is inside its Submit(). *)
DropOwner ==
  /\ owner
  /\ \A s \in Submitters : pc[s] = "idle"
  /\ owner' = FALSE
  /\ refs' = refs - 1
  /\ UNCHANGED <<tasks, size, sched, pending, pc, batch, completed, order, ran>>

-----------------------------------------------------------------------------
(* Run(): the executor starts a job on a free thread. *)
Begin(r) ==
  /\ pc[r] = "idle"
  /\ pending > 0
  /\ pending' = pending - 1
  /\ completed' = [completed EXCEPT ![r] = 0]
  /\ Goto(r, "take")
  /\ UNCHANGED <<tasks, size, sched, batch, refs, owner, order, ran>>

(* tasks_.Take().value(): on an empty queue the exception leaves a noexcept   *)
(* function and the program is terminated.                                   *)
Take(r) ==
  /\ pc[r] = "take"
  /\ IF tasks = <<>>
     THEN Goto(r, "crash") /\ UNCHANGED <<tasks, batch>>
     ELSE /\ batch' = [batch EXCEPT ![r] = Append(@, Head(tasks))]
          /\ tasks' = Tail(tasks)
          /\ Goto(r, "taken")
  /\ UNCHANGED <<size, sched, pending, completed, refs, owner, order, ran>>

TakeSize(r) ==
  /\ pc[r] = "taken"
  /\ size' = size - 1
  /\ Goto(r, "more")
  /\ UNCHANGED <<tasks, sched, pending, batch, completed, refs, owner, order, ran>>

(* Variant: the batch ends when scheduled_ tasks were taken. *)
MoreByCount(r) ==
  /\ pc[r] = "more"
  /\ Goto(r, IF Len(batch[r]) < sched + 1 THEN "take" ELSE "run")
  /\ UNCHANGED <<tasks, size, sched, pending, batch, completed, refs, owner, order, ran>>

(* while (!tasks_.IsEmpty()) *)
More(r) ==
  /\ pc[r] = "more"
  /\ Goto(r, IF size # 0 THEN "take" ELSE "run")
  /\ UNCHANGED <<tasks, size, sched, pending, batch, completed, refs, owner, order, ran>>

(* RunTasks: one task after the other. *)
RunTask(r) ==
  /\ pc[r] = "run"
  /\ batch[r] # <<>>
  /\ ran' = Append(ran, Head(batch[r]))
  /\ batch' = [batch EXCEPT ![r] = Tail(@)]
  /\ completed' = [completed EXCEPT ![r] = @ + 1]
  /\ UNCHANGED <<tasks, size, sched, pending, pc, refs, owner, order>>

(* Variant: the job never goes on, the next Submit() has to start one. *)
FinishForGood(r) ==
  /\ pc[r] = "run"
  /\ batch[r] = <<>>
  /\ sched' = sched - completed[r]
  /\ Goto(r, "release")
  /\ UNCHANGED <<tasks, size, pending, batch, completed, refs, owner, order, ran>>

(* scheduled_.fetch_sub(completed) *)
Finish(r) ==
  /\ pc[r] = "run"
  /\ batch[r] = <<>>
  /\ sched' = sched - completed[r]
  /\ Goto(r, IF sched > completed[r] THEN "again" ELSE "release")
  /\ UNCHANGED <<tasks, size, pending, batch, completed, refs, owner, order, ran>>

Again(r) ==
  /\ pc[r] = "again"
  /\ LaunchJob
  /\ Goto(r, "release")
  /\ UNCHANGED <<tasks, size, sched, batch, completed, owner, order, ran>>

(* ReleaseRef() *)
Release(r) ==
  /\ pc[r] = "release"
  /\ refs' = refs - 1
  /\ Goto(r, "idle")
  /\ UNCHANGED <<tasks, size, sched, pending, batch, completed, owner, order, ran>>

-----------------------------------------------------------------------------
SubmitStep(s) == PutSize(s) \/ Count(s) \/ Launch(s)

RunStep(r) ==
  \/ Begin(r)
  \/ Take(r)
  \/ TakeSize(r)
  \/ More(r)
  \/ RunTask(r)
  \/ Finish(r)
  \/ Again(r)
  \/ Release(r)

(* The strand is gone, and nobody has anything left to do. *)
Terminated ==
  /\ ~owner
  /\ pending = 0
  /\ \A a \in Submitters \cup Runners : pc[a] = "idle"
  /\ UNCHANGED vars

Next ==
  \/ \E s \in Submitters : Put(s) \/ SubmitStep(s)
  \/ \E r \in Runners : RunStep(r)
  \/ DropOwner
  \/ Terminated

Spec == Init /\ [][Next]_vars

(* A Submit() that has begun goes on, and the executor keeps its promise that *)
(* every job it was given is eventually run: executors/readme.md says this is *)
(* all a strand may assume of it.                                            *)
FairSpec ==
  /\ Spec
  /\ \A s \in Submitters : WF_vars(SubmitStep(s))
  /\ \A r \in Runners : WF_vars(RunStep(r))

-----------------------------------------------------------------------------
Active(r)   == pc[r] \in {"take", "taken", "more", "run"}
HasJob(r)   == Active(r) \/ pc[r] = "again"

TypeOK ==
  /\ tasks \in Seq(Tasks) /\ order \in Seq(Tasks) /\ ran \in Seq(Tasks)
  /\ size \in Int /\ sched \in Int /\ pending \in Nat /\ refs \in Nat
  /\ owner \in BOOLEAN
  /\ pc \in [Submitters \cup Runners ->
               {"idle", "size", "count", "launch",
                "take", "taken", "more", "run", "again", "release", "crash"}]
  /\ \A s \in Submitters : pc[s] \in {"idle", "size", "count", "launch"}
  /\ \A r \in Runners : pc[r] \notin {"size", "count", "launch"}
  /\ batch \in [Runners -> Seq(Tasks)]
  /\ completed \in [Runners -> Nat]

(* Critical sections of a strand never overlap: at most one job is active.    *)
Serial == \A q, r \in Runners : Active(q) /\ Active(r) => q = r

(* Take().value() never meets an empty queue, although scheduled_, size_ and  *)
(* the links of the queue change in three separate steps of Submit().         *)
NeverCrashes == \A r \in Runners : pc[r] # "crash" /\ (pc[r] = "take" => tasks # <<>>)

(* Where a job looks at them the two counters have not wrapped: scheduled_ may *)
(* be behind the batch (a Submit() that has not counted yet) and go below zero *)
(* when the job ends, but a job only begins, and goes on, above zero.         *)
CountIsPositive == size >= 0 /\ \A r \in Runners : Active(r) => sched > 0

(* Tasks run once each, in the order in which Put() linked them: a batch, the *)
(* rest of the queue and what has run make up the history of Put().           *)
InOrder ==
  \/ order = ran \o tasks
  \/ \E r \in Runners : Active(r) /\ order = ran \o batch[r] \o tasks

(* Impl outlives the Strand as long as a job or a Submit() needs it.          *)
Alive ==
  (pending > 0 \/ \E a \in Submitters \cup Runners : pc[a] \notin {"idle", "crash"})
    => refs > 0

(* Every task that was put is run, whether or not other Submit() calls follow. *)
EveryTaskRuns == \A t \in Tasks : t \in Range(order) ~> t \in Range(ran)
=============================================================================
