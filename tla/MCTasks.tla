------------------------------ MODULE MCTasks ------------------------------
(* What tasks/executors and tasks/futures/fun run their callbacks with: the     *)
(* strand, the combinators First and Both, the chains of sequential combinators, *)
(* the fibers of tasks/fibers/mutex and those of tasks/fibers/sleep_for;        *)
(* `object` says which one a behaviour checks.                                *)
EXTENDS FiberPlans, FiniteSets

CONSTANTS
  Submitters, Runners, Tasks,     \* of the strand
  Main, Workers,                  \* of the chains; the threads in run() of the sleepers are workers, too
  Nothing,
  AllFibers, Carriers,            \* the fibers, and the workers of the pool they run on
  Plans,                          \* what the fibers do
  Sleeping, Naps                  \* the fibers that sleep, and what they do

(* Whoever submits to the strand counts as another thread than those that run it, *)
(* also a task of the strand that submits.                                    *)
ASSUME StrandAssumption ==
  IsFiniteSet(Submitters) /\ IsFiniteSet(Runners) /\ Submitters \cap Runners = {}

(* The fibers that sleep are named by the Go() that starts them: no two start the  *)
(* same one.                                                                   *)
ASSUME NapsAssumption ==
  /\ Nothing \notin Sleeping
  /\ Sleeping \cap {"sleep", "yield", "end"} = {}
  /\ \A p \in Naps :
       /\ p.begin \in Seq(Sleeping)
       /\ p.script \in [Sleeping -> Seq(Sleeping \cup {"sleep", "yield"})]
       /\ \A i, j \in 1..Len(p.begin) : p.begin[i] = p.begin[j] => i = j
       /\ \A f, g \in Sleeping : \A i \in 1..Len(p.script[f]), j \in 1..Len(p.script[g]) :
            p.script[f][i] \in Sleeping /\ p.script[f][i] = p.script[g][j] => f = g /\ i = j
       /\ \A f \in Sleeping : \A i \in 1..Len(p.script[f]), j \in 1..Len(p.begin) :
            p.script[f][i] # p.begin[j]

(* A plan of the fibers starts each one that has something to do once.  The event  *)
(* is fired once, a fiber unlocks only what it has locked, and one fiber, before   *)
(* there are others, adds all that is to be done to the group.                    *)
Operations == {"yield", "lock", "unlock", "await", "fire", "add", "done", "wait", "delete"}

(* Where an operation is in the routines, counted from their ends. *)
Marks(script, op) ==
  UNION {{<<f, k>> : k \in {i \in 1..Len(script[f]) : script[f][Len(script[f]) + 1 - i] = op}} : f \in AllFibers}

ASSUME RoutinesAssumption ==
  /\ IsFiniteSet(AllFibers) /\ Nothing \notin AllFibers /\ AllFibers \cap Operations = {}
  /\ \A p \in Plans :
       /\ p.begin \in Seq(AllFibers)
       /\ p.script \in [AllFibers -> Seq(AllFibers \cup Operations)]
       /\ \A i, j \in 1..Len(p.begin) : p.begin[i] = p.begin[j] => i = j
       /\ \A f, g \in AllFibers : \A i \in 1..Len(p.script[f]), j \in 1..Len(p.script[g]) :
            p.script[f][i] \in AllFibers \cup {"fire"} /\ p.script[f][i] = p.script[g][j] => f = g /\ i = j
       /\ \A f \in AllFibers : \A i \in 1..Len(p.script[f]), j \in 1..Len(p.begin) :
            p.script[f][i] # p.begin[j]
       /\ \A f \in AllFibers :
            p.script[f] # <<>> <=> \/ \E i \in 1..Len(p.begin) : p.begin[i] = f
                                  \/ \E g \in AllFibers : \E i \in 1..Len(p.script[g]) : p.script[g][i] = f
       /\ \A f \in AllFibers : \A j \in 1..Len(p.script[f]) :
            p.script[f][j] = "unlock" =>
              \E i \in 1..(j - 1) : p.script[f][i] = "lock" /\ \A k \in i..(j - 1) : p.script[f][k] # "unlock"
       /\ \A f \in AllFibers : \A j \in 1..Len(p.script[f]) :
            p.script[f][j] = "add" => p.begin = <<f>> /\ \A i \in 1..j : p.script[f][i] = "add"
       /\ Cardinality(Marks(p.script, "add")) = Cardinality(Marks(p.script, "done"))
       /\ \A op \in {"add", "done"} : IsFiniteSet(Marks(p.script, op))

VARIABLES
  object,
  s_tasks, s_size, s_sched, s_pending, s_pc, s_batch, s_completed, s_refs, s_owner, s_order, s_ran,
  p_result, p_callback, p_state, p_todo,
  p_kind, p_outcome, p_counter, p_refs, p_tuple, p_invoked, p_got, p_first,
  q_result, q_callback, q_state, q_todo,
  q_chain, q_outcome, q_executor, q_tasks, q_manual, q_calledBy, q_got, q_crashed,
  f_ready, f_on, f_pc, f_script, f_taken, f_st, f_parked, f_spin, f_fired, f_waiting, f_guard,
  f_countdown, f_inWait, f_completed, f_queued, f_latch, f_deleted,
  z_handlers, z_deferred, z_timers, z_on, z_coro, z_status, z_script

strandVars  == <<s_tasks, s_size, s_sched, s_pending, s_pc, s_batch, s_completed, s_refs, s_owner, s_order, s_ran>>
combineVars == <<p_result, p_callback, p_state, p_todo, p_kind, p_outcome, p_counter, p_refs, p_tuple,
                 p_invoked, p_got, p_first>>
chainVars   == <<q_result, q_callback, q_state, q_todo, q_chain, q_outcome, q_executor, q_tasks,
                 q_manual, q_calledBy, q_got, q_crashed>>
fiberVars   == <<f_ready, f_on, f_pc, f_script, f_taken, f_st, f_parked, f_spin, f_fired, f_waiting,
                 f_guard, f_countdown, f_inWait, f_completed, f_queued, f_latch, f_deleted>>
sleepVars   == <<z_handlers, z_deferred, z_timers, z_on, z_coro, z_status, z_script>>
vars == <<object, strandVars, combineVars, chainVars, fiberVars, sleepVars>>

Strands ==
  INSTANCE Strand
  WITH tasks <- s_tasks, size <- s_size, sched <- s_sched, pending <- s_pending, pc <- s_pc,
       batch <- s_batch, completed <- s_completed, refs <- s_refs, owner <- s_owner,
       order <- s_order, ran <- s_ran

(* Producers 1 and 2 fulfil the inputs 1 and 2. *)
Combine ==
  INSTANCE FutureCombinators
  WITH Threads <- {1, 2, 3}, Main <- 3, Out <- 4, Pair <- 5, Futures <- {1, 2, 4},
       Values <- {1, 2, 5}, Nothing <- 0,
       result <- p_result, callback <- p_callback, state <- p_state, todo <- p_todo,
       kind <- p_kind, outcome <- p_outcome, counter <- p_counter, refs <- p_refs,
       tuple <- p_tuple, invoked <- p_invoked, got <- p_got, first <- p_first

(* Every pair of stages, and chains that flatten what a stage has nested. *)
Chains ==
  {<<a, b>> : a, b \in {"map", "and_then", "or_else", "flat_map"}}
    \cup {<<"nest", "flatten">>, <<"nest", "flatten", "map">>, <<"or_else", "flat_map", "and_then">>}

Chain ==
  INSTANCE FutureChain
  WITH Threads <- {Main} \cup Workers, Futures <- {0, 1, 2, 3, 11, 12, 13},
       Values <- [ok : BOOLEAN, by : 0..3], InnerErrors <- FALSE,
       result <- q_result, callback <- q_callback, state <- q_state, todo <- q_todo,
       chain <- q_chain, outcome <- q_outcome, executor <- q_executor, tasks <- q_tasks, manual <- q_manual,
       calledBy <- q_calledBy, got <- q_got, crashed <- q_crashed

Fiber ==
  INSTANCE FiberClients
  WITH Workers <- Carriers, NoFiber <- Nothing,
       ready <- f_ready, on <- f_on, pc <- f_pc, script <- f_script, taken <- f_taken,
       st <- f_st, parked <- f_parked, spin <- f_spin,
       fired <- f_fired, waiting <- f_waiting, guard <- f_guard,
       countdown <- f_countdown, inWait <- f_inWait, completed <- f_completed,
       queued <- f_queued, latch <- f_latch, deleted <- f_deleted

Sleep ==
  INSTANCE FiberSleep
  WITH AllFibers <- Sleeping, NoFiber <- Nothing, Plans <- Naps,
       handlers <- z_handlers, deferred <- z_deferred, timers <- z_timers, on <- z_on,
       coro <- z_coro, status <- z_status, script <- z_script

(* Only the object that is checked makes a choice at the start. *)
NoCombination ==
  /\ p_kind = "First"
  /\ p_outcome = [i \in {1, 2} |-> "ok"]
  /\ p_todo[3] = Combine!SetCallback(1) \o Combine!SetCallback(2) \o <<<<"get", 4>>>>

NoChain ==
  /\ q_chain = <<"map", "map">>
  /\ q_outcome = [j \in 0..2 |-> TRUE]
  /\ q_executor[0] = "pool"
  /\ \E i \in DOMAIN q_todo[Main] : q_todo[Main][i][1] = "get"

NoFibers == f_script = (CHOOSE p \in Plans : TRUE).script
NoSleepers == z_script = (CHOOSE p \in Naps : TRUE).script

Init ==
  /\ object \in {"strand", "combine", "chain", "fibers", "sleep"}
  /\ Strands!Init /\ Combine!Init /\ Chain!Init /\ Fiber!Init /\ Sleep!Init
  /\ object # "combine" => NoCombination
  /\ object # "chain" => NoChain
  /\ object # "fibers" => NoFibers
  /\ object # "sleep" => NoSleepers

StrandOnly  == object = "strand" /\ UNCHANGED <<object, combineVars, chainVars, fiberVars, sleepVars>>
CombineOnly == object = "combine" /\ UNCHANGED <<object, strandVars, chainVars, fiberVars, sleepVars>>
ChainOnly   == object = "chain" /\ UNCHANGED <<object, strandVars, combineVars, fiberVars, sleepVars>>
FibersOnly  == object = "fibers" /\ UNCHANGED <<object, strandVars, combineVars, chainVars, sleepVars>>
SleepOnly   == object = "sleep" /\ UNCHANGED <<object, strandVars, combineVars, chainVars, fiberVars>>

Next ==
  \/ StrandOnly /\ Strands!Next
  \/ CombineOnly /\ Combine!Next
  \/ ChainOnly /\ Chain!Next
  \/ FibersOnly /\ Fiber!Next
  \/ SleepOnly /\ Sleep!Next

(* The executor under a strand runs every job, every thread is scheduled, and     *)
(* every timer expires.                                                        *)
Fairness ==
  /\ \A s \in Submitters : WF_vars(StrandOnly /\ Strands!SubmitStep(s))
  /\ \A r \in Runners : WF_vars(StrandOnly /\ Strands!RunStep(r))
  /\ \A t \in {1, 2, 3} : WF_vars(CombineOnly /\ Combine!Step(t))
  /\ \A t \in {Main} \cup Workers : WF_vars(ChainOnly /\ Chain!Step(t))
  /\ \A w \in Carriers : WF_vars(FibersOnly /\ Fiber!Resume(w))
  /\ \A f \in AllFibers : WF_vars(FibersOnly /\ Fiber!Step(f))
  /\ \A w \in Workers : WF_vars(SleepOnly /\ Sleep!Step(w))
  /\ \A f \in Sleeping : WF_vars(SleepOnly /\ Sleep!Expire(f))

Spec == Init /\ [][Next]_vars
FairSpec == Spec /\ Fairness

-----------------------------------------------------------------------------
(* Critical sections of a strand never overlap, and its tasks run once each, in  *)
(* the order of Put().                                                         *)
OneByOneInOrder == Strands!Serial /\ Strands!InOrder

(* A job of the strand never takes from an empty queue, sees no counter below     *)
(* zero, and Impl outlives it; a callback of First or Both never touches the     *)
(* counter that the last one has deleted.                                      *)
NothingBreaks ==
  /\ Strands!TypeOK /\ Strands!NeverCrashes /\ Strands!CountIsPositive /\ Strands!Alive
  /\ Combine!CounterIsAlive

(* The callback of a future is submitted once, by the later of SetResult() and    *)
(* SetCallback().                                                              *)
SubmittedOnce == Combine!TypeOK /\ Combine!SubmittedOnce

(* The consumer gets the result that the combinators promise. *)
RightResult == Combine!RightResult /\ Chain!RightResult

(* After Via(pool) the functions of a chain run in the pool. *)
RunsWhereTold == Chain!RunsWhereTold

(* The mutex of the fibers has one owner at most, also when Unlock() hands it     *)
(* over.                                                                      *)
Exclusive == Fiber!Exclusive

(* A fiber is in one place: it is neither resumed twice nor lost between its     *)
(* suspension and the queue its awaiter puts it in.                            *)
OnePlace == Fiber!OnePlace /\ Fiber!TypeOK

(* A sleeping fiber is resumed once, by its timer, and not while it still stops;  *)
(* and run() of the scheduler returns only after all fibers have ended.         *)
ResumedAfterStop == Sleep!TypeOK /\ Sleep!ResumedAfterStop /\ Sleep!RunReturnsLate

(* Done() and Fire() do not touch the group or the event after the waiters went  *)
(* on and deleted it.                                                          *)
TouchesLive == Fiber!TouchesLive

(* Wait() returns only after the event was fired, or all the jobs are done. *)
ResumedInTime == Fiber!ResumedInTime

(* The tasks of the strand are alike: one stands for all. *)
Task == CHOOSE t \in Tasks : TRUE

Waits  == object = "strand" => Task \in Strands!Range(s_order)
Served ==
  \/ object = "strand" /\ Task \in Strands!Range(s_ran)
  \/ object = "combine" /\ p_got # 0
  \/ object = "chain" /\ q_got # Nothing
  \/ object = "fibers" /\ Fiber!AllDone
  \/ object = "sleep" /\ Sleep!AllEnded

(* A task that was put into the strand is run, whether or not others follow, a   *)
(* consumer of a combination gets a result, and no fiber stays in a queue or      *)
(* sleeps for ever.                                                            *)
EverythingIsRun == Waits ~> Served
=============================================================================
