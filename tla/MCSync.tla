------------------------------- MODULE MCSync -------------------------------
(* The blocking primitives of tasks/mutex/queue, tasks/cond and                 *)
(* tasks/futures/std, and the philosophers of tasks/mutex/dining, one behaviour *)
(* checking one of them: `object` says which.                                  *)
(* The variables of the others stay as they are.                              *)
EXTENDS Integers, FiniteSets

CONSTANTS
  Trio, Pair, Other,                       \* threads
  Values, Null,
  Ring, Tickets,                           \* cells of the condition variable, calls of its Wait()
  Adders, Jobs, Joiners, AdderOf,          \* threads of the wait group, and who announces which job
  AddsFirst                                \* its Wait() is called after the Adds

(* The threads of an object are different ones. *)
ASSUME SyncAssumption ==
  /\ IsFiniteSet(Trio) /\ Null \notin Trio \cup Pair
  /\ IsFiniteSet(Other) /\ Other # {} /\ Pair \cap Other = {}
  /\ IsFiniteSet(Jobs) /\ Joiners # {} /\ AdderOf \in [Jobs -> Adders]
  /\ Adders \cap Jobs = {} /\ Adders \cap Joiners = {} /\ Jobs \cap Joiners = {}

(* The ring has cells; Wait() may be called more often than that. *)
ASSUME RingAssumption == Ring \in Nat \ {0} /\ Tickets \in Nat

VARIABLES
  object,
  l_tail, l_next, l_is_owner, l_pc, l_prev, l_line,
  c_t, c_h, c_cell, c_mtx, c_pc, c_tail, c_head, c_all, c_goal,
  g_counter, g_done, g_sleepers, g_pc, g_owed, g_alive,
  b_tokens, b_asleep, b_pc, b_capacity, b_buffer, b_seen, b_item, b_calls,
  r_arrived, r_departed, r_notified, r_mtx, r_pc, r_came, r_left,
  f_index, f_stored, f_result, f_mtx, f_producer, f_consumer, f_got,
  d_seats, d_fork, d_pc, d_meals

lockVars    == <<l_tail, l_next, l_is_owner, l_pc, l_prev, l_line>>
condVars    == <<c_t, c_h, c_cell, c_mtx, c_pc, c_tail, c_head, c_all, c_goal>>
groupVars   == <<g_counter, g_done, g_sleepers, g_pc, g_owed, g_alive>>
queueVars   == <<b_tokens, b_asleep, b_pc, b_capacity, b_buffer, b_seen, b_item, b_calls>>
barrierVars == <<r_arrived, r_departed, r_notified, r_mtx, r_pc, r_came, r_left>>
futureVars  == <<f_index, f_stored, f_result, f_mtx, f_producer, f_consumer, f_got>>
diningVars  == <<d_seats, d_fork, d_pc, d_meals>>
vars == <<object, lockVars, condVars, groupVars, queueVars, barrierVars, futureVars, diningVars>>

Lock ==
  INSTANCE QueueSpinLock
  WITH Threads <- Trio,
       tail <- l_tail, next <- l_next, is_owner <- l_is_owner, pc <- l_pc, prev <- l_prev,
       line <- l_line

Cond ==
  INSTANCE CondVar
  WITH Waiters <- Pair, Notifiers <- Other, Size <- Ring, MaxTickets <- Tickets, Nobody <- Null,
       t <- c_t, h <- c_h, cell <- c_cell, mtx <- c_mtx, pc <- c_pc, tail <- c_tail,
       head <- c_head, all <- c_all, goal <- c_goal

Group ==
  INSTANCE WaitGroupClients
  WITH Waiters <- Joiners, counter <- g_counter, done <- g_done, sleepers <- g_sleepers, pc <- g_pc,
       owed <- g_owed, alive <- g_alive

Queue ==
  INSTANCE BoundedQueue
  WITH Threads <- Pair \cup Other, Semaphores <- {"free_sem", "avail_sem", "mutex_sem"},
       Producers <- Pair, Consumers <- Other, Capacities <- {1, 2}, Items <- Values,
       NoItem <- Null, MaxCalls <- 2,
       tokens <- b_tokens, asleep <- b_asleep, pc <- b_pc, capacity <- b_capacity,
       buffer <- b_buffer, seen <- b_seen, item <- b_item, calls <- b_calls

Barrier ==
  INSTANCE CyclicBarrier
  WITH Threads <- Trio, MaxRounds <- 3, NoThread <- Null,
       arrived <- r_arrived, departed <- r_departed, notified <- r_notified, mtx <- r_mtx,
       pc <- r_pc, came <- r_came, left <- r_left

Future ==
  INSTANCE StdFuture
  WITH Results <- Values, NoResult <- Null,
       index <- f_index, stored <- f_stored, result <- f_result, mtx <- f_mtx,
       producer <- f_producer, consumer <- f_consumer, got <- f_got

Table ==
  INSTANCE Dining
  WITH MaxSeats <- 4, Meals <- 2, seats <- d_seats, fork <- d_fork, pc <- d_pc, meals <- d_meals

(* Only the object that is checked makes a choice at the start. *)
Init ==
  /\ object \in {"lock", "condvar", "group", "queue", "barrier", "future", "dining"}
  /\ Lock!Init /\ Cond!Init /\ Group!Init /\ Queue!Init /\ Barrier!Init /\ Future!Init /\ Table!Init
  /\ object # "queue" => b_capacity = 1
  /\ object # "future" => f_result = CHOOSE v \in Values : TRUE
  /\ object # "dining" => d_seats = 2

(* The last call of Wait(), the one that takes a cell again, and what follows it *)
(* are checked with one notifier: it bounds the states.                         *)
LastWithOneNotifier ==
  c_t' = Tickets => \E m \in Other : \A n \in Other \ {m} : c_pc'[n] = "idle"

LockOnly    ==
  object = "lock" /\ UNCHANGED <<object, condVars, groupVars, queueVars, barrierVars, futureVars, diningVars>>
CondOnly    ==
  object = "condvar" /\ UNCHANGED <<object, lockVars, groupVars, queueVars, barrierVars, futureVars, diningVars>>
GroupOnly   ==
  object = "group" /\ UNCHANGED <<object, lockVars, condVars, queueVars, barrierVars, futureVars, diningVars>>
QueueOnly   ==
  object = "queue" /\ UNCHANGED <<object, lockVars, condVars, groupVars, barrierVars, futureVars, diningVars>>
BarrierOnly ==
  object = "barrier" /\ UNCHANGED <<object, lockVars, condVars, groupVars, queueVars, futureVars, diningVars>>
FutureOnly  ==
  object = "future" /\ UNCHANGED <<object, lockVars, condVars, groupVars, queueVars, barrierVars, diningVars>>
DiningOnly  ==
  object = "dining" /\ UNCHANGED <<object, lockVars, condVars, groupVars, queueVars, barrierVars, futureVars>>

Next ==
  \/ LockOnly /\ Lock!Next
  \/ CondOnly /\ Cond!Next /\ LastWithOneNotifier
  \/ GroupOnly /\ Group!Next
  \/ QueueOnly /\ Queue!Next
  \/ BarrierOnly /\ Barrier!Next
  \/ FutureOnly /\ Future!Next
  \/ DiningOnly /\ Table!Next

(* What each module says of its threads: an operation that has begun goes on,   *)
(* and a waiter of the condition variable gets the mutex that is free again and *)
(* again.                                                                     *)
Fairness ==
  /\ \A t \in Trio : WF_vars(LockOnly /\ Lock!Step(t)) /\ WF_vars(BarrierOnly /\ (Barrier!Come(t) \/ Barrier!Step(t)))
  /\ \A w \in Pair :
       /\ WF_vars(CondOnly /\ (Cond!Unlock(w) \/ Cond!Sleep(w) \/ Cond!Reset(w) \/ Cond!Leave(w)))
       /\ SF_vars(CondOnly /\ Cond!Relock(w))
  /\ \A n \in Other : WF_vars(CondOnly /\ Cond!NotifyStep(n))
  /\ \A a \in Adders \cup Jobs \cup Joiners : WF_vars(GroupOnly /\ Group!Step(a))
  /\ \A t \in Pair \cup Other : WF_vars(QueueOnly /\ (Queue!Call(t) \/ Queue!Step(t)))
  /\ WF_vars(FutureOnly /\ Future!Produce) /\ WF_vars(FutureOnly /\ Future!Consume)
  /\ \A i \in 0..3 : WF_vars(DiningOnly /\ i < d_seats /\ Table!Step(i))

Spec == Init /\ [][Next]_vars
FairSpec == Spec /\ Fairness

-----------------------------------------------------------------------------
(* The queue lock is taken in the order of the exchanges, by one at a time, and  *)
(* no two philosophers are at one plate.                                       *)
InTurn == Lock!InTurn /\ Table!PlatesApart

(* Release() and Acquire() of the queue lock write to guards that exist, and     *)
(* the last Done() stores into a wait group that exists.                       *)
TouchesLiveObjects == Lock!TouchesLiveGuards /\ Group!StoreToLiveObject

(* Tickets never run further ahead than the notifiers in flight, and a waiter    *)
(* whose ticket was drawn finds its cell raised, as long as no waiter is a       *)
(* whole ring late.                                                            *)
NotificationsAreKept == []Cond!TypeOK /\ Cond!NotificationsAreKept

(* Nobody who waits is left out of a NotifyOne() or NotifyAll() that returns. *)
NobodyIsForgotten == Cond!NobodyIsForgotten

(* Wait() of the wait group blocks until the announced jobs are done. *)
WaitBlocks == Group!WaitBlocks

(* The queue of semaphores is a bounded queue: linearizable, first in first out, *)
(* Put() waits for room and Take() for an item.  The queue of guards is a lock:  *)
(* it passes when nobody has it.                                               *)
ImplementsQueueAndLock ==
  /\ Queue!Promised!Init /\ Lock!Lock!Init
  /\ [][/\ object = "queue" => [Queue!Promised!Next]_(Queue!Promised!vars)
        /\ object = "lock" => [Lock!Lock!Next]_(Lock!lockState)]_vars

(* Nobody crosses the barrier before all have come in this round. *)
RoundsAreWhole == Barrier!RoundsAreWhole

OneOf(S) == CHOOSE x \in S : TRUE

(* One of the adders has one job, the other one the rest. *)
MCAdderOf ==
  [j \in Jobs |-> IF j = OneOf(Jobs) THEN OneOf(Adders) ELSE OneOf(Adders \ {OneOf(Adders)})]

(* A thread in the middle of an operation, and the same thread when it is over. *)
(* The threads of the lock are alike, and so are the waiters: one stands for     *)
(* all.  The others have an end that all reach.                                   *)
Waits ==
  \/ object = "lock" /\ Lock!lockState[OneOf(Trio)] = "locking"
  \/ object = "condvar" /\ c_pc[OneOf(Pair)] \in Cond!InWait /\ c_tail[OneOf(Pair)] < c_h
  \/ object = "group" /\ g_pc[OneOf(Joiners)] = "wait"
  \/ object \in {"queue", "barrier", "future", "dining"}

Served ==
  \/ object = "lock" /\ Lock!lockState[OneOf(Trio)] = "held"
  \/ object = "condvar" /\ c_pc[OneOf(Pair)] = "inside"
  \/ object = "group" /\ g_pc[OneOf(Joiners)] = "end"
  \/ object = "queue" /\ Queue!Over
  \/ object = "barrier" /\ Barrier!Over
  \/ object = "future" /\ Future!Over
  \/ object = "dining" /\ Table!AllAte

(* No wake-up is lost and nobody waits for ever: Acquire() of the queue lock     *)
(* gets it, a notified Wait() returns, Wait() of the wait group returns, as many *)
(* Put() and Take() all come through, so do the rounds of the barrier, Get()     *)
(* returns, and every philosopher eats.                                        *)
EveryCallReturns == []Cond!CellsApart => (Waits ~> Served)
=============================================================================
