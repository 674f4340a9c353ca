# A verification of the concurrency course solutions

The repository holds solutions to a course on concurrency in C++: small, independent *tasks*
(`src/tasks/<topic>/<task>`), each a synchronisation primitive, a lock-free structure, or one layer of a
runtime (thread pool, executors, fibers, futures). This directory holds TLA+ models of those components,
the TLC runs that check them, and TLAPS proofs.

## Inventory

| Component | State it keeps | Operations | What is hard | What makes it correct |
|---|---|---|---|---|
| `mutex/mutex` `stdlike::Mutex` | one word: Unlocked / Locked / Sleeping, a futex | Lock, Unlock | fast path overtakes a wake-up | mutual exclusion, no lost wake-up, progress |
| `mutex/try-lock` `TicketLock` | two ticket counters | Lock, TryLock, Unlock | TryLock decides on a stale copy | exclusion, arrival order, refusal only of a busy lock |
| `mutex/queue` `QueueSpinLock` | a tail and a list of guards on stacks | Acquire, Release | hand-over to a guard that is not linked yet, guards that vanish | exclusion, arrival order, no write to a dead guard |
| `mutex/dining` | forks between seats, plates | Eat | circular wait | plates are exclusive, nobody starves |
| `cond/condvar` | two counters and a ring of 100 words, a mutex | Wait, NotifyOne, NotifyAll | release-and-wait, ring reuse | no missed notification |
| `cond/semaphore` | tokens, mutex, condvar; a queue from three semaphores | Acquire, Release, Put, Take | notification only on the step from 0 to 1 | a bounded queue, no stranded waiter |
| `cond/barrier` | arrived / departed counters, mutex, two condvars | ArriveAndWait | the next round starts while the last one leaves | nobody leaves a round early, all leave |
| `cond/wait_group` | counter_, done_ and its futex | Add, Done, Wait | two words, deletion after Wait | Wait blocks until zero, returns then |
| `lockfree/stack` | head with a stamp, split reference counts | Push, TryPop | node reclamation | no use after free, no leak, linearizable |
| `lockfree/shared_ptr` | pointer with a transient count, control blocks | Load, Store, CompareExchange, copies | count hand-over, stamp overflow | no use after free, no leak, an atomic pointer |
| `lockfree/queue` | Michael-Scott list | Push, TryPop, Count | helping, a shadowed variable | linearizable |
| `lockfree/steal` | ring buffer, head, tail | TryPush, TryPop, Grab | owner against thieves, slots reused | every item once, in order |
| `tasks/thread-pool` | queue, wait group, is_running_, second condvar | Start, Submit, WaitIdle, Stop | two condition variables, submit against stop | every task once, WaitIdle and Stop mean what they say |
| `tasks/executors` Strand, ManualExecutor | lock-free queue, scheduled_ counter; a queue | Submit, Run; Drain | counter against queue, batches | serial, in order, every task once |
| `fibers/mutex` | pool queue, waiters in lock-free queues, counters | Go, Yield, Event, Mutex, WaitGroup | suspend against resume, deletion after Wait | one thread per fiber, no lost fiber, exclusion |
| `fibers/sleep_for` | an io_context with handlers and timers | Go, Yield, SleepFor | a timer that expires before the fiber has stopped | resumed once, after it has stopped |
| `futures/std` | a variant, a mutex, a condition variable | SetValue, SetException, Get | the variant is written without the mutex | Get returns |
| `futures/fun` | shared state, callback, result, executor | SetResult, SetCallback, Get, First, Both, Map, FlatMap, ... | producer against consumer, two producers of one combinator, who runs a callback | callback once, with the right result, where it was told |

How they interact: fibers, strands and futures run on executors (`IExecutor::Submit`, mostly the thread pool);
the pool uses the blocking queue, the wait group and condition variables; those use mutexes and futexes.
Everything shares memory; there is no persistence and no message, so there are no crash-recovery and
no delivery hazards. Timeouts occur in `sleep_for` only.

External: the Twist library (futex, fault injection), Asio, Sure (context switch), wheels.

## The modules and the code

Every module says one thing: each access to shared memory (an atomic operation, a section under a mutex, a
futex call) is one action, `pc` or a list of pending operations is the program counter of a thread, and a
variable of the code keeps its name. Memory is sequentially consistent: where the code asks for weaker orders
(the exchanges of the stack, the reference counter of `Both`, the slots of the work-stealing queue) they are not
modelled. A definition whose comment begins with *Variant* is a plausible bug of the definition that
follows it; no specification uses it, it shows that a property can fail.

| Module | Code | State and actions |
|---|---|---|
| `AbstractLock` | what a lock promises | idle / locking / polling / held for each thread; progress and lockout freedom |
| `FutexMutex` | `mutex/mutex/mutex.hpp` | `m` is the word; `FastLock`, `Mark`, `Wait`, `Retry` are the operations of `Lock()`, `Unlock` and `Wake` the two of `Unlock()`; a futex call may return without a wake-up |
| `TicketLock` | `mutex/try-lock/ticket_lock.hpp` | the two counters; `LockDraw`, `LockPass`; `TryLoad`, then `TryTake` or `TryRefuse`; `Unlock` |
| `QueueSpinLock` | `mutex/queue/queue_spinlock.hpp` | `tail_`, and `next_`, `is_owner_` of each guard; `Exchange`, `Flag`, `Link`, `Pass`; `LookNext`, `Leave`, `Hand` |
| `Dining` | `mutex/dining/philosopher.cpp`, `table.hpp` | the owner of each fork; two steps to take them, one per plate, two to put them back |
| `CondVar` | `cond/condvar/condvar.hpp` | `t_`, `h_`, the ring; waiters run `Ticket` .. `Reset`, notifiers `Notify` .. `Wake`; the mutex is its owner |
| `Semaphore`, `BoundedQueue`, `AbstractBoundedQueue` | `cond/semaphore/*.hpp` | tokens and sleepers as operators; `Put()` and `Take()` go through three semaphores and read and write the deque in two steps; the abstract queue does either in one |
| `CyclicBarrier` | `cond/barrier/cyclic_barrier.hpp` | the two counters and the flag; `Come`, `Check` look without the mutex, `Limit`, `Arrive`, `Woken`, `Depart`, the two resets are steps under it |
| `WaitGroup`, `WaitGroupClients` | `cond/wait_group/wait_group.hpp` | the two words and the futex as operators; adders, jobs and waiters that use one object and then delete it |
| `BlockingQueue` | `tasks/thread-pool/tp/queue.hpp` | the queue, its flag, the workers parked on its condition variable, as operators |
| `ThreadPool` | `tasks/thread-pool/tp/thread_pool.cpp` | composes the queue, the wait group (`tp/wait_group.hpp` has the same `Add` and `Done`; its `Wait` looks at the counter) and the pool's own condition variable and flag |
| `Strand` | `tasks/executors/exe/executors/strand.cpp`, the outside of `exe/support/msqueue.hpp` | `scheduled_`, the queue and its `size_` as three separate steps; `Begin` .. `Release` are one `Run()` |
| `SharedState` | `futures/fun/exe/futures/state/shared_state.hpp` | `emplace` / `publish` of `SetResult()`, `store` / `subscribe` of `SetCallback()`; a callback is run by the thread that submits it, or by its executor |
| `FutureCombinators` | `combine/par/first.hpp`, `all.hpp` | two producers, a consumer, the shared counter with its references and tuple |
| `FutureChain` | `combine/seq/*.hpp`, `executors/manual.cpp` | a chain of stages, each a callback that fulfils the next future; the executor each future has, the queue of the pool and the one of the manual executor; `Drain` |
| `StdFuture` | `futures/std/stdlike/details/shared_state.hpp` | the variant as an index and a value that become visible one by one |
| `Fibers` | `fibers/mutex/exe/fibers/core`, `sched`, `coro` | the fiber on each worker, the queue of the pool, what is left of each routine; an awaiter is part of its fiber's steps |
| `FiberEvent`, `FiberMutex`, `FiberWaitGroup` | `fibers/mutex/exe/fibers/sync/*.hpp` | the words of each primitive; a section under the spinlock is a step |
| `FiberClients`, `FiberPlans` | the tests and the readme of `fibers/mutex` | fibers that share one primitive of each kind; what each fiber of a plan does |
| `FiberSleep` | `fibers/sleep_for/exe` | handlers, deferred handlers and timers of the io_context; `SleepFor`, `Arm`, `Expire`, `Step` |
| `AbstractStack`, `AbstractQueue`, `AbstractStealing` | what the lock-free objects promise | operations take effect once, in the order of the object, and an empty-handed return means that it was empty (or, for `Grab()`, that others were faster) |
| `LockFreeStack` | `lockfree/stack/lock_free_stack.hpp` | `head_` with its stamp, the memory at each address, the set of allocated addresses; `Push`, `PushCas`; `PopLoad` .. `PopDelete`; the destructor |
| `SharedPtrStack` | `lockfree/shared_ptr/shared_ptr.hpp`, `lock_free_stack.hpp` | both counters of each control block, the stamped top; a thread has a list of the count updates that a copy or a destructor still owes |
| `LockFreeQueue` | `lockfree/queue/lock_free_queue.hpp` | `head_`, `tail_`, `next`; the exchange that compares with an unassigned variable succeeds or fails as it likes |
| `WorkStealingQueue` | `lockfree/steal/work_stealing_queue.hpp` | `head_`, `tail_`, the ring; `Grab()` reads slot by slot, then exchanges |

The two that keep their promise only as long as a stamp fits into its word (`LockFreeStack`, `SharedPtrStack`)
bound it by a guard. Four modules put components together for a run, with a variable `object` that says which
one a behaviour checks: `MCLocks` (the two locks without guards), `MCSync` (what blocks), `MCTasks` (what runs on
executors), `MCLockFree`. The state
spaces add up; nothing is shared between them. `MCThreadPool` and `MCFutureChain` give
their module its constants. `MCLocksProofs`, `QueueSpinLockProofs`,
`DiningProofs`, `ThreadPoolProofs`, `MCSyncProofs`, `MCTasksProofs` and `MCChainProofs` hold the proofs.

## The runs

| Run | Instance | What it shows |
|---|---|---|
| `locks` | the futex mutex with 4 threads, or the ticket lock with 3 threads and 5 tickets | no wake-up is lost although the fast path overtakes `WakeOne` (`NoLostWakeup`), and somebody always gets the mutex (`MutexProgress`); a refusal of `TryLock` is justified (`RefusedOnlyWhenBusy`), entry is in ticket order (`InTicketOrder`), nobody is locked out (`TicketLockoutFree`); both implement `AbstractLock` (`MutexIsLock`, `TicketLockIsLock`) |
| `sync` | see below | `InTurn`: the queue lock is entered in the order of the exchanges, and no plate is used by two; `TouchesLiveObjects`: no write to a guard or wait group that is gone; `NotificationsAreKept`, `NobodyIsForgotten`: a notified waiter finds its cell raised as long as no two tickets in use share a cell, and no notifier skips one who waits; `WaitBlocks`; `RoundsAreWhole`; `ImplementsQueueAndLock`: the queue of semaphores is a bounded queue, the queue of guards a lock; `EveryCallReturns`, for the condition variable on the same condition |
| `thread_pool` | 2 workers, 2 clients, 3 tasks; two plans | the wait group counts what is queued, being put or running; `WaitIdle` waits for everything submitted before it, children included; each accepted task runs once; `WaitIdle` and `Stop` return and `Stop` drains the queue |
| `tasks` | see below | strands run one task at a time, in order, and outlive their last job (`OneByOneInOrder`, `NothingBreaks`); callbacks are submitted once (`SubmittedOnce`), with the right result (`RightResult`), and run where `Via()` says (`RunsWhereTold`); a fiber is in one place (`OnePlace`), the mutex has one owner (`Exclusive`), waiters return in time and nobody touches what they deleted (`ResumedInTime`, `TouchesLive`); a sleeper is resumed once and after it has stopped (`ResumedAfterStop`); everything is run (`EverythingIsRun`) |
| `lock_free` | see below | no access to a deleted node and no leak (`NoUseAfterFree`, `NoLeak`); linearizability of the two stacks, the queue and the work-stealing queue, as refinements of what they promise |
| seven more | | refute a sentence of the repository: see the findings |

### The instances and why they are enough

- Locks: with three threads there is an owner, one that is being handed the lock and one that arrives; the futex
  mutex gets a fourth, so that two are parked while two run. Five tickets are more than the threads, so that
  `TryLock` holds a copy that is out of date by several owners. `TicketLock` stops when the tickets are used up,
  hence no deadlock check there; the proofs hold for every bound.
- Philosophers: tables of two, three and four seats, two meals each. Two is the smallest table and has both orders
  of the forks on the same pair; the proofs hold for every table.
- `CondVar`: two waiters and two notifiers let each step of one notifier fall between two steps of the other. There
  are two cells and three tickets, so that the last call of `Wait()` takes a cell again; to keep the states few, that
  call is made while one notifier at most is at work (`LastWithOneNotifier`, which bounds no behaviour with fewer
  calls than `Tickets`, and the proofs hold for any number). `NotificationsAreKept` and, for this object,
  `EveryCallReturns` speak of the behaviours in which no waiter is still in `Wait()` when the cell of its ticket goes to
  another ticket (`CellsApart`): the code does not see to that, and without it a notification is lost, which
  is the finding `condvar_ring`. `NobodyIsForgotten` needs no such condition.
- Semaphores: two producers and two consumers, two calls each, capacities 1 and 2: full, empty, and a consumer
  that finds a token taken by another after its wake-up.
- Barrier: three threads and three rounds: one may be two calls ahead in its loop, one asleep, one resetting.
- Wait group: two adders, three jobs, two waiters; the Adds before the Waits. Without that order, which the constant
  `AddsFirst` stands for, `MCSync` gives the finding `wait_group_early`.
- `ThreadPool`: a task needs a worker to run it and one to be parked on each condition variable. The plan says
  who submits what; the two plans are the two ways in which the tests end a pool. A plan with `Stop()` against
  a task that submits is the finding.
- `Strand`: three submitters are needed for a batch, a task that was linked and not counted, and one that
  arrives in between; two runners for a job that begins while the last one ends.
- `FutureCombinators`: the code has two inputs; all outcomes and both ways of consuming are initial states.
- `FutureChain`: every pair of Map, AndThen, OrElse and FlatMap, and three chains that flatten, each with every outcome
  of every function, inline, over a pool of two workers, or over a manual executor that the main thread drains.
- Fibers: three workers; the plans are the tests and the example of the readme, with up to four fibers, so that one
  waits, one hands over, and one arrives. Sleeping fibers: two threads in `run()`, three fibers; a timer
  may expire at once or late. The plan in which two waiters delete the group is `MCTasks` again, with
  `Untested` for `Plans`: the finding `fibers_two_waiters`.
- Lock-free: three threads, two items and three addresses for the stack; items go round, so there is no bound on the
  number of operations. A stamp of 2 is two threads holding references at once; addresses exceed items, so that
  an item can be pushed again while the node it was popped from is still referenced. For the queue, three
  threads push three nodes; for the work-stealing queue, an owner and two thieves with a ring of three slots that
  wraps; for the shared pointers, two threads and three control blocks. Threads, items and addresses are symmetric,
  and the run has no liveness property. The stamps have 16 bits in the code; overflow of
  2^16 references at once is out of reach, and the limit of 64000 above which `Load()` lowers a stamp is the constant
  `Limit`: 64000, and so not reached, in `lock_free`; 1 in the run of the finding.

### Fairness

Weak fairness for each thread that is inside an operation, and nothing else: the operating system schedules
threads, critical sections and tasks end, an executor runs what it was given (`executors/readme.md` lets a
strand rely on no more), a timer expires. No thread has to call an operation unless the instance is a test that
does (the barrier, the queue of semaphores), and a futex call need not return without a cause. One exception: in
`CondVar` a waiter that reacquires the mutex gets it with strong fairness, since the mutex is free again and again
while others pass through it, and `CondVar` makes no promise about a mutex that starves.

### Findings

1. `wait_group_early`: `Add()` raises the counter and lowers the flag in two steps; a second `Add()` returns
   between them, and a `Wait()` after it does not block (`wait_group.hpp:21-24`).
2. `thread_pool_stop_hangs`: `Submit()` raises `is_running_` even when the queue is closed; a worker then goes back
   to sleep and `Stop()` never returns (`thread_pool.cpp:43-52`).
3. `futures_contested`: two successes of `First`, or two errors of `Both`, set the output twice, and the
   consumer's callback is submitted twice if it is set in between (`first.hpp:17`, `all.hpp:56`).
4. `fibers_two_waiters`: a last waiter of the fiber WaitGroup waits for `Done()` to be through; two that come late
   each take the other for the last, and `Done()` locks a group that may be gone (`wait_group.hpp:111`).
5. `futures_inner_error`: the callback of FlatMap and Flatten takes the value of an inner future that may hold an
   error, and throws in a worker (`flat_map.hpp:49`, `flatten.hpp:18`).
6. `condvar_ring`: a waiter stores 0 into its cell after it has the mutex back (`condvar.hpp:40`), and the ticket a
   hundred later has the same cell. If one waiter is held up before `m.lock()` while another goes round the ring, draws
   that ticket, and is notified before it sleeps, the store takes the notification away and the second waiter sleeps
   for good: the scenario that `cond/condvar/readme.md:37` rules out. Two waiters and one notifier are enough; the
   ring is scaled down to two cells for the run.
7. `shared_ptr_put_back`: `Load()` lowers a stamp above the limit by a plain store, which puts a popped node back
   (`shared_ptr.hpp:252`); the limit is scaled down for the run.

Smaller differences between code and text, which no run is about: `Done()` of the wait group and both notifiers of
`CondVar` call `PrepareWake` after the store that lets a waiter go on, and perhaps delete the object
(`wait_group.hpp:29-30`, `condvar.hpp:49-51`), where `mutex/mutex/readme.md:67` wants it before; it only takes an address, so
the models let it pass, and `TouchesLiveObjects` is about the store itself; a waiter of the fiber WaitGroup that comes late
and is the only one spins in `AwaitSuspend()` on its worker until `Done()` is through, where
`fibers/mutex/readme.md:19` wants `Wait()` never to block the scheduler's thread; the barrier's readme speaks of one `notify_all` per round, the code
has two condition variables; `futures/fun/readme.md:321` has executors inherited along a chain, and Flatten does not
pass its on (`flatten.hpp:24`). `sleep_for` has no race between the stop of a fiber and its timer because
`asio::defer` keeps the handler that arms the timer in the thread until the handler that runs the fiber has
returned; with `asio::post` in its place `ResumedAfterStop` fails.

## The proofs

All hold for every value of the constants, under the assumptions named.

`MCLocksProofs` proves each lock in the composition: a behaviour of `MCLocks` is one of the mutex and one of the ticket
lock (`EachIsItself`).

For the futex mutex (any set of threads): type correctness, mutual exclusion, `NoLostWakeup` and the refinement of
`AbstractLock`. Mutual exclusion alone is not inductive: it needs that the word is `Unlocked` only if
nobody is inside (`OneInside`); then a successful `Cmpxchg` or a `Mark` that finds `Unlocked` enters an empty
section, and `Unlock` empties it. `NoLostWakeup` is inductive together with the types: each action either
keeps `Sleeping`, or leaves behind a thread that is about to wake or mark.

For the ticket lock (any set of threads, any number of tickets; the assumption is that `MaxDraws` is a natural
number): type correctness, mutual exclusion, unique tickets, justified refusals, first come first
served and the refinement. The invariant is `Consistent /\ UniqueTickets`: the tickets of those in
line lie between the counters, the one inside has `owner_ticket`, and a `TryLock` holds a copy that is never
ahead and that is exact as long as nobody has drawn a ticket since. The last part is what makes `TryRefuse`
justified and `TryTake` exclusive.

`QueueSpinLockProofs` (any set of threads, `Null` is none of them): first come first served, no write to a guard
that is gone, and the refinement of `AbstractLock`. `InTurn` is not inductive, since nothing in it says whom
`Release()` hands over to. The invariant (`Listed`, with `Distinct`, `InLine`, `TailIsLast`) describes the list:
the guard at each place points to the next one, unless that thread has yet to link itself, which remembers
the guard before it; only the first may own or release. When the first leaves by handing over, the second
has linked itself, and so knows nothing any more of the guard that vanishes.

`DiningProofs` (any number of seats and meals): plates are apart, and as long as not all have eaten somebody
need not wait for a fork (`NoRing`). The invariant is that a fork is owned exactly by who holds it by where
he is. For the second theorem forks are ordered with fork 0 last: everybody takes the lower one first, the
philosopher at seat 0 included, so that among those who wait with one fork the one furthest on waits for a free one.

`ThreadPoolProofs` (any finite sets of workers and clients, any tasks and plans): `StopDrains`, `CounterIsWork` and
`IdleMeansDone`. `ThreadsAssumption` says that the threads are different ones and that there is a worker,
`PlansAssumption` that no task is submitted at two places (a task is one call of `Submit()`). None of the three is
inductive. The first invariant, `IInv`, follows each task: what is still to be submitted is not accepted, and
an accepted task is in the queue once, or with one worker that has yet to run it, or has run (`Ledger`,
`Unsubmitted`); a worker leaves an empty closed queue, which stays so (`Leaving`). `StopDrains` follows. The second,
`Promises`, adds what holds if nobody submits to a pool that is being stopped: then `Put()` never refuses, a
task that `Submit()` has returned for is accepted, and one that ran has its child accepted or about to be
(`Settled`, `Followed`). When `WaitIdle()` reads zero, `CounterIsWork` says that nothing is queued, being put or
with a worker, so that all that was accepted has run. The theorems about the wait group state this hypothesis as
`Orderly`: `Stop()` comes after a last `WaitIdle()`, or no task submits another. Without it a refused task
stays counted for ever, and the run `thread_pool_stop_hangs` shows what else goes wrong.

`MCSyncProofs` (any threads of each object, any ring and any number of calls; `SyncAssumption` says that those of one object are different ones, that
the sets that are counted are finite, and that each job has one adder): all the invariants of the run `sync`, and
`NobodyIsForgotten`.

- `CondVar`. The bound of `NotificationsAreKept`, `h_ < t_ + ` the number of notifiers, is not inductive: a
  notifier that has looked at the counters may draw a ticket long after. `NotFarAhead` adds to `h_` the number of
  those who may still draw while `t_` is `k` (they are about to, or have seen `h_` below `k`), and bounds the sum for
  every `k >= t_`: a notifier leaves the sum on one side when it draws and raises it on the other. `UpToDate` says that the cell of each ticket that was drawn by a
  notifier is up, or is about to be set, as long as the waiter who has that ticket sleeps, or nobody has it yet, since
  notifiers may overtake the waiter. All but `UpToDate` holds whatever happens to the cells. `UpToDate` is kept by
  every step from a state with `CellsApart`: tickets are the waiters' own (`OwnTicket`), so then only the waiter who has a
  ticket resets its cell. The theorem `NotificationsReach` says so of behaviours: always `CellsApart` implies always
  `NotifiedCellIsUp`.
- The wait group, when no `Add()` is under way as `Wait()` is called (`AddsFirst`, without which `WaitBlocks` is false).
  `Wait()` looks at the flag, the jobs are counted in the other word: `Tally` says that the counter is the number of jobs
  announced and not done, `FlagIsRight` that the flag may be up only before the first `Add()` has lowered it or after the
  counter has come down, `LastOne` that one job finds zero, and that the flag is down until it stores, and `Joined` that
  waiters return after that store. So it goes to an object that is still there, and `WaitBlocks` holds.
- The barrier: all threads are in one round `r` in one of two phases. It gathers (`arrived_` is the number of those
  who came, nobody has gone on), or it drains (all have come, `departed_` counts those who have gone on, and these
  get no further than the sleep on `limit_reached_cv_`). Both are needed because the counters are read without the
  mutex and are reset one after the other. How often they meet does not matter to the proof.
- The queue lock and the philosophers: the theorems of their own modules, instantiated with the variables
  of the object. `ObjectsApart` shows that every step of `MCSync` is a step or a stutter of each of them.

`MCTasksProofs` (any submitters, any threads of the executor below, any tasks; `StrandAssumption` says that these sets
are finite and that a thread of the executor is not counted among the submitters; a task that itself submits is one
submitter more, which happens to move while its thread runs the task): `OneByOneInOrder`, and with it that `Take()` never meets
an empty queue, that `scheduled_` is positive where a job looks at it, and that `Impl` is there for all who use it. That jobs do
not overlap does not follow from where the threads are. `OneJob` adds the counter: it is positive exactly if there is
a job, launched, at work or about to be launched, and then there is one. That in turn needs the counter to mean
something, which is hard because a task is linked, counted in `size_`, counted in `scheduled_`, taken and done in separate steps:
`Balance` says that both counters equal the length of the queue, less the tasks that are linked and not counted there yet,
plus what the job has in hand. `scheduled_` may so be below zero when a job has run tasks that nobody has counted; whoever counts
the last of them then leaves it at zero, launches nothing, and rightly so. `Ordered` puts the
batch between what has run and what is queued; `Referenced` counts the references. `RunTask` keeps the sum
of `completed` and what is left of it, so the subtraction at its end restores `Balance`.

Of First and Both it proves that a callback is submitted once (`SubmittedOnce`), that the consumer gets what the combinator
promises (`Combine!RightResult`), and that no callback meets the deleted counter, which with what holds of the strand is
`NothingBreaks`. Here there are three threads always; what the proof has to follow is their stacks of operations, which each
callback grows by its own. `Stacked` and `Programs` say in what order operations come on a stack and on whose, so that a step
touches only its top (`Combine` has no other order than that). With it `Meeting` says of one output that who comes second
submits, and nobody after; `Callbacks` and `Counters` count the callbacks of the inputs that are still to come, are under way, or
fulfil the output alone, and say that the two counters of the shared memory are these counts. The last to count so knows that
both have assigned, and the last to release that nobody else will look. Results are right also when both callbacks fulfil the
output (`Contested`); what fails then, and is a finding, is only `Single`, that it is fulfilled once.

The same module proves `ResumedAfterStop` of the sleeping fibers, for any threads in `run()`, any fibers, and any routines
of sleeps, yields and calls of `Go()`; `NapsAssumption` says that no two calls of `Go()` start the fiber of the same
name. The property speaks of the queue and the timers; what makes it inductive (`OnThreads`, `Kept`) is what a
thread has deferred: exactly the handler that arms the timer of the fiber it is on, from `SleepFor()` until `Run()` has
returned. So at each moment a fiber that has begun and not ended has one of three: a place in the queue, a timer,
or a thread. That `Go()` takes a fiber that is new needs that the calls still to come name different ones
(`StartedOnce`, `NotStarted`).

Of the fibers of `fibers/mutex` it proves `Exclusive`, `OnePlace`, `ResumedInTime` and, under one more hypothesis,
`TouchesLive`, for any fibers, any workers and any routines that `RoutinesAssumption` allows: a fiber is started once,
the event is fired once, a fiber unlocks what it has locked, and one fiber announces all jobs before it starts others, as many
as are done later. The invariant, `FiberInv`, is proved for all of these at once, because each needs the others:

- Where a fiber is. It runs or can run (`Scheduled`), or it is in the queue of the operation at the head of its routine, or
  taken from there (`Suspended`, `AtHead`). The routine has stopped before the awaiter puts its fiber in a queue, and nobody
  but the one who took it from there (`taken`) makes it a task of the pool, so it is neither resumed twice nor lost.
- Who owns the mutex. `OneOwner` counts as the owner also the fiber that `Unlock()` has taken from the queue and not yet
  given to the pool. The word of the mutex never says "free" in between, so no `Lock()` succeeds.
- When an event or a group is through. The one `Fire()` and the last `Done()` walk along a queue without the spinlock;
  `FiredOnce` and `DoneOnce` say that nobody joins it by then. For the group this needs the counter to mean something:
  `Counted` says that it is what is announced and not done, where announcements and jobs are the places of the operations in
  what is left of the routines, so that `Done()` takes one away, and `AddedFirst` that it only falls once others run. `WaitsKept` says
  that the second counter is the number of fibers inside `Wait()`.
- Who may delete. `DeletedLast` says that once the group or the event may be deleted nobody is inside any operation of
  it, except the last `Done()` behind its last access. That is kept only if one fiber at most waits for the group, `SoleWaiter`,
  and somebody waits for what is fired and done. The tests (`Tested`) are such plans; without the hypothesis the
  property is false, and the run of the finding `fibers_two_waiters` is the counterexample.

`MCChainProofs` (any workers of the pool, the chains of `Chains`, each with every outcome of its functions):
`RunsWhereTold`, and `RightResult`, whose part about First and Both comes from `MCTasksProofs`. Neither property speaks of what is
under way: sequences of operations that threads, the pool and the manual executor still have to run, and which
grow by the callbacks they meet. `Needs` says of each operation what it rests on: a result that is published was
stored, a function is called when its stage takes the result before it and in the executor that `Via()` named, and so on.
The invariant, `ChainInv`, is that each operation of each sequence finds what it needs, or comes after one of the same
sequence that provides it (`Earlier`), and that what is stored, subscribed and called is right (`Settled`). All that an
operation may need stays so once it is so: executors, results and calls are set once. Hence a step, which
takes the first operation off one sequence and may put a callback there or into an executor, leaves every other
sequence such that it can be run. What a chain promises, `Composed`, is a recursive function: its equation is proved for the two or three
stages that a chain of `Chains` has, by writing the values down.

Model-checked only: every liveness property (fairness is outside the proof system's reach), and everything about
the semaphores and the queue made of them, and the lock-free objects. Linearizability of the stacks and the queue follows `next` through memory, an induction over data, and stays
with TLC; so do `NoUseAfterFree` and `NoLeak`, where a counter equals a sum over the nodes from `top_` down and over the
lists of counts that the threads have yet to make.

## Not modelled

The map covers about a tenth of the lines of `src/`. The rest is, for the larger part, text that says again what is modelled:

- Copies. `executors`, `fibers/*` and `futures/*` each carry their own `tp/`, `coro/`, `sched/`, queue, mutex,
  wait group and intrusive lists; one of each is modelled, where the task is about it. `fibers/yield` is the first
  version of the fibers of `fibers/mutex`.
- Drafts that nothing includes: `-v1`, `-v2`, `-verbose`, `... copy.hpp`, `play/`, `my/`.
- Statements without a solution, whose operations abort: `tasks/scheduler`, `coro/*`, `futures/lazy`, `fibers/chan`.
- Tests, examples, benchmarks, build files, and the course library.

Left aside with a reason of its own:

- The hazard pointers of `lockfree/queue`: an unfinished exercise that the queue does not call.
- The nodes of `MSQueue` below `Strand`: the model sees the queue from outside. That `Take()` frees old heads a
  suspended `Put()` may still look at is listed as a hazard.
- `SharedState::Clear()`, which nothing calls; `RunAtMost()` of the manual executor, which is `Drain()` with a limit.
- Code without concurrency: coroutines as such, guards and `Mutexed`, `Inline`; `ThreadPool::Current()`, logging.
- Code that is one action: the spinlocks of one exchange and the assembly of `mm/atomic`; `mutex/livelock` and
  `mutex/deadlock` are there to livelock and to deadlock.
- Memory orders, the packing of a pointer and its stamp into a word, the width of counters (`CondVar` has two of 32
  bits, too many waits for a run), and the growth of a stack by fibers that resume each other.
