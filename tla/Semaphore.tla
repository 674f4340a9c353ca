------------------------------ MODULE Semaphore ------------------------------
(* Semaphore and TaggedSemaphore of tasks/cond/semaphore.  What Acquire() and   *)
(* Release() do under wait_mtx_ is one step; a thread that finds no token       *)
(* sleeps on wait_cv_ and looks again when it is woken.  The tokens of          *)
(* TaggedSemaphore are checked by the compiler and leave no trace here.        *)
EXTENDS Naturals

CONSTANTS Threads, Semaphores

VARIABLES
  tokens,        \* tokens_ of each semaphore
  asleep,        \* the threads in wait_cv_ of each semaphore
  pc

semaphoreVars == <<tokens, asleep, pc>>

SemaphoreInit(initial) ==
  /\ tokens = initial
  /\ asleep = [s \in Semaphores |-> {}]
  /\ pc = [t \in Threads |-> "idle"]

Awake(t)    == \A s \in Semaphores : t \notin asleep[s]
Goto(t, to) == pc' = [pc EXCEPT ![t] = to]

(* Acquire() in front of `to`: a token is taken, or the thread sleeps. *)
Acquire(t, s, to) ==
  /\ Awake(t)
  /\ IF tokens[s] # 0
     THEN tokens' = [tokens EXCEPT ![s] = @ - 1] /\ Goto(t, to) /\ UNCHANGED asleep
     ELSE asleep' = [asleep EXCEPT ![s] = @ \cup {t}] /\ UNCHANGED <<tokens, pc>>

(* Release(): everybody is woken, but only by the first token. *)
Release(t, s, to) ==
  /\ tokens' = [tokens EXCEPT ![s] = @ + 1]
  /\ asleep' = IF tokens[s] = 0 THEN [asleep EXCEPT ![s] = {}] ELSE asleep
  /\ Goto(t, to)

SpuriousWake(t) ==
  /\ ~Awake(t)
  /\ asleep' = [s \in Semaphores |-> asleep[s] \ {t}]
  /\ UNCHANGED <<tokens, pc>>
=============================================================================
