------------------------------ MODULE MCLocks ------------------------------
(* The two locks of tasks/mutex that are taken without a guard object: the      *)
(* futex Mutex and the TicketLock, one behaviour checking one of them: `object` *)
(* says which.  The variables of the other stay as they are.                   *)
EXTENDS Naturals

CONSTANTS
  Callers,       \* threads of the futex mutex
  Drawers,       \* threads of the ticket lock
  MaxDraws       \* bounds the calls that draw a ticket

ASSUME DrawsAreNat == MaxDraws \in Nat

VARIABLES
  object,
  m_m, m_pc,
  t_next_free_ticket, t_owner_ticket, t_pc, t_ticket, t_busy

mutexVars  == <<m_m, m_pc>>
ticketVars == <<t_next_free_ticket, t_owner_ticket, t_pc, t_ticket, t_busy>>
vars == <<object, mutexVars, ticketVars>>

Mutex == INSTANCE FutexMutex WITH Threads <- Callers, m <- m_m, pc <- m_pc

Ticket ==
  INSTANCE TicketLock
  WITH Threads <- Drawers, MaxTicket <- MaxDraws,
       next_free_ticket <- t_next_free_ticket, owner_ticket <- t_owner_ticket, pc <- t_pc,
       ticket <- t_ticket, busy <- t_busy

Init ==
  /\ object \in {"mutex", "ticket lock"}
  /\ Mutex!Init /\ Ticket!Init

MutexOnly  == object = "mutex" /\ UNCHANGED <<object, ticketVars>>
TicketOnly == object = "ticket lock" /\ UNCHANGED <<object, mutexVars>>

Next ==
  \/ MutexOnly /\ Mutex!Next
  \/ TicketOnly /\ Ticket!Next

(* What FutexMutex and TicketLock say of their threads: whoever is inside an     *)
(* operation, or inside the critical section, goes on.                         *)
Fairness ==
  /\ \A t \in Callers : WF_vars(MutexOnly /\ Mutex!Step(t))
  /\ \A t \in Drawers : WF_vars(TicketOnly /\ Ticket!Step(t))

Spec == Init /\ [][Next]_vars
FairSpec == Spec /\ Fairness

-----------------------------------------------------------------------------
(* The word of the mutex, the counters of the ticket lock and every thread are    *)
(* where the code can leave them.                                              *)
TypeOK == Mutex!TypeOK /\ Ticket!TypeOK

(* A thread is never left parked on a mutex that nobody will wake it for,        *)
(* although the fast path of Lock() forgets that others are parked.             *)
NoLostWakeup == Mutex!NoLostWakeup

(* TryLock() of the ticket lock refuses only a thread that met a taken lock.     *)
RefusedOnlyWhenBusy == Ticket!RefusedOnlyWhenBusy

(* Lock() and TryLock() of the ticket lock let threads in by their numbers.      *)
InTicketOrder == Ticket!InTicketOrder

(* The futex mutex is a lock: a thread has it from the Cmpxchg that succeeded.   *)
MutexIsLock == Mutex!ImplementsLock

(* The ticket lock is a lock, TryLock() included, which decides on a copy of one *)
(* counter and a later look at the other.                                      *)
TicketLockIsLock == Ticket!ImplementsLock

(* When threads want the mutex, one of them gets it: they cannot all stay parked  *)
(* or keep failing.                                                            *)
MutexProgress == Mutex!Progress

(* Whoever has drawn a ticket gets the ticket lock. *)
TicketLockoutFree == Ticket!LockoutFree
=============================================================================
