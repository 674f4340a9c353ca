--------------------------- MODULE MCLocksProofs ---------------------------
(* Proofs about the two locks of MCLocks, for any sets of threads and any range *)
(* of tickets, that of a 64-bit counter included.                             *)
EXTENDS MCLocks, TLAPS

(* A behaviour of the composition is one of each lock: the one that is not      *)
(* checked stays where it began.                                              *)
LEMMA EachIsItself == Spec => Mutex!Spec /\ Ticket!Spec
<1>1. Init => Mutex!Init /\ Ticket!Init
  BY DEF Init
<1>2. [Next]_vars => [Mutex!Next]_(Mutex!vars) /\ [Ticket!Next]_(Ticket!vars)
  BY DEF Next, vars, mutexVars, ticketVars, MutexOnly, TicketOnly, Mutex!vars, Ticket!vars
<1> QED
  BY <1>1, <1>2, PTL DEF Spec, Mutex!Spec, Ticket!Spec

-----------------------------------------------------------------------------
(* The futex mutex.                                                           *)

(* The word is Unlocked exactly when no thread is in its critical section:   *)
(* the fact that mutual exclusion rests on.                                  *)
OneInside ==
  /\ m_m = Mutex!Unlocked => \A t \in Callers : m_pc[t] # "cs"
  /\ Mutex!MutualExclusion

MutexInv == Mutex!TypeOK /\ OneInside

(* Every operation of the mutex keeps the types and the exclusion. *)
LEMMA MutexInductive ==
  /\ Mutex!Init => MutexInv
  /\ MutexInv /\ [Mutex!Next]_(Mutex!vars) => MutexInv'
<1>1. Mutex!Init => MutexInv
  BY DEF Mutex!Init, MutexInv, Mutex!TypeOK, OneInside, Mutex!MutualExclusion, Mutex!Status,
         Mutex!PCs, Mutex!Outside, Mutex!Trying, Mutex!Unlocked, Mutex!Locked, Mutex!Sleeping
<1>2. MutexInv /\ [Mutex!Next]_(Mutex!vars) => MutexInv'
  <2> SUFFICES ASSUME MutexInv, [Mutex!Next]_(Mutex!vars) PROVE MutexInv'
    OBVIOUS
  <2> USE DEF MutexInv, Mutex!TypeOK, OneInside, Mutex!MutualExclusion, Mutex!Status, Mutex!PCs,
              Mutex!Outside, Mutex!Trying, Mutex!Unlocked, Mutex!Locked, Mutex!Sleeping,
              Mutex!Goto, Mutex!Contend
  <2>1. ASSUME NEW t \in Callers, Mutex!Call(t) PROVE MutexInv'
    BY <2>1 DEF Mutex!Call
  <2>2. ASSUME NEW t \in Callers, Mutex!FastLock(t) PROVE MutexInv'
    BY <2>2 DEF Mutex!FastLock
  <2>3. ASSUME NEW t \in Callers, Mutex!Mark(t) PROVE MutexInv'
    BY <2>3 DEF Mutex!Mark
  <2>4. ASSUME NEW t \in Callers, Mutex!Wait(t) PROVE MutexInv'
    BY <2>4 DEF Mutex!Wait
  <2>5. ASSUME NEW t \in Callers, Mutex!Retry(t) PROVE MutexInv'
    BY <2>5 DEF Mutex!Retry
  <2>6. ASSUME NEW t \in Callers, Mutex!Unlock(t) PROVE MutexInv'
    BY <2>6 DEF Mutex!Unlock
  <2>7. ASSUME NEW t \in Callers, Mutex!Wake(t) PROVE MutexInv'
    BY <2>7 DEF Mutex!Wake, Mutex!Asleep
  <2>8. ASSUME NEW t \in Callers, Mutex!SpuriousWake(t) PROVE MutexInv'
    BY <2>8 DEF Mutex!SpuriousWake
  <2>9. CASE UNCHANGED Mutex!vars
    BY <2>9 DEF Mutex!vars
  <2> QED
    BY <2>1, <2>2, <2>3, <2>4, <2>5, <2>6, <2>7, <2>8, <2>9 DEF Mutex!Next, Mutex!Step
<1> QED
  BY <1>1, <1>2

(* Mutual exclusion of stdlike::Mutex for every number of threads. *)
THEOREM MutexExcludes == Spec => []Mutex!MutualExclusion
<1>1. MutexInv => Mutex!MutualExclusion
  BY DEF MutexInv, OneInside
<1> QED
  BY <1>1, MutexInductive, EachIsItself, PTL DEF Mutex!Spec

-----------------------------------------------------------------------------

(* A thread is never left parked on a mutex that nobody will wake it for. *)
THEOREM NoWakeupIsLost == Spec => []NoLostWakeup
<1>1. Mutex!Init => Mutex!NoLostWakeup
  BY DEF Mutex!Init, Mutex!NoLostWakeup, Mutex!Asleep
(* No lost wake-up is inductive relative to the types.  Each action either   *)
(* leaves the thread that vouches for the parked ones alone, or hands the     *)
(* duty over: to the word, or to the thread it wakes.                         *)
<1>2. ASSUME Mutex!TypeOK, Mutex!NoLostWakeup, [Mutex!Next]_(Mutex!vars) PROVE Mutex!NoLostWakeup'
  <2> USE <1>2
  <2> USE DEF Mutex!TypeOK, Mutex!NoLostWakeup, Mutex!Asleep, Mutex!Status, Mutex!PCs,
              Mutex!Outside, Mutex!Trying, Mutex!Unlocked, Mutex!Locked, Mutex!Sleeping,
              Mutex!Goto, Mutex!Contend
  <2>1. ASSUME NEW t \in Callers, Mutex!Call(t) PROVE Mutex!NoLostWakeup'
    BY <2>1 DEF Mutex!Call
  <2>2. ASSUME NEW t \in Callers, Mutex!FastLock(t) PROVE Mutex!NoLostWakeup'
    BY <2>2 DEF Mutex!FastLock
  <2>3. ASSUME NEW t \in Callers, Mutex!Mark(t) PROVE Mutex!NoLostWakeup'
    BY <2>3 DEF Mutex!Mark
  <2>4. ASSUME NEW t \in Callers, Mutex!Wait(t) PROVE Mutex!NoLostWakeup'
    BY <2>4 DEF Mutex!Wait
  <2>5. ASSUME NEW t \in Callers, Mutex!Retry(t) PROVE Mutex!NoLostWakeup'
    BY <2>5 DEF Mutex!Retry
  <2>6. ASSUME NEW t \in Callers, Mutex!Unlock(t) PROVE Mutex!NoLostWakeup'
    BY <2>6 DEF Mutex!Unlock
  <2>7. ASSUME NEW t \in Callers, Mutex!Wake(t) PROVE Mutex!NoLostWakeup'
    BY <2>7 DEF Mutex!Wake
  <2>8. ASSUME NEW t \in Callers, Mutex!SpuriousWake(t) PROVE Mutex!NoLostWakeup'
    BY <2>8 DEF Mutex!SpuriousWake
  <2>9. CASE UNCHANGED Mutex!vars
    BY <2>9 DEF Mutex!vars
  <2> QED
    BY <2>1, <2>2, <2>3, <2>4, <2>5, <2>6, <2>7, <2>8, <2>9 DEF Mutex!Next, Mutex!Step
<1>3. MutexInv => Mutex!TypeOK
  BY DEF MutexInv
<1> QED
  BY <1>1, <1>2, <1>3, MutexInductive, EachIsItself, PTL DEF Mutex!Spec, NoLostWakeup

-----------------------------------------------------------------------------
(* stdlike::Mutex implements the abstract lock: the Cmpxchg that succeeds is  *)
(* Acquire and the exchange of Unlock() is Release; everything else a thread  *)
(* does inside Lock(), and the wake-up that follows the exchange, is invisible *)
(* to the users of the mutex.                                                *)
THEOREM MutexRefines == Spec => MutexIsLock
<1>1. Mutex!Init => Mutex!Lock!Init
  BY DEF Mutex!Init, Mutex!Lock!Init, Mutex!lockState, Mutex!Trying
<1>2. ASSUME MutexInv, [Mutex!Next]_(Mutex!vars) PROVE [Mutex!Lock!Next]_(Mutex!lockState)
  <2> USE <1>2
  <2> USE DEF MutexInv, Mutex!TypeOK, Mutex!Status, Mutex!PCs, Mutex!Outside, Mutex!Trying,
              Mutex!Unlocked, Mutex!Locked, Mutex!Sleeping, Mutex!Goto, Mutex!Contend,
              Mutex!lockState
  <2>1. ASSUME NEW t \in Callers, Mutex!Call(t) PROVE Mutex!Lock!Call(t)
    BY <2>1 DEF Mutex!Call, Mutex!Lock!Call
  <2>2. ASSUME NEW t \in Callers, Mutex!FastLock(t) PROVE [Mutex!Lock!Acquire(t)]_(Mutex!lockState)
    <3>1. CASE m_m = Mutex!Unlocked
      <4>1. Mutex!Lock!Free
        BY <3>1 DEF OneInside, Mutex!Lock!Free
      <4> QED
        BY <2>2, <3>1, <4>1 DEF Mutex!FastLock, Mutex!Lock!Acquire
    <3>2. CASE m_m # Mutex!Unlocked
      BY <2>2, <3>2 DEF Mutex!FastLock
    <3> QED
      BY <3>1, <3>2
  <2>3. ASSUME NEW t \in Callers, Mutex!Mark(t) PROVE UNCHANGED Mutex!lockState
    BY <2>3 DEF Mutex!Mark
  <2>4. ASSUME NEW t \in Callers, Mutex!Wait(t) PROVE UNCHANGED Mutex!lockState
    BY <2>4 DEF Mutex!Wait
  <2>5. ASSUME NEW t \in Callers, Mutex!Retry(t) PROVE [Mutex!Lock!Acquire(t)]_(Mutex!lockState)
    <3>1. CASE m_m = Mutex!Unlocked
      <4>1. Mutex!Lock!Free
        BY <3>1 DEF OneInside, Mutex!Lock!Free
      <4> QED
        BY <2>5, <3>1, <4>1 DEF Mutex!Retry, Mutex!Lock!Acquire
    <3>2. CASE m_m # Mutex!Unlocked
      BY <2>5, <3>2 DEF Mutex!Retry
    <3> QED
      BY <3>1, <3>2
  <2>6. ASSUME NEW t \in Callers, Mutex!Unlock(t) PROVE Mutex!Lock!Release(t)
    BY <2>6 DEF Mutex!Unlock, Mutex!Lock!Release
  <2>7. ASSUME NEW t \in Callers, Mutex!Wake(t) PROVE UNCHANGED Mutex!lockState
    BY <2>7 DEF Mutex!Wake, Mutex!Asleep
  <2>8. ASSUME NEW t \in Callers, Mutex!SpuriousWake(t) PROVE UNCHANGED Mutex!lockState
    BY <2>8 DEF Mutex!SpuriousWake
  <2>9. CASE UNCHANGED Mutex!vars
    BY <2>9 DEF Mutex!vars
  <2> QED
    BY <2>1, <2>2, <2>3, <2>4, <2>5, <2>6, <2>7, <2>8, <2>9 DEF Mutex!Next, Mutex!Step,
       Mutex!Lock!Next
<1> QED
  BY <1>1, <1>2, MutexInductive, EachIsItself, PTL DEF Mutex!Spec, MutexIsLock,
     Mutex!ImplementsLock, Mutex!Lock!Spec

-----------------------------------------------------------------------------
(* The ticket lock.  The inductive invariant is Consistent with the uniqueness  *)
(* of tickets: a thread in the critical section holds the ticket owner_ticket_  *)
(* calls, so two of them would hold the same ticket.                           *)

TicketInv == Ticket!TypeOK /\ Ticket!Consistent /\ Ticket!UniqueTickets

(* Every operation of the ticket lock keeps the counters and the tickets in step. *)
LEMMA TicketInductive ==
  /\ Ticket!Init => TicketInv
  /\ TicketInv /\ [Ticket!Next]_(Ticket!vars) => TicketInv'
<1>1. Ticket!Init => TicketInv
  BY DrawsAreNat DEF Ticket!Init, TicketInv, Ticket!TypeOK, Ticket!Consistent,
                       Ticket!UniqueTickets, Ticket!Tickets
<1>2. TicketInv /\ [Ticket!Next]_(Ticket!vars) => TicketInv'
  <2> SUFFICES ASSUME TicketInv, [Ticket!Next]_(Ticket!vars) PROVE TicketInv'
    OBVIOUS
  <2> USE DrawsAreNat DEF TicketInv, Ticket!TypeOK, Ticket!Consistent, Ticket!UniqueTickets,
                            Ticket!Tickets, Ticket!Goto
  <2>1. ASSUME NEW t \in Drawers, Ticket!LockDraw(t) PROVE TicketInv'
    BY <2>1 DEF Ticket!LockDraw, Ticket!Draw
  <2>2. ASSUME NEW t \in Drawers, Ticket!LockPass(t) PROVE TicketInv'
    BY <2>2 DEF Ticket!LockPass
  <2>3. ASSUME NEW t \in Drawers, Ticket!TryLoad(t) PROVE TicketInv'
    <3>1. /\ UNCHANGED <<t_next_free_ticket, t_owner_ticket>>
          /\ t_pc' = [t_pc EXCEPT ![t] = "cas"]
          /\ t_ticket' = [t_ticket EXCEPT ![t] = t_owner_ticket]
      BY <2>3 DEF Ticket!TryLoad
    <3>2. /\ t_busy' \in [Drawers -> BOOLEAN]
          /\ ~t_busy'[t] => t_owner_ticket = t_next_free_ticket
          /\ \A u \in Drawers \ {t} : t_busy'[u] = t_busy[u]
      BY <2>3, Zenon DEF Ticket!TryLoad
    <3>3. Ticket!TypeOK' /\ Ticket!UniqueTickets'
      BY <3>1, <3>2
    <3>4. ASSUME NEW u \in Drawers, t_pc'[u] = "cas", ~t_busy'[u]
          PROVE  t_ticket'[u] = t_next_free_ticket'
      BY <3>1, <3>2, <3>4
    <3>5. Ticket!Consistent'
      BY <3>1, <3>4
    <3> QED
      BY <3>3, <3>5
  (* The copy is not ahead of owner_ticket_, which is not ahead of             *)
  (* next_free_ticket_: when the exchange finds the copy in next_free_ticket_,   *)
  (* all three are equal and nobody is in line.                                *)
  <2>4. ASSUME NEW t \in Drawers, Ticket!TryTake(t) PROVE TicketInv'
    <3>1. t_ticket[t] = t_owner_ticket /\ t_owner_ticket = t_next_free_ticket
      BY <2>4 DEF Ticket!TryTake
    <3>2. \A u \in Drawers : t_pc[u] \notin {"spin", "held"}
      BY <3>1
    <3> QED
      BY <2>4, <3>1, <3>2 DEF Ticket!TryTake, Ticket!Draw
  <2>5. ASSUME NEW t \in Drawers, Ticket!TryRefuse(t) PROVE TicketInv'
    BY <2>5 DEF Ticket!TryRefuse
  <2>6. ASSUME NEW t \in Drawers, Ticket!Unlock(t) PROVE TicketInv'
    <3>1. /\ t_ticket[t] = t_owner_ticket
          /\ t_owner_ticket < t_next_free_ticket
      BY <2>6 DEF Ticket!Unlock
    <3>2. \A u \in Drawers \ {t} : t_pc[u] \in {"spin", "held"} => t_owner_ticket < t_ticket[u]
      BY <2>6, <3>1 DEF Ticket!Unlock
    <3> QED
      BY <2>6, <3>1, <3>2 DEF Ticket!Unlock
  <2>7. CASE UNCHANGED Ticket!vars
    BY <2>7 DEF Ticket!vars
  <2> QED
    BY <2>1, <2>2, <2>3, <2>4, <2>5, <2>6, <2>7 DEF Ticket!Next, Ticket!Step
<1> QED
  BY <1>1, <1>2

(* At most one thread is in the critical section, whether it came by Lock() or *)
(* by TryLock().                                                             *)
THEOREM TicketLockExcludes == Spec => []Ticket!MutualExclusion
<1>1. TicketInv => Ticket!MutualExclusion
  BY DEF TicketInv, Ticket!Consistent, Ticket!UniqueTickets, Ticket!MutualExclusion
<1> QED
  BY <1>1, TicketInductive, EachIsItself, PTL DEF Ticket!Spec

(* Every thread that passes has a number of its own. *)
THEOREM NumbersAreUnique == Spec => []Ticket!UniqueTickets
<1>1. TicketInv => Ticket!UniqueTickets
  BY DEF TicketInv
<1> QED
  BY <1>1, TicketInductive, EachIsItself, PTL DEF Ticket!Spec

(* TryLock() refuses only a thread that met a taken lock. *)
THEOREM RefusalIsJustified == Spec => RefusedOnlyWhenBusy
<1>1. TicketInv /\ [Ticket!Next]_(Ticket!vars)
        => [\A t \in Drawers : t_pc[t] = "cas" /\ t_pc'[t] = "idle" => t_busy[t]]_(Ticket!vars)
  <2> SUFFICES ASSUME TicketInv, Ticket!Next, NEW t \in Drawers, t_pc[t] = "cas", t_pc'[t] = "idle"
               PROVE  t_busy[t]
    OBVIOUS
  <2> USE DEF TicketInv, Ticket!TypeOK, Ticket!Goto
  <2>1. PICK u \in Drawers : Ticket!LockDraw(u) \/ Ticket!TryLoad(u) \/ Ticket!Step(u)
    BY DEF Ticket!Next
  <2>2. u = t
    BY <2>1 DEF Ticket!LockDraw, Ticket!TryLoad, Ticket!Step, Ticket!LockPass, Ticket!TryTake,
                Ticket!TryRefuse, Ticket!Unlock
  <2>3. Ticket!TryRefuse(t)
    BY <2>1, <2>2 DEF Ticket!LockDraw, Ticket!TryLoad, Ticket!Step, Ticket!LockPass,
                      Ticket!TryTake, Ticket!Unlock
  <2> QED
    BY <2>3 DEF Ticket!TryRefuse, Ticket!Consistent
<1> QED
  BY <1>1, TicketInductive, EachIsItself, PTL DEF Ticket!Spec, RefusedOnlyWhenBusy,
     Ticket!RefusedOnlyWhenBusy

(* First come, first served. *)
THEOREM FirstComeFirstServed == Spec => InTicketOrder
<1>1. TicketInv /\ TicketInv' /\ [Ticket!Next]_(Ticket!vars)
        => [\A t, u \in Drawers :
              t_pc[t] # "held" /\ t_pc'[t] = "held" /\ t_pc[u] = "spin" /\ u # t
                => t_ticket'[t] < t_ticket[u]]_(Ticket!vars)
  <2> SUFFICES ASSUME TicketInv, TicketInv', Ticket!Next, NEW t \in Drawers, NEW u \in Drawers,
                      t_pc[t] # "held", t_pc'[t] = "held", t_pc[u] = "spin", u # t
               PROVE  t_ticket'[t] < t_ticket[u]
    OBVIOUS
  <2>1. t_pc'[u] = "spin" /\ t_ticket'[u] = t_ticket[u] /\ t_owner_ticket' = t_owner_ticket
    BY DEF TicketInv, Ticket!TypeOK, Ticket!Next, Ticket!Step, Ticket!LockDraw, Ticket!Draw,
           Ticket!TryLoad, Ticket!LockPass, Ticket!TryTake, Ticket!TryRefuse, Ticket!Unlock,
           Ticket!Goto
  <2>2. t_ticket'[t] = t_owner_ticket' /\ t_owner_ticket' <= t_ticket'[u] /\ t_ticket'[t] # t_ticket'[u]
    BY <2>1 DEF TicketInv, Ticket!Consistent, Ticket!UniqueTickets
  <2> QED
    BY <2>1, <2>2 DEF TicketInv, Ticket!TypeOK, Ticket!Tickets
<1> QED
  BY <1>1, TicketInductive, EachIsItself, PTL DEF Ticket!Spec, InTicketOrder, Ticket!InTicketOrder

(* The ticket lock implements the abstract lock: Lock() acquires it with the  *)
(* load that finds its ticket called, TryLock() with its exchange.           *)
THEOREM TicketLockRefines == Spec => TicketLockIsLock
<1>1. Ticket!Init => Ticket!Lock!Init
  BY DEF Ticket!Init, Ticket!Lock!Init, Ticket!lockState
<1>2. ASSUME TicketInv, TicketInv', [Ticket!Next]_(Ticket!vars)
      PROVE  [Ticket!Lock!Next]_(Ticket!lockState)
  <2> USE <1>2
  <2> USE DEF TicketInv, Ticket!TypeOK, Ticket!Goto, Ticket!lockState
  <2>1. ASSUME NEW t \in Drawers, t_pc[t] # "held", t_pc'[t] = "held",
               t_pc' = [t_pc EXCEPT ![t] = "held"]
        PROVE  \A u \in Drawers : Ticket!lockState[u] # "held"
    <3>1. Ticket!MutualExclusion'
      BY DEF Ticket!MutualExclusion, TicketInv, Ticket!Consistent, Ticket!UniqueTickets
    <3> QED
      BY <2>1, <3>1 DEF Ticket!MutualExclusion
  <2>2. ASSUME NEW t \in Drawers, Ticket!LockDraw(t) PROVE Ticket!Lock!Next
    <3>1. Ticket!Lock!Call(t)
      BY <2>2 DEF Ticket!LockDraw, Ticket!Lock!Call
    <3> QED
      BY <3>1 DEF Ticket!Lock!Next
  <2>3. ASSUME NEW t \in Drawers, Ticket!TryLoad(t) PROVE Ticket!Lock!Next
    <3>1. Ticket!Lock!Call(t)
      BY <2>3 DEF Ticket!TryLoad, Ticket!Lock!Call
    <3> QED
      BY <3>1 DEF Ticket!Lock!Next
  <2>4. ASSUME NEW t \in Drawers, Ticket!LockPass(t) PROVE Ticket!Lock!Next
    <3>1. \A u \in Drawers : Ticket!lockState[u] # "held"
      BY <2>1, <2>4 DEF Ticket!LockPass
    <3>2. Ticket!Lock!Acquire(t)
      BY <2>4, <3>1 DEF Ticket!LockPass, Ticket!Lock!Acquire, Ticket!Lock!Free
    <3> QED
      BY <3>2 DEF Ticket!Lock!Next
  <2>5. ASSUME NEW t \in Drawers, Ticket!TryTake(t) PROVE Ticket!Lock!Next
    <3>1. \A u \in Drawers : Ticket!lockState[u] # "held"
      BY <2>1, <2>5 DEF Ticket!TryTake
    <3>2. Ticket!Lock!Acquire(t)
      BY <2>5, <3>1 DEF Ticket!TryTake, Ticket!Lock!Acquire, Ticket!Lock!Free
    <3> QED
      BY <3>2 DEF Ticket!Lock!Next
  <2>6. ASSUME NEW t \in Drawers, Ticket!TryRefuse(t) PROVE Ticket!Lock!Next
    <3>1. Ticket!Lock!Refuse(t)
      BY <2>6 DEF Ticket!TryRefuse, Ticket!Lock!Refuse
    <3> QED
      BY <3>1 DEF Ticket!Lock!Next
  <2>7. ASSUME NEW t \in Drawers, Ticket!Unlock(t) PROVE Ticket!Lock!Next
    <3>1. Ticket!Lock!Release(t)
      BY <2>7 DEF Ticket!Unlock, Ticket!Lock!Release
    <3> QED
      BY <3>1 DEF Ticket!Lock!Next
  <2>8. CASE UNCHANGED Ticket!vars
    BY <2>8 DEF Ticket!vars
  <2> QED
    BY <2>2, <2>3, <2>4, <2>5, <2>6, <2>7, <2>8 DEF Ticket!Next, Ticket!Step
<1> QED
  BY <1>1, <1>2, TicketInductive, EachIsItself, PTL DEF Ticket!Spec, TicketLockIsLock,
     Ticket!ImplementsLock, Ticket!Lock!Spec

-----------------------------------------------------------------------------
(* The word of the mutex takes its three values only, the counters stay in the   *)
(* range of tickets, and every thread is at one of its operations.              *)
THEOREM TypeCorrect == Spec => []TypeOK
<1>1. MutexInv /\ TicketInv => TypeOK
  BY DEF MutexInv, TicketInv, TypeOK
<1> QED
  BY <1>1, MutexInductive, TicketInductive, EachIsItself, PTL DEF Mutex!Spec, Ticket!Spec
=============================================================================
