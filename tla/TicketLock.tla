----------------------------- MODULE TicketLock -----------------------------
(* TicketLock of tasks/mutex/try-lock/ticket_lock.hpp: Lock() draws a ticket  *)
(* and spins until it is called, TryLock() draws one only if it would be      *)
(* called at once.                                                           *)
(*                                                                           *)
(* Tickets are 64-bit in the code and are not expected to run out: MaxTicket   *)
(* bounds them here, and the theorems of MCLocksProofs hold for any bound.     *)
EXTENDS Naturals

CONSTANTS
  Threads,
  MaxTicket

VARIABLES
  next_free_ticket,
  owner_ticket,
  pc,            \* where a thread is: idle, spin (Lock), cas (TryLock), held
  ticket,        \* this_thread_ticket, and in TryLock() the owner_ticket it loaded
  busy           \* history: the lock has been taken since t called TryLock()

vars == <<next_free_ticket, owner_ticket, pc, ticket, busy>>

Tickets == 0..MaxTicket

Init ==
  /\ next_free_ticket = 0
  /\ owner_ticket = 0
  /\ pc = [t \in Threads |-> "idle"]
  /\ ticket = [t \in Threads |-> 0]
  /\ busy = [t \in Threads |-> FALSE]

Goto(t, to) == pc' = [pc EXCEPT ![t] = to]

(* A ticket is drawn: whoever is inside TryLock() has met a taken lock. *)
Draw ==
  /\ next_free_ticket' = next_free_ticket + 1
  /\ busy' = [u \in Threads |-> TRUE]
  /\ UNCHANGED owner_ticket

(* Lock(): next_free_ticket_.fetch_add(1) *)
LockDraw(t) ==
  /\ pc[t] = "idle"
  /\ next_free_ticket < MaxTicket
  /\ ticket' = [ticket EXCEPT ![t] = next_free_ticket]
  /\ Goto(t, "spin")
  /\ Draw

(* Variant: the ticket is compared as "at most", like a turnstile. *)
LockPassAtMost(t) ==
  /\ pc[t] = "spin"
  /\ ticket[t] <= owner_ticket + 1
  /\ Goto(t, "held")
  /\ UNCHANGED <<next_free_ticket, owner_ticket, ticket, busy>>

(* The loop of Lock() ends when the ticket is called. *)
LockPass(t) ==
  /\ pc[t] = "spin"
  /\ ticket[t] = owner_ticket
  /\ Goto(t, "held")
  /\ UNCHANGED <<next_free_ticket, owner_ticket, ticket, busy>>

(* Variant: TryLock() starts from the other counter, and so always succeeds   *)
(* when it is alone.                                                         *)
TryLoadNext(t) ==
  /\ pc[t] = "idle"
  /\ next_free_ticket < MaxTicket
  /\ ticket' = [ticket EXCEPT ![t] = next_free_ticket]
  /\ busy' = [busy EXCEPT ![t] = next_free_ticket # owner_ticket]
  /\ Goto(t, "cas")
  /\ UNCHANGED <<next_free_ticket, owner_ticket>>

(* TryLock(): owner_ticket_.load() *)
TryLoad(t) ==
  /\ pc[t] = "idle"
  /\ next_free_ticket < MaxTicket
  /\ ticket' = [ticket EXCEPT ![t] = owner_ticket]
  /\ busy' = [busy EXCEPT ![t] = next_free_ticket # owner_ticket]
  /\ Goto(t, "cas")
  /\ UNCHANGED <<next_free_ticket, owner_ticket>>

(* next_free_ticket_.compare_exchange_strong(owner_ticket, owner_ticket + 1):  *)
(* the thread leaves with the lock ...                                       *)
TryTake(t) ==
  /\ pc[t] = "cas"
  /\ next_free_ticket = ticket[t]
  /\ next_free_ticket < MaxTicket
  /\ Draw
  /\ Goto(t, "held")
  /\ UNCHANGED ticket

(* Variant: a weak exchange, which may fail for no reason. *)
TryRefuseWeak(t) ==
  /\ pc[t] = "cas"
  /\ Goto(t, "idle")
  /\ UNCHANGED <<next_free_ticket, owner_ticket, ticket, busy>>

(* ... or without it. *)
TryRefuse(t) ==
  /\ pc[t] = "cas"
  /\ next_free_ticket # ticket[t]
  /\ Goto(t, "idle")
  /\ UNCHANGED <<next_free_ticket, owner_ticket, ticket, busy>>

(* Variant: the lock is handed to the last ticket that was drawn. *)
UnlockToLast(t) ==
  /\ pc[t] = "held"
  /\ owner_ticket' = next_free_ticket
  /\ Goto(t, "idle")
  /\ UNCHANGED <<next_free_ticket, ticket, busy>>

(* Variant: every ticket drawn so far is called. *)
UnlockTwice(t) ==
  /\ pc[t] = "held"
  /\ owner_ticket' = owner_ticket + 2
  /\ Goto(t, "idle")
  /\ UNCHANGED <<next_free_ticket, ticket, busy>>

(* Unlock(): owner_ticket_.fetch_add(1) *)
Unlock(t) ==
  /\ pc[t] = "held"
  /\ owner_ticket' = owner_ticket + 1
  /\ Goto(t, "idle")
  /\ UNCHANGED <<next_free_ticket, ticket, busy>>

-----------------------------------------------------------------------------
(* What a thread does once it has called Lock(), TryLock() or Unlock(). *)
Step(t) == LockPass(t) \/ TryTake(t) \/ TryRefuse(t) \/ Unlock(t)

Next == \E t \in Threads : LockDraw(t) \/ TryLoad(t) \/ Step(t)

Spec == Init /\ [][Next]_vars

(* A thread that is inside the lock, or inside its critical section, goes on;  *)
(* no thread has to call Lock() or TryLock().                                *)
FairSpec == Spec /\ \A t \in Threads : WF_vars(Step(t))

-----------------------------------------------------------------------------
TypeOK ==
  /\ next_free_ticket \in Tickets
  /\ owner_ticket \in Tickets
  /\ pc \in [Threads -> {"idle", "spin", "cas", "held"}]
  /\ ticket \in [Threads -> Tickets]
  /\ busy \in [Threads -> BOOLEAN]

(* At most one thread is between Lock() or a successful TryLock() and Unlock(), *)
(* although TryLock() decides on a copy of one counter and a later look at the *)
(* other.                                                                    *)
MutualExclusion ==
  \A t, u \in Threads : pc[t] = "held" /\ pc[u] = "held" => t = u

(* try-lock/readme.md: every thread that passes has a number of its own. *)
UniqueTickets ==
  \A t, u \in Threads :
    pc[t] \in {"spin", "held"} /\ pc[u] \in {"spin", "held"} /\ ticket[t] = ticket[u]
      => t = u

(* TryLock() comes back empty-handed only if some other thread has had, or has *)
(* been waiting for, the lock since it was called.                           *)
RefusedOnlyWhenBusy ==
  [][\A t \in Threads : pc[t] = "cas" /\ pc'[t] = "idle" => busy[t]]_vars

(* A thread enters only with the ticket that is called: first come, first     *)
(* served, for Lock() and TryLock() alike.                                   *)
InTicketOrder ==
  [][\A t, u \in Threads :
       pc[t] # "held" /\ pc'[t] = "held" /\ pc[u] = "spin" /\ u # t => ticket'[t] < ticket[u]]_vars

(* What keeps the two counters and the tickets consistent: those who wait or   *)
(* have the lock hold tickets that are drawn and not yet done, the one inside  *)
(* holds the ticket that is called, and the copy in TryLock() is never ahead   *)
(* of owner_ticket_ and is exact while nobody has drawn a ticket.            *)
Consistent ==
  /\ owner_ticket <= next_free_ticket
  /\ \A t \in Threads :
       /\ pc[t] \in {"spin", "held"} => owner_ticket <= ticket[t] /\ ticket[t] < next_free_ticket
       /\ pc[t] = "held" => ticket[t] = owner_ticket
       /\ pc[t] = "cas" => ticket[t] <= owner_ticket
       /\ pc[t] = "cas" /\ ~busy[t] => ticket[t] = next_free_ticket

(* A thread as the users of the lock see it. *)
lockState ==
  [t \in Threads |->
     IF pc[t] = "spin" THEN "locking"
     ELSE IF pc[t] = "cas" THEN "polling"
     ELSE pc[t]]

Lock == INSTANCE AbstractLock WITH st <- lockState

(* The ticket lock is a lock, and nobody who draws a ticket is locked out. *)
ImplementsLock == Lock!Spec
LockoutFree == Lock!LockoutFree
=============================================================================
