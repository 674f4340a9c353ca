------------------------------ MODULE CondVar ------------------------------
(* stdlike::CondVar of tasks/cond/condvar/condvar.hpp: every Wait() draws a    *)
(* ticket from t_ and sleeps on a cell of a ring of atomics, every             *)
(* notification draws one from h_ and raises the cell.                        *)
(*                                                                           *)
(* Waiters call Wait() with the mutex; notifiers call NotifyOne() and           *)
(* NotifyAll() without it.  The mutex and the futex are seen from outside: the *)
(* mutex is its owner, futex Wait(cell, 0) parks while the cell is 0.          *)
(* h_.load() >= t_.load() reads h_ first, as compilers do.                    *)
EXTENDS Integers, FiniteSets

CONSTANTS
  Waiters,
  Notifiers,
  Size,          \* kAtomicsSize
  MaxTickets,    \* bounds the number of calls of Wait()
  Nobody

VARIABLES
  t, h,          \* t_, h_
  cell,          \* atomics_
  mtx,           \* the owner of the mutex
  pc,
  tail,          \* tail of each waiter
  head,          \* the loaded h_, then head, of each notifier
  all,           \* a notifier is in NotifyAll()
  goal           \* history: t_ when NotifyAll() was called

vars == <<t, h, cell, mtx, pc, tail, head, all, goal>>

Init ==
  /\ t = 0
  /\ h = 0
  /\ cell = [i \in 0..Size - 1 |-> 0]
  /\ mtx = Nobody
  /\ pc = [p \in Waiters \cup Notifiers |-> "idle"]
  /\ tail = [w \in Waiters |-> 0]
  /\ head = [n \in Notifiers |-> 0]
  /\ all = [n \in Notifiers |-> FALSE]
  /\ goal = [n \in Notifiers |-> 0]

Goto(p, to) == pc' = [pc EXCEPT ![p] = to]

Cell(ticket) == ticket % Size

(* The notifier's call ends, and its locals with it. *)
Return(n) ==
  /\ Goto(n, "idle")
  /\ head' = [head EXCEPT ![n] = 0]
  /\ all' = [all EXCEPT ![n] = FALSE]
  /\ goal' = [goal EXCEPT ![n] = 0]

GoOn(n, to) == Goto(n, to) /\ UNCHANGED <<head, all, goal>>

Asleep(i) == {w \in Waiters : pc[w] = "asleep" /\ Cell(tail[w]) = i}

-----------------------------------------------------------------------------
(* The caller's critical section, which Wait() leaves and comes back to. *)
Enter(w) ==
  /\ pc[w] = "idle"
  /\ mtx = Nobody
  /\ mtx' = w
  /\ Goto(w, "inside")
  /\ UNCHANGED <<t, h, cell, tail, head, all, goal>>

Leave(w) ==
  /\ pc[w] = "inside"
  /\ mtx' = Nobody
  /\ Goto(w, "idle")
  /\ UNCHANGED <<t, h, cell, tail, head, all, goal>>

(* Wait(m): t_.fetch_add(1) *)
Ticket(w) ==
  /\ pc[w] = "inside"
  /\ t < MaxTickets
  /\ t' = t + 1
  /\ tail' = [tail EXCEPT ![w] = t]
  /\ Goto(w, "unlock")
  /\ UNCHANGED <<h, cell, mtx, head, all, goal>>

(* m.unlock() *)
Unlock(w) ==
  /\ pc[w] = "unlock"
  /\ mtx' = Nobody
  /\ Goto(w, "wait")
  /\ UNCHANGED <<t, h, cell, tail, head, all, goal>>

(* futex Wait(cell, 0) *)
Sleep(w) ==
  /\ pc[w] = "wait"
  /\ Goto(w, IF cell[Cell(tail[w])] = 0 THEN "asleep" ELSE "lock")
  /\ UNCHANGED <<t, h, cell, mtx, tail, head, all, goal>>

SpuriousWake(w) ==
  /\ pc[w] = "asleep"
  /\ Goto(w, "wait")
  /\ UNCHANGED <<t, h, cell, mtx, tail, head, all, goal>>

(* m.lock() *)
Relock(w) ==
  /\ pc[w] = "lock"
  /\ mtx = Nobody
  /\ mtx' = w
  /\ Goto(w, "reset")
  /\ UNCHANGED <<t, h, cell, tail, head, all, goal>>

(* atomics_[tail]->store(0) *)
Reset(w) ==
  /\ pc[w] = "reset"
  /\ cell' = [cell EXCEPT ![Cell(tail[w])] = 0]
  /\ tail' = [tail EXCEPT ![w] = 0]
  /\ Goto(w, "inside")
  /\ UNCHANGED <<t, h, mtx, head, all, goal>>

-----------------------------------------------------------------------------
(* NotifyOne() or NotifyAll() is called and loads h_ ... *)
Notify(n) ==
  /\ pc[n] = "idle"
  /\ \E b \in BOOLEAN :
       /\ all' = [all EXCEPT ![n] = b]
       /\ goal' = [goal EXCEPT ![n] = IF b THEN t ELSE 0]
  /\ head' = [head EXCEPT ![n] = h]
  /\ Goto(n, "check")
  /\ UNCHANGED <<t, h, cell, mtx, tail>>

(* Variant: the check is off by one, the last waiter counts as nobody. *)
CheckLess(n) ==
  /\ pc[n] = "check"
  /\ IF head[n] + 1 >= t THEN Return(n) ELSE GoOn(n, IF all[n] THEN "again" ELSE "draw")
  /\ UNCHANGED <<t, h, cell, mtx, tail>>

(* ... and then t_: with nobody to notify it returns. *)
Check(n) ==
  /\ pc[n] = "check"
  /\ IF head[n] >= t THEN Return(n) ELSE GoOn(n, IF all[n] THEN "again" ELSE "draw")
  /\ UNCHANGED <<t, h, cell, mtx, tail>>

(* The loop of NotifyAll() loads both counters again. *)
Again(n) ==
  /\ pc[n] = "again"
  /\ head' = [head EXCEPT ![n] = h]
  /\ Goto(n, "loop")
  /\ UNCHANGED <<t, h, cell, mtx, tail, all, goal>>

Loop(n) ==
  /\ pc[n] = "loop"
  /\ IF head[n] < t THEN GoOn(n, "draw") ELSE Return(n)
  /\ UNCHANGED <<t, h, cell, mtx, tail>>

(* h_.fetch_add(1) *)
Draw(n) ==
  /\ pc[n] = "draw"
  /\ h' = h + 1
  /\ head' = [head EXCEPT ![n] = h]
  /\ Goto(n, "set")
  /\ UNCHANGED <<t, cell, mtx, tail, all, goal>>

(* Variant: the notifier raises the cell of h_ as it is by then. *)
SetLatest(n) ==
  /\ pc[n] = "set"
  /\ cell' = [cell EXCEPT ![Cell(h - 1)] = 1]
  /\ Goto(n, "wake")
  /\ UNCHANGED <<t, h, mtx, tail, head, all, goal>>

(* atomics_[head]->store(1) *)
Set(n) ==
  /\ pc[n] = "set"
  /\ cell' = [cell EXCEPT ![Cell(head[n])] = 1]
  /\ Goto(n, "wake")
  /\ UNCHANGED <<t, h, mtx, tail, head, all, goal>>

(* The sets of threads that WakeOne, or WakeAll, on a cell may unpark. *)
Woken(n) ==
  LET asleep == Asleep(Cell(head[n]))
  IN IF all[n] \/ asleep = {} THEN {asleep} ELSE {{w} : w \in asleep}

(* NotifyOne() ends here, NotifyAll() goes round its loop. *)
Wake(n) ==
  /\ pc[n] = "wake"
  /\ \E W \in Woken(n) :
       pc' = [p \in DOMAIN pc |-> IF p \in W THEN "wait"
                                  ELSE IF p # n THEN pc[p]
                                  ELSE IF all[n] THEN "again" ELSE "idle"]
  /\ head' = [head EXCEPT ![n] = 0]
  /\ UNCHANGED <<t, h, cell, mtx, tail, all, goal>>

-----------------------------------------------------------------------------
WaitStep(w) == Unlock(w) \/ Sleep(w) \/ Relock(w) \/ Reset(w)

NotifyStep(n) == Check(n) \/ Again(n) \/ Loop(n) \/ Draw(n) \/ Set(n) \/ Wake(n)

Next ==
  \/ \E w \in Waiters : Enter(w) \/ Leave(w) \/ Ticket(w) \/ WaitStep(w) \/ SpuriousWake(w)
  \/ \E n \in Notifiers : Notify(n) \/ NotifyStep(n)

Spec == Init /\ [][Next]_vars

(* Calls that have begun go on, critical sections end, and whoever waits for    *)
(* the mutex, which is free again and again, gets it: what mutex/mutex gives   *)
(* to a thread that is not overtaken for ever.                               *)
FairSpec ==
  /\ Spec
  /\ \A w \in Waiters :
       /\ WF_vars(Unlock(w) \/ Sleep(w) \/ Reset(w))
       /\ WF_vars(Leave(w))
       /\ SF_vars(Relock(w))
  /\ \A n \in Notifiers : WF_vars(NotifyStep(n))

-----------------------------------------------------------------------------
InWait == {"unlock", "wait", "asleep", "lock", "reset"}

(* h_ may be ahead of t_, since the check and the increment of a notifier are  *)
(* separate; concurrent notifiers draw tickets nobody has, but never more of   *)
(* them than there are other notifiers.                                      *)
TypeOK ==
  /\ t \in 0..MaxTickets
  /\ h \in 0..t + Cardinality(Notifiers) - 1
  /\ cell \in [0..Size - 1 -> {0, 1}]
  /\ mtx \in Waiters \cup {Nobody}
  /\ \A w \in Waiters : pc[w] \in InWait \cup {"idle", "inside"} /\ tail[w] \in 0..MaxTickets
  /\ \A n \in Notifiers :
       /\ pc[n] \in {"idle", "check", "again", "loop", "draw", "set", "wake"}
       /\ head[n] \in 0..MaxTickets + Cardinality(Notifiers)
       /\ goal[n] \in 0..MaxTickets
  /\ all \in [Notifiers -> BOOLEAN]

(* The tickets somebody waits with, and those the notifiers have drawn before   *)
(* a waiter could.                                                            *)
InUse == {tail[w] : w \in {v \in Waiters : pc[v] \in InWait}} \cup t..h - 1

(* No waiter is still in Wait() when the cell of its ticket goes to another     *)
(* ticket, Size tickets later.  Nothing in the code sees to that: it is the    *)
(* condition under which the ring works.                                      *)
CellsApart ==
  \A w \in Waiters : \A ticket \in InUse :
    pc[w] \in InWait /\ ticket # tail[w] => Cell(ticket) # Cell(tail[w])

(* A waiter that has been notified is never asleep for good: its cell is       *)
(* raised, or a notifier is about to raise it.                                *)
NotifiedCellIsUp ==
  \A w \in Waiters :
    pc[w] \in {"unlock", "wait", "asleep", "lock"} /\ tail[w] < h =>
      \/ cell[Cell(tail[w])] = 1
      \/ \E n \in Notifiers : pc[n] = "set" /\ head[n] = tail[w]

(* ... as long as no two tickets in use have met in one cell. *)
NotificationsAreKept == []CellsApart => []NotifiedCellIsUp

(* NotifyOne() and NotifyAll() come back without a wake-up only if at that      *)
(* moment everyone has been notified, and when NotifyAll() is done, everyone    *)
(* who waited when it was called has been.                                    *)
NobodyIsForgotten ==
  [][\A n \in Notifiers :
       /\ pc[n] = "check" /\ pc'[n] = "idle" => h >= t
       /\ pc[n] # "idle" /\ pc'[n] = "idle" /\ all[n] => h >= goal[n]]_vars

(* A notification reaches a thread that waits: the waiter whose ticket was      *)
(* drawn comes back from Wait().  False of a ring that is reused: a waiter     *)
(* that is late with its store(0) takes away the notification of the one that  *)
(* has the cell by then.                                                     *)
NotifiedReturns ==
  \A w \in Waiters : pc[w] \in InWait /\ tail[w] < h ~> pc[w] = "inside"
=============================================================================
