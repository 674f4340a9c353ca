---------------------------- MODULE CyclicBarrier ----------------------------
(* CyclicBarrier of tasks/cond/barrier/cyclic_barrier.hpp, in the hands of the  *)
(* threads it was made for.  They meet MaxRounds times.                       *)
(*                                                                           *)
(* arrived_ and departed_ are written under mtx_ only, but whoever comes looks  *)
(* at them before he takes it: a step under mtx_ is what such a look can tell   *)
(* from the next one.                                                         *)
EXTENDS Naturals, FiniteSets

CONSTANTS
  Threads,       \* the participants
  MaxRounds,     \* bounds the calls of each thread
  NoThread

VARIABLES
  arrived, departed,   \* arrived_, departed_
  notified,            \* is_notified_
  mtx,                 \* the thread that holds mtx_ between two steps
  pc,
  came, left           \* history: how often each thread has come, and gone on

vars == <<arrived, departed, notified, mtx, pc, came, left>>

participants == Cardinality(Threads)

Init ==
  /\ arrived = 0
  /\ departed = 0
  /\ notified = FALSE
  /\ mtx = NoThread
  /\ pc = [t \in Threads |-> "outside"]
  /\ came = [t \in Threads |-> 0]
  /\ left = [t \in Threads |-> 0]

Goto(t, to) == pc' = [pc EXCEPT ![t] = to]

(* notify_all() on the condition variable where threads sleep at `from`; t goes on. *)
NotifyAll(from, woken, t, to) ==
  pc' = [u \in Threads |-> IF u = t THEN to ELSE IF pc[u] = from THEN woken ELSE pc[u]]

-----------------------------------------------------------------------------
(* ArriveAndWait() is called, and arrived_ is looked at ... *)
Come(t) ==
  /\ pc[t] = "outside"
  /\ came[t] < MaxRounds
  /\ came' = [came EXCEPT ![t] = @ + 1]
  /\ Goto(t, IF arrived >= participants THEN "limit" ELSE "check")
  /\ UNCHANGED <<arrived, departed, notified, mtx, left>>

(* ... and departed_. *)
Check(t) ==
  /\ pc[t] = "check"
  /\ Goto(t, IF departed # 0 THEN "limit" ELSE "arrive")
  /\ UNCHANGED <<arrived, departed, notified, mtx, came, left>>

(* limit_reached_cv_.wait(), whose lock ends with the block around it. *)
Limit(t) ==
  /\ pc[t] = "limit"
  /\ mtx = NoThread
  /\ Goto(t, IF arrived < participants /\ departed = 0 THEN "arrive" ELSE "limit sleep")
  /\ UNCHANGED <<arrived, departed, notified, mtx, came, left>>

(* Variant: the last but one to arrive takes himself for the last. *)
CompleteByOneLess(n) == n + 1 >= participants

(* The predicate of arrival_waiting_cv_. *)
Complete(n) == n = participants

(* The thread is counted.  If it is not the last one it sleeps. *)
Arrive(t) ==
  /\ pc[t] = "arrive"
  /\ mtx = NoThread
  /\ arrived' = arrived + 1
  /\ IF Complete(arrived')
     THEN mtx' = t /\ Goto(t, "depart")
     ELSE Goto(t, "sleep") /\ UNCHANGED mtx
  /\ UNCHANGED <<departed, notified, came, left>>

Woken(t) ==
  /\ pc[t] = "woken"
  /\ mtx = NoThread
  /\ IF Complete(arrived)
     THEN mtx' = t /\ Goto(t, "depart")
     ELSE Goto(t, "sleep") /\ UNCHANGED mtx
  /\ UNCHANGED <<arrived, departed, notified, came, left>>

SpuriousWake(t) ==
  /\ \/ pc[t] = "sleep" /\ Goto(t, "woken")
     \/ pc[t] = "limit sleep" /\ Goto(t, "limit")
  /\ UNCHANGED <<arrived, departed, notified, mtx, came, left>>

(* The first to be here wakes the others; everybody counts himself out, and    *)
(* all but the last return.                                                   *)
Depart(t) ==
  /\ pc[t] = "depart"
  /\ LET last == departed + 1 = arrived
         to   == IF last THEN "reset arrived" ELSE "outside"
     IN /\ IF notified THEN Goto(t, to) ELSE NotifyAll("sleep", "woken", t, to)
        /\ mtx' = IF last THEN t ELSE NoThread
        /\ left' = IF last THEN left ELSE [left EXCEPT ![t] = @ + 1]
  /\ notified' = TRUE
  /\ departed' = departed + 1
  /\ UNCHANGED <<arrived, came>>

ResetArrived(t) ==
  /\ pc[t] = "reset arrived"
  /\ arrived' = 0
  /\ Goto(t, "reset departed")
  /\ UNCHANGED <<departed, notified, mtx, came, left>>

ResetDeparted(t) ==
  /\ pc[t] = "reset departed"
  /\ departed' = 0
  /\ notified' = FALSE
  /\ mtx' = NoThread
  /\ NotifyAll("limit sleep", "limit", t, "outside")
  /\ left' = [left EXCEPT ![t] = @ + 1]
  /\ UNCHANGED <<arrived, came>>

-----------------------------------------------------------------------------
Step(t) ==
  \/ Check(t) \/ Limit(t) \/ Arrive(t) \/ Woken(t)
  \/ Depart(t) \/ ResetArrived(t) \/ ResetDeparted(t)

Over == \A t \in Threads : left[t] = MaxRounds

Next ==
  (\E t \in Threads : Come(t) \/ Step(t) \/ SpuriousWake(t)) \/ (Over /\ UNCHANGED vars)

Spec == Init /\ [][Next]_vars

-----------------------------------------------------------------------------
(* Nobody crosses the barrier before all the others have come to it in this      *)
(* round, however far those who crossed before are by then.                    *)
RoundsAreWhole == \A t, u \in Threads : left[t] <= came[u]
=============================================================================
