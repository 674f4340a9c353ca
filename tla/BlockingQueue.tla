---------------------------- MODULE BlockingQueue ----------------------------
(* The object tp::UnboundedBlockingQueue<T> of tasks/thread-pool/tp/queue.hpp: *)
(* its state and one action per critical section or notification.  A caller   *)
(* conjoins these actions with its own control, as ThreadPool does for          *)
(* submitters and workers.                                                   *)
(*                                                                           *)
(* Every section under mtx_ is one action.  The notifications of Put() and    *)
(* Close() happen after mtx_ is released, so they are actions of their own.   *)
(* cv_ is std::condition_variable: `parked` is the set of threads waiting on  *)
(* it.  A thread in Take() that is not parked evaluates the predicate of       *)
(* cv_.wait next, which also covers spurious wake-ups.                        *)
EXTENDS Sequences, Naturals

VARIABLES
  queue,      \* queue_
  opened,     \* is_opened_
  parked      \* the threads waiting on cv_

QueueInit ==
  /\ queue = <<>>
  /\ opened = TRUE
  /\ parked = {}

(* Variant: nobody is notified. *)
NotifyNobody == UNCHANGED <<queue, opened, parked>>

(* What notify_one may leave of a set of waiting threads. *)
OneFewer(W) == IF W = {} THEN {{}} ELSE {W \ {t} : t \in W}

(* The section of Put() when the queue is open; NotifyOne is still to come. *)
Push(e) ==
  /\ opened
  /\ queue' = Append(queue, e)
  /\ UNCHANGED <<opened, parked>>

(* Put() on a closed queue returns false. *)
Reject ==
  /\ ~opened
  /\ UNCHANGED <<queue, opened, parked>>

NotifyOne ==
  /\ parked' \in OneFewer(parked)
  /\ UNCHANGED <<queue, opened>>

(* Take(): nothing to take and the queue may still get something. *)
Park(t) ==
  /\ t \notin parked
  /\ opened
  /\ queue = <<>>
  /\ parked' = parked \cup {t}
  /\ UNCHANGED <<queue, opened>>

(* Take() returns Head(queue), also after Close(). *)
Pop(t) ==
  /\ t \notin parked
  /\ queue # <<>>
  /\ queue' = Tail(queue)
  /\ UNCHANGED <<opened, parked>>

(* Variant: a closed queue is taken for an empty one. *)
GiveUpWhenClosed(t) ==
  /\ t \notin parked
  /\ ~opened
  /\ UNCHANGED <<queue, opened, parked>>

(* Take() returns nullopt: the queue is closed and empty. *)
TakeNothing(t) ==
  /\ t \notin parked
  /\ ~opened
  /\ queue = <<>>
  /\ UNCHANGED <<queue, opened, parked>>

(* Close(): the flag first, the notification after mtx_ is released.  A       *)
(* second Close() returns early.                                             *)
Shut ==
  /\ opened
  /\ opened' = FALSE
  /\ UNCHANGED <<queue, parked>>

NotifyAll ==
  /\ parked' = {}
  /\ UNCHANGED <<queue, opened>>
=============================================================================
