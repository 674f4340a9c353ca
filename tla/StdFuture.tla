------------------------------ MODULE StdFuture ------------------------------
(* Promise and Future of tasks/futures/std/stdlike over details/shared_state.hpp: *)
(* one Get() waits for one SetValue() or SetException().                        *)
(*                                                                           *)
(* The variant is emplaced without the mutex, while Get() may look at it: a     *)
(* data race.  The two words of the variant, its index and its alternative,     *)
(* become visible one by one, in either order, at the latest when the producer  *)
(* takes the mutex.                                                           *)
CONSTANTS Results, NoResult

VARIABLES
  index,         \* v_.index() # 0
  stored,        \* what the alternative of v_ holds
  result,        \* what the producer sends
  mtx,           \* the consumer holds the mutex between two steps
  producer, consumer,
  got

vars == <<index, stored, result, mtx, producer, consumer, got>>

Init ==
  /\ index = FALSE
  /\ stored = NoResult
  /\ result \in Results
  /\ mtx = FALSE
  /\ producer = "idle"
  /\ consumer = "idle"
  /\ got = NoResult

-----------------------------------------------------------------------------
(* SetValue() or SetException() begins to emplace. *)
Emplace ==
  /\ producer = "idle"
  /\ producer' = "emplace"
  /\ UNCHANGED <<index, stored, result, mtx, consumer, got>>

StoreIndex ==
  /\ producer = "emplace"
  /\ ~index
  /\ index' = TRUE
  /\ UNCHANGED <<stored, result, mtx, producer, consumer, got>>

StoreResult ==
  /\ producer = "emplace"
  /\ stored = NoResult
  /\ stored' = result
  /\ UNCHANGED <<index, result, mtx, producer, consumer, got>>

(* Variant: no empty critical section. *)
LockGuardNot ==
  /\ producer = "emplace"
  /\ index /\ stored # NoResult
  /\ producer' = "notify"
  /\ UNCHANGED <<index, stored, result, mtx, consumer, got>>

(* The critical section of SetValue() is empty. *)
LockGuard ==
  /\ producer = "emplace"
  /\ index /\ stored # NoResult
  /\ ~mtx
  /\ producer' = "notify"
  /\ UNCHANGED <<index, stored, result, mtx, consumer, got>>

NotifyOne ==
  /\ producer = "notify"
  /\ producer' = "done"
  /\ consumer' = IF consumer = "sleep" THEN "look" ELSE consumer
  /\ UNCHANGED <<index, stored, result, mtx, got>>

-----------------------------------------------------------------------------
(* Get() looks under the mutex, and then sleeps or takes the result. *)
Look ==
  /\ consumer \in {"idle", "look"}
  /\ mtx' = TRUE
  /\ consumer' = IF index THEN "take" ELSE "wait"
  /\ UNCHANGED <<index, stored, result, producer, got>>

Sleep ==
  /\ consumer = "wait"
  /\ mtx' = FALSE
  /\ consumer' = "sleep"
  /\ UNCHANGED <<index, stored, result, producer, got>>

SpuriousWake ==
  /\ consumer = "sleep"
  /\ consumer' = "look"
  /\ UNCHANGED <<index, stored, result, mtx, producer, got>>

Take ==
  /\ consumer = "take"
  /\ got' = stored
  /\ mtx' = FALSE
  /\ consumer' = "done"
  /\ UNCHANGED <<index, stored, result, producer>>

-----------------------------------------------------------------------------
Produce == Emplace \/ StoreIndex \/ StoreResult \/ LockGuard \/ NotifyOne
Consume == Look \/ Sleep \/ Take

Over == producer = "done" /\ consumer = "done"

Next == Produce \/ Consume \/ SpuriousWake \/ (Over /\ UNCHANGED vars)
=============================================================================
