------------------------------- MODULE Dining -------------------------------
(* The philosophers of tasks/mutex/dining: a fork is a mutex between two seats, *)
(* and the plates are what the mutexes guard.  EatWithForks() is one step per   *)
(* plate, in which nobody else may be at that plate.                          *)
EXTENDS Naturals, FiniteSets

CONSTANTS
  MaxSeats,
  Meals          \* how often each philosopher eats
VARIABLES
  seats,         \* num_seats_
  fork,          \* the philosopher that holds each fork, or None
  pc,
  meals          \* meals_

vars == <<seats, fork, pc, meals>>

Philosophers == 0..(seats - 1)
None         == MaxSeats
ToRight(i)   == (i + 1) % seats

Init ==
  /\ seats \in 2..MaxSeats
  /\ fork = [i \in Philosophers |-> None]
  /\ pc = [i \in Philosophers |-> "think"]
  /\ meals = [i \in Philosophers |-> 0]

-----------------------------------------------------------------------------
(* The philosopher at seat 0 takes the right fork first, the others the left.  *)
First(i)  == IF i = 0 THEN ToRight(i) ELSE i
Second(i) == IF First(i) = i THEN ToRight(i) ELSE i

Goto(i, to) == pc' = [pc EXCEPT ![i] = to]

Lock(i, f) == fork[f] = None /\ fork' = [fork EXCEPT ![f] = i]

AcquireForks(i) ==
  \/ pc[i] = "think" /\ meals[i] < Meals /\ Lock(i, First(i)) /\ Goto(i, "has one")
  \/ pc[i] = "has one" /\ Lock(i, Second(i)) /\ Goto(i, "own plate")

(* AccessPlate() of the own plate, then of the one to the right. *)
EatWithForks(i) ==
  /\ \/ pc[i] = "own plate" /\ Goto(i, "right plate") /\ UNCHANGED meals
     \/ pc[i] = "right plate" /\ Goto(i, "eaten") /\ meals' = [meals EXCEPT ![i] = @ + 1]
  /\ UNCHANGED fork

(* The right fork, then the left one. *)
ReleaseForks(i) ==
  \/ pc[i] = "eaten" /\ fork' = [fork EXCEPT ![ToRight(i)] = None] /\ Goto(i, "has left")
  \/ pc[i] = "has left" /\ fork' = [fork EXCEPT ![i] = None] /\ Goto(i, "think")

Step(i) ==
  /\ \/ AcquireForks(i) /\ UNCHANGED meals
     \/ EatWithForks(i)
     \/ ReleaseForks(i) /\ UNCHANGED meals
  /\ UNCHANGED seats

AllAte == \A i \in Philosophers : pc[i] = "think" /\ meals[i] = Meals

Terminated == AllAte /\ UNCHANGED vars

Next == (\E i \in Philosophers : Step(i)) \/ Terminated

Spec == Init /\ [][Next]_vars

-----------------------------------------------------------------------------
(* The plate each philosopher is at. *)
At(i) ==
  IF pc[i] = "own plate" THEN {i} ELSE IF pc[i] = "right plate" THEN {ToRight(i)} ELSE {}

(* No plate is used by two philosophers at a time. *)
PlatesApart == \A i, j \in Philosophers : At(i) \cap At(j) # {} => i = j
=============================================================================
