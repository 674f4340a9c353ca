---------------------------- MODULE DiningProofs ----------------------------
(* Proofs about Dining, for any number of seats and of meals.                 *)
(*                                                                           *)
(* The inductive invariant says which forks a philosopher holds at each point  *)
(* of his way.  That plates are apart follows from it at once.  That the       *)
(* philosophers never wait in a ring follows with an order of the forks: the   *)
(* philosopher at seat 0 reaches for his forks the other way round, so that    *)
(* with fork 0 put last everybody takes the lower fork first.                 *)
EXTENDS Dining, WellFoundedInduction, TLAPS

WithBoth == {"own plate", "right plate", "eaten"}

(* The forks that philosopher i holds. *)
Held(i) ==
  IF pc[i] = "has one" THEN {First(i)}
  ELSE IF pc[i] \in WithBoth THEN {i, ToRight(i)}
  ELSE IF pc[i] = "has left" THEN {i}
  ELSE {}

TypeOK ==
  /\ seats \in 2..MaxSeats
  /\ fork \in [Philosophers -> 0..MaxSeats]
  /\ pc \in [Philosophers -> {"think", "has one", "has left"} \cup WithBoth]
  /\ meals \in [Philosophers -> Nat]

Owned == \A i, f \in Philosophers : fork[f] = i <=> f \in Held(i)

(* Every fork that is not free is held by a philosopher. *)
NoStranger == \A f \in Philosophers : fork[f] \in Philosophers \cup {None}

(* A philosopher does not begin a meal too many. *)
Portions ==
  \A i \in Philosophers :
    meals[i] <= Meals /\ (pc[i] \in {"has one", "own plate", "right plate"} => meals[i] < Meals)

IInv == TypeOK /\ Owned /\ NoStranger /\ Portions

-----------------------------------------------------------------------------
(* The seats are in a ring. *)

LEMMA Ring ==
  ASSUME MaxSeats \in Nat, TypeOK, NEW i \in Philosophers
  PROVE  /\ seats \in Nat
         /\ ToRight(i) \in Philosophers
         /\ ToRight(i) # i
         /\ First(i) \in Philosophers /\ Second(i) \in Philosophers
         /\ {First(i), Second(i)} = {i, ToRight(i)}
         /\ First(i) # Second(i)
         /\ None \notin Philosophers
         /\ ToRight(i) = IF i + 1 = seats THEN 0 ELSE i + 1
<1> DEFINE r == IF i + 1 = seats THEN 0 ELSE i + 1
<1>0. seats \in 2..MaxSeats /\ i \in 0..(seats - 1)
  BY Zenon DEF TypeOK, Philosophers
<1>1. seats \in Nat /\ seats >= 2 /\ seats <= MaxSeats /\ i \in 0..(seats - 1)
  BY <1>0
<1>2. ToRight(i) = r
  <2>1. ASSUME NEW n \in Nat, n >= 2, NEW k \in 0..(n - 1)
        PROVE  (k + 1) % n = IF k + 1 = n THEN 0 ELSE k + 1
    BY <2>1
  <2> QED
    BY <1>1, <2>1 DEF ToRight
<1>3. r \in 0..(seats - 1) /\ r # i
  BY <1>1
<1>4. r = ToRight(i) /\ r \in Philosophers /\ r # i
  BY <1>2, <1>3 DEF Philosophers
<1>5. None \notin Philosophers
  BY <1>1 DEF None, Philosophers
<1> HIDE DEF r
<1>6. /\ First(i) \in Philosophers /\ Second(i) \in Philosophers
      /\ {First(i), Second(i)} = {i, ToRight(i)}
      /\ First(i) # Second(i)
  BY <1>4 DEF First, Second
<1> QED
  BY <1>1, <1>2, <1>4, <1>5, <1>6 DEF r

-----------------------------------------------------------------------------

(* What i acquired was free, and what he gave up is. *)
Handed(i) ==
  /\ \A j \in Philosophers \ {i} : Held(j)' = Held(j)
  /\ \A f \in Held(i)' \ Held(i) : fork[f] = None
  /\ \A f \in Philosophers :
       fork'[f] = IF f \in Held(i)' THEN i ELSE IF f \in Held(i) THEN None ELSE fork[f]

LEMMA HandOver ==
  ASSUME Owned, NEW i \in Philosophers, Handed(i), Philosophers' = Philosophers,
         None \notin Philosophers
  PROVE  Owned'
<1> SUFFICES ASSUME NEW j \in Philosophers, NEW f \in Philosophers
             PROVE  fork'[f] = j <=> f \in Held(j)'
  BY DEF Owned
<1>1. \A k \in Philosophers : fork[f] = k <=> f \in Held(k)
  BY DEF Owned
<1>2. CASE j = i
  BY <1>1, <1>2 DEF Handed
<1>3. CASE j # i
  <2>1. Held(j)' = Held(j)
    BY <1>3 DEF Handed
  <2>2. f \in Held(j) => f \notin Held(i) /\ f \notin Held(i)'
    BY <1>1, <1>3 DEF Handed
  <2> QED
    BY <1>1, <1>3, <2>1, <2>2 DEF Handed
<1> QED
  BY <1>2, <1>3

LEMMA IInvInductive ==
  ASSUME MaxSeats \in Nat, Meals \in Nat
  PROVE  (Init => IInv) /\ (IInv /\ [Next]_vars => IInv')
<1>1. Init => IInv
  <2> SUFFICES ASSUME Init PROVE IInv
    OBVIOUS
  <2>1. seats \in 2..MaxSeats /\ None = MaxSeats /\ None \notin Philosophers
    BY DEF Init, None, Philosophers
  <2>2. TypeOK
    BY <2>1 DEF Init, TypeOK, WithBoth
  <2>3. Owned
    BY <2>1 DEF Init, Owned, Held, WithBoth
  <2>4. NoStranger /\ Portions
    BY DEF Init, NoStranger, Portions
  <2> QED
    BY <2>2, <2>3, <2>4 DEF IInv
<1>2. IInv /\ [Next]_vars => IInv'
  <2> SUFFICES ASSUME IInv, [Next]_vars PROVE IInv'
    OBVIOUS
  <2> USE DEF IInv
  <2>1. ASSUME NEW i \in Philosophers, Step(i) PROVE IInv'
    <3>1. /\ seats' = seats /\ Philosophers' = Philosophers
          /\ \A j : ToRight(j)' = ToRight(j) /\ First(j)' = First(j)
      BY <2>1 DEF Step, Philosophers, ToRight, First
    <3>2. /\ i \in 0..MaxSeats /\ None \in 0..MaxSeats
          /\ None \notin Philosophers
          /\ ToRight(i) \in Philosophers /\ First(i) \in Philosophers
          /\ Second(i) \in Philosophers
          /\ i # ToRight(i) /\ {First(i), Second(i)} = {i, ToRight(i)}
          /\ \A f \in Philosophers : fork[f] = i <=> f \in Held(i)
      <4>1. seats \in 2..MaxSeats
        BY DEF TypeOK
      <4>2. i \in 0..MaxSeats /\ None \in 0..MaxSeats
        BY <4>1 DEF Philosophers, None
      <4> QED
        BY <4>2, Ring DEF Owned
    <3>3. \A j \in Philosophers \ {i} : Held(j)' = Held(j)
      <4>1. \A j \in Philosophers \ {i} : pc'[j] = pc[j]
        BY <2>1 DEF Step, AcquireForks, EatWithForks, ReleaseForks, Goto, TypeOK
      <4> QED
        BY <3>1, <4>1 DEF Held
    <3>4. CASE pc[i] = "think" /\ AcquireForks(i) /\ UNCHANGED meals
      <4>1. /\ fork[First(i)] = None /\ meals[i] < Meals
            /\ fork' = [fork EXCEPT ![First(i)] = i]
            /\ pc' = [pc EXCEPT ![i] = "has one"]
        BY <3>4 DEF AcquireForks, Lock, Goto
      <4>2. Held(i) = {} /\ Held(i)' = {First(i)}
        BY <3>1, <3>2, <3>4, <4>1 DEF Held, WithBoth, TypeOK
      <4>3. Handed(i)
        BY <3>1, <3>2, <3>3, <4>1, <4>2 DEF Handed, TypeOK
      <4>4. TypeOK' /\ NoStranger' /\ Portions'
        BY <3>1, <3>2, <3>4, <4>1 DEF TypeOK, NoStranger, Portions, WithBoth
      <4> QED
        BY <4>3, <4>4, <3>1, <3>2, HandOver
    <3>5. CASE pc[i] = "has one" /\ AcquireForks(i) /\ UNCHANGED meals
      <4>1. /\ fork[Second(i)] = None
            /\ fork' = [fork EXCEPT ![Second(i)] = i]
            /\ pc' = [pc EXCEPT ![i] = "own plate"]
        BY <3>5 DEF AcquireForks, Lock, Goto
      <4>2. Held(i) = {First(i)} /\ Held(i)' = {i, ToRight(i)}
        BY <3>1, <3>2, <3>5, <4>1 DEF Held, WithBoth, TypeOK
      <4>3. Handed(i)
        BY <3>1, <3>2, <3>3, <4>1, <4>2 DEF Handed, TypeOK
      <4>4. TypeOK' /\ NoStranger' /\ Portions'
        BY <3>1, <3>2, <3>5, <4>1 DEF TypeOK, NoStranger, Portions, WithBoth
      <4> QED
        BY <4>3, <4>4, <3>1, <3>2, HandOver
    <3>6. CASE pc[i] = "own plate" /\ EatWithForks(i)
      <4>1. /\ fork' = fork /\ meals' = meals
            /\ pc' = [pc EXCEPT ![i] = "right plate"]
        BY <3>6 DEF EatWithForks, Lock, Goto
      <4>2. Held(i) = {i, ToRight(i)} /\ Held(i)' = {i, ToRight(i)}
        BY <3>1, <3>2, <3>6, <4>1 DEF Held, WithBoth, TypeOK
      <4>3. Handed(i)
        BY <3>1, <3>2, <3>3, <4>1, <4>2 DEF Handed, TypeOK
      <4>4. TypeOK' /\ NoStranger' /\ Portions'
        BY <3>1, <3>2, <3>6, <4>1 DEF TypeOK, NoStranger, Portions, WithBoth
      <4> QED
        BY <4>3, <4>4, <3>1, <3>2, HandOver
    <3>7. CASE pc[i] = "right plate" /\ EatWithForks(i)
      <4>1. /\ fork' = fork
            /\ meals' = [meals EXCEPT ![i] = @ + 1]
            /\ pc' = [pc EXCEPT ![i] = "eaten"]
        BY <3>7 DEF EatWithForks, Lock, Goto
      <4>2. Held(i) = {i, ToRight(i)} /\ Held(i)' = {i, ToRight(i)}
        BY <3>1, <3>2, <3>7, <4>1 DEF Held, WithBoth, TypeOK
      <4>3. Handed(i)
        BY <3>1, <3>2, <3>3, <4>1, <4>2 DEF Handed, TypeOK
      <4>4. meals \in [Philosophers -> Nat] /\ meals[i] < Meals
        BY <3>7, Zenon DEF TypeOK, Portions
      <4>5. meals' \in [Philosophers -> Nat] /\ meals'[i] <= Meals
        BY <4>1, <4>4
      <4>6. TypeOK' /\ NoStranger'
        BY <3>1, <3>2, <4>1, <4>5 DEF TypeOK, NoStranger, WithBoth
      <4>7. Portions'
        BY <3>1, <4>1, <4>4, <4>5 DEF TypeOK, Portions
      <4> QED
        BY <4>3, <4>6, <4>7, <3>1, <3>2, HandOver
    <3>8. CASE pc[i] = "eaten" /\ ReleaseForks(i) /\ UNCHANGED meals
      <4>1. /\ fork' = [fork EXCEPT ![ToRight(i)] = None]
            /\ pc' = [pc EXCEPT ![i] = "has left"]
        BY <3>8 DEF ReleaseForks, Lock, Goto
      <4>2. Held(i) = {i, ToRight(i)} /\ Held(i)' = {i}
        BY <3>1, <3>2, <3>8, <4>1 DEF Held, WithBoth, TypeOK
      <4>3. Handed(i)
        BY <3>1, <3>2, <3>3, <4>1, <4>2 DEF Handed, TypeOK
      <4>4. TypeOK' /\ NoStranger' /\ Portions'
        BY <3>1, <3>2, <3>8, <4>1 DEF TypeOK, NoStranger, Portions, WithBoth
      <4> QED
        BY <4>3, <4>4, <3>1, <3>2, HandOver
    <3>9. CASE pc[i] = "has left" /\ ReleaseForks(i) /\ UNCHANGED meals
      <4>1. /\ fork' = [fork EXCEPT ![i] = None]
            /\ pc' = [pc EXCEPT ![i] = "think"]
        BY <3>9 DEF ReleaseForks, Lock, Goto
      <4>2. Held(i) = {i} /\ Held(i)' = {}
        BY <3>1, <3>2, <3>9, <4>1 DEF Held, WithBoth, TypeOK
      <4>3. Handed(i)
        BY <3>1, <3>2, <3>3, <4>1, <4>2 DEF Handed, TypeOK
      <4>4. TypeOK' /\ NoStranger' /\ Portions'
        BY <3>1, <3>2, <3>9, <4>1 DEF TypeOK, NoStranger, Portions, WithBoth
      <4> QED
        BY <4>3, <4>4, <3>1, <3>2, HandOver
    <3> QED
      BY <2>1, <3>4, <3>5, <3>6, <3>8, <3>9, <3>7
         DEF Step, AcquireForks, EatWithForks, ReleaseForks
  <2>2. CASE UNCHANGED vars
    <3>1. /\ seats' = seats /\ fork' = fork /\ pc' = pc /\ meals' = meals
          /\ Philosophers' = Philosophers
      BY <2>2 DEF vars, Philosophers
    <3>2. \A i : Held(i)' = Held(i)
      BY <3>1 DEF Held, First, ToRight
    <3>3. TypeOK'
      BY <3>1, Zenon DEF TypeOK
    <3>4. Owned'
      BY <3>1, <3>2, Zenon DEF Owned
    <3>5. NoStranger' /\ Portions'
      BY <3>1, Zenon DEF NoStranger, Portions, None
    <3> QED
      BY <3>3, <3>4, <3>5
  <2> QED
    BY <2>1, <2>2 DEF Next, Terminated
<1> QED
  BY <1>1, <1>2


-----------------------------------------------------------------------------
(* What the step of a philosopher waits for: a fork. *)
CanStep(i) ==
  \/ pc[i] = "think" /\ meals[i] < Meals /\ fork[First(i)] = None
  \/ pc[i] = "has one" /\ fork[Second(i)] = None
  \/ pc[i] \in WithBoth \cup {"has left"}

NoRing == AllAte \/ \E i \in Philosophers : CanStep(i)

(* The order in which all reach for the forks. *)
Place(f) == IF f = 0 THEN seats ELSE f


-----------------------------------------------------------------------------
(* AccessPlate() never finds another philosopher at its plate: the forks       *)
(* EatWithForks() is called with guard both plates.                           *)
THEOREM PlatesAreApart ==
  ASSUME MaxSeats \in Nat, Meals \in Nat
  PROVE  Spec => []PlatesApart
<1>1. IInv => PlatesApart
  <2> SUFFICES ASSUME IInv,
                      NEW i \in Philosophers, NEW j \in Philosophers,
                      NEW f \in At(i) \cap At(j)
               PROVE  i = j
    BY DEF PlatesApart
  <2>1. \A k \in Philosophers : At(k) \subseteq Held(k)
    BY DEF At, Held, WithBoth
  <2>2. f \in Held(i) /\ f \in Held(j)
    BY <2>1
  <2>3. f \in Philosophers
    <3>1. i \in Philosophers /\ ToRight(i) \in Philosophers
      BY Ring DEF IInv
    <3> QED
      BY <3>1 DEF At
  <2> QED
    BY <2>2, <2>3 DEF IInv, Owned
<1> QED
  BY <1>1, IInvInductive, PTL DEF Spec

(* Until all have had their meals there is one who need not wait for a fork:   *)
(* the philosophers cannot deadlock, however many they are.                   *)
THEOREM DeadlockFree ==
  ASSUME MaxSeats \in Nat, Meals \in Nat
  PROVE  Spec => []NoRing
<1>1. ASSUME IInv, NEW i \in Philosophers
      PROVE  /\ Place(First(i)) \in 1..seats /\ Place(Second(i)) \in 1..seats
             /\ Place(First(i)) < Place(Second(i))
  <2> USE <1>1 DEF IInv
  <2>1. seats \in 2..MaxSeats /\ i \in 0..(seats - 1)
    BY Zenon DEF TypeOK, Philosophers
  <2>2. ToRight(i) = IF i + 1 = seats THEN 0 ELSE i + 1
    BY Ring
  <2>3. CASE i = 0
    BY <2>1, <2>2, <2>3 DEF First, Second, Place
  <2>4. CASE i # 0
    <3>1. First(i) = i /\ Second(i) = ToRight(i)
      BY <2>4 DEF First, Second
    <3> QED
      BY <2>1, <2>2, <2>4, <3>1 DEF Place
  <2> QED
    BY <2>3, <2>4
<1>2. ASSUME NEW T, T \subseteq Nat, T # {}
      PROVE  \E m \in T : \A k \in T : m <= k
  <2> USE <1>2
  <2> DEFINE R == OpToRel(<, Nat)
  <2>1. PICK m \in T : \A k \in T : <<k, m>> \notin R
    <3> HIDE DEF R
    <3>1. IsWellFoundedOn(R, Nat)
      BY NatLessThanWellFounded DEF R
    <3> QED
      BY <3>1, WFMin
  <2>2. \A k \in T : k \in Nat /\ m \in Nat /\ ~(k < m)
    BY <2>1, Zenon DEF OpToRel
  <2>3. \A k \in T : m <= k
    BY <2>2
  <2> QED
    BY <2>3
<1>3. ASSUME NEW n \in Nat, NEW k \in 1..n, NEW l \in 1..n
      PROVE  n - k \in Nat /\ (k < l => ~(n - k <= n - l))
  BY <1>3
(* If nobody could step, each of those who hold one fork would wait for the    *)
(* first fork of another of them, further on in the order.                    *)
<1>4. IInv => NoRing
  <2> SUFFICES ASSUME IInv,
                      \A i \in Philosophers : ~CanStep(i)
               PROVE  AllAte
    BY DEF NoRing
  <2> DEFINE Waiting == {i \in Philosophers : pc[i] = "has one"}
  <2>1. \A i \in Philosophers : pc[i] \in {"think", "has one"}
    BY DEF IInv, TypeOK, CanStep
  <2>2. \A i \in Waiting : \E j \in Waiting : First(j) = Second(i)
    <3> SUFFICES ASSUME NEW i \in Waiting PROVE \E j \in Waiting : First(j) = Second(i)
      OBVIOUS
    <3>1. Second(i) \in Philosophers
      BY Ring DEF IInv
    <3>2. fork[Second(i)] \in Philosophers
      BY <3>1 DEF CanStep, IInv, NoStranger
    <3>3. Second(i) \in Held(fork[Second(i)])
      BY <3>1, <3>2 DEF IInv, Owned
    <3> QED
      BY <2>1, <3>2, <3>3 DEF Held, WithBoth
  <2>3. Waiting = {}
    <3> SUFFICES ASSUME Waiting # {} PROVE FALSE
      OBVIOUS
    <3>1. seats \in Nat
      BY Ring, Zenon DEF IInv
    <3> DEFINE Left == {seats - Place(First(i)) : i \in Waiting}
    <3>2. Left \subseteq Nat /\ Left # {}
      <4>1. \A i \in Waiting : Place(First(i)) \in 1..seats
        BY <1>1 DEF IInv
      <4>2. \A i \in Waiting : seats - Place(First(i)) \in Nat
        BY <3>1, <4>1, <1>3, Zenon
      <4> QED
        BY <4>2, Zenon
    <3>3. PICK m \in Left : \A k \in Left : m <= k
      BY <3>2, <1>2, Zenon
    <3>4. PICK i \in Waiting : m = seats - Place(First(i))
      BY <3>3
    <3>5. PICK j \in Waiting : First(j) = Second(i)
      BY <2>2
    <3>6. Place(First(i)) < Place(First(j))
      BY <3>5, <1>1 DEF IInv
    <3>7. Place(First(i)) \in 1..seats /\ Place(First(j)) \in 1..seats
      BY <1>1 DEF IInv
    <3>8. seats - Place(First(i)) <= seats - Place(First(j))
      BY <3>3, <3>4
    <3> QED
      BY <3>1, <3>6, <3>7, <3>8, <1>3, Zenon
  <2>4. \A i, f \in Philosophers : fork[f] # i
    <3>1. \A i \in Philosophers : Held(i) = {}
      BY <2>1, <2>3 DEF Held, WithBoth
    <3> QED
      BY <3>1, Zenon DEF IInv, Owned
  <2>5. \A i \in Philosophers : fork[First(i)] = None
    BY <2>4, Ring DEF IInv, NoStranger
  <2>6. ASSUME NEW i \in Philosophers PROVE pc[i] = "think" /\ meals[i] = Meals
    <3>1. pc[i] = "think" /\ ~(meals[i] < Meals)
      BY <2>1, <2>3, <2>5 DEF CanStep
    <3> QED
      <4>1. meals[i] \in Nat /\ meals[i] <= Meals
        BY Zenon DEF IInv, TypeOK, Portions
      <4> QED
        BY <3>1, <4>1
  <2> QED
    BY <2>6 DEF AllAte
<1> QED
  BY <1>4, IInvInductive, PTL DEF Spec
=============================================================================
