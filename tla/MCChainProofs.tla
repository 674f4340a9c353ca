--------------------------- MODULE MCChainProofs ---------------------------
(* Proofs about the chains of sequential combinators that MCTasks checks, for any  *)
(* workers of the pool and any interleaving of them.                           *)
(*                                                                           *)
(* A thread or an executor still has a sequence of operations to run: to pipe, to  *)
(* publish a result, to subscribe a callback, to call a function.  The inductive   *)
(* invariant says of each operation of each such sequence that what it needs is     *)
(* there, or that an operation before it in the same sequence provides it.  All     *)
(* that an operation may need stays so once it is so, thus a sequence that could    *)
(* be run can be run after any step of another thread.                          *)
EXTENDS MCTasksProofs

(* What each future of a chain is fulfilled with; 10 + j is the inner future of     *)
(* stage j.                                                                    *)
Promised(f) == IF f <= Chain!Last THEN Chain!Composed[f] ELSE Chain!R(f - 10)

(* The case of stage j occurs; its function is to be called; it waits for an inner  *)
(* future.                                                                     *)
Occurs(j) == Chain!Applies(j, Chain!Composed[j - 1])
Asked(j)  == Chain!HasFunction(j) /\ Occurs(j)
Opens(j)  == q_chain[j] \in {"flat_map", "flatten"} /\ Occurs(j)

(* Facts that stay, once a step has established them.                            *)
Called(n)    == \A j \in 1..Chain!Last : j <= n /\ Asked(j) => q_calledBy[j] # {}
Straight(n)  == \A i \in 1..n : q_chain[i] # "flatten"
Told(f)      == Straight(f) => q_executor[f] = q_executor[0]
Fulfilled(f) == q_result[f] = Promised(f) /\ (f <= Chain!Last => Called(f))
Expected(f)  == IF f <= Chain!Last THEN Told(f) ELSE Opens(f - 10) /\ Called(f - 10)

(* What an operation needs is there, or an operation of the same sequence before it *)
(* provides it; the threads of W run the sequence.                              *)
Earlier(s, k, op, f) == \E i \in 1..(k - 1) : s[i][1] = op /\ s[i][2] = f

Needs(s, k, f, W) ==
  /\ s[k][1] = "emplace" =>
       /\ s[k][3] = Promised(f)
       /\ f <= Chain!Last => Called(f - 1) /\ (Called(f) \/ Earlier(s, k, "call", f))
  /\ s[k][1] = "publish" => Fulfilled(f) \/ Earlier(s, k, "emplace", f)
  /\ s[k][1] = "subscribe" =>
       IF f <= Chain!Last THEN Told(f) \/ Earlier(s, k, "via", f)
       ELSE Opens(f - 10) /\ Called(f - 11) /\ (Called(f - 10) \/ Earlier(s, k, "call", f - 10))
  /\ s[k][1] = "invoke" => Fulfilled(f) /\ Expected(f)
  /\ s[k][1] = "call" => 
       f \in 1..Chain!Last /\ Asked(f) /\ (Straight(f - 1) => W \subseteq Chain!Where(q_executor[0]))
  /\ s[k][1] = "via" => f \in 1..Chain!Last /\ (Told(f - 1) \/ Earlier(s, k, "via", f - 1))
  /\ s[k][1] = "get" => f = Chain!Last
  /\ s[k][1] = "consume" => f = Chain!Last /\ Fulfilled(f)
  /\ s[k][1] = "drain" => W \subseteq {Main}

Numbers == {0, 1, 2, 3, 11, 12, 13}
Known   == 0..Chain!Last \cup {10 + j : j \in 1..Chain!Last}
Orders  ==
  ({"publish", "store", "subscribe", "invoke", "call", "via", "get", "consume", "drain"} \X Numbers)
    \cup ({"emplace"} \X Numbers \X [ok : BOOLEAN, by : 0..3])

Runnable(s, W) == s \in Seq(Orders) /\ \A k \in 1..Len(s) : s[k][2] \in Known /\ Needs(s, k, s[k][2], W)

ChainTypes ==
  /\ q_chain \in Chains /\ q_outcome \in [0..Chain!Last -> BOOLEAN] /\ Chain!Possible(q_chain, q_outcome)
  /\ q_result \in [Numbers -> [ok : BOOLEAN, by : 0..3] \cup {Nothing}]
  /\ q_state \in [Numbers -> {"Initial", "ResultSet", "CallbackSet"}]
  /\ q_executor \in [Numbers -> {"inline", "pool", "manual"}]
  /\ q_calledBy \in [1..Chain!Last -> SUBSET ({Main} \cup Workers)]
  /\ q_todo \in [{Main} \cup Workers -> Seq(Orders)]
  /\ q_tasks \in Seq(Seq(Orders)) /\ q_manual \in Seq(Seq(Orders))

Settled ==
  /\ \A f \in Known : /\ q_result[f] # Nothing => Fulfilled(f)
                      /\ q_state[f] = "ResultSet" => Fulfilled(f)
                      /\ q_state[f] = "CallbackSet" => Expected(f)
  /\ \A j \in 1..Chain!Last :
       q_calledBy[j] # {} =>
         Asked(j) /\ (Straight(j - 1) => q_calledBy[j] \subseteq Chain!Where(q_executor[0]))
  /\ q_got # Nothing => q_got = Promised(Chain!Last) /\ Called(Chain!Last)

ChainInv ==
  /\ ChainTypes /\ Settled
  /\ \A t \in {Main} \cup Workers : Runnable(q_todo[t], {t})
  /\ \A i \in 1..Len(q_tasks) : Runnable(q_tasks[i], Workers)
  /\ \A i \in 1..Len(q_manual) : Runnable(q_manual[i], {Main})

(* What the actions keep, for any workers. *)
LEMMA ChainInductive == (Init => ChainInv) /\ (ChainInv /\ [Next]_vars => ChainInv')
<1> DEFINE Values == [ok : BOOLEAN, by : 0..3]
           Everyone == {Main} \cup Workers
<1>1. ASSUME q_chain \in Chains
      PROVE  /\ Chain!Last \in {2, 3} /\ Len(q_chain) = Chain!Last
             /\ Known \subseteq Numbers
             /\ \A f \in Known : \/ f \in 0..Chain!Last
                                 \/ /\ ~(f <= Chain!Last) /\ f > 10 /\ f - 10 \in 1..Chain!Last
                                    /\ 10 + (f - 10) = f /\ f - 11 = (f - 10) - 1
             /\ \A f \in 0..Chain!Last : f <= Chain!Last /\ f \in Known /\ ~(f > 10) /\ f \in 0..3
             /\ \A j \in 1..Chain!Last :
                  /\ j \in Known /\ j - 1 \in 0..Chain!Last /\ 10 + j \in Known /\ 10 + j > 10
                  /\ ~(10 + j <= Chain!Last) /\ (10 + j) - 10 = j /\ (10 + j) - 11 = j - 1
                  /\ j \in 0..3 /\ j \in 0..Chain!Last
  <2>1. Chain!Last \in {2, 3} /\ Len(q_chain) = Chain!Last
    BY <1>1 DEF Chains, Chain!Last
  <2> HIDE DEF Values
  <2> QED BY <2>1 DEF Known, Numbers
<1>2. ASSUME ChainTypes
      PROVE  /\ Chain!Composed[0] = Chain!R(0)
             /\ \A j \in 1..Chain!Last :
                  Chain!Composed[j] = IF Occurs(j) THEN Chain!R(j) ELSE Chain!Composed[j - 1]
  <2> DEFINE N == Chain!Last
             G(c, j) == IF c.ok = (q_chain[j] # "or_else") THEN Chain!R(j) ELSE c
             c0 == Chain!R(0)
             c1 == G(c0, 1)
             c2 == G(c1, 2)
             c3 == G(c2, 3)
             F  == [j \in 0..N |-> IF j = 0 THEN c0 ELSE IF j = 1 THEN c1 ELSE IF j = 2 THEN c2 ELSE c3]
             Body(h) == [j \in 0..N |-> IF j = 0 THEN Chain!R(0)
                                        ELSE IF Chain!Applies(j, h[j - 1]) THEN Chain!R(j) ELSE h[j - 1]]
  <2>1. N \in {2, 3}
    BY <1>1, <1>2 DEF ChainTypes
  <2>2. \A j \in 0..N : j = 0 \/ (j = 1 /\ j - 1 \in 0..N) \/
                       (j = 2 /\ j - 1 \in 0..N) \/ (j = 3 /\ j - 1 \in 0..N)
    BY <2>1
  <2>3. F = Body(F)
    BY <2>1, <2>2 DEF Chain!Applies
  <2>4. Chain!Composed = CHOOSE h : h = Body(h)
    BY DEF Chain!Composed
  <2>5. Chain!Composed = Body(Chain!Composed)
    BY <2>3, <2>4
  <2>6. 0 \in 0..N /\ \A j \in 1..N : j \in 0..N /\ j # 0
    BY <2>1
  <2>7. \A j \in 0..N : Chain!Composed[j] =
          IF j = 0 THEN Chain!R(0)
          ELSE IF Chain!Applies(j, Chain!Composed[j - 1]) THEN Chain!R(j) ELSE Chain!Composed[j - 1]
    BY <2>5
  <2>8. Chain!Composed[0] = Chain!R(0)
    BY <2>6, <2>7
  <2>9. ASSUME NEW j \in 1..N
        PROVE  Chain!Composed[j] = IF Occurs(j) THEN Chain!R(j) ELSE Chain!Composed[j - 1]
    BY <2>6, <2>7 DEF Occurs
  <2> QED BY <2>8, <2>9
<1>3. ASSUME ChainTypes
      PROVE  /\ Promised(0) = Chain!R(0)
             /\ \A j \in 1..Chain!Last : /\ Promised(j) = IF Occurs(j) THEN Chain!R(j) ELSE Promised(j - 1)
                                         /\ Promised(10 + j) = Chain!R(j)
             /\ \A j \in 0..Chain!Last : Chain!R(j) \in Values /\ Promised(j) = Chain!Composed[j]
             /\ \A f \in Known : Promised(f) \in Values
             /\ \A j \in 1..Chain!Last :
                   q_chain[j] \in {"map", "nest", "flat_map", "flatten"} => Chain!R(j).ok
  <2>1. q_chain \in Chains
    BY <1>3 DEF ChainTypes
  <2>2. \A j \in 0..Chain!Last : Promised(j) = Chain!Composed[j]
    BY <1>1, <2>1 DEF Promised
  <2>3. \A j \in 1..Chain!Last : Promised(10 + j) = Chain!R(j)
    BY <1>1, <2>1 DEF Promised
  <2>4. \A j \in 0..Chain!Last : Chain!R(j) \in Values
    BY <1>1, <1>3, <2>1 DEF ChainTypes, Chain!R
  <2>5. Promised(0) = Chain!R(0) /\ 0 \in 0..Chain!Last
    BY <1>1, <1>2, <1>3, <2>1, <2>2
  <2>6. \A j \in 1..Chain!Last : Promised(j) = IF Occurs(j) THEN Chain!R(j) ELSE Promised(j - 1)
    BY <1>1, <1>2, <1>3, <2>1, <2>2
  <2>7. \A j \in 0..Chain!Last : Promised(j) \in Values
    <3>1. Promised(0) \in Values
      BY <2>4, <2>5
    <3>2. ASSUME NEW j \in 1..Chain!Last, Promised(j - 1) \in Values
          PROVE  Promised(j) \in Values
      BY <1>1, <2>1, <2>4, <2>6, <3>2
    <3>3. Promised(1) \in Values /\ Promised(2) \in Values /\ (Chain!Last = 3 => Promised(3) \in Values)
      <4>1. 1 \in 1..Chain!Last /\ 2 \in 1..Chain!Last /\ (Chain!Last = 3 => 3 \in 1..Chain!Last)
        BY <1>1, <2>1
      <4>2. 1 - 1 = 0 /\ 2 - 1 = 1 /\ 3 - 1 = 2
        OBVIOUS
      <4> HIDE DEF Values
      <4>3. Promised(1) \in Values
        BY <3>1, <3>2, <4>1, <4>2
      <4>4. Promised(2) \in Values
        BY <3>2, <4>1, <4>2, <4>3
      <4> QED BY <3>2, <4>1, <4>2, <4>3, <4>4
    <3>4. \A j \in 0..Chain!Last : j = 0 \/ j = 1 \/ j = 2 \/ (j = 3 /\ Chain!Last = 3)
      BY <1>1, <2>1
    <3> HIDE DEF Values
    <3> QED BY <3>1, <3>3, <3>4
  <2>8. \A f \in Known : Promised(f) \in Values
    <3>1. ASSUME NEW f \in Known
          PROVE  f \in 0..Chain!Last \/ \E j \in 1..Chain!Last : f = 10 + j
      BY DEF Known
    <3>2. \A j \in 1..Chain!Last : j \in 0..Chain!Last
      BY <1>1, <2>1
    <3> HIDE DEF Values
    <3> QED BY <2>3, <2>4, <2>7, <3>1, <3>2
  <2>9. ASSUME NEW j \in 1..Chain!Last, q_chain[j] \in {"map", "nest", "flat_map", "flatten"}
        PROVE  Chain!R(j).ok
    <3>1. q_outcome[j]
      BY <1>1, <1>3, <2>1, <2>9 DEF ChainTypes, Chain!Possible
    <3> QED BY <3>1 DEF Chain!R
  <2> HIDE DEF Values
  <2> QED BY <2>2, <2>3, <2>4, <2>5, <2>6, <2>8, <2>9
<1> DEFINE Same == q_chain' = q_chain /\ q_outcome' = q_outcome
<1>4. ASSUME Same
      PROVE  /\ Chain!Last' = Chain!Last /\ Known' = Known
             /\ \A f : Promised(f)' = Promised(f)
             /\ \A j : /\ Occurs(j)' <=> Occurs(j)
                       /\ Asked(j)' <=> Asked(j)
                       /\ Opens(j)' <=> Opens(j)
                       /\ Straight(j)' <=> Straight(j)
                       /\ Chain!R(j)' = Chain!R(j)
  <2>1. Chain!Last' = Chain!Last
    BY <1>4 DEF Chain!Last
  <2>2. Known' = Known
    BY <2>1 DEF Known
  <2>3. ASSUME NEW j
        PROVE  Chain!R(j)' = Chain!R(j)
    BY <1>4 DEF Chain!R
  <2>4. ASSUME NEW j, NEW r
        PROVE  Chain!Applies(j, r)' <=> Chain!Applies(j, r)
    BY <1>4 DEF Chain!Applies
  <2>5. Chain!Composed' = Chain!Composed
    BY <1>4 DEF Chain!Composed, Chain!Applies, Chain!R, Chain!Last
  <2>6. ASSUME NEW f
        PROVE  Promised(f)' = Promised(f)
    BY <2>1, <2>3, <2>5 DEF Promised
  <2>7. ASSUME NEW j
        PROVE  Occurs(j)' <=> Occurs(j)
    BY <1>4, <2>5 DEF Occurs, Chain!Applies
  <2>8. ASSUME NEW j
        PROVE  (Asked(j)' <=> Asked(j)) /\ (Opens(j)' <=> Opens(j))
    BY <1>4, <2>7 DEF Asked, Opens, Chain!HasFunction
  <2>9. ASSUME NEW j
        PROVE  Straight(j)' <=> Straight(j)
    BY <1>4 DEF Straight
  <2> QED BY <2>1, <2>2, <2>3, <2>6, <2>7, <2>8, <2>9

(* What is told, called or fulfilled stays so. *)
<1> DEFINE Grows == /\ Same
                    /\ q_executor'[0] = q_executor[0]
                    /\ \A n : Called(n) => Called(n)'
                    /\ \A f \in Known : (Fulfilled(f) => Fulfilled(f)') /\ (Told(f) => Told(f)')
           Effect(h) == /\ h[1] = "call" => (Called(h[2] - 1) => Called(h[2]))
                        /\ h[1] = "emplace" => Fulfilled(h[2])
                        /\ h[1] = "via" => Told(h[2])
<1>5. ASSUME ChainTypes, Grows
      PROVE  \A f \in Known : Expected(f) => Expected(f)'
  <2>1. ASSUME NEW f \in Known, Expected(f)
        PROVE  Expected(f)'
    <3>1. (Told(f) => Told(f)') /\ (Opens(f - 10)' <=> Opens(f - 10)) /\ (Called(f - 10) => Called(f - 10)')
          /\ Chain!Last' = Chain!Last
      BY <1>4, <1>5
    <3> QED BY <2>1, <3>1 DEF Expected
  <2> QED BY <2>1
(* A need that is met stays met when earlier operations are still there or are done. *)
<1>6. ASSUME ChainTypes, Grows, NEW q, NEW k, NEW W, NEW f \in Known, Needs(q, k, f, W),
             NEW s, NEW i, s[i] = q[k],
             \A op : \A g \in Known : Earlier(q, k, op, g) => \/ Earlier(s, i, op, g)
                                                            \/ /\ op = "call" => (Called(g - 1)' => Called(g)')
                                                               /\ op = "emplace" => Fulfilled(g)'
                                                               /\ op = "via" => Told(g)'
      PROVE  Needs(s, i, f, W)'
  <2>1. q_chain \in Chains
    BY <1>6 DEF ChainTypes
  <2>2. /\ Chain!Last' = Chain!Last /\ Promised(f)' = Promised(f) /\ (Asked(f)' <=> Asked(f))
        /\ (Opens(f - 10)' <=> Opens(f - 10)) /\ (Straight(f - 1)' <=> Straight(f - 1))
        /\ q_executor'[0] = q_executor[0]
    BY <1>4, <1>6
  <2>3. /\ Called(f - 1) => Called(f - 1)'
        /\ Called(f) => Called(f)'
        /\ Called(f - 10) => Called(f - 10)'
        /\ Called(f - 11) => Called(f - 11)'
        /\ Fulfilled(f) => Fulfilled(f)'
        /\ Told(f) => Told(f)'
        /\ Expected(f) => Expected(f)'
    BY <1>5, <1>6
  <2> DEFINE op == q[k][1]
  <2>4. Earlier(s, i, op, f)' <=> Earlier(s, i, op, f)
    OBVIOUS
  <2>5. op = "emplace" => /\ s[i][3] = Promised(f)'
                          /\ f <= Chain!Last' => Called(f - 1)' /\ (Called(f)' \/ Earlier(s, i, "call", f))
    BY <1>6, <2>2, <2>3 DEF Needs
  <2>6. op = "publish" => Fulfilled(f)' \/ Earlier(s, i, "emplace", f)
    BY <1>6, <2>3 DEF Needs
  <2>7. op = "subscribe" =>
          IF f <= Chain!Last' THEN Told(f)' \/ Earlier(s, i, "via", f)
          ELSE Opens(f - 10)' /\ Called(f - 11)' /\ (Called(f - 10)' \/ Earlier(s, i, "call", f - 10))
    <3>1. CASE f <= Chain!Last
      BY <1>6, <2>2, <2>3, <3>1 DEF Needs
    <3>2. CASE ~(f <= Chain!Last)
      <4>1. f - 10 \in Known /\ (f - 10) - 1 = f - 11
        BY <1>1, <2>1, <3>2
      <4> QED BY <1>6, <2>2, <2>3, <3>2, <4>1 DEF Needs
    <3> QED BY <3>1, <3>2
  <2>8. op = "invoke" => Fulfilled(f)' /\ Expected(f)'
    BY <1>6, <2>3 DEF Needs
  <2>9. op = "call" => /\ f \in 1..Chain!Last' /\ Asked(f)'
                       /\ Straight(f - 1)' => W \subseteq Chain!Where(q_executor'[0])
    BY <1>6, <2>2 DEF Needs
  <2>10. op = "via" => f \in 1..Chain!Last' /\ (Told(f - 1)' \/ Earlier(s, i, "via", f - 1))
    <3>1. f \in 1..Chain!Last => f - 1 \in Known
      BY <1>1, <2>1
    <3> QED BY <1>6, <2>2, <3>1 DEF Needs
  <2>11. /\ op = "get" => f = Chain!Last'
         /\ op = "consume" => f = Chain!Last' /\ Fulfilled(f)'
         /\ op = "drain" => W \subseteq {Main}
    BY <1>6, <2>2, <2>3 DEF Needs
  <2>12. Chain!Where(q_executor[0])' = Chain!Where(q_executor'[0])
    BY DEF Chain!Where
  <2> QED BY <1>6, <2>5, <2>6, <2>7, <2>8, <2>9, <2>10, <2>11, <2>12 DEF Needs, Earlier
<1>7. ASSUME ChainTypes, Grows, NEW q, NEW W, Runnable(q, W)
      PROVE  Runnable(q, W)'
  <2>1. Known' = Known
    BY <1>4, <1>7
  <2>2. ASSUME NEW k \in 1..Len(q)
        PROVE  q[k][2] \in Known' /\ Needs(q, k, q[k][2], W)'
    <3>1. q[k][2] \in Known /\ Needs(q, k, q[k][2], W)
      BY <1>7 DEF Runnable
    <3> HIDE DEF Grows
    <3> QED BY <1>6, <1>7, <2>1, <3>1
  <2> QED BY <1>7, <2>2 DEF Runnable, Orders, Numbers
(* What the head of a sequence has done need not come before the rest any more. *)
<1>8. ASSUME ChainTypes, Grows, NEW q, NEW W, Runnable(q, W), q # <<>>, Effect(Head(q))'
      PROVE  Runnable(Tail(q), W)'
  <2>1. /\ q \in Seq(Orders) /\ Tail(q) \in Seq(Orders) /\ Head(q) = q[1]
        /\ Len(q) \in Nat /\ Len(Tail(q)) = Len(q) - 1
        /\ \A i \in 1..Len(Tail(q)) : Tail(q)[i] = q[i + 1] /\ i + 1 \in 1..Len(q)
    BY <1>8 DEF Runnable
  <2>2. Known' = Known
    BY <1>4, <1>8
  <2>3. ASSUME NEW k \in 1..Len(Tail(q))
        PROVE  Tail(q)[k][2] \in Known' /\ Needs(Tail(q), k, Tail(q)[k][2], W)'
    <3>1. q[k + 1][2] \in Known /\ Needs(q, k + 1, q[k + 1][2], W) /\ Tail(q)[k] = q[k + 1]
      BY <1>8, <2>1 DEF Runnable
    <3>2. ASSUME NEW op, NEW g \in Known, Earlier(q, k + 1, op, g)
          PROVE  \/ Earlier(Tail(q), k, op, g)
                 \/ /\ op = "call" => (Called(g - 1)' => Called(g)')
                    /\ op = "emplace" => Fulfilled(g)'
                    /\ op = "via" => Told(g)'
      <4>1. PICK i \in 1..((k + 1) - 1) : q[i][1] = op /\ q[i][2] = g
        BY <3>2 DEF Earlier
      <4>2. CASE i = 1
        BY <1>8, <2>1, <4>1, <4>2
      <4>3. CASE i # 1
        <5>1. i - 1 \in 1..(k - 1) /\ i - 1 \in 1..Len(Tail(q)) /\ (i - 1) + 1 = i
          BY <2>1, <4>3
        <5> QED BY <2>1, <4>1, <5>1 DEF Earlier
      <4> QED BY <4>2, <4>3
    <3> HIDE DEF Grows
    <3> QED BY <1>6, <1>8, <2>2, <3>1, <3>2
  <2> QED BY <2>1, <2>3 DEF Runnable, Orders, Numbers
<1>9. ASSUME NEW c, NEW d, NEW W, Runnable(c, W)', Runnable(d, W)'
      PROVE  Runnable(c \o d, W)'
  <2>0. /\ Chain!Where(q_executor[0])' = Chain!Where(q_executor'[0])
        /\ Orders' = Orders
    BY DEF Chain!Where, Orders, Numbers
  <2>1. /\ c \in Seq(Orders) /\ d \in Seq(Orders) /\ c \o d \in Seq(Orders)
        /\ Len(c) \in Nat /\ Len(d) \in Nat /\ Len(c \o d) = Len(c) + Len(d)
        /\ \A i \in 1..Len(c) : (c \o d)[i] = c[i]
        /\ \A i \in 1..Len(d) : (c \o d)[Len(c) + i] = d[i]
    BY <1>9, <2>0 DEF Runnable
  <2>2. ASSUME NEW k \in 1..Len(c)
        PROVE  (c \o d)[k][2] \in Known' /\ Needs(c \o d, k, (c \o d)[k][2], W)'
    <3>1. c[k][2] \in Known' /\ Needs(c, k, c[k][2], W)' /\ (c \o d)[k] = c[k]
      BY <1>9, <2>1 DEF Runnable
    <3>2. ASSUME NEW op, NEW g
          PROVE  Earlier(c, k, op, g) => Earlier(c \o d, k, op, g)
      <4>1. \A i \in 1..(k - 1) : i \in 1..Len(c)
        BY <2>1
      <4> QED BY <2>1, <4>1 DEF Earlier
    <3> QED BY <3>1, <3>2 DEF Needs, Earlier
  <2>3. ASSUME NEW j \in 1..Len(d)
        PROVE  (c \o d)[Len(c) + j][2] \in Known' /\ Needs(c \o d, Len(c) + j, (c \o d)[Len(c) + j][2], W)'
    <3>1. d[j][2] \in Known' /\ Needs(d, j, d[j][2], W)' /\ (c \o d)[Len(c) + j] = d[j]
      BY <1>9, <2>1 DEF Runnable
    <3>2. ASSUME NEW op, NEW g
          PROVE  Earlier(d, j, op, g) => Earlier(c \o d, Len(c) + j, op, g)
      <4>1. \A i \in 1..(j - 1) : i \in 1..Len(d) /\ Len(c) + i \in 1..(Len(c) + j - 1)
        BY <2>1
      <4> SUFFICES ASSUME Earlier(d, j, op, g)
                   PROVE  Earlier(c \o d, Len(c) + j, op, g)
        OBVIOUS
      <4>2. PICK i \in 1..(j - 1) : d[i][1] = op /\ d[i][2] = g
        BY DEF Earlier
      <4>3. /\ (c \o d)[Len(c) + i] = d[i] /\ Len(c) + i \in 1..((Len(c) + j) - 1)
        BY <2>1, <4>1, <4>2
      <4> QED BY <4>2, <4>3 DEF Earlier
    <3>3. PICK m : m = Len(c) + j
      OBVIOUS
    <3>4. PICK s : s = c \o d
      OBVIOUS
    <3>5. s[m] = d[j] /\ \A op, g : Earlier(d, j, op, g) => Earlier(s, m, op, g)
      BY <3>1, <3>2, <3>3, <3>4
    <3>6. Needs(s, m, d[j][2], W)'
      <4>1. \A op, g : /\ Earlier(d, j, op, g)' <=> Earlier(d, j, op, g)
                      /\ Earlier(s, m, op, g)' <=> Earlier(s, m, op, g)
        BY DEF Earlier
      <4>2. PICK f : f = d[j][2]
        OBVIOUS
      <4>3. Needs(d, j, f, W)' => Needs(s, m, f, W)'
        BY <3>5, <4>1, ZenonT(30) DEF Needs
      <4> QED BY <3>1, <4>2, <4>3
    <3> QED BY <3>1, <3>3, <3>4, <3>5, <3>6
  <2>4. \A k \in 1..(Len(c) + Len(d)) : k \in 1..Len(c) \/ \E j \in 1..Len(d) : k = Len(c) + j
    <3>1. ASSUME NEW k \in 1..(Len(c) + Len(d)), k \notin 1..Len(c)
          PROVE  k - Len(c) \in 1..Len(d) /\ k = Len(c) + (k - Len(c))
      BY <2>1, <3>1
    <3> QED BY <3>1
  <2>5. \A k \in 1..Len(c \o d) : (c \o d)[k][2] \in Known' /\ Needs(c \o d, k, (c \o d)[k][2], W)'
    BY <2>1, <2>2, <2>3, <2>4
  <2> QED BY <2>0, <2>1, <2>5 DEF Runnable
(* What the head of a sequence needs is there. *)
<1>10. ASSUME NEW q, NEW W, Runnable(q, W), q # <<>>
       PROVE  /\ q \in Seq(Orders) /\ Tail(q) \in Seq(Orders) /\ Head(q) = q[1] /\ Head(q) \in Orders
              /\ Head(q)[2] \in Known /\ Needs(q, 1, Head(q)[2], W)
              /\ \A op, g : ~Earlier(q, 1, op, g)
  <2>1. q \in Seq(Orders) /\ 1 \in 1..Len(q) /\ Head(q) = q[1]
    BY <1>10 DEF Runnable
  <2> QED BY <1>10, <2>1 DEF Runnable, Earlier
(* The bodies of the callbacks. *)
<1> DEFINE May(j, W) == Straight(j - 1) => W \subseteq Chain!Where(q_executor[0])
<1>11. ASSUME ChainTypes, NEW f \in Known, NEW W, f <= Chain!Last => Called(f)
       PROVE  Runnable(Chain!SetResult(f, Promised(f)), W)
  <2>1. PICK s : s = <<<<"emplace", f, Promised(f)>>, <<"publish", f>>>>
    OBVIOUS
  <2>2. Promised(f) \in Values /\ f \in Numbers
    BY <1>1, <1>3, <1>11 DEF ChainTypes
  <2>3. /\ Len(s) = 2 /\ s[1] = <<"emplace", f, Promised(f)>> /\ s[2] = <<"publish", f>> /\ s \in Seq(Orders)
    BY <2>1, <2>2 DEF Orders
  <2>4. f <= Chain!Last => Called(f - 1)
    <3>1. f <= Chain!Last => f \in 0..Chain!Last
      BY <1>1, <1>11 DEF ChainTypes
    <3>2. f \in 0..Chain!Last => \A j \in 1..Chain!Last : j <= f - 1 => j <= f
      BY <1>1, <1>11 DEF ChainTypes
    <3> QED BY <1>11, <3>1, <3>2 DEF Called
  <2>5. Needs(s, 1, f, W)
    BY <1>11, <2>3, <2>4 DEF Needs
  <2>6. Earlier(s, 2, "emplace", f)
    BY <2>3 DEF Earlier
  <2>7. Needs(s, 2, f, W)
    BY <2>3, <2>6 DEF Needs
  <2>8. \A k \in 1..Len(s) : (k = 1 \/ k = 2) /\ s[k][2] = f
    BY <2>3
  <2>9. Runnable(s, W)
    BY <2>3, <2>5, <2>7, <2>8 DEF Runnable
  <2> QED BY <2>1, <2>9 DEF Chain!SetResult
<1>12. ASSUME ChainTypes, NEW j \in 1..Chain!Last, NEW W, Asked(j), Called(j - 1), May(j, W)
       PROVE  Runnable(Chain!Call(j) \o Chain!SetResult(j, Promised(j)), W)
  <2>1. PICK s : s = <<<<"call", j>>, <<"emplace", j, Promised(j)>>, <<"publish", j>>>>
    OBVIOUS
  <2>2. Promised(j) \in Values /\ j \in Numbers /\ j \in Known
    BY <1>1, <1>3, <1>12 DEF ChainTypes
  <2>3. /\ Len(s) = 3 /\ s[1] = <<"call", j>> /\ s[2] = <<"emplace", j, Promised(j)>>
        /\ s[3] = <<"publish", j>> /\ s \in Seq(Orders)
    BY <2>1, <2>2 DEF Orders
  <2>4. Needs(s, 1, j, W)
    BY <1>12, <2>3 DEF Needs
  <2>5. Earlier(s, 2, "call", j) /\ Earlier(s, 3, "emplace", j)
    BY <2>3 DEF Earlier
  <2>6. Needs(s, 2, j, W)
    BY <1>12, <2>3, <2>5 DEF Needs
  <2>7. Needs(s, 3, j, W)
    BY <2>3, <2>5 DEF Needs
  <2>8. \A k \in 1..Len(s) : (k = 1 \/ k = 2 \/ k = 3) /\ s[k][2] = j
    BY <2>3
  <2>9. Runnable(s, W)
    BY <2>2, <2>3, <2>4, <2>6, <2>7, <2>8 DEF Runnable
  <2>10. s = Chain!Call(j) \o Chain!SetResult(j, Promised(j))
    BY <2>1 DEF Chain!Call, Chain!SetResult
  <2> QED BY <2>9, <2>10
<1>13. ASSUME ChainTypes, NEW j \in 1..Chain!Last, NEW W, Opens(j), Called(j)
       PROVE  Runnable(Chain!SetCallback(Chain!Inner(j)), W)
  <2>0. PICK f : f = 10 + j
    OBVIOUS
  <2>1. PICK s : s = <<<<"store", f>>, <<"subscribe", f>>>>
    OBVIOUS
  <2>2. f \in Numbers /\ f \in Known /\ ~(f <= Chain!Last) /\ f - 10 = j /\ f - 11 = j - 1
    BY <1>1, <1>13, <2>0 DEF ChainTypes
  <2>3. Len(s) = 2 /\ s[1] = <<"store", f>> /\ s[2] = <<"subscribe", f>> /\ s \in Seq(Orders)
    BY <2>1, <2>2 DEF Orders
  <2>4. Called(j - 1)
    <3>1. \A i \in 1..Chain!Last : i <= j - 1 => i <= j
      BY <1>1, <1>13 DEF ChainTypes
    <3> QED BY <1>13, <3>1 DEF Called
  <2>5. Needs(s, 1, f, W)
    BY <2>3 DEF Needs
  <2>6. Needs(s, 2, f, W)
    BY <1>13, <2>2, <2>3, <2>4 DEF Needs
  <2>7. \A k \in 1..Len(s) : (k = 1 \/ k = 2) /\ s[k][2] = f
    BY <2>3
  <2>8. Runnable(s, W)
    BY <2>2, <2>3, <2>5, <2>6, <2>7 DEF Runnable
  <2>9. s = Chain!SetCallback(Chain!Inner(j))
    BY <2>0, <2>1 DEF Chain!SetCallback, Chain!Inner
  <2> QED BY <2>8, <2>9
<1>14. ASSUME ChainTypes, NEW j \in 1..Chain!Last, NEW W, Asked(j), Opens(j), Called(j - 1), May(j, W)
       PROVE  Runnable(Chain!Call(j) \o Chain!SetCallback(Chain!Inner(j)), W)
  <2>0. PICK f : f = 10 + j
    OBVIOUS
  <2>1. PICK s : s = <<<<"call", j>>, <<"store", f>>, <<"subscribe", f>>>>
    OBVIOUS
  <2>2. /\ f \in Numbers /\ f \in Known /\ ~(f <= Chain!Last) /\ f - 10 = j /\ f - 11 = j - 1
        /\ j \in Numbers /\ j \in Known
    BY <1>1, <1>14, <2>0 DEF ChainTypes
  <2>3. /\ Len(s) = 3 /\ s[1] = <<"call", j>> /\ s[2] = <<"store", f>> /\ s[3] = <<"subscribe", f>>
        /\ s \in Seq(Orders)
    BY <2>1, <2>2 DEF Orders
  <2>4. Needs(s, 1, j, W)
    BY <1>14, <2>3 DEF Needs
  <2>5. Needs(s, 2, f, W)
    BY <2>3 DEF Needs
  <2>6. Earlier(s, 3, "call", f - 10)
    BY <2>2, <2>3 DEF Earlier
  <2>7. Needs(s, 3, f, W)
    BY <1>14, <2>2, <2>3, <2>6 DEF Needs
  <2>8. \A k \in 1..Len(s) : (k = 1 /\ s[k][2] = j) \/ (k = 2 /\ s[k][2] = f) \/ (k = 3 /\ s[k][2] = f)
    BY <2>3
  <2>9. Runnable(s, W)
    BY <2>2, <2>3, <2>4, <2>5, <2>7, <2>8 DEF Runnable
  <2>10. s = Chain!Call(j) \o Chain!SetCallback(Chain!Inner(j))
    BY <2>0, <2>1 DEF Chain!Call, Chain!SetCallback, Chain!Inner
  <2> QED BY <2>9, <2>10
<1>15. ASSUME ChainTypes, NEW a \in Orders, NEW W, a[2] \in Known,
              \/ a[1] = "invoke" /\ Fulfilled(a[2]) /\ Expected(a[2])
              \/ a[1] = "consume" /\ a[2] = Chain!Last /\ Fulfilled(a[2])
              \/ a[1] = "drain" /\ W \subseteq {Main}
       PROVE  Runnable(<<a>>, W)
  <2>1. PICK s : s = <<a>>
    OBVIOUS
  <2>2. Len(s) = 1 /\ s[1] = a /\ s \in Seq(Orders)
    BY <1>15, <2>1
  <2>3. Needs(s, 1, a[2], W)
    BY <1>15, <2>2 DEF Needs
  <2>4. \A k \in 1..Len(s) : k = 1
    BY <2>2
  <2>5. Runnable(s, W)
    BY <1>15, <2>2, <2>3, <2>4 DEF Runnable
  <2> QED BY <2>1, <2>5
<1>16. ASSUME ChainTypes, NEW f \in Known, NEW W, Fulfilled(f), Expected(f),
              f <= Chain!Last => May(f + 1, W)
       PROVE  Runnable(Chain!Body(f), W)
  <2>0. q_chain \in Chains
    BY <1>16 DEF ChainTypes
  <2>1. CASE ~(f <= Chain!Last)
    <3>1. PICK j \in 1..Chain!Last : j = f - 10 /\ f = 10 + j /\ f > 10
      BY <1>1, <2>0, <2>1
    <3>2. Opens(j) /\ Called(j) /\ j \in Known /\ j <= Chain!Last
      BY <1>1, <1>16, <2>0, <2>1, <3>1 DEF Expected
    <3>3. q_result[f] = Chain!R(j) /\ Promised(j) = Chain!R(j) /\ Chain!R(j).ok
      BY <1>3, <1>16, <3>1, <3>2 DEF Fulfilled, Opens
    <3>4. Chain!Body(f) = Chain!SetResult(j, Promised(j))
      BY <3>1, <3>3 DEF Chain!Body, Chain!InnerCallback
    <3> QED BY <1>11, <1>16, <3>2, <3>4
  <2>2. CASE f <= Chain!Last /\ f # Chain!Last
    <3>1. PICK j \in 1..Chain!Last : j = f + 1 /\ f = j - 1 /\ f < Chain!Last /\ ~(f > 10)
      <4>1. f \in 0..Chain!Last /\ ~(f > 10) /\ Chain!Last \in {2, 3}
        BY <1>1, <1>16, <2>0, <2>2
      <4> QED BY <2>2, <4>1
    <3>2. PICK r : r = Promised(f)
      OBVIOUS
    <3>3. /\ Chain!Body(f) = Chain!Callback(j, r) /\ Called(j - 1) /\ May(j, W)
          /\ Promised(j) = IF Occurs(j) THEN Chain!R(j) ELSE r
      BY <1>3, <1>16, <2>2, <3>1, <3>2 DEF Chain!Body, Fulfilled
    <3>4. Occurs(j) <=> r.ok = (q_chain[j] # "or_else")
      <4>1. Promised(f) = Chain!Composed[j - 1]
        BY <1>1, <1>3, <1>16, <2>0, <3>1
      <4> QED BY <3>2, <4>1 DEF Occurs, Chain!Applies
    <3>5. r.ok \in BOOLEAN
      BY <1>3, <1>16, <3>2
    <3>6. q_chain[j] \in {"map", "nest", "and_then", "or_else", "flat_map", "flatten"}
      BY <2>0, <3>1 DEF Chains, Chain!Last
    <3>7. ASSUME ~Asked(j)
          PROVE  Called(j)
      <4>1. \A i \in 1..Chain!Last : i <= j => i = j \/ i <= j - 1
        BY <1>1, <2>0, <3>1
      <4> QED BY <3>3, <3>7, <4>1 DEF Called
    <3>8. j \in Known /\ (j <= Chain!Last => Called(j) \/ Asked(j))
      BY <1>1, <2>0, <3>7
    <3>9. CASE Occurs(j) /\ q_chain[j] \in {"map", "nest", "and_then", "or_else"}
      <4>1. Asked(j)
        BY <3>9 DEF Asked, Chain!HasFunction
      <4>2. Chain!Body(f) = Chain!Call(j) \o Chain!SetResult(j, Promised(j))
        BY <3>3, <3>4, <3>5, <3>9
           DEF Chain!Callback, Chain!Map, Chain!AndThen, Chain!OrElse
      <4> QED BY <1>12, <1>16, <3>3, <4>1, <4>2
    <3>10. CASE Occurs(j) /\ q_chain[j] = "flat_map"
      <4>1. Asked(j) /\ Opens(j)
        BY <3>10 DEF Asked, Opens, Chain!HasFunction
      <4>2. Chain!Body(f) = Chain!Call(j) \o Chain!SetCallback(Chain!Inner(j))
        BY <3>3, <3>4, <3>5, <3>10 DEF Chain!Callback, Chain!FlatMap
      <4> QED BY <1>14, <1>16, <3>3, <4>1, <4>2
    <3>11. CASE Occurs(j) /\ q_chain[j] = "flatten"
      <4>1. ~Asked(j) /\ Opens(j)
        BY <3>11 DEF Asked, Opens, Chain!HasFunction
      <4>2. Chain!Body(f) = Chain!SetCallback(Chain!Inner(j))
        BY <3>3, <3>4, <3>5, <3>11 DEF Chain!Callback, Chain!Flatten
      <4> QED BY <1>13, <1>16, <3>7, <4>1, <4>2
    <3>12. CASE ~Occurs(j)
      <4>1. ~Asked(j)
        BY <3>12 DEF Asked
      <4>2. Chain!Body(f) = Chain!SetResult(j, Promised(j))
        BY <3>3, <3>4, <3>5, <3>6, <3>12
           DEF Chain!Callback, Chain!Map, Chain!AndThen, Chain!OrElse, Chain!FlatMap, Chain!Flatten
      <4> QED BY <1>11, <1>16, <3>7, <3>8, <4>1, <4>2
    <3> QED BY <3>6, <3>9, <3>10, <3>11, <3>12
  <2>3. CASE f = Chain!Last
    <3>1. ~(f > 10) /\ ~(f < Chain!Last)
      BY <1>1, <2>0, <2>3
    <3>2. Chain!Body(f) = <<<<"consume", f>>>>
      BY <3>1 DEF Chain!Body
    <3>3. PICK a : a = <<"consume", f>>
      OBVIOUS
    <3>4. a \in Orders /\ a[1] = "consume" /\ a[2] = f
      BY <1>1, <2>0, <3>3 DEF Orders
    <3> QED BY <1>15, <1>16, <2>3, <3>2, <3>3, <3>4
  <2> QED BY <2>1, <2>2, <2>3
(* One step: what it changes keeps what is settled, and ... *)
<1>17. ASSUME ChainTypes, Same, q_executor'[0] = q_executor[0],
              \A j \in 1..Chain!Last : q_calledBy[j] \subseteq q_calledBy'[j],
              \A f \in Known : /\ q_result'[f] = q_result[f] \/ q_result'[f] = Promised(f)
                               /\ Told(f) => Told(f)'
       PROVE  Grows
  <2>1. ASSUME NEW n, Called(n)
        PROVE  Called(n)'
    BY <1>4, <1>17, <2>1 DEF Called
  <2>2. ASSUME NEW f \in Known, Fulfilled(f)
        PROVE  Fulfilled(f)'
    <3>1. Promised(f)' = Promised(f) /\ Chain!Last' = Chain!Last
      BY <1>4, <1>17
    <3>2. f <= Chain!Last => Called(f)'
      BY <2>1, <2>2 DEF Fulfilled
    <3>3. q_result'[f] = Promised(f)
      BY <1>17, <2>2 DEF Fulfilled
    <3> QED BY <3>1, <3>2, <3>3 DEF Fulfilled
  <2> QED BY <1>17, <2>1, <2>2
<1>18. ASSUME ChainInv, Grows,
              \A f \in Known : \/ q_result'[f] = q_result[f]
                               \/ Fulfilled(f)',
              \A f \in Known : \/ q_state'[f] = q_state[f]
                               \/ q_state'[f] = "ResultSet" /\ Fulfilled(f)'
                               \/ q_state'[f] = "CallbackSet" /\ Expected(f)',
              \A j \in 1..Chain!Last :
                \/ q_calledBy'[j] = q_calledBy[j]
                \/ Asked(j) /\ (Straight(j - 1) => q_calledBy'[j] \subseteq Chain!Where(q_executor[0])),
              q_got' = q_got \/ (q_got' = Promised(Chain!Last) /\ Called(Chain!Last)')
       PROVE  Settled'
  <2>1. /\ Chain!Last' = Chain!Last /\ Known' = Known /\ Promised(Chain!Last)' = Promised(Chain!Last)
        /\ \A j : (Asked(j)' <=> Asked(j)) /\ (Straight(j)' <=> Straight(j))
    <3>1. Promised(Chain!Last') = Promised(Chain!Last)
      BY <1>4, <1>18
    <3>2. \A f : Promised(f)' = Promised(f)
      BY <1>4, <1>18
    <3>3. PICK n : n = Chain!Last
      OBVIOUS
    <3>4. Promised(n)' = Promised(n) /\ n = Chain!Last'
      BY <1>4, <1>18, <3>2, <3>3
    <3> QED BY <1>4, <1>18, <3>3, <3>4
  <2>2. ChainTypes /\ Settled /\ q_executor'[0] = q_executor[0]
    BY <1>18 DEF ChainInv
  <2>3. Chain!Where(q_executor[0])' = Chain!Where(q_executor[0])
    BY <2>2 DEF Chain!Where
  <2>4. ASSUME NEW f \in Known
        PROVE  /\ q_result'[f] # Nothing => Fulfilled(f)'
               /\ q_state'[f] = "ResultSet" => Fulfilled(f)'
               /\ q_state'[f] = "CallbackSet" => Expected(f)'
    <3>1. (Fulfilled(f) => Fulfilled(f)') /\ (Expected(f) => Expected(f)')
      BY <1>5, <1>18, <2>2
    <3> QED BY <1>18, <2>2, <3>1 DEF Settled
  <2>5. ASSUME NEW j \in 1..Chain!Last, q_calledBy'[j] # {}
        PROVE  Asked(j) /\ (Straight(j - 1) => q_calledBy'[j] \subseteq Chain!Where(q_executor[0]))
    BY <1>18, <2>2, <2>5 DEF Settled
  <2>6. ASSUME q_got' # Nothing
        PROVE  q_got' = Promised(Chain!Last) /\ Called(Chain!Last)'
    <3>1. PICK n : n = Chain!Last
      OBVIOUS
    <3>2. Called(n) => Called(n)'
      BY <1>18
    <3>3. n = Chain!Last'
      BY <2>1, <3>1
    <3> QED BY <1>18, <2>2, <2>6, <3>1, <3>2, <3>3 DEF Settled
  <2> QED BY <2>1, <2>3, <2>4, <2>5, <2>6 DEF Settled
(* ... what the threads and the executors still have to do keeps fitting. *)
<1>19. ASSUME ChainInv, Grows, NEW t \in Everyone, NEW c, NEW q, q = q_todo[t], q # <<>>,
              q_todo' = [q_todo EXCEPT ![t] = c \o Tail(@)], Effect(Head(q))', Runnable(c, {t})'
       PROVE  /\ q_todo' \in [Everyone -> Seq(Orders)]
              /\ \A u \in Everyone : Runnable(q_todo[u], {u})'
  <2>1. ChainTypes /\ \A u \in Everyone : Runnable(q_todo[u], {u})
    BY <1>19 DEF ChainInv
  <2>2. q = q_todo[t]
    BY <1>19
  <2>3. Runnable(q, {t})
    BY <1>19, <2>1
  <2>4. Runnable(Tail(q), {t})'
    <3> HIDE DEF Grows, Effect
    <3> QED BY <1>8, <1>19, <2>1, <2>3
  <2>5. Runnable(c \o Tail(q), {t})'
    BY <1>9, <1>19, <2>4
  <2>6. q_todo'[t] = c \o Tail(q) /\ \A u \in Everyone \ {t} : q_todo'[u] = q_todo[u]
    BY <1>19, <2>1, <2>2 DEF ChainTypes
  <2>7. ASSUME NEW u \in Everyone
        PROVE  Runnable(q_todo[u], {u})'
    <3>1. PICK p : p = q_todo'[u]
      OBVIOUS
    <3>2. Runnable(p, {u})'
      <4>1. CASE u = t
        BY <2>5, <2>6, <3>1, <4>1
      <4>2. CASE u # t
        <5>1. Runnable(p, {u})
          BY <2>1, <2>6, <3>1, <4>2
        <5> QED BY <1>7, <1>19, <2>1, <5>1
      <4> QED BY <4>1, <4>2
    <3>3. p = q_todo[u]'
      BY <3>1
    <3> QED BY <3>2, <3>3
  <2>8. c \o Tail(q) \in Seq(Orders)
    BY <2>5 DEF Runnable, Orders, Numbers
  <2> QED BY <1>19, <2>1, <2>2, <2>7, <2>8 DEF ChainTypes
<1>20. ASSUME ChainTypes, Grows, NEW Q \in Seq(Seq(Orders)), NEW W, \A i \in 1..Len(Q) : Runnable(Q[i], W),
              NEW Z, \/ Z = Q
                     \/ \E c : Runnable(c, W)' /\ Z = Append(Q, c)
                     \/ Q # <<>> /\ Z = Tail(Q)
       PROVE  Z \in Seq(Seq(Orders)) /\ \A i \in 1..Len(Z) : Runnable(Z[i], W)'
  <2>1. \A i \in 1..Len(Q) : Runnable(Q[i], W)'
    <3>1. ASSUME NEW i \in 1..Len(Q)
          PROVE  Runnable(Q[i], W)'
      BY <1>7, <1>20
    <3> QED BY <3>1
  <2>2. CASE Z = Q
    BY <1>20, <2>1, <2>2
  <2>3. CASE \E c : Runnable(c, W)' /\ Z = Append(Q, c)
    <3>1. PICK c : Runnable(c, W)' /\ Z = Append(Q, c)
      BY <2>3
    <3>2. c \in Seq(Orders)
      BY <3>1 DEF Runnable, Orders, Numbers
    <3>3. /\ Z \in Seq(Seq(Orders)) /\ Len(Q) \in Nat
          /\ \A i \in 1..Len(Z) : IF i = Len(Q) + 1 THEN Z[i] = c ELSE i \in 1..Len(Q) /\ Z[i] = Q[i]
      BY <1>20, <3>1, <3>2
    <3> QED BY <2>1, <3>1, <3>3
  <2>4. CASE Q # <<>> /\ Z = Tail(Q)
    <3>1. Z \in Seq(Seq(Orders)) /\ \A i \in 1..Len(Z) : i + 1 \in 1..Len(Q) /\ Z[i] = Q[i + 1]
      BY <1>20, <2>4
    <3> QED BY <2>1, <3>1
  <2> QED BY <1>20, <2>2, <2>3, <2>4
<1> DEFINE ResultKept == /\ q_result' \in [Numbers -> Values \cup {Nothing}]
                         /\ \A f \in Known : \/ q_result'[f] = q_result[f]
                                             \/ q_result'[f] = Promised(f) /\ (f <= Chain!Last => Called(f))
           StateKept == /\ q_state' \in [Numbers -> {"Initial", "ResultSet", "CallbackSet"}]
                        /\ \A f \in Known : \/ q_state'[f] = q_state[f]
                                            \/ q_state'[f] = "ResultSet" /\ Fulfilled(f)
                                            \/ q_state'[f] = "CallbackSet" /\ Expected(f)
           ExecutorKept == /\ q_executor' \in [Numbers -> {"inline", "pool", "manual"}]
                           /\ q_executor'[0] = q_executor[0] /\ \A f \in Known : Told(f) => Told(f)'
           CallsKept == /\ q_calledBy' \in [1..Chain!Last -> SUBSET Everyone]
                        /\ \A j \in 1..Chain!Last :
                             /\ q_calledBy[j] \subseteq q_calledBy'[j]
                             /\ \/ q_calledBy'[j] = q_calledBy[j]
                                \/ /\ Asked(j)
                                   /\ Straight(j - 1) => q_calledBy'[j] \subseteq Chain!Where(q_executor[0])
           GotKept == q_got' = q_got \/ (q_got' = Promised(Chain!Last) /\ Called(Chain!Last))
           TasksKept == \/ q_tasks' = q_tasks
                        \/ \E c : Runnable(c, Workers) /\ q_tasks' = Append(q_tasks, c)
                        \/ q_tasks # <<>> /\ q_tasks' = Tail(q_tasks)
           ManualKept == \/ q_manual' = q_manual
                         \/ \E c : Runnable(c, {Main}) /\ q_manual' = Append(q_manual, c)
                         \/ q_manual # <<>> /\ q_manual' = Tail(q_manual)
<1>21. ASSUME ChainInv, Same
       PROVE  /\ q_result' = q_result => ResultKept
              /\ q_state' = q_state => StateKept
              /\ q_executor' = q_executor => ExecutorKept
              /\ q_calledBy' = q_calledBy => CallsKept
              /\ q_got' = q_got => GotKept
              /\ q_tasks' = q_tasks => TasksKept
              /\ q_manual' = q_manual => ManualKept
  <2>1. ASSUME q_executor' = q_executor
        PROVE  \A f \in Known : Told(f) => Told(f)'
    BY <1>4, <1>21, <2>1 DEF Told
  <2> QED BY <1>21, <2>1 DEF ChainInv, ChainTypes
<1>22. ASSUME ChainInv, Same, ResultKept, StateKept, ExecutorKept, CallsKept, GotKept, TasksKept, ManualKept
       PROVE  /\ Grows
              /\ \A W : \A s : Runnable(s, W) => Runnable(s, W)'
              /\ q_todo' \in [Everyone -> Seq(Orders)] /\ (\A u \in Everyone : Runnable(q_todo[u], {u})')
                   => ChainInv'
  <2>1. ChainTypes
    BY <1>22 DEF ChainInv
  <2>2. Grows
    <3>1. /\ q_executor'[0] = q_executor[0]
          /\ \A j \in 1..Chain!Last : q_calledBy[j] \subseteq q_calledBy'[j]
          /\ \A f \in Known : /\ q_result'[f] = q_result[f] \/ q_result'[f] = Promised(f)
                              /\ Told(f) => Told(f)'
      BY <1>22
    <3> HIDE DEF Grows, ResultKept, StateKept, ExecutorKept, CallsKept, GotKept, TasksKept, ManualKept
    <3> QED BY <1>17, <1>22, <2>1, <3>1
  <2>3. \A W : \A s : Runnable(s, W) => Runnable(s, W)'
    <3> SUFFICES ASSUME NEW W, NEW s, Runnable(s, W)
                 PROVE  Runnable(s, W)'
      OBVIOUS
    <3> HIDE DEF Grows, ResultKept, StateKept, ExecutorKept, CallsKept, GotKept, TasksKept, ManualKept
    <3> QED BY <1>7, <2>1, <2>2
  <2>4. Settled'
    <3>1. ASSUME NEW f \in Known
          PROVE  q_result'[f] = q_result[f] \/ Fulfilled(f)'
      <4>1. CASE q_result'[f] = Promised(f) /\ (f <= Chain!Last => Called(f))
        <5>1. Promised(f)' = Promised(f) /\ Chain!Last' = Chain!Last /\ (Called(f) => Called(f)')
          BY <1>4, <2>2
        <5> QED BY <4>1, <5>1 DEF Fulfilled
      <4> QED BY <1>22, <4>1
    <3>2. ASSUME NEW f \in Known
          PROVE  \/ q_state'[f] = q_state[f]
                 \/ q_state'[f] = "ResultSet" /\ Fulfilled(f)'
                 \/ q_state'[f] = "CallbackSet" /\ Expected(f)'
      <4>1. (Fulfilled(f) => Fulfilled(f)') /\ (Expected(f) => Expected(f)')
        BY <1>5, <2>1, <2>2
      <4> QED BY <1>22, <4>1
    <3>3. q_got' = q_got \/ (q_got' = Promised(Chain!Last) /\ Called(Chain!Last)')
      <4>1. PICK n : n = Chain!Last
        OBVIOUS
      <4>2. (Called(n) => Called(n)') /\ n = Chain!Last'
        BY <1>4, <2>2, <4>1
      <4> QED BY <1>22, <4>1, <4>2
    <3>4. \A j \in 1..Chain!Last :
            \/ q_calledBy'[j] = q_calledBy[j]
            \/ Asked(j) /\ (Straight(j - 1) => q_calledBy'[j] \subseteq Chain!Where(q_executor[0]))
      BY <1>22
    <3> HIDE DEF Grows, ResultKept, StateKept, ExecutorKept, CallsKept, GotKept, TasksKept, ManualKept
    <3> QED BY <1>18, <1>22, <2>2, <3>1, <3>2, <3>3, <3>4
  <2>5. q_tasks' \in Seq(Seq(Orders)) /\ \A i \in 1..Len(q_tasks') : Runnable(q_tasks[i], Workers)'
    <3>1. PICK Q : Q = q_tasks
      OBVIOUS
    <3>2. PICK Z : Z = q_tasks'
      OBVIOUS
    <3>3. Q \in Seq(Seq(Orders)) /\ \A i \in 1..Len(Q) : Runnable(Q[i], Workers)
      BY <1>22, <2>1, <3>1 DEF ChainInv, ChainTypes
    <3>4. Z = Q \/ (\E c : Runnable(c, Workers)' /\ Z = Append(Q, c)) \/ (Q # <<>> /\ Z = Tail(Q))
      BY <1>22, <2>3, <3>1, <3>2
    <3>5. Z \in Seq(Seq(Orders)) /\ \A i \in 1..Len(Z) : Runnable(Z[i], Workers)'
      <4> HIDE DEF Grows, ResultKept, StateKept, ExecutorKept, CallsKept, GotKept, TasksKept, ManualKept
      <4> QED BY <1>20, <2>1, <2>2, <3>3, <3>4
    <3> QED BY <3>2, <3>5
  <2>6. q_manual' \in Seq(Seq(Orders)) /\ \A i \in 1..Len(q_manual') : Runnable(q_manual[i], {Main})'
    <3>1. PICK Q : Q = q_manual
      OBVIOUS
    <3>2. PICK Z : Z = q_manual'
      OBVIOUS
    <3>3. Q \in Seq(Seq(Orders)) /\ \A i \in 1..Len(Q) : Runnable(Q[i], {Main})
      BY <1>22, <2>1, <3>1 DEF ChainInv, ChainTypes
    <3>4. Z = Q \/ (\E c : Runnable(c, {Main})' /\ Z = Append(Q, c)) \/ (Q # <<>> /\ Z = Tail(Q))
      BY <1>22, <2>3, <3>1, <3>2
    <3>5. Z \in Seq(Seq(Orders)) /\ \A i \in 1..Len(Z) : Runnable(Z[i], {Main})'
      <4> HIDE DEF Grows, ResultKept, StateKept, ExecutorKept, CallsKept, GotKept, TasksKept, ManualKept
      <4> QED BY <1>20, <2>1, <2>2, <3>3, <3>4
    <3> QED BY <3>2, <3>5
  <2>7. ASSUME q_todo' \in [Everyone -> Seq(Orders)]
        PROVE  ChainTypes'
    <3>1. /\ Chain!Last' = Chain!Last /\ q_chain' = q_chain /\ q_outcome' = q_outcome
          /\ Numbers' = Numbers /\ Orders' = Orders
      BY <1>4, <1>22 DEF Numbers, Orders
    <3>2. Chains' = Chains
      BY DEF Chains
    <3>3. Chain!Possible(q_chain, q_outcome)'
      BY <1>22, <2>1 DEF ChainTypes, Chain!Possible
    <3> QED BY <1>22, <2>1, <2>5, <2>6, <2>7, <3>1, <3>2, <3>3 DEF ChainTypes
  <2> QED BY <2>2, <2>3, <2>4, <2>5, <2>6, <2>7 DEF ChainInv
<1>23. ASSUME ChainInv, Same, ResultKept, StateKept, ExecutorKept, CallsKept, GotKept, TasksKept, ManualKept,
              NEW t \in Everyone, NEW q, q = q_todo[t], q # <<>>, NEW c,
              q_todo' = [q_todo EXCEPT ![t] = c \o Tail(@)], Runnable(c, {t})', NEW f, f = Head(q)[2],
              Head(q)[1] = "call" => q_calledBy'[f] # {},
              Head(q)[1] = "emplace" => q_result'[f] = Promised(f) /\ (f <= Chain!Last => Called(f)),
              Head(q)[1] = "via" => Told(f)'
       PROVE  ChainInv'
  <2>1. /\ Grows
        /\ q_todo' \in [Everyone -> Seq(Orders)] /\ (\A u \in Everyone : Runnable(q_todo[u], {u})') => ChainInv'
    BY <1>22, <1>23
  <2>2. Runnable(q, {t}) /\ ChainTypes /\ q_chain \in Chains
    BY <1>23 DEF ChainInv, ChainTypes
  <2>3. /\ Head(q) = q[1] /\ f \in Known
        /\ Head(q)[1] = "call" => f \in 1..Chain!Last
    BY <1>10, <1>23, <2>2 DEF Needs
  <2>4. ASSUME Head(q)[1] = "call", Called(f - 1)'
        PROVE  Called(f)'
    <3>1. Chain!Last' = Chain!Last /\ \A i \in 1..Chain!Last : i <= f => i = f \/ i <= f - 1
      BY <1>1, <1>4, <1>23, <2>2, <2>3, <2>4
    <3> QED BY <1>23, <2>4, <3>1 DEF Called
  <2>5. ASSUME Head(q)[1] = "emplace"
        PROVE  Fulfilled(f)'
    <3>1. Promised(f)' = Promised(f) /\ Chain!Last' = Chain!Last /\ (Called(f) => Called(f)')
      BY <1>4, <2>1
    <3> QED BY <1>23, <2>5, <3>1 DEF Fulfilled
  <2>6. Effect(Head(q))'
    <3>1. Head(q)[2] = f
      BY <1>23
    <3> QED BY <1>23, <2>4, <2>5, <3>1
  <2>7. q_todo' \in [Everyone -> Seq(Orders)] /\ \A u \in Everyone : Runnable(q_todo[u], {u})'
    <3> HIDE DEF Grows, Effect, ResultKept, StateKept, ExecutorKept, CallsKept, GotKept, TasksKept, ManualKept
    <3> QED BY <1>19, <1>23, <2>1, <2>6
  <2> QED BY <2>1, <2>7

(* The actions. *)
<1>24. ASSUME NEW W
       PROVE  Runnable(<<>>, W)
  BY DEF Runnable, Orders, Numbers
<1> DEFINE First(t, q, f, op) ==
             /\ ChainTypes /\ Settled /\ q_chain \in Chains
             /\ q # <<>> /\ f = Head(q)[2] /\ Head(q)[1] = op /\ Head(q) = q[1] /\ Head(q) \in Orders
             /\ f \in Known /\ f \in Numbers /\ Needs(q, 1, f, {t}) /\ \A o, g : ~Earlier(q, 1, o, g)
<1>25. ASSUME ChainInv, NEW t \in Everyone, NEW op, Chain!At(t, op)
       PROVE  First(t, q_todo[t], Chain!Now(t), op)
  <2>1. PICK q : q = q_todo[t]
    OBVIOUS
  <2>2. Runnable(q, {t}) /\ q # <<>> /\ Head(q)[1] = op /\ ChainTypes /\ Settled /\ q_chain \in Chains
    BY <1>25, <2>1 DEF ChainInv, ChainTypes, Chain!At
  <2>3. Chain!Now(t) = Head(q)[2]
    BY <2>1 DEF Chain!Now
  <2> QED BY <1>1, <1>10, <2>1, <2>2, <2>3
<1> HIDE DEF First
<1> HIDE DEF Grows, Effect, ResultKept, StateKept, ExecutorKept, CallsKept, GotKept, TasksKept, ManualKept
<1>26. ASSUME ChainInv, NEW t \in Everyone, Chain!Emplace(t), UNCHANGED Chain!chainVars
       PROVE  ChainInv'
  <2>1. PICK q : q = q_todo[t]
    OBVIOUS
  <2>2. PICK f : f = Chain!Now(t)
    OBVIOUS
  <2>3. /\ Chain!At(t, "emplace") /\ q_result' = [q_result EXCEPT ![f] = q[1][3]]
        /\ q_todo' = [q_todo EXCEPT ![t] = <<>> \o Tail(@)] /\ q_state' = q_state
        /\ q_executor' = q_executor /\ q_calledBy' = q_calledBy /\ q_got' = q_got
        /\ q_tasks' = q_tasks /\ q_manual' = q_manual /\ Same
    BY <1>25, <1>26, <2>1, <2>2 DEF Chain!Emplace, Chain!Then, Chain!chainVars
  <2>4. /\ ChainTypes /\ q # <<>> /\ f = Head(q)[2] /\ Head(q)[1] = "emplace"
        /\ f \in Numbers /\ q[1][3] = Promised(f) /\ f \in Known /\ (f <= Chain!Last => Called(f))
    <3>1. Chain!At(t, "emplace")
      BY <2>3
    <3>2. First(t, q, f, "emplace")
      BY <1>25, <1>26, <2>1, <2>2, <3>1
    <3> QED BY <3>2 DEF First, Needs
  <2>5. q_result'[f] = Promised(f) /\ ResultKept
    <3>1. Promised(f) \in Values
      BY <1>3, <2>4
    <3> QED BY <2>3, <2>4, <3>1 DEF ResultKept, ChainTypes
  <2>6. StateKept /\ ExecutorKept /\ CallsKept /\ GotKept /\ TasksKept /\ ManualKept
    BY <1>21, <1>26, <2>3
  <2>7. Runnable(<<>>, {t})'
    BY <1>22, <1>24, <1>26, <2>3, <2>5, <2>6
  <2> QED BY <1>23, <1>26, <2>1, <2>3, <2>4, <2>5, <2>6, <2>7
<1>27. ASSUME ChainInv, NEW t \in Everyone, Chain!Publish(t), UNCHANGED Chain!chainVars
       PROVE  ChainInv'
  <2>1. PICK q : q = q_todo[t]
    OBVIOUS
  <2>2. PICK f : f = Chain!Now(t)
    OBVIOUS
  <2>3. PICK c : c = IF q_state[f] = "CallbackSet" THEN <<<<"invoke", f>>>> ELSE <<>>
    OBVIOUS
  <2>4. /\ Chain!At(t, "publish") /\ q_state' = [q_state EXCEPT ![f] = "ResultSet"]
        /\ q_todo' = [q_todo EXCEPT ![t] = c \o Tail(@)] /\ q_result' = q_result
        /\ q_executor' = q_executor /\ q_calledBy' = q_calledBy /\ q_got' = q_got
        /\ q_tasks' = q_tasks /\ q_manual' = q_manual /\ Same
    BY <1>27, <2>2, <2>3 DEF Chain!Publish, Chain!Then, Chain!chainVars
  <2>5. /\ ChainTypes /\ Settled /\ q # <<>> /\ f = Head(q)[2] /\ Head(q)[1] = "publish"
        /\ f \in Numbers /\ f \in Known /\ Fulfilled(f)
    <3>1. Chain!At(t, "publish")
      BY <2>4
    <3>2. First(t, q, f, "publish")
      BY <1>25, <1>27, <2>1, <2>2, <3>1
    <3> QED BY <3>2 DEF First, Needs
  <2>6. StateKept
    BY <2>4, <2>5 DEF StateKept, ChainTypes
  <2>7. ResultKept /\ ExecutorKept /\ CallsKept /\ GotKept /\ TasksKept /\ ManualKept
    BY <1>21, <1>27, <2>4
  <2>8. Runnable(c, {t})
    <3>1. CASE q_state[f] = "CallbackSet"
      <4>1. PICK a : a = <<"invoke", f>>
        OBVIOUS
      <4>2. a \in Orders /\ a[1] = "invoke" /\ a[2] = f
        BY <2>5, <4>1 DEF Orders
      <4>3. Expected(f)
        BY <2>5, <3>1 DEF Settled
      <4>4. Runnable(<<a>>, {t})
        BY <1>15, <2>5, <4>2, <4>3
      <4> QED BY <2>3, <3>1, <4>1, <4>4
    <3>2. CASE q_state[f] # "CallbackSet"
      BY <1>24, <2>3, <3>2
    <3> QED BY <3>1, <3>2
  <2>9. Runnable(c, {t})'
    BY <1>22, <1>27, <2>4, <2>6, <2>7, <2>8
  <2> QED BY <1>23, <1>27, <2>1, <2>4, <2>5, <2>6, <2>7, <2>9
<1>28. ASSUME ChainInv, NEW t \in Everyone, Chain!Store(t) \/ Chain!Subscribe(t), UNCHANGED Chain!chainVars
       PROVE  ChainInv'
  <2>1. PICK q : q = q_todo[t]
    OBVIOUS
  <2>2. PICK f : f = Chain!Now(t)
    OBVIOUS
  <2>3. /\ q_result' = q_result /\ q_executor' = q_executor /\ q_calledBy' = q_calledBy /\ q_got' = q_got
        /\ q_tasks' = q_tasks /\ q_manual' = q_manual /\ Same
    BY <1>28 DEF Chain!Store, Chain!Subscribe, Chain!chainVars
  <2>4. ResultKept /\ ExecutorKept /\ CallsKept /\ GotKept /\ TasksKept /\ ManualKept
    BY <1>21, <1>28, <2>3
  <2>5. CASE Chain!Store(t)
    <3>1. /\ Chain!At(t, "store") /\ q_state' = q_state
          /\ q_todo' = [q_todo EXCEPT ![t] = <<>> \o Tail(@)]
      BY <2>5 DEF Chain!Store, Chain!Then
    <3>2. q # <<>> /\ f = Head(q)[2] /\ Head(q)[1] = "store"
      <4>1. Chain!At(t, "store")
        BY <3>1
      <4>2. First(t, q, f, "store")
        BY <1>25, <1>28, <2>1, <2>2, <4>1
      <4> QED BY <4>2 DEF First
    <3>3. StateKept
      BY <1>21, <1>28, <2>3, <3>1
    <3>4. Runnable(<<>>, {t})'
      BY <1>22, <1>24, <1>28, <2>3, <2>4, <3>3
    <3> QED BY <1>23, <1>28, <2>1, <2>3, <2>4, <3>1, <3>2, <3>3, <3>4
  <2>6. CASE Chain!Subscribe(t)
    <3>1. PICK c : c = IF q_state[f] = "ResultSet" THEN <<<<"invoke", f>>>> ELSE <<>>
      OBVIOUS
    <3>2. /\ Chain!At(t, "subscribe") /\ q_state' = [q_state EXCEPT ![f] = "CallbackSet"]
          /\ q_todo' = [q_todo EXCEPT ![t] = c \o Tail(@)]
      BY <2>2, <2>6, <3>1 DEF Chain!Subscribe, Chain!Then
    <3>3. /\ ChainTypes /\ Settled /\ q # <<>> /\ f = Head(q)[2] /\ Head(q)[1] = "subscribe"
          /\ f \in Numbers /\ f \in Known /\ Expected(f)
      <4>1. Chain!At(t, "subscribe")
        BY <3>2
      <4>2. First(t, q, f, "subscribe")
        BY <1>25, <1>28, <2>1, <2>2, <4>1
      <4> QED BY <4>2 DEF First, Needs, Expected
    <3>4. StateKept
      BY <3>2, <3>3 DEF StateKept, ChainTypes
    <3>5. Runnable(c, {t})
      <4>1. CASE q_state[f] = "ResultSet"
        <5>1. PICK a : a = <<"invoke", f>>
          OBVIOUS
        <5>2. a \in Orders /\ a[1] = "invoke" /\ a[2] = f
          BY <3>3, <5>1 DEF Orders
        <5>3. Fulfilled(f)
          BY <3>3, <4>1 DEF Settled
        <5>4. Runnable(<<a>>, {t})
          BY <1>15, <3>3, <5>2, <5>3
        <5> QED BY <3>1, <4>1, <5>1, <5>4
      <4>2. CASE q_state[f] # "ResultSet"
        BY <1>24, <3>1, <4>2
      <4> QED BY <4>1, <4>2
    <3>6. Runnable(c, {t})'
      BY <1>22, <1>28, <2>3, <2>4, <3>4, <3>5
    <3> QED BY <1>23, <1>28, <2>1, <2>3, <2>4, <3>2, <3>3, <3>4, <3>6
  <2> QED BY <1>28, <2>5, <2>6
<1>29. ASSUME ChainInv, NEW t \in Everyone, Chain!Submit(t)
       PROVE  ChainInv'
  <2>1. PICK q : q = q_todo[t]
    OBVIOUS
  <2>2. PICK f : f = Chain!Now(t)
    OBVIOUS
  <2>3. PICK e : e = q_executor[f]
    OBVIOUS
  <2>4. PICK b : b = Chain!Body(f)
    OBVIOUS
  <2>5. PICK c : c = IF e = "inline" THEN b ELSE <<>>
    OBVIOUS
  <2>6. /\ Chain!At(t, "invoke") /\ q_state' = q_state /\ q_result' = q_result
        /\ q_todo' = [q_todo EXCEPT ![t] = c \o Tail(@)]
        /\ q_executor' = q_executor /\ q_calledBy' = q_calledBy /\ q_got' = q_got /\ Same
        /\ q_tasks' = IF e = "pool" THEN Append(q_tasks, b) ELSE q_tasks
        /\ q_manual' = IF e = "manual" THEN Append(q_manual, b) ELSE q_manual
    BY <1>29, <2>2, <2>3, <2>4, <2>5 DEF Chain!Submit, Chain!Invoke, Chain!Then
  <2>7. /\ ChainTypes /\ q # <<>> /\ f = Head(q)[2] /\ Head(q)[1] = "invoke"
        /\ f \in Numbers /\ f \in Known /\ Fulfilled(f) /\ Expected(f) /\ q_chain \in Chains
    <3>1. Chain!At(t, "invoke")
      BY <2>6
    <3>2. First(t, q, f, "invoke")
      BY <1>25, <1>29, <2>1, <2>2, <3>1
    <3> QED BY <3>2 DEF First, Needs
  <2>8. ASSUME NEW W, e = "inline" => W \subseteq Everyone, e = "pool" => W \subseteq Workers,
               e = "manual" => W \subseteq {Main}
        PROVE  Runnable(b, W)
    <3>1. ASSUME f <= Chain!Last, Straight((f + 1) - 1)
          PROVE  W \subseteq Chain!Where(q_executor[0])
      <4>1. (f + 1) - 1 = f
        BY <1>1, <2>7
      <4>2. q_executor[0] = e
        BY <2>3, <2>7, <3>1, <4>1 DEF Expected, Told
      <4>3. e \in {"inline", "pool", "manual"}
        BY <2>3, <2>7 DEF ChainTypes
      <4>4. Chain!Where(e) = IF e = "pool" THEN Workers ELSE IF e = "manual" THEN {Main} ELSE Everyone
        BY DEF Chain!Where
      <4> QED BY <2>8, <4>2, <4>3, <4>4
    <3> QED BY <1>16, <2>4, <2>7, <3>1
  <2>9. ResultKept /\ StateKept /\ ExecutorKept /\ CallsKept /\ GotKept
    BY <1>21, <1>29, <2>6
  <2>10. TasksKept
    <3>1. CASE e = "pool"
      <4>1. Runnable(b, Workers)
        BY <2>8, <3>1
      <4> QED BY <2>6, <3>1, <4>1 DEF TasksKept
    <3> QED BY <1>21, <1>29, <2>6, <3>1
  <2>11. ManualKept
    <3>1. CASE e = "manual"
      <4>1. Runnable(b, {Main})
        BY <2>8, <3>1
      <4> QED BY <2>6, <3>1, <4>1 DEF ManualKept
    <3> QED BY <1>21, <1>29, <2>6, <3>1
  <2>12. Runnable(c, {t})
    <3>1. CASE e = "inline"
      <4>1. Runnable(b, {t})
        BY <1>29, <2>8, <3>1
      <4> QED BY <2>5, <3>1, <4>1
    <3> QED BY <1>24, <2>5, <3>1
  <2>13. Runnable(c, {t})'
    BY <1>22, <1>29, <2>6, <2>9, <2>10, <2>11, <2>12
  <2> QED BY <1>23, <1>29, <2>1, <2>6, <2>7, <2>9, <2>10, <2>11, <2>13
<1>30. ASSUME NEW s, NEW W, NEW V, V \subseteq W, Runnable(s, W)
       PROVE  Runnable(s, V)
  BY <1>30 DEF Runnable, Needs
<1>31. ASSUME ChainInv, NEW t \in Everyone, Chain!Drain(t)
       PROVE  ChainInv'
  <2>1. PICK q : q = q_todo[t]
    OBVIOUS
  <2>2. PICK f : f = Chain!Now(t)
    OBVIOUS
  <2>3. PICK c : c = IF q_manual = <<>> THEN <<>> ELSE Head(q_manual) \o <<Head(q)>>
    OBVIOUS
  <2>4. /\ Chain!At(t, "drain") /\ q_state' = q_state /\ q_result' = q_result
        /\ q_todo' = [q_todo EXCEPT ![t] = c \o Tail(@)]
        /\ q_executor' = q_executor /\ q_calledBy' = q_calledBy /\ q_got' = q_got /\ Same
        /\ q_tasks' = q_tasks
        /\ q_manual' = IF q_manual = <<>> THEN q_manual ELSE Tail(q_manual)
    BY <1>31, <2>1, <2>3 DEF Chain!Drain, Chain!Then
  <2>5. /\ ChainTypes /\ q # <<>> /\ f = Head(q)[2] /\ Head(q)[1] = "drain"
        /\ f \in Known /\ Head(q) \in Orders /\ {t} \subseteq {Main}
    <3>1. Chain!At(t, "drain")
      BY <2>4
    <3>2. First(t, q, f, "drain")
      BY <1>25, <1>31, <2>1, <2>2, <3>1
    <3> QED BY <3>2 DEF First, Needs
  <2>6. ResultKept /\ StateKept /\ ExecutorKept /\ CallsKept /\ GotKept /\ TasksKept
    BY <1>21, <1>31, <2>4
  <2>7. ManualKept
    BY <2>4 DEF ManualKept
  <2>8. \A W, s : Runnable(s, W) => Runnable(s, W)'
    BY <1>22, <1>31, <2>4, <2>6, <2>7
  <2>9. Runnable(c, {t})'
    <3>1. CASE q_manual = <<>>
      BY <1>24, <2>3, <2>8, <3>1
    <3>2. CASE q_manual # <<>>
      <4>1. PICK h : h = Head(q_manual)
        OBVIOUS
      <4>2. Runnable(h, {Main})
        <5>1. h = q_manual[1] /\ 1 \in 1..Len(q_manual)
          BY <2>5, <3>2, <4>1 DEF ChainTypes
        <5> QED BY <1>31, <5>1 DEF ChainInv
      <4>3. Runnable(h, {t})
        BY <1>30, <2>5, <4>2
      <4>4. PICK a : a = Head(q)
        OBVIOUS
      <4>5. Runnable(<<a>>, {t})
        BY <1>15, <2>5, <4>4
      <4>6. PICK d : d = <<a>>
        OBVIOUS
      <4>7. Runnable(h, {t})' /\ Runnable(d, {t})'
        BY <2>8, <4>3, <4>5, <4>6
      <4>8. c = h \o d
        BY <2>3, <3>2, <4>1, <4>4, <4>6
      <4> QED BY <1>9, <4>7, <4>8
    <3> QED BY <3>1, <3>2
  <2> QED BY <1>23, <1>31, <2>1, <2>4, <2>5, <2>6, <2>7, <2>9
<1>32. ASSUME ChainInv, NEW t \in Everyone, Chain!CallFunction(t)
       PROVE  ChainInv'
  <2>1. PICK q : q = q_todo[t]
    OBVIOUS
  <2>2. PICK j : j = Chain!Now(t)
    OBVIOUS
  <2>3. /\ Chain!At(t, "call") /\ q_state' = q_state /\ q_result' = q_result
        /\ q_todo' = [q_todo EXCEPT ![t] = <<>> \o Tail(@)]
        /\ q_executor' = q_executor /\ q_got' = q_got /\ Same
        /\ q_calledBy' = [q_calledBy EXCEPT ![j] = @ \cup {t}]
        /\ \/ q_tasks' = q_tasks
           \/ \E i \in Chain!Makes(j) : q_tasks' = Append(q_tasks, Chain!SetResult(Chain!Inner(i), Chain!R(i)))
        /\ q_manual' = q_manual
    BY <1>32, <2>2 DEF Chain!CallFunction, Chain!Then
  <2>4. /\ ChainTypes /\ Settled /\ q # <<>> /\ j = Head(q)[2] /\ Head(q)[1] = "call"
        /\ j \in 1..Chain!Last /\ Asked(j) /\ May(j, {t}) /\ q_chain \in Chains
    <3>1. Chain!At(t, "call")
      BY <2>3
    <3>2. First(t, q, j, "call")
      BY <1>25, <1>32, <2>1, <2>2, <3>1
    <3> QED BY <3>2 DEF First, Needs
  <2>5. ResultKept /\ StateKept /\ ExecutorKept /\ GotKept /\ ManualKept
    BY <1>21, <1>32, <2>3
  <2>6. CallsKept
    <3>1. q_calledBy \in [1..Chain!Last -> SUBSET Everyone]
      BY <2>4 DEF ChainTypes
    <3>2. q_calledBy' \in [1..Chain!Last -> SUBSET Everyone]
      BY <1>32, <2>3, <2>4, <3>1
    <3>3. /\ q_calledBy'[j] = q_calledBy[j] \cup {t}
          /\ \A i \in 1..Chain!Last : i # j => q_calledBy'[i] = q_calledBy[i]
      BY <2>3, <2>4, <3>1
    <3>4. Straight(j - 1) => q_calledBy[j] \cup {t} \subseteq Chain!Where(q_executor[0])
      BY <2>4 DEF Settled
    <3> QED BY <2>4, <3>2, <3>3, <3>4 DEF CallsKept
  <2>7. TasksKept
    <3>1. ASSUME NEW i \in Chain!Makes(j),
                 q_tasks' = Append(q_tasks, Chain!SetResult(Chain!Inner(i), Chain!R(i)))
          PROVE  TasksKept
      <4>1. i \in 1..Chain!Last
        <5>1. q_chain[j] = "nest" => j = 1
          BY <2>4 DEF Chains, Chain!Last
        <5>2. i = j \/ (q_chain[j] = "nest" /\ i = j + 1)
          BY <3>1 DEF Chain!Makes
        <5>3. 1 + 1 \in 1..Chain!Last
          BY <1>1, <2>4
        <5> QED BY <2>4, <5>1, <5>2, <5>3
      <4>2. PICK g : g = 10 + i
        OBVIOUS
      <4>3. g \in Known /\ ~(g <= Chain!Last) /\ Promised(g) = Chain!R(i)
        BY <1>1, <1>3, <2>4, <4>1, <4>2
      <4>4. Runnable(Chain!SetResult(g, Promised(g)), Workers)
        BY <1>11, <2>4, <4>3
      <4>5. q_tasks' = Append(q_tasks, Chain!SetResult(g, Promised(g)))
        BY <3>1, <4>2, <4>3 DEF Chain!Inner
      <4> QED BY <4>4, <4>5 DEF TasksKept
    <3> QED BY <1>21, <1>32, <2>3, <3>1
  <2>8. Runnable(<<>>, {t})'
    BY <1>22, <1>24, <1>32, <2>3, <2>5, <2>6, <2>7
  <2>9. q_calledBy'[j] # {}
    BY <2>3, <2>4 DEF ChainTypes
  <2> QED BY <1>23, <1>32, <2>1, <2>3, <2>4, <2>5, <2>6, <2>7, <2>8, <2>9
<1>33. ASSUME ChainInv, NEW t \in Everyone, Chain!Via(t)
       PROVE  ChainInv'
  <2>1. PICK q : q = q_todo[t]
    OBVIOUS
  <2>2. PICK j : j = Chain!Now(t)
    OBVIOUS
  <2>3. /\ Chain!At(t, "via") /\ q_state' = q_state /\ q_result' = q_result
        /\ q_todo' = [q_todo EXCEPT ![t] = <<>> \o Tail(@)]
        /\ q_executor' = [q_executor EXCEPT ![j] = IF q_chain[j] = "flatten" THEN @ ELSE q_executor[j - 1]]
        /\ q_calledBy' = q_calledBy /\ q_got' = q_got /\ Same
        /\ q_tasks' = q_tasks /\ q_manual' = q_manual
    BY <1>33, <2>2 DEF Chain!Via, Chain!Then
  <2>4. /\ ChainTypes /\ q # <<>> /\ j = Head(q)[2] /\ Head(q)[1] = "via"
        /\ j \in 1..Chain!Last /\ Told(j - 1) /\ q_chain \in Chains
    <3>1. Chain!At(t, "via")
      BY <2>3
    <3>2. First(t, q, j, "via")
      BY <1>25, <1>33, <2>1, <2>2, <3>1
    <3> QED BY <3>2 DEF First, Needs
  <2>5. ResultKept /\ StateKept /\ CallsKept /\ GotKept /\ TasksKept /\ ManualKept
    BY <1>21, <1>33, <2>3
  <2>6. j \in Numbers /\ j - 1 \in Numbers /\ j # 0 /\ 0 \in Numbers
    BY <1>1, <2>4 DEF Numbers
  <2>7. /\ q_executor' \in [Numbers -> {"inline", "pool", "manual"}] /\ q_executor'[0] = q_executor[0]
        /\ \A f \in Numbers : f # j => q_executor'[f] = q_executor[f]
        /\ q_executor'[j] = IF q_chain[j] = "flatten" THEN q_executor[j] ELSE q_executor[j - 1]
    BY <2>3, <2>4, <2>6 DEF ChainTypes
  <2>8. \A f : Straight(f)' <=> Straight(f)
    BY <1>4, <2>3
  <2>9. Told(j)'
    <3>1. ASSUME Straight(j)
          PROVE  q_executor'[j] = q_executor[0]
      <4>1. Straight(j - 1) /\ q_chain[j] # "flatten"
        <5>1. j \in 1..j /\ \A i \in 1..(j - 1) : i \in 1..j
          BY <1>1, <2>4
        <5> QED BY <3>1, <5>1 DEF Straight
      <4> QED BY <2>4, <2>7, <4>1 DEF Told
    <3> QED BY <2>7, <2>8, <3>1 DEF Told
  <2>10. ExecutorKept
    <3>1. ASSUME NEW f \in Known, Told(f)
          PROVE  Told(f)'
      <4>1. CASE f = j
        BY <2>9, <4>1
      <4>2. CASE f # j
        <5>1. f \in Numbers
          BY <1>1, <2>4
        <5> QED BY <2>7, <2>8, <3>1, <4>2, <5>1 DEF Told
      <4> QED BY <4>1, <4>2
    <3> QED BY <2>7, <3>1 DEF ExecutorKept
  <2>11. Runnable(<<>>, {t})'
    BY <1>22, <1>24, <1>33, <2>3, <2>5, <2>10
  <2> QED BY <1>23, <1>33, <2>1, <2>3, <2>4, <2>5, <2>9, <2>10, <2>11
<1>34. ASSUME ChainInv, NEW t \in Everyone, Chain!Consume(t) \/ Chain!Get(t)
       PROVE  ChainInv'
  <2>1. PICK q : q = q_todo[t]
    OBVIOUS
  <2>2. PICK f : f = Chain!Now(t)
    OBVIOUS
  <2>3. /\ Chain!At(t, "consume") \/ (Chain!At(t, "get") /\ q_result[f] # Nothing)
        /\ q_got' = q_result[f] /\ q_state' = q_state /\ q_result' = q_result
        /\ q_todo' = [q_todo EXCEPT ![t] = <<>> \o Tail(@)]
        /\ q_executor' = q_executor /\ q_calledBy' = q_calledBy /\ Same
        /\ q_tasks' = q_tasks /\ q_manual' = q_manual
    BY <1>34, <2>2 DEF Chain!Consume, Chain!Get, Chain!SyncGet, Chain!Then
  <2>4. /\ ChainTypes /\ q # <<>> /\ f = Head(q)[2] /\ Head(q)[1] \in {"consume", "get"}
        /\ f = Chain!Last /\ Fulfilled(f)
    <3>1. CASE Chain!At(t, "consume")
      <4>1. First(t, q, f, "consume")
        BY <1>25, <1>34, <2>1, <2>2, <3>1
      <4> QED BY <4>1 DEF First, Needs
    <3>2. CASE Chain!At(t, "get") /\ q_result[f] # Nothing
      <4>1. First(t, q, f, "get")
        BY <1>25, <1>34, <2>1, <2>2, <3>2
      <4> QED BY <3>2, <4>1 DEF First, Needs, Settled
    <3> QED BY <2>3, <3>1, <3>2
  <2>5. ResultKept /\ StateKept /\ ExecutorKept /\ CallsKept /\ TasksKept /\ ManualKept
    BY <1>21, <1>34, <2>3
  <2>6. GotKept
    <3>1. f <= Chain!Last
      BY <1>1, <2>4 DEF ChainTypes
    <3> QED BY <2>3, <2>4, <3>1 DEF GotKept, Fulfilled
  <2>7. Runnable(<<>>, {t})'
    BY <1>22, <1>24, <1>34, <2>3, <2>5, <2>6
  <2> QED BY <1>23, <1>34, <2>1, <2>3, <2>4, <2>5, <2>6, <2>7
<1>35. ASSUME ChainInv, NEW w \in Workers, Chain!Work(w)
       PROVE  ChainInv'
  <2>1. PICK h : h = Head(q_tasks)
    OBVIOUS
  <2>2. /\ q_state' = q_state /\ q_result' = q_result /\ q_got' = q_got
        /\ q_todo' = [q_todo EXCEPT ![w] = h]
        /\ q_executor' = q_executor /\ q_calledBy' = q_calledBy /\ Same
        /\ q_tasks # <<>> /\ q_tasks' = Tail(q_tasks) /\ q_manual' = q_manual
    BY <1>35, <2>1 DEF Chain!Work
  <2>3. ResultKept /\ StateKept /\ ExecutorKept /\ CallsKept /\ GotKept /\ ManualKept
    BY <1>21, <1>35, <2>2
  <2>4. TasksKept
    BY <2>2 DEF TasksKept
  <2>5. /\ \A W, s : Runnable(s, W) => Runnable(s, W)'
        /\ q_todo' \in [Everyone -> Seq(Orders)] /\ (\A u \in Everyone : Runnable(q_todo[u], {u})') => ChainInv'
    BY <1>22, <1>35, <2>2, <2>3, <2>4
  <2>6. Runnable(h, Workers)
    <3>1. h = q_tasks[1] /\ 1 \in 1..Len(q_tasks)
      BY <1>35, <2>1, <2>2 DEF ChainInv, ChainTypes
    <3> QED BY <1>35, <3>1 DEF ChainInv
  <2>7. Runnable(h, {w})
    BY <1>30, <1>35, <2>6
  <2>8. q_todo \in [Everyone -> Seq(Orders)] /\ h \in Seq(Orders)
    BY <1>35, <2>6 DEF ChainInv, ChainTypes, Runnable
  <2>9. ASSUME NEW u \in Everyone
        PROVE  Runnable(q_todo[u], {u})'
    <3>1. PICK p : p = q_todo'[u]
      OBVIOUS
    <3>2. Runnable(p, {u})
      <4>1. CASE u = w
        BY <2>2, <2>7, <2>8, <3>1, <4>1
      <4>2. CASE u # w
        BY <1>35, <2>2, <2>8, <3>1, <4>2 DEF ChainInv
      <4> QED BY <4>1, <4>2
    <3>3. Runnable(p, {u})' /\ p = q_todo[u]'
      BY <2>5, <3>1, <3>2
    <3> QED BY <3>3
  <2>10. q_todo' \in [Everyone -> Seq(Orders)]
    BY <2>2, <2>8
  <2> QED BY <2>5, <2>9, <2>10
<1>36. ASSUME ChainInv, NEW t \in Everyone
       PROVE  ~Chain!Throw(t)
  <2>1. ASSUME Chain!At(t, "throw")
        PROVE  FALSE
    <3>1. PICK q : q = q_todo[t]
      OBVIOUS
    <3>2. PICK f : f = Chain!Now(t)
      OBVIOUS
    <3>3. First(t, q, f, "throw")
      BY <1>25, <1>36, <2>1, <3>1, <3>2
    <3> QED BY <3>3 DEF First, Orders
  <2> QED BY <2>1 DEF Chain!Throw
<1>37. ASSUME ChainInv, UNCHANGED chainVars
       PROVE  ChainInv'
  <2>1. /\ q_state' = q_state /\ q_result' = q_result /\ q_got' = q_got /\ q_todo' = q_todo
        /\ q_executor' = q_executor /\ q_calledBy' = q_calledBy /\ Same
        /\ q_tasks' = q_tasks /\ q_manual' = q_manual
    BY <1>37 DEF chainVars
  <2>2. ResultKept /\ StateKept /\ ExecutorKept /\ CallsKept /\ GotKept /\ TasksKept /\ ManualKept
    BY <1>21, <1>37, <2>1
  <2>3. /\ \A W, s : Runnable(s, W) => Runnable(s, W)'
        /\ q_todo' \in [Everyone -> Seq(Orders)] /\ (\A u \in Everyone : Runnable(q_todo[u], {u})') => ChainInv'
    BY <1>22, <1>37, <2>1, <2>2
  <2>4. ASSUME NEW u \in Everyone
        PROVE  Runnable(q_todo[u], {u})'
    <3>1. PICK p : p = q_todo[u]
      OBVIOUS
    <3>2. Runnable(p, {u})
      BY <1>37, <3>1 DEF ChainInv
    <3>3. Runnable(p, {u})' /\ p = q_todo[u]'
      BY <2>1, <2>3, <3>1, <3>2
    <3> QED BY <3>3
  <2> QED BY <1>37, <2>1, <2>3, <2>4 DEF ChainInv, ChainTypes
<1>38. ASSUME ChainInv, [Next]_vars
       PROVE  ChainInv'
  <2>1. CASE UNCHANGED vars
    BY <1>37, <1>38, <2>1 DEF vars
  <2>2. CASE \/ StrandOnly /\ Strands!Next
             \/ CombineOnly /\ Combine!Next
             \/ FibersOnly /\ Fiber!Next
             \/ SleepOnly /\ Sleep!Next
    BY <1>37, <1>38, <2>2 DEF StrandOnly, CombineOnly, FibersOnly, SleepOnly
  <2>3. CASE ChainOnly /\ Chain!Next
    <3>1. CASE Chain!Terminated
      <4>1. UNCHANGED chainVars
        BY <3>1 DEF Chain!Terminated, Chain!vars, Chain!stateVars, Chain!chainVars, chainVars
      <4> QED BY <1>37, <1>38, <4>1
    <3>2. ASSUME NEW t \in Everyone, Chain!Step(t)
          PROVE  ChainInv'
      <4>1. CASE Chain!Rendezvous(t)
        BY <1>26, <1>27, <1>28, <1>38, <4>1 DEF Chain!Rendezvous
      <4>2. CASE Chain!Submit(t) \/ Chain!Drain(t) \/ Chain!CallFunction(t) \/ Chain!Via(t)
        BY <1>29, <1>31, <1>32, <1>33, <1>38, <4>2
      <4>3. CASE Chain!Throw(t) \/ Chain!Consume(t) \/ Chain!Get(t)
        BY <1>34, <1>36, <1>38, <4>3
      <4>4. CASE t \in Workers /\ Chain!Work(t)
        BY <1>35, <1>38, <4>4
      <4> QED BY <3>2, <4>1, <4>2, <4>3, <4>4 DEF Chain!Step
    <3> QED BY <2>3, <3>1, <3>2 DEF Chain!Next
  <2> QED BY <1>38, <2>1, <2>2, <2>3 DEF Next
(* At the start Main pipes the chain: what it subscribes to inherits the executor  *)
(* before.                                                                     *)
<1>39. ASSUME NEW c, NEW W, Runnable(c, W), NEW a \in Orders, a[2] \in Known,
             Needs(Append(c, a), Len(c) + 1, a[2], W)
       PROVE  /\ Runnable(Append(c, a), W) /\ Append(c, a) \in Seq(Orders) /\ Len(Append(c, a)) = Len(c) + 1
              /\ \A op, g : Earlier(c, Len(c) + 1, op, g) \/ (a[1] = op /\ a[2] = g)
                              => Earlier(Append(c, a), Len(c) + 2, op, g)
  <2>1. PICK s : s = Append(c, a)
    OBVIOUS
  <2>2. /\ c \in Seq(Orders) /\ s \in Seq(Orders) /\ Len(c) \in Nat /\ Len(s) = Len(c) + 1
        /\ s[Len(c) + 1] = a /\ \A i \in 1..Len(c) : s[i] = c[i]
    BY <1>39, <2>1 DEF Runnable
  <2>3. ASSUME NEW k \in 1..Len(s)
        PROVE  s[k][2] \in Known /\ Needs(s, k, s[k][2], W)
    <3>1. CASE k = Len(c) + 1
      BY <1>39, <2>1, <2>2, <3>1
    <3>2. CASE k # Len(c) + 1
      <4>1. k \in 1..Len(c) /\ \A i \in 1..(k - 1) : i \in 1..Len(c)
        BY <2>2, <3>2
      <4>2. \A op, g : Earlier(c, k, op, g) => Earlier(s, k, op, g)
        BY <2>2, <4>1 DEF Earlier
      <4>3. PICK f : f = c[k][2]
        OBVIOUS
      <4>4. f \in Known /\ Needs(c, k, f, W) /\ s[k] = c[k]
        BY <1>39, <2>2, <4>1, <4>3 DEF Runnable
      <4>5. Needs(s, k, f, W)
        BY <4>2, <4>4 DEF Needs
      <4> QED BY <4>3, <4>4, <4>5
    <3> QED BY <3>1, <3>2
  <2>4. ASSUME NEW op, NEW g, Earlier(c, Len(c) + 1, op, g) \/ (a[1] = op /\ a[2] = g)
        PROVE  Earlier(s, Len(c) + 2, op, g)
    <3>1. CASE Earlier(c, Len(c) + 1, op, g)
      <4>1. PICK i \in 1..((Len(c) + 1) - 1) : c[i][1] = op /\ c[i][2] = g
        BY <3>1 DEF Earlier
      <4>2. i \in 1..((Len(c) + 2) - 1) /\ s[i] = c[i]
        BY <2>2, <4>1
      <4> QED BY <4>1, <4>2 DEF Earlier
    <3>2. CASE a[1] = op /\ a[2] = g
      <4>1. PICK i : i = Len(c) + 1
        OBVIOUS
      <4>2. i \in 1..((Len(c) + 2) - 1) /\ s[i] = a
        BY <2>2, <4>1
      <4> QED BY <3>2, <4>2 DEF Earlier
    <3> QED BY <2>4, <3>1, <3>2
  <2> QED BY <2>1, <2>2, <2>3, <2>4 DEF Runnable
<1>40. ASSUME ChainTypes, NEW c, NEW W, Runnable(c, W), NEW f \in 0..Chain!Last,
              Told(f) \/ Earlier(c, Len(c) + 1, "via", f)
       PROVE  \E d : /\ d = c \o Chain!SetCallback(f) /\ Runnable(d, W)
                     /\ f < Chain!Last =>
                          LET e == c \o Chain!Piped(f + 1)
                          IN Runnable(e, W) /\ Earlier(e, Len(e) + 1, "via", f + 1)
  <2>1. PICK a : a = <<"store", f>>
    OBVIOUS
  <2>2. PICK b : b = <<"subscribe", f>>
    OBVIOUS
  <2>3. PICK v : v = <<"via", f + 1>>
    OBVIOUS
  <2>4. PICK c1 : c1 = Append(c, a)
    OBVIOUS
  <2>5. PICK c2 : c2 = Append(c1, b)
    OBVIOUS
  <2>6. PICK c3 : c3 = Append(c2, v)
    OBVIOUS
  <2>7. /\ f \in Known /\ f \in Numbers /\ f <= Chain!Last /\ q_chain \in Chains
        /\ f < Chain!Last => /\ f + 1 \in 1..Chain!Last /\ f + 1 \in Known
                            /\ f + 1 \in Numbers /\ (f + 1) - 1 = f
    BY <1>1, <1>40 DEF ChainTypes
  <2>8. /\ a \in Orders /\ a[1] = "store" /\ a[2] = f
        /\ b \in Orders /\ b[1] = "subscribe" /\ b[2] = f
        /\ f < Chain!Last => v \in Orders /\ v[1] = "via" /\ v[2] = f + 1
    BY <2>1, <2>2, <2>3, <2>7 DEF Orders
  <2>9. c \in Seq(Orders) /\ Len(c) \in Nat
    BY <1>40 DEF Runnable
  <2>10. c1[Len(c) + 1] = a
    BY <2>4, <2>8, <2>9
  <2>11. Needs(c1, Len(c) + 1, f, W)
    BY <2>8, <2>10 DEF Needs
  <2>12. /\ Runnable(c1, W) /\ c1 \in Seq(Orders) /\ Len(c1) = Len(c) + 1
         /\ \A op, g : Earlier(c, Len(c) + 1, op, g) \/ (a[1] = op /\ a[2] = g) =>
              Earlier(c1, Len(c) + 2, op, g)
    BY <1>39, <1>40, <2>4, <2>7, <2>8, <2>11
  <2>13. Told(f) \/ Earlier(c1, Len(c) + 2, "via", f)
    BY <1>40, <2>12
  <2>14. /\ (Len(c) + 1) + 1 = Len(c) + 2 /\ c2[Len(c1) + 1] = b
         /\ \A i \in 1..Len(c1) : c2[i] = c1[i]
    BY <2>5, <2>8, <2>9, <2>12
  <2>15. Told(f) \/ Earlier(c2, Len(c1) + 1, "via", f)
    <3>1. ASSUME Earlier(c1, Len(c) + 2, "via", f)
          PROVE  Earlier(c2, Len(c1) + 1, "via", f)
      <4>1. PICK i \in 1..((Len(c) + 2) - 1) : c1[i][1] = "via" /\ c1[i][2] = f
        BY <3>1 DEF Earlier
      <4>2. i \in 1..((Len(c1) + 1) - 1) /\ c2[i] = c1[i]
        BY <2>9, <2>12, <2>14, <4>1
      <4> QED BY <4>1, <4>2 DEF Earlier
    <3> QED BY <2>13, <3>1
  <2>16. Needs(c2, Len(c1) + 1, f, W)
    BY <2>7, <2>8, <2>14, <2>15 DEF Needs
  <2>17. /\ Runnable(c2, W) /\ c2 \in Seq(Orders) /\ Len(c2) = Len(c1) + 1
         /\ \A op, g : Earlier(c1, Len(c1) + 1, op, g) \/ (b[1] = op /\ b[2] = g) =>
              Earlier(c2, Len(c1) + 2, op, g)
    BY <1>39, <2>5, <2>7, <2>8, <2>12, <2>16
  <2>18. c2 = c \o Chain!SetCallback(f)
    <3>1. c2 = c \o <<a, b>>
      BY <2>4, <2>5, <2>8, <2>9
    <3> QED BY <2>1, <2>2, <3>1 DEF Chain!SetCallback
  <2>19. ASSUME f < Chain!Last
         PROVE  Runnable(c3, W) /\ c3 = c \o Chain!Piped(f + 1) /\ Earlier(c3, Len(c3) + 1, "via", f + 1)
    <3>1. c3[Len(c2) + 1] = v /\ Len(c2) \in Nat /\ \A i \in 1..Len(c2) : c3[i] = c2[i]
      BY <2>6, <2>8, <2>17, <2>19
    <3>2. Told(f) \/ Earlier(c3, Len(c2) + 1, "via", f)
      <4>1. ASSUME Earlier(c2, Len(c1) + 1, "via", f)
            PROVE  Earlier(c3, Len(c2) + 1, "via", f)
        <5>1. PICK i \in 1..((Len(c1) + 1) - 1) : c2[i][1] = "via" /\ c2[i][2] = f
          BY <4>1 DEF Earlier
        <5>2. i \in 1..((Len(c2) + 1) - 1) /\ c3[i] = c2[i]
          BY <2>9, <2>12, <2>17, <3>1, <5>1
        <5> QED BY <5>1, <5>2 DEF Earlier
      <4> QED BY <2>15, <4>1
    <3>3. Needs(c3, Len(c2) + 1, f + 1, W)
      BY <2>7, <2>8, <2>19, <3>1, <3>2 DEF Needs
    <3>4. /\ Runnable(c3, W) /\ c3 \in Seq(Orders) /\ Len(c3) = Len(c2) + 1
          /\ \A op, g : Earlier(c2, Len(c2) + 1, op, g) \/ (v[1] = op /\ v[2] = g) =>
               Earlier(c3, Len(c2) + 2, op, g)
      BY <1>39, <2>6, <2>7, <2>8, <2>17, <2>19, <3>3
    <3>5. (Len(c2) + 1) + 1 = Len(c2) + 2
      BY <3>1
    <3>6. c3 = c \o Chain!Piped(f + 1)
      <4>1. PICK x : x = Chain!SetCallback(f)
        OBVIOUS
      <4>2. Chain!Piped(f + 1) = x \o <<v>>
        BY <2>3, <2>7, <2>19, <4>1 DEF Chain!Piped
      <4>3. x \in Seq(Orders)
        BY <2>1, <2>2, <2>8, <4>1 DEF Chain!SetCallback
      <4>4. v \in Orders /\ c \in Seq(Orders) /\ c3 = Append(c \o x, v)
        BY <2>6, <2>8, <2>9, <2>18, <2>19, <4>1
      <4>5. <<v>> \in Seq(Orders) /\ c \o x \in Seq(Orders)
        BY <4>3, <4>4
      <4>6. Append(c \o x, v) = (c \o x) \o <<v>>
        BY <4>4, <4>5, AppendIsConcat
      <4>7. (c \o x) \o <<v>> = c \o (x \o <<v>>)
        BY <4>3, <4>4, <4>5, ConcatAssociative
      <4> QED BY <4>2, <4>4, <4>6, <4>7
    <3> QED BY <2>8, <2>19, <3>4, <3>5, <3>6
  <2> QED BY <2>17, <2>18, <2>19
<1>41. ASSUME Init
       PROVE  ChainInv
  <2>1. /\ q_chain \in Chains
        /\ q_outcome \in [0..Chain!Last -> BOOLEAN] /\ Chain!Possible(q_chain, q_outcome)
        /\ q_result = [f \in Numbers |-> Nothing] /\ q_state = [f \in Numbers |-> "Initial"]
        /\ q_tasks = <<Chain!SetResult(0, Chain!R(0))>> /\ q_manual = <<>>
        /\ q_calledBy = [j \in 1..Chain!Last |-> {}] /\ q_got = Nothing
    BY <1>41 DEF Init, Chain!Init, Chain!StatesInit, Numbers
  <2>2. PICK e \in {"inline", "pool", "manual"}, 
             consume \in {<<<<"get", Chain!Last>>>>, Chain!SetCallback(Chain!Last)} :
          /\ q_executor = [f \in Numbers |-> IF f = 0 THEN e ELSE "inline"]
          /\ q_todo = [t \in Everyone |->
                IF t = Main
                THEN Chain!Pipes[1] \o Chain!Pipes[2] \o Chain!Pipes[3] \o Chain!ConsumeOn(e, consume)
                 ELSE <<>>]
    BY <1>41 DEF Init, Chain!Init, Numbers
  <2>3. PICK s : s = Chain!Pipes[1] \o Chain!Pipes[2] \o Chain!Pipes[3] \o Chain!ConsumeOn(e, consume)
    OBVIOUS
  <2>4. q_todo = [t \in Everyone |-> IF t = Main THEN s ELSE <<>>]
    BY <2>2, <2>3
  <2>5. PICK b : b = Chain!SetResult(0, Chain!R(0))
    OBVIOUS
  <2>6. ASSUME ChainTypes
        PROVE  Runnable(b, Workers)
    <3>1. 0 \in Known /\ 0 \in 0..Chain!Last /\ Promised(0) = Chain!R(0) /\ \A j \in 1..Chain!Last : ~(j <= 0)
      BY <1>1, <1>3, <2>1, <2>6
    <3>2. Called(0)
      BY <3>1 DEF Called
    <3> QED BY <1>11, <2>5, <2>6, <3>1, <3>2
  <2>7. b \in Seq(Orders)
    <3>1. Chain!R(0) \in Values
      BY <1>1, <2>1 DEF Chain!R
    <3> QED BY <2>5, <3>1 DEF Chain!SetResult, Orders, Numbers
  <2>8. ASSUME s \in Seq(Orders)
        PROVE  ChainTypes
    <3>1. q_result \in [Numbers -> Values \cup {Nothing}]
      BY <2>1
    <3>2. q_state \in [Numbers -> {"Initial", "ResultSet", "CallbackSet"}]
      BY <2>1
    <3>3. q_executor \in [Numbers -> {"inline", "pool", "manual"}]
      BY <2>2
    <3>4. q_calledBy \in [1..Chain!Last -> SUBSET Everyone]
      BY <2>1
    <3>5. q_todo \in [Everyone -> Seq(Orders)]
      BY <2>4, <2>8
    <3>6. q_tasks \in Seq(Seq(Orders)) /\ q_manual \in Seq(Seq(Orders))
      BY <2>1, <2>5, <2>7
    <3> QED BY <2>1, <3>1, <3>2, <3>3, <3>4, <3>5, <3>6 DEF ChainTypes
  <2>9. s \in Seq(Orders)
    <3>1. PICK n : n = Chain!Last
      OBVIOUS
    <3>2. n \in {2, 3}
      BY <1>1, <2>1, <3>1
    <3>3. \A f \in 0..3 : Chain!SetCallback(f) \in Seq(Orders)
      BY DEF Chain!SetCallback, Orders, Numbers
    <3>4. \A j \in 1..3 : Chain!Piped(j) \in Seq(Orders)
      <4>1. ASSUME NEW j \in 1..3
            PROVE  Chain!Piped(j) \in Seq(Orders)
        <5>1. <<<<"via", j>>>> \in Seq(Orders) /\ j - 1 \in 0..3
          BY <4>1 DEF Orders, Numbers
        <5>2. Chain!SetCallback(j - 1) \in Seq(Orders)
          BY <3>3, <5>1
        <5> QED BY <5>1, <5>2 DEF Chain!Piped
      <4> QED BY <4>1
    <3>5. \A j \in 1..3 : Chain!Pipes[j] \in Seq(Orders)
      BY <3>4 DEF Chain!Pipes
    <3>6. Chain!SetCallback(n) \in Seq(Orders) /\ <<<<"get", n>>>> \in Seq(Orders)
          /\ <<<<"drain", 0>>>> \in Seq(Orders)
      BY <3>2, <3>3 DEF Orders, Numbers
    <3>7. Chain!ConsumeOn(e, consume) \in Seq(Orders)
      <4>1. CASE e = "manual"
        <5>1. Chain!ConsumeOn(e, consume) = Chain!SetCallback(n) \o <<<<"drain", 0>>>>
          BY <3>1, <4>1 DEF Chain!ConsumeOn
        <5> QED BY <3>6, <5>1
      <4>2. CASE e # "manual"
        <5>1. consume = <<<<"get", n>>>> \/ consume = Chain!SetCallback(n)
          BY <2>2, <3>1
        <5>2. Chain!ConsumeOn(e, consume) = consume
          BY <4>2 DEF Chain!ConsumeOn
        <5> QED BY <3>6, <5>1, <5>2
      <4> QED BY <4>1, <4>2
    <3> QED BY <2>3, <3>5, <3>7
  <2>10. ChainTypes
    BY <2>8, <2>9
  <2>11. Settled
    <3>1. \A f \in Known : q_result[f] = Nothing /\ q_state[f] = "Initial"
      BY <1>1, <2>1
    <3> QED BY <2>1, <3>1 DEF Settled
  <2>12. Runnable(s, {Main})
    <3>1. PICK n : n = Chain!Last
      OBVIOUS
    <3>2. /\ n \in {2, 3} /\ 0 \in 0..n /\ 1 \in 0..n /\ 2 \in 0..n /\ (n = 3 => 3 \in 0..n)
          /\ 0 < n /\ 1 < n /\ (n = 3 => 2 < n) /\ 0 + 1 = 1 /\ 1 + 1 = 2 /\ 2 + 1 = 3
      BY <1>1, <2>1, <3>1
    <3>3. /\ Chain!Pipes[1] = Chain!Piped(1) /\ Chain!Pipes[2] = Chain!Piped(2)
          /\ Chain!Pipes[3] = IF n = 3 THEN Chain!Piped(3) ELSE <<>>
      <4>1. \A j \in 1..3 : Chain!Pipes[j] = IF j <= n THEN Chain!Piped(j) ELSE <<>>
        BY <3>1 DEF Chain!Pipes
      <4> QED BY <3>2, <4>1
    <3>4. PICK s0 : s0 = <<>>
      OBVIOUS
    <3>5. PICK s1 : s1 = s0 \o Chain!Piped(0 + 1)
      OBVIOUS
    <3>6. PICK s2 : s2 = s1 \o Chain!Piped(1 + 1)
      OBVIOUS
    <3>7. PICK s3 : s3 = IF n = 3 THEN s2 \o Chain!Piped(2 + 1) ELSE s2
      OBVIOUS
    <3>8. Runnable(s0, {Main}) /\ Told(0)
      BY <1>24, <3>4 DEF Told
    <3>9. Runnable(s1, {Main}) /\ Earlier(s1, Len(s1) + 1, "via", 1)
      BY <1>40, <2>10, <3>1, <3>2, <3>5, <3>8
    <3>10. Runnable(s2, {Main}) /\ Earlier(s2, Len(s2) + 1, "via", 2)
      BY <1>40, <2>10, <3>1, <3>2, <3>6, <3>9
    <3>11. Runnable(s3, {Main}) /\ Earlier(s3, Len(s3) + 1, "via", n)
      <4>1. CASE n = 3
        BY <1>40, <2>10, <3>1, <3>2, <3>7, <3>10, <4>1
      <4>2. CASE n = 2
        BY <3>7, <3>10, <4>2
      <4> QED BY <3>2, <4>1, <4>2
    <3>12. s3 = Chain!Pipes[1] \o Chain!Pipes[2] \o Chain!Pipes[3]
      <4>1. s1 = Chain!Pipes[1] /\ s2 = s1 \o Chain!Pipes[2]
        <5>1. Chain!Piped(1) \in Seq(Orders)
          <6>1. 1 - 1 = 0
            OBVIOUS
          <6> QED BY <6>1 DEF Chain!Piped, Chain!SetCallback, Orders, Numbers
        <5> QED BY <3>2, <3>3, <3>4, <3>5, <3>6, <5>1
      <4>2. CASE n = 3
        BY <3>2, <3>3, <3>7, <4>1, <4>2
      <4>3. CASE n = 2
        <5>1. s2 \in Seq(Orders) /\ s3 = s2 /\ Chain!Pipes[3] = <<>>
          BY <3>3, <3>7, <3>10, <4>3 DEF Runnable
        <5>2. s2 \o <<>> = s2
          BY <5>1
        <5> QED BY <4>1, <5>1, <5>2
      <4> QED BY <3>2, <4>2, <4>3
    <3>13. s = s3 \o Chain!ConsumeOn(e, consume)
      BY <2>3, <3>12
    <3>14. Runnable(s3 \o Chain!SetCallback(n), {Main})
      BY <1>40, <2>10, <3>1, <3>2, <3>11
    <3>15. CASE e = "manual"
      <4>1. PICK a : a = <<"drain", 0>>
        OBVIOUS
      <4>2. PICK c : c = s3 \o Chain!SetCallback(n)
        OBVIOUS
      <4>3. a \in Orders /\ a[1] = "drain" /\ a[2] = 0 /\ 0 \in Known
        BY <1>1, <2>1, <4>1 DEF Orders, Numbers
      <4>4. PICK d : d = Append(c, a)
        OBVIOUS
      <4>5. c \in Seq(Orders) /\ s3 \in Seq(Orders) /\ d[Len(c) + 1] = a /\ Chain!SetCallback(n) \in Seq(Orders)
        <5>1. c \in Seq(Orders) /\ s3 \in Seq(Orders)
          BY <3>11, <3>14, <4>2 DEF Runnable
        <5>2. Chain!SetCallback(n) \in Seq(Orders)
          BY <3>2 DEF Chain!SetCallback, Orders, Numbers
        <5> QED BY <4>3, <4>4, <5>1, <5>2
      <4>6. Needs(d, Len(c) + 1, 0, {Main})
        BY <4>3, <4>5 DEF Needs
      <4>7. Runnable(d, {Main})
        BY <1>39, <3>14, <4>2, <4>3, <4>4, <4>6
      <4>8. s = d
        <5>1. s = s3 \o (Chain!SetCallback(n) \o <<a>>)
          BY <3>1, <3>13, <3>15, <4>1 DEF Chain!ConsumeOn
        <5> QED BY <4>2, <4>3, <4>4, <4>5, <5>1
      <4> QED BY <4>7, <4>8
    <3>16. CASE e # "manual" /\ consume = <<<<"get", Chain!Last>>>>
      <4>1. PICK a : a = <<"get", n>>
        OBVIOUS
      <4>2. a \in Orders /\ a[1] = "get" /\ a[2] = n /\ n \in Known
        BY <1>1, <2>1, <3>1, <3>2, <4>1 DEF Orders, Numbers
      <4>3. PICK d : d = Append(s3, a)
        OBVIOUS
      <4>4. s3 \in Seq(Orders) /\ d[Len(s3) + 1] = a
        BY <3>11, <4>2, <4>3 DEF Runnable
      <4>5. Needs(d, Len(s3) + 1, n, {Main})
        BY <3>1, <4>2, <4>4 DEF Needs
      <4>6. Runnable(d, {Main})
        BY <1>39, <3>11, <4>2, <4>3, <4>5
      <4>7. s = d
        <5>1. s = s3 \o <<a>>
          BY <3>1, <3>13, <3>16, <4>1 DEF Chain!ConsumeOn
        <5> QED BY <4>2, <4>3, <4>4, <5>1
      <4> QED BY <4>6, <4>7
    <3>17. CASE e # "manual" /\ consume = Chain!SetCallback(Chain!Last)
      BY <3>1, <3>13, <3>14, <3>17 DEF Chain!ConsumeOn
    <3> QED BY <2>2, <3>15, <3>16, <3>17
  <2>13. \A t \in Everyone : Runnable(q_todo[t], {t})
    BY <1>24, <2>4, <2>12
  <2>14. /\ \A i \in 1..Len(q_tasks) : Runnable(q_tasks[i], Workers)
         /\ \A i \in 1..Len(q_manual) : Runnable(q_manual[i], {Main})
    <3>1. q_tasks = <<b>> /\ q_manual = <<>> /\ Runnable(b, Workers)
      BY <2>1, <2>5, <2>6, <2>10
    <3> QED BY <2>10, <3>1
  <2> QED BY <2>10, <2>11, <2>13, <2>14 DEF ChainInv
<1> QED BY <1>38, <1>41

(* After Via() the functions of a chain run in the executor it names: no flow of    *)
(* callbacks brings the function of a stage to another thread before a Flatten.   *)
THEOREM ChainsRunWhereTold == Spec => []RunsWhereTold
<1>1. ChainInv => RunsWhereTold
  <2> SUFFICES ASSUME ChainInv, NEW j \in 1..Chain!Last, \A i \in 1..(j - 1) : q_chain[i] # "flatten"
               PROVE  q_calledBy[j] \subseteq Chain!Where(q_executor[0])
    BY DEF RunsWhereTold, Chain!RunsWhereTold
  <2> QED BY DEF ChainInv, Settled, Straight
<1> QED BY <1>1, ChainInductive, PTL DEF Spec

(* A consumer gets what the stages of its chain make of the first result, one after *)
(* the other, and the function of a stage is called exactly when the result before  *)
(* it is of the kind that the stage takes; and First and Both deliver what they   *)
(* promise.                                                                    *)
THEOREM EveryRightResult == Spec => []RightResult
<1>1. ChainInv => Chain!RightResult
  <2> SUFFICES ASSUME ChainInv
               PROVE  Chain!RightResult
    OBVIOUS
  <2>1. /\ ChainTypes /\ Settled /\ Chain!Last \in {2, 3} /\ Chain!Last <= Chain!Last
    BY DEF ChainInv, ChainTypes, Chains, Chain!Last
  <2>2. q_got # Nothing => q_got = Chain!Composed[Chain!Last]
    BY <2>1 DEF Settled, Promised
  <2>3. ASSUME NEW j \in 1..Chain!Last
        PROVE  /\ q_calledBy[j] # {} => Chain!HasFunction(j) /\ Chain!Applies(j, Chain!Composed[j - 1])
               /\ q_got # Nothing /\ Chain!HasFunction(j) /\ Chain!Applies(j, Chain!Composed[j - 1])
                    => q_calledBy[j] # {}
    <3>1. j <= Chain!Last
      BY <2>1
    <3> QED BY <2>1, <3>1 DEF Settled, Asked, Occurs, Called
  <2> QED BY <2>2, <2>3 DEF Chain!RightResult
<1>2. Combine!RightResult /\ Chain!RightResult => RightResult
  BY DEF RightResult
<1> QED BY <1>1, <1>2, ChainInductive, CallbackIsSubmittedOnce, PTL DEF Spec
=============================================================================
