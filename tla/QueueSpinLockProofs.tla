------------------------ MODULE QueueSpinLockProofs -------------------------
(* Proofs about QueueSpinLock, for any set of threads.                       *)
(*                                                                           *)
(* The inductive invariant describes the list of guards: it runs through the   *)
(* threads in the order of their exchange, with a gap before each thread that   *)
(* has not linked its guard yet, and only the first of them is the owner.      *)
EXTENDS QueueSpinLock, SequenceTheorems, TLAPS

Linking == {"flag", "link"}

Distinct == \A i, j \in 1..Len(line) : line[i] = line[j] => i = j

InLine == \A t \in Threads : pc[t] # "idle" => \E i \in 1..Len(line) : line[i] = t

TailIsLast == tail = IF line = <<>> THEN Null ELSE line[Len(line)]

(* What is known of the guard at place i and of its thread. *)
Before(i) == pc[line[i]] \in Linking => prev[line[i]] = IF i = 1 THEN Null ELSE line[i - 1]

After(i) ==
  next[line[i]] = IF i = Len(line) \/ pc[line[i + 1]] \in Linking THEN Null ELSE line[i + 1]

First(i) ==
  LET t == line[i]
  IN /\ pc[t] # "idle"
     /\ is_owner[t] \/ pc[t] \in Releasing => i = 1
     /\ pc[t] = "link" => i # 1
     /\ pc[t] = "hand" => next[t] # Null

Listed == \A i \in 1..Len(line) : Before(i) /\ After(i) /\ First(i)

IInv == TypeOK /\ Distinct /\ InLine /\ TailIsLast /\ Listed

-----------------------------------------------------------------------------
(* The queue as a function on places. *)
LEMMA Places ==
  ASSUME TypeOK
  PROVE  /\ Len(line) \in Nat
         /\ \A i \in 1..Len(line) : line[i] \in Threads
         /\ line = <<>> <=> Len(line) = 0
BY LenProperties, EmptySeq DEF TypeOK

(* The steps that leave the queue as it is. *)
Inside(t) ==
  \/ Flag(t) \/ Link(t) \/ Pass(t) \/ LookNext(t)
  \/ Leave(t) /\ tail # t

LEMMA IInvInductive ==
  ASSUME Null \notin Threads
  PROVE  (Init => IInv) /\ (IInv /\ [Next]_vars => IInv')
<1>1. Init => IInv
  <2> SUFFICES ASSUME Init PROVE IInv
    OBVIOUS
  <2>1. TypeOK
    BY DEF Init, TypeOK
  <2>2. line = <<>> /\ Len(line) = 0
    BY DEF Init
  <2>3. Distinct /\ InLine /\ TailIsLast /\ Listed
    BY <2>2 DEF Init, Distinct, InLine, TailIsLast, Listed
  <2> QED
    BY <2>1, <2>3 DEF IInv
<1>2. IInv /\ [Next]_vars => IInv'
  <2> SUFFICES ASSUME IInv, [Next]_vars PROVE IInv'
    OBVIOUS
  <2>1. ASSUME NEW t \in Threads, Inside(t) PROVE IInv'
    <3> USE <2>1
    <3> USE DEF IInv, Goto, Linking, Releasing
    <3> DEFINE n == Len(line)
    <3>1. /\ n \in Nat
          /\ \A i \in 1..n : line[i] \in Threads
          /\ line' = line /\ tail' = tail /\ prev' = prev
          /\ \A u \in Threads \ {t} : pc'[u] = pc[u]
          /\ pc[t] # "idle" /\ pc'[t] # "idle"
      BY Places DEF Inside, Flag, Link, Pass, LookNext, Leave, TypeOK
    <3>2. PICK k \in 1..n : line[k] = t
      BY <3>1 DEF InLine
    <3>3. \A i \in 1..n : i # k => line[i] # t
      BY <3>2 DEF Distinct
    <3>4. Before(k) /\ After(k) /\ First(k)
      BY <3>2 DEF Listed
    <3>5. k # 1 => line[k - 1] \in Threads
      BY <3>1
    <3>6. pc[t] \in Linking => (prev[t] = Null <=> k = 1) /\ (k # 1 => prev[t] = line[k - 1])
      BY <3>2, <3>4, <3>5 DEF Before
    <3>7. TypeOK'
      <4>1. pc[t] = "link" => prev[t] \in Threads
        BY <3>2, <3>4, <3>5, <3>6 DEF First
      <4>2. CASE Flag(t)
        BY <4>2 DEF TypeOK, Flag
      <4>3. CASE Link(t)
        BY <4>1, <4>3 DEF TypeOK, Link
      <4>4. CASE Pass(t) \/ LookNext(t)
        BY <4>4 DEF TypeOK, Pass, LookNext
      <4>5. CASE Leave(t) /\ tail # t
        BY <4>5 DEF TypeOK, Leave
      <4> QED
        BY <4>2, <4>3, <4>4, <4>5 DEF Inside
    <3>8. Distinct' /\ InLine' /\ TailIsLast'
      BY <3>1 DEF Distinct, InLine, TailIsLast
    <3>9. ASSUME NEW i \in 1..n PROVE Before(i)' /\ After(i)' /\ First(i)'
      <4>1. /\ line[i] \in Threads /\ Before(i) /\ After(i) /\ First(i)
            /\ i # k => line[i] # t /\ pc'[line[i]] = pc[line[i]]
            /\ i = k => line[i] = t
        BY <3>1, <3>2, <3>3 DEF Listed
      <4>2. i # n => i + 1 \in 1..n /\ line[i + 1] \in Threads /\ (i + 1 # k => line[i + 1] # t)
        BY <3>1, <3>3
      <4>3. CASE Flag(t)
        <5>1. /\ pc[t] = "flag" /\ next' = next
              /\ is_owner' = [is_owner EXCEPT ![t] = prev[t] = Null]
              /\ pc'[t] = IF prev[t] = Null THEN "spin" ELSE "link"
          BY <4>3 DEF Flag, TypeOK
        <5>2. Before(i)'
          BY <3>1, <4>1, <5>1 DEF Before
        <5>3. After(i)'
          <6>1. i # n => (pc'[line[i + 1]] \in Linking <=> pc[line[i + 1]] \in Linking)
            <7>1. ASSUME i # n, i + 1 = k PROVE pc[t] \in Linking /\ pc'[t] \in Linking
              BY <3>1, <3>6, <5>1, <7>1
            <7> QED
              BY <3>1, <3>2, <4>2, <7>1
          <6> QED
            BY <3>1, <4>1, <5>1, <6>1 DEF After
        <5>4. First(i)'
          BY <3>1, <3>6, <4>1, <5>1 DEF First, TypeOK
        <5> QED
          BY <5>2, <5>3, <5>4
      <4>4. CASE Link(t)
        <5>1. /\ pc[t] = "link" /\ is_owner' = is_owner /\ pc'[t] = "spin" /\ k # 1
              /\ prev[t] = line[k - 1] /\ next' = [next EXCEPT ![line[k - 1]] = t]
          BY <3>2, <3>4, <3>6, <4>4 DEF Link, TypeOK, First
        <5>2. Before(i)'
          BY <3>1, <4>1, <5>1 DEF Before
        <5>3. After(i)'
          <6>1. CASE i = k - 1
            BY <3>1, <3>2, <3>5, <5>1, <6>1 DEF After, TypeOK
          <6>2. CASE i # k - 1
            <7>1. line[i] # line[k - 1]
              BY <3>1, <5>1, <6>2 DEF Distinct
            <7>2. next'[line[i]] = next[line[i]]
              BY <4>1, <5>1, <7>1 DEF TypeOK
            <7>3. i # n => pc'[line[i + 1]] = pc[line[i + 1]]
              BY <3>1, <4>2, <6>2
            <7> QED
              BY <3>1, <4>1, <7>2, <7>3 DEF After
          <6> QED
            BY <6>1, <6>2
        <5>4. First(i)'
          <6>1. next[line[i]] # Null => next'[line[i]] # Null
            BY <4>1, <5>1 DEF TypeOK
          <6> QED
            BY <3>1, <4>1, <5>1, <6>1 DEF First
        <5> QED
          BY <5>2, <5>3, <5>4
      <4>5. CASE Pass(t) \/ LookNext(t) \/ (Leave(t) /\ tail # t)
        <5>1. pc[t] \notin Linking /\ pc'[t] \notin Linking /\ next' = next /\ is_owner' = is_owner
          BY <4>5 DEF Pass, LookNext, Leave, TypeOK
        <5>2. pc'[t] \in Releasing => pc[t] \in Releasing \/ is_owner[t]
          BY <4>5 DEF Pass, LookNext, Leave, TypeOK
        <5>3. pc'[t] = "hand" => pc[t] = "hand" \/ next[t] # Null
          BY <4>5 DEF Pass, LookNext, Leave, TypeOK
        <5>4. Before(i)'
          BY <3>1, <4>1, <5>1 DEF Before
        <5>5. After(i)'
          <6>1. i # n => (pc'[line[i + 1]] \in Linking <=> pc[line[i + 1]] \in Linking)
            BY <3>1, <4>2, <5>1
          <6> QED
            BY <3>1, <4>1, <5>1, <6>1 DEF After
        <5>6. First(i)'
          BY <3>1, <4>1, <5>1, <5>2, <5>3 DEF First
        <5> QED
          BY <5>4, <5>5, <5>6
      <4> QED
        BY <4>3, <4>4, <4>5 DEF Inside
    <3>10. Listed'
      BY <3>1, <3>9 DEF Listed
    <3> QED
      BY <3>7, <3>8, <3>10
  (* A guard is added behind the others. *)
  <2>2. ASSUME NEW t \in Threads, Exchange(t) PROVE IInv'
    <3> USE <2>2
    <3> USE DEF IInv, Goto, Linking, Releasing
    <3> DEFINE n == Len(line)
    <3>1. /\ n \in Nat /\ (line = <<>> <=> n = 0)
          /\ \A i \in 1..n : line[i] \in Threads /\ line[i] # t
      <4>1. \A i \in 1..n : pc[line[i]] # "idle"
        BY DEF Listed, First
      <4> QED
        BY <4>1, Places DEF Exchange
    <3>2. /\ line' \in Seq(Threads) /\ Len(line') = n + 1 /\ line' # <<>>
          /\ \A i \in 1..n : line'[i] = line[i]
          /\ line'[n + 1] = t
      BY <3>1, AppendProperties DEF Exchange, TypeOK
    <3>3. /\ tail' = t /\ pc' = [pc EXCEPT ![t] = "flag"]
          /\ next' = [next EXCEPT ![t] = Null]
          /\ is_owner' = [is_owner EXCEPT ![t] = FALSE]
          /\ prev' = [prev EXCEPT ![t] = tail]
      BY DEF Exchange
    <3>4. /\ pc'[t] = "flag" /\ next'[t] = Null /\ ~is_owner'[t] /\ prev'[t] = tail
          /\ \A u \in Threads \ {t} : /\ pc'[u] = pc[u] /\ next'[u] = next[u]
                                      /\ is_owner'[u] = is_owner[u] /\ prev'[u] = prev[u]
      BY <3>3 DEF TypeOK
    <3>5. TypeOK'
      BY <3>2, <3>3 DEF TypeOK
    <3>6. Distinct'
      BY <3>1, <3>2 DEF Distinct
    <3>7. InLine'
      <4>1. ASSUME NEW u \in Threads, pc'[u] # "idle", u # t
            PROVE  \E i \in 1..(n + 1) : line'[i] = u
        <5>1. PICK i \in 1..n : line[i] = u
          BY <3>4, <4>1 DEF InLine
        <5>2. i \in 1..(n + 1)
          BY <3>1
        <5> QED
          BY <3>2, <5>1, <5>2
      <4>2. n + 1 \in 1..(n + 1)
        BY <3>1
      <4> QED
        BY <3>2, <4>1, <4>2 DEF InLine
    <3>8. TailIsLast'
      BY <3>2, <3>3 DEF TailIsLast
    <3>9. ASSUME NEW i \in 1..n PROVE Before(i)' /\ After(i)' /\ First(i)'
      <4>1. /\ line'[i] = line[i] /\ line[i] \in Threads \ {t}
            /\ Before(i) /\ After(i) /\ First(i)
            /\ i # 1 => line'[i - 1] = line[i - 1]
        BY <3>1, <3>2 DEF Listed
      <4>2. /\ i # n => line'[i + 1] = line[i + 1] /\ line[i + 1] \in Threads \ {t}
            /\ i = n => pc'[line'[i + 1]] \in Linking
            /\ i # Len(line')
        BY <3>1, <3>2, <3>4
      <4>3. Before(i)' /\ First(i)'
        BY <3>4, <4>1 DEF Before, First
      <4>4. After(i)'
        BY <3>4, <4>1, <4>2 DEF After
      <4> QED
        BY <4>3, <4>4
    <3>10. ASSUME NEW i, i = n + 1 PROVE Before(i)' /\ After(i)' /\ First(i)'
      <4>1. line'[i] = t /\ i = Len(line')
        BY <3>2, <3>10
      <4>2. tail = IF i = 1 THEN Null ELSE line'[i - 1]
        <5>1. CASE n = 0
          BY <3>1, <3>10, <5>1 DEF TailIsLast
        <5>2. CASE n # 0
          <6>1. n \in 1..n /\ i - 1 = n /\ i # 1
            BY <3>1, <3>10, <5>2
          <6> QED
            BY <3>1, <3>2, <5>2, <6>1 DEF TailIsLast
        <5> QED
          BY <5>1, <5>2
      <4>3. Before(i)'
        BY <3>4, <4>1, <4>2 DEF Before
      <4>4. After(i)' /\ First(i)'
        BY <3>4, <4>1 DEF After, First
      <4> QED
        BY <4>3, <4>4
    <3>11. Listed'
      <4>1. \A i \in 1..(n + 1) : i \in 1..n \/ i = n + 1
        BY <3>1
      <4>2. \A i \in 1..(n + 1) : Before(i)' /\ After(i)' /\ First(i)'
        BY <3>9, <3>10, <4>1
      <4> QED
        BY <3>2, <4>2 DEF Listed
    <3> QED
      BY <3>5, <3>6, <3>7, <3>8, <3>11
  (* The first leaves the queue: what it knew of the second is true of the first *)
  (* from now on.                                                              *)
  <2>3. ASSUME NEW t \in Threads, Hand(t) \/ (Leave(t) /\ tail = t) PROVE IInv'
    <3> USE <2>3
    <3> USE DEF IInv, Goto, Linking, Releasing
    <3> DEFINE n == Len(line)
    <3>1. /\ n \in Nat /\ (line = <<>> <=> n = 0)
          /\ \A i \in 1..n : line[i] \in Threads
      BY Places
    <3>2. /\ pc[t] \in {"hand", "cas"} /\ line' = Tail(line) /\ prev' = prev /\ next' = next
          /\ pc' = [pc EXCEPT ![t] = "idle"]
      BY DEF Hand, Leave
    <3>3. 1 \in 1..n /\ line[1] = t
      <4>1. PICK k \in 1..n : line[k] = t
        BY <3>2 DEF InLine
      <4>2. First(k)
        BY DEF Listed
      <4> QED
        BY <3>2, <4>1, <4>2 DEF First
    <3>4. \A i \in 2..n : i \in 1..n /\ line[i] # t
      BY <3>1, <3>3 DEF Distinct
    <3>5. /\ line' \in Seq(Threads) /\ Len(line') = n - 1
          /\ \A i \in 1..(n - 1) : line'[i] = line[i + 1]
      BY <3>1, <3>2, <3>3, HeadTailProperties DEF TypeOK
    <3>6. pc'[t] = "idle" /\ \A u \in Threads \ {t} : pc'[u] = pc[u]
      BY <3>2 DEF TypeOK
    <3>7. Distinct'
      BY <3>1, <3>4, <3>5 DEF Distinct
    <3>8. InLine'
      <4> SUFFICES ASSUME NEW u \in Threads, pc'[u] # "idle"
                   PROVE  \E i \in 1..Len(line') : line'[i] = u
        BY DEF InLine
      <4>1. u # t /\ pc[u] # "idle"
        BY <3>6
      <4>2. PICK i \in 1..n : line[i] = u
        BY <4>1 DEF InLine
      <4>3. i - 1 \in 1..(n - 1) /\ (i - 1) + 1 = i
        BY <3>1, <3>3, <4>1, <4>2
      <4> QED
        BY <3>5, <4>2, <4>3
    <3>9. CASE Leave(t) /\ tail = t
      <4>1. n = 1
        <5>1. n \in 1..n
          BY <3>1, <3>3
        <5>2. line[n] = t
          BY <3>1, <3>3, <3>9 DEF TailIsLast
        <5> QED
          BY <3>3, <5>1, <5>2 DEF Distinct
      <4>2. tail' = Null /\ is_owner' = is_owner
        BY <3>9 DEF Leave
      <4>3. Len(line') = 0 /\ line' = <<>>
        <5>1. Len(line') = 0
          BY <3>5, <4>1
        <5> QED
          BY <3>5, <5>1, EmptySeq
      <4>4. TypeOK'
        BY <3>2, <3>5, <4>2 DEF TypeOK
      <4>5. TailIsLast' /\ Listed'
        BY <4>2, <4>3 DEF TailIsLast, Listed
      <4> QED
        BY <3>7, <3>8, <4>4, <4>5
    <3>10. CASE Hand(t)
      <4>1. pc[t] = "hand" /\ tail' = tail /\ is_owner' = [is_owner EXCEPT ![next[t]] = TRUE]
        BY <3>10 DEF Hand
      <4>2. After(1) /\ First(1)
        BY <3>3 DEF Listed
      <4>3. n # 1 /\ pc[line[2]] \notin Linking /\ next[t] = line[2]
        BY <3>3, <4>1, <4>2 DEF After, First
      <4>4. 2 \in 1..n /\ line[2] \in Threads
        <5>1. 2 \in 1..n
          <6>1. n \in Nat /\ 1 \in 1..n /\ n # 1
            BY <3>1, <3>3, <4>3
          <6> HIDE DEF n
          <6> QED
            BY <6>1
        <5> QED
          BY <3>1, <5>1
      <4>5. TypeOK'
        BY <3>2, <3>5, <4>1, <4>3, <4>4 DEF TypeOK
      <4>6. TailIsLast'
        <5>1. tail = line[n] /\ n - 1 \in 1..(n - 1) /\ (n - 1) + 1 = n
          BY <3>1, <3>3, <4>4 DEF TailIsLast
        <5>2. line' # <<>>
          BY <3>1, <3>5, <4>4, EmptySeq
        <5> QED
          BY <3>5, <4>1, <5>1, <5>2 DEF TailIsLast
      <4>7. ASSUME NEW i \in 1..(n - 1) PROVE Before(i)' /\ After(i)' /\ First(i)'
        <5>1. /\ i + 1 \in 2..n /\ i + 1 # 1 /\ (i + 1) - 1 = i /\ (i + 1) + 1 = i + 2
              /\ i + 1 = n <=> i = n - 1
          BY <3>1
        <5>2. /\ line'[i] = line[i + 1] /\ line[i + 1] \in Threads \ {t}
              /\ Before(i + 1) /\ After(i + 1) /\ First(i + 1)
          BY <3>1, <3>4, <3>5, <5>1 DEF Listed
        <5>3. i = 1 => pc[line[i + 1]] \notin Linking
          BY <4>3
        <5>4. i # 1 => line'[i - 1] = line[i]
          <6>1. i # 1 => i - 1 \in 1..(n - 1) /\ (i - 1) + 1 = i
            BY <3>1
          <6> QED
            BY <3>5, <6>1
        <5>5. Before(i)'
          BY <3>2, <3>6, <5>1, <5>2, <5>3, <5>4 DEF Before
        <5>6. i # n - 1 => /\ line'[i + 1] = line[i + 2]
                           /\ pc'[line[i + 2]] = pc[line[i + 2]]
          <6>1. i # n - 1 => /\ i + 1 \in 1..(n - 1) /\ (i + 1) + 1 = i + 2
                             /\ i + 2 \in 2..n
            BY <3>1
          <6> QED
            BY <3>1, <3>4, <3>5, <3>6, <6>1
        <5>7. After(i)'
          BY <3>2, <3>5, <5>1, <5>2, <5>6 DEF After
        <5>8. is_owner'[line[i + 1]] => is_owner[line[i + 1]] \/ i = 1
          <6>1. i # 1 => line[i + 1] # line[2]
            BY <3>1, <4>4, <5>1 DEF Distinct
          <6> QED
            BY <4>1, <4>3, <5>2, <6>1 DEF TypeOK
        <5>9. First(i)'
          BY <3>2, <3>6, <5>1, <5>2, <5>3, <5>8 DEF First
        <5> QED
          BY <5>5, <5>7, <5>9
      <4>8. Listed'
        BY <3>5, <4>7 DEF Listed
      <4> QED
        BY <3>7, <3>8, <4>5, <4>6, <4>8
    <3> QED
      BY <3>9, <3>10
  <2>4. CASE UNCHANGED vars
    BY <2>4 DEF vars, IInv, TypeOK, Distinct, InLine, TailIsLast, Listed, Before, After, First
  <2> QED
    BY <2>1, <2>2, <2>3, <2>4, Zenon DEF Next, Step, Inside
<1> QED
  BY <1>1, <1>2


-----------------------------------------------------------------------------

(* The lock is held by the first in line: at most one thread is between the    *)
(* return of Acquire() and the end of Release(), and threads pass in the order  *)
(* of their exchange of tail_.                                               *)
THEOREM FirstComeFirstServed ==
  ASSUME Null \notin Threads
  PROVE  Spec => []InTurn
<1>1. IInv => InTurn
  <2> SUFFICES ASSUME IInv, NEW t \in Threads, pc[t] \in Releasing PROVE t = Head(line)
    BY DEF InTurn
  <2>1. PICK i \in 1..Len(line) : line[i] = t
    BY DEF IInv, InLine, Releasing
  <2>2. i = 1
    BY <2>1 DEF IInv, Listed, First
  <2> QED
    BY <2>1, <2>2 DEF IInv, TypeOK
<1> QED
  BY <1>1, IInvInductive, PTL DEF Spec

(* Neither Acquire() nor Release() ever writes to a guard whose thread has left *)
(* Release(), where the guard on its stack is gone.                           *)
THEOREM GuardsAreLive ==
  ASSUME Null \notin Threads
  PROVE  Spec => []TouchesLiveGuards
<1>1. IInv => TouchesLiveGuards
  <2> SUFFICES ASSUME IInv, NEW t \in Threads
               PROVE  /\ pc[t] = "link" => \E i \in 2..Len(line) :
                                              line[i] = t /\ line[i - 1] = prev[t]
                      /\ pc[t] = "hand" => Len(line) > 1 /\ next[t] = line[2]
    BY DEF TouchesLiveGuards
  <2>1. Len(line) \in Nat
    BY Places DEF IInv
  <2>2. ASSUME pc[t] # "idle"
        PROVE  \E i \in 1..Len(line) : line[i] = t /\ Before(i) /\ After(i) /\ First(i)
    BY <2>2 DEF IInv, InLine, Listed
  <2>3. CASE pc[t] = "link"
    <3>1. PICK i \in 1..Len(line) : line[i] = t /\ Before(i) /\ First(i)
      BY <2>2, <2>3
    <3>2. i # 1 /\ line[i - 1] = prev[t]
      BY <2>3, <3>1 DEF Before, First, Linking
    <3>3. i \in 2..Len(line)
      BY <2>1, <3>2
    <3> QED
      BY <2>3, <3>1, <3>2, <3>3
  <2>4. CASE pc[t] = "hand"
    <3>1. PICK i \in 1..Len(line) : line[i] = t /\ After(i) /\ First(i)
      BY <2>2, <2>4
    <3>2. i = 1 /\ next[t] # Null
      BY <2>4, <3>1 DEF First, Releasing
    <3>3. Len(line) # 1 /\ next[t] = line[2]
      BY <3>1, <3>2 DEF After
    <3> QED
      BY <2>1, <2>4, <3>3
  <2> QED
    BY <2>3, <2>4
<1> QED
  BY <1>1, IInvInductive, PTL DEF Spec

(* The lock implements the abstract one: Acquire() calls with its exchange of  *)
(* tail_ and has the lock when its flag is up, Release() gives it up with the   *)
(* step that empties tail_ or raises the next flag.                          *)
THEOREM Refinement ==
  ASSUME Null \notin Threads
  PROVE  Spec => ImplementsLock
<1>1. Init => Lock!Init
  BY DEF Init, Lock!Init, lockState, Releasing
<1>2. ASSUME IInv, [Next]_vars PROVE [Lock!Next]_lockState
  <2> USE <1>2 DEF lockState, Goto, Releasing, IInv, TypeOK
  <2>1. ASSUME NEW t \in Threads, Exchange(t) PROVE Lock!Next
    <3>1. Lock!Call(t)
      BY <2>1 DEF Exchange, Lock!Call
    <3> QED
      BY <3>1 DEF Lock!Next
  <2>2. ASSUME NEW t \in Threads, Flag(t) \/ Link(t) \/ LookNext(t) \/ (Leave(t) /\ tail # t)
        PROVE  UNCHANGED lockState
    BY <2>2 DEF Flag, Link, LookNext, Leave
  <2>3. ASSUME NEW t \in Threads, Pass(t) PROVE Lock!Next
    <3>1. PICK i \in 1..Len(line) : line[i] = t /\ First(i)
      BY <2>3 DEF Pass, InLine, Listed
    <3>2. line[1] = t
      BY <2>3, <3>1 DEF Pass, First
    <3>3. ASSUME NEW u \in Threads, pc[u] \in Releasing PROVE FALSE
      <4>1. PICK j \in 1..Len(line) : line[j] = u /\ First(j)
        BY <3>3 DEF InLine, Listed
      <4>2. u = t
        BY <3>2, <3>3, <4>1 DEF First
      <4> QED
        BY <2>3, <3>3, <4>2 DEF Pass
    <3>4. Lock!Acquire(t)
      BY <2>3, <3>3 DEF Pass, Lock!Acquire, Lock!Free
    <3> QED
      BY <3>4 DEF Lock!Next
  <2>4. ASSUME NEW t \in Threads, Hand(t) \/ (Leave(t) /\ tail = t) PROVE Lock!Next
    <3>1. Lock!Release(t)
      BY <2>4 DEF Hand, Leave, Lock!Release
    <3> QED
      BY <3>1 DEF Lock!Next
  <2>5. CASE UNCHANGED vars
    BY <2>5 DEF vars
  <2> QED
    BY <2>1, <2>2, <2>3, <2>4, <2>5 DEF Next, Step
<1> QED
  BY <1>1, <1>2, IInvInductive, PTL DEF Spec, ImplementsLock, Lock!Spec
=============================================================================
