---------------------------- MODULE MCSyncProofs ----------------------------
(* Proofs about what MCSync checks, for any sets of threads and, for the        *)
(* condition variable, any ring of cells.                                     *)
EXTENDS MCSync, FiniteSetTheorems, TLAPS

-----------------------------------------------------------------------------
(* The condition variable.                                                   *)

WaiterAt   == Cond!InWait \cup {"idle", "inside"}
NotifierAt == {"idle", "check", "again", "loop", "draw", "set", "wake"}

CondTypes ==
  /\ c_t \in 0..Tickets /\ c_h \in Nat
  /\ c_cell \in [0..Ring - 1 -> {0, 1}]
  /\ c_mtx \in Pair \cup {Null}
  /\ c_pc \in [Pair \cup Other -> WaiterAt \cup NotifierAt]
  /\ \A w \in Pair : c_pc[w] \in WaiterAt
  /\ \A n \in Other : c_pc[n] \in NotifierAt
  /\ c_tail \in [Pair -> 0..Tickets]
  /\ c_head \in [Other -> Nat]
  /\ c_all \in [Other -> BOOLEAN]
  /\ c_goal \in [Other -> 0..Tickets]

(* The notifiers that may draw a ticket while t_ is k: as long as h_ has not     *)
(* passed k all of them may, and then only those who have looked before.        *)
Drawing(k) ==
  {n \in Other : c_pc[n] = "draw" \/ (c_pc[n] \in {"check", "loop"} /\ c_head[n] < k)}

NotFarAhead ==
  \A k \in Nat : k >= c_t => c_h + Cardinality(Drawing(k)) <= k + Cardinality(Other) - 1

Looked == \A n \in Other : c_head[n] <= c_h /\ c_goal[n] <= c_t

(* Every waiter has a ticket of its own. *)
OwnTicket ==
  \A w \in Pair : c_pc[w] \in Cond!InWait =>
    /\ c_tail[w] < c_t
    /\ \A v \in Pair : c_pc[v] \in Cond!InWait /\ c_tail[v] = c_tail[w] => v = w

(* A ticket that a notifier has drawn is up in its cell or about to be, until    *)
(* the waiter who draws it, be it after the notifier, resets the cell: as long   *)
(* as nobody else resets it.                                                   *)
Raised(k) == c_cell[Cond!Cell(k)] = 1 \/ \E n \in Other : c_pc[n] = "set" /\ c_head[n] = k

Sleepy == {"unlock", "wait", "asleep", "lock"}

Unused(k) ==
  k >= c_t \/ \E w \in Pair : c_pc[w] \in Sleepy /\ c_tail[w] = k

UpToDate == \A k \in Nat : k < c_h /\ Unused(k) => Raised(k)

CondInv == CondTypes /\ NotFarAhead /\ Looked /\ OwnTicket

WaiterStep(w) ==
  Cond!Enter(w) \/ Cond!Leave(w) \/ Cond!Ticket(w) \/ Cond!WaitStep(w) \/ Cond!SpuriousWake(w)

(* CondInv holds whatever happens to the cells; that they are up to date is kept *)
(* by every step from a state in which the cells in use are apart.              *)
LEMMA CondInductive ==
  /\ Init => CondInv /\ UpToDate
  /\ CondInv /\ [Next]_vars => CondInv'
  /\ CondInv /\ UpToDate /\ Cond!CellsApart /\ [Next]_vars => UpToDate'
<1>0. \A k \in Nat : Cond!Cell(k) \in 0..Ring - 1
  BY RingAssumption DEF Cond!Cell
<1>1. ASSUME Init PROVE CondInv /\ UpToDate
  <2>1. Cond!Init
    BY <1>1 DEF Init
  <2>2. CondTypes /\ Looked /\ OwnTicket /\ UpToDate
    BY <2>1, SyncAssumption, RingAssumption
       DEF Cond!Init, CondTypes, Looked, OwnTicket, UpToDate, WaiterAt, NotifierAt, Cond!InWait
  <2>3. Drawing(0) = {} /\ \A k : Drawing(k) = {}
    BY <2>1, SyncAssumption DEF Cond!Init, Drawing
  <2>4. /\ Cardinality(Other) \in Nat /\ Cardinality(Other) # 0
        /\ \A k : Cardinality(Drawing(k)) = 0
    BY <2>3, SyncAssumption, FS_CardinalityType, FS_EmptySet
  <2>5. ASSUME NEW k \in Nat PROVE 0 + Cardinality(Drawing(k)) <= k + Cardinality(Other) - 1
    BY <2>4
  <2>6. NotFarAhead
    BY <2>1, <2>5 DEF Cond!Init, NotFarAhead
  <2> QED
    BY <2>2, <2>6 DEF CondInv
<1>2. ASSUME CondInv, NEW w \in Pair, WaiterStep(w)
      PROVE  CondInv' /\ (UpToDate /\ Cond!CellsApart => UpToDate')
  <2> USE <1>2, SyncAssumption, RingAssumption DEF CondInv
  <2>0. /\ c_t \in Nat /\ c_t \in 0..Tickets /\ c_h \in Nat /\ Tickets \in Nat /\ Ring \in Nat
        /\ c_tail \in [Pair -> 0..Tickets] /\ c_tail[w] \in 0..Tickets
        /\ c_pc \in [Pair \cup Other -> WaiterAt \cup NotifierAt] /\ c_pc[w] \in WaiterAt
        /\ w \notin Other
    BY DEF CondTypes
  <2>1. /\ c_h' = c_h /\ c_head' = c_head /\ c_all' = c_all /\ c_goal' = c_goal
        /\ c_mtx' \in {c_mtx, w, Null}
        /\ \E to \in WaiterAt : c_pc' = [c_pc EXCEPT ![w] = to]
    BY Zenon DEF WaiterAt, Cond!InWait, WaiterStep, Cond!Enter, Cond!Leave, Cond!SpuriousWake, Cond!Ticket, Cond!WaitStep,
       Cond!Unlock, Cond!Sleep, Cond!Relock, Cond!Reset, Cond!Goto
  <2>2. \/ /\ c_t' = c_t /\ c_tail' = c_tail /\ c_cell' = c_cell
           /\ c_pc'[w] \in Cond!InWait => c_pc[w] \in Cond!InWait
           /\ c_pc'[w] \in Sleepy => c_pc[w] \in Sleepy
        \/ /\ c_t' = c_t + 1 /\ c_t < Tickets /\ c_tail' = [c_tail EXCEPT ![w] = c_t] /\ c_cell' = c_cell
           /\ c_pc[w] = "inside"
        \/ /\ c_t' = c_t /\ c_tail' = [c_tail EXCEPT ![w] = 0] /\ c_pc[w] = "reset" /\ c_pc'[w] = "inside"
           /\ c_cell' = [c_cell EXCEPT ![Cond!Cell(c_tail[w])] = 0]
    BY <2>0 DEF WaiterStep, Cond!Enter, Cond!Leave, Cond!SpuriousWake, Cond!Ticket, Cond!WaitStep,
       Cond!Unlock, Cond!Sleep, Cond!Relock, Cond!Reset, Cond!Goto, Cond!InWait, Sleepy
  <2>3. /\ \A n \in Other : c_pc'[n] = c_pc[n]
        /\ \A v \in Pair \ {w} : c_pc'[v] = c_pc[v] /\ c_tail'[v] = c_tail[v]
        /\ c_t' \in Nat /\ c_t' \in 0..Tickets /\ c_t <= c_t'
    BY <2>0, <2>1, <2>2
  <2>5. CondTypes'
    <3>1. c_pc' \in [Pair \cup Other -> WaiterAt \cup NotifierAt] /\ \A v \in Pair : c_pc'[v] \in WaiterAt
      BY <2>0, <2>1, <2>3 DEF CondTypes
    <3>2. c_tail' \in [Pair -> 0..Tickets]
      <4>1. 0 \in 0..Tickets
        BY <2>0
      <4> QED
        BY <2>0, <2>2, <4>1, Zenon
    <3>3. c_cell' \in [0..Ring - 1 -> {0, 1}]
      BY <2>2, Zenon DEF CondTypes
    <3> QED
      BY <2>1, <2>3, <3>1, <3>2, <3>3 DEF CondTypes
  <2>6. NotFarAhead' /\ Looked'
    <3>1. \A k : Drawing(k)' = Drawing(k)
      BY <2>1, <2>3 DEF Drawing
    <3>2. \A k \in Nat : k >= c_t' => k >= c_t
      BY <2>0, <2>3
    <3>3. Looked'
      BY <2>1, <2>3 DEF Looked, CondTypes
    <3> QED
      BY <2>1, <3>1, <3>2, <3>3 DEF NotFarAhead
  <2>7. OwnTicket'
    <3>1. CASE c_t' = c_t + 1 /\ c_tail' = [c_tail EXCEPT ![w] = c_t]
      BY <2>0, <2>3, <3>1 DEF OwnTicket, CondTypes
    <3>2. CASE /\ c_t' = c_t /\ \A v \in Pair : c_pc'[v] \in Cond!InWait =>
                  c_pc[v] \in Cond!InWait /\ c_tail'[v] = c_tail[v]
      BY <3>2 DEF OwnTicket
    <3> QED
      BY <2>2, <2>3, <3>1, <3>2 DEF Cond!InWait
  <2>8. ASSUME UpToDate, Cond!CellsApart PROVE UpToDate'
    <3> SUFFICES ASSUME NEW k \in Nat, k < c_h, Unused(k)' PROVE Raised(k)'
      BY <2>1 DEF UpToDate
    <3>1. Unused(k)
      BY <2>0, <2>2, <2>3 DEF Unused, Sleepy
    <3>2. Raised(k)
      BY <2>8, <3>1 DEF UpToDate
    <3>3. c_pc[w] = "reset" => Cond!Cell(k) # Cond!Cell(c_tail[w])
      <4> SUFFICES ASSUME c_pc[w] = "reset" PROVE Cond!Cell(k) # Cond!Cell(c_tail[w])
        OBVIOUS
      <4>1. k # c_tail[w]
        BY <2>0, <3>1 DEF Unused, Sleepy, OwnTicket, Cond!InWait
      <4>2. k \in Cond!InUse
        BY <2>0, <3>1 DEF Cond!InUse, Unused, Sleepy, Cond!InWait
      <4> QED
        BY <2>8, <4>1, <4>2 DEF Cond!CellsApart, Cond!InWait
    <3>4. c_cell'[Cond!Cell(k)] = c_cell[Cond!Cell(k)]
      BY <1>0, <2>2, <3>3 DEF CondTypes
    <3> QED
      BY <2>1, <2>3, <3>2, <3>4 DEF Raised
  <2> QED
    BY <2>5, <2>6, <2>7, <2>8

<1>3. ASSUME CondInv, NEW n \in Other, Cond!Notify(n) \/ Cond!NotifyStep(n)
      PROVE  CondInv' /\ (UpToDate => UpToDate')
  <2> USE <1>3, SyncAssumption, RingAssumption DEF CondInv
  <2>0. /\ c_t \in Nat /\ c_t \in 0..Tickets /\ c_h \in Nat /\ Tickets \in Nat /\ Ring \in Nat
        /\ c_head \in [Other -> Nat] /\ c_head[n] \in Nat /\ c_head[n] <= c_h
        /\ c_goal \in [Other -> 0..Tickets] /\ c_goal[n] <= c_t
        /\ c_pc \in [Pair \cup Other -> WaiterAt \cup NotifierAt] /\ c_pc[n] \in NotifierAt
        /\ c_all \in [Other -> BOOLEAN]
        /\ n \notin Pair
    BY DEF CondTypes, Looked
  <2> DEFINE
    Moves(to) == c_pc' = [c_pc EXCEPT ![n] = to]
    Recalls(k, g) == c_head' = [c_head EXCEPT ![n] = k] /\ c_goal' = [c_goal EXCEPT ![n] = g]
    Looks == /\ c_h' = c_h /\ c_cell' = c_cell /\ c_pc[n] # "set"
             /\ \/ \E to \in {"check", "loop"} : Moves(to) /\ \E g \in {0, c_t, c_goal[n]} : Recalls(c_h, g)
                \/ Moves("idle") /\ Recalls(0, 0)
                \/ Moves("again") /\ Recalls(c_head[n], c_goal[n])
                \/ c_head[n] < c_t /\ c_pc[n] \in {"check", "loop"} /\ Moves("draw") /\ Recalls(c_head[n], c_goal[n])
    Draws == /\ c_h' = c_h + 1 /\ c_cell' = c_cell /\ c_pc[n] = "draw"
             /\ Moves("set") /\ Recalls(c_h, c_goal[n])
    Sets  == /\ c_h' = c_h /\ c_cell' = [c_cell EXCEPT ![Cond!Cell(c_head[n])] = 1] /\ c_pc[n] = "set"
             /\ Moves("wake") /\ Recalls(c_head[n], c_goal[n])
    Wakes == /\ c_h' = c_h /\ c_cell' = c_cell /\ c_pc[n] = "wake" /\ Recalls(0, c_goal[n])
             /\ \E W \in SUBSET Cond!Asleep(Cond!Cell(c_head[n])), to \in {"idle", "again"} :
                  c_pc' = [p \in Pair \cup Other |-> IF p \in W THEN "wait" ELSE IF p = n THEN to ELSE c_pc[p]]
  <2>1. /\ c_t' = c_t /\ c_tail' = c_tail /\ c_mtx' = c_mtx /\ c_all' \in [Other -> BOOLEAN]
        /\ Looks \/ Draws \/ Sets \/ Wakes
    <3> USE <2>0
    <3>1. c_head = [c_head EXCEPT ![n] = c_head[n]] /\ c_goal = [c_goal EXCEPT ![n] = c_goal[n]]
      OBVIOUS
    <3>2. CASE Cond!Notify(n)
      <4>1. PICK b \in BOOLEAN : /\ c_all' = [c_all EXCEPT ![n] = b]
                                 /\ c_goal' = [c_goal EXCEPT ![n] = IF b THEN c_t ELSE 0]
        BY <3>2 DEF Cond!Notify
      <4>2. \E g \in {0, c_t, c_goal[n]} : c_goal' = [c_goal EXCEPT ![n] = g]
        BY <4>1
      <4>3. Looks
        BY <3>2, <4>2 DEF Cond!Notify, Cond!Goto
      <4>4. c_all' \in [Other -> BOOLEAN]
        BY <4>1, Zenon
      <4>5. c_t' = c_t /\ c_tail' = c_tail /\ c_mtx' = c_mtx
        BY <3>2 DEF Cond!Notify
      <4> HIDE DEF Looks
      <4> QED
        BY <4>3, <4>4, <4>5
    <3>3. CASE Cond!Check(n)
      <4>1. c_pc[n] = "check" /\ UNCHANGED <<c_t, c_h, c_cell, c_mtx, c_tail>>
        BY <3>3 DEF Cond!Check
      <4>2. CASE c_head[n] >= c_t
        BY <3>3, <4>1, <4>2 DEF Cond!Check, Cond!Return, Cond!Goto
      <4>3. CASE ~(c_head[n] >= c_t)
        <5>1. /\ Moves(IF c_all[n] THEN "again" ELSE "draw")
              /\ c_head' = c_head /\ c_all' = c_all /\ c_goal' = c_goal
          BY <3>3, <4>3 DEF Cond!Check, Cond!GoOn, Cond!Goto
        <5>2. c_head[n] < c_t
          BY <4>3
        <5> QED
          BY <3>1, <4>1, <5>1, <5>2
      <4> QED
        BY <4>2, <4>3
    <3>4. CASE Cond!Again(n)
      BY <3>1, <3>4 DEF Cond!Again, Cond!Goto
    <3>5. CASE Cond!Loop(n)
      BY <3>1, <3>5 DEF Cond!Loop, Cond!Return, Cond!GoOn, Cond!Goto
    <3>6. CASE Cond!Draw(n)
      BY <3>1, <3>6 DEF Cond!Draw, Cond!Goto
    <3>7. CASE Cond!Set(n)
      BY <3>1, <3>7 DEF Cond!Set, Cond!Goto
    <3>8. CASE Cond!Wake(n)
      <4>1. PICK W \in Cond!Woken(n) :
              c_pc' = [p \in DOMAIN c_pc |-> IF p \in W THEN "wait"
                                             ELSE IF p # n THEN c_pc[p]
                                             ELSE IF c_all[n] THEN "again" ELSE "idle"]
        BY <3>8 DEF Cond!Wake
      <4>2. W \in SUBSET Cond!Asleep(Cond!Cell(c_head[n]))
        BY DEF Cond!Woken
      <4>3. \E to \in {"idle", "again"} :
              c_pc' = [p \in Pair \cup Other |-> IF p \in W THEN "wait" ELSE IF p = n THEN to ELSE c_pc[p]]
        BY <4>1
      <4> QED
        BY <3>1, <3>8, <4>2, <4>3, Zenon DEF Cond!Wake
    <3> QED
      BY <3>2, <3>3, <3>4, <3>5, <3>6, <3>7, <3>8 DEF Cond!NotifyStep
  <2>2. /\ c_t' \in Nat /\ c_h' \in Nat /\ c_h <= c_h'
        /\ c_head' \in [Other -> Nat] /\ c_goal' \in [Other -> 0..Tickets]
        /\ c_head'[n] <= c_h' /\ c_goal'[n] <= c_t
        /\ \A m \in Other \ {n} : c_head'[m] = c_head[m] /\ c_goal'[m] = c_goal[m]
    <3>1. 0 \in 0..Tickets /\ c_goal[n] \in 0..Tickets
      BY <2>0
    <3>2. CASE Looks
      BY <2>0, <2>1, <3>1, <3>2
    <3>3. CASE Draws
      BY <2>0, <2>1, <3>1, <3>3
    <3>4. CASE Sets \/ Wakes
      BY <2>0, <2>1, <3>1, <3>4
    <3> QED
      BY <2>1, <3>2, <3>3, <3>4
  <2>3. /\ c_pc' \in [Pair \cup Other -> WaiterAt \cup NotifierAt] /\ c_pc'[n] \in NotifierAt
        /\ \A m \in Other \ {n} : c_pc'[m] = c_pc[m]
        /\ \A w \in Pair : c_pc'[w] = c_pc[w] \/ (c_pc[w] = "asleep" /\ c_pc'[w] = "wait")
    <3> USE DEF NotifierAt
    <3>1. CASE \E to \in NotifierAt : Moves(to)
      BY <2>0, <3>1
    <3>2. CASE Wakes
      BY <2>0, <3>2 DEF Cond!Asleep, WaiterAt, Cond!InWait
    <3> QED
      BY <2>1, <3>1, <3>2
  <2>4. c_cell' \in [0..Ring - 1 -> {0, 1}]
    BY <2>1, Zenon DEF CondTypes
  <2>5. CondTypes'
    <3>1. \A w \in Pair : c_pc'[w] \in WaiterAt
      BY <2>3 DEF CondTypes, WaiterAt, Cond!InWait
    <3>2. \A m \in Other : c_pc'[m] \in NotifierAt
      BY <2>3 DEF CondTypes
    <3> QED
      BY <2>0, <2>1, <2>2, <2>3, <2>4, <3>1, <3>2, Zenon DEF CondTypes
  <2>6. Looked'
    <3>1. \A m \in Other \ {n} : c_head[m] \in Nat /\ c_head[m] <= c_h /\ c_goal[m] <= c_t
      BY DEF Looked, CondTypes
    <3> QED
      BY <2>0, <2>1, <2>2, <3>1 DEF Looked
  <2>7. OwnTicket'
    <3>1. \A w \in Pair : c_pc'[w] \in Cond!InWait <=> c_pc[w] \in Cond!InWait
      BY <2>3 DEF Cond!InWait
    <3> QED
      BY <2>1, <3>1 DEF OwnTicket
  <2>8. NotFarAhead'
    <3> SUFFICES ASSUME NEW k \in Nat, k >= c_t
                 PROVE  c_h' + Cardinality(Drawing(k)') <= k + Cardinality(Other) - 1
      BY <2>1 DEF NotFarAhead
    <3>1. c_h + Cardinality(Drawing(k)) <= k + Cardinality(Other) - 1
      BY DEF NotFarAhead
    <3>2. /\ IsFiniteSet(Drawing(k)) /\ IsFiniteSet(Other)
          /\ Drawing(k)' \subseteq Other
      <4>1. Drawing(k) \subseteq Other /\ Drawing(k)' \subseteq Other
        BY DEF Drawing
      <4> QED
        BY <4>1, FS_Subset
    <3>3. /\ Cardinality(Drawing(k)) \in Nat /\ Cardinality(Drawing(k)') \in Nat
          /\ Cardinality(Other) \in Nat
          /\ Cardinality(Drawing(k)') <= Cardinality(Other)
      BY <3>2, FS_Subset, FS_CardinalityType
    <3>4. CASE c_h' = c_h /\ Drawing(k)' \subseteq Drawing(k)
      <4>1. Cardinality(Drawing(k)') <= Cardinality(Drawing(k))
        BY <3>2, <3>4, FS_Subset
      <4> QED
        BY <2>0, <3>1, <3>3, <3>4, <4>1
    <3>5. CASE c_h' = c_h /\ c_h < k
      BY <2>0, <3>3, <3>5
    <3>6. CASE Draws
      <4>1. Drawing(k)' = Drawing(k) \ {n} /\ n \in Drawing(k)
        BY <2>0, <2>2, <2>3, <3>6 DEF Drawing
      <4>2. Cardinality(Drawing(k)') = Cardinality(Drawing(k)) - 1
        BY <3>2, <4>1, FS_RemoveElement
      <4> QED
        BY <2>0, <3>1, <3>3, <3>6, <4>2
    <3>7. CASE Looks \/ Sets \/ Wakes
      <4>1. c_h' = c_h
        BY <3>7
      <4>2. n \in Drawing(k)' => n \in Drawing(k) \/ c_h < k
        BY <2>0, <2>2, <3>7 DEF Drawing
      <4>3. \A m \in Other \ {n} : m \in Drawing(k)' <=> m \in Drawing(k)
        BY <2>2, <2>3 DEF Drawing
      <4>4. Drawing(k)' \subseteq Drawing(k) \/ c_h < k
        BY <3>2, <4>2, <4>3, Zenon
      <4> QED
        BY <3>4, <3>5, <4>1, <4>4
    <3> QED
      BY <2>1, <3>6, <3>7
  <2>9. ASSUME UpToDate PROVE UpToDate'
    <3> SUFFICES ASSUME NEW k \in Nat, k < c_h', Unused(k)' PROVE Raised(k)'
      BY DEF UpToDate
    <3>1. Unused(k)
      BY <2>1, <2>3 DEF Unused, Sleepy
    <3>2. CASE Draws
      <4>1. k < c_h => Raised(k)
        BY <2>9, <3>1 DEF UpToDate
      <4>2. k < c_h \/ k = c_h
        BY <2>0, <3>2
      <4>3. c_pc'[n] = "set" /\ c_head'[n] = c_h
        BY <2>0, <3>2
      <4> QED
        BY <2>2, <2>3, <3>2, <4>1, <4>2, <4>3 DEF Raised
    <3>3. CASE Sets
      <4>1. Raised(k)
        BY <2>9, <3>1, <3>3 DEF UpToDate
      <4>2. Cond!Cell(k) \in 0..Ring - 1
        BY <1>0
      <4>3. c_cell' = [c_cell EXCEPT ![Cond!Cell(c_head[n])] = 1]
        BY <3>3
      <4>4. \/ c_cell'[Cond!Cell(k)] = 1
            \/ c_cell'[Cond!Cell(k)] = c_cell[Cond!Cell(k)] /\ c_head[n] # k
        BY <4>2, <4>3 DEF CondTypes
      <4> QED
        BY <2>2, <2>3, <4>1, <4>4 DEF Raised
    <3>4. CASE Looks \/ Wakes
      <4>1. Raised(k)
        BY <2>9, <3>1, <3>4 DEF UpToDate
      <4>2. c_cell' = c_cell /\ c_pc[n] # "set"
        BY <3>4
      <4> QED
        BY <2>2, <2>3, <4>1, <4>2 DEF Raised
    <3> QED
      BY <2>1, <3>2, <3>3, <3>4
  <2> QED
    BY <2>5, <2>6, <2>7, <2>8, <2>9
<1>4. ASSUME CondInv, UNCHANGED condVars PROVE CondInv' /\ (UpToDate => UpToDate')
  <2>1. CondInv'
    BY <1>4 DEF condVars, CondInv, CondTypes, NotFarAhead, Drawing, Looked, OwnTicket
  <2>2. UpToDate => UpToDate'
    BY <1>4 DEF condVars, UpToDate, Raised, Unused
  <2> QED
    BY <2>1, <2>2
<1>5. ASSUME [Next]_vars
      PROVE  \/ UNCHANGED condVars \/ \E w \in Pair : WaiterStep(w)
             \/ \E n \in Other : Cond!Notify(n) \/ Cond!NotifyStep(n)
  BY <1>5 DEF Next, vars, LockOnly, CondOnly, GroupOnly, QueueOnly, BarrierOnly, FutureOnly, DiningOnly,
     Cond!Next, WaiterStep, condVars
<1> QED
  BY <1>1, <1>2, <1>3, <1>4, <1>5

(* h_ runs ahead of t_ by fewer tickets than there are notifiers, and a waiter   *)
(* whose ticket has been drawn finds its cell raised, or about to be, although   *)
(* notifiers draw and raise in two steps that overlap and cells are used again:  *)
(* as long as no waiter is still in Wait() when its cell comes round.           *)
THEOREM NotificationsReach == Spec => NotificationsAreKept
<1>1. CondInv => Cond!TypeOK
  <2> SUFFICES ASSUME CondInv PROVE Cond!TypeOK
    OBVIOUS
  <2> USE SyncAssumption, RingAssumption DEF CondInv
  <2>1. /\ c_t \in Nat /\ c_h \in Nat /\ Tickets \in Nat /\ c_t <= Tickets
        /\ Cardinality(Other) \in Nat
    BY FS_CardinalityType DEF CondTypes
  <2>2. c_h <= c_t + Cardinality(Other) - 1
    <3>1. c_h + Cardinality(Drawing(c_t)) <= c_t + Cardinality(Other) - 1
      BY <2>1 DEF NotFarAhead
    <3>2. Cardinality(Drawing(c_t)) \in Nat
      <4>1. Drawing(c_t) \subseteq Other
        BY DEF Drawing
      <4> QED
        BY <4>1, FS_Subset, FS_CardinalityType
    <3> QED
      BY <2>1, <3>1, <3>2
  <2>3. ASSUME NEW n \in Other PROVE c_head[n] \in 0..Tickets + Cardinality(Other)
    <3>1. c_head[n] \in Nat /\ c_head[n] <= c_h
      BY DEF CondTypes, Looked
    <3> QED
      BY <2>1, <2>2, <3>1
  <2>4. c_h \in 0..c_t + Cardinality(Other) - 1
    BY <2>1, <2>2
  <2>5. /\ \A w \in Pair : c_pc[w] \in Cond!InWait \cup {"idle", "inside"} /\ c_tail[w] \in 0..Tickets
        /\ \A n \in Other : /\ c_pc[n] \in {"idle", "check", "again", "loop", "draw", "set", "wake"}
                            /\ c_goal[n] \in 0..Tickets
    BY DEF CondTypes, WaiterAt, NotifierAt
  <2>6. /\ c_t \in 0..Tickets /\ c_cell \in [0..Ring - 1 -> {0, 1}]
        /\ c_mtx \in Pair \cup {Null} /\ c_all \in [Other -> BOOLEAN]
    BY DEF CondTypes
  <2> QED
    <3>1. \A n \in Other : /\ c_pc[n] \in {"idle", "check", "again", "loop", "draw", "set", "wake"}
                           /\ c_head[n] \in 0..Tickets + Cardinality(Other)
                           /\ c_goal[n] \in 0..Tickets
      BY <2>3, <2>5, Zenon
    <3>2. Cond!Cardinality(Other) = Cardinality(Other)
      BY DEF Cond!Cardinality, Cardinality, IsFiniteSet, Cond!IsFiniteSet
    <3> QED
      BY <2>4, <2>5, <2>6, <3>1, <3>2, Zenon DEF Cond!TypeOK
<1>2. CondInv /\ UpToDate => Cond!NotifiedCellIsUp
  <2> SUFFICES ASSUME CondInv, UpToDate, NEW w \in Pair, c_pc[w] \in Sleepy, c_tail[w] < c_h
               PROVE  \/ c_cell[Cond!Cell(c_tail[w])] = 1
                      \/ \E n \in Other : c_pc[n] = "set" /\ c_head[n] = c_tail[w]
    BY DEF Cond!NotifiedCellIsUp, Sleepy
  <2>1. c_tail[w] \in Nat /\ Unused(c_tail[w])
    BY DEF CondInv, CondTypes, Unused
  <2> QED
    BY <2>1 DEF UpToDate, Raised
<1> QED
  BY <1>1, <1>2, CondInductive, PTL DEF Spec, NotificationsAreKept, Cond!NotificationsAreKept

(* NotifyOne() and NotifyAll() return without a wake-up only if everybody who     *)
(* waits has been notified, and NotifyAll() does not leave out one of those who   *)
(* waited when it was called, although it reads the counters one by one.        *)
THEOREM NobodyIsLeftOut == Spec => NobodyIsForgotten
<1> DEFINE
  Complete(n) ==
    /\ c_pc[n] = "check" /\ c_pc'[n] = "idle" => c_h >= c_t
    /\ c_pc[n] # "idle" /\ c_pc'[n] = "idle" /\ c_all[n] => c_h >= c_goal[n]
<1>1. ASSUME CondInv, [Next]_vars, NEW n \in Other PROVE Complete(n)
  <2> USE <1>1, SyncAssumption, RingAssumption DEF CondInv
  <2>1. /\ c_t \in Nat /\ c_h \in Nat /\ c_head[n] \in Nat /\ c_goal[n] \in Nat
        /\ c_head[n] <= c_h /\ c_goal[n] <= c_t
    BY DEF CondTypes, Looked
  <2>2. CASE c_pc'[n] = c_pc[n]
    BY <2>2
  <2>3. CASE Cond!Check(n) \/ Cond!Loop(n)
    <3>1. c_pc'[n] = "idle" => c_head[n] >= c_t
      BY <2>3 DEF Cond!Check, Cond!Loop, Cond!GoOn, Cond!Goto, CondTypes
    <3> QED
      BY <2>1, <3>1
  <2>4. CASE Cond!Notify(n) \/ Cond!Again(n) \/ Cond!Draw(n) \/ Cond!Set(n)
    BY <2>4 DEF Cond!Notify, Cond!Again, Cond!Draw, Cond!Set, Cond!GoOn, Cond!Goto, CondTypes
  <2>5. CASE Cond!Wake(n)
    <3>1. PICK W \in Cond!Woken(n) :
            c_pc' = [p \in DOMAIN c_pc |-> IF p \in W THEN "wait"
                                           ELSE IF p # n THEN c_pc[p]
                                           ELSE IF c_all[n] THEN "again" ELSE "idle"]
      BY <2>5 DEF Cond!Wake
    <3>2. n \notin W
      BY DEF Cond!Woken, Cond!Asleep
    <3> QED
      BY <2>5, <3>1, <3>2 DEF Cond!Wake, CondTypes
  <2>6. CASE Cond!Notify(n) \/ Cond!NotifyStep(n)
    BY <2>3, <2>4, <2>5, <2>6 DEF Cond!NotifyStep
  <2>7. ASSUME NEW w \in Pair, WaiterStep(w) PROVE c_pc'[n] = c_pc[n]
    BY <2>7 DEF WaiterStep, Cond!Enter, Cond!Leave, Cond!SpuriousWake, Cond!Ticket, Cond!WaitStep,
       Cond!Unlock, Cond!Sleep, Cond!Relock, Cond!Reset, Cond!Goto, CondTypes
  <2>8. ASSUME NEW m \in Other \ {n}, Cond!Notify(m) \/ Cond!NotifyStep(m) PROVE c_pc'[n] = c_pc[n]
    <3>1. CASE Cond!Wake(m)
      BY <3>1 DEF Cond!Wake, Cond!Woken, Cond!Asleep, CondTypes
    <3>2. CASE ~Cond!Wake(m)
      BY <2>8, <3>2 DEF Cond!Notify, Cond!NotifyStep, Cond!Check, Cond!Again, Cond!Loop, Cond!Draw,
         Cond!Set, Cond!Return, Cond!GoOn, Cond!Goto, CondTypes
    <3> QED
      BY <3>1, <3>2
  <2>9. \/ UNCHANGED condVars \/ \E w \in Pair : WaiterStep(w)
        \/ \E m \in Other : Cond!Notify(m) \/ Cond!NotifyStep(m)
    BY DEF Next, vars, LockOnly, CondOnly, GroupOnly, QueueOnly, BarrierOnly, FutureOnly, DiningOnly,
       Cond!Next, WaiterStep, condVars
  <2> QED
    BY <2>2, <2>6, <2>7, <2>8, <2>9 DEF condVars
<1>2. CondInv /\ [Next]_vars => [\A n \in Other : Complete(n)]_(Cond!vars)
  BY <1>1
<1> QED
  BY <1>2, CondInductive, PTL DEF Spec, NobodyIsForgotten, Cond!NobodyIsForgotten

-----------------------------------------------------------------------------
(* The wait group.                                                           *)

GroupTypes ==
  /\ g_counter \in Int /\ g_done \in {0, 1}
  /\ g_pc \in [Adders \cup Jobs \cup Joiners -> {"start", "zero", "one", "prepare", "wake", "wait", "end"}]
  /\ \A a \in Adders : g_pc[a] \in {"start", "zero", "end"}
  /\ \A j \in Jobs : g_pc[j] \in {"start", "one", "prepare", "wake", "end"}
  /\ \A w \in Joiners : g_pc[w] \in {"start", "wait", "end"}
  /\ g_owed \in [Joiners -> SUBSET Jobs]

(* The jobs that an Add() has counted and that go on. *)
Open == {j \in Jobs : g_pc[AdderOf[j]] # "start" /\ g_pc[j] = "start"}

Tally ==
  /\ g_counter = Cardinality(Open)
  /\ \A j \in Jobs : g_pc[j] # "start" => g_pc[AdderOf[j]] = "end"

(* Every Add() has returned, and every job has counted itself out. *)
AllAdded == \A a \in Adders : g_pc[a] = "end"
AllDone  == AllAdded /\ \A j \in Jobs : g_pc[j] # "start"

(* The flag is up only before the first Add() has lowered it, and after the last  *)
(* Done().                                                                    *)
FlagIsRight ==
  (\E a \in Adders : g_pc[a] # "start") /\ (\A a \in Adders : g_pc[a] # "zero") => g_done = 0 \/ AllDone

(* The one that found zero is the last, and stores the flag once. *)
LastOne ==
  /\ \A j \in Jobs : g_pc[j] \in {"one", "prepare", "wake"} => AllDone
  /\ \A i, j \in Jobs : g_pc[i] = "one" => g_done = 0 /\ (g_pc[j] = "one" => i = j)

(* Who is back from Wait() has seen the flag up, when no Add() could lower it.   *)
Joined ==
  /\ \A w \in Joiners : g_pc[w] # "start" => AllAdded /\ Adders # {}
  /\ \A w \in Joiners : g_pc[w] = "end" => g_done = 1 /\ AllDone
  /\ ~g_alive => \A w \in Joiners : g_pc[w] = "end"

GroupInv == GroupTypes /\ Tally /\ FlagIsRight /\ LastOne /\ Joined

LEMMA GroupInductive ==
  ASSUME AddsFirst
  PROVE  (Init => GroupInv) /\ (GroupInv /\ [Next]_vars => GroupInv')
<1> USE SyncAssumption DEF Group!Goto
<1> DEFINE
  ClientAt == {"start", "zero", "one", "prepare", "wake", "wait", "end"}
  Moves(a, to) == g_pc' = [g_pc EXCEPT ![a] = to]
<1>1. ASSUME Init PROVE GroupInv
  <2>1. Group!Init
    BY <1>1 DEF Init
  <2>2. Open = {}
    BY <2>1 DEF Group!Init, Group!Actors, Open
  <2>3. GroupTypes
    BY <2>1 DEF Group!Init, Group!WaitGroupInit, Group!Actors, GroupTypes
  <2>4. Tally /\ FlagIsRight /\ LastOne /\ Joined
    BY <2>1, <2>2, FS_EmptySet
       DEF Group!Init, Group!WaitGroupInit, Group!Actors, Tally, FlagIsRight, LastOne, Joined
  <2> QED
    BY <2>3, <2>4 DEF GroupInv
<1>2. ASSUME GroupInv, NEW a \in Adders, Group!Add(a) PROVE GroupInv'
  <2> USE <1>2 DEF GroupInv
  <2>1. /\ g_pc[a] = "start" /\ g_counter' = g_counter + Cardinality(Group!JobsOf(a))
        /\ g_done' = g_done /\ g_owed' = g_owed /\ g_alive' = g_alive
        /\ Moves(a, IF g_counter = 0 THEN "zero" ELSE "end")
    <3>1. \A S : Group!Cardinality(S) = Cardinality(S)
      BY DEF Group!Cardinality, Cardinality, IsFiniteSet, Group!IsFiniteSet
    <3> QED
      BY <3>1 DEF Group!Add, Group!FetchAdd, Group!AddFoundZero
  <2>2. /\ a \notin Jobs /\ a \notin Joiners /\ \A b \in Adders : b \notin Jobs /\ b \notin Joiners
        /\ g_pc'[a] = IF g_counter = 0 THEN "zero" ELSE "end"
        /\ \A b \in (Adders \cup Jobs \cup Joiners) \ {a} : g_pc'[b] = g_pc[b]
    BY <2>1 DEF GroupTypes
  <2>3. ~AllAdded
    BY <2>1 DEF AllAdded
  <2>4. GroupTypes'
    <3>1. g_pc' \in [Adders \cup Jobs \cup Joiners -> ClientAt]
      BY <2>1 DEF GroupTypes
    <3>2. Cardinality(Group!JobsOf(a)) \in Int
      BY FS_Subset, FS_CardinalityType DEF Group!JobsOf
    <3>3. g_counter' \in Int
      BY <2>1, <3>2 DEF GroupTypes
    <3> QED
      BY <2>1, <2>2, <3>1, <3>3 DEF GroupTypes
  <2>5. Tally'
    <3>1. Open' = Open \cup Group!JobsOf(a) /\ Open \cap Group!JobsOf(a) = {}
      BY <2>1, <2>2 DEF Open, Group!JobsOf, Tally
    <3>2. IsFiniteSet(Open) /\ IsFiniteSet(Group!JobsOf(a))
      BY FS_Subset DEF Open, Group!JobsOf
    <3>3. Cardinality(Open') = Cardinality(Open) + Cardinality(Group!JobsOf(a))
      <4>1. Cardinality({}) = 0 /\ Cardinality(Open) \in Nat /\ Cardinality(Group!JobsOf(a)) \in Nat
        BY <3>2, FS_EmptySet, FS_CardinalityType
      <4>2. Cardinality(Open \cup Group!JobsOf(a))
              = Cardinality(Open) + Cardinality(Group!JobsOf(a)) - Cardinality(Open \cap Group!JobsOf(a))
        BY <3>2, FS_Union, Zenon
      <4>3. Cardinality(Open') = Cardinality(Open) + Cardinality(Group!JobsOf(a)) - 0
        BY <3>1, <4>1, <4>2
      <4> QED
        BY <4>1, <4>3
    <3>4. \A j \in Jobs : g_pc'[j] # "start" => g_pc'[AdderOf[j]] = "end"
      BY <2>1, <2>2 DEF Tally
    <3> QED
      BY <2>1, <3>3, <3>4 DEF Tally
  <2>6. FlagIsRight'
    <3> SUFFICES ASSUME \A b \in Adders : g_pc'[b] # "zero" PROVE g_done = 0
      BY <2>1 DEF FlagIsRight
    <3>1. Open # {}
      <4>1. g_counter # 0
        BY <2>2
      <4> QED
        BY <4>1, FS_EmptySet DEF Tally
    <3>2. \E b \in Adders : g_pc[b] # "start"
      BY <3>1 DEF Open
    <3>3. \A b \in Adders : g_pc[b] # "zero"
      BY <2>1, <2>2
    <3> QED
      BY <2>3, <3>2, <3>3 DEF FlagIsRight, AllDone
  <2>7. LastOne' /\ Joined'
    <3>1. \A j \in Jobs : g_pc'[j] \notin {"one", "prepare", "wake"}
      BY <2>2, <2>3 DEF LastOne, AllDone
    <3>2. \A w \in Joiners : g_pc'[w] = g_pc[w] /\ g_pc[w] = "start"
      BY <2>2, <2>3 DEF Joined
    <3> QED
      BY <2>1, <3>1, <3>2 DEF LastOne, Joined
  <2> QED
    BY <2>4, <2>5, <2>6, <2>7
<1>3. ASSUME GroupInv, NEW a \in Adders, Group!AddStore(a) PROVE GroupInv'
  <2> USE <1>3 DEF GroupInv
  <2>1. /\ g_pc[a] = "zero" /\ Moves(a, "end") /\ g_done' = 0
        /\ g_counter' = g_counter /\ g_owed' = g_owed /\ g_alive' = g_alive
    BY DEF Group!AddStore, Group!StoreZero
  <2>2. /\ g_pc'[a] = "end" /\ g_pc' \in [Adders \cup Jobs \cup Joiners -> ClientAt]
        /\ \A b \in (Adders \cup Jobs \cup Joiners) \ {a} : g_pc'[b] = g_pc[b]
    BY <2>1 DEF GroupTypes
  <2>3. /\ ~AllAdded
        /\ \A j \in Jobs : g_pc'[j] = g_pc[j] /\ g_pc[j] \notin {"one", "prepare", "wake"}
        /\ \A w \in Joiners : g_pc'[w] = g_pc[w] /\ g_pc[w] = "start"
    BY <2>1, <2>2 DEF AllAdded, AllDone, LastOne, Joined
  <2>4. GroupTypes'
    BY <2>1, <2>2 DEF GroupTypes
  <2>5. Tally'
    <3>1. Open' = Open
      BY <2>1, <2>2, <2>3 DEF Open
    <3> QED
      BY <2>1, <2>2, <2>3, <3>1 DEF Tally
  <2> QED
    BY <2>1, <2>3, <2>4, <2>5 DEF FlagIsRight, LastOne, Joined
<1>4. ASSUME GroupInv, NEW j \in Jobs, Group!DoneSub(j) PROVE GroupInv'
  <2> USE <1>4 DEF GroupInv
  <2>1. /\ g_pc[j] = "start" /\ g_pc[AdderOf[j]] = "end" /\ AdderOf[j] \in Adders
        /\ g_counter = 1 => AllAdded
        /\ g_counter' = g_counter - 1 /\ g_done' = g_done /\ g_owed' = g_owed /\ g_alive' = g_alive
        /\ Moves(j, IF g_counter = 1 THEN "one" ELSE "end")
    BY DEF Group!DoneSub, Group!FetchSub, Group!DoneReachedZero, Group!Announced, Group!AllAnnounced,
       AllAdded
  <2>2. /\ g_pc'[j] = IF g_counter = 1 THEN "one" ELSE "end"
        /\ g_pc' \in [Adders \cup Jobs \cup Joiners -> ClientAt]
        /\ \A b \in (Adders \cup Jobs \cup Joiners) \ {j} : g_pc'[b] = g_pc[b]
    BY <2>1 DEF GroupTypes
  <2>3. /\ ~AllDone
        /\ \A i \in Jobs : g_pc[i] \notin {"one", "prepare", "wake"}
        /\ \A w \in Joiners : g_pc'[w] = g_pc[w] /\ g_pc[w] # "end"
        /\ \A a \in Adders : g_pc'[a] = g_pc[a]
    BY <2>1, <2>2 DEF AllDone, LastOne, Joined
  <2>4. GroupTypes'
    <3>1. g_counter' \in Int
      BY <2>1 DEF GroupTypes
    <3>2. \A i \in Jobs : g_pc'[i] \in {"start", "one", "prepare", "wake", "end"}
      BY <2>2 DEF GroupTypes
    <3> QED
      BY <2>1, <2>2, <2>3, <3>1, <3>2 DEF GroupTypes
  <2>5. IsFiniteSet(Open) /\ j \in Open /\ Open' = Open \ {j} /\ g_counter' = Cardinality(Open')
    <3>1. IsFiniteSet(Open) /\ j \in Open /\ Open' = Open \ {j}
      BY <2>1, <2>2, FS_Subset DEF Open
    <3>2. Cardinality(Open \ {j}) = Cardinality(Open) - 1
      BY <3>1, FS_RemoveElement
    <3> QED
      BY <2>1, <3>1, <3>2 DEF Tally
  <2>6. Tally'
    <3>1. \A i \in Jobs : AdderOf[i] \in Adders
      OBVIOUS
    <3> QED
      BY <2>1, <2>2, <2>3, <2>5, <3>1 DEF Tally
  <2>7. CASE g_counter = 1
    <3>1. AllAdded /\ AllAdded'
      BY <2>1, <2>3, <2>7 DEF AllAdded
    <3>2. Open' = {}
      <4>1. g_counter' = 0
        BY <2>1, <2>7
      <4> QED
        BY <2>5, <4>1, FS_Subset, FS_EmptySet
    <3>3. AllDone'
      BY <3>1, <3>2 DEF AllDone, AllAdded, Open
    <3>4. g_done = 0
      BY <2>1, <2>3, <3>1 DEF FlagIsRight, AllAdded
    <3>5. FlagIsRight' /\ Joined'
      BY <2>1, <2>3, <3>1, <3>3 DEF FlagIsRight, Joined
    <3>6. LastOne'
      BY <2>1, <2>2, <2>3, <3>3, <3>4 DEF LastOne
    <3> QED
      BY <2>4, <2>6, <3>5, <3>6
  <2>8. CASE g_counter # 1
    <3>1. \A i \in Jobs : g_pc'[i] \notin {"one", "prepare", "wake"}
      BY <2>2, <2>3, <2>8
    <3>2. LastOne'
      BY <3>1 DEF LastOne
    <3>3. FlagIsRight'
      BY <2>1, <2>3 DEF FlagIsRight
    <3>4. Joined'
      BY <2>1, <2>3 DEF Joined, AllAdded
    <3> QED
      BY <2>4, <2>6, <3>2, <3>3, <3>4
  <2> QED
    BY <2>7, <2>8
<1>5. ASSUME GroupInv, NEW j \in Jobs,
             Group!DoneStore(j) \/ Group!DonePrepare(j) \/ Group!DoneWake(j)
      PROVE  GroupInv'
  <2> USE <1>5 DEF GroupInv
  <2>1. /\ g_counter' = g_counter /\ g_owed' = g_owed /\ g_alive' = g_alive
        /\ \/ g_pc[j] = "one" /\ Moves(j, "prepare") /\ g_done' = 1
           \/ g_pc[j] = "prepare" /\ Moves(j, "wake") /\ g_done' = g_done
           \/ g_pc[j] = "wake" /\ Moves(j, "end") /\ g_done' = g_done
    BY DEF Group!DoneStore, Group!StoreOne, Group!DonePrepare, Group!DoneWake, Group!WakeAll
  <2>2. /\ g_pc'[j] \in {"prepare", "wake", "end"} /\ g_pc[j] # "start"
        /\ g_pc' \in [Adders \cup Jobs \cup Joiners -> ClientAt]
        /\ \A b \in (Adders \cup Jobs \cup Joiners) \ {j} : g_pc'[b] = g_pc[b]
        /\ \A a \in Adders : g_pc'[a] = g_pc[a]
        /\ \A w \in Joiners : g_pc'[w] = g_pc[w]
    BY <2>1 DEF GroupTypes
  <2>3. AllDone /\ AllDone'
    BY <2>1, <2>2 DEF LastOne, AllDone, AllAdded
  <2>4. GroupTypes'
    BY <2>1, <2>2 DEF GroupTypes
  <2>5. Tally'
    <3>1. Open' = Open
      BY <2>2 DEF Open
    <3> QED
      BY <2>1, <2>2, <3>1 DEF Tally
  <2>6. LastOne'
    <3>1. \A i \in Jobs : g_pc'[i] = "one" => g_pc[i] = "one" /\ i # j
      BY <2>2
    <3>2. ASSUME NEW i \in Jobs, g_pc'[i] = "one" PROVE g_done' = 0
      BY <2>1, <3>1, <3>2 DEF LastOne
    <3> QED
      BY <2>3, <3>1, <3>2 DEF LastOne
  <2>7. Joined'
    <3>1. ASSUME NEW w \in Joiners, g_pc[w] = "end" PROVE g_done' = 1
      BY <2>1, <3>1 DEF Joined
    <3> QED
      BY <2>1, <2>2, <2>3, <3>1 DEF Joined, AllDone
  <2> QED
    BY <2>3, <2>4, <2>5, <2>6, <2>7 DEF FlagIsRight
<1>6. ASSUME GroupInv, NEW w \in Joiners, Group!CallWait(w) \/ Group!Wait(w) PROVE GroupInv'
  <2> USE <1>6 DEF GroupInv
  <2>1. /\ g_counter' = g_counter /\ g_done' = g_done /\ g_alive' = g_alive
        /\ AllAdded /\ Adders # {}
        /\ \/ /\ g_pc[w] = "start" /\ Moves(w, "wait")
              /\ \E S \in SUBSET Jobs : g_owed' = [g_owed EXCEPT ![w] = S]
           \/ g_pc[w] = "wait" /\ g_pc' = g_pc /\ g_owed' = g_owed
           \/ g_pc[w] = "wait" /\ Moves(w, "end") /\ g_owed' = g_owed /\ g_done = 1
    <3>1. CASE Group!CallWait(w)
      BY <3>1 DEF Group!CallWait, Group!Announced, Group!AllAnnounced, AllAdded
    <3>2. CASE Group!Wait(w)
      BY <3>2 DEF Group!Wait, Group!FutexPark, Group!FutexReturns, Joined
    <3> QED
      BY <3>1, <3>2
  <2>2. /\ g_pc'[w] \in {"wait", "end"}
        /\ g_pc' \in [Adders \cup Jobs \cup Joiners -> ClientAt]
        /\ \A b \in (Adders \cup Jobs \cup Joiners) \ {w} : g_pc'[b] = g_pc[b]
        /\ \A a \in Adders : g_pc'[a] = g_pc[a]
        /\ \A j \in Jobs : g_pc'[j] = g_pc[j] /\ AdderOf[j] \in Adders
    BY <2>1 DEF GroupTypes
  <2>3. GroupTypes'
    <3>1. g_owed' \in [Joiners -> SUBSET Jobs]
      BY <2>1 DEF GroupTypes
    <3> QED
      BY <2>1, <2>2, <3>1 DEF GroupTypes
  <2>4. Tally'
    <3>1. Open' = Open
      BY <2>2 DEF Open
    <3> QED
      BY <2>1, <2>2, <3>1 DEF Tally
  <2>5. AllAdded' /\ (AllDone' <=> AllDone)
    BY <2>1, <2>2 DEF AllAdded, AllDone
  <2>6. FlagIsRight' /\ LastOne'
    BY <2>1, <2>2, <2>5 DEF FlagIsRight, LastOne
  <2>7. g_pc'[w] = "end" => g_done = 1 /\ AllDone
    BY <2>1, <2>2 DEF FlagIsRight, AllAdded
  <2>8. Joined'
    BY <2>1, <2>2, <2>5, <2>7 DEF Joined
  <2> QED
    BY <2>3, <2>4, <2>6, <2>8
<1>7. ASSUME GroupInv, Group!Delete PROVE GroupInv'
  BY <1>7 DEF Group!Delete, GroupInv, GroupTypes, Tally, Open, FlagIsRight, LastOne, Joined, AllDone,
     AllAdded
<1>8. ASSUME GroupInv, UNCHANGED groupVars PROVE GroupInv'
  BY <1>8 DEF groupVars, GroupInv, GroupTypes, Tally, Open, FlagIsRight, LastOne, Joined, AllDone,
     AllAdded
<1>9. ASSUME [Next]_vars
      PROVE  \/ UNCHANGED groupVars \/ Group!Delete
             \/ \E a \in Adders : Group!Add(a) \/ Group!AddStore(a)
             \/ \E j \in Jobs : \/ Group!DoneSub(j) \/ Group!DoneStore(j)
                                \/ Group!DonePrepare(j) \/ Group!DoneWake(j)
             \/ \E w \in Joiners : Group!CallWait(w) \/ Group!Wait(w)
  BY <1>9 DEF Next, vars, LockOnly, CondOnly, GroupOnly, QueueOnly, BarrierOnly, FutureOnly, DiningOnly,
     Group!Next, Group!Step, Group!Terminated, Group!vars, groupVars
<1> QED
  BY <1>1, <1>2, <1>3, <1>4, <1>5, <1>6, <1>7, <1>8, <1>9

(* Wait() comes back only when the counter is at zero and every job that had been *)
(* announced has counted itself out, although it looks at the flag alone, which   *)
(* is stored after the counter; provided that no Add() is under way when Wait()  *)
(* is called.                                                                 *)
THEOREM WaitsForAll == ASSUME AddsFirst PROVE Spec => []WaitBlocks
<1>1. GroupInv => WaitBlocks
  BY DEF GroupInv, GroupTypes, Joined, AllDone, WaitBlocks, Group!WaitBlocks, Group!Finished
<1> QED
  BY <1>1, GroupInductive, PTL DEF Spec


-----------------------------------------------------------------------------
(* The cyclic barrier.  The inductive invariant says that all threads are in the   *)
(* same round r, in one of its two phases.  While the round gathers, arrived_ is   *)
(* the number of those who have come, and nobody has gone on.  While it drains,   *)
(* all have come, departed_ is the number of those who have gone on, and these    *)
(* do not get further than the sleep on limit_reached_cv_.                      *)

(* Where a thread is counted in arrived_, and where it waits before that.       *)
Inside == {"sleep", "woken", "depart", "reset arrived", "reset departed"}
Back     == {"outside", "check", "limit", "limit sleep"}
Resets   == {"reset arrived", "reset departed"}

BarrierTypes ==
  /\ r_arrived \in Nat /\ r_departed \in Nat
  /\ r_notified \in BOOLEAN
  /\ r_mtx \in Trio \cup {Null}
  /\ r_pc \in [Trio -> Inside \cup Back \cup {"arrive"}]
  /\ r_came \in [Trio -> Nat]
  /\ r_left \in [Trio -> Nat]

(* A thread has come once more than it has gone on, unless it is outside. *)
Paired == \A t \in Trio : r_came[t] = r_left[t] + IF r_pc[t] = "outside" THEN 0 ELSE 1

Guarded == \A t \in Trio : r_pc[t] \in Resets \cup {"depart"} => r_mtx = t

Counted == {t \in Trio : r_pc[t] \in Inside}
Gone(r) == {t \in Trio : r_left[t] = r + 1}

Gather(r) ==
  /\ \A t \in Trio : r_left[t] = r /\ r_pc[t] \notin Resets
  /\ \A t \in Trio : r_pc[t] = "depart" => Counted = Trio
  /\ r_arrived = Cardinality(Counted)
  /\ r_departed = 0

Drain(r) ==
  /\ \A t \in Trio : \/ r_left[t] = r /\ r_pc[t] \in Inside
                     \/ r_left[t] = r + 1 /\ r_pc[t] \in Back
  /\ r_departed # 0
  /\ \/ /\ \A t \in Trio : r_pc[t] \notin Resets
        /\ r_arrived = Barrier!participants
        /\ r_departed = Cardinality(Gone(r))
     \/ /\ r_mtx \in Trio /\ r_pc[r_mtx] \in Resets
        /\ r_arrived = IF r_pc[r_mtx] = "reset arrived" THEN Barrier!participants ELSE 0
        /\ Gone(r) = Trio \ {r_mtx}

OneRound == \E r \in Nat : Gather(r) \/ Drain(r)

BarrierInv == BarrierTypes /\ Paired /\ Guarded /\ OneRound

-----------------------------------------------------------------------------

(* The steps that neither count a thread nor let one go on. *)
Uncounting(t) ==
  \/ Barrier!Come(t) \/ Barrier!Check(t) \/ Barrier!Limit(t)
  \/ Barrier!Woken(t) \/ Barrier!SpuriousWake(t)

UncountingFacts(t) ==
  /\ r_arrived' = r_arrived /\ r_departed' = r_departed /\ r_left' = r_left
  /\ \A u \in Trio \ {t} : r_pc'[u] = r_pc[u]
  /\ r_pc[t] \in Inside <=> r_pc'[t] \in Inside
  /\ r_pc[t] \notin Resets /\ r_pc'[t] \notin Resets
  /\ r_departed # 0 /\ r_pc[t] \in Back => r_pc'[t] \in Back
  /\ r_pc'[t] = "depart" => r_arrived = Barrier!participants
  /\ r_mtx \in Trio => r_mtx' = r_mtx

LEMMA StepRound ==
  ASSUME BarrierInv, NEW t \in Trio,
         Barrier!Come(t) \/ Barrier!Step(t) \/ Barrier!SpuriousWake(t)
  PROVE  OneRound'
<1>p. Barrier!participants = Cardinality(Trio)
  BY DEF Barrier!participants, Barrier!Cardinality, Barrier!IsFiniteSet, Cardinality, IsFiniteSet
<1>1. ASSUME NEW S \in SUBSET Trio
      PROVE  /\ IsFiniteSet(S)
             /\ Cardinality(S) \in Nat /\ Barrier!participants \in Nat
             /\ Cardinality(S) = Barrier!participants => S = Trio
             /\ \A u \in Trio \ S : Cardinality(S \cup {u}) = Cardinality(S) + 1
  BY SyncAssumption, <1>p, FS_Subset, FS_CardinalityType, FS_AddElement
<1>2. CASE Uncounting(t)
  <2> USE <1>2
  <2>1. UncountingFacts(t)
    <3> USE DEF BarrierInv
    <3> USE DEF UncountingFacts, BarrierTypes, Inside, Back, Resets, Barrier!Goto
    <3>1. CASE Barrier!Come(t)
      BY <3>1 DEF Barrier!Come
    <3>2. CASE Barrier!Check(t)
      BY <3>2 DEF Barrier!Check
    <3>3. CASE Barrier!Limit(t)
      BY <3>3 DEF Barrier!Limit
    <3>4. CASE Barrier!Woken(t)
      BY <3>4, SyncAssumption DEF Barrier!Woken, Barrier!Complete
    <3>5. CASE Barrier!SpuriousWake(t)
      BY <3>5 DEF Barrier!SpuriousWake
    <3> QED
      BY <3>1, <3>2, <3>3, <3>4, <3>5 DEF Uncounting
  <2>2. Counted' = Counted /\ \A r : Gone(r)' = Gone(r)
    BY <2>1 DEF Counted, Gone, UncountingFacts
  <2>3. PICK r \in Nat : Gather(r) \/ Drain(r)
    BY DEF BarrierInv, OneRound
  <2>4. CASE Gather(r)
    <3>1. r_arrived = Barrier!participants => Counted = Trio
      BY <2>4, <1>1 DEF Gather, Counted
    <3>2. \A u \in Trio : r_pc'[u] = "depart" => Counted' = Trio
      BY <2>1, <2>2, <2>4, <3>1 DEF Gather, UncountingFacts
    <3>3. Gather(r)'
      BY <2>1, <2>2, <2>4, <3>2 DEF Gather, UncountingFacts
    <3> QED
      BY <3>3 DEF OneRound
  <2>5. CASE Drain(r)
    <3>1. \A u \in Trio : \/ r_left'[u] = r /\ r_pc'[u] \in Inside
                          \/ r_left'[u] = r + 1 /\ r_pc'[u] \in Back
      BY <2>1, <2>5 DEF Drain, UncountingFacts
    <3>2. (\A u \in Trio : r_pc[u] \notin Resets) => (\A u \in Trio : r_pc'[u] \notin Resets)
      BY <2>1 DEF UncountingFacts
    <3>3. r_mtx \in Trio /\ r_pc[r_mtx] \in Resets => r_mtx' = r_mtx /\ r_pc'[r_mtx] = r_pc[r_mtx]
      BY <2>1 DEF UncountingFacts
    <3>4. Barrier!participants' = Barrier!participants
      BY DEF Barrier!participants
    <3>5. Drain(r)'
      BY <2>1, <2>2, <2>5, <3>1, <3>2, <3>3, <3>4 DEF Drain, UncountingFacts
    <3> QED
      BY <3>5 DEF OneRound
  <2> QED
    BY <2>3, <2>4, <2>5
<1>3. CASE Barrier!Arrive(t)
  <2> USE <1>3
  <2>1. PICK r \in Nat : Gather(r) \/ Drain(r)
    BY DEF BarrierInv, OneRound
  <2>2. Gather(r)
    BY <2>1 DEF Barrier!Arrive, Drain, Inside, Back
  <2>3. Counted' = Counted \cup {t} /\ t \notin Counted
    BY DEF Barrier!Arrive, Counted, Inside, Barrier!Goto, BarrierInv, BarrierTypes
  <2>4. r_arrived' = Cardinality(Counted')
    BY <2>2, <2>3, <1>1 DEF Barrier!Arrive, Gather, Counted
  <2>5. \A u \in Trio : r_pc'[u] = "depart" => Counted' = Trio
    <3>1. \A u \in Trio : r_pc[u] # "depart"
      BY <2>2, <2>3 DEF Gather
    <3>2. \A u \in Trio : r_pc'[u] = "depart" => r_arrived' = Barrier!participants
      BY <3>1 DEF Barrier!Arrive, Barrier!Complete, Barrier!Goto, BarrierInv, BarrierTypes
    <3>3. r_arrived' = Barrier!participants => Counted' = Trio
      <4>1. Counted' \in SUBSET Trio
        BY DEF Counted
      <4> QED
        BY <2>4, <4>1, <1>1
    <3> QED
      BY <3>2, <3>3
  <2>6. \A u \in Trio : r_left'[u] = r /\ r_pc'[u] \notin Resets
    BY <2>2 DEF Barrier!Arrive, Gather, Barrier!Goto, Resets, BarrierInv, BarrierTypes
  <2>7. r_departed' = 0
    BY <2>2 DEF Barrier!Arrive, Gather
  <2>8. Gather(r)'
    BY <2>4, <2>5, <2>6, <2>7 DEF Gather
  <2> QED
    BY <2>8 DEF OneRound
(* Both phases look the same to the thread that counts itself out. *)
<1>4. CASE Barrier!Depart(t)
  <2> USE <1>4
  <2>1. PICK r \in Nat : Gather(r) \/ Drain(r)
    BY DEF BarrierInv, OneRound
  <2>2. r_pc[t] = "depart" /\ r_mtx = t /\ r_left[t] = r
    BY <2>1 DEF Barrier!Depart, BarrierInv, Guarded, Gather, Drain, Back
  <2>3. /\ \A u \in Trio : \/ r_left[u] = r /\ r_pc[u] \in Inside
                           \/ r_left[u] = r + 1 /\ r_pc[u] \in Back
        /\ \A u \in Trio : r_pc[u] \notin Resets
        /\ r_arrived = Barrier!participants
        /\ r_departed = Cardinality(Gone(r))
    <3>1. CASE Gather(r)
      <4>1. Counted = Trio /\ Gone(r) = {}
        BY <2>2, <3>1 DEF Gather, Gone
      <4> QED
        BY <3>1, <4>1, <1>p, FS_EmptySet DEF Gather, Counted
    <3>2. CASE Drain(r)
      BY <2>2, <3>2 DEF Drain, Resets
    <3> QED
      BY <2>1, <3>1, <3>2
  <2>4. Gone(r) \subseteq Trio /\ t \notin Gone(r)
    BY <2>2 DEF Gone
  <2>5. \A u \in Trio \ {t} : r_pc'[u] = r_pc[u] \/ (r_pc[u] = "sleep" /\ r_pc'[u] = "woken")
    BY DEF Barrier!Depart, Barrier!Goto, Barrier!NotifyAll, BarrierInv, BarrierTypes
  <2>6. r_departed' = r_departed + 1 /\ r_departed' # 0 /\ r_arrived' = r_arrived
    <3>1. r_departed' = r_departed + 1 /\ r_arrived' = r_arrived /\ r_departed \in Nat
      BY Zenon DEF Barrier!Depart, BarrierInv, BarrierTypes
    <3> QED
      BY <3>1
  <2>7. Cardinality(Gone(r) \cup {t}) = r_departed'
    BY <2>3, <2>4, <2>6, <1>1
  <2>8. Barrier!participants' = Barrier!participants
    BY DEF Barrier!participants
  <2>9. CASE r_departed + 1 = r_arrived
    <3>1. r_pc'[t] = "reset arrived" /\ r_mtx' = t /\ r_left' = r_left
      BY <2>9 DEF Barrier!Depart, Barrier!Goto, Barrier!NotifyAll, BarrierInv, BarrierTypes
    <3>2. Gone(r)' = Gone(r) /\ Gone(r) = Trio \ {t}
      <4>1. Gone(r) \cup {t} = Trio
        BY <2>3, <2>4, <2>6, <2>7, <2>9, <1>1
      <4> QED
        BY <2>4, <3>1, <4>1 DEF Gone
    <3>3. Drain(r)'
      BY <2>2, <2>3, <2>5, <2>6, <2>8, <3>1, <3>2 DEF Drain, Inside, Back, Resets
    <3> QED
      BY <3>3 DEF OneRound
  <2>10. CASE r_departed + 1 # r_arrived
    <3>1. r_pc'[t] = "outside" /\ r_left' = [r_left EXCEPT ![t] = r + 1]
      BY <2>2, <2>10 DEF Barrier!Depart, Barrier!Goto, Barrier!NotifyAll, BarrierInv, BarrierTypes
    <3>2. Gone(r)' = Gone(r) \cup {t}
      BY <3>1 DEF Gone, BarrierInv, BarrierTypes
    <3>3. /\ \A u \in Trio : \/ r_left'[u] = r /\ r_pc'[u] \in Inside
                             \/ r_left'[u] = r + 1 /\ r_pc'[u] \in Back
          /\ \A u \in Trio : r_pc'[u] \notin Resets
      BY <2>3, <2>5, <3>1 DEF Inside, Back, Resets, BarrierInv, BarrierTypes
    <3>4. Drain(r)'
      BY <2>3, <2>6, <2>7, <2>8, <3>2, <3>3 DEF Drain
    <3> QED
      BY <3>4 DEF OneRound
  <2> QED
    BY <2>9, <2>10
<1>5. CASE Barrier!ResetArrived(t)
  <2> USE <1>5
  <2>1. PICK r \in Nat : Gather(r) \/ Drain(r)
    BY DEF BarrierInv, OneRound
  <2>2. r_mtx = t /\ r_pc[t] \in Resets
    BY DEF Barrier!ResetArrived, BarrierInv, Guarded, Resets
  <2>3. Drain(r)
    BY <2>1, <2>2 DEF Gather
  <2>4. Gone(r)' = Gone(r)
    BY DEF Gone, Barrier!ResetArrived
  <2>5. /\ r_mtx' = r_mtx /\ r_departed' = r_departed /\ r_left' = r_left /\ r_arrived' = 0
        /\ r_pc' = [r_pc EXCEPT ![t] = "reset departed"]
    BY DEF Barrier!ResetArrived, Barrier!Goto
  <2>6. Drain(r)'
    BY <2>2, <2>3, <2>4, <2>5 DEF Drain, Inside, Back, Resets, BarrierInv, BarrierTypes
  <2> QED
    BY <2>6 DEF OneRound
(* The last one goes on, and the next round gathers. *)
<1>6. CASE Barrier!ResetDeparted(t)
  <2> USE <1>6
  <2>1. PICK r \in Nat : Gather(r) \/ Drain(r)
    BY DEF BarrierInv, OneRound
  <2>2. r_mtx = t /\ r_pc[t] = "reset departed"
    BY DEF Barrier!ResetDeparted, BarrierInv, Guarded, Resets
  <2>3. Drain(r)
    BY <2>1, <2>2 DEF Gather, Resets
  <2>4. Gone(r) = Trio \ {t} /\ r_arrived = 0
    BY <2>2, <2>3 DEF Drain, Resets
  <2>5. \A u \in Trio \ {t} : r_left[u] = r + 1 /\ r_pc[u] \in Back
    BY <2>3, <2>4 DEF Drain, Gone
  <2>6. r_left[t] = r
    BY <2>2, <2>3 DEF Drain, Back
  <2>7. \A u \in Trio : r_left'[u] = r + 1 /\ r_pc'[u] \in Back
    BY <2>5, <2>6 DEF Barrier!ResetDeparted, Barrier!NotifyAll, Back, BarrierInv, BarrierTypes
  <2>8. Counted' = {}
    BY <2>7 DEF Counted, Inside, Back
  <2>9. Gather(r + 1)'
    BY <2>4, <2>7, <2>8, FS_EmptySet DEF Gather, Barrier!ResetDeparted, Back, Resets
  <2> QED
    BY <2>9 DEF OneRound
<1> QED
  BY <1>2, <1>3, <1>4, <1>5, <1>6, Zenon DEF Barrier!Step, Uncounting

-----------------------------------------------------------------------------

LEMMA StepPlaces ==
  ASSUME BarrierTypes, Paired, Guarded,
         NEW t \in Trio, Barrier!Come(t) \/ Barrier!Step(t) \/ Barrier!SpuriousWake(t)
  PROVE  BarrierTypes' /\ Paired' /\ Guarded'
(* What a step does to the others. *)
<1>1. \A u \in Trio \ {t} :
        /\ r_came'[u] = r_came[u] /\ r_left'[u] = r_left[u]
        /\ \/ r_pc'[u] = r_pc[u]
           \/ r_pc[u] = "sleep" /\ r_pc'[u] = "woken"
           \/ r_pc[u] = "limit sleep" /\ r_pc'[u] = "limit"
  BY DEF BarrierTypes, Barrier!Goto, Barrier!NotifyAll, Barrier!Step, Barrier!Come, Barrier!Check,
     Barrier!Limit, Barrier!SpuriousWake, Barrier!Arrive, Barrier!Woken, Barrier!Depart,
         Barrier!ResetArrived, Barrier!ResetDeparted
<1>2. /\ r_arrived + 1 \in Nat /\ r_departed + 1 \in Nat
      /\ r_left[t] \in Nat /\ r_came[t] + 1 \in Nat /\ r_left[t] + 1 \in Nat
  <2>1. r_arrived \in Nat /\ r_departed \in Nat /\ r_came[t] \in Nat /\ r_left[t] \in Nat
    BY Zenon DEF BarrierTypes
  <2> QED
    BY <2>1
<1>3. Paired'
  <2> DEFINE out(p) == IF p = "outside" THEN 0 ELSE 1
  <2>1. r_came[t] = r_left[t] + out(r_pc[t])
    BY Zenon DEF Paired
  <2>2. r_came'[t] = r_left'[t] + out(r_pc'[t])
    <3> USE <1>2 DEF BarrierTypes, Barrier!Goto, Barrier!NotifyAll
    <3>1. CASE Barrier!Come(t)
      <4>1. r_came'[t] = r_came[t] + 1 /\ r_left' = r_left /\ r_pc[t] = "outside" /\ r_pc'[t] # "outside"
        BY <3>1 DEF Barrier!Come
      <4> QED
        BY <2>1, <4>1
    <3>2. CASE \/ Barrier!Check(t) \/ Barrier!Limit(t) \/ Barrier!Woken(t) \/ Barrier!SpuriousWake(t)
               \/ Barrier!Arrive(t) \/ Barrier!ResetArrived(t)
      <4>1. r_came' = r_came /\ r_left' = r_left /\ r_pc[t] # "outside" /\ r_pc'[t] # "outside"
        BY <3>2 DEF Barrier!Check, Barrier!Limit, Barrier!SpuriousWake, Barrier!Arrive,
           Barrier!Woken, Barrier!ResetArrived
      <4> QED
        BY <2>1, <4>1
    <3>3. CASE Barrier!Depart(t)
      <4>1. /\ r_came' = r_came /\ r_pc[t] # "outside"
            /\ \/ r_left' = r_left /\ r_pc'[t] # "outside"
               \/ r_left'[t] = r_left[t] + 1 /\ r_pc'[t] = "outside"
        BY <3>3 DEF Barrier!Depart
      <4> QED
        BY <2>1, <4>1
    <3>4. CASE Barrier!ResetDeparted(t)
      <4>1. r_came' = r_came /\ r_left'[t] = r_left[t] + 1 /\ r_pc[t] # "outside" /\ r_pc'[t] = "outside"
        BY <3>4 DEF Barrier!ResetDeparted
      <4> QED
        BY <2>1, <4>1
    <3> QED
      BY <3>1, <3>2, <3>3, <3>4 DEF Barrier!Step
  <2>3. \A u \in Trio \ {t} : r_came'[u] = r_left'[u] + out(r_pc'[u])
    <3>1. \A u \in Trio \ {t} : r_came[u] = r_left[u] + out(r_pc[u])
      BY Zenon DEF Paired
    <3> QED
      BY <3>1, <1>1
  <2> QED
    BY <2>2, <2>3 DEF Paired
<1>4. Guarded'
  <2> DEFINE inside == Resets \cup {"depart"}
  <2>1. r_mtx' = r_mtx \/ r_mtx = Null \/ r_mtx = t
    BY DEF Guarded, Resets, Barrier!Step, Barrier!Come, Barrier!Check, Barrier!Limit,
       Barrier!SpuriousWake, Barrier!Arrive, Barrier!Woken, Barrier!Depart,
           Barrier!ResetArrived, Barrier!ResetDeparted
  <2>2. r_pc'[t] \in inside => r_mtx' = t
    <3> USE DEF BarrierTypes, Barrier!Goto, Barrier!NotifyAll, Resets
    <3>1. CASE Barrier!Come(t) \/ Barrier!Check(t) \/ Barrier!Limit(t) \/ Barrier!SpuriousWake(t)
      BY <3>1 DEF Barrier!Come, Barrier!Check, Barrier!Limit, Barrier!SpuriousWake
    <3>2. CASE Barrier!Arrive(t) \/ Barrier!Woken(t)
      BY <3>2 DEF Barrier!Arrive, Barrier!Woken
    <3>3. CASE Barrier!Depart(t)
      BY <3>3 DEF Barrier!Depart
    <3>4. CASE Barrier!ResetArrived(t)
      BY <3>4 DEF Barrier!ResetArrived, Guarded
    <3>5. CASE Barrier!ResetDeparted(t)
      BY <3>5 DEF Barrier!ResetDeparted
    <3> QED
      BY <3>1, <3>2, <3>3, <3>4, <3>5 DEF Barrier!Step
  <2>3. ASSUME NEW u \in Trio, u # t, r_pc'[u] \in inside PROVE r_mtx' = u
    <3>1. r_pc[u] \in inside
      BY <2>3, <1>1 DEF Resets
    <3> QED
      BY <2>1, <2>3, <3>1, SyncAssumption DEF Guarded
  <2> QED
    BY <2>2, <2>3 DEF Guarded
<1>5. BarrierTypes'
  <2>1. /\ r_arrived + 1 \in Nat /\ r_departed + 1 \in Nat
        /\ r_left[t] \in Nat /\ r_came[t] + 1 \in Nat /\ r_left[t] + 1 \in Nat
    <3>1. r_arrived \in Nat /\ r_departed \in Nat /\ r_came[t] \in Nat /\ r_left[t] \in Nat
      BY Zenon DEF BarrierTypes
    <3> QED
      BY <3>1
  <2> USE <2>1 DEF BarrierTypes, Inside, Back, Resets, Barrier!Goto, Barrier!NotifyAll
  <2>2. CASE Barrier!Come(t)
    BY <2>2 DEF Barrier!Come
  <2>3. CASE Barrier!Check(t)
    BY <2>3 DEF Barrier!Check
  <2>4. CASE Barrier!Limit(t)
    BY <2>4 DEF Barrier!Limit
  <2>5. CASE Barrier!SpuriousWake(t)
    BY <2>5 DEF Barrier!SpuriousWake
  <2>6. CASE Barrier!Arrive(t)
    BY <2>6 DEF Barrier!Arrive
  <2>7. CASE Barrier!Woken(t)
    BY <2>7 DEF Barrier!Woken
  <2>8. CASE Barrier!Depart(t)
    BY <2>8 DEF Barrier!Depart
  <2>9. CASE Barrier!ResetArrived(t)
    BY <2>9 DEF Barrier!ResetArrived
  <2>10. CASE Barrier!ResetDeparted(t)
    BY <2>10 DEF Barrier!ResetDeparted
  <2> QED
    BY <2>2, <2>3, <2>4, <2>5, <2>6, <2>7, <2>8, <2>9, <2>10 DEF Barrier!Step
<1> QED
  BY <1>3, <1>4, <1>5

LEMMA BarrierInductive == (Init => BarrierInv) /\ (BarrierInv /\ [Next]_vars => BarrierInv')
<1>1. ASSUME Init PROVE BarrierInv
  <2> USE <1>1, SyncAssumption DEF Init, Barrier!Init
  <2>1. BarrierTypes /\ Guarded
    BY DEF BarrierTypes, Guarded, Inside, Back, Resets
  <2>2. Paired
    BY DEF Paired
  <2>3. Counted = {}
    BY DEF Counted, Inside
  <2>4. Gather(0)
    BY <2>3, FS_EmptySet DEF Gather, Resets
  <2> QED
    BY <2>1, <2>2, <2>4 DEF BarrierInv, OneRound
<1>2. ASSUME BarrierInv, NEW t \in Trio, Barrier!Come(t) \/ Barrier!Step(t) \/ Barrier!SpuriousWake(t)
      PROVE  BarrierInv'
  <2>1. BarrierTypes' /\ Paired' /\ Guarded'
    BY <1>2, StepPlaces DEF BarrierInv
  <2>2. OneRound'
    BY <1>2, StepRound
  <2> QED
    BY <2>1, <2>2 DEF BarrierInv
<1>3. ASSUME BarrierInv, UNCHANGED barrierVars PROVE BarrierInv'
  BY <1>3 DEF barrierVars, BarrierInv, BarrierTypes, Paired, Guarded, OneRound, Gather, Drain,
     Counted, Gone, Barrier!participants
<1>4. UNCHANGED Barrier!vars => UNCHANGED barrierVars
  BY DEF Barrier!vars, barrierVars
<1>5. [Next]_vars => UNCHANGED barrierVars \/ Barrier!Next
  BY DEF Next, vars, LockOnly, CondOnly, GroupOnly, QueueOnly, FutureOnly, DiningOnly
<1> QED
  BY <1>1, <1>2, <1>3, <1>4, <1>5 DEF Barrier!Next

(* No thread crosses the barrier before every other has come to it in the same    *)
(* round, although who comes looks at arrived_ and departed_ without the mutex,   *)
(* although the two are reset one after the other, and however late the sleepers  *)
(* of the last round wake up.                                                 *)
THEOREM NobodyCrossesAlone == Spec => []RoundsAreWhole
<1>1. BarrierInv => RoundsAreWhole
  <2> SUFFICES ASSUME BarrierInv, NEW t \in Trio, NEW u \in Trio PROVE r_left[t] <= r_came[u]
    BY DEF RoundsAreWhole, Barrier!RoundsAreWhole
  <2>1. PICK r \in Nat : Gather(r) \/ Drain(r)
    BY DEF BarrierInv, OneRound
  <2>2. /\ r_left[t] = r \/ (Drain(r) /\ r_left[t] = r + 1)
        /\ r_left[u] = r + 1 \/ (r_left[u] = r /\ (Drain(r) => r_pc[u] # "outside"))
    BY <2>1 DEF Gather, Drain, Inside
  <2>3. r_came[u] = r_left[u] + IF r_pc[u] = "outside" THEN 0 ELSE 1
    BY Zenon DEF BarrierInv, Paired
  <2> QED
    BY <2>2, <2>3
<1> QED
  BY <1>1, BarrierInductive, PTL DEF Spec

-----------------------------------------------------------------------------
(* What is proved of a component by itself holds of it as an object here: no     *)
(* step of another object moves its variables.                                *)

LockP ==
  INSTANCE QueueSpinLockProofs
  WITH Threads <- Trio,
       tail <- l_tail, next <- l_next, is_owner <- l_is_owner, pc <- l_pc, prev <- l_prev,
       line <- l_line

TableP ==
  INSTANCE DiningProofs
  WITH MaxSeats <- 4, Meals <- 2, seats <- d_seats, fork <- d_fork, pc <- d_pc, meals <- d_meals

LEMMA ObjectsApart ==
  /\ Init => LockP!Init /\ TableP!Init
  /\ [Next]_vars => [LockP!Next]_(LockP!vars) /\ [TableP!Next]_(TableP!vars)
<1>1. Init => LockP!Init /\ TableP!Init
  <2>1. Lock!Init => LockP!Init
    BY DEF Lock!Init, LockP!Init
  <2>2. Table!Init => TableP!Init
    BY DEF Table!Init, TableP!Init, Table!Philosophers, TableP!Philosophers,
           Table!None, TableP!None
  <2> QED
    BY <2>1, <2>2 DEF Init
<1>2. [Next]_vars => [LockP!Next]_(LockP!vars) /\ [TableP!Next]_(TableP!vars)
  <2>1. Lock!Next => LockP!Next
    BY DEF Lock!Next, LockP!Next, Lock!Step, LockP!Step, Lock!Exchange, LockP!Exchange,
           Lock!Flag, LockP!Flag, Lock!Link, LockP!Link, Lock!Pass, LockP!Pass,
           Lock!LookNext, LockP!LookNext, Lock!Leave, LockP!Leave, Lock!Hand, LockP!Hand,
           Lock!Goto, LockP!Goto
  <2>2. Table!Next => TableP!Next
    <3>1. /\ Table!Philosophers = TableP!Philosophers /\ Table!None = TableP!None
          /\ \A i : Table!ToRight(i) = TableP!ToRight(i)
      BY DEF Table!Philosophers, TableP!Philosophers, Table!None, TableP!None,
             Table!ToRight, TableP!ToRight
    <3>2. \A i : Table!First(i) = TableP!First(i)
      BY <3>1 DEF Table!First, TableP!First
    <3>3. \A i : Table!Second(i) = TableP!Second(i)
      BY <3>1, <3>2 DEF Table!Second, TableP!Second
    <3>4. \A i : Table!Step(i) => TableP!Step(i)
      BY <3>1, <3>2, <3>3
         DEF Table!Step, TableP!Step, Table!AcquireForks, TableP!AcquireForks,
             Table!EatWithForks, TableP!EatWithForks, Table!ReleaseForks, TableP!ReleaseForks,
             Table!Lock, TableP!Lock, Table!Goto, TableP!Goto
    <3>5. Table!Terminated => TableP!Terminated
      BY <3>1 DEF Table!Terminated, TableP!Terminated, Table!AllAte, TableP!AllAte,
                  Table!vars, TableP!vars
    <3> QED
      BY <3>1, <3>4, <3>5 DEF Table!Next, TableP!Next
  <2>3. UNCHANGED lockVars => UNCHANGED LockP!vars
    BY DEF lockVars, LockP!vars
  <2>4. UNCHANGED diningVars => UNCHANGED TableP!vars
    BY DEF diningVars, TableP!vars
  <2> QED
    BY <2>1, <2>2, <2>3, <2>4
       DEF Next, vars, LockOnly, CondOnly, GroupOnly, QueueOnly, BarrierOnly, FutureOnly,
           DiningOnly
<1> QED
  BY <1>1, <1>2

(* The critical section of the queue lock is entered in the order of the          *)
(* exchanges, by one thread at a time, and no plate is used by two.            *)
THEOREM TakenInTurn == Spec => []InTurn
<1>1. LockP!Spec => []LockP!InTurn
  BY SyncAssumption, LockP!FirstComeFirstServed
<1>2. TableP!Spec => []TableP!PlatesApart
  BY TableP!PlatesAreApart
<1>3. LockP!InTurn /\ TableP!PlatesApart => InTurn
  BY DEF InTurn, Lock!InTurn, LockP!InTurn, Lock!Releasing, LockP!Releasing,
         Table!PlatesApart, TableP!PlatesApart, Table!At, TableP!At,
         Table!Philosophers, TableP!Philosophers, Table!ToRight, TableP!ToRight
<1> QED
  BY <1>1, <1>2, <1>3, ObjectsApart, PTL DEF Spec, LockP!Spec, TableP!Spec

(* Release() and Acquire() of the queue lock write to guards that exist, and the  *)
(* last Done() stores into a wait group that exists: its owner deletes it after   *)
(* the Wait()s, which return when the store is made.                          *)
THEOREM ObjectsAreLive ==
  ASSUME AddsFirst
  PROVE  Spec => []TouchesLiveObjects
<1>1. LockP!Spec => []LockP!TouchesLiveGuards
  BY SyncAssumption, LockP!GuardsAreLive
<1>2. LockP!TouchesLiveGuards => Lock!TouchesLiveGuards
  BY DEF LockP!TouchesLiveGuards, Lock!TouchesLiveGuards
<1>3. GroupInv => Group!StoreToLiveObject
  BY SyncAssumption DEF GroupInv, LastOne, Joined, Group!StoreToLiveObject
<1>4. Lock!TouchesLiveGuards /\ Group!StoreToLiveObject => TouchesLiveObjects
  BY DEF TouchesLiveObjects
<1> QED
  BY <1>1, <1>2, <1>3, <1>4, ObjectsApart, GroupInductive, PTL DEF Spec, LockP!Spec
=============================================================================
