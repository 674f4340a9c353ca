---------------------------- MODULE MCTasksProofs ----------------------------
(* Proofs about what MCTasks checks: a strand, for any numbers of submitters,       *)
(* threads of its executor and tasks; First and Both, for any interleaving of the  *)
(* three threads they have; any number of fibers that sleep; and any number of    *)
(* fibers that share a mutex, an event and a wait group.                        *)
EXTENDS MCTasks, FiniteSetTheorems, SequenceTheorems, TLAPS

-----------------------------------------------------------------------------
(* The strand.                                                               *)

AtWork == {"take", "taken", "more", "run"}

(* The jobs that hold a reference, and whoever is to launch one or has one. *)
Users == {r \in Runners : s_pc[r] \in AtWork \cup {"again", "release"}}
Hands == {s \in Submitters : s_pc[s] = "launch"} \cup {r \in Runners : s_pc[r] \in AtWork \cup {"again"}}

(* The submitters that have linked their task and have to count it, in size_ and  *)
(* then in scheduled_.                                                        *)
Unsized   == {s \in Submitters : s_pc[s] = "size"}
Uncounted == {s \in Submitters : s_pc[s] \in {"size", "count"}}

(* A job exists exactly if scheduled_ is positive, and then there is one. *)
OneJob ==
  \/ s_sched <= 0 /\ s_pending = 0 /\ Hands = {}
  \/ s_sched > 0 /\ s_pending = 1 /\ Hands = {}
  \/ s_sched > 0 /\ s_pending = 0 /\ \E a \in Hands : Hands = {a}

(* The two counters tell the length of the queue up to what is under way. *)
Balance ==
  /\ (\A r \in Runners : s_pc[r] # "taken") => s_size = Len(s_tasks) - Cardinality(Unsized)
  /\ (\A r \in Runners : s_pc[r] \notin AtWork) => s_sched = Len(s_tasks) - Cardinality(Uncounted)
  /\ \A r \in Runners :
       /\ s_pc[r] = "taken" => s_size = Len(s_tasks) - Cardinality(Unsized) + 1
       /\ s_pc[r] \in AtWork =>
            s_sched = Len(s_tasks) - Cardinality(Uncounted) + s_completed[r] + Len(s_batch[r])
       /\ s_pc[r] \in {"take", "taken"} => s_size >= 1
  /\ s_size >= 0

(* A job has in hand what comes between the tasks that ran and the queue. *)
Ordered ==
  /\ (\A r \in Runners : s_pc[r] \notin AtWork) => s_order = s_ran \o s_tasks
  /\ \A r \in Runners :
       IF s_pc[r] \in AtWork THEN s_order = s_ran \o s_batch[r] \o s_tasks
       ELSE s_batch[r] = <<>> /\ s_pc[r] # "crash"

Referenced ==
  /\ s_refs = (IF s_owner THEN 1 ELSE 0) + s_pending + Cardinality(Users)
  /\ s_owner \/ \A s \in Submitters : s_pc[s] = "idle"

(* The same from where r is, when no other job is at work. *)
Quiet(q) == s_pc[q] \notin AtWork \cup {"crash"} /\ s_batch[q] = <<>>

Books(r) ==
  /\ s_size >= 0 /\ (s_pc[r] \in {"take", "taken"} => s_size >= 1)
  /\ s_size = Len(s_tasks) - Cardinality(Unsized) + (IF s_pc[r] = "taken" THEN 1 ELSE 0)
  /\ IF s_pc[r] \in AtWork
     THEN /\ s_sched = Len(s_tasks) - Cardinality(Uncounted) + s_completed[r] + Len(s_batch[r])
          /\ s_order = s_ran \o s_batch[r] \o s_tasks
     ELSE /\ s_sched = Len(s_tasks) - Cardinality(Uncounted)
          /\ s_order = s_ran \o s_tasks
          /\ Quiet(r)

StrandInv == Strands!TypeOK /\ OneJob /\ Balance /\ Ordered /\ Referenced

(* Each step of Submit() and of Run() keeps the books. *)
LEMMA StrandInductive == (Init => StrandInv) /\ (StrandInv /\ [Next]_vars => StrandInv')
<1> USE StrandAssumption
<1> DEFINE
  All == Submitters \cup Runners
  At  == {"idle", "size", "count", "launch", "crash", "again", "release"} \cup AtWork
  Moves(a, to) == s_pc' = [s_pc EXCEPT ![a] = to]
(* Sequences, and subsets of the threads. *)
<1>0. ASSUME NEW s \in Seq(Tasks), NEW t \in Seq(Tasks), NEW e \in Tasks
      PROVE  /\ Append(s \o t, e) = s \o Append(t, e)
             /\ Append(t, e) \in Seq(Tasks) /\ Len(Append(t, e)) = Len(t) + 1
  OBVIOUS
<1>1. ASSUME NEW s \in Seq(Tasks), NEW t \in Seq(Tasks)
      PROVE  /\ t # <<>> => /\ Append(s, Head(t)) \o Tail(t) = s \o t
                            /\ Head(t) \in Tasks /\ Tail(t) \in Seq(Tasks) /\ Len(Tail(t)) = Len(t) - 1
             /\ s \o <<>> = s /\ s \o t \in Seq(Tasks) /\ Len(t) \in Nat /\ t = <<>> <=> Len(t) = 0
  <2>2. ASSUME t # <<>>
        PROVE  /\ Append(s, Head(t)) \o Tail(t) = s \o t
               /\ Head(t) \in Tasks /\ Tail(t) \in Seq(Tasks) /\ Len(Tail(t)) = Len(t) - 1
    <3>1. /\ Head(t) \in Tasks /\ Tail(t) \in Seq(Tasks) /\ Len(Tail(t)) = Len(t) - 1
          /\ \A i \in 1..Len(Tail(t)) : Tail(t)[i] = t[i + 1]
      BY <2>2, HeadTailProperties
    <3>2. Append(s, Head(t)) \in Seq(Tasks) /\ Len(t) \in Nat /\ Len(s) \in Nat /\ Len(t) # 0
      BY <2>2, <3>1, LenProperties, EmptySeq
    <3>3. Len(Append(s, Head(t)) \o Tail(t)) = Len(s \o t)
      BY <3>1, <3>2, ConcatProperties
    <3>4. \A i \in 1..Len(s \o t) : (Append(s, Head(t)) \o Tail(t))[i] = (s \o t)[i]
      BY <2>2, <3>1, <3>2, ConcatProperties
    <3>5. Append(s, Head(t)) \o Tail(t) = s \o t
      BY <3>1, <3>2, <3>3, <3>4, SeqEqual, ConcatProperties
    <3> QED
      BY <3>1, <3>5
  <2> QED
    BY <2>2, ConcatEmptySeq, ConcatProperties, LenProperties, EmptySeq
<1>2. ASSUME NEW X \in SUBSET All
      PROVE  /\ IsFiniteSet(X) /\ Cardinality(X) \in Nat
             /\ \A a \in All \ X : Cardinality(X \cup {a}) = Cardinality(X) + 1
             /\ \A a \in X : Cardinality(X \ {a}) = Cardinality(X) - 1
  <2>1. IsFiniteSet(X)
    BY FS_Union, FS_Subset
  <2> QED
    BY <2>1, FS_CardinalityType, FS_AddElement, FS_RemoveElement
(* Who moves leaves the others where they are. *)
<1>3. ASSUME StrandInv, NEW a \in All, NEW to \in At, Moves(a, to)
      PROVE  /\ s_pc' \in [All -> At] /\ s_pc'[a] = to
             /\ \A b \in All \ {a} : s_pc'[b] = s_pc[b]
  BY <1>3 DEF StrandInv, Strands!TypeOK, AtWork
(* There is one job at a time. *)
<1>4. ASSUME OneJob, NEW a \in Hands
      PROVE  s_sched > 0 /\ s_pending = 0 /\ Hands = {a}
  BY <1>4 DEF OneJob
<1>5. ASSUME Init PROVE StrandInv
  <2>1. Strands!Init
    BY <1>5 DEF Init
  <2>2. /\ Hands = {} /\ Users = {} /\ Unsized = {} /\ Uncounted = {}
        /\ s_tasks = <<>> /\ s_order = <<>> /\ s_ran = <<>> /\ <<>> \in Seq(Tasks)
        /\ \A r \in Runners : s_pc[r] = "idle" /\ s_batch[r] = <<>>
    BY <2>1 DEF Strands!Init, Hands, Users, Unsized, Uncounted, AtWork
  <2>3. Strands!TypeOK
    BY <2>1 DEF Strands!Init, Strands!TypeOK
  <2>4. Cardinality({}) = 0 /\ Len(s_tasks) = 0
    BY <2>2, FS_EmptySet
  <2>5. s_ran \o s_tasks = s_order
    BY <2>2
  <2> QED
    BY <2>1, <2>2, <2>3, <2>4, <2>5
       DEF StrandInv, Strands!Init, OneJob, Balance, Ordered, Referenced, AtWork
<1>6. ASSUME StrandInv, NEW s \in Submitters, Strands!Put(s) PROVE StrandInv'
  <2> USE <1>6 DEF StrandInv
  <2>1. PICK t \in Tasks : s_tasks' = Append(s_tasks, t) /\ s_order' = Append(s_order, t)
    BY DEF Strands!Put
  <2>2. /\ s_pc[s] = "idle" /\ s_owner /\ Moves(s, "size")
        /\ UNCHANGED <<s_size, s_sched, s_pending, s_batch, s_completed, s_refs, s_owner, s_ran>>
    BY DEF Strands!Put, Strands!Goto
  <2>3. /\ s_pc' \in [All -> At] /\ s_pc'[s] = "size" /\ s \notin Runners
        /\ \A b \in All \ {s} : s_pc'[b] = s_pc[b]
        /\ \A r \in Runners : s_pc'[r] = s_pc[r]
    BY <1>3, <2>2
  <2>4. /\ Unsized' = Unsized \cup {s} /\ s \notin Unsized /\ Unsized \in SUBSET All
        /\ Uncounted' = Uncounted \cup {s} /\ s \notin Uncounted /\ Uncounted \in SUBSET All
        /\ Hands' = Hands /\ Users' = Users
    BY <2>2, <2>3 DEF Unsized, Uncounted, Hands, Users, AtWork
  <2>5. /\ Cardinality(Unsized') = Cardinality(Unsized) + 1 /\ Cardinality(Unsized) \in Nat
        /\ Cardinality(Uncounted') = Cardinality(Uncounted) + 1 /\ Cardinality(Uncounted) \in Nat
    BY <1>2, <2>4
  <2>6. /\ s_tasks \in Seq(Tasks) /\ s_order \in Seq(Tasks) /\ s_ran \in Seq(Tasks)
        /\ s_batch \in [Runners -> Seq(Tasks)] /\ s_completed \in [Runners -> Nat]
        /\ s_size \in Int /\ s_sched \in Int
    BY DEF Strands!TypeOK
  <2>7. /\ Len(s_tasks) \in Nat /\ Len(s_tasks') = Len(s_tasks) + 1
        /\ s_tasks' \in Seq(Tasks) /\ s_order' \in Seq(Tasks)
    BY <1>0, <1>1, <2>1, <2>6
  <2>8. Strands!TypeOK'
    BY <2>2, <2>3, <2>7 DEF Strands!TypeOK, AtWork
  <2>9. OneJob' /\ Referenced'
    BY <2>2, <2>3, <2>4 DEF OneJob, Referenced
  <2>10. Balance'
    <3>2. ASSUME NEW r \in Runners
          PROVE  /\ s_pc'[r] = "taken" => s_size' = Len(s_tasks') - Cardinality(Unsized') + 1
                 /\ s_pc'[r] \in AtWork =>
                      s_sched' = Len(s_tasks') - Cardinality(Uncounted') + s_completed'[r] + Len(s_batch'[r])
                 /\ s_pc'[r] \in {"take", "taken"} => s_size' >= 1
      <4>1. Len(s_batch[r]) \in Nat /\ s_completed[r] \in Nat
        BY <1>1 DEF Strands!TypeOK
      <4>2. /\ s_pc'[r] = s_pc[r] /\ s_completed'[r] = s_completed[r] /\ Len(s_batch'[r]) = Len(s_batch[r])
            /\ s_size \in Int /\ s_sched \in Int /\ s_size' = s_size /\ s_sched' = s_sched
        BY <2>2, <2>3 DEF Strands!TypeOK
      <4>3. /\ s_pc[r] = "taken" => s_size = Len(s_tasks) - Cardinality(Unsized) + 1
            /\ s_pc[r] \in AtWork =>
                 s_sched = Len(s_tasks) - Cardinality(Uncounted) + s_completed[r] + Len(s_batch[r])
            /\ s_pc[r] \in {"take", "taken"} => s_size >= 1
        BY DEF Balance
      <4>4. s_pc[r] = "taken" => s_size' = Len(s_tasks') - Cardinality(Unsized') + 1
        BY <2>5, <2>7, <4>2, <4>3
      <4>5. s_pc[r] \in AtWork =>
              s_sched' = Len(s_tasks') - Cardinality(Uncounted') + s_completed[r] + Len(s_batch[r])
        BY <2>5, <2>7, <4>1, <4>2, <4>3
      <4> QED
        BY <4>2, <4>3, <4>4, <4>5
    <3>3. (\A r \in Runners : s_pc'[r] # "taken") => s_size' = Len(s_tasks') - Cardinality(Unsized')
      BY <2>2, <2>3, <2>5, <2>6, <2>7 DEF Balance
    <3>4. (\A r \in Runners : s_pc'[r] \notin AtWork)
            => s_sched' = Len(s_tasks') - Cardinality(Uncounted')
      BY <2>2, <2>3, <2>5, <2>6, <2>7 DEF Balance
    <3> QED
      BY <2>2, <3>2, <3>3, <3>4 DEF Balance
  <2>11. Ordered'
    <3>1. \A r \in Runners : s_ran \o s_batch[r] \in Seq(Tasks)
      BY <1>1, <2>6
    <3>2. ASSUME NEW x \in Seq(Tasks), s_order = x \o s_tasks PROVE s_order' = x \o s_tasks'
      <4>0. s_tasks \in Seq(Tasks)
        BY <2>6
      <4> HIDE <1>6 DEF StrandInv
      <4>1. Append(x \o s_tasks, t) = x \o Append(s_tasks, t)
        BY <1>0, <4>0
      <4> QED
        BY <2>1, <3>2, <4>1, Zenon
    <3> QED
      BY <2>2, <2>3, <2>6, <3>1, <3>2 DEF Ordered
  <2> QED
    BY <2>8, <2>9, <2>10, <2>11
<1>7. ASSUME StrandInv, NEW s \in Submitters, Strands!PutSize(s) PROVE StrandInv'
  <2> USE <1>7 DEF StrandInv
  <2>1. /\ s_pc[s] = "size" /\ Moves(s, "count") /\ s_size' = s_size + 1
        /\ UNCHANGED <<s_tasks, s_sched, s_pending, s_batch, s_completed, s_refs, s_owner, s_order, s_ran>>
    BY DEF Strands!PutSize, Strands!Goto
  <2>2. /\ s_pc' \in [All -> At] /\ s_pc'[s] = "count" /\ s \notin Runners
        /\ \A b \in All \ {s} : s_pc'[b] = s_pc[b]
        /\ \A r \in Runners : s_pc'[r] = s_pc[r]
    BY <1>3, <2>1
  <2>3. /\ Unsized' = Unsized \ {s} /\ s \in Unsized /\ Unsized \in SUBSET All
        /\ Uncounted' = Uncounted /\ Hands' = Hands /\ Users' = Users
    BY <2>1, <2>2 DEF Unsized, Uncounted, Hands, Users, AtWork
  <2>4. /\ Cardinality(Unsized') = Cardinality(Unsized) - 1 /\ Cardinality(Unsized) \in Nat
        /\ s_size \in Int /\ s_tasks \in Seq(Tasks) /\ Len(s_tasks) \in Nat
    BY <1>2, <2>3, LenProperties DEF Strands!TypeOK
  <2>5. Strands!TypeOK'
    BY <2>1, <2>2, <2>4 DEF Strands!TypeOK, AtWork
  <2>6. OneJob' /\ Referenced' /\ Ordered'
    BY <2>1, <2>2, <2>3 DEF OneJob, Referenced, Ordered
  <2>7. Balance'
    <3>1. ASSUME NEW r \in Runners
          PROVE  /\ s_pc'[r] = "taken" => s_size' = Len(s_tasks') - Cardinality(Unsized') + 1
                 /\ s_pc'[r] \in AtWork =>
                      s_sched' = Len(s_tasks') - Cardinality(Uncounted') + s_completed'[r] + Len(s_batch'[r])
                 /\ s_pc'[r] \in {"take", "taken"} => s_size' >= 1
      <4>1. Len(s_batch[r]) \in Nat /\ s_completed[r] \in Nat
        BY <1>1 DEF Strands!TypeOK
      <4>2. /\ s_pc'[r] = s_pc[r] /\ s_completed'[r] = s_completed[r] /\ Len(s_batch'[r]) = Len(s_batch[r])
            /\ s_size \in Int /\ s_sched \in Int
        BY <2>1, <2>2, <2>3, <2>4 DEF Strands!TypeOK
      <4>3. /\ s_pc[r] = "taken" => s_size = Len(s_tasks) - Cardinality(Unsized) + 1
            /\ s_pc[r] \in AtWork =>
                 s_sched = Len(s_tasks) - Cardinality(Uncounted) + s_completed[r] + Len(s_batch[r])
            /\ s_pc[r] \in {"take", "taken"} => s_size >= 1
        BY DEF Balance
      <4> QED
        BY <2>1, <2>2, <2>3, <2>4, <4>1, <4>2, <4>3
    <3>2. (\A r \in Runners : s_pc'[r] # "taken") => s_size' = Len(s_tasks') - Cardinality(Unsized')
      BY <2>1, <2>2, <2>3, <2>4 DEF Balance
    <3>3. (\A r \in Runners : s_pc'[r] \notin AtWork)
            => s_sched' = Len(s_tasks') - Cardinality(Uncounted')
      BY <2>1, <2>2, <2>3, <2>4 DEF Balance
    <3>4. s_size' >= 0
      BY <2>1, <2>2, <2>3, <2>4 DEF Balance
    <3> QED
      BY <3>1, <3>2, <3>3, <3>4 DEF Balance
  <2> QED
    BY <2>5, <2>6, <2>7
<1>8. ASSUME StrandInv, NEW s \in Submitters, Strands!Count(s) PROVE StrandInv'
  <2> USE <1>8 DEF StrandInv
  <2>1. /\ s_pc[s] = "count" /\ Moves(s, IF s_sched = 0 THEN "launch" ELSE "idle")
        /\ s_sched' = s_sched + 1
        /\ UNCHANGED <<s_tasks, s_size, s_pending, s_batch, s_completed, s_refs, s_owner, s_order, s_ran>>
    BY DEF Strands!Count, Strands!Goto
  <2>2. /\ s_pc' \in [All -> At] /\ s_pc'[s] = (IF s_sched = 0 THEN "launch" ELSE "idle")
        /\ s \notin Runners
        /\ \A b \in All \ {s} : s_pc'[b] = s_pc[b]
        /\ \A r \in Runners : s_pc'[r] = s_pc[r]
    BY <1>3, <2>1
  <2>3. /\ Uncounted' = Uncounted \ {s} /\ s \in Uncounted /\ Uncounted \in SUBSET All
        /\ Unsized' = Unsized /\ Users' = Users
        /\ Hands' = Hands \cup (IF s_sched = 0 THEN {s} ELSE {})
    BY <2>1, <2>2 DEF Unsized, Uncounted, Hands, Users, AtWork
  <2>4. /\ Cardinality(Uncounted') = Cardinality(Uncounted) - 1 /\ Cardinality(Uncounted) \in Nat
        /\ s_sched \in Int /\ s_tasks \in Seq(Tasks) /\ Len(s_tasks) \in Nat
        /\ s_batch \in [Runners -> Seq(Tasks)] /\ s_completed \in [Runners -> Nat]
    BY <1>2, <2>3, LenProperties DEF Strands!TypeOK
  <2>5. Strands!TypeOK'
    BY <2>1, <2>2, <2>4 DEF Strands!TypeOK, AtWork
  <2>6. Referenced' /\ Ordered'
    BY <2>1, <2>2, <2>3 DEF Referenced, Ordered
  <2>7. OneJob'
    <3>1. CASE s_sched = 0
      BY <2>1, <2>3, <3>1 DEF OneJob
    <3>2. CASE s_sched # 0
      BY <2>1, <2>3, <2>4, <3>2 DEF OneJob
    <3> QED
      BY <3>1, <3>2
  <2>8. Balance'
    <3>1. ASSUME NEW r \in Runners
          PROVE  /\ s_pc'[r] = "taken" => s_size' = Len(s_tasks') - Cardinality(Unsized') + 1
                 /\ s_pc'[r] \in AtWork =>
                      s_sched' = Len(s_tasks') - Cardinality(Uncounted') + s_completed'[r] + Len(s_batch'[r])
                 /\ s_pc'[r] \in {"take", "taken"} => s_size' >= 1
      <4>1. Len(s_batch[r]) \in Nat /\ s_completed[r] \in Nat
        BY <1>1 DEF Strands!TypeOK
      <4>2. /\ s_pc'[r] = s_pc[r] /\ s_completed'[r] = s_completed[r] /\ Len(s_batch'[r]) = Len(s_batch[r])
            /\ s_size \in Int /\ s_sched \in Int
        BY <2>1, <2>2, <2>3, <2>4 DEF Strands!TypeOK
      <4>3. /\ s_pc[r] = "taken" => s_size = Len(s_tasks) - Cardinality(Unsized) + 1
            /\ s_pc[r] \in AtWork =>
                 s_sched = Len(s_tasks) - Cardinality(Uncounted) + s_completed[r] + Len(s_batch[r])
            /\ s_pc[r] \in {"take", "taken"} => s_size >= 1
        BY DEF Balance
      <4> QED
        BY <2>1, <2>2, <2>3, <2>4, <4>1, <4>2, <4>3
    <3>2. (\A r \in Runners : s_pc'[r] # "taken") => s_size' = Len(s_tasks') - Cardinality(Unsized')
      BY <2>1, <2>2, <2>3, <2>4 DEF Balance
    <3>3. (\A r \in Runners : s_pc'[r] \notin AtWork)
            => s_sched' = Len(s_tasks') - Cardinality(Uncounted')
      BY <2>1, <2>2, <2>3, <2>4 DEF Balance
    <3>4. s_size' >= 0
      BY <2>1, <2>2, <2>3, <2>4 DEF Balance
    <3> QED
      BY <3>1, <3>2, <3>3, <3>4 DEF Balance
  <2> QED
    BY <2>5, <2>6, <2>7, <2>8
<1>9. ASSUME StrandInv, NEW s \in Submitters, Strands!Launch(s) PROVE StrandInv'
  <2> USE <1>9 DEF StrandInv
  <2>1. /\ s_pc[s] = "launch" /\ Moves(s, "idle")
        /\ s_pending' = s_pending + 1 /\ s_refs' = s_refs + 1
        /\ UNCHANGED <<s_tasks, s_size, s_sched, s_batch, s_completed, s_owner, s_order, s_ran>>
    BY DEF Strands!Launch, Strands!LaunchJob, Strands!Goto
  <2>2. /\ s_pc' \in [All -> At] /\ s_pc'[s] = "idle" /\ s \notin Runners
        /\ \A b \in All \ {s} : s_pc'[b] = s_pc[b]
        /\ \A r \in Runners : s_pc'[r] = s_pc[r]
    BY <1>3, <2>1
  <2>3. /\ Uncounted' = Uncounted /\ Unsized' = Unsized /\ Users' = Users /\ Users \in SUBSET All
        /\ Hands' = Hands \ {s} /\ s \in Hands
    BY <2>1, <2>2 DEF Unsized, Uncounted, Hands, Users, AtWork
  <2>4. s_pending = 0 /\ s_sched > 0 /\ Hands' = {} /\ Cardinality(Users) \in Nat /\ s_refs \in Nat
    BY <1>2, <1>4, <2>3 DEF Strands!TypeOK
  <2>5. Strands!TypeOK'
    BY <2>1, <2>2, <2>4 DEF Strands!TypeOK, AtWork
  <2>6. Referenced' /\ Ordered'
    BY <2>1, <2>2, <2>3, <2>4 DEF Referenced, Ordered
  <2>7. OneJob' /\ Balance'
    BY <2>1, <2>2, <2>3, <2>4 DEF OneJob, Balance
  <2> QED
    BY <2>5, <2>6, <2>7
<1>10. ASSUME StrandInv, Strands!DropOwner PROVE StrandInv'
  <2> USE <1>10 DEF StrandInv
  <2>1. /\ s_owner /\ s_owner' = FALSE /\ s_refs' = s_refs - 1
        /\ \A s \in Submitters : s_pc[s] = "idle"
        /\ UNCHANGED <<s_tasks, s_size, s_sched, s_pending, s_pc, s_batch, s_completed, s_order, s_ran>>
    BY DEF Strands!DropOwner
  <2>2. /\ Uncounted' = Uncounted /\ Unsized' = Unsized /\ Users' = Users /\ Users \in SUBSET All
        /\ Hands' = Hands
    BY <2>1 DEF Unsized, Uncounted, Hands, Users
  <2>3. Cardinality(Users) \in Nat /\ s_pending \in Nat
    BY <1>2, <2>2 DEF Strands!TypeOK
  <2>4. Referenced' /\ s_refs' \in Nat
    BY <2>1, <2>2, <2>3 DEF Referenced
  <2> QED
    BY <2>1, <2>2, <2>4 DEF Strands!TypeOK, OneJob, Balance, Ordered
(* A job that moves. *)
<1>11. ASSUME StrandInv, NEW r \in Runners, NEW to \in At, Moves(r, to)
       PROVE  /\ s_pc' \in [All -> At] /\ s_pc'[r] = to
              /\ \A b \in All \ {r} : s_pc'[b] = s_pc[b]
              /\ r \notin Submitters /\ \A s \in Submitters : s_pc'[s] = s_pc[s]
              /\ Unsized' = Unsized /\ Uncounted' = Uncounted
              /\ Cardinality(Unsized) \in Nat /\ Cardinality(Uncounted) \in Nat
              /\ Hands' = IF to \in AtWork \cup {"again"} THEN Hands \cup {r} ELSE Hands \ {r}
              /\ Users' = IF to \in AtWork \cup {"again", "release"} THEN Users \cup {r} ELSE Users \ {r}
  <2>1. /\ s_pc' \in [All -> At] /\ s_pc'[r] = to
        /\ \A b \in All \ {r} : s_pc'[b] = s_pc[b]
        /\ r \notin Submitters /\ \A s \in Submitters : s_pc'[s] = s_pc[s]
    BY <1>3, <1>11
  <2>2. Unsized' = Unsized /\ Uncounted' = Uncounted /\ Unsized \in SUBSET All /\ Uncounted \in SUBSET All
    BY <2>1 DEF Unsized, Uncounted
  <2>3. /\ Hands' = IF to \in AtWork \cup {"again"} THEN Hands \cup {r} ELSE Hands \ {r}
        /\ Users' = IF to \in AtWork \cup {"again", "release"} THEN Users \cup {r} ELSE Users \ {r}
    <3>1. CASE to \in AtWork \cup {"again"}
      BY <2>1, <3>1 DEF Hands, Users
    <3>2. CASE to \notin AtWork \cup {"again"}
      BY <2>1, <3>2 DEF Hands, Users
    <3> QED
      BY <3>1, <3>2
  <2> QED
    BY <1>2, <2>1, <2>2, <2>3
<1>12. ASSUME StrandInv, NEW r \in Runners, s_pc[r] \in AtWork \/ s_pending > 0
       PROVE  /\ \A q \in Runners \ {r} : Quiet(q)
              /\ Books(r) /\ s_sched > 0 /\ Len(s_tasks) \in Nat
              /\ s_pc[r] \in AtWork => Hands = {r} /\ s_pending = 0
              /\ s_pending > 0 => Hands = {} /\ s_pending = 1 /\ Quiet(r)
  <2> USE <1>12 DEF StrandInv
  <2>1. /\ s_sched > 0 /\ \A q \in Runners \ {r} : s_pc[q] \notin AtWork
        /\ s_pc[r] \in AtWork => Hands = {r} /\ s_pending = 0
        /\ s_pending > 0 => Hands = {} /\ s_pending = 1 /\ s_pc[r] \notin AtWork
    <3>1. CASE s_pc[r] \in AtWork
      <4>1. Hands = {r} /\ s_pending = 0 /\ s_sched > 0
        BY <1>4, <3>1 DEF Hands
      <4> QED
        BY <3>1, <4>1 DEF Hands
    <3>2. CASE s_pending > 0
      <4>1. Hands = {} /\ s_pending = 1 /\ s_sched > 0
        BY <3>2 DEF OneJob
      <4> QED
        BY <4>1 DEF Hands
    <3> QED
      BY <3>1, <3>2
  <2>2. /\ \A q \in Runners \ {r} : Quiet(q)
        /\ s_pc[r] \notin AtWork => Quiet(r)
    BY <2>1 DEF Ordered, Quiet, AtWork
  <2>3. /\ s_size = Len(s_tasks) - Cardinality(Unsized) + (IF s_pc[r] = "taken" THEN 1 ELSE 0)
        /\ s_size >= 0 /\ (s_pc[r] \in {"take", "taken"} => s_size >= 1)
        /\ Len(s_tasks) \in Nat
    <3>1. Len(s_tasks) \in Nat /\ Cardinality(Unsized) \in Nat
      BY <1>1, <1>2 DEF Strands!TypeOK, Unsized
    <3>2. CASE s_pc[r] = "taken"
      BY <3>1, <3>2 DEF Balance
    <3>3. CASE s_pc[r] # "taken"
      <4>1. \A q \in Runners : s_pc[q] # "taken"
        BY <2>1, <3>3 DEF AtWork
      <4> QED
        BY <3>1, <3>3, <4>1 DEF Balance
    <3> QED
      BY <3>2, <3>3, <3>1
  <2>4. Books(r)
    <3>1. CASE s_pc[r] \in AtWork
      <4>1. /\ s_sched = Len(s_tasks) - Cardinality(Uncounted) + s_completed[r] + Len(s_batch[r])
            /\ s_order = s_ran \o s_batch[r] \o s_tasks
        BY <3>1 DEF Balance, Ordered
      <4> QED
        BY <2>3, <3>1, <4>1 DEF Books
    <3>2. CASE s_pc[r] \notin AtWork
      <4>1. \A q \in Runners : s_pc[q] \notin AtWork
        BY <2>1, <3>2
      <4>2. /\ s_sched = Len(s_tasks) - Cardinality(Uncounted)
            /\ s_order = s_ran \o s_tasks
        BY <4>1 DEF Balance, Ordered
      <4> QED
        BY <2>2, <2>3, <3>2, <4>2 DEF Books
    <3> QED
      BY <3>1, <3>2
  <2> QED
    BY <2>1, <2>2, <2>3, <2>4
<1>13. ASSUME NEW r \in Runners, Books(r)', \A q \in Runners \ {r} : Quiet(q)',
              Len(s_tasks') \in Nat, Cardinality(Unsized') \in Nat
       PROVE  Balance' /\ Ordered'
  <2> USE <1>13
  <2>1. \A q \in Runners \ {r} :
          s_pc'[q] \notin AtWork /\ s_pc'[q] \notin {"take", "taken", "crash"} /\ s_batch'[q] = <<>>
    BY DEF Quiet, AtWork
  <2>2. Balance'
    <3>1. /\ s_pc'[r] = "taken" => s_size' = Len(s_tasks') - Cardinality(Unsized') + 1
          /\ s_pc'[r] # "taken" => s_size' = Len(s_tasks') - Cardinality(Unsized')
      BY DEF Books
    <3>2. (\A q \in Runners : s_pc'[q] # "taken") => s_size' = Len(s_tasks') - Cardinality(Unsized')
      BY <3>1
    <3>3. (\A q \in Runners : s_pc'[q] \notin AtWork)
            => s_sched' = Len(s_tasks') - Cardinality(Uncounted')
      BY DEF Books
    <3>4. ASSUME NEW q \in Runners
          PROVE  /\ s_pc'[q] = "taken" => s_size' = Len(s_tasks') - Cardinality(Unsized') + 1
                 /\ s_pc'[q] \in AtWork =>
                      s_sched' = Len(s_tasks') - Cardinality(Uncounted') + s_completed'[q] + Len(s_batch'[q])
                 /\ s_pc'[q] \in {"take", "taken"} => s_size' >= 1
      <4>1. CASE q = r
        BY <3>1, <4>1 DEF Books
      <4>2. CASE q # r
        BY <2>1, <4>2
      <4> QED
        BY <4>1, <4>2
    <3>5. s_size' >= 0
      BY DEF Books
    <3> QED
      BY <3>2, <3>3, <3>4, <3>5 DEF Balance
  <2>3. Ordered'
    BY <2>1 DEF Books, Ordered, Quiet, AtWork
  <2> QED
    BY <2>2, <2>3
<1>14. ASSUME StrandInv, NEW r \in Runners, Strands!Begin(r) PROVE StrandInv'
  <2> USE <1>14 DEF StrandInv
  <2>1. /\ s_pc[r] = "idle" /\ s_pending > 0 /\ Moves(r, "take")
        /\ s_pending' = s_pending - 1 /\ s_completed' = [s_completed EXCEPT ![r] = 0]
        /\ UNCHANGED <<s_tasks, s_size, s_sched, s_batch, s_refs, s_owner, s_order, s_ran>>
    BY DEF Strands!Begin, Strands!Goto
  <2>2. /\ s_pc' \in [All -> At] /\ s_pc'[r] = "take"
        /\ \A b \in All \ {r} : s_pc'[b] = s_pc[b]
        /\ r \notin Submitters /\ \A s \in Submitters : s_pc'[s] = s_pc[s]
        /\ Unsized' = Unsized /\ Uncounted' = Uncounted
        /\ Cardinality(Unsized) \in Nat /\ Cardinality(Uncounted) \in Nat
        /\ Hands' = Hands \cup {r} /\ Users' = Users \cup {r}
    <3>1. "take" \in At /\ "take" \in AtWork
      BY DEF AtWork
    <3> QED
      BY <1>11, <2>1, <3>1
  <2>3. /\ \A q \in Runners \ {r} : Quiet(q)
        /\ Books(r) /\ s_sched > 0 /\ Len(s_tasks) \in Nat
        /\ Hands = {} /\ s_pending = 1 /\ Quiet(r)
    BY <1>12, <2>1
  <2>4. /\ s_tasks \in Seq(Tasks) /\ s_ran \in Seq(Tasks) /\ s_size \in Int /\ s_sched \in Int
        /\ s_batch \in [Runners -> Seq(Tasks)] /\ s_completed' \in [Runners -> Nat]
    BY <2>1 DEF Strands!TypeOK
  <2>5. Strands!TypeOK'
    BY <2>1, <2>2, <2>3, <2>4 DEF Strands!TypeOK, AtWork
  <2>6. OneJob'
    BY <2>1, <2>2, <2>3 DEF OneJob
  <2>7. Referenced'
    <3>1. r \notin Users /\ Users \in SUBSET All
      BY <2>1 DEF Users, AtWork
    <3>2. Cardinality(Users') = Cardinality(Users) + 1 /\ Cardinality(Users) \in Nat
      BY <1>2, <2>2, <3>1
    <3> QED
      BY <2>1, <2>2, <2>3, <3>2 DEF Referenced
  <2>8. Books(r)'
    <3>1. s_sched = Len(s_tasks) - Cardinality(Uncounted) /\ s_order = s_ran \o s_tasks
          /\ s_size = Len(s_tasks) - Cardinality(Unsized) + 0
      BY <2>1, <2>3 DEF Books, AtWork
    <3>2. Cardinality(Unsized) <= Cardinality(Uncounted)
      <4>1. IsFiniteSet(Uncounted) /\ Unsized \subseteq Uncounted
        BY <1>2 DEF Unsized, Uncounted
      <4> QED
        BY <4>1, FS_Subset
    <3>3. s_size >= 1
      BY <2>2, <2>3, <3>1, <3>2
    <3>4. s_batch[r] = <<>> /\ s_completed'[r] = 0 /\ Len(s_batch[r]) = 0
      BY <2>1, <2>3 DEF Quiet, Strands!TypeOK
    <3>5. s_ran \o s_batch[r] = s_ran
      BY <1>1, <2>4, <3>4
    <3>6. s_sched' = Len(s_tasks') - Cardinality(Uncounted') + s_completed'[r] + Len(s_batch'[r])
      BY <2>1, <2>2, <2>3, <3>1, <3>4
    <3> QED
      BY <2>1, <2>2, <3>1, <3>3, <3>5, <3>6 DEF Books, AtWork
  <2>9. \A q \in Runners \ {r} : Quiet(q)'
    BY <2>1, <2>2, <2>3 DEF Quiet
  <2>10. Len(s_tasks') \in Nat /\ Cardinality(Unsized') \in Nat
    BY <2>1, <2>2, <2>3
  <2> QED
    BY <1>13, <2>5, <2>6, <2>7, <2>8, <2>9, <2>10
(* A job that stays at work. *)
<1>15. ASSUME StrandInv, NEW r \in Runners, NEW to \in AtWork, Moves(r, to), s_pc[r] \in AtWork,
              UNCHANGED <<s_sched, s_pending, s_refs, s_owner>>,
              \A q \in Runners \ {r} : s_batch'[q] = s_batch[q]
       PROVE  /\ s_pc' \in [All -> At] /\ s_pc'[r] = to
              /\ \A b \in All \ {r} : s_pc'[b] = s_pc[b]
              /\ r \notin Submitters /\ \A s \in Submitters : s_pc'[s] = s_pc[s]
              /\ Unsized' = Unsized /\ Uncounted' = Uncounted
              /\ Cardinality(Unsized) \in Nat /\ Cardinality(Uncounted) \in Nat
              /\ OneJob' /\ Referenced'
              /\ \A q \in Runners \ {r} : Quiet(q)'
              /\ Books(r) /\ s_sched > 0
  <2> USE <1>15 DEF StrandInv
  <2>1. /\ s_pc' \in [All -> At] /\ s_pc'[r] = to
        /\ \A b \in All \ {r} : s_pc'[b] = s_pc[b]
        /\ r \notin Submitters /\ \A s \in Submitters : s_pc'[s] = s_pc[s]
        /\ Unsized' = Unsized /\ Uncounted' = Uncounted
        /\ Cardinality(Unsized) \in Nat /\ Cardinality(Uncounted) \in Nat
        /\ Hands' = Hands \cup {r} /\ Users' = Users \cup {r}
    BY <1>11
  <2>2. /\ \A q \in Runners \ {r} : Quiet(q)
        /\ Books(r) /\ s_sched > 0 /\ Hands = {r}
    BY <1>12
  <2>3. OneJob' /\ Referenced'
    <3>1. Hands' = Hands /\ Users' = Users
      BY <2>1 DEF Hands, Users
    <3> QED
      BY <2>1, <3>1 DEF OneJob, Referenced
  <2>4. \A q \in Runners \ {r} : Quiet(q)'
    BY <2>1, <2>2 DEF Quiet
  <2> QED
    BY <2>1, <2>2, <2>3, <2>4
<1>16. ASSUME StrandInv, NEW r \in Runners, Strands!Take(r) PROVE StrandInv'
  <2> USE <1>16 DEF StrandInv
  <2>1. /\ s_pc[r] = "take"
        /\ UNCHANGED <<s_size, s_sched, s_pending, s_completed, s_refs, s_owner, s_order, s_ran>>
        /\ s_tasks # <<>> => /\ s_batch' = [s_batch EXCEPT ![r] = Append(s_batch[r], Head(s_tasks))]
                             /\ s_tasks' = Tail(s_tasks) /\ Moves(r, "taken")
    BY DEF Strands!Take, Strands!Goto
  <2>2. /\ s_tasks \in Seq(Tasks) /\ s_ran \in Seq(Tasks) /\ s_size \in Int /\ s_sched \in Int
        /\ s_batch \in [Runners -> Seq(Tasks)] /\ s_completed \in [Runners -> Nat]
    BY DEF Strands!TypeOK
  <2>3. Books(r) /\ Len(s_tasks) \in Nat
    BY <1>12, <2>1 DEF AtWork
  <2>4. s_size >= 1 /\ s_size = Len(s_tasks) - Cardinality(Unsized) + 0
    BY <2>1, <2>3 DEF Books
  <2>5. Len(s_tasks) > 0 /\ s_tasks # <<>>
    <3>1. Cardinality(Unsized) \in Nat
      BY <1>2 DEF Unsized
    <3>2. Len(s_tasks) > 0
      BY <2>3, <2>4, <3>1
    <3> QED
      BY <1>1, <2>2, <3>2
  <2>6. /\ s_batch' = [s_batch EXCEPT ![r] = Append(s_batch[r], Head(s_tasks))]
        /\ s_tasks' = Tail(s_tasks) /\ Moves(r, "taken")
        /\ Head(s_tasks) \in Tasks /\ s_tasks' \in Seq(Tasks) /\ Len(s_tasks') = Len(s_tasks) - 1
    BY <1>1, <2>1, <2>2, <2>5
  <2>7. /\ s_batch' \in [Runners -> Seq(Tasks)] /\ s_batch'[r] = Append(s_batch[r], Head(s_tasks))
        /\ Len(s_batch'[r]) = Len(s_batch[r]) + 1 /\ Len(s_batch[r]) \in Nat
        /\ \A q \in Runners \ {r} : s_batch'[q] = s_batch[q]
    <3>1. Append(s_batch[r], Head(s_tasks)) \in Seq(Tasks)
      BY <1>0, <2>2, <2>6
    <3> QED
      BY <1>0, <1>1, <2>2, <2>6, <3>1
  <2>8. /\ s_pc' \in [All -> At] /\ s_pc'[r] = "taken"
        /\ \A b \in All \ {r} : s_pc'[b] = s_pc[b]
        /\ r \notin Submitters /\ \A s \in Submitters : s_pc'[s] = s_pc[s]
        /\ Unsized' = Unsized /\ Uncounted' = Uncounted
        /\ Cardinality(Unsized) \in Nat /\ Cardinality(Uncounted) \in Nat
        /\ OneJob' /\ Referenced'
        /\ \A q \in Runners \ {r} : Quiet(q)'
    <3>1. "taken" \in AtWork /\ s_pc[r] \in AtWork
      BY <2>1 DEF AtWork
    <3> QED
      BY <1>15, <2>1, <2>6, <2>7, <3>1
  <2>9. Strands!TypeOK'
    BY <2>1, <2>6, <2>7, <2>8 DEF Strands!TypeOK, AtWork
  <2>10. Books(r)'
    <3>1. /\ s_sched = Len(s_tasks) - Cardinality(Uncounted) + s_completed[r] + Len(s_batch[r])
          /\ s_order = s_ran \o s_batch[r] \o s_tasks
      BY <2>1, <2>3 DEF Books, AtWork
    <3>2. s_ran \o s_batch'[r] \o s_tasks' = s_ran \o s_batch[r] \o s_tasks
      <4>1. s_ran \o s_batch[r] \in Seq(Tasks) /\ s_batch[r] \in Seq(Tasks)
        BY <1>1, <2>2
      <4>2. s_ran \o s_batch'[r] = Append(s_ran \o s_batch[r], Head(s_tasks))
        <5> HIDE <1>16 DEF StrandInv
        <5>1. s_ran \in Seq(Tasks) /\ s_batch[r] \in Seq(Tasks) /\ Head(s_tasks) \in Tasks
          BY <2>2, <2>6
        <5>2. Append(s_ran \o s_batch[r], Head(s_tasks)) = s_ran \o Append(s_batch[r], Head(s_tasks))
          BY <1>0, <5>1
        <5> QED
          BY <2>7, <5>2
      <4>3. Append(s_ran \o s_batch[r], Head(s_tasks)) \o Tail(s_tasks) = (s_ran \o s_batch[r]) \o s_tasks
        BY <1>1, <2>2, <2>5, <4>1
      <4> QED
        BY <2>6, <4>2, <4>3
    <3>3. s_size' = Len(s_tasks') - Cardinality(Unsized') + 1
      BY <2>1, <2>3, <2>4, <2>6, <2>8
    <3>4. s_sched' = Len(s_tasks') - Cardinality(Uncounted') + s_completed'[r] + Len(s_batch'[r])
      BY <2>1, <2>2, <2>3, <2>6, <2>7, <2>8, <3>1
    <3> QED
      BY <2>1, <2>2, <2>4, <2>8, <3>1, <3>2, <3>3, <3>4 DEF Books, AtWork
  <2>11. Len(s_tasks') \in Nat /\ Cardinality(Unsized') \in Nat
    BY <1>1, <2>6, <2>8
  <2> QED
    BY <1>13, <2>8, <2>9, <2>10, <2>11
<1>17. ASSUME StrandInv, NEW r \in Runners, Strands!TakeSize(r) \/ Strands!More(r) PROVE StrandInv'
  <2> USE <1>17 DEF StrandInv
  <2>1. /\ UNCHANGED <<s_tasks, s_sched, s_pending, s_batch, s_completed, s_refs, s_owner, s_order, s_ran>>
        /\ \/ s_pc[r] = "taken" /\ Moves(r, "more") /\ s_size' = s_size - 1
           \/ s_pc[r] = "more" /\ Moves(r, "take") /\ s_size' = s_size /\ s_size # 0
           \/ s_pc[r] = "more" /\ Moves(r, "run") /\ s_size' = s_size
    BY DEF Strands!TakeSize, Strands!More, Strands!Goto
  <2>2. PICK to \in {"more", "take", "run"} : Moves(r, to)
    BY <2>1
  <2>3. /\ s_pc' \in [All -> At] /\ s_pc'[r] = to
        /\ \A b \in All \ {r} : s_pc'[b] = s_pc[b]
        /\ r \notin Submitters /\ \A s \in Submitters : s_pc'[s] = s_pc[s]
        /\ Unsized' = Unsized /\ Uncounted' = Uncounted
        /\ Cardinality(Unsized) \in Nat /\ Cardinality(Uncounted) \in Nat
        /\ OneJob' /\ Referenced'
        /\ \A q \in Runners \ {r} : Quiet(q)'
        /\ Books(r)
    <3>1. to \in AtWork /\ s_pc[r] \in AtWork
      BY <2>1 DEF AtWork
    <3> QED
      BY <1>15, <2>1, <2>2, <3>1
  <2>4. Len(s_tasks) \in Nat /\ s_size \in Int /\ s_sched \in Int
    BY <1>1 DEF Strands!TypeOK
  <2>5. /\ s_size >= 0
        /\ s_size = Len(s_tasks) - Cardinality(Unsized) + (IF s_pc[r] = "taken" THEN 1 ELSE 0)
        /\ s_pc[r] = "taken" => s_size >= 1
        /\ s_sched = Len(s_tasks) - Cardinality(Uncounted) + s_completed[r] + Len(s_batch[r])
        /\ s_order = s_ran \o s_batch[r] \o s_tasks
    BY <2>1, <2>3 DEF Books, AtWork
  <2>6. /\ s_size' \in Int /\ s_size' >= 0 /\ s_size' = Len(s_tasks) - Cardinality(Unsized) + 0
        /\ to = "take" => s_size' >= 1
    <3>1. CASE s_pc[r] = "taken"
      BY <2>1, <2>3, <2>4, <2>5, <3>1
    <3>2. CASE s_pc[r] # "taken"
      BY <2>1, <2>3, <2>4, <2>5, <3>2
    <3> QED
      BY <3>1, <3>2
  <2>7. Strands!TypeOK'
    BY <2>1, <2>3, <2>6 DEF Strands!TypeOK, AtWork
  <2>8. Books(r)'
    BY <2>1, <2>3, <2>5, <2>6 DEF Books, AtWork
  <2>9. Len(s_tasks') \in Nat /\ Cardinality(Unsized') \in Nat
    BY <2>1, <2>3, <2>4
  <2> QED
    BY <1>13, <2>3, <2>7, <2>8, <2>9
<1>18. ASSUME StrandInv, NEW r \in Runners, Strands!RunTask(r) PROVE StrandInv'
  <2> USE <1>18 DEF StrandInv
  <2>1. /\ s_pc[r] = "run" /\ s_batch[r] # <<>> /\ s_pc' = s_pc
        /\ s_ran' = Append(s_ran, Head(s_batch[r]))
        /\ s_batch' = [s_batch EXCEPT ![r] = Tail(s_batch[r])]
        /\ s_completed' = [s_completed EXCEPT ![r] = s_completed[r] + 1]
        /\ UNCHANGED <<s_tasks, s_size, s_sched, s_pending, s_refs, s_owner, s_order>>
    BY DEF Strands!RunTask
  <2>2. /\ s_tasks \in Seq(Tasks) /\ s_ran \in Seq(Tasks) /\ s_sched \in Int /\ s_size \in Int
        /\ s_batch \in [Runners -> Seq(Tasks)] /\ s_completed \in [Runners -> Nat]
        /\ s_pc \in [All -> At]
    BY DEF Strands!TypeOK, AtWork
  <2>3. /\ s_batch' \in [Runners -> Seq(Tasks)] /\ s_batch'[r] = Tail(s_batch[r])
        /\ Len(s_batch'[r]) = Len(s_batch[r]) - 1 /\ Len(s_batch[r]) \in Nat
        /\ \A q \in Runners \ {r} : s_batch'[q] = s_batch[q]
        /\ s_completed' \in [Runners -> Nat] /\ s_completed'[r] = s_completed[r] + 1
        /\ s_ran' \in Seq(Tasks)
    <3>1. /\ Tail(s_batch[r]) \in Seq(Tasks) /\ Head(s_batch[r]) \in Tasks
          /\ Len(Tail(s_batch[r])) = Len(s_batch[r]) - 1 /\ Len(s_batch[r]) \in Nat
      BY <1>1, <2>1, <2>2
    <3>2. s_ran' \in Seq(Tasks)
      BY <1>0, <2>1, <2>2, <3>1
    <3> QED
      BY <2>1, <2>2, <3>1, <3>2
  <2>4. /\ Unsized' = Unsized /\ Uncounted' = Uncounted
        /\ Cardinality(Unsized) \in Nat /\ Cardinality(Uncounted) \in Nat
        /\ OneJob' /\ Referenced'
        /\ \A q \in Runners \ {r} : Quiet(q)'
        /\ Books(r)
    <3>1. Moves(r, "run") /\ "run" \in AtWork /\ s_pc[r] \in AtWork
      BY <2>1, <2>2 DEF AtWork
    <3> QED
      BY <1>15, <2>1, <2>3, <3>1
  <2>5. Strands!TypeOK'
    BY <2>1, <2>3 DEF Strands!TypeOK
  <2>6. Books(r)'
    <3>1. /\ s_sched = Len(s_tasks) - Cardinality(Uncounted) + s_completed[r] + Len(s_batch[r])
          /\ s_order = s_ran \o s_batch[r] \o s_tasks
          /\ s_size >= 0 /\ s_size = Len(s_tasks) - Cardinality(Unsized) + 0
      BY <2>1, <2>4 DEF Books, AtWork
    <3>2. s_ran' \o s_batch'[r] = s_ran \o s_batch[r]
      BY <1>1, <2>1, <2>2, <2>3
    <3>3. Len(s_tasks) \in Nat /\ s_completed[r] \in Nat
      BY <1>1, <2>2
    <3>4. s_sched' = Len(s_tasks') - Cardinality(Uncounted') + s_completed'[r] + Len(s_batch'[r])
      BY <2>1, <2>3, <2>4, <3>1, <3>3
    <3> QED
      BY <2>1, <2>4, <3>1, <3>2, <3>4 DEF Books, AtWork
  <2>7. Len(s_tasks') \in Nat /\ Cardinality(Unsized') \in Nat
    BY <1>1, <2>1, <2>2, <2>4
  <2> QED
    BY <1>13, <2>1, <2>4, <2>5, <2>6, <2>7
<1>19. ASSUME StrandInv, NEW r \in Runners, Strands!Finish(r) PROVE StrandInv'
  <2> USE <1>19 DEF StrandInv
  <2>1. /\ s_pc[r] = "run" /\ s_batch[r] = <<>> /\ s_sched' = s_sched - s_completed[r]
        /\ Moves(r, IF s_sched > s_completed[r] THEN "again" ELSE "release")
        /\ UNCHANGED <<s_tasks, s_size, s_pending, s_batch, s_completed, s_refs, s_owner, s_order, s_ran>>
    BY DEF Strands!Finish, Strands!Goto
  <2>2. PICK to \in {"again", "release"} :
          Moves(r, to) /\ to = (IF s_sched > s_completed[r] THEN "again" ELSE "release")
    BY <2>1
  <2>3. /\ s_pc' \in [All -> At] /\ s_pc'[r] = to
        /\ \A b \in All \ {r} : s_pc'[b] = s_pc[b]
        /\ r \notin Submitters /\ \A s \in Submitters : s_pc'[s] = s_pc[s]
        /\ Unsized' = Unsized /\ Uncounted' = Uncounted
        /\ Cardinality(Unsized) \in Nat /\ Cardinality(Uncounted) \in Nat
        /\ Hands' = (IF to = "again" THEN Hands \cup {r} ELSE Hands \ {r})
        /\ Users' = Users \cup {r}
    <3>1. to \in At /\ (to \in AtWork \cup {"again"} <=> to = "again") /\ to \in AtWork \cup {"again", "release"}
      BY DEF AtWork
    <3> QED
      BY <1>11, <2>2, <3>1
  <2>4. /\ \A q \in Runners \ {r} : Quiet(q)
        /\ Books(r) /\ s_sched > 0 /\ Len(s_tasks) \in Nat
        /\ Hands = {r} /\ s_pending = 0
    BY <1>12, <2>1 DEF AtWork
  <2>5. /\ s_tasks \in Seq(Tasks) /\ s_ran \in Seq(Tasks) /\ s_sched \in Int /\ s_size \in Int
        /\ s_completed[r] \in Nat /\ Len(s_batch[r]) = 0
    BY <2>1 DEF Strands!TypeOK
  <2>6. Strands!TypeOK'
    BY <2>1, <2>3, <2>5 DEF Strands!TypeOK, AtWork
  <2>7. OneJob'
    <3>1. CASE to = "again"
      BY <2>1, <2>2, <2>3, <2>4, <2>5, <3>1 DEF OneJob
    <3>2. CASE to = "release"
      BY <2>1, <2>2, <2>3, <2>4, <2>5, <3>2 DEF OneJob
    <3> QED
      BY <3>1, <3>2
  <2>8. Referenced'
    <3>1. Users' = Users
      BY <2>1, <2>3 DEF Users, AtWork
    <3> QED
      BY <2>1, <2>3, <3>1 DEF Referenced
  <2>9. Books(r)'
    <3>1. /\ s_sched = Len(s_tasks) - Cardinality(Uncounted) + s_completed[r] + Len(s_batch[r])
          /\ s_order = s_ran \o s_batch[r] \o s_tasks
          /\ s_size >= 0 /\ s_size = Len(s_tasks) - Cardinality(Unsized) + 0
      BY <2>1, <2>4 DEF Books, AtWork
    <3>2. s_ran \o s_batch[r] = s_ran
      BY <1>1, <2>1, <2>5
    <3>3. s_sched' = Len(s_tasks') - Cardinality(Uncounted')
      BY <2>1, <2>3, <2>4, <2>5, <3>1
    <3>4. to \notin AtWork \cup {"taken", "take", "crash"}
      BY DEF AtWork
    <3> QED
      BY <2>1, <2>3, <3>1, <3>2, <3>3, <3>4 DEF Books, Quiet
  <2>10. \A q \in Runners \ {r} : Quiet(q)'
    BY <2>1, <2>3, <2>4 DEF Quiet
  <2>11. Len(s_tasks') \in Nat /\ Cardinality(Unsized') \in Nat
    BY <2>1, <2>3, <2>4
  <2> QED
    BY <1>13, <2>6, <2>7, <2>8, <2>9, <2>10, <2>11
(* The job is over: it launches the next one, or lets Impl go. *)
<1>20. ASSUME StrandInv, NEW r \in Runners, Strands!Again(r) \/ Strands!Release(r) PROVE StrandInv'
  <2> USE <1>20 DEF StrandInv
  <2>1. /\ UNCHANGED <<s_tasks, s_size, s_sched, s_batch, s_completed, s_owner, s_order, s_ran>>
        /\ \/ /\ s_pc[r] = "again" /\ Moves(r, "release")
              /\ s_pending' = s_pending + 1 /\ s_refs' = s_refs + 1
           \/ /\ s_pc[r] = "release" /\ Moves(r, "idle")
              /\ s_pending' = s_pending /\ s_refs' = s_refs - 1
    BY DEF Strands!Again, Strands!Release, Strands!LaunchJob, Strands!Goto
  <2>2. PICK to \in {"release", "idle"} : Moves(r, to) /\ to = (IF s_pc[r] = "again" THEN "release" ELSE "idle")
    BY <2>1
  <2>3. /\ s_pc' \in [All -> At] /\ s_pc'[r] = to
        /\ \A b \in All \ {r} : s_pc'[b] = s_pc[b]
        /\ r \notin Submitters /\ \A s \in Submitters : s_pc'[s] = s_pc[s]
        /\ Unsized' = Unsized /\ Uncounted' = Uncounted
        /\ Hands' = Hands \ {r}
        /\ Users' = (IF to = "release" THEN Users \cup {r} ELSE Users \ {r})
    <3>1. to \in At /\ to \notin AtWork \cup {"again"} /\ (to \in AtWork \cup {"again", "release"} <=> to = "release")
      BY DEF AtWork
    <3> QED
      BY <1>11, <2>2, <3>1
  <2>4. /\ r \in Users /\ Users \in SUBSET All
        /\ Cardinality(Users \ {r}) = Cardinality(Users) - 1 /\ Cardinality(Users) \in Nat
        /\ s_refs \in Nat /\ s_pending \in Nat /\ s_sched \in Int
    <3>1. r \in Users /\ Users \in SUBSET All
      BY <2>1 DEF Users
    <3> QED
      BY <1>2, <3>1 DEF Strands!TypeOK
  <2>5. OneJob'
    <3>1. CASE s_pc[r] = "again"
      <4>1. r \in Hands
        BY <3>1 DEF Hands
      <4>2. s_sched > 0 /\ s_pending = 0 /\ Hands = {r}
        BY <1>4, <4>1
      <4> QED
        BY <2>1, <2>3, <3>1, <4>2 DEF OneJob
    <3>2. CASE s_pc[r] = "release"
      <4>1. r \notin Hands
        BY <2>3, <3>2 DEF Hands, AtWork
      <4> QED
        BY <2>1, <2>3, <3>2, <4>1 DEF OneJob
    <3> QED
      BY <2>1, <3>1, <3>2
  <2>6. Referenced'
    <3>1. CASE s_pc[r] = "again"
      <4>1. Users' = Users
        BY <2>2, <2>3, <2>4, <3>1
      <4>2. s_refs = (IF s_owner THEN 1 ELSE 0) + s_pending + Cardinality(Users)
        BY DEF Referenced
      <4>3. s_refs' = s_refs + 1 /\ s_pending' = s_pending + 1 /\ s_owner' = s_owner
        BY <2>1, <3>1
      <4>4. s_refs' = (IF s_owner' THEN 1 ELSE 0) + s_pending' + Cardinality(Users')
        BY <2>4, <4>1, <4>2, <4>3
      <4> QED
        BY <2>3, <4>3, <4>4 DEF Referenced
    <3>2. CASE s_pc[r] = "release"
      <4>1. Cardinality(Users') = Cardinality(Users) - 1
        BY <2>2, <2>3, <2>4, <3>2
      <4>2. s_refs = (IF s_owner THEN 1 ELSE 0) + s_pending + Cardinality(Users)
        BY DEF Referenced
      <4>3. s_refs' = s_refs - 1 /\ s_pending' = s_pending /\ s_owner' = s_owner
        BY <2>1, <3>2
      <4>4. s_refs' = (IF s_owner' THEN 1 ELSE 0) + s_pending' + Cardinality(Users')
        BY <2>4, <4>1, <4>2, <4>3
      <4> QED
        BY <2>3, <4>3, <4>4 DEF Referenced
    <3> QED
      BY <2>1, <3>1, <3>2
  <2>7. Strands!TypeOK'
    <3>1. s_refs' \in Nat /\ s_pending' \in Nat
      <4>1. s_refs = (IF s_owner THEN 1 ELSE 0) + s_pending + Cardinality(Users)
        BY DEF Referenced
      <4>2. Cardinality(Users) >= 1
        <5>1. Cardinality(Users \ {r}) \in Nat
          BY <1>2, <2>4
        <5> QED
          BY <2>4, <5>1
      <4> QED
        BY <2>1, <2>4, <4>1, <4>2
    <3> QED
      BY <2>1, <2>3, <3>1 DEF Strands!TypeOK, AtWork
  <2>8. \A q \in Runners : /\ (s_pc'[q] \in AtWork <=> s_pc[q] \in AtWork)
                           /\ s_pc[q] \in AtWork \cup {"crash"} => s_pc'[q] = s_pc[q]
                           /\ s_pc'[q] \in AtWork \cup {"crash"} => s_pc'[q] = s_pc[q]
    BY <2>1, <2>3 DEF AtWork
  <2>9. Ordered'
    BY <2>1, <2>8 DEF Ordered
  <2>10. Balance'
    BY <2>1, <2>3, <2>8 DEF Balance, AtWork
  <2> QED
    BY <2>5, <2>6, <2>7, <2>9, <2>10
<1>21. ASSUME StrandInv, UNCHANGED strandVars PROVE StrandInv'
  <2>1. /\ Hands' = Hands /\ Users' = Users /\ Unsized' = Unsized /\ Uncounted' = Uncounted
        /\ UNCHANGED <<s_tasks, s_size, s_sched, s_pending, s_pc, s_batch, s_completed, s_refs, s_owner, s_order, s_ran>>
    BY <1>21 DEF strandVars, Hands, Users, Unsized, Uncounted
  <2> QED
    BY <1>21, <2>1 DEF StrandInv, Strands!TypeOK, OneJob, Balance, Ordered, Referenced
<1>22. ASSUME [Next]_vars
       PROVE  \/ UNCHANGED strandVars \/ Strands!DropOwner
              \/ \E s \in Submitters : Strands!Put(s) \/ Strands!PutSize(s) \/ Strands!Count(s) \/ Strands!Launch(s)
              \/ \E r \in Runners :
                   \/ Strands!Begin(r) \/ Strands!Take(r) \/ Strands!TakeSize(r) \/ Strands!More(r)
                   \/ Strands!RunTask(r) \/ Strands!Finish(r) \/ Strands!Again(r) \/ Strands!Release(r)
  BY <1>22 DEF Next, vars, StrandOnly, CombineOnly, ChainOnly, FibersOnly, SleepOnly,
     Strands!Next, Strands!SubmitStep, Strands!RunStep, Strands!Terminated, Strands!vars, strandVars
<1> QED
  BY <1>5, <1>6, <1>7, <1>8, <1>9, <1>10, <1>14, <1>16, <1>17, <1>18, <1>19, <1>20, <1>21, <1>22

(* Jobs of a strand never overlap, although its executor has many threads and the  *)
(* job is launched by whoever finds scheduled_ at zero or above what it has done;  *)
(* tasks run in the order of their links, each once.                           *)
THEOREM StrandIsSerial == Spec => []OneByOneInOrder
<1>1. StrandInv => OneByOneInOrder
  <2> SUFFICES ASSUME StrandInv PROVE Strands!Serial /\ Strands!InOrder
    BY DEF OneByOneInOrder
  <2>1. \A r \in Runners : Strands!Active(r) <=> s_pc[r] \in AtWork
    BY DEF Strands!Active, AtWork
  <2>2. Strands!Serial
    BY <2>1 DEF StrandInv, OneJob, Hands, Strands!Serial
  <2>3. Strands!InOrder
    BY <2>1 DEF StrandInv, Ordered, Strands!InOrder
  <2> QED
    BY <2>2, <2>3
<1> QED
  BY <1>1, StrandInductive, PTL DEF Spec
-----------------------------------------------------------------------------
(* First and Both.                                                           *)

Callers == {1, 2, 3}
Outputs == {1, 2, 4}

(* What the thread t has still to do, and what some thread has. *)
Jobs(t) == {<<p_todo[t][k][1], p_todo[t][k][2]>> : k \in 1..Len(p_todo[t])}
ToDo(op, f) == \E t \in Callers : <<op, f>> \in Jobs(t)

Entries == {<<op, f>> : op \in {"publish", "store", "subscribe", "invoke", "assign", "count", "release", "get"},
                        f \in Outputs}
             \cup {<<"emplace", f, v>> : f \in Outputs, v \in {1, 2, 5}}

(* What a callback does with the output comes before all else, and the operations *)
(* on an input in this order; of those in one place there is one at most.        *)
Level == [emplace |-> 0, store |-> 0, get |-> 0, publish |-> 1, subscribe |-> 1, invoke |-> 1,
          assign |-> 2, count |-> 3, release |-> 4]
Rank(op, f) == Level[op] + (IF f = 4 /\ op \in {"emplace", "publish", "invoke"} THEN 0 ELSE 10 * f)

Stacked ==
  \A t \in Callers : \A j, k \in 1..Len(p_todo[t]) :
    j < k => Rank(p_todo[t][j][1], p_todo[t][j][2]) < Rank(p_todo[t][k][1], p_todo[t][k][2])

(* The producer i fulfils the input i, Main subscribes, and the callback of an      *)
(* input runs on one of the two.                                                *)
Programs ==
  \A t \in Callers : \A op \in DOMAIN Level, f \in Outputs :
    <<op, f>> \in Jobs(t) =>
      /\ op \in {"store", "subscribe", "get"} => t = 3
      /\ f \in {1, 2} => t \in {f, 3}
      /\ f \in {1, 2} /\ op \in {"emplace", "publish"} => t = f
      /\ op \in {"assign", "count", "release"} => f \in {1, 2}
      /\ op = "get" => f = 4

(* The callback of f is submitted by one thread, once, after both have been there. *)
Meeting(f) ==
  /\ p_invoked[f] \in {0, 1}
  /\ ToDo("publish", f) => p_state[f] # "ResultSet"
  /\ ToDo("subscribe", f) => p_state[f] # "CallbackSet"
  /\ ToDo("publish", f) \/ ToDo("subscribe", f) => ~ToDo("invoke", f) /\ p_invoked[f] = 0
  /\ ToDo("invoke", f) => p_invoked[f] = 0
  /\ \A op \in {"publish", "invoke"}, t, u \in Callers :
       <<op, f>> \in Jobs(t) /\ <<op, f>> \in Jobs(u) => t = u

(* The callback of an input runs on one thread, and releases its counter last. *)
Callbacks ==
  \A i \in {1, 2} : \A t \in Callers :
    /\ <<"assign", i>> \in Jobs(t) => <<"count", i>> \in Jobs(t)
    /\ <<"count", i>> \in Jobs(t) => <<"release", i>> \in Jobs(t) /\ ~Combine!Decides(i)
    /\ <<"release", i>> \in Jobs(t) => p_invoked[i] = 1
    /\ \A u \in Callers : <<"release", i>> \in Jobs(t) /\ <<"release", i>> \in Jobs(u) => t = u

(* The counters tell which callbacks are still to come, and whose value is missing. *)
Refers(i) == p_invoked[i] = 0 \/ ToDo("release", i)
Counts(i) == p_invoked[i] = 0 \/ ToDo("count", i) \/ Combine!Decides(i)

Counters ==
  /\ p_refs = (IF Refers(1) THEN 1 ELSE 0) + (IF Refers(2) THEN 1 ELSE 0)
  /\ p_counter = (IF Counts(1) THEN 1 ELSE 0) + (IF Counts(2) THEN 1 ELSE 0)
  /\ \A i \in {1, 2} : p_kind = "Both" /\ p_invoked[i] = 1 =>
       i \in p_tuple \/ ToDo("assign", i) \/ Combine!Decides(i)

(* Somebody has begun to fulfil the output. *)
Due == p_counter = 0 \/ \E i \in {1, 2} : Combine!Decides(i) /\ p_invoked[i] = 1

(* What may be put into the output. *)
Fits(v) ==
  /\ v = 5 => p_tuple = {1, 2}
  /\ v \in {1, 2} => Combine!Decides(v) \/ (p_kind = "First" /\ p_counter = 0)

Results ==
  /\ \A t \in Callers : \A k \in 1..Len(p_todo[t]) :
       p_todo[t][k][1] = "emplace" /\ p_todo[t][k][2] = 4 => Fits(p_todo[t][k][3])
  /\ Fits(p_result[4]) /\ Fits(p_got)

(* Unless both callbacks do it, the output is fulfilled once. *)
Single ==
  /\ Meeting(4)
  /\ ~Due => /\ ~ToDo("emplace", 4) /\ ~ToDo("publish", 4) /\ ~ToDo("invoke", 4)
             /\ p_state[4] # "ResultSet" /\ p_invoked[4] = 0 /\ p_result[4] = 0
  /\ \A t \in Callers : <<"emplace", 4>> \in Jobs(t) => <<"publish", 4>> \in Jobs(t) /\ p_result[4] = 0
  /\ p_first = p_result[4] /\ p_got \in {0, p_first}

CombineInv ==
  /\ Combine!TypeOK
  /\ p_kind \in {"First", "Both"} /\ p_outcome \in [{1, 2} -> {"ok", "error"}]
  /\ p_todo \in [Callers -> Seq(Entries)] /\ p_invoked \in [Outputs -> Nat]
  /\ Stacked /\ Programs /\ Callbacks /\ Counters /\ Results
  /\ Meeting(1) /\ Meeting(2)
  /\ Combine!Contested \/ Single

(* The operations of a thread come from the stack it began with and from the       *)
(* callbacks it ran on the way: who has the turn on an output is in the stacks,     *)
(* and a step replaces the top of one of them.                                  *)
LEMMA CombineInductive == (Init => CombineInv) /\ (CombineInv /\ [Next]_vars => CombineInv')
<1> DEFINE
  Pairs(c) == {<<c[k][1], c[k][2]>> : k \in 1..Len(c)}
  Steep(c) == \A j, k \in 1..Len(c) : j < k => Rank(c[j][1], c[j][2]) < Rank(c[k][1], c[k][2])
(* A thread replaces the first operation of its stack by others. *)
<1>1. ASSUME NEW S, NEW s \in Seq(S), NEW c \in Seq(S), s # <<>>
      PROVE  LET n == c \o Tail(s) IN
             /\ n \in Seq(S) /\ Len(s) \in Nat /\ Len(c) \in Nat /\ Len(n) = Len(c) + Len(s) - 1
             /\ Head(s) = s[1] /\ 1 \in 1..Len(s)
             /\ \A k \in 1..Len(c) : n[k] = c[k]
             /\ \A k \in 2..Len(s) : n[Len(c) + k - 1] = s[k]
             /\ \A k \in 1..Len(n) : k > Len(c) => k - Len(c) + 1 \in 2..Len(s) /\ n[k] = s[k - Len(c) + 1]
  <2>1. /\ Tail(s) \in Seq(S) /\ Len(Tail(s)) = Len(s) - 1 /\ Head(s) = s[1]
        /\ \A i \in 1..Len(Tail(s)) : Tail(s)[i] = s[i + 1]
        /\ Len(s) \in Nat \ {0} /\ Len(c) \in Nat
    BY <1>1
  <2> HIDE <1>1
  <2>2. \A a, b \in Seq(S) : /\ a \o b \in Seq(S) /\ Len(a \o b) = Len(a) + Len(b)
                            /\ \A i \in 1..Len(a) + Len(b) : (a \o b)[i] = IF i <= Len(a) THEN a[i] ELSE b[i - Len(a)]
    OBVIOUS
  <2> QED
    BY <2>1, <2>2
<1>2. ASSUME NEW S, NEW s \in Seq(S), NEW c \in Seq(S), NEW n \in Seq(S), Len(n) = Len(s) + Len(c),
             \A i \in 1..Len(s) : n[i] = s[i], \A i \in 1..Len(c) : n[Len(s) + i] = c[i]
      PROVE  s \o c = n
  <2>1. \A a, b \in Seq(S) : /\ a \o b \in Seq(S) /\ Len(a \o b) = Len(a) + Len(b)
                            /\ \A i \in 1..Len(a) + Len(b) : (a \o b)[i] = IF i <= Len(a) THEN a[i] ELSE b[i - Len(a)]
    OBVIOUS
  <2>2. ASSUME NEW i \in 1..Len(n) PROVE (s \o c)[i] = n[i]
    <3>1. Len(s) \in Nat /\ Len(c) \in Nat /\ i \in Int
      BY <1>2
    <3>2. CASE i <= Len(s)
      <4>1. i \in 1..Len(s) /\ i \in 1..Len(s) + Len(c)
        BY <1>2, <3>1, <3>2
      <4> QED
        BY <1>2, <2>1, <3>2, <4>1
    <3>3. CASE i > Len(s)
      <4>0. i \in Nat /\ i <= Len(s) + Len(c)
        BY <1>2, <3>1
      <4>1. i - Len(s) \in 1..Len(c) /\ i = Len(s) + (i - Len(s))
        BY <3>1, <3>3, <4>0
      <4>2. n[i] = c[i - Len(s)]
        BY <1>2, <4>1
      <4> QED
        <5>1. i \in 1..Len(s) + Len(c)
          BY <3>1, <3>3, <4>0
        <5>2. (s \o c)[i] = IF i <= Len(s) THEN s[i] ELSE c[i - Len(s)]
          BY <1>2, <2>1, <5>1
        <5> QED
          BY <3>1, <3>3, <4>0, <4>2, <5>2
    <3>4. i <= Len(s) \/ i > Len(s)
      BY <3>1
    <3> QED
      BY <3>2, <3>3, <3>4
  <2> QED
    BY <1>2, <2>1, <2>2, SeqEqual
<1>3. ASSUME NEW s \in Seq(Entries), NEW c \in Seq(Entries), s # <<>>, Steep(s), Steep(c),
             \A j \in 1..Len(c), k \in 2..Len(s) : Rank(c[j][1], c[j][2]) < Rank(s[k][1], s[k][2])
      PROVE  LET n == c \o Tail(s) IN
             /\ n \in Seq(Entries) /\ Steep(n)
             /\ \A x : x \in Pairs(n) <=> x \in Pairs(c) \/ (x \in Pairs(s) /\ x # <<s[1][1], s[1][2]>>)
  <2> DEFINE n == c \o Tail(s)
             R(e) == Rank(e[1], e[2])
  <2>1. /\ n \in Seq(Entries) /\ Len(s) \in Nat /\ Len(c) \in Nat /\ Len(n) = Len(c) + Len(s) - 1
        /\ 1 \in 1..Len(s)
        /\ \A k \in 1..Len(c) : n[k] = c[k]
        /\ \A k \in 2..Len(s) : n[Len(c) + k - 1] = s[k]
        /\ \A k \in 1..Len(n) : k > Len(c) => k - Len(c) + 1 \in 2..Len(s) /\ n[k] = s[k - Len(c) + 1]
    BY <1>1, <1>3
  <2>2. /\ \A j, k \in 1..Len(s) : j < k => R(s[j]) < R(s[k])
        /\ \A j, k \in 1..Len(c) : j < k => R(c[j]) < R(c[k])
        /\ \A j \in 1..Len(c), k \in 2..Len(s) : R(c[j]) < R(s[k])
    BY <1>3
  <2>9. \A e \in Entries : R(e) \in Nat
    BY DEF Entries, Rank, Level, Outputs
  <2>3. \A j, k \in 1..Len(n) : j < k => R(n[j]) < R(n[k])
    <3> HIDE DEF n, R
    <3> SUFFICES ASSUME NEW j \in 1..Len(n), NEW k \in 1..Len(n), j < k PROVE R(n[j]) < R(n[k])
      OBVIOUS
    <3>1. k \in Int /\ j \in Int /\ Len(c) \in Nat
      BY <2>1
    <3>2. CASE k <= Len(c)
      <4>1. k \in 1..Len(c) /\ j \in 1..Len(c)
        BY <3>1, <3>2
      <4>2. n[j] = c[j] /\ n[k] = c[k]
        BY <2>1, <4>1
      <4> QED
        BY <2>2, <4>1, <4>2
    <3>3. CASE k > Len(c)
      <4>1. k - Len(c) + 1 \in 2..Len(s) /\ n[k] = s[k - Len(c) + 1]
        BY <2>1, <3>3
      <4>2. CASE j <= Len(c)
        <5>1. j \in 1..Len(c) /\ n[j] = c[j]
          BY <2>1, <3>1, <4>2
        <5> QED
          BY <2>2, <4>1, <5>1
      <4>3. CASE j > Len(c)
        <5>1. j - Len(c) + 1 \in 2..Len(s) /\ n[j] = s[j - Len(c) + 1]
          BY <2>1, <4>3
        <5>2. k - Len(c) + 1 \in 1..Len(s) /\ j - Len(c) + 1 \in 1..Len(s) /\ j - Len(c) + 1 < k - Len(c) + 1
          BY <2>1, <3>1, <4>1, <5>1
        <5> QED
          BY <2>2, <4>1, <5>1, <5>2
      <4> QED
        BY <3>1, <4>2, <4>3
    <3> QED
      BY <3>1, <3>2, <3>3
  <2>4. ASSUME NEW x, x \in Pairs(n)
        PROVE  x \in Pairs(c) \/ (x \in Pairs(s) /\ x # <<s[1][1], s[1][2]>>)
    <3>1. PICK k \in 1..Len(n) : x = <<n[k][1], n[k][2]>>
      BY <2>4
    <3>2. CASE k \in 1..Len(c)
      BY <2>1, <3>1, <3>2
    <3>3. CASE k > Len(c)
      <4>1. PICK i \in 2..Len(s) : n[k] = s[i]
        BY <2>1, <3>3
      <4>2. R(s[1]) < R(s[i]) /\ s[1] \in Entries /\ s[i] \in Entries
        BY <2>1, <2>2
      <4>3. <<s[i][1], s[i][2]>> # <<s[1][1], s[1][2]>>
        BY <4>2, <2>9
      <4>4. i \in 1..Len(s)
        BY <2>1
      <4> QED
        BY <3>1, <4>1, <4>3, <4>4
    <3> QED
      BY <2>1, <3>2, <3>3
  <2>5. ASSUME NEW x, x \in Pairs(c) PROVE x \in Pairs(n)
    <3>1. PICK k \in 1..Len(c) : x = <<c[k][1], c[k][2]>>
      BY <2>5
    <3>2. k \in 1..Len(n) /\ n[k] = c[k]
      <4> HIDE DEF n
      <4> QED BY <2>1
    <3> QED
      BY <3>1, <3>2
  <2>6. ASSUME NEW x, x \in Pairs(s), x # <<s[1][1], s[1][2]>> PROVE x \in Pairs(n)
    <3>1. PICK k \in 1..Len(s) : x = <<s[k][1], s[k][2]>>
      BY <2>6
    <3>2. k \in 2..Len(s)
      BY <2>6, <3>1, <2>1
    <3>3. Len(c) + k - 1 \in 1..Len(n) /\ n[Len(c) + k - 1] = s[k]
      <4>1. Len(s) \in Nat /\ Len(c) \in Nat /\ Len(n) = Len(c) + Len(s) - 1
        BY <2>1
      <4>2. n[Len(c) + k - 1] = s[k]
        BY <2>1, <3>2
      <4> HIDE DEF n
      <4> QED BY <3>2, <4>1, <4>2
    <3> QED
      BY <3>1, <3>3
  <2> QED
    BY <2>1, <2>3, <2>4, <2>5, <2>6
<1>4. ASSUME CombineInv, NEW t \in Callers, p_todo[t] # <<>>
      PROVE  /\ p_todo[t] \in Seq(Entries) /\ Len(p_todo[t]) \in Nat /\ 1 \in 1..Len(p_todo[t])
             /\ Head(p_todo[t]) = p_todo[t][1] /\ p_todo[t][1] \in Entries
             /\ <<p_todo[t][1][1], p_todo[t][1][2]>> \in Jobs(t)
             /\ \A op, f : <<op, f>> \in Jobs(t) =>
                  \/ op = p_todo[t][1][1] /\ f = p_todo[t][1][2]
                  \/ Rank(p_todo[t][1][1], p_todo[t][1][2]) < Rank(op, f)
  <2>1. p_todo[t] \in Seq(Entries)
    BY <1>4 DEF CombineInv
  <2>2. Len(p_todo[t]) \in Nat \ {0} /\ Head(p_todo[t]) = p_todo[t][1] /\ p_todo[t][1] \in Entries
    BY <2>1, <1>4
  <2>3. 1 \in 1..Len(p_todo[t])
    BY <2>2
  <2>4. ASSUME NEW op, NEW f, <<op, f>> \in Jobs(t)
        PROVE  \/ op = p_todo[t][1][1] /\ f = p_todo[t][1][2]
               \/ Rank(p_todo[t][1][1], p_todo[t][1][2]) < Rank(op, f)
    <3>1. PICK k \in 1..Len(p_todo[t]) : op = p_todo[t][k][1] /\ f = p_todo[t][k][2]
      BY <2>4 DEF Jobs
    <3>2. k = 1 \/ 1 < k
      BY <2>2
    <3>3. 1 < k => Rank(p_todo[t][1][1], p_todo[t][1][2]) < Rank(p_todo[t][k][1], p_todo[t][k][2])
      BY <1>4, <2>3 DEF CombineInv, Stacked
    <3> QED
      BY <3>1, <3>2, <3>3
  <2> QED
    BY <2>1, <2>2, <2>3, <2>4 DEF Jobs
<1>5. ASSUME CombineInv, NEW t \in Callers, p_todo[t] # <<>>, NEW c \in Seq(Entries), Steep(c),
             \A j \in 1..Len(c) : \A op, f : <<op, f>> \in Jobs(t) =>
               \/ op = p_todo[t][1][1] /\ f = p_todo[t][1][2]
               \/ Rank(c[j][1], c[j][2]) < Rank(op, f),
             p_todo' = [p_todo EXCEPT ![t] = c \o Tail(@)]
      PROVE  /\ p_todo' \in [Callers -> Seq(Entries)] /\ Stacked'
             /\ \A u \in Callers : \A x : x \in Jobs(u)' <=>
                  IF u = t THEN x \in Pairs(c) \/ (x \in Jobs(t) /\ x # <<p_todo[t][1][1], p_todo[t][1][2]>>)
                  ELSE x \in Jobs(u)
             /\ \A u \in Callers : \A k \in 1..Len(p_todo'[u]) :
                  \/ \E j \in 1..Len(c) : p_todo'[u][k] = c[j]
                  \/ \E j \in 1..Len(p_todo[u]) : p_todo'[u][k] = p_todo[u][j]
  <2>1. /\ p_todo \in [Callers -> Seq(Entries)] /\ p_todo[t] \in Seq(Entries) /\ Len(p_todo[t]) \in Nat
        /\ \A u \in Callers : Steep(p_todo[u])
    BY <1>5, <1>4 DEF CombineInv, Stacked
  <2>2. p_todo'[t] = c \o Tail(p_todo[t]) /\ \A u \in Callers \ {t} : p_todo'[u] = p_todo[u]
    BY <1>5, <2>1
  <2>3. ASSUME NEW j \in 1..Len(c), NEW k \in 2..Len(p_todo[t])
        PROVE  Rank(c[j][1], c[j][2]) < Rank(p_todo[t][k][1], p_todo[t][k][2])
    <3>1. k \in 1..Len(p_todo[t]) /\ 1 \in 1..Len(p_todo[t]) /\ 1 < k
      BY <2>1
    <3>2. <<p_todo[t][k][1], p_todo[t][k][2]>> \in Jobs(t)
      BY <3>1 DEF Jobs
    <3>3. Rank(p_todo[t][1][1], p_todo[t][1][2]) < Rank(p_todo[t][k][1], p_todo[t][k][2])
      BY <2>1, <3>1
    <3>4. p_todo[t][1] \in Entries
      BY <2>1, <3>1
    <3>5. Rank(p_todo[t][1][1], p_todo[t][1][2]) \in Nat
      <4>1. \A e \in Entries : e[1] \in DOMAIN Level /\ e[2] \in Outputs
        BY DEF Entries, Level
      <4>2. \A o \in DOMAIN Level, g \in Outputs : Rank(o, g) \in Nat
        BY DEF Rank, Level, Outputs
      <4> QED
        BY <3>4, <4>1, <4>2
    <3>6. ~(p_todo[t][k][1] = p_todo[t][1][1] /\ p_todo[t][k][2] = p_todo[t][1][2])
      BY <3>3, <3>5
    <3> QED
      BY <1>5, <3>2, <3>6
  <2> DEFINE n == c \o Tail(p_todo[t])
  <2>4. /\ n \in Seq(Entries) /\ Steep(n)
        /\ \A x : x \in Pairs(n) <=> x \in Pairs(c) \/
             (x \in Pairs(p_todo[t]) /\ x # <<p_todo[t][1][1], p_todo[t][1][2]>>)
    <3> HIDE DEF Pairs, Steep
    <3> QED
      BY <1>3, <1>5, <2>1, <2>3
  <2>5. \A k \in 1..Len(n) : \/ \E j \in 1..Len(c) : n[k] = c[j]
                            \/ \E j \in 1..Len(p_todo[t]) : n[k] = p_todo[t][j]
    <3>1. ASSUME NEW k \in 1..Len(n)
          PROVE  (k \in 1..Len(c) /\ n[k] = c[k]) \/ \E i \in 2..Len(p_todo[t]) : n[k] = p_todo[t][i]
      <4>1. Len(c) \in Nat /\ k \in Nat
        BY <1>5
      <4>2. CASE k > Len(c)
        BY <1>1, <1>5, <2>1, <4>2
      <4>3. CASE k <= Len(c)
        <5>1. k \in 1..Len(c)
          BY <4>1, <4>3
        <5> QED
          BY <1>1, <1>5, <2>1, <5>1
      <4> QED
        BY <4>1, <4>2, <4>3
    <3> HIDE DEF n
    <3> QED
      BY <2>1, <3>1
  <2>6. p_todo'[t] = n /\ \A u \in Callers \ {t} : p_todo'[u] = p_todo[u]
    BY <2>2
  <2> HIDE DEF n
  <2>7. p_todo' \in [Callers -> Seq(Entries)]
    BY <1>5, <2>1, <2>4, <2>6
  <2>8. Stacked'
    <3>1. \A u \in Callers : Steep(p_todo'[u])
      <4> HIDE DEF Steep
      <4> QED BY <2>1, <2>4, <2>6
    <3> QED
      BY <3>1 DEF Stacked
  <2>9. ASSUME NEW u \in Callers, NEW x
        PROVE  x \in Jobs(u)' <=> IF u = t THEN x \in Pairs(c) \/
                 (x \in Jobs(t) /\ x # <<p_todo[t][1][1], p_todo[t][1][2]>>)
                                  ELSE x \in Jobs(u)
    <3>1. Jobs(u) = Pairs(p_todo[u]) /\ Jobs(u)' = Pairs(p_todo'[u])
      BY DEF Jobs
    <3> HIDE DEF Pairs
    <3> QED
      BY <2>4, <2>6, <3>1
  <2>10. ASSUME NEW u \in Callers, NEW k \in 1..Len(p_todo'[u])
         PROVE  \/ \E j \in 1..Len(c) : p_todo'[u][k] = c[j]
                \/ \E j \in 1..Len(p_todo[u]) : p_todo'[u][k] = p_todo[u][j]
    BY <2>5, <2>6
  <2> QED
    BY <2>7, <2>8, <2>9, <2>10
<1> DEFINE
  Does(t, op, f, c) ==                    \* t does op on f, and then has c to do before the rest
    /\ <<op, f>> \in Jobs(t) /\ op \in DOMAIN Level /\ f \in Outputs
    /\ \A o, g : <<o, g>> \in Jobs(t) => (o = op /\ g = f) \/ Rank(op, f) < Rank(o, g)
    /\ p_todo' \in [Callers -> Seq(Entries)] /\ Stacked'
    /\ \A u \in Callers : \A o, g :
         <<o, g>> \in Jobs(u)' <=>
           IF u = t THEN <<o, g>> \in Pairs(c) \/ (<<o, g>> \in Jobs(t) /\ ~(o = op /\ g = f))
           ELSE <<o, g>> \in Jobs(u)
    /\ \A u \in Callers : \A k \in 1..Len(p_todo'[u]) :
         \/ \E j \in 1..Len(c) : p_todo'[u][k] = c[j]
         \/ \E j \in 1..Len(p_todo[u]) : p_todo'[u][k] = p_todo[u][j]
<1>6. ASSUME CombineInv, NEW t \in Callers, p_todo[t] # <<>>, NEW op, NEW f,
             op = Head(p_todo[t])[1], f = Head(p_todo[t])[2]
      PROVE  /\ op \in DOMAIN Level /\ f \in Outputs /\ <<op, f>> \in Jobs(t)
             /\ op = "emplace" => p_todo[t][1] = <<op, f, p_todo[t][1][3]>> /\ p_todo[t][1][3] \in {1, 2, 5}
             /\ \A o, g : <<o, g>> \in Jobs(t) => o \in DOMAIN Level /\ g \in Outputs
  <2>1. p_todo[t][1] \in Entries /\ op = p_todo[t][1][1] /\ f = p_todo[t][1][2] /\ <<op, f>> \in Jobs(t)
    BY <1>4, <1>6
  <2>2. \A e \in Entries : e[1] \in DOMAIN Level /\ e[2] \in Outputs
    BY DEF Entries, Level
  <2>3. \A e \in Entries : e[1] = "emplace" => e = <<e[1], e[2], e[3]>> /\ e[3] \in {1, 2, 5}
    BY DEF Entries
  <2>4. \A k \in 1..Len(p_todo[t]) : p_todo[t][k] \in Entries
    <3>1. p_todo[t] \in Seq(Entries)
      BY <1>4, <1>6
    <3> QED
      BY <3>1
  <2> QED
    BY <2>1, <2>2, <2>3, <2>4 DEF Jobs
<1>7. ASSUME CombineInv, NEW t \in Callers, p_todo[t] # <<>>, NEW op, NEW f,
             op = Head(p_todo[t])[1], f = Head(p_todo[t])[2],
             NEW c \in Seq(Entries), Steep(c),
             \A x \in Pairs(c) : \A o, g : <<o, g>> \in Jobs(t) => (o = op /\ g = f) \/ Rank(x[1], x[2]) < Rank(o, g),
             p_todo' = [p_todo EXCEPT ![t] = c \o Tail(@)]
      PROVE  Does(t, op, f, c)
  <2>1. op = p_todo[t][1][1] /\ f = p_todo[t][1][2]
    BY <1>4, <1>7
  <2>2. \A j \in 1..Len(c) : \A o, g : <<o, g>> \in Jobs(t) =>
               \/ o = p_todo[t][1][1] /\ g = p_todo[t][1][2]
               \/ Rank(c[j][1], c[j][2]) < Rank(o, g)
    <3>1. \A j \in 1..Len(c) : <<c[j][1], c[j][2]>> \in Pairs(c)
      OBVIOUS
    <3> HIDE DEF Pairs
    <3> SUFFICES ASSUME NEW j \in 1..Len(c), NEW o, NEW g, <<o, g>> \in Jobs(t)
                 PROVE  (o = op /\ g = f) \/ Rank(c[j][1], c[j][2]) < Rank(o, g)
      BY <2>1
    <3>2. (o = op /\ g = f) \/ Rank(<<c[j][1], c[j][2]>>[1], <<c[j][1], c[j][2]>>[2]) < Rank(o, g)
      BY <1>7, <3>1
    <3> QED
      BY <3>2
  <2> HIDE DEF Pairs, Steep
  <2>3. /\ p_todo' \in [Callers -> Seq(Entries)] /\ Stacked'
        /\ \A u \in Callers : \A x : x \in Jobs(u)' <=>
             IF u = t THEN x \in Pairs(c) \/ (x \in Jobs(t) /\ x # <<p_todo[t][1][1], p_todo[t][1][2]>>)
             ELSE x \in Jobs(u)
        /\ \A u \in Callers : \A k \in 1..Len(p_todo'[u]) :
             \/ \E j \in 1..Len(c) : p_todo'[u][k] = c[j]
             \/ \E j \in 1..Len(p_todo[u]) : p_todo'[u][k] = p_todo[u][j]
    <3>1. CombineInv /\ p_todo[t] # <<>> /\ Steep(c) /\ p_todo' = [p_todo EXCEPT ![t] = c \o Tail(@)]
      BY <1>7
    <3> QED
      BY <1>5, <2>2, <3>1, ZenonT(30)
  <2>4. \A o, g : <<o, g>> \in Jobs(t) => (o = op /\ g = f) \/ Rank(op, f) < Rank(o, g)
    BY <1>4, <1>7, <2>1
  <2>5. ASSUME NEW u \in Callers, NEW o, NEW g
        PROVE  <<o, g>> \in Jobs(u)' <=>
                 IF u = t THEN <<o, g>> \in Pairs(c) \/ (<<o, g>> \in Jobs(t) /\ ~(o = op /\ g = f))
                 ELSE <<o, g>> \in Jobs(u)
    BY <2>1, <2>3
  <2>6. <<op, f>> \in Jobs(t) /\ op \in DOMAIN Level /\ f \in Outputs
    BY <1>6, <1>7
  <2> QED
    BY <2>3, <2>4, <2>5, <2>6
(* The sequences that a step can put on top of a stack. *)
<1>8. /\ <<>> \in Seq(Entries) /\ Steep(<<>>) /\ Pairs(<<>>) = {} /\ Len(<<>>) = 0
      /\ \A f \in Outputs : LET c == <<<<"invoke", f>>>> IN
           c \in Seq(Entries) /\ Steep(c) /\ Pairs(c) = {<<"invoke", f>>}
      /\ \A i \in {1, 2} : LET c == <<<<"count", i>>, <<"release", i>>>> IN
           c \in Seq(Entries) /\ Steep(c) /\ Pairs(c) = {<<"count", i>>, <<"release", i>>}
      /\ \A i \in {1, 2} : LET c == <<<<"assign", i>>, <<"count", i>>, <<"release", i>>>> IN
           c \in Seq(Entries) /\ Steep(c) /\ Pairs(c) = {<<"assign", i>>, <<"count", i>>, <<"release", i>>}
      /\ \A v \in {1, 2, 5} : LET c == <<<<"emplace", 4, v>>, <<"publish", 4>>>> IN
           c \in Seq(Entries) /\ Steep(c) /\ Pairs(c) = {<<"emplace", 4>>, <<"publish", 4>>}
      /\ \A i \in {1, 2} : LET c == <<<<"emplace", 4, i>>, <<"publish", 4>>, <<"release", i>>>> IN
           c \in Seq(Entries) /\ Steep(c) /\ Pairs(c) = {<<"emplace", 4>>, <<"publish", 4>>, <<"release", i>>}
  <2>1. <<>> \in Seq(Entries) /\ Steep(<<>>) /\ Pairs(<<>>) = {} /\ Len(<<>>) = 0
    OBVIOUS
  <2>2. ASSUME NEW f \in Outputs
        PROVE  LET c == <<<<"invoke", f>>>> IN
               c \in Seq(Entries) /\ Steep(c) /\ Pairs(c) = {<<"invoke", f>>}
    BY DEF Entries
  <2>3. ASSUME NEW i \in {1, 2} PROVE LET c == <<<<"count", i>>, <<"release", i>>>> IN
           c \in Seq(Entries) /\ Steep(c) /\ Pairs(c) = {<<"count", i>>, <<"release", i>>}
    BY DEF Entries, Rank, Level, Outputs
  <2>4. ASSUME NEW i \in {1, 2} PROVE LET c == <<<<"assign", i>>, <<"count", i>>, <<"release", i>>>> IN
           c \in Seq(Entries) /\ Steep(c) /\ Pairs(c) = {<<"assign", i>>, <<"count", i>>, <<"release", i>>}
    BY DEF Entries, Rank, Level, Outputs
  <2>5. ASSUME NEW v \in {1, 2, 5} PROVE LET c == <<<<"emplace", 4, v>>, <<"publish", 4>>>> IN
           c \in Seq(Entries) /\ Steep(c) /\ Pairs(c) = {<<"emplace", 4>>, <<"publish", 4>>}
    BY DEF Entries, Rank, Level, Outputs
  <2>6. ASSUME NEW i \in {1, 2} PROVE LET c == <<<<"emplace", 4, i>>, <<"publish", 4>>, <<"release", i>>>> IN
           c \in Seq(Entries) /\ Steep(c) /\ Pairs(c) = {<<"emplace", 4>>, <<"publish", 4>>, <<"release", i>>}
    BY DEF Entries, Rank, Level, Outputs
  <2> QED
    BY <2>1, <2>2, <2>3, <2>4, <2>5, <2>6
<1> HIDE DEF Does, Pairs, Steep
(* What is fit for the output stays so; and the invariant again, with the types apart. *)
<1>9. ASSUME CombineInv, UNCHANGED <<p_kind, p_outcome>>, p_tuple \subseteq p_tuple', p_tuple' \subseteq {1, 2},
             p_counter' = p_counter \/ p_counter # 0
      PROVE  /\ \A v : Fits(v) => Fits(v)'
             /\ \A t \in Callers : \A op, f, c :
                  /\ Does(t, op, f, c)
                  /\ \A j \in 1..Len(c) : \A v : c[j][1] = "emplace" /\ c[j][2] = 4 /\ v = c[j][3] => Fits(v)'
                  => (\A u \in Callers : \A k \in 1..Len(p_todo[u]) :
                        p_todo[u][k][1] = "emplace" /\ p_todo[u][k][2] = 4 => Fits(p_todo[u][k][3]))'
  <2>1. ASSUME NEW v, Fits(v) PROVE Fits(v)'
    BY <1>9, <2>1 DEF Fits, Combine!Decides
  <2>2. ASSUME NEW t \in Callers, NEW op, NEW f, NEW c, Does(t, op, f, c),
               \A j \in 1..Len(c) : \A v : c[j][1] = "emplace" /\ c[j][2] = 4 /\ v = c[j][3] => Fits(v)',
               NEW u \in Callers, NEW k \in 1..Len(p_todo'[u]), p_todo'[u][k][1] = "emplace", p_todo'[u][k][2] = 4,
               NEW v, v = p_todo'[u][k][3]
        PROVE  Fits(v)'
    <3>1. \/ \E j \in 1..Len(c) : p_todo'[u][k] = c[j]
          \/ \E j \in 1..Len(p_todo[u]) : p_todo'[u][k] = p_todo[u][j]
      BY <2>2 DEF Does
    <3>2. CASE \E j \in 1..Len(c) : p_todo'[u][k] = c[j]
      BY <2>2, <3>2
    <3>3. CASE \E j \in 1..Len(p_todo[u]) : p_todo'[u][k] = p_todo[u][j]
      BY <1>9, <2>1, <2>2, <3>3 DEF CombineInv, Results
    <3> QED
      BY <3>1, <3>2, <3>3
  <2> QED
    BY <2>1, <2>2
(* result_opt_.emplace() *)
<1>10. ASSUME CombineInv, NEW t \in Callers, Combine!Emplace(t), p_got' = p_got,
             p_first' = IF p_first = 0 THEN p_result'[4] ELSE p_first,
             UNCHANGED <<p_kind, p_outcome, p_counter, p_refs, p_tuple, p_invoked>>
      PROVE  CombineInv'
  <2>1. PICK f : f = Head(p_todo[t])[2]
    OBVIOUS
  <2>2. p_todo[t] # <<>> /\ Head(p_todo[t])[1] = "emplace"
    BY <1>10 DEF Combine!Emplace, Combine!At
  <2>3. Does(t, "emplace", f, <<>>)
    BY <1>7, <1>8, <1>10, <2>1, <2>2 DEF Combine!Emplace, Combine!Then
  <2>4. PICK v \in {1, 2, 5} : p_todo[t][1] = <<"emplace", f, v>> /\ p_result' = [p_result EXCEPT ![f] = v]
    BY <1>6, <1>4, <1>10, <2>1, <2>2 DEF Combine!Emplace, Combine!Now
  <2>5. UNCHANGED <<p_callback, p_state>>
    BY <1>10 DEF Combine!Emplace
  <2>6. \A u \in Callers : \A o, g :
          <<o, g>> \in Jobs(u)' <=> <<o, g>> \in Jobs(u) /\ ~(u = t /\ o = "emplace" /\ g = f)
    BY <1>8, <2>3 DEF Does
  <2>7. Combine!TypeOK' /\ Programs'
    <3>1. p_todo' \in [Callers -> Seq(Entries)] /\ f \in Outputs
      BY <2>3 DEF Does
    <3>2. Combine!TypeOK'
      BY <1>10, <2>4, <2>5, <3>1 DEF CombineInv, Combine!TypeOK, Outputs
    <3>3. Programs'
      BY <1>10, <2>6 DEF CombineInv, Programs
    <3> QED
      BY <3>2, <3>3
  <2>8. Meeting(1)' /\ Meeting(2)' /\ Callbacks'
    BY <1>10, <2>5, <2>6 DEF CombineInv, Meeting, Callbacks, ToDo, Combine!Decides
  <2>9. Counters'
    BY <1>10, <2>5, <2>6 DEF CombineInv, Counters, Refers, Counts, ToDo, Combine!Decides
  <2>10. Results'
    <3>1. /\ \A x : Fits(x) => Fits(x)'
          /\ (\A u \in Callers : \A k \in 1..Len(p_todo[u]) :
                 p_todo[u][k][1] = "emplace" /\ p_todo[u][k][2] = 4 => Fits(p_todo[u][k][3]))'
      <4>1. \A j \in 1..Len(<<>>) : FALSE
        BY <1>8
      <4>2. UNCHANGED <<p_kind, p_outcome, p_counter, p_tuple>> /\ p_tuple \subseteq {1, 2}
        BY <1>10 DEF CombineInv, Combine!TypeOK, Combine!Inputs
      <4> QED
        BY <1>9, <1>10, <2>3, <4>1, <4>2
    <3>2. f = 4 => Fits(v)
      BY <1>4, <1>10, <2>2, <2>4 DEF CombineInv, Results
    <3>3. p_result'[4] = IF f = 4 THEN v ELSE p_result[4]
      BY <1>10, <2>4 DEF CombineInv, Combine!TypeOK
    <3> QED
      BY <1>10, <3>1, <3>2, <3>3 DEF CombineInv, Results
  <2>11. (Combine!Contested \/ Single)'
    <3> SUFFICES ASSUME ~Combine!Contested PROVE Single'
      BY <1>10 DEF Combine!Contested, Combine!Decides, Combine!Inputs
    <3>1. Single
      BY <1>10 DEF CombineInv
    <3>2. Meeting(4)'
      BY <1>10, <2>5, <2>6, <3>1 DEF Single, Meeting, ToDo
    <3>3. Due' <=> Due
      BY <1>10 DEF Due, Combine!Decides
    <3>4. p_result \in [Outputs -> {1, 2, 5, 0}]
      BY <1>10 DEF CombineInv, Combine!TypeOK, Outputs
    <3>5. CASE f = 4
      <4>1. Due /\ p_result[4] = 0 /\ p_first = 0 /\ p_got = 0
        BY <2>3, <3>1, <3>5 DEF Does, Single, ToDo
      <4>2. \A u \in Callers : <<"emplace", 4>> \in Jobs(u) => u = t
        BY <2>3, <3>1, <3>5 DEF Does, Single, Meeting
      <4> QED
        BY <1>10, <2>4, <2>6, <3>1, <3>2, <3>3, <3>4, <3>5, <4>1, <4>2 DEF Single, ToDo
    <3>6. CASE f # 4
      <4>1. p_result'[4] = p_result[4]
        BY <2>4, <3>4, <3>6
      <4> QED
        BY <1>10, <2>5, <2>6, <3>1, <3>2, <3>3, <3>6, <4>1 DEF Single, ToDo
    <3> QED
      BY <3>5, <3>6
  <2> QED
    BY <1>10, <2>3, <2>7, <2>8, <2>9, <2>10, <2>11 DEF Does, CombineInv
(* The exchange of state_, by whoever comes first, and by the second. *)
<1>11. ASSUME CombineInv, NEW t \in Callers, Combine!Publish(t) \/ Combine!Subscribe(t), p_got' = p_got,
              p_first' = IF p_first = 0 THEN p_result'[4] ELSE p_first,
              UNCHANGED <<p_kind, p_outcome, p_counter, p_refs, p_tuple, p_invoked>>
       PROVE  CombineInv'
  <2>1. PICK f : f = Head(p_todo[t])[2]
    OBVIOUS
  <2>2. PICK op \in {"publish", "subscribe"} : op = Head(p_todo[t])[1]
    BY <1>11 DEF Combine!Publish, Combine!Subscribe, Combine!At
  <2>3. PICK c : /\ c = IF p_state[f] = (IF op = "publish" THEN "CallbackSet" ELSE "ResultSet")
                        THEN <<<<"invoke", f>>>> ELSE <<>>
                 /\ p_todo[t] # <<>> /\ p_todo' = [p_todo EXCEPT ![t] = c \o Tail(@)]
    BY <1>11, <2>1, <2>2 DEF Combine!Publish, Combine!Subscribe, Combine!At, Combine!Now, Combine!Then
  <2>4. /\ p_state' = [p_state EXCEPT ![f] = IF op = "publish" THEN "ResultSet" ELSE "CallbackSet"]
        /\ UNCHANGED <<p_result, p_callback>>
    BY <1>11, <2>1, <2>2 DEF Combine!Publish, Combine!Subscribe, Combine!At, Combine!Now
  <2>5. /\ f \in Outputs /\ <<op, f>> \in Jobs(t)
        /\ \A o, g : <<o, g>> \in Jobs(t) =>
             /\ o \in DOMAIN Level /\ g \in Outputs
             /\ (o = op /\ g = f) \/ Rank(op, f) < Rank(o, g)
    BY <1>4, <1>6, <1>11, <2>1, <2>2, <2>3
  <2>6. Rank("invoke", f) <= Rank(op, f) /\ Rank("invoke", f) \in Nat
    BY <2>2, <2>5 DEF Rank, Level, Outputs
  <2>7. c \in Seq(Entries) /\ Steep(c) /\ Pairs(c) = IF c = <<>> THEN {} ELSE {<<"invoke", f>>}
    BY <1>8, <2>3, <2>5
  <2>8. Does(t, op, f, c)
    <3>1. \A x \in Pairs(c) : x[1] = "invoke" /\ x[2] = f
      BY <2>7
    <3>2. \A o, g : o \in DOMAIN Level /\ g \in Outputs => Rank(o, g) \in Nat
      BY DEF Rank, Level, Outputs
    <3>3. \A x \in Pairs(c) : \A o, g : <<o, g>> \in Jobs(t) => (o = op /\ g = f) \/ Rank(x[1], x[2]) < Rank(o, g)
      BY <2>5, <2>6, <3>1, <3>2
    <3> QED
      BY <1>7, <1>11, <2>1, <2>2, <2>3, <2>7, <3>3
  <2>9. \A u \in Callers : \A o, g :
          <<o, g>> \in Jobs(u)' <=>
            \/ u = t /\ c # <<>> /\ o = "invoke" /\ g = f
            \/ <<o, g>> \in Jobs(u) /\ ~(u = t /\ o = op /\ g = f)
    BY <2>7, <2>8 DEF Does
  <2>10. Combine!TypeOK' /\ Programs'
    <3>1. Combine!TypeOK'
      BY <1>11, <2>2, <2>4, <2>5 DEF CombineInv, Combine!TypeOK, Outputs
    <3>2. Programs'
      <4>1. f \in {1, 2} => t \in {f, 3}
        BY <1>11, <2>2, <2>5 DEF CombineInv, Programs
      <4>2. ASSUME NEW u \in Callers, NEW o \in DOMAIN Level, NEW g \in Outputs, <<o, g>> \in Jobs(u)'
            PROVE  (o = "invoke" /\ u = t /\ g = f) \/ <<o, g>> \in Jobs(u)
        BY <2>9, <4>2
      <4> QED
        BY <1>11, <4>1, <4>2 DEF CombineInv, Programs
    <3> QED
      BY <3>1, <3>2
  <2>11. ASSUME NEW i \in {1, 2, 4}, Meeting(i) PROVE Meeting(i)'
    <3>1. \A g \in Outputs : p_state'[g] = IF g = f THEN (IF op = "publish" THEN "ResultSet" ELSE "CallbackSet")
                                          ELSE p_state[g]
      BY <1>11, <2>4 DEF CombineInv, Combine!TypeOK, Outputs
    <3>2. CASE i # f
      BY <1>11, <2>9, <2>11, <3>1, <3>2 DEF Meeting, ToDo, Outputs
    <3>3. CASE i = f
      <4>1. ToDo(op, f) /\ ~ToDo("invoke", f) /\ p_invoked[f] = 0
        BY <2>2, <2>5, <2>11, <3>3 DEF Meeting, ToDo
      <4>2. \A u \in Callers : <<op, f>> \in Jobs(u) => u = t
        BY <1>11, <2>2, <2>5, <2>11, <3>3 DEF Meeting, CombineInv, Programs, Level, Outputs
      <4>3. ~ToDo(op, f)'
        BY <2>2, <2>9, <4>2 DEF ToDo
      <4>4. \A u \in Callers : <<"invoke", f>> \in Jobs(u)' <=> u = t /\ c # <<>>
        BY <2>2, <2>9, <4>1 DEF ToDo
      <4>5. \A o \in {"publish", "subscribe"} : ToDo(o, f)' => ToDo(o, f) /\ o # op
        BY <2>2, <2>9, <4>3 DEF ToDo
      <4>6. c # <<>> => ~ToDo("publish", f)' /\ ~ToDo("subscribe", f)'
        BY <2>2, <2>3, <2>11, <3>3, <4>5 DEF Meeting
      <4>7. ToDo("invoke", f)' => c # <<>>
        BY <4>4 DEF ToDo
      <4>8. (ToDo("publish", f) => p_state[f] # "ResultSet")' /\ (ToDo("subscribe", f) => p_state[f] # "CallbackSet")'
        BY <2>2, <2>5, <2>11, <3>1, <3>3, <4>5
      <4>9. (\A o \in {"publish", "invoke"}, u, v \in Callers :
               <<o, f>> \in Jobs(u) /\ <<o, f>> \in Jobs(v) => u = v)'
        BY <2>9, <2>11, <3>3, <4>4 DEF Meeting
      <4> QED
        BY <1>11, <2>11, <3>3, <4>1, <4>6, <4>7, <4>8, <4>9 DEF Meeting
    <3> QED
      BY <3>2, <3>3
  <2>12. Callbacks'
    BY <1>11, <2>2, <2>9 DEF CombineInv, Callbacks, Combine!Decides
  <2>13. Counters'
    BY <1>11, <2>2, <2>9 DEF CombineInv, Counters, Refers, Counts, ToDo, Combine!Decides
  <2>14. Results'
    <3>1. \A j \in 1..Len(c) : c[j][1] # "emplace"
      BY <1>8, <2>3
    <3>2. /\ \A x : Fits(x) => Fits(x)'
          /\ (\A u \in Callers : \A k \in 1..Len(p_todo[u]) :
                 p_todo[u][k][1] = "emplace" /\ p_todo[u][k][2] = 4 => Fits(p_todo[u][k][3]))'
      BY <1>9, <1>11, <2>8, <3>1 DEF CombineInv, Combine!TypeOK, Combine!Inputs
    <3> QED
      BY <1>11, <2>4, <3>2 DEF CombineInv, Results
  <2>15. (Combine!Contested \/ Single)'
    <3> SUFFICES ASSUME ~Combine!Contested PROVE Single'
      BY <1>11 DEF Combine!Contested, Combine!Decides, Combine!Inputs
    <3>1. Single /\ (Due' <=> Due)
      BY <1>11 DEF CombineInv, Due, Combine!Decides
    <3>2. Meeting(4)'
      BY <2>11, <3>1 DEF Single
    <3>3. ASSUME ~Due'
          PROVE  ~ToDo("emplace", 4)' /\ ~ToDo("publish", 4)' /\ ~ToDo("invoke", 4)' /\ p_state'[4] # "ResultSet"
      <4>1. ~ToDo("emplace", 4) /\ ~ToDo("publish", 4) /\ ~ToDo("invoke", 4) /\ p_state[4] # "ResultSet"
        BY <3>1, <3>3 DEF Single
      <4>2. ~(op = "publish" /\ f = 4) /\ (f = 4 => c = <<>>)
        BY <2>2, <2>3, <2>5, <4>1 DEF ToDo
      <4>3. p_state'[4] # "ResultSet"
        BY <1>11, <2>2, <2>4, <4>1, <4>2 DEF CombineInv, Combine!TypeOK
      <4> QED
        BY <2>9, <4>1, <4>2, <4>3 DEF ToDo
    <3>4. (\A u \in Callers : <<"emplace", 4>> \in Jobs(u) => <<"publish", 4>> \in Jobs(u) /\ p_result[4] = 0)'
      <4>1. ASSUME <<"emplace", 4>> \in Jobs(t), op = "publish", f = 4 PROVE FALSE
        BY <2>5, <4>1 DEF Rank, Level
      <4> QED
        BY <2>2, <2>4, <2>9, <3>1, <4>1 DEF Single
    <3> QED
      BY <1>11, <2>4, <3>1, <3>2, <3>3, <3>4 DEF Single
  <2> QED
    BY <1>11, <2>8, <2>10, <2>11, <2>12, <2>13, <2>14, <2>15 DEF Does, CombineInv
(* Operations that neither fulfil anything nor add others: the callback is stored, *)
(* or the consumer gets the result, with Get or in its callback.                 *)
<1>12. ASSUME CombineInv, NEW t \in Callers, NEW op \in {"store", "get", "invoke"}, NEW f,
              p_todo[t] # <<>>, op = Head(p_todo[t])[1], f = Head(p_todo[t])[2], op = "invoke" => f = 4,
              p_todo' = [p_todo EXCEPT ![t] = <<>> \o Tail(@)],
              UNCHANGED <<p_result, p_state, p_kind, p_outcome, p_counter, p_refs, p_tuple>>,
              p_callback' = p_callback \/ p_callback' =
                [p_callback EXCEPT ![f] = IF op = "store" THEN "set" ELSE "moved"],
              p_got' = (IF op = "store" THEN p_got ELSE p_result[4]),
              p_first' = p_first \/ (p_first' = IF p_first = 0 THEN p_result[4] ELSE p_first),
              p_invoked' = IF op = "invoke" THEN [p_invoked EXCEPT ![f] = @ + 1] ELSE p_invoked
       PROVE  CombineInv'
  <2>3. Does(t, op, f, <<>>)
    BY <1>7, <1>8, <1>12
  <2>4. f \in Outputs /\ <<op, f>> \in Jobs(t) /\ Stacked' /\ p_todo' \in [Callers -> Seq(Entries)]
    BY <2>3 DEF Does
  <2>5. /\ p_invoked' \in [Outputs -> Nat] /\ \A i \in {1, 2} : p_invoked'[i] = p_invoked[i]
        /\ p_invoked'[4] = IF op = "invoke" THEN p_invoked[4] + 1 ELSE p_invoked[4]
    BY <1>12, <2>4 DEF CombineInv, Outputs
  <2>6. \A u \in Callers : \A o, g :
          <<o, g>> \in Jobs(u)' <=> <<o, g>> \in Jobs(u) /\ ~(u = t /\ o = op /\ g = f)
    BY <1>8, <2>3 DEF Does
  <2>7. Combine!TypeOK'
    BY <1>12, <2>4 DEF CombineInv, Combine!TypeOK, Outputs
  <2>8. Programs' /\ Meeting(1)' /\ Meeting(2)' /\ Callbacks'
    BY <1>12, <2>5, <2>6 DEF CombineInv, Programs, Meeting, Callbacks, ToDo, Combine!Decides
  <2>9. Counters'
    BY <1>12, <2>5, <2>6 DEF CombineInv, Counters, Refers, Counts, ToDo, Combine!Decides
  <2>10. Results'
    <3>1. \A j \in 1..Len(<<>>) : FALSE
      BY <1>8
    <3>2. p_tuple \subseteq {1, 2}
      BY <1>12 DEF CombineInv, Combine!TypeOK, Combine!Inputs
    <3>3. /\ \A x : Fits(x) => Fits(x)'
          /\ (\A u \in Callers : \A k \in 1..Len(p_todo[u]) :
                 p_todo[u][k][1] = "emplace" /\ p_todo[u][k][2] = 4 => Fits(p_todo[u][k][3]))'
      BY <1>9, <1>12, <2>3, <3>1, <3>2
    <3> QED
      BY <1>12, <3>3 DEF CombineInv, Results
  <2>11. (Combine!Contested \/ Single)'
    <3> SUFFICES ASSUME ~Combine!Contested PROVE Single'
      BY <1>12 DEF Combine!Contested, Combine!Decides, Combine!Inputs
    <3>1. Single /\ (Due' <=> Due) /\ p_first' = p_first
      BY <1>12, <2>5 DEF CombineInv, Due, Combine!Decides, Single
    <3>2. Meeting(4)'
      <4>1. op = "invoke" => /\ p_invoked[4] = 0 /\ ToDo("invoke", 4) /\ ~ToDo("publish", 4) /\ ~ToDo("subscribe", 4)
                             /\ \A u \in Callers : <<"invoke", 4>> \in Jobs(u) => u = t
        BY <1>12, <2>4, <3>1 DEF Single, Meeting, ToDo
      <4>2. op = "invoke" => ~ToDo("invoke", 4)'
        BY <1>12, <2>6, <4>1 DEF ToDo
      <4> QED
        BY <1>12, <2>5, <2>6, <3>1, <4>1, <4>2 DEF Single, Meeting, ToDo
    <3>3. ~Due' => p_invoked'[4] = 0
      BY <1>12, <2>4, <2>5, <3>1 DEF Single, ToDo
    <3> QED
      BY <1>12, <2>6, <3>1, <3>2, <3>3 DEF Single, ToDo
  <2> QED
    BY <1>12, <2>4, <2>5, <2>7, <2>8, <2>9, <2>10, <2>11 DEF CombineInv
(* The value of an input is in the tuple; the counter is released. *)
<1>13. ASSUME CombineInv, NEW t \in Callers, Combine!Assign(t) \/ Combine!Release(t) PROVE CombineInv'
  <2>1. PICK f : f = Head(p_todo[t])[2]
    OBVIOUS
  <2>2. PICK op \in {"assign", "release"} :
          /\ op = Head(p_todo[t])[1] /\ p_todo[t] # <<>> /\ p_todo' = [p_todo EXCEPT ![t] = <<>> \o Tail(@)]
          /\ p_tuple' = (IF op = "assign" THEN p_tuple \cup {f} ELSE p_tuple)
          /\ p_refs' = (IF op = "release" THEN p_refs - 1 ELSE p_refs)
          /\ UNCHANGED <<p_result, p_callback, p_state, p_kind, p_outcome, p_counter, p_invoked, p_got, p_first>>
    BY <1>13, <2>1 DEF Combine!Assign, Combine!Release, Combine!At, Combine!Now, Combine!Then
  <2>3. Does(t, op, f, <<>>)
    <3>1. op = Head(p_todo[t])[1] /\ p_todo[t] # <<>> /\ p_todo' = [p_todo EXCEPT ![t] = <<>> \o Tail(@)]
      BY <2>2
    <3>2. <<>> \in Seq(Entries) /\ Steep(<<>>) /\ \A x \in Pairs(<<>>) : FALSE
      BY <1>8
    <3> QED
      BY <1>7, <1>13, <2>1, <3>1, <3>2
  <2>4. /\ f \in {1, 2} /\ <<op, f>> \in Jobs(t) /\ Stacked' /\ p_todo' \in [Callers -> Seq(Entries)]
        /\ \A o, g : <<o, g>> \in Jobs(t) => (o = op /\ g = f) \/ Rank(op, f) < Rank(o, g)
    BY <1>13, <2>2, <2>3 DEF Does, CombineInv, Programs
  <2>6. \A u \in Callers : \A o, g :
          <<o, g>> \in Jobs(u)' <=> <<o, g>> \in Jobs(u) /\ ~(u = t /\ o = op /\ g = f)
    BY <1>8, <2>3 DEF Does
  <2>7. Programs' /\ Meeting(1)' /\ Meeting(2)'
    BY <1>13, <2>2, <2>6 DEF CombineInv, Programs, Meeting, ToDo
  <2>8. <<"release", f>> \in Jobs(t) /\ p_invoked[f] = 1 /\ \A u \in Callers : <<"release", f>> \in Jobs(u) => u = t
    BY <1>13, <2>2, <2>4 DEF CombineInv, Callbacks
  <2>9. op = "release" => <<"count", f>> \notin Jobs(t) /\ <<"assign", f>> \notin Jobs(t)
    BY <2>4 DEF Rank, Level
  <2>10. Callbacks'
    BY <1>13, <2>2, <2>4, <2>6, <2>9 DEF CombineInv, Callbacks, Combine!Decides
  <2>11. /\ Refers(f) /\ \A i \in {1, 2} : Counts(i)' <=> Counts(i)
         /\ \A i \in {1, 2} : Refers(i)' <=> (Refers(i) /\ ~(op = "release" /\ i = f))
         /\ \A i \in {1, 2} : ToDo("assign", i)' <=> (ToDo("assign", i) /\ ~(op = "assign" /\ i = f))
    <3>1. \A u \in Callers : <<"assign", f>> \in Jobs(u) => u = t
      BY <1>13, <2>4, <2>8 DEF CombineInv, Callbacks
    <3>2. Refers(f)
      BY <2>8 DEF Refers, ToDo
    <3>3. ASSUME NEW i \in {1, 2} PROVE Counts(i)' <=> Counts(i)
      BY <2>2, <2>6 DEF Counts, ToDo, Combine!Decides
    <3>4. ASSUME NEW i \in {1, 2} PROVE Refers(i)' <=> (Refers(i) /\ ~(op = "release" /\ i = f))
      BY <2>2, <2>6, <2>8 DEF Refers, ToDo
    <3>5. ASSUME NEW i \in {1, 2} PROVE ToDo("assign", i)' <=> (ToDo("assign", i) /\ ~(op = "assign" /\ i = f))
      BY <2>2, <2>6, <3>1 DEF ToDo
    <3> QED
      BY <3>2, <3>3, <3>4, <3>5
  <2>12. Counters' /\ p_refs' \in 0..2
    BY <1>13, <2>2, <2>4, <2>11 DEF CombineInv, Counters, Combine!Decides
  <2>13. Combine!TypeOK'
    BY <1>13, <2>2, <2>4, <2>12 DEF CombineInv, Combine!TypeOK, Combine!Inputs
  <2>14. Results'
    <3>1. \A j \in 1..Len(<<>>) : FALSE
      BY <1>8
    <3>2. p_tuple' \subseteq {1, 2} /\ p_tuple \subseteq p_tuple'
      BY <1>13, <2>2, <2>4 DEF CombineInv, Combine!TypeOK, Combine!Inputs
    <3>3. /\ \A x : Fits(x) => Fits(x)'
          /\ (\A u \in Callers : \A k \in 1..Len(p_todo[u]) :
                 p_todo[u][k][1] = "emplace" /\ p_todo[u][k][2] = 4 => Fits(p_todo[u][k][3]))'
      BY <1>9, <1>13, <2>2, <2>3, <3>1, <3>2
    <3> QED
      BY <1>13, <2>2, <3>3 DEF CombineInv, Results
  <2>15. (Combine!Contested \/ Single)'
    <3> SUFFICES ASSUME ~Combine!Contested PROVE Single'
      BY <2>2 DEF Combine!Contested, Combine!Decides, Combine!Inputs
    <3>1. Single /\ (Due' <=> Due)
      BY <1>13, <2>2 DEF CombineInv, Due, Combine!Decides
    <3>2. Meeting(4)'
      BY <2>2, <2>6, <3>1 DEF Single, Meeting, ToDo
    <3> QED
      BY <2>2, <2>6, <3>1, <3>2 DEF Single, ToDo
  <2> QED
    BY <1>13, <2>2, <2>4, <2>7, <2>10, <2>12, <2>13, <2>14, <2>15 DEF CombineInv
(* A callback without a result for the output counts itself; the last one has it. *)
<1>14. ASSUME CombineInv, NEW t \in Callers, Combine!Count(t) PROVE CombineInv'
  <2>1. PICK f : f = Head(p_todo[t])[2]
    OBVIOUS
  <2>v. PICK v : v = IF p_kind = "First" THEN f ELSE 5
    OBVIOUS
  <2>2. PICK c : /\ c = IF p_counter = 1 THEN <<<<"emplace", 4, v>>, <<"publish", 4>>>> ELSE <<>>
                 /\ "count" = Head(p_todo[t])[1] /\ p_todo[t] # <<>> /\ p_todo' = [p_todo EXCEPT ![t] = c \o Tail(@)]
                 /\ p_counter' = p_counter - 1
                 /\ UNCHANGED <<p_result, p_callback, p_state, p_kind, p_outcome,
                                p_refs, p_tuple, p_invoked, p_got, p_first>>
    BY <1>14, <2>1, <2>v DEF Combine!Count, Combine!At, Combine!Now, Combine!Then, Combine!SetResult
  <2>3. /\ f \in {1, 2} /\ <<"count", f>> \in Jobs(t)
        /\ \A o, g : <<o, g>> \in Jobs(t) =>
             o \in DOMAIN Level /\ g \in Outputs /\ ((o = "count" /\ g = f) \/ Rank("count", f) < Rank(o, g))
    <3>1. /\ f \in Outputs /\ <<"count", f>> \in Jobs(t) /\ "count" \in DOMAIN Level
          /\ \A o, g : <<o, g>> \in Jobs(t) => o \in DOMAIN Level /\ g \in Outputs
      BY <1>6, <1>14, <2>1, <2>2
    <3>2. \A o, g : <<o, g>> \in Jobs(t) => (o = "count" /\ g = f) \/ Rank("count", f) < Rank(o, g)
      BY <1>4, <1>14, <2>1, <2>2
    <3> QED
      BY <1>14, <3>1, <3>2 DEF CombineInv, Programs
  <2>4. v \in {1, 2, 5} /\ c \in Seq(Entries) /\ Steep(c)
        /\ Pairs(c) = IF p_counter = 1 THEN {<<"emplace", 4>>, <<"publish", 4>>} ELSE {}
    <3>1. v \in {1, 2, 5}
      BY <2>v, <2>3
    <3>2. CASE p_counter = 1
      BY <1>8, <2>2, <3>1, <3>2
    <3>3. CASE p_counter # 1
      BY <1>8, <2>2, <3>1, <3>3
    <3> QED
      BY <3>2, <3>3
  <2>5. Does(t, "count", f, c)
    <3>1. \A x \in Pairs(c) : x[1] \in {"emplace", "publish"} /\ x[2] = 4
      BY <2>4
    <3>2. \A o, g : o \in DOMAIN Level /\ g \in Outputs /\ Rank("count", f) < Rank(o, g) =>
            Rank("emplace", 4) < Rank(o, g) /\ Rank("publish", 4) < Rank(o, g)
      BY <2>3 DEF Rank, Level, Outputs
    <3>3. \A x \in Pairs(c) : \A o, g : <<o, g>> \in Jobs(t) =>
            (o = "count" /\ g = f) \/ Rank(x[1], x[2]) < Rank(o, g)
      BY <2>3, <3>1, <3>2
    <3>4. "count" = Head(p_todo[t])[1] /\ p_todo[t] # <<>> /\ p_todo' = [p_todo EXCEPT ![t] = c \o Tail(@)]
      BY <2>2
    <3> QED
      BY <1>7, <1>14, <2>1, <2>4, <3>3, <3>4
  <2>6. /\ Stacked' /\ p_todo' \in [Callers -> Seq(Entries)]
        /\ \A u \in Callers : \A o, g :
             <<o, g>> \in Jobs(u)' <=>
               \/ u = t /\ p_counter = 1 /\ o \in {"emplace", "publish"} /\ g = 4
               \/ <<o, g>> \in Jobs(u) /\ ~(u = t /\ o = "count" /\ g = f)
    BY <2>4, <2>5 DEF Does
  <2>7. Programs' /\ Meeting(1)' /\ Meeting(2)'
    BY <1>14, <2>2, <2>3, <2>6 DEF CombineInv, Programs, Meeting, ToDo
  <2>8. /\ p_invoked[f] = 1 /\ ~Combine!Decides(f) /\ <<"assign", f>> \notin Jobs(t)
        /\ \A u \in Callers : <<"count", f>> \in Jobs(u) \/ <<"assign", f>> \in Jobs(u) => u = t
    <3>1. <<"assign", f>> \notin Jobs(t)
      BY <2>3 DEF Rank, Level
    <3> QED
      BY <1>14, <2>3, <3>1 DEF CombineInv, Callbacks
  <2>9. Callbacks'
    <3>1. UNCHANGED p_invoked /\ \A i \in {1, 2} : Combine!Decides(i)' <=> Combine!Decides(i)
      BY <2>2 DEF Combine!Decides
    <3>2. \A u \in Callers, i \in {1, 2} :
            /\ <<"assign", i>> \in Jobs(u)' <=> <<"assign", i>> \in Jobs(u)
            /\ <<"release", i>> \in Jobs(u)' <=> <<"release", i>> \in Jobs(u)
            /\ <<"count", i>> \in Jobs(u)' <=> <<"count", i>> \in Jobs(u) /\ ~(u = t /\ i = f)
      BY <2>6
    <3>3. \A i \in {1, 2} : <<"assign", i>> \in Jobs(t) => i # f
      BY <2>8
    <3>4. Callbacks
      BY <1>14 DEF CombineInv
    <3> QED
      BY <3>1, <3>2, <3>3, <3>4 DEF Callbacks
  <2>10. /\ Counts(f) /\ ~Counts(f)' /\ \A i \in {1, 2} \ {f} : Counts(i)' <=> Counts(i)
         /\ \A i \in {1, 2} : Refers(i)' <=> Refers(i)
         /\ \A i \in {1, 2} : ToDo("assign", i)' <=> ToDo("assign", i)
    <3>1. Counts(f) /\ ~Counts(f)'
      <4>1. Counts(f)
        BY <2>3 DEF Counts, ToDo
      <4>2. ~ToDo("count", f)'
        BY <2>6, <2>8 DEF ToDo
      <4>3. p_invoked'[f] = 1 /\ ~Combine!Decides(f)'
        BY <2>2, <2>8 DEF Combine!Decides
      <4> QED
        BY <4>1, <4>2, <4>3 DEF Counts
    <3>2. \A i \in {1, 2} \ {f} : Counts(i)' <=> Counts(i)
      BY <2>2, <2>6 DEF Counts, ToDo, Combine!Decides
    <3>3. \A i \in {1, 2} : Refers(i)' <=> Refers(i)
      BY <2>2, <2>6 DEF Refers, ToDo
    <3>4. \A i \in {1, 2} : ToDo("assign", i)' <=> ToDo("assign", i)
      BY <2>6 DEF ToDo
    <3> QED
      BY <3>1, <3>2, <3>3, <3>4
  <2>11. Counters' /\ p_counter \in {1, 2}
    BY <1>14, <2>2, <2>3, <2>10 DEF CombineInv, Counters, Combine!Decides
  <2>12. Combine!TypeOK'
    BY <1>14, <2>2, <2>11 DEF CombineInv, Combine!TypeOK
  <2>13. p_counter = 1 => /\ \A i \in {1, 2} : p_invoked[i] = 1 /\ ~Combine!Decides(i)
                          /\ p_kind = "Both" => p_tuple = {1, 2}
    <3>1. p_counter = 1 => \A i \in {1, 2} : ~Counts(i)'
      BY <1>14, <2>3, <2>10 DEF CombineInv, Counters
    <3>2. p_counter = 1 => \A i \in {1, 2} : p_invoked[i] = 1 /\ ~Combine!Decides(i)
      BY <1>14, <2>2, <3>1 DEF CombineInv, Meeting, Counts, Combine!Decides
    <3>3. ASSUME p_counter = 1, NEW i \in {1, 2}, ToDo("assign", i) PROVE FALSE
      <4>1. ~ToDo("count", i)'
        BY <3>1, <3>3 DEF Counts
      <4>2. ToDo("assign", i)'
        BY <2>10, <3>3
      <4> QED
        BY <2>9, <3>3, <4>1, <4>2 DEF Callbacks, ToDo
    <3> QED
      BY <1>14, <3>2, <3>3 DEF CombineInv, Counters, Combine!TypeOK, Combine!Inputs
  <2>14. Results'
    <3>1. \A j \in 1..Len(c) : c[j][1] = "emplace" => p_counter = 1 /\ c[j][3] = v
      BY <1>8, <2>2
    <3>2. p_counter = 1 => Fits(v)'
      BY <1>14, <2>v, <2>2, <2>3, <2>13 DEF Fits, CombineInv
    <3>3. p_tuple \subseteq {1, 2} /\ p_counter # 0
      BY <1>14, <2>11 DEF CombineInv, Combine!TypeOK, Combine!Inputs
    <3>4. /\ \A x : Fits(x) => Fits(x)'
          /\ (\A u \in Callers : \A k \in 1..Len(p_todo[u]) :
                 p_todo[u][k][1] = "emplace" /\ p_todo[u][k][2] = 4 => Fits(p_todo[u][k][3]))'
      <4>1. \A j \in 1..Len(c) : \A x : c[j][1] = "emplace" /\ c[j][2] = 4 /\ x = c[j][3] => Fits(x)'
        BY <3>1, <3>2
      <4>2. UNCHANGED <<p_kind, p_outcome, p_tuple>>
        BY <2>2
      <4> QED
        BY <1>9, <1>14, <2>5, <3>3, <4>1, <4>2
    <3> QED
      BY <1>14, <2>2, <3>4 DEF CombineInv, Results
  <2>15. (Combine!Contested \/ Single)'
    <3> SUFFICES ASSUME ~Combine!Contested PROVE Single'
      BY <2>2 DEF Combine!Contested, Combine!Decides, Combine!Inputs
    <3>1. Single
      BY <1>14 DEF CombineInv
    <3>2. CASE p_counter = 1
      <4>1. ~Due /\ Due'
        BY <2>2, <2>13, <3>2 DEF Due, Combine!Decides
      <4>2. /\ ~ToDo("emplace", 4) /\ ~ToDo("publish", 4) /\ ~ToDo("invoke", 4)
            /\ p_state[4] # "ResultSet" /\ p_invoked[4] = 0 /\ p_result[4] = 0
        BY <3>1, <4>1 DEF Single
      <4>3. Meeting(4)'
        <5>1. UNCHANGED <<p_state, p_invoked>>
          BY <2>2
        <5>2. \A u \in Callers : <<"publish", 4>> \in Jobs(u)' <=> u = t
          BY <2>6, <3>2, <4>2 DEF ToDo
        <5>3. ~ToDo("invoke", 4)' /\ (ToDo("subscribe", 4)' => ToDo("subscribe", 4))
          BY <2>6, <4>2 DEF ToDo
        <5> QED
          BY <3>1, <4>2, <5>1, <5>2, <5>3 DEF Single, Meeting, ToDo
      <4> QED
        BY <2>2, <2>6, <3>1, <3>2, <4>1, <4>2, <4>3 DEF Single, ToDo
    <3>3. CASE p_counter # 1
      <4>1. Due' <=> Due
        BY <2>2, <2>11, <3>3 DEF Due, Combine!Decides
      <4>2. Meeting(4)'
        BY <2>2, <2>6, <3>1, <3>3 DEF Single, Meeting, ToDo
      <4> QED
        BY <2>2, <2>6, <3>1, <3>3, <4>1, <4>2 DEF Single, ToDo
    <3> QED
      BY <3>2, <3>3
  <2> QED
    BY <1>14, <2>2, <2>6, <2>7, <2>9, <2>11, <2>12, <2>14, <2>15 DEF CombineInv
(* The callback of an input begins. *)
<1>15. ASSUME CombineInv, NEW t \in Callers, Combine!Call(t), Head(p_todo[t])[2] \in {1, 2} PROVE CombineInv'
  <2>1. PICK f \in {1, 2} : f = Head(p_todo[t])[2]
    BY <1>15
  <2>2. PICK c : /\ c = IF Combine!Decides(f) THEN <<<<"emplace", 4, f>>, <<"publish", 4>>, <<"release", f>>>>
                         ELSE IF p_kind = "First" THEN <<<<"count", f>>, <<"release", f>>>>
                         ELSE <<<<"assign", f>>, <<"count", f>>, <<"release", f>>>>
                 /\ "invoke" = Head(p_todo[t])[1] /\ p_todo[t] # <<>> /\ p_todo' = [p_todo EXCEPT ![t] = c \o Tail(@)]
    <3>1. <<<<"emplace", 4, f>>, <<"publish", 4>>>> \o <<<<"release", f>>>> =
            <<<<"emplace", 4, f>>, <<"publish", 4>>, <<"release", f>>>>
      <4>1. /\ <<"emplace", 4, f>> \in Entries /\ <<"publish", 4>> \in Entries /\ <<"release", f>> \in Entries
        BY DEF Entries, Outputs
      <4>2. \A a, b, d \in Entries : <<a, b>> \o <<d>> = <<a, b, d>>
        <5> SUFFICES ASSUME NEW a \in Entries, NEW b \in Entries, NEW d \in Entries PROVE <<a, b>> \o <<d>> =
          <<a, b, d>>
          OBVIOUS
        <5>1. /\ <<a, b>> \in Seq(Entries) /\ <<d>> \in Seq(Entries) /\ <<a, b, d>> \in Seq(Entries)
              /\ Len(<<a, b, d>>) = Len(<<a, b>>) + Len(<<d>>)
              /\ \A i \in 1..Len(<<a, b>>) : <<a, b, d>>[i] = <<a, b>>[i]
              /\ \A i \in 1..Len(<<d>>) : <<a, b, d>>[Len(<<a, b>>) + i] = <<d>>[i]
          OBVIOUS
        <5> QED
          BY <1>2, <5>1
      <4> QED
        BY <4>1, <4>2
    <3> QED
      BY <1>15, <2>1, <3>1 DEF Combine!Call, Combine!Callback, Combine!Invoke, Combine!At, Combine!Now, Combine!Then,
         Combine!SetResult, Combine!Inputs
  <2>3. /\ p_callback' = [p_callback EXCEPT ![f] = "moved"] /\ p_invoked' = [p_invoked EXCEPT ![f] = @ + 1]
        /\ UNCHANGED <<p_result, p_state, p_kind, p_outcome, p_counter, p_refs, p_tuple, p_first, p_got>>
    BY <1>15, <2>1 DEF Combine!Call, Combine!Invoke, Combine!Now
  <2>4. /\ <<"invoke", f>> \in Jobs(t)
        /\ \A o, g : <<o, g>> \in Jobs(t) =>
             o \in DOMAIN Level /\ g \in Outputs /\ ((o = "invoke" /\ g = f) \/ Rank("invoke", f) < Rank(o, g))
    <3>1. <<"invoke", f>> \in Jobs(t) /\ \A o, g : <<o, g>> \in Jobs(t) => o \in DOMAIN Level /\ g \in Outputs
      BY <1>6, <1>15, <2>1, <2>2
    <3>2. \A o, g : <<o, g>> \in Jobs(t) => (o = "invoke" /\ g = f) \/ Rank("invoke", f) < Rank(o, g)
      BY <1>4, <1>15, <2>1, <2>2
    <3> QED
      BY <3>1, <3>2
  <2>5. /\ Meeting(f) /\ p_invoked[f] = 0 /\ ToDo("invoke", f) /\ \A u \in Callers :
             <<"invoke", f>> \in Jobs(u) => u = t
        /\ ~ToDo("publish", f) /\ ~ToDo("subscribe", f)
    BY <1>15, <2>4 DEF CombineInv, Meeting, ToDo
  <2>6. ~ToDo("release", f) /\ ~ToDo("count", f) /\ ~ToDo("assign", f)
    <3>1. ~ToDo("release", f)
      <4>1. \A u \in Callers : <<"release", f>> \in Jobs(u) => p_invoked[f] = 1
        BY <1>15 DEF CombineInv, Callbacks
      <4> QED
        BY <2>5, <4>1 DEF ToDo
    <3> QED
      BY <1>15, <3>1 DEF CombineInv, Callbacks, ToDo
  <2>7. /\ p_invoked' \in [Outputs -> Nat] /\ p_invoked'[f] = 1 /\ \A g \in Outputs : g # f =>
             p_invoked'[g] = p_invoked[g]
    BY <1>15, <2>3, <2>5 DEF CombineInv, Outputs
  <2>8. c \in Seq(Entries) /\ Steep(c)
        /\ Pairs(c) = IF Combine!Decides(f) THEN {<<"emplace", 4>>, <<"publish", 4>>, <<"release", f>>}
                      ELSE IF p_kind = "First" THEN {<<"count", f>>, <<"release", f>>}
                      ELSE {<<"assign", f>>, <<"count", f>>, <<"release", f>>}
    <3>1. CASE Combine!Decides(f)
      BY <1>8, <2>2, <3>1
    <3>2. CASE ~Combine!Decides(f) /\ p_kind = "First"
      BY <1>8, <2>2, <3>2
    <3>3. CASE ~Combine!Decides(f) /\ p_kind # "First"
      BY <1>8, <2>2, <3>3
    <3> QED
      BY <3>1, <3>2, <3>3
  <2>9. Does(t, "invoke", f, c)
    <3>1. \A x \in Pairs(c) : (x[1] \in {"emplace", "publish"} /\ x[2] = 4)
                            \/ (x[1] \in {"assign", "count", "release"} /\ x[2] = f)
      BY <2>8
    <3>2. \A o, g : o \in DOMAIN Level /\ g \in Outputs /\ Rank("invoke", f) < Rank(o, g)
                      /\ ~(o \in {"assign", "count", "release"} /\ g = f) =>
            /\ Rank("emplace", 4) < Rank(o, g) /\ Rank("publish", 4) < Rank(o, g)
            /\ \A l \in {"assign", "count", "release"} : Rank(l, f) < Rank(o, g)
      BY DEF Rank, Level, Outputs
    <3>3. \A x \in Pairs(c) : \A o, g : <<o, g>> \in Jobs(t) =>
            (o = "invoke" /\ g = f) \/ Rank(x[1], x[2]) < Rank(o, g)
      BY <2>4, <2>6, <3>1, <3>2 DEF ToDo
    <3>4. "invoke" = Head(p_todo[t])[1] /\ p_todo[t] # <<>> /\ p_todo' = [p_todo EXCEPT ![t] = c \o Tail(@)]
      BY <2>2
    <3> QED
      BY <1>7, <1>15, <2>1, <2>8, <3>3, <3>4
  <2> DEFINE New(o, g) ==
    \/ Combine!Decides(f) /\ o \in {"emplace", "publish"} /\ g = 4
    \/ o = "release" /\ g = f
    \/ ~Combine!Decides(f) /\ o = "count" /\ g = f
    \/ ~Combine!Decides(f) /\ p_kind # "First" /\ o = "assign" /\ g = f
  <2>10. /\ Stacked' /\ p_todo' \in [Callers -> Seq(Entries)]
         /\ \A u \in Callers : \A o, g :
              <<o, g>> \in Jobs(u)' <=> (u = t /\ New(o, g)) \/
                (<<o, g>> \in Jobs(u) /\ ~(u = t /\ o = "invoke" /\ g = f))
    <3>1. /\ Stacked' /\ p_todo' \in [Callers -> Seq(Entries)]
          /\ \A u \in Callers : \A o, g :
               <<o, g>> \in Jobs(u)' <=> IF u = t THEN <<o, g>> \in Pairs(c) \/
                 (<<o, g>> \in Jobs(t) /\ ~(o = "invoke" /\ g = f))
                                        ELSE <<o, g>> \in Jobs(u)
      BY <2>9 DEF Does
    <3>2. \A o, g : <<o, g>> \in Pairs(c) <=> New(o, g)
      BY <2>8
    <3> HIDE DEF New
    <3> QED
      BY <3>1, <3>2
  <2>11. Programs'
    <3>1. t \in {f, 3}
      BY <1>15, <2>4 DEF CombineInv, Programs, Outputs
    <3> QED
      BY <1>15, <2>10, <3>1 DEF CombineInv, Programs
  <2>12. Meeting(1)' /\ Meeting(2)'
    <3>1. ASSUME NEW i \in {1, 2}, i # f PROVE Meeting(i)'
      <4>1. Meeting(i) /\ p_invoked'[i] = p_invoked[i] /\ p_state' = p_state
        BY <1>15, <2>3, <2>7, <3>1 DEF CombineInv, Outputs
      <4>2. \A op \in {"publish", "subscribe", "invoke"}, u \in Callers : <<op, i>> \in Jobs(u)' <=>
              <<op, i>> \in Jobs(u)
        BY <2>10, <3>1
      <4> HIDE DEF New
      <4> QED
        BY <4>1, <4>2 DEF Meeting, ToDo
    <3>2. ~ToDo("invoke", f)' /\ ~ToDo("publish", f)' /\ ~ToDo("subscribe", f)'
      <4>1. \A op \in {"publish", "subscribe", "invoke"} : ~New(op, f)
        BY <1>15
      <4> HIDE DEF New
      <4> QED
        BY <2>5, <2>10, <4>1 DEF ToDo
    <3>3. Meeting(f)'
      BY <2>7, <3>2 DEF Meeting, ToDo
    <3> QED
      BY <3>1, <3>3
  <2>13. Callbacks'
    <3>1. \A i \in {1, 2} : Combine!Decides(i)' <=> Combine!Decides(i)
      BY <2>3 DEF Combine!Decides
    <3>2. \A op \in {"assign", "count", "release"}, u \in Callers, i \in {1, 2} :
            <<op, i>> \in Jobs(u)' <=>
              IF i # f THEN <<op, i>> \in Jobs(u)
              ELSE u = t /\ (op # "release" => ~Combine!Decides(f)) /\ (op = "assign" => p_kind # "First")
      BY <2>6, <2>10 DEF ToDo
    <3>3. ASSUME NEW i \in {1, 2}, i # f, NEW u \in Callers
          PROVE  /\ <<"assign", i>> \in Jobs(u)' => <<"count", i>> \in Jobs(u)'
                 /\ <<"count", i>> \in Jobs(u)' => <<"release", i>> \in Jobs(u)' /\ ~Combine!Decides(i)'
                 /\ <<"release", i>> \in Jobs(u)' => p_invoked'[i] = 1
                 /\ \A w \in Callers : <<"release", i>> \in Jobs(u)' /\ <<"release", i>> \in Jobs(w)' => u = w
      <4>1. p_invoked'[i] = p_invoked[i]
        BY <2>7, <3>3 DEF Outputs
      <4>2. \A op \in {"assign", "count", "release"}, w \in Callers : <<op, i>> \in Jobs(w)' <=> <<op, i>> \in Jobs(w)
        BY <3>2, <3>3
      <4> HIDE DEF New
      <4> QED
        BY <1>15, <3>1, <4>1, <4>2 DEF CombineInv, Callbacks
    <3>4. ASSUME NEW u \in Callers
          PROVE  /\ <<"assign", f>> \in Jobs(u)' => <<"count", f>> \in Jobs(u)'
                 /\ <<"count", f>> \in Jobs(u)' => <<"release", f>> \in Jobs(u)' /\ ~Combine!Decides(f)'
                 /\ <<"release", f>> \in Jobs(u)' => p_invoked'[f] = 1 /\ u = t
      BY <2>7, <3>1, <3>2
    <3> QED
      BY <3>3, <3>4 DEF Callbacks
  <2>14. Counters'
    <3>1. \A i \in {1, 2} : Combine!Decides(i)' <=> Combine!Decides(i)
      BY <2>3 DEF Combine!Decides
    <3>2. Counts(f) /\ Counts(f)' /\ Refers(f) /\ Refers(f)'
      <4>1. <<"release", f>> \in Jobs(t)' /\ (~Combine!Decides(f) => <<"count", f>> \in Jobs(t)')
        BY <2>10
      <4> QED
        BY <2>5, <3>1, <4>1 DEF Counts, Refers, ToDo
    <3>3. \A i \in {1, 2} : i # f => (Counts(i)' <=> Counts(i)) /\ (Refers(i)' <=> Refers(i))
      BY <2>7, <2>10, <3>1 DEF Counts, Refers, ToDo, Outputs
    <3>4. \A i \in {1, 2} : i # f => (ToDo("assign", i)' <=> ToDo("assign", i))
      BY <2>10 DEF ToDo
    <3>5. p_kind # "First" => Combine!Decides(f) \/ ToDo("assign", f)'
      BY <2>10 DEF ToDo
    <3> QED
      BY <1>15, <2>3, <2>7, <3>1, <3>2, <3>3, <3>4, <3>5 DEF CombineInv, Counters, Outputs
  <2>15. Combine!TypeOK'
    BY <1>15, <2>3 DEF CombineInv, Combine!TypeOK
  <2>16. Results'
    <3>1. \A j \in 1..Len(c) : c[j][1] = "emplace" => Combine!Decides(f) /\ c[j][3] = f
      BY <2>2
    <3>2. Combine!Decides(f) => Fits(f)'
      BY <2>3 DEF Fits, Combine!Decides
    <3>3. UNCHANGED <<p_kind, p_outcome, p_tuple, p_counter>> /\ p_tuple \subseteq {1, 2}
      BY <1>15, <2>3 DEF CombineInv, Combine!TypeOK, Combine!Inputs
    <3>4. \A j \in 1..Len(c) : \A x : c[j][1] = "emplace" /\ c[j][2] = 4 /\ x = c[j][3] => Fits(x)'
      BY <3>1, <3>2
    <3>5. /\ \A x : Fits(x) => Fits(x)'
          /\ (\A u \in Callers : \A k \in 1..Len(p_todo[u]) :
                 p_todo[u][k][1] = "emplace" /\ p_todo[u][k][2] = 4 => Fits(p_todo[u][k][3]))'
      BY <1>9, <1>15, <2>9, <3>3, <3>4
    <3> QED
      BY <1>15, <2>3, <3>5 DEF CombineInv, Results
  <2>17. (Combine!Contested \/ Single)'
    <3> SUFFICES ASSUME ~Combine!Contested PROVE Single'
      BY <2>3 DEF Combine!Contested, Combine!Decides, Combine!Inputs
    <3>1. Single /\ \A i \in {1, 2} : Combine!Decides(i)' <=> Combine!Decides(i)
      BY <1>15, <2>3 DEF CombineInv, Combine!Decides
    <3>2. CASE Combine!Decides(f)
      <4>1. ~Due /\ Due'
        <5>1. p_counter # 0
          BY <1>15, <2>5, <3>2 DEF CombineInv, Counters, Counts
        <5>2. \A i \in {1, 2} : Combine!Decides(i) => i = f
          BY <3>2 DEF Combine!Contested, Combine!Inputs
        <5> QED
          BY <2>5, <2>7, <3>1, <3>2, <5>1, <5>2 DEF Due
      <4>2. /\ ~ToDo("emplace", 4) /\ ~ToDo("publish", 4) /\ ~ToDo("invoke", 4)
            /\ p_state[4] # "ResultSet" /\ p_invoked[4] = 0 /\ p_result[4] = 0
        BY <3>1, <4>1 DEF Single
      <4>3. Meeting(4)'
        <5>1. p_invoked'[4] = 0 /\ p_state' = p_state
          BY <2>3, <2>7, <4>2 DEF Outputs
        <5>2. \A u \in Callers : <<"publish", 4>> \in Jobs(u)' <=> u = t
          BY <2>10, <3>2, <4>2 DEF ToDo
        <5>3. ~ToDo("invoke", 4)' /\ (ToDo("subscribe", 4)' => ToDo("subscribe", 4))
          BY <2>10, <4>2 DEF ToDo
        <5> QED
          BY <3>1, <4>2, <5>1, <5>2, <5>3 DEF Single, Meeting, ToDo
      <4> QED
        BY <2>3, <2>10, <3>1, <3>2, <4>1, <4>2, <4>3 DEF Single, ToDo
    <3>3. CASE ~Combine!Decides(f)
      <4>1. Due' <=> Due
        BY <2>3, <2>7, <3>1, <3>3 DEF Due, Outputs
      <4>2. p_invoked'[4] = p_invoked[4]
        BY <2>7 DEF Outputs
      <4>3. \A op \in {"emplace", "publish", "subscribe", "invoke"} : \A u \in Callers :
              <<op, 4>> \in Jobs(u)' <=> <<op, 4>> \in Jobs(u)
        BY <2>10, <3>3
      <4>4. Meeting(4)'
        BY <2>3, <3>1, <4>2, <4>3 DEF Single, Meeting, ToDo
      <4> QED
        BY <2>3, <3>1, <4>1, <4>2, <4>3, <4>4 DEF Single, ToDo
    <3> QED
      BY <3>2, <3>3
  <2> QED
    BY <1>15, <2>3, <2>7, <2>10, <2>11, <2>12, <2>13, <2>14, <2>15, <2>16, <2>17 DEF CombineInv
<1>16. Init => CombineInv
  <2> SUFFICES ASSUME Init PROVE CombineInv
    OBVIOUS
  <2>1. Combine!Init
    BY DEF Init
  <2>2. PICK e \in {<<<<"get", 4>>>>, <<<<"store", 4>>, <<"subscribe", 4>>>>} :
          p_todo = [t \in {1, 2, 3} |-> IF t = 3 THEN (<<<<"store", 1>>, <<"subscribe", 1>>>> \o
                                                         <<<<"store", 2>>, <<"subscribe", 2>>>>) \o e
                                       ELSE <<<<"emplace", t, t>>, <<"publish", t>>>>]
    BY <2>1 DEF Combine!Init, Combine!SetCallback, Combine!SetResult
  <2>3. PICK c : /\ c = IF e = <<<<"get", 4>>>> THEN <<<<"store", 1>>, <<"subscribe", 1>>,
                                 <<"store", 2>>, <<"subscribe", 2>>, <<"get", 4>>>>
                      ELSE <<<<"store", 1>>, <<"subscribe", 1>>, <<"store", 2>>, <<"subscribe", 2>>,
                             <<"store", 4>>, <<"subscribe", 4>>>>
                 /\ p_todo = [t \in {1, 2, 3} |-> IF t = 3 THEN c ELSE <<<<"emplace", t, t>>, <<"publish", t>>>>]
    <3> DEFINE a == <<<<"store", 1>>, <<"subscribe", 1>>>>
               b == <<<<"store", 2>>, <<"subscribe", 2>>>>
               ab == <<<<"store", 1>>, <<"subscribe", 1>>, <<"store", 2>>, <<"subscribe", 2>>>>
    <3>1. a \o b = ab
      <4>1. /\ a \in Seq(Entries) /\ b \in Seq(Entries) /\ ab \in Seq(Entries) /\ Len(ab) = Len(a) + Len(b)
            /\ \A i \in 1..Len(a) : ab[i] = a[i]
            /\ \A i \in 1..Len(b) : ab[Len(a) + i] = b[i]
        BY DEF Entries, Outputs
      <4> HIDE DEF a, b, ab
      <4> QED
        BY <1>2, <4>1
    <3>2. ASSUME NEW n \in {<<<<"store", 1>>, <<"subscribe", 1>>, <<"store", 2>>, <<"subscribe", 2>>, <<"get", 4>>>>,
                            <<<<"store", 1>>, <<"subscribe", 1>>, <<"store", 2>>, <<"subscribe", 2>>,
                                  <<"store", 4>>, <<"subscribe", 4>>>>},
                 n = IF e = <<<<"get", 4>>>> THEN <<<<"store", 1>>, <<"subscribe", 1>>,
                              <<"store", 2>>, <<"subscribe", 2>>, <<"get", 4>>>>
                     ELSE <<<<"store", 1>>, <<"subscribe", 1>>, <<"store", 2>>, <<"subscribe", 2>>,
                            <<"store", 4>>, <<"subscribe", 4>>>>
          PROVE  ab \o e = n
      <4>0. <<<<"get", 4>>>> # <<<<"store", 4>>, <<"subscribe", 4>>>>
        <5>1. Len(<<<<"get", 4>>>>) = 1 /\ Len(<<<<"store", 4>>, <<"subscribe", 4>>>>) = 2
          OBVIOUS
        <5> QED
          BY <5>1
      <4>1. CASE e = <<<<"get", 4>>>>
        <5>1. /\ ab \in Seq(Entries) /\ e \in Seq(Entries) /\ n \in Seq(Entries) /\ Len(n) = Len(ab) + Len(e)
              /\ \A i \in 1..Len(ab) : n[i] = ab[i]
              /\ \A i \in 1..Len(e) : n[Len(ab) + i] = e[i]
          BY <3>2, <4>1 DEF Entries, Outputs
        <5> HIDE DEF ab
        <5> QED
          BY <1>2, <5>1
      <4>2. CASE e # <<<<"get", 4>>>>
        <5>0. e = <<<<"store", 4>>, <<"subscribe", 4>>>> /\ n = <<<<"store", 1>>, <<"subscribe", 1>>,
                                                                  <<"store", 2>>, <<"subscribe", 2>>, <<"store", 4>>, <<"subscribe", 4>>>>
          BY <2>2, <3>2, <4>2
        <5>1. /\ ab \in Seq(Entries) /\ e \in Seq(Entries) /\ n \in Seq(Entries) /\ Len(n) = Len(ab) + Len(e)
              /\ \A i \in 1..Len(ab) : n[i] = ab[i]
              /\ \A i \in 1..Len(e) : n[Len(ab) + i] = e[i]
          BY <5>0 DEF Entries, Outputs
        <5> HIDE DEF ab
        <5> QED
          BY <1>2, <5>1
      <4> QED
        BY <4>1, <4>2
    <3> QED
      BY <2>2, <3>1, <3>2
  <2>4. /\ p_todo \in [Callers -> Seq(Entries)] /\ \A t \in Callers : Steep(p_todo[t])
        /\ \A t \in Callers : \A j \in 1..Len(p_todo[t]) : p_todo[t][j][1] = "emplace" => p_todo[t][j][2] # 4
        /\ Pairs(p_todo[1]) = {<<"emplace", 1>>, <<"publish", 1>>} /\
             Pairs(p_todo[2]) = {<<"emplace", 2>>, <<"publish", 2>>}
        /\ \A op, f : <<op, f>> \in Pairs(p_todo[3]) =>
             (op \in {"store", "subscribe"} /\ f \in Outputs) \/ (op = "get" /\ f = 4)
    <3>1. LET d == <<<<"emplace", 1, 1>>, <<"publish", 1>>>> IN
         /\ d \in Seq(Entries) /\ Steep(d) /\ \A j \in 1..Len(d) : d[j][1] = "emplace" => d[j][2] # 4
         /\ Pairs(d) = {<<"emplace", 1>>, <<"publish", 1>>}
      BY DEF Entries, Outputs, Rank, Level, Steep, Pairs
    <3>2. LET d == <<<<"emplace", 2, 2>>, <<"publish", 2>>>> IN
         /\ d \in Seq(Entries) /\ Steep(d) /\ \A j \in 1..Len(d) : d[j][1] = "emplace" => d[j][2] # 4
         /\ Pairs(d) = {<<"emplace", 2>>, <<"publish", 2>>}
      BY DEF Entries, Outputs, Rank, Level, Steep, Pairs
    <3>3. LET d == <<<<"store", 1>>, <<"subscribe", 1>>, <<"store", 2>>, <<"subscribe", 2>>, <<"get", 4>>>> IN
         /\ d \in Seq(Entries) /\ Steep(d) /\ \A j \in 1..Len(d) : d[j][1] = "emplace" => d[j][2] # 4
         /\ Pairs(d) = {<<"store", 1>>, <<"subscribe", 1>>, <<"store", 2>>, <<"subscribe", 2>>, <<"get", 4>>}
      BY DEF Entries, Outputs, Rank, Level, Steep, Pairs
    <3>4. LET d == <<<<"store", 1>>, <<"subscribe", 1>>, <<"store", 2>>, <<"subscribe", 2>>,
                     <<"store", 4>>, <<"subscribe", 4>>>> IN
         /\ d \in Seq(Entries) /\ Steep(d) /\ \A j \in 1..Len(d) : d[j][1] = "emplace" => d[j][2] # 4
         /\ Pairs(d) = {<<"store", 1>>, <<"subscribe", 1>>, <<"store", 2>>, <<"subscribe", 2>>,
                          <<"store", 4>>, <<"subscribe", 4>>}
      BY DEF Entries, Outputs, Rank, Level, Steep, Pairs
    <3>5. p_todo[1] = <<<<"emplace", 1, 1>>, <<"publish", 1>>>> /\
            p_todo[2] = <<<<"emplace", 2, 2>>, <<"publish", 2>>>> /\ p_todo[3] = c
      BY <2>3
    <3>6. \A t \in Callers : p_todo[t] \in Seq(Entries) /\ Steep(p_todo[t]) /\ \A j \in 1..Len(p_todo[t]) :
            p_todo[t][j][1] = "emplace" => p_todo[t][j][2] # 4
      BY <2>3, <3>1, <3>2, <3>3, <3>4, <3>5 DEF Callers
    <3>7. \A op, f : <<op, f>> \in Pairs(p_todo[3]) =>
            (op \in {"store", "subscribe"} /\ f \in Outputs) \/ (op = "get" /\ f = 4)
      BY <2>3, <3>3, <3>4, <3>5 DEF Outputs
    <3>8. p_todo \in [Callers -> Seq(Entries)]
      BY <2>3, <3>6 DEF Callers
    <3> QED
      BY <3>1, <3>2, <3>5, <3>6, <3>7, <3>8
  <2>5. Stacked
    BY <2>4 DEF Stacked, Steep
  <2>6. /\ Jobs(1) = {<<"emplace", 1>>, <<"publish", 1>>} /\ Jobs(2) = {<<"emplace", 2>>, <<"publish", 2>>}
        /\ \A op, f : <<op, f>> \in Jobs(3) => (op \in {"store", "subscribe"} /\ f \in Outputs) \/
             (op = "get" /\ f = 4)
    BY <2>4 DEF Jobs, Pairs
  <2>7. p_result = [f \in Outputs |-> 0] /\ p_state = [f \in Outputs |-> "Initial"] /\
          p_callback = [f \in Outputs |-> "none"]
        /\ p_invoked = [f \in Outputs |-> 0] /\ p_got = 0 /\ p_first = 0 /\ p_tuple = {} /\ p_counter = 2 /\
             p_refs = 2
        /\ p_kind \in {"First", "Both"} /\ p_outcome \in [{1, 2} -> {"ok", "error"}]
    BY <2>1 DEF Combine!Init, Combine!StatesInit, Outputs, Combine!Inputs
  <2>8. \A op, f : ToDo(op, f) => (op \in {"emplace", "publish"} /\ f \in {1, 2}) \/
          op \in {"store", "subscribe", "get"}
    BY <2>6 DEF ToDo, Callers
  <2>9. Combine!TypeOK
    BY <2>7 DEF Combine!TypeOK, Outputs
  <2>10. Programs
    BY <2>6 DEF Programs, Callers, Level, Outputs
  <2>11. \A f \in Outputs : Meeting(f)
    BY <2>6, <2>7, <2>8 DEF Meeting, Outputs, Callers
  <2>12. Callbacks /\ Counters
    <3>1. \A op \in {"assign", "count", "release"} : \A i \in {1, 2} : \A t \in Callers : <<op, i>> \notin Jobs(t)
      BY <2>8 DEF ToDo
    <3>2. \A i \in {1, 2} : p_invoked[i] = 0
      BY <2>7 DEF Outputs
    <3> QED
      BY <2>7, <3>1, <3>2 DEF Callbacks, Counters, Refers, Counts
  <2>13. Results
    BY <2>4, <2>7 DEF Results, Fits, Outputs
  <2>14. Single
    BY <2>7, <2>8, <2>11 DEF Single, Due, Outputs, ToDo, Callers
  <2> QED
    BY <2>4, <2>5, <2>7, <2>9, <2>10, <2>11, <2>12, <2>13, <2>14 DEF CombineInv, Outputs
<1>17. ASSUME CombineInv, [Next]_vars PROVE CombineInv'
  <2>1. CASE UNCHANGED combineVars
    <3>1. UNCHANGED <<p_result, p_callback, p_state, p_todo, p_kind, p_outcome,
                      p_counter, p_refs, p_tuple, p_invoked, p_got, p_first>>
      BY <2>1 DEF combineVars
    <3>2. /\ \A t : Jobs(t)' = Jobs(t)
          /\ \A i : Combine!Decides(i)' <=> Combine!Decides(i)
      BY <3>1 DEF Jobs, Combine!Decides
    <3>3. \A op, f : ToDo(op, f)' <=> ToDo(op, f)
      BY <3>2 DEF ToDo
    <3>4. /\ Combine!TypeOK' /\ Stacked' /\ Programs' /\ Callbacks'
          /\ Meeting(1)' /\ Meeting(2)' /\ (Meeting(4) => Meeting(4)')
      <4>1. Combine!TypeOK' /\ Stacked'
        BY <1>17, <3>1 DEF CombineInv, Combine!TypeOK, Stacked
      <4>2. Programs'
        BY <1>17, <3>2 DEF CombineInv, Programs
      <4>3. Callbacks'
        BY <1>17, <3>1, <3>2 DEF CombineInv, Callbacks
      <4>4. ASSUME NEW f, Meeting(f) PROVE Meeting(f)'
        BY <3>1, <3>2, <3>3, <4>4 DEF Meeting
      <4> QED
        BY <1>17, <4>1, <4>2, <4>3, <4>4 DEF CombineInv
    <3>5. Counters' /\ (Due' <=> Due)
      BY <1>17, <3>1, <3>2, <3>3 DEF CombineInv, Counters, Refers, Counts, Due
    <3>6. Results'
      BY <1>17, <3>1, <3>2 DEF CombineInv, Results, Fits
    <3>7. Single => Single'
      BY <3>1, <3>2, <3>3, <3>4, <3>5 DEF Single
    <3> QED
      BY <1>17, <3>1, <3>2, <3>4, <3>5, <3>6, <3>7 DEF CombineInv, Combine!Contested, Combine!Inputs
  <2>2. CASE \E t \in Callers : Combine!Step(t)
    <3>1. PICK t \in Callers : Combine!Step(t)
      BY <2>2
    <3>2. CASE Combine!Assign(t) \/ Combine!Release(t)
      BY <1>13, <1>17, <3>2
    <3>3. CASE Combine!Count(t)
      BY <1>14, <1>17, <3>3
    <3>4. CASE Combine!Call(t)
      <4>1. p_todo[t] # <<>> /\ Head(p_todo[t])[1] = "invoke"
        BY <3>4 DEF Combine!Call, Combine!Invoke, Combine!At
      <4>2. Head(p_todo[t])[2] \in Outputs
        BY <1>6, <1>17, <4>1
      <4>3. CASE Head(p_todo[t])[2] \in {1, 2}
        BY <1>15, <1>17, <3>4, <4>3
      <4>4. CASE Head(p_todo[t])[2] = 4
        <5>1. p_todo' = [p_todo EXCEPT ![t] = <<>> \o Tail(@)] /\ p_callback' = [p_callback EXCEPT ![4] = "moved"]
              /\ p_invoked' = [p_invoked EXCEPT ![4] = @ + 1] /\ p_got' = p_result[4]
              /\ UNCHANGED <<p_result, p_state, p_kind, p_outcome, p_counter, p_refs, p_tuple, p_first>>
          <6>1. Combine!Now(t) = 4 /\ Combine!Now(t) \notin Combine!Inputs
            BY <4>4 DEF Combine!Now, Combine!Inputs
          <6>2. Combine!Invoke(t, <<>>)
            BY <3>4, <6>1 DEF Combine!Call
          <6> QED
            BY <3>4, <6>1, <6>2 DEF Combine!Call, Combine!Invoke, Combine!Then
        <5> QED
          BY <1>12, <1>17, <4>1, <4>4, <5>1
      <4> QED
        BY <4>2, <4>3, <4>4 DEF Outputs
    <3>5. CASE Combine!Rendezvous(t)
      <4>1. /\ p_got' = (IF Combine!At(t, "get") THEN p_result[4] ELSE p_got)
            /\ p_first' = (IF p_first = 0 THEN p_result'[4] ELSE p_first)
            /\ UNCHANGED <<p_kind, p_outcome, p_counter, p_refs, p_tuple, p_invoked>>
        BY <3>5 DEF Combine!Rendezvous
      <4>2. CASE Combine!Emplace(t)
        <5>1. p_got' = p_got
          BY <4>1, <4>2 DEF Combine!Emplace, Combine!At
        <5> QED
          BY <1>10, <1>17, <4>1, <4>2, <5>1
      <4>3. CASE Combine!Publish(t) \/ Combine!Subscribe(t)
        <5>1. p_got' = p_got
          BY <4>1, <4>3 DEF Combine!Publish, Combine!Subscribe, Combine!At
        <5> QED
          BY <1>11, <1>17, <4>1, <4>3, <5>1
      <4>4. CASE Combine!Store(t)
        <5>1. /\ p_todo[t] # <<>> /\ "store" = Head(p_todo[t])[1] /\ p_todo' = [p_todo EXCEPT ![t] = <<>> \o Tail(@)]
              /\ p_callback' = [p_callback EXCEPT ![Head(p_todo[t])[2]] = "set"] /\ p_got' = p_got
              /\ UNCHANGED <<p_result, p_state>>
          BY <4>1, <4>4 DEF Combine!Store, Combine!At, Combine!Now, Combine!Then
        <5> QED
          BY <1>12, <1>17, <4>1, <5>1
      <4>5. CASE Combine!SyncGet(t)
        <5>1. /\ p_todo[t] # <<>> /\ "get" = Head(p_todo[t])[1] /\ p_todo' = [p_todo EXCEPT ![t] = <<>> \o Tail(@)]
              /\ p_got' = p_result[4]
              /\ UNCHANGED <<p_result, p_state, p_callback>>
          BY <4>1, <4>5 DEF Combine!SyncGet, Combine!At, Combine!Now, Combine!Then
        <5> QED
          BY <1>12, <1>17, <4>1, <5>1
      <4> QED
        BY <3>5, <4>2, <4>3, <4>4, <4>5 DEF Combine!Rendezvous
    <3> QED
      BY <3>1, <3>2, <3>3, <3>4, <3>5 DEF Combine!Step
  <2> QED
    BY <1>17, <2>1, <2>2 DEF Next, vars, StrandOnly, CombineOnly, ChainOnly, FibersOnly, SleepOnly, Callers,
       Combine!Next, Combine!Terminated, Combine!vars, combineVars, Combine!combineVars, Combine!stateVars
<1> QED
  BY <1>16, <1>17

(* A callback is submitted by the later of SetResult() and SetCallback(), and by    *)
(* that one alone, unless both inputs fulfil the output; and the consumer gets      *)
(* what First and Both promise, also when they do.                              *)
THEOREM CallbackIsSubmittedOnce == Spec => [](SubmittedOnce /\ Combine!RightResult)
<1>1. CombineInv => SubmittedOnce /\ Combine!RightResult
  <2> SUFFICES ASSUME CombineInv PROVE Combine!TypeOK /\ Combine!SubmittedOnce /\ Combine!RightResult
    BY DEF SubmittedOnce
  <2>1. Combine!SubmittedOnce
    BY DEF CombineInv, Single, Meeting, Combine!SubmittedOnce, Combine!CallbackOnce
  <2>2. Combine!RightResult
    <3>1. Fits(p_got) /\ (p_got # 0 => p_got = p_first \/ Combine!Contested)
      BY DEF CombineInv, Results, Single
    <3> QED
      BY <3>1 DEF Fits, Combine!RightResult, Combine!Inputs
  <2> QED
    BY <2>1, <2>2 DEF CombineInv
<1> QED
  BY <1>1, CombineInductive, PTL DEF Spec

(* A job never takes from an empty queue, although the queue, its size and       *)
(* scheduled_ change in three steps of Submit(); no counter has wrapped where a   *)
(* job looks at it; Impl is there as long as a job or a Submit() needs it; and    *)
(* the counter of First and Both as long as one of their callbacks does.         *)
THEOREM JobsAndCallbacksHold == Spec => []NothingBreaks
<1> DEFINE Holds == Strands!TypeOK /\ Strands!NeverCrashes /\ Strands!CountIsPositive /\ Strands!Alive
<1>1. StrandInv => Holds
  <2> SUFFICES ASSUME StrandInv PROVE Holds
    OBVIOUS
  <2> USE StrandAssumption DEF StrandInv
  <2>1. ASSUME NEW r \in Runners
        PROVE  /\ s_pc[r] # "crash"
               /\ s_pc[r] = "take" => s_tasks # <<>>
               /\ s_pc[r] \in AtWork => s_sched > 0
    <3>1. s_pc[r] # "crash"
      BY DEF Ordered, AtWork
    <3>2. ASSUME s_pc[r] \in AtWork PROVE s_sched > 0
      BY <3>2 DEF OneJob, Hands
    <3>3. ASSUME s_pc[r] = "take", s_tasks = <<>> PROVE FALSE
      <4>1. \A q \in Runners : s_pc[q] # "taken"
        BY <3>3 DEF OneJob, Hands, AtWork
      <4>2. IsFiniteSet(Unsized) /\ Cardinality(Unsized) \in Nat
        BY FS_Subset, FS_CardinalityType DEF Unsized
      <4>3. Len(s_tasks) = 0
        BY <3>3
      <4> QED
        BY <3>3, <4>1, <4>2, <4>3 DEF Balance
    <3> QED
      BY <3>1, <3>2, <3>3
  <2>2. Strands!NeverCrashes /\ Strands!CountIsPositive
    BY <2>1 DEF Balance, Strands!NeverCrashes, Strands!CountIsPositive, Strands!Active, AtWork
  <2>3. Strands!Alive
    <3>1. IsFiniteSet(Users) /\ Cardinality(Users) \in Nat /\ (Users # {} => Cardinality(Users) # 0)
      BY FS_Subset, FS_CardinalityType, FS_EmptySet DEF Users
    <3>2. s_pending \in Nat
      BY DEF Strands!TypeOK
    <3>3. \A r \in Runners : s_pc[r] \notin {"idle", "crash"} => r \in Users
      BY DEF Strands!TypeOK, Users, AtWork
    <3> QED
      BY <3>1, <3>2, <3>3 DEF Strands!Alive, Referenced
  <2> QED
    BY <2>2, <2>3
<1>2. CombineInv => Combine!CounterIsAlive
  <2> SUFFICES ASSUME CombineInv, NEW t \in Callers,
                      Combine!At(t, "assign") \/ Combine!At(t, "count") \/ Combine!At(t, "release")
               PROVE  p_refs > 0
    BY DEF Combine!CounterIsAlive, Callers
  <2>1. PICK op \in {"assign", "count", "release"} : \E i : <<op, i>> \in Jobs(t)
    <3>1. p_todo[t] # <<>> /\ Head(p_todo[t])[1] \in {"assign", "count", "release"}
      BY DEF Combine!At
    <3>2. p_todo[t] \in Seq(Entries)
      BY DEF CombineInv
    <3>3. Len(p_todo[t]) \in Nat /\ 1 \in 1..Len(p_todo[t]) /\ Head(p_todo[t]) = p_todo[t][1]
      BY <3>1, <3>2
    <3>4. <<p_todo[t][1][1], p_todo[t][1][2]>> \in Jobs(t)
      BY <3>3 DEF Jobs
    <3> QED
      BY <3>1, <3>3, <3>4
  <2>2. PICK i \in {1, 2} : <<op, i>> \in Jobs(t)
    <3>1. p_todo[t] \in Seq(Entries) /\ \A e \in Entries : e[2] \in Outputs
      BY DEF CombineInv, Entries
    <3>2. \E i \in Outputs : <<op, i>> \in Jobs(t)
      BY <2>1, <3>1 DEF Jobs
    <3> QED
      BY <2>1, <3>2 DEF CombineInv, Programs, Level
  <2>3. Refers(i)
    BY <2>1, <2>2 DEF CombineInv, Callbacks, Refers, ToDo
  <2> QED
    BY <2>2, <2>3 DEF CombineInv, Counters
<1> QED
  BY <1>1, <1>2, StrandInductive, CombineInductive, PTL DEF Spec, NothingBreaks
-----------------------------------------------------------------------------
(* The fibers that sleep.                                                    *)

InQueue(f) == \E i \in 1..Len(z_handlers) : z_handlers[i][2] = f
Off(f)     == \A w \in Workers : z_on[w] # f

QueuedOnce == \A i, j \in 1..Len(z_handlers) : z_handlers[i][2] = z_handlers[j][2] => i = j

(* No two calls of Go() that are still to come start the same fiber ... *)
StartedOnce ==
  \A f, g \in Sleeping : \A i \in 1..Len(z_script[f]), j \in 1..Len(z_script[g]) :
    z_script[f][i] \in Sleeping /\ z_script[f][i] = z_script[g][j] => f = g /\ i = j

(* ... and none starts one that there is already. *)
NotStarted ==
  \A f \in Sleeping : \A i \in 1..Len(z_script[f]) :
    z_script[f][i] \in Sleeping => z_coro[z_script[f][i]] = "none"

(* What a thread has deferred is to arm the timer of its fiber, as long as that   *)
(* one is stopping.                                                            *)
OnThread(w) ==
  LET f == z_on[w] IN
    /\ f # Nothing => z_coro[f] \in {"running", "stopping", "suspended", "completed"}
    /\ \A v \in Workers : f # Nothing /\ z_on[v] = f => v = w
    /\ z_deferred[w] =
         IF f # Nothing /\ z_coro[f] \in {"stopping", "suspended"} /\ z_status[f] = "Sleeping"
         THEN <<<<"arm", f>>>> ELSE <<>>

OnThreads == \A w \in Workers : OnThread(w)

(* A fiber that has begun and has not ended is in the queue, or has a timer, or   *)
(* is on a thread, and only in one of these places.                             *)
Kept ==
  \A f \in Sleeping :
    /\ InQueue(f) => z_coro[f] \in {"created", "suspended"} /\ Off(f) /\ f \notin z_timers
    /\ f \in z_timers => z_coro[f] \in {"created", "suspended"} /\ Off(f)
    /\ z_coro[f] \notin {"none", "deleted"} => InQueue(f) \/ f \in z_timers \/ ~Off(f)
    /\ z_coro[f] \in {"stopping", "suspended"} => z_script[f] # <<>>
    /\ z_coro[f] = "running" => z_status[f] = "Running"
    /\ z_coro[f] = "stopping" => z_status[f] = "Sleeping"

Scripts == [Sleeping -> Seq(Sleeping \cup {"sleep", "yield"})]

SleepInv ==
  /\ Sleep!TypeOK /\ z_script \in Scripts
  /\ QueuedOnce /\ StartedOnce /\ NotStarted /\ OnThreads /\ Kept

(* Each step of a fiber, of a thread in run(), and of a timer keeps all this. *)
LEMMA SleepInductive == (Init => SleepInv) /\ (SleepInv /\ [Next]_vars => SleepInv')
<1> DEFINE
  Items == {"run", "arm", "wake"} \X Sleeping
  Alone(w, e) ==                    \* only the thread w and the fiber e change
    /\ \A v \in Workers \ {w} :
         z_on[v] # e /\ z_on'[v] = z_on[v] /\ z_deferred'[v] = z_deferred[v]
    /\ \A g \in Sleeping \ {e} : z_coro'[g] = z_coro[g] /\ z_status'[g] = z_status[g]
    /\ z_on[w] \in {e, Nothing} /\ z_on'[w] \in {e, Nothing}
    /\ z_on'[w] = e => z_coro'[e] \in {"running", "stopping", "suspended", "completed"}
    /\ z_deferred'[w] =
         IF z_on'[w] = e /\ z_coro'[e] \in {"stopping", "suspended"} /\ z_status'[e] = "Sleeping"
         THEN <<<<"arm", e>>>> ELSE <<>>
<1>n. Nothing \notin Sleeping /\ \A f \in Sleeping : f \notin {"sleep", "yield", "end"}
  BY NapsAssumption
<1>0. ASSUME NEW S, NEW s \in Seq(S), s # <<>>
      PROVE  /\ Tail(s) \in Seq(S) /\ Len(s) \in Nat /\ 1 \in 1..Len(s)
             /\ Head(s) = s[1] /\ s[1] \in S /\ Len(Tail(s)) = Len(s) - 1
             /\ \A i \in 1..Len(Tail(s)) : i + 1 \in 1..Len(s) /\ Tail(s)[i] = s[i + 1]
  BY <1>0
(* A fiber is put into the queue, and taken out of it. *)
<1>1. ASSUME SleepInv, NEW k \in {"run", "arm", "wake"}, NEW e \in Sleeping, ~InQueue(e),
             z_handlers' = Append(z_handlers, <<k, e>>)
      PROVE  /\ z_handlers' \in Seq(Items) /\ QueuedOnce'
             /\ \A g : InQueue(g)' <=> InQueue(g) \/ g = e
  <2>1. z_handlers \in Seq(Items) /\ <<k, e>> \in Items
    BY <1>1 DEF SleepInv, Sleep!TypeOK
  <2>2. /\ z_handlers' \in Seq(Items) /\ Len(z_handlers) \in Nat /\ Len(z_handlers') = Len(z_handlers) + 1
        /\ \A i \in 1..Len(z_handlers) : z_handlers'[i] = z_handlers[i]
        /\ z_handlers'[Len(z_handlers) + 1] = <<k, e>>
    BY <1>1, <2>1
  <2>3. z_handlers'[Len(z_handlers) + 1][2] = e
    BY <2>2
  <2>4. ASSUME NEW g PROVE InQueue(g)' <=> InQueue(g) \/ g = e
    <3>1. ASSUME InQueue(g)' PROVE InQueue(g) \/ g = e
      <4>1. PICK i \in 1..Len(z_handlers') : z_handlers'[i][2] = g
        BY <3>1 DEF InQueue
      <4>2. CASE i = Len(z_handlers) + 1
        BY <2>3, <4>1, <4>2
      <4>3. CASE i \in 1..Len(z_handlers)
        BY <2>2, <4>1, <4>3 DEF InQueue
      <4> QED
        BY <2>2, <4>2, <4>3
    <3>2. ASSUME InQueue(g) PROVE InQueue(g)'
      <4>1. PICK i \in 1..Len(z_handlers) : z_handlers[i][2] = g
        BY <3>2 DEF InQueue
      <4>2. i \in 1..Len(z_handlers') /\ z_handlers'[i] = z_handlers[i]
        BY <2>2
      <4> QED
        BY <4>1, <4>2 DEF InQueue
    <3>3. ASSUME g = e PROVE InQueue(g)'
      <4>1. Len(z_handlers) + 1 \in 1..Len(z_handlers')
        BY <2>2
      <4> QED
        BY <2>3, <3>3, <4>1 DEF InQueue
    <3> QED
      BY <3>1, <3>2, <3>3
  <2>5. QueuedOnce'
    BY <1>1, <2>2, <2>3 DEF SleepInv, QueuedOnce, InQueue
  <2> QED
    BY <2>2, <2>4, <2>5
<1>2. ASSUME SleepInv, z_handlers # <<>>, z_handlers' = Tail(z_handlers)
      PROVE  /\ Head(z_handlers) \in Items /\ Head(z_handlers)[2] \in Sleeping
             /\ InQueue(Head(z_handlers)[2])
             /\ z_handlers' \in Seq(Items) /\ QueuedOnce'
             /\ \A g : InQueue(g)' <=> InQueue(g) /\ g # Head(z_handlers)[2]
  <2>1. z_handlers \in Seq(Items)
    BY <1>2 DEF SleepInv, Sleep!TypeOK
  <2>2. /\ z_handlers' \in Seq(Items) /\ Len(z_handlers) \in Nat /\ 1 \in 1..Len(z_handlers)
        /\ Head(z_handlers) = z_handlers[1] /\ Len(z_handlers') = Len(z_handlers) - 1
        /\ \A i \in 1..Len(z_handlers') : i + 1 \in 1..Len(z_handlers) /\ z_handlers'[i] = z_handlers[i + 1]
    BY <1>0, <1>2, <2>1
  <2>3. Head(z_handlers) \in Items /\ Head(z_handlers)[2] \in Sleeping
    BY <2>1, <2>2
  <2>4. InQueue(Head(z_handlers)[2])
    BY <2>2 DEF InQueue
  <2>5. QueuedOnce'
    BY <1>2, <2>2 DEF SleepInv, QueuedOnce
  <2>6. ASSUME NEW g, InQueue(g)' PROVE InQueue(g) /\ g # Head(z_handlers)[2]
    <3>1. PICK i \in 1..Len(z_handlers') : z_handlers'[i][2] = g
      BY <2>6 DEF InQueue
    <3>2. i + 1 \in 1..Len(z_handlers) /\ z_handlers[i + 1][2] = g /\ i + 1 # 1
      BY <2>2, <3>1
    <3> QED
      BY <1>2, <2>2, <3>2 DEF SleepInv, QueuedOnce, InQueue
  <2>7. ASSUME NEW g, InQueue(g), g # Head(z_handlers)[2] PROVE InQueue(g)'
    <3>1. PICK i \in 1..Len(z_handlers) : z_handlers[i][2] = g
      BY <2>7 DEF InQueue
    <3>2. i - 1 \in 1..Len(z_handlers') /\ z_handlers'[i - 1] = z_handlers[i]
      BY <2>2, <2>7, <3>1
    <3> QED
      BY <3>1, <3>2 DEF InQueue
  <2> QED
    BY <2>2, <2>3, <2>4, <2>5, <2>6, <2>7
(* The routine of f goes on to its next call. *)
<1>3. ASSUME SleepInv, NEW f \in Sleeping, z_script[f] # <<>>, z_script' = [z_script EXCEPT ![f] = Tail(@)]
      PROVE  /\ z_script' \in Scripts /\ StartedOnce'
             /\ \A g \in Sleeping \ {f} : z_script'[g] = z_script[g]
             /\ \A g \in Sleeping : \A i \in 1..Len(z_script'[g]) : z_script'[g][i] \in Sleeping =>
                  z_coro[z_script'[g][i]] = "none" /\ z_script'[g][i] # Head(z_script[f])
  <2> DEFINE Calls == Sleeping \cup {"sleep", "yield"}
             Place(g, i) == IF g = f THEN i + 1 ELSE i
  <2>1. z_script \in [Sleeping -> Seq(Calls)]
    BY <1>3 DEF SleepInv, Scripts
  <2>2. z_script[f] \in Seq(Calls) /\ z_script'[f] = Tail(z_script[f])
    BY <1>3, <2>1
  <2> HIDE DEF Calls
  <2>3. /\ z_script'[f] \in Seq(Calls) /\ Len(z_script[f]) \in Nat /\ 1 \in 1..Len(z_script[f])
        /\ Head(z_script[f]) = z_script[f][1] /\ Len(z_script'[f]) = Len(z_script[f]) - 1
        /\ \A i \in 1..Len(z_script'[f]) : i + 1 \in 1..Len(z_script[f]) /\ z_script'[f][i] = z_script[f][i + 1]
    <3> DEFINE s == z_script[f]
    <3>1. s \in Seq(Calls) /\ s # <<>>
      BY <1>3, <2>2
    <3> HIDE DEF s
    <3>2. /\ Tail(s) \in Seq(Calls) /\ Len(s) \in Nat /\ 1 \in 1..Len(s)
          /\ Head(s) = s[1] /\ Len(Tail(s)) = Len(s) - 1
          /\ \A i \in 1..Len(Tail(s)) : i + 1 \in 1..Len(s) /\ Tail(s)[i] = s[i + 1]
      BY <1>0, <3>1
    <3> QED
      BY <2>2, <3>2 DEF s
  <2>4. \A g \in Sleeping \ {f} : z_script'[g] = z_script[g]
    BY <1>3, <2>1
  <2>5. z_script' \in Scripts
    BY <1>3, <2>1, <2>3 DEF Scripts, Calls
  <2>6. \A g \in Sleeping : \A i \in 1..Len(z_script'[g]) :
          /\ Place(g, i) \in 1..Len(z_script[g]) /\ z_script'[g][i] = z_script[g][Place(g, i)]
          /\ i \in Nat /\ (g = f => Place(g, i) # 1)
    BY <2>3, <2>4
  <2>7. \A g, h \in Sleeping : \A i, j \in Nat : Place(g, i) = Place(h, j) /\ g = h => i = j
    OBVIOUS
  <2> HIDE DEF Place
  <2>8. StartedOnce'
    <3> SUFFICES ASSUME NEW g \in Sleeping, NEW h \in Sleeping,
                        NEW i \in 1..Len(z_script'[g]), NEW j \in 1..Len(z_script'[h]),
                        z_script'[g][i] \in Sleeping, z_script'[g][i] = z_script'[h][j]
                 PROVE  g = h /\ i = j
      BY DEF StartedOnce
    <3>1. PICK k \in 1..Len(z_script[g]) : k = Place(g, i) /\ z_script'[g][i] = z_script[g][k]
      BY <2>6
    <3>2. PICK l \in 1..Len(z_script[h]) : l = Place(h, j) /\ z_script'[h][j] = z_script[h][l]
      BY <2>6
    <3>3. g = h /\ k = l
      BY <1>3, <3>1, <3>2 DEF SleepInv, StartedOnce
    <3>4. Place(g, i) = Place(h, j) /\ i \in Nat /\ j \in Nat
      BY <2>6, <3>1, <3>2, <3>3
    <3> QED
      BY <2>7, <3>3, <3>4
  <2>9. ASSUME NEW g \in Sleeping, NEW i \in 1..Len(z_script'[g]), z_script'[g][i] \in Sleeping
        PROVE  z_coro[z_script'[g][i]] = "none" /\ z_script'[g][i] # Head(z_script[f])
    <3>1. PICK k \in 1..Len(z_script[g]) : k = Place(g, i) /\ z_script'[g][i] = z_script[g][k] /\ (g = f => k # 1)
      BY <2>6
    <3>2. z_coro[z_script'[g][i]] = "none"
      BY <1>3, <2>9, <3>1 DEF SleepInv, NotStarted
    <3>3. z_script[g][k] # z_script[f][1]
      BY <1>3, <2>3, <2>9, <3>1 DEF SleepInv, StartedOnce
    <3> QED
      BY <2>3, <3>1, <3>2, <3>3
  <2> QED
    BY <2>4, <2>5, <2>8, <2>9
(* What does not change. *)
<1>4. /\ UNCHANGED z_handlers => (QueuedOnce => QueuedOnce') /\ \A g : InQueue(g)' = InQueue(g)
      /\ UNCHANGED z_on => \A g : Off(g)' <=> Off(g)
  BY DEF QueuedOnce, InQueue, Off
<1>5. ASSUME SleepInv, UNCHANGED z_script, \A g \in Sleeping : z_coro[g] = "none" => z_coro'[g] = "none"
      PROVE  z_script' \in Scripts /\ StartedOnce' /\ NotStarted'
  BY <1>5 DEF SleepInv, StartedOnce, NotStarted
<1>6. ASSUME SleepInv, NEW w \in Workers, z_on[w] # Nothing
      PROVE  /\ z_on[w] \in Sleeping /\ ~InQueue(z_on[w]) /\ z_on[w] \notin z_timers
             /\ \A v \in Workers : z_on[v] = z_on[w] => v = w
             /\ z_coro[z_on[w]] \in {"running", "stopping", "suspended", "completed"}
  <2>1. z_on[w] \in Sleeping
    BY <1>6 DEF SleepInv, Sleep!TypeOK
  <2>2. ~Off(z_on[w])
    BY DEF Off
  <2>3. ~InQueue(z_on[w]) /\ z_on[w] \notin z_timers
    BY <1>6, <2>1, <2>2 DEF SleepInv, Kept
  <2>4. OnThread(w)
    BY <1>6 DEF SleepInv, OnThreads
  <2> QED
    BY <1>6, <2>1, <2>3, <2>4 DEF OnThread
(* One thread, and the fiber that is or was on it, change. *)
<1>8. ASSUME SleepInv, NEW w \in Workers, NEW e \in Sleeping, Alone(w, e)
      PROVE  OnThreads' /\ (Off(e)' <=> z_on'[w] # e) /\ \A g \in Sleeping \ {e} : Off(g)' <=> Off(g)
  <2> USE DEF Alone
  <2>1. ASSUME NEW v \in Workers PROVE OnThread(v)'
    <3>1. CASE v = w
      <4>1. CASE z_on'[w] = e
        BY <1>n, <1>8, <3>1, <4>1 DEF OnThread
      <4>2. CASE z_on'[w] = Nothing
        BY <1>n, <1>8, <3>1, <4>2 DEF OnThread
      <4> QED
        BY <1>8, <4>1, <4>2
    <3>2. CASE v # w
      <4>1. z_on[v] # Nothing => z_on[v] \in Sleeping /\ z_on[v] # e
        BY <1>8, <3>2 DEF SleepInv, Sleep!TypeOK
      <4> QED
        BY <1>8, <3>2, <4>1 DEF SleepInv, OnThreads, OnThread
    <3> QED
      BY <3>1, <3>2
  <2>2. Off(e)' <=> z_on'[w] # e
    BY <1>8 DEF Off
  <2>3. ASSUME NEW g \in Sleeping \ {e} PROVE Off(g)' <=> Off(g)
    <3>1. \A v \in Workers : z_on'[v] = g <=> z_on[v] = g
      BY <1>n, <1>8
    <3> QED
      BY <3>1 DEF Off
  <2> QED
    BY <2>1, <2>2, <2>3 DEF OnThreads
<1> HIDE DEF Alone
(* SleepFor() and Suspend(). *)
<1>7. ASSUME SleepInv, NEW w \in Workers, Sleep!SleepFor(w) PROVE SleepInv'
  <2> DEFINE f == z_on[w]
  <2>1. /\ f # Nothing /\ z_coro[f] = "running" /\ z_script[f] # <<>>
        /\ z_status' = [z_status EXCEPT ![f] = "Sleeping"]
        /\ z_deferred' = [z_deferred EXCEPT ![w] = Append(@, <<"arm", f>>)]
        /\ z_coro' = [z_coro EXCEPT ![f] = "stopping"]
        /\ UNCHANGED <<z_handlers, z_timers, z_on, z_script>>
    BY <1>7 DEF Sleep!SleepFor, Sleep!Calls, Sleep!Op, Sleep!Switch
  <2>2. /\ f \in Sleeping /\ (\A v \in Workers : z_on[v] = f => v = w)
        /\ z_on[w] = f /\ ~Off(f) /\ ~InQueue(f) /\ f \notin z_timers
    BY <1>6, <1>7, <2>1 DEF Off
  <2>3. z_deferred[w] = <<>>
    BY <1>7, <2>1 DEF SleepInv, OnThreads, OnThread
  <2> HIDE DEF f
  <2>4. /\ \A g \in Sleeping : z_coro'[g] = IF g = f THEN "stopping" ELSE z_coro[g]
        /\ \A g \in Sleeping : z_status'[g] = IF g = f THEN "Sleeping" ELSE z_status[g]
        /\ \A v \in Workers : z_deferred'[v] = IF v = w THEN <<<<"arm", f>>>> ELSE z_deferred[v]
    BY <1>7, <2>1, <2>2, <2>3 DEF SleepInv, Sleep!TypeOK
  <2>5. Sleep!TypeOK'
    <3>1. z_deferred' \in [Workers -> Seq({"arm"} \X Sleeping)]
      BY <1>7, <2>1, <2>2, <2>4 DEF SleepInv, Sleep!TypeOK
    <3> QED
      BY <1>7, <2>1, <2>2, <3>1 DEF SleepInv, Sleep!TypeOK
  <2>6. OnThreads'
    <3>1. Alone(w, f)
      BY <2>1, <2>2, <2>4 DEF Alone
    <3> QED
      BY <1>7, <1>8, <2>2, <3>1
  <2>7. Kept'
    BY <1>4, <1>7, <2>1, <2>2, <2>4 DEF SleepInv, Kept
  <2> QED
    BY <1>4, <1>5, <1>7, <2>1, <2>2, <2>4, <2>5, <2>6, <2>7 DEF SleepInv
<1>9. ASSUME SleepInv, NEW w \in Workers, NEW to \in {"suspended", "completed"}, z_on[w] # Nothing,
             z_coro[z_on[w]] \in {"running", "stopping"},
             to = "suspended" => z_script[z_on[w]] # <<>>, to = "completed" => z_coro[z_on[w]] = "running",
             z_coro' = [z_coro EXCEPT ![z_on[w]] = to],
             UNCHANGED <<z_handlers, z_deferred, z_timers, z_on, z_status, z_script>>
      PROVE  SleepInv'
  <2> DEFINE f == z_on[w]
  <2>1. /\ f # Nothing /\ z_coro[f] \in {"running", "stopping"} /\ z_coro' = [z_coro EXCEPT ![f] = to]
        /\ to = "suspended" => z_script[f] # <<>>
        /\ to = "completed" => z_coro[f] = "running"
    BY <1>9
  <2>2. /\ f \in Sleeping /\ (\A v \in Workers : z_on[v] = f => v = w)
        /\ z_on[w] = f /\ ~Off(f) /\ ~InQueue(f) /\ f \notin z_timers
    BY <1>6, <1>9 DEF Off
  <2>3. z_deferred[w] = IF z_coro[f] = "stopping" THEN <<<<"arm", f>>>> ELSE <<>>
    <3>1. OnThread(w) /\ (z_coro[f] = "stopping" => z_status[f] = "Sleeping")
      BY <1>9, <2>2 DEF SleepInv, OnThreads, Kept
    <3> QED
      BY <2>1, <3>1 DEF OnThread
  <2>8. /\ z_coro[f] = "running" => z_status[f] # "Sleeping"
        /\ z_coro[f] = "stopping" => z_status[f] = "Sleeping"
    BY <1>9, <2>2 DEF SleepInv, Kept
  <2> HIDE DEF f
  <2>4. \A g \in Sleeping : z_coro'[g] = IF g = f THEN to ELSE z_coro[g]
    BY <1>9, <2>1, <2>2 DEF SleepInv, Sleep!TypeOK
  <2>5. Sleep!TypeOK'
    BY <1>9, <2>1, <2>2 DEF SleepInv, Sleep!TypeOK
  <2>6. OnThreads'
    <3>1. Alone(w, f)
      BY <1>9, <2>1, <2>2, <2>3, <2>4, <2>8 DEF Alone
    <3> QED
      BY <1>8, <1>9, <2>2, <3>1
  <2>7. Kept'
    BY <1>4, <1>9, <2>1, <2>2, <2>4 DEF SleepInv, Kept
  <2> QED
    BY <1>4, <1>5, <1>9, <2>1, <2>2, <2>4, <2>5, <2>6, <2>7 DEF SleepInv
<1>10. ASSUME SleepInv, NEW w \in Workers, Sleep!Yield(w) \/ Sleep!End(w) PROVE SleepInv'
  <2>1. z_on[w] # Nothing => z_on[w] \in Sleeping
    BY <1>10 DEF SleepInv, Sleep!TypeOK
  <2>2. ASSUME z_on[w] # Nothing, z_coro[z_on[w]] = "stopping" PROVE z_script[z_on[w]] # <<>>
    BY <1>10, <2>1, <2>2 DEF SleepInv, Kept
  <2>3. CASE Sleep!Yield(w)
    <3>1. /\ z_on[w] # Nothing /\ z_coro[z_on[w]] \in {"running", "stopping"}
          /\ z_script[z_on[w]] # <<>> /\ z_coro' = [z_coro EXCEPT ![z_on[w]] = "suspended"]
          /\ UNCHANGED <<z_handlers, z_deferred, z_timers, z_on, z_status, z_script>>
      BY <2>2, <2>3 DEF Sleep!Yield, Sleep!Calls, Sleep!Op, Sleep!Switch
    <3> QED
      BY <1>9, <1>10, <3>1
  <2>4. CASE Sleep!End(w)
    <3>1. /\ z_on[w] # Nothing /\ z_coro[z_on[w]] = "running"
          /\ z_coro' = [z_coro EXCEPT ![z_on[w]] = "completed"]
          /\ UNCHANGED <<z_handlers, z_deferred, z_timers, z_on, z_status, z_script>>
      BY <2>4 DEF Sleep!End, Sleep!Calls, Sleep!Switch
    <3> QED
      BY <1>9, <1>10, <3>1
  <2> QED
    BY <1>10, <2>3, <2>4
(* A handler returns. *)
<1>11. ASSUME NEW s \in Seq(Items), NEW x \in Items
       PROVE  /\ s \o <<>> \o <<>> = s
              /\ s \o <<>> \o <<x>> = Append(s, x) /\ s \o <<x>> \o <<>> = Append(s, x)
  <2>1. /\ <<>> \in Seq(Items) /\ <<x>> \in Seq(Items) /\ Append(s, x) \in Seq(Items)
        /\ s \o <<>> = s /\ Append(s, x) \o <<>> = Append(s, x)
    BY ConcatEmptySeq, AppendProperties
  <2>2. s \o <<x>> = Append(s, x)
    OBVIOUS
  <2> QED
    BY <2>1, <2>2
<1>12. ASSUME SleepInv, NEW w \in Workers, z_on[w] # Nothing, NEW to, NEW posted,
              \/ z_coro[z_on[w]] = "completed" /\ to = "deleted" /\ posted = <<>>
              \/ z_coro[z_on[w]] = "suspended" /\ to = "suspended"
                 /\ posted = IF z_status[z_on[w]] = "Sleeping" THEN <<>> ELSE <<<<"run", z_on[w]>>>>,
              Sleep!Leave(w, posted), z_coro' = [z_coro EXCEPT ![z_on[w]] = to],
              UNCHANGED <<z_timers, z_status, z_script>>
       PROVE  SleepInv'
  <2>0. PICK f \in Sleeping : f = z_on[w]
    BY <1>6, <1>12
  <2> DEFINE kind == IF z_status[f] = "Sleeping" THEN "arm" ELSE "run"
  <2>1. /\ f # Nothing /\ z_coro' = [z_coro EXCEPT ![f] = to] /\ z_on' = [z_on EXCEPT ![w] = Nothing]
        /\ z_deferred' = [z_deferred EXCEPT ![w] = <<>>]
        /\ (z_coro[f] = "completed" /\ to = "deleted") \/ (z_coro[f] = "suspended" /\ to = "suspended")
    BY <1>12, <2>0 DEF Sleep!Leave
  <2>2. /\ f \in Sleeping /\ (\A v \in Workers : z_on[v] = f => v = w)
        /\ z_on[w] = f /\ ~Off(f) /\ ~InQueue(f) /\ f \notin z_timers
    BY <1>6, <1>12, <2>0 DEF Off
  <2>3. IF to = "deleted" THEN z_handlers' = z_handlers ELSE z_handlers' = Append(z_handlers, <<kind, f>>)
    <3>1. z_deferred[w] = IF to = "suspended" /\ z_status[f] = "Sleeping" THEN <<<<"arm", f>>>> ELSE <<>>
      BY <1>12, <2>0, <2>1 DEF SleepInv, OnThreads, OnThread
    <3>2. z_handlers \in Seq(Items) /\ <<"arm", f>> \in Items /\ <<"run", f>> \in Items
      BY <1>12, <2>2 DEF SleepInv, Sleep!TypeOK
    <3>3. z_handlers' = z_handlers \o posted \o z_deferred[w]
      BY <1>12 DEF Sleep!Leave
    <3>4. CASE to = "deleted"
      <4>1. posted = <<>> /\ z_deferred[w] = <<>>
        BY <1>12, <2>0, <3>1, <3>4
      <4> QED
        BY <1>11, <3>2, <3>3, <3>4, <4>1
    <3>5. CASE to = "suspended" /\ z_status[f] = "Sleeping"
      <4>1. posted = <<>> /\ z_deferred[w] = <<<<"arm", f>>>>
        BY <1>12, <2>0, <3>1, <3>5
      <4> QED
        BY <1>11, <3>2, <3>3, <3>5, <4>1
    <3>6. CASE to = "suspended" /\ z_status[f] # "Sleeping"
      <4>1. posted = <<<<"run", f>>>> /\ z_deferred[w] = <<>>
        BY <1>12, <2>0, <3>1, <3>6
      <4> QED
        BY <1>11, <3>2, <3>3, <3>6, <4>1
    <3> QED
      BY <2>1, <3>4, <3>5, <3>6
  <2>4. /\ z_handlers' \in Seq(Items) /\ QueuedOnce'
        /\ \A g : InQueue(g)' <=> InQueue(g) \/ (g = f /\ to = "suspended")
    <3>1. CASE to = "deleted"
      BY <1>4, <1>12, <2>3, <3>1 DEF SleepInv, Sleep!TypeOK
    <3>2. CASE to = "suspended"
      <4>1. kind \in {"run", "arm", "wake"} /\ z_handlers' = Append(z_handlers, <<kind, f>>)
        BY <2>3, <3>2
      <4> HIDE DEF kind
      <4> QED
        BY <1>1, <1>12, <2>2, <3>2, <4>1
    <3> QED
      BY <2>1, <3>1, <3>2
  <2>5. /\ \A g \in Sleeping : z_coro'[g] = IF g = f THEN to ELSE z_coro[g]
        /\ \A v \in Workers : z_on'[v] = IF v = w THEN Nothing ELSE z_on[v]
        /\ \A v \in Workers : z_deferred'[v] = IF v = w THEN <<>> ELSE z_deferred[v]
    BY <1>12, <2>1, <2>2 DEF SleepInv, Sleep!TypeOK
  <2>6. Sleep!TypeOK'
    <3>1. z_deferred' \in [Workers -> Seq({"arm"} \X Sleeping)]
      BY <1>12, <2>1, <2>5 DEF SleepInv, Sleep!TypeOK
    <3>2. to \in {"suspended", "deleted"}
      BY <2>1
    <3> QED
      BY <1>12, <2>1, <2>2, <2>4, <3>1, <3>2 DEF SleepInv, Sleep!TypeOK
  <2>7. OnThreads' /\ Off(f)' /\ \A g \in Sleeping \ {f} : Off(g)' <=> Off(g)
    <3>1. Nothing # f
      BY <2>1
    <3>2. \A v \in Workers \ {w} : z_on[v] # f /\ z_on'[v] = z_on[v] /\ z_deferred'[v] = z_deferred[v]
      BY <2>2, <2>5
    <3>3. \A g \in Sleeping \ {f} : z_coro'[g] = z_coro[g] /\ z_status'[g] = z_status[g]
      BY <1>12, <2>5
    <3>4. z_on'[w] = Nothing /\ z_on'[w] # f /\ z_deferred'[w] = <<>>
      BY <2>5, <3>1
    <3>5. SleepInv
      BY <1>12
    <3>6. Alone(w, f)
      BY <2>2, <3>2, <3>3, <3>4 DEF Alone
    <3> QED
      BY <1>8, <3>4, <3>5, <3>6
  <2>8. Kept'
    <3>1. to = "suspended" => z_script[f] # <<>>
      BY <1>12, <2>1, <2>2 DEF SleepInv, Kept
    <3>2. /\ z_timers' = z_timers /\ z_status' = z_status /\ z_script' = z_script
          /\ to = "deleted" \/ to = "suspended"
      BY <1>12, <2>1
    <3>3. Kept
      BY <1>12 DEF SleepInv
    <3> SUFFICES ASSUME NEW g \in Sleeping
                 PROVE  /\ InQueue(g)' => z_coro'[g] \in {"created", "suspended"} /\ Off(g)' /\ g \notin z_timers
                        /\ g \in z_timers => z_coro'[g] \in {"created", "suspended"} /\ Off(g)'
                        /\ z_coro'[g] \notin {"none", "deleted"} => InQueue(g)' \/ g \in z_timers \/ ~Off(g)'
                        /\ z_coro'[g] \in {"stopping", "suspended"} => z_script[g] # <<>>
                        /\ z_coro'[g] = "running" => z_status[g] = "Running"
                        /\ z_coro'[g] = "stopping" => z_status[g] = "Sleeping"
      BY <3>2 DEF Kept
    <3>4. CASE g = f
      BY <2>2, <2>4, <2>5, <2>7, <3>1, <3>2, <3>4
    <3>5. CASE g # f
      BY <2>4, <2>5, <2>7, <3>3, <3>5 DEF Kept
    <3> QED
      BY <3>4, <3>5
  <2> QED
    BY <1>5, <1>12, <2>1, <2>4, <2>5, <2>6, <2>7, <2>8 DEF SleepInv
<1>13. ASSUME SleepInv, NEW w \in Workers, Sleep!Delete(w) \/ Sleep!Sleep(w) \/ Sleep!Schedule(w)
       PROVE  SleepInv'
  <2>1. z_on[w] # Nothing
    BY <1>13 DEF Sleep!Delete, Sleep!Sleep, Sleep!Schedule
  <2>2. CASE Sleep!Delete(w)
    BY <1>12, <1>13, <2>1, <2>2 DEF Sleep!Delete, Sleep!Switch
  <2>3. CASE Sleep!Sleep(w) \/ Sleep!Schedule(w)
    <3>1. z_coro[z_on[w]] = "suspended" /\ UNCHANGED <<z_timers, z_coro, z_status, z_script>>
      BY <2>3 DEF Sleep!Sleep, Sleep!Schedule
    <3>2. z_coro' = [z_coro EXCEPT ![z_on[w]] = "suspended"]
      BY <1>6, <1>13, <2>1, <3>1 DEF SleepInv, Sleep!TypeOK
    <3>3. Sleep!Leave(w, IF z_status[z_on[w]] = "Sleeping" THEN <<>> ELSE <<<<"run", z_on[w]>>>>)
      BY <2>3 DEF Sleep!Sleep, Sleep!Schedule
    <3> QED
      BY <1>12, <1>13, <2>1, <3>1, <3>2, <3>3
  <2> QED
    BY <1>13, <2>2, <2>3
(* Go(): another fiber begins. *)
<1>14. ASSUME SleepInv, NEW w \in Workers, NEW e \in Sleeping, Sleep!Go(w, e) PROVE SleepInv'
  <2>0. PICK f \in Sleeping : f = z_on[w] /\ z_coro[f] = "running"
    BY <1>6, <1>14 DEF Sleep!Go, Sleep!Calls
  <2>1. /\ f # Nothing /\ z_script[f] # <<>> /\ Head(z_script[f]) = e
        /\ z_handlers' = Append(z_handlers, <<"run", e>>)
        /\ z_coro' = [z_coro EXCEPT ![e] = "created"]
        /\ z_script' = [z_script EXCEPT ![f] = Tail(@)]
        /\ UNCHANGED <<z_deferred, z_timers, z_on, z_status>>
    BY <1>n, <1>14, <2>0 DEF Sleep!Go, Sleep!Calls, Sleep!Op
  <2>2. z_coro[e] = "none"
    <3>1. Len(z_script[f]) \in Nat /\ 1 \in 1..Len(z_script[f]) /\ z_script[f][1] = e
      BY <1>14, <2>0, <2>1 DEF SleepInv, Scripts
    <3> QED
      BY <1>14, <3>1 DEF SleepInv, NotStarted
  <2>3. ~InQueue(e) /\ e \notin z_timers /\ e # f
    BY <1>14, <2>0, <2>2 DEF SleepInv, Kept
  <2>4. \A v \in Workers : z_on[v] # Nothing => z_on[v] \in Sleeping /\ z_on[v] # e
    <3>1. ASSUME NEW v \in Workers, z_on[v] # Nothing PROVE z_on[v] \in Sleeping /\ z_on[v] # e
      BY <1>6, <1>14, <2>2, <3>1
    <3> QED
      BY <3>1
  <2>5. /\ z_handlers' \in Seq(Items) /\ QueuedOnce'
        /\ \A g : InQueue(g)' <=> InQueue(g) \/ g = e
    BY <1>1, <1>14, <2>1, <2>3
  <2>6. \A g \in Sleeping : z_coro'[g] = IF g = e THEN "created" ELSE z_coro[g]
    BY <1>14, <2>1 DEF SleepInv, Sleep!TypeOK
  <2>7. Sleep!TypeOK'
    BY <1>14, <2>1, <2>5 DEF SleepInv, Sleep!TypeOK
  <2>8. /\ z_script' \in Scripts /\ StartedOnce'
        /\ \A g \in Sleeping \ {f} : z_script'[g] = z_script[g]
        /\ \A g \in Sleeping : \A i \in 1..Len(z_script'[g]) : z_script'[g][i] \in Sleeping =>
             z_coro[z_script'[g][i]] = "none" /\ z_script'[g][i] # e
    <3>1. SleepInv /\ z_script[f] # <<>> /\ z_script' = [z_script EXCEPT ![f] = Tail(@)]
      BY <1>14, <2>1
    <3>2. /\ z_script' \in Scripts /\ StartedOnce'
          /\ \A g \in Sleeping \ {f} : z_script'[g] = z_script[g]
          /\ \A g \in Sleeping : \A i \in 1..Len(z_script'[g]) : z_script'[g][i] \in Sleeping =>
               z_coro[z_script'[g][i]] = "none" /\ z_script'[g][i] # Head(z_script[f])
      BY <1>3, <3>1
    <3> QED
      BY <2>1, <3>2
  <2>9. NotStarted'
    BY <2>6, <2>8 DEF NotStarted
  <2>10. OnThreads'
    <3> SUFFICES ASSUME NEW v \in Workers PROVE OnThread(v)'
      BY DEF OnThreads
    <3>1. OnThread(v)
      BY <1>14 DEF SleepInv, OnThreads
    <3>2. z_on[v] # Nothing => z_coro'[z_on[v]] = z_coro[z_on[v]]
      BY <2>4, <2>6
    <3> QED
      BY <2>1, <3>1, <3>2 DEF OnThread
  <2>11. Kept'
    <3>1. Off(e) /\ \A g : Off(g)' <=> Off(g)
      BY <1>n, <1>4, <2>1, <2>4 DEF Off
    <3> QED
      BY <1>14, <2>0, <2>1, <2>2, <2>3, <2>5, <2>6, <2>8, <3>1 DEF SleepInv, Kept
  <2> QED
    BY <2>5, <2>7, <2>8, <2>9, <2>10, <2>11 DEF SleepInv
(* A timer is armed, and expires. *)
<1>15. ASSUME SleepInv, NEW w \in Workers, Sleep!TakeHandler(w), Head(z_handlers)[1] = "arm" PROVE SleepInv'
  <2>0. z_handlers # <<>> /\ z_handlers' = Tail(z_handlers)
    BY <1>15 DEF Sleep!TakeHandler
  <2>1. PICK f \in Sleeping : f = Head(z_handlers)[2] /\ InQueue(f)
    BY <1>2, <1>15, <2>0
  <2>2. z_timers' = z_timers \cup {f} /\ UNCHANGED <<z_deferred, z_on, z_coro, z_status, z_script>>
    BY <1>15, <2>1 DEF Sleep!TakeHandler, Sleep!Arm
  <2>3. /\ z_handlers' \in Seq(Items) /\ QueuedOnce'
        /\ \A g : InQueue(g)' <=> InQueue(g) /\ g # f
    BY <1>2, <1>15, <2>0, <2>1
  <2>4. Sleep!TypeOK'
    BY <1>15, <2>2, <2>3 DEF SleepInv, Sleep!TypeOK
  <2>5. OnThreads'
    BY <1>15, <2>2 DEF SleepInv, OnThreads, OnThread
  <2>6. Kept'
    BY <1>4, <1>15, <2>1, <2>2, <2>3 DEF SleepInv, Kept
  <2> QED
    BY <1>5, <1>15, <2>2, <2>3, <2>4, <2>5, <2>6 DEF SleepInv
<1>16. ASSUME SleepInv, NEW f \in Sleeping, Sleep!Expire(f) PROVE SleepInv'
  <2>1. /\ f \in z_timers /\ z_timers' = z_timers \ {f} /\ z_handlers' = Append(z_handlers, <<"wake", f>>)
        /\ UNCHANGED <<z_deferred, z_on, z_coro, z_status, z_script>>
    BY <1>16 DEF Sleep!Expire
  <2>2. ~InQueue(f)
    BY <1>16, <2>1 DEF SleepInv, Kept
  <2>3. /\ z_handlers' \in Seq(Items) /\ QueuedOnce'
        /\ \A g : InQueue(g)' <=> InQueue(g) \/ g = f
    BY <1>1, <1>16, <2>1, <2>2
  <2>4. Sleep!TypeOK'
    BY <1>16, <2>1, <2>3 DEF SleepInv, Sleep!TypeOK
  <2>5. OnThreads'
    BY <1>16, <2>1 DEF SleepInv, OnThreads, OnThread
  <2>6. Kept'
    BY <1>4, <1>16, <2>1, <2>2, <2>3 DEF SleepInv, Kept
  <2> QED
    BY <1>5, <1>16, <2>1, <2>3, <2>4, <2>5, <2>6 DEF SleepInv
(* Run(): a thread takes a fiber from the queue. *)
<1>17. ASSUME SleepInv, NEW w \in Workers, Sleep!TakeHandler(w), Head(z_handlers)[1] # "arm" PROVE SleepInv'
  <2>0. z_handlers # <<>> /\ z_handlers' = Tail(z_handlers) /\ z_on[w] = Nothing
    BY <1>17 DEF Sleep!TakeHandler
  <2>1. PICK f \in Sleeping : f = Head(z_handlers)[2] /\ InQueue(f)
    BY <1>2, <1>17, <2>0
  <2>2. /\ z_on' = [z_on EXCEPT ![w] = f]
        /\ z_coro' = [z_coro EXCEPT ![f] = "running"]
        /\ z_status' = [z_status EXCEPT ![f] = "Running"]
        /\ z_script' = [z_script EXCEPT ![f] = IF z_coro[f] = "created" THEN @ ELSE Tail(@)]
        /\ UNCHANGED <<z_deferred, z_timers>>
    BY <1>17, <2>1 DEF Sleep!TakeHandler, Sleep!Enter
  <2>3. /\ z_handlers' \in Seq(Items) /\ QueuedOnce'
        /\ \A g : InQueue(g)' <=> InQueue(g) /\ g # f
    BY <1>2, <1>17, <2>0, <2>1
  <2>4. z_coro[f] \in {"created", "suspended"} /\ Off(f) /\ f \notin z_timers
        /\ (z_coro[f] = "suspended" => z_script[f] # <<>>)
    BY <1>17, <2>1 DEF SleepInv, Kept
  <2>5. z_deferred[w] = <<>>
    BY <1>17, <2>0 DEF SleepInv, OnThreads, OnThread
  <2>6. /\ \A g \in Sleeping : z_coro'[g] = IF g = f THEN "running" ELSE z_coro[g]
        /\ \A g \in Sleeping : z_status'[g] = IF g = f THEN "Running" ELSE z_status[g]
        /\ \A v \in Workers : z_on'[v] = IF v = w THEN f ELSE z_on[v]
    BY <1>17, <2>1, <2>2 DEF SleepInv, Sleep!TypeOK
  <2>7. Sleep!TypeOK'
    BY <1>17, <2>1, <2>2, <2>3 DEF SleepInv, Sleep!TypeOK
  <2>8. /\ z_script' \in Scripts /\ StartedOnce'
        /\ \A g \in Sleeping \ {f} : z_script'[g] = z_script[g]
        /\ \A g \in Sleeping : \A i \in 1..Len(z_script'[g]) :
             z_script'[g][i] \in Sleeping => z_coro[z_script'[g][i]] = "none"
    <3>1. CASE z_coro[f] = "created"
      <4>1. z_script' = z_script
        BY <1>17, <2>2, <3>1 DEF SleepInv, Scripts
      <4>2. z_script \in Scripts /\ StartedOnce /\ NotStarted
        BY <1>17 DEF SleepInv
      <4>3. StartedOnce'
        BY <4>1, <4>2 DEF StartedOnce
      <4> QED
        BY <4>1, <4>2, <4>3 DEF NotStarted
    <3>2. CASE z_coro[f] = "suspended"
      <4>1. SleepInv /\ z_script[f] # <<>> /\ z_script' = [z_script EXCEPT ![f] = Tail(@)]
        BY <1>17, <2>2, <2>4, <3>2
      <4>2. /\ z_script' \in Scripts /\ StartedOnce'
            /\ \A g \in Sleeping \ {f} : z_script'[g] = z_script[g]
            /\ \A g \in Sleeping : \A i \in 1..Len(z_script'[g]) : z_script'[g][i] \in Sleeping =>
                 z_coro[z_script'[g][i]] = "none" /\ z_script'[g][i] # Head(z_script[f])
        BY <1>3, <4>1
      <4> QED
        BY <4>2
    <3> QED
      BY <2>4, <3>1, <3>2
  <2>9. NotStarted'
    BY <2>4, <2>6, <2>8 DEF NotStarted
  <2>10. OnThreads' /\ ~Off(f)' /\ \A g \in Sleeping \ {f} : Off(g)' <=> Off(g)
    <3>1. \A v \in Workers \ {w} : z_on[v] # f /\ z_on'[v] = z_on[v] /\ z_deferred'[v] = z_deferred[v]
      BY <2>2, <2>4, <2>6 DEF Off
    <3>2. \A g \in Sleeping \ {f} : z_coro'[g] = z_coro[g] /\ z_status'[g] = z_status[g]
      BY <2>6
    <3>3. z_on'[w] = f /\ z_deferred'[w] = <<>> /\ z_coro'[f] = "running"
      BY <2>2, <2>5, <2>6
    <3>4. SleepInv
      BY <1>17
    <3>5. Alone(w, f)
      BY <2>0, <3>1, <3>2, <3>3 DEF Alone
    <3> QED
      BY <1>8, <3>3, <3>4, <3>5
  <2>11. Kept'
    BY <1>17, <2>2, <2>3, <2>4, <2>6, <2>8, <2>10 DEF SleepInv, Kept
  <2> QED
    BY <2>3, <2>7, <2>8, <2>9, <2>10, <2>11 DEF SleepInv
<1>18. ASSUME SleepInv, UNCHANGED sleepVars PROVE SleepInv'
  <2>1. UNCHANGED <<z_handlers, z_deferred, z_timers, z_on, z_coro, z_status, z_script>>
    BY <1>18 DEF sleepVars
  <2>2. Sleep!TypeOK' /\ OnThreads'
    BY <1>18, <2>1 DEF SleepInv, Sleep!TypeOK, OnThreads, OnThread
  <2>3. Kept'
    BY <1>4, <1>18, <2>1 DEF SleepInv, Kept
  <2> QED
    BY <1>4, <1>5, <1>18, <2>1, <2>2, <2>3 DEF SleepInv
<1>19. ASSUME Init PROVE SleepInv
  <2>1. PICK p \in Naps :
          /\ z_handlers = [i \in DOMAIN p.begin |-> <<"run", p.begin[i]>>]
          /\ z_script = p.script
          /\ z_coro = [f \in Sleeping |->
                         IF \E i \in DOMAIN p.begin : p.begin[i] = f THEN "created" ELSE "none"]
    BY <1>19 DEF Init, Sleep!Init
  <2>2. /\ z_deferred = [w \in Workers |-> <<>>] /\ z_timers = {}
        /\ z_on = [w \in Workers |-> Nothing] /\ z_status = [f \in Sleeping |-> "Runnable"]
    BY <1>19 DEF Init, Sleep!Init
  <2>3. /\ p.begin \in Seq(Sleeping) /\ p.script \in Scripts
        /\ \A i, j \in 1..Len(p.begin) : p.begin[i] = p.begin[j] => i = j
        /\ \A f, g \in Sleeping : \A i \in 1..Len(p.script[f]), j \in 1..Len(p.script[g]) :
             p.script[f][i] \in Sleeping /\ p.script[f][i] = p.script[g][j] => f = g /\ i = j
        /\ \A f \in Sleeping : \A i \in 1..Len(p.script[f]), j \in 1..Len(p.begin) :
             p.script[f][i] # p.begin[j]
    BY NapsAssumption DEF Scripts
  <2>4. /\ DOMAIN p.begin = 1..Len(p.begin) /\ Len(p.begin) \in Nat
        /\ \A i \in 1..Len(p.begin) : p.begin[i] \in Sleeping
    BY <2>3
  <2>5. /\ z_handlers \in Seq(Items) /\ Len(z_handlers) = Len(p.begin)
        /\ \A i \in 1..Len(p.begin) : z_handlers[i] = <<"run", p.begin[i]>> /\ z_handlers[i][2] = p.begin[i]
    <3>1. \A i \in 1..Len(p.begin) : <<"run", p.begin[i]>> \in Items
      BY <2>4
    <3>2. z_handlers \in [1..Len(p.begin) -> Items]
      BY <2>1, <2>4, <3>1
    <3>3. z_handlers \in Seq(Items) /\ Len(z_handlers) = Len(p.begin)
      BY <2>4, <3>2, SeqDef, LenProperties
    <3> QED
      BY <2>1, <2>4, <3>3
  <2>6. \A f \in Sleeping : InQueue(f) <=> \E i \in DOMAIN p.begin : p.begin[i] = f
    BY <2>4, <2>5 DEF InQueue
  <2>7. Sleep!TypeOK
    <3>1. z_deferred \in [Workers -> Seq({"arm"} \X Sleeping)]
      BY <2>2
    <3> QED
      BY <2>1, <2>2, <2>5, <3>1 DEF Sleep!TypeOK
  <2>8. QueuedOnce /\ z_script \in Scripts /\ StartedOnce
    BY <2>1, <2>3, <2>5 DEF QueuedOnce, StartedOnce
  <2>9. NotStarted
    BY <2>1, <2>3, <2>4 DEF NotStarted
  <2>10. OnThreads
    BY <1>n, <2>2 DEF OnThreads, OnThread
  <2>11. Kept
    <3>1. \A f \in Sleeping : Off(f)
      BY <1>n, <2>2 DEF Off
    <3> QED
      BY <2>1, <2>2, <2>6, <3>1 DEF Kept
  <2> QED
    BY <2>7, <2>8, <2>9, <2>10, <2>11 DEF SleepInv
<1>20. ASSUME [Next]_vars
       PROVE  \/ UNCHANGED sleepVars
              \/ \E f \in Sleeping : Sleep!Expire(f)
              \/ \E w \in Workers :
                   \/ Sleep!TakeHandler(w) \/ \E f \in Sleeping : Sleep!Go(w, f)
                   \/ Sleep!SleepFor(w) \/ Sleep!Yield(w) \/ Sleep!End(w)
                   \/ Sleep!Delete(w) \/ Sleep!Sleep(w) \/ Sleep!Schedule(w)
  BY <1>20 DEF Next, vars, StrandOnly, CombineOnly, ChainOnly, FibersOnly, SleepOnly,
     Sleep!Next, Sleep!Step, Sleep!Terminated, Sleep!vars, sleepVars
<1> QED
  BY <1>7, <1>10, <1>13, <1>14, <1>15, <1>16, <1>17, <1>18, <1>19, <1>20

(* The race the readme warns of: a timer that is armed before its fiber has        *)
(* stopped may expire at once, and another thread resumes the fiber while it still *)
(* stops.  It does not happen, because the handler that arms the timer is deferred. *)
(* And run() returns only after every fiber has ended.                          *)
THEOREM SleepersAreResumedOnce == Spec => []ResumedAfterStop
<1>1. SleepInv => ResumedAfterStop
  <2> SUFFICES ASSUME SleepInv PROVE Sleep!ResumedAfterStop /\ Sleep!RunReturnsLate
    BY DEF ResumedAfterStop, SleepInv
  <2>1. /\ z_handlers \in Seq({"run", "arm", "wake"} \X Sleeping) /\ Len(z_handlers) \in Nat
        /\ DOMAIN z_handlers = 1..Len(z_handlers)
    BY DEF SleepInv, Sleep!TypeOK
  <2>2. Sleep!ResumedAfterStop
    <3> SUFFICES ASSUME NEW f \in Sleeping
                 PROVE  /\ Sleep!Continuations(f) # {} => /\ z_coro[f] \in {"created", "suspended"}
                                                          /\ \A w \in Workers : z_on[w] # f
                        /\ \A c, d \in Sleep!Continuations(f) : c = d
      BY DEF Sleep!ResumedAfterStop
    <3>1. ASSUME NEW c \in Sleep!Continuations(f)
          PROVE  \/ f \in z_timers /\ c = <<"timer", f>>
                 \/ \E i \in 1..Len(z_handlers) : z_handlers[i][2] = f /\ c = <<"queue", i>>
      BY <2>1 DEF Sleep!Continuations
    <3>2. Sleep!Continuations(f) # {} => f \in z_timers \/ InQueue(f)
      BY <3>1 DEF InQueue
    <3>3. Sleep!Continuations(f) # {} => z_coro[f] \in {"created", "suspended"} /\ Off(f)
      BY <3>2 DEF SleepInv, Kept
    <3>4. f \notin z_timers \/ ~InQueue(f)
      BY DEF SleepInv, Kept
    <3>5. \A c, d \in Sleep!Continuations(f) : c = d
      BY <3>1, <3>4 DEF SleepInv, QueuedOnce, InQueue
    <3> QED
      BY <3>3, <3>5 DEF Off
  <2>3. Sleep!RunReturnsLate
    <3> SUFFICES ASSUME Sleep!NoWork, NEW f \in Sleeping PROVE z_coro[f] \in {"none", "deleted"}
      BY DEF Sleep!RunReturnsLate, Sleep!AllEnded
    <3>1. f \notin z_timers /\ ~InQueue(f) /\ Off(f)
      BY NapsAssumption, <2>1 DEF Sleep!NoWork, InQueue, Off
    <3> QED
      BY <3>1 DEF SleepInv, Kept
  <2> QED
    BY <2>2, <2>3
<1> QED
  BY <1>1, SleepInductive, PTL DEF Spec

-----------------------------------------------------------------------------
(* The fibers that share a mutex, an event and a wait group.                  *)

LockSteps   == {"lock again", "lock mtx", "lock mark", "lock put"}
UnlockSteps == {"unlock mtx", "unlock take", "unlock schedule"}
AwaitSteps  == {"await look", "await schedule"}
FireSteps   == {"fire set", "fire take", "fire next", "fire last"}
DoneSteps   == {"done lock", "done look", "done empty", "done take", "done next", "done flag", "done last"}
WaitSteps   == {"wait lock", "wait look", "wait count", "wait spin", "wait schedule", "waited"}
Labels ==
  {"routine", "suspended", "deleted"} \cup LockSteps \cup UnlockSteps \cup AwaitSteps \cup FireSteps
    \cup DoneSteps \cup WaitSteps

(* The operations that put a fiber in a queue, their queues, and where a fiber is *)
(* that has taken another from there and not scheduled it yet.                  *)
Parking == {"lock", "await", "wait"}
Queues  ==
  [op \in Parking |-> IF op = "lock" THEN f_parked ELSE IF op = "await" THEN f_waiting ELSE f_queued]
Takers  ==
  [lock |-> {"unlock schedule"}, await |-> {"fire next", "fire last"},
   wait |-> {"done next", "done flag", "done last"}]

Among(q, x)    == \E i \in 1..Len(q) : q[i] = x
NoRepeat(q, x) == \A i, j \in 1..Len(q) : q[i] = x /\ q[j] = x => i = j
Locked(q)      == \E i \in 1..Len(q) : q[i] = "unlock" /\ \A j \in 1..(i - 1) : q[j] # "lock"

Doing(f, op)  == f_script[f] # <<>> /\ Head(f_script[f]) = op
HasOp(f, op)  == Among(f_script[f], op)
Coming(f)   == \E g \in AllFibers : HasOp(g, f)
Carried(f)  == \E w \in Carriers : f_on[w] = f

FiberTypes ==
  /\ f_ready \in Seq(AllFibers)
  /\ f_on \in [Carriers -> AllFibers \cup {Nothing}]
  /\ f_pc \in [AllFibers -> Labels]
  /\ f_script \in [AllFibers -> Seq(AllFibers \cup Operations)]
  /\ f_taken \in [AllFibers -> AllFibers \cup {Nothing}]
  /\ Queues \in [Parking -> Seq(AllFibers)]
  /\ f_st \in {"None", "LockedNoWaiter", "LockedWithWaiters"}
  /\ f_fired \in BOOLEAN /\ f_completed \in BOOLEAN /\ f_deleted \in BOOLEAN
  /\ f_countdown \in Nat /\ f_inWait \in Nat
  /\ {f_spin, f_guard, f_latch} \subseteq AllFibers \cup {Nothing}

(* What is left of a routine is as well formed as the plan was. *)
WellFormed(q) ==
  /\ \A x \in AllFibers \cup {"fire"} : NoRepeat(q, x)
  /\ \A i, j \in 1..Len(q) :
       i < j /\ q[i] = "unlock" /\ q[j] = "unlock" => \E k \in 1..Len(q) : i < k /\ k < j /\ q[k] = "lock"
  /\ \A i, j \in 1..Len(q) : i < j /\ q[j] = "add" => q[i] = "add"

Routines ==
  /\ \A f \in AllFibers : WellFormed(f_script[f])
  /\ \A x \in AllFibers \cup {"fire"} : \A f, g \in AllFibers : HasOp(f, x) /\ HasOp(g, x) => f = g

(* A fiber is within the operation at the head of its routine, ... *)
AtHead ==
  \A f \in AllFibers :
    /\ f_pc[f] \in LockSteps => Doing(f, "lock")
    /\ f_pc[f] \in UnlockSteps => Doing(f, "unlock")
    /\ f_pc[f] \in AwaitSteps => Doing(f, "await")
    /\ f_pc[f] \in FireSteps => Doing(f, "fire")
    /\ f_pc[f] \in DoneSteps => Doing(f, "done")
    /\ f_pc[f] \in WaitSteps => Doing(f, "wait")

(* ... suspended in the queue of this operation, or taken from there, ... *)
Suspended ==
  /\ \A op \in Parking : \A f \in AllFibers :
       NoRepeat(Queues[op], f) /\ (Among(Queues[op], f) => f_pc[f] = "suspended" /\ Doing(f, op))
  /\ \A g \in AllFibers : f_taken[g] # Nothing <=> \E op \in Parking : f_pc[g] \in Takers[op]
  /\ \A f, g \in AllFibers : f_taken[g] = f =>
       /\ f_pc[f] = "suspended"
       /\ \A op \in Parking : ~Among(Queues[op], f) /\ (f_pc[g] \in Takers[op] => Doing(f, op))
       /\ \A h \in AllFibers : f_taken[h] = f => g = h
  /\ \A f \in AllFibers : f_pc[f] = "suspended" =>
       (\E op \in Parking : Among(Queues[op], f)) \/ (\E g \in AllFibers : f_taken[g] = f)

(* ... or it can go on: on a worker, or as a task of the pool. *)
Scheduled ==
  /\ \A v, w \in Carriers : f_on[v] = f_on[w] /\ f_on[v] # Nothing => v = w
  /\ \A f \in AllFibers :
       /\ NoRepeat(f_ready, f)
       /\ Among(f_ready, f) => f_pc[f] \in {"routine", "waited"} /\ ~Carried(f)
       /\ Carried(f) => f_pc[f] \notin {"suspended", "deleted"}
       /\ f_pc[f] \notin {"routine", "waited", "suspended", "deleted"} => Carried(f)
       /\ f_pc[f] \in {"routine", "waited"} => Coming(f) \/ Among(f_ready, f) \/ Carried(f)
       /\ Coming(f) => f_pc[f] = "routine" /\ ~Among(f_ready, f) /\ ~Carried(f)

(* The owner of the mutex: between Lock() and the handing over in Unlock(). *)
Handed(f) == \E g \in AllFibers : f_taken[g] = f /\ f_pc[g] = "unlock schedule"
Owner(f)  == (Locked(f_script[f]) /\ f_pc[f] # "unlock schedule") \/ Handed(f)
OneOwner ==
  /\ \A f, g \in AllFibers : Owner(f) /\ Owner(g) => f = g
  /\ f_st = "None" => \A f \in AllFibers : ~Owner(f)

(* The one Fire() empties the queue that nobody goes to any more. *)
FiredOnce ==
  \A f \in AllFibers :
    /\ f_pc[f] \in {"fire take", "fire next"} => f_waiting # <<>>
    /\ f_pc[f] \in {"fire take", "fire next", "fire last", "await schedule"} => f_fired
    /\ HasOp(f, "fire") /\ f_fired => f_pc[f] \in {"fire take", "fire next", "fire last"}

(* The last Done() does the same with the queue of the group.  The counter is what *)
(* is announced and not done, and nothing is added once other fibers run.        *)
AddedFirst ==
  \A f \in AllFibers : HasOp(f, "add") =>
    /\ f_pc[f] = "routine" /\ ~f_completed
    /\ \A g \in AllFibers \ {f} : f_pc[g] \in {"routine", "deleted"} /\ ~Carried(g) /\ ~Among(f_ready, g)

Finishing == {f \in AllFibers : f_pc[f] \in DoneSteps}
Late      == {"wait count", "wait spin", "wait schedule", "waited"}

Counted ==
  /\ IsFiniteSet(Marks(f_script, "add")) /\ IsFiniteSet(Marks(f_script, "done"))
  /\ Cardinality(Marks(f_script, "done")) =
       f_countdown + Cardinality(Marks(f_script, "add")) + (IF Finishing = {} THEN 0 ELSE 1)
  /\ \A f, g \in Finishing : f = g
  /\ Finishing # {} => f_countdown = 0

DoneOnce ==
  /\ \A f \in AllFibers :
       /\ f_pc[f] \in {"done take", "done next"} => f_queued # <<>>
       /\ f_pc[f] = "done last" => f_completed
       /\ f_pc[f] \in Late => f_countdown = 0
       /\ f_completed => f_pc[f] \notin DoneSteps \ {"done last"}
  /\ f_completed => f_countdown = 0

(* Whoever is between the two ends of Wait(). *)
Inside    == {f \in AllFibers : Doing(f, "wait") /\ f_pc[f] # "routine"}
WaitsKept == f_inWait = Cardinality(Inside)

FiberInv ==
  /\ FiberTypes /\ Routines /\ AtHead /\ Suspended /\ Scheduled
  /\ OneOwner /\ FiredOnce /\ AddedFirst /\ Counted /\ DoneOnce /\ WaitsKept

(* A plan that deletes the group and the event has one fiber that waits for the    *)
(* group, and somebody waits for whatever is done and fired.                      *)
SoleWaiter ==
  \A p \in Plans : (\E f \in AllFibers : Among(p.script[f], "delete")) =>
    /\ \A f, g \in AllFibers : \A i \in 1..Len(p.script[f]), j \in 1..Len(p.script[g]) :
         p.script[f][i] = "wait" /\ p.script[g][j] = "wait" => f = g /\ i = j
    /\ \A f \in AllFibers :
         /\ Among(p.script[f], "done") => \E g \in AllFibers : Among(p.script[g], "wait")
         /\ Among(p.script[f], "fire") => \E g \in AllFibers : Among(p.script[g], "await")

Deleting == f_deleted \/ \E f \in AllFibers : HasOp(f, "delete")
Some(op) == \E f \in AllFibers : HasOp(f, op)

DeletedLast ==
  /\ f_deleted => ~Some("wait") /\ ~Some("await")
  /\ Deleting =>
       /\ \A f \in AllFibers : NoRepeat(f_script[f], "wait")
       /\ \A f, g \in AllFibers : HasOp(f, "wait") /\ HasOp(g, "wait") => f = g
       /\ Some("fire") => Some("await")
       /\ ~Some("wait") => \A f \in AllFibers : HasOp(f, "done") => f_pc[f] = "done last"
       /\ \A f \in AllFibers : f_pc[f] \in {"wait schedule", "waited"} => f_completed

(* Whoever returns from Wait() finds the event fired, or nothing left to be done. *)
WaitsEnd ==
  \A f \in AllFibers : f_script'[f] # f_script[f] =>
    /\ Head(f_script[f]) = "await" => f_fired
    /\ Head(f_script[f]) = "wait" => f_countdown = 0

(* What the actions keep, for any plans that RoutinesAssumption allows. *)
LEMMA FiberInductive ==
  /\ Init => FiberInv /\ (SoleWaiter => DeletedLast)
  /\ FiberInv /\ [Next]_vars => FiberInv' /\ WaitsEnd /\ (DeletedLast => DeletedLast')
<1> DEFINE Ops == AllFibers \cup Operations
<1>1. /\ Nothing \notin AllFibers /\ AllFibers \cap Operations = {} /\ IsFiniteSet(AllFibers)
      /\ Operations = {"yield", "lock", "unlock", "await", "fire", "add", "done", "wait", "delete"}
  BY RoutinesAssumption DEF Operations
<1>2. ASSUME NEW S, NEW q \in Seq(S), q # <<>>
      PROVE /\ Head(q) \in S /\ Tail(q) \in Seq(S) /\ Head(q) = q[1]
            /\ Len(q) \in Nat /\ Len(q) >= 1 /\ Len(Tail(q)) = Len(q) - 1
            /\ \A i \in 1..Len(Tail(q)) : Tail(q)[i] = q[i + 1]
  BY <1>2
<1>3. ASSUME NEW S, NEW q \in Seq(S), q # <<>>, NEW x
      PROVE /\ Among(q, x) <=> Head(q) = x \/ Among(Tail(q), x)
            /\ NoRepeat(q, x) => NoRepeat(Tail(q), x) /\ (Head(q) = x => ~Among(Tail(q), x))
  <2>1. PICK n \in Nat : n = Len(q) /\ n >= 1 /\ Len(Tail(q)) = n - 1
    BY <1>2, <1>3
  <2>2. Head(q) = q[1] /\ \A i \in 1..(n - 1) : Tail(q)[i] = q[i + 1]
    BY <1>2, <1>3, <2>1
  <2>3. \A i \in 1..n : i = 1 \/ (i - 1 \in 1..(n - 1) /\ Tail(q)[i - 1] = q[i])
    <3> TAKE i \in 1..n
    <3>1. i # 1 => i - 1 \in 1..(n - 1) /\ (i - 1) + 1 = i
      BY <2>1
    <3> QED BY <3>1, <2>2
  <2>4. Among(q, x) => Head(q) = x \/ Among(Tail(q), x)
    <3>1. HAVE Among(q, x)
    <3>2. PICK i \in 1..n : q[i] = x
      BY <3>1, <2>1 DEF Among
    <3> QED BY <3>2, <2>1, <2>2, <2>3 DEF Among
  <2>5. Head(q) = x \/ Among(Tail(q), x) => Among(q, x)
    <3>1. \A i \in 1..(n - 1) : i + 1 \in 1..n
      BY <2>1
    <3>2. 1 \in 1..n
      BY <2>1
    <3> QED BY <3>1, <3>2, <2>1, <2>2 DEF Among
  <2>6. NoRepeat(q, x) => NoRepeat(Tail(q), x)
    <3>1. \A i \in 1..(n - 1) : i + 1 \in 1..n
      BY <2>1
    <3> QED BY <3>1, <2>1, <2>2 DEF NoRepeat
  <2>7. NoRepeat(q, x) /\ Head(q) = x => ~Among(Tail(q), x)
    <3>1. \A i \in 1..(n - 1) : i + 1 \in 1..n /\ i + 1 # 1
      BY <2>1
    <3>2. 1 \in 1..n
      BY <2>1
    <3> QED BY <3>1, <3>2, <2>1, <2>2 DEF NoRepeat, Among
  <2> QED BY <2>4, <2>5, <2>6, <2>7
<1>4. ASSUME NEW S, NEW q \in Seq(S), NEW y \in S, NEW x
      PROVE /\ Append(q, y) \in Seq(S) /\ Append(q, y) # <<>>
            /\ Among(Append(q, y), x) <=> Among(q, x) \/ x = y
            /\ NoRepeat(q, x) /\ (x = y => ~Among(q, x)) => NoRepeat(Append(q, y), x)
  <2>1. PICK n \in Nat : n = Len(q) /\ Len(Append(q, y)) = n + 1
    OBVIOUS
  <2>2. /\ \A i \in 1..n : i \in 1..(n + 1) /\ Append(q, y)[i] = q[i]
        /\ n + 1 \in 1..(n + 1) /\ Append(q, y)[n + 1] = y
        /\ \A i \in 1..(n + 1) : i = n + 1 \/ i \in 1..n
    BY <2>1
  <2>3. Append(q, y) \in Seq(S) /\ Append(q, y) # <<>>
    BY AppendProperties
  <2>4. Among(Append(q, y), x) <=> Among(q, x) \/ x = y
    BY <2>1, <2>2 DEF Among
  <2>5. NoRepeat(q, x) /\ (x = y => ~Among(q, x)) => NoRepeat(Append(q, y), x)
    BY <2>1, <2>2 DEF NoRepeat, Among
  <2> QED BY <2>3, <2>4, <2>5
<1>5. ASSUME NEW q \in Seq(Ops), q # <<>>, WellFormed(q)
      PROVE /\ WellFormed(Tail(q))
            /\ Among(q, "add") => Head(q) = "add"
            /\ Head(q) = "unlock" => ~Locked(Tail(q))
  <2>1. PICK n \in Nat : n = Len(q) /\ n >= 1 /\ Len(Tail(q)) = n - 1
    BY <1>2, <1>5
  <2>2. /\ Head(q) = q[1] /\ \A i \in 1..(n - 1) : Tail(q)[i] = q[i + 1] /\ i + 1 \in 1..n
        /\ 1 \in 1..n
    BY <1>2, <1>5, <2>1
  <2>3. \A x \in AllFibers \cup {"fire"} : NoRepeat(Tail(q), x)
    BY <1>3, <1>5 DEF WellFormed
  <2>4. ASSUME NEW i \in 1..n, NEW j \in 1..n, i < j, q[i] = "unlock", q[j] = "unlock"
        PROVE \E k \in 1..n : i < k /\ k < j /\ q[k] = "lock"
    BY <1>5, <2>1, <2>4 DEF WellFormed
  <2>5. ASSUME NEW i \in 1..(n - 1), NEW j \in 1..(n - 1), i < j, Tail(q)[i] = "unlock", Tail(q)[j] = "unlock"
        PROVE \E k \in 1..(n - 1) : i < k /\ k < j /\ Tail(q)[k] = "lock"
    <3>1. PICK k \in 1..n : i + 1 < k /\ k < j + 1 /\ q[k] = "lock"
      <4>1. i + 1 \in 1..n /\ j + 1 \in 1..n /\ i + 1 < j + 1
        BY <2>5, <2>1
      <4>2. q[i + 1] = "unlock" /\ q[j + 1] = "unlock"
        BY <2>5, <2>2
      <4> QED BY <4>1, <4>2, <2>4
    <3>2. k - 1 \in 1..(n - 1) /\ i < k - 1 /\ k - 1 < j /\ (k - 1) + 1 = k
      BY <3>1, <2>1
    <3> QED BY <3>1, <3>2, <2>2
  <2>6. ASSUME NEW i \in 1..(n - 1), NEW j \in 1..(n - 1), i < j, Tail(q)[j] = "add"
        PROVE Tail(q)[i] = "add"
    <3>1. i + 1 \in 1..n /\ j + 1 \in 1..n /\ i + 1 < j + 1 /\ q[j + 1] = "add"
      BY <2>6, <2>1, <2>2
    <3>2. q[i + 1] = "add"
      BY <3>1, <1>5, <2>1 DEF WellFormed
    <3> QED BY <3>2, <2>2
  <2>7. WellFormed(Tail(q))
    BY <2>1, <2>3, <2>5, <2>6 DEF WellFormed
  <2>8. Among(q, "add") => Head(q) = "add"
    <3>1. HAVE Among(q, "add")
    <3>2. PICK j \in 1..n : q[j] = "add"
      BY <3>1, <2>1 DEF Among
    <3>3. j = 1 \/ 1 < j
      BY <2>1
    <3> QED BY <3>2, <3>3, <1>5, <2>1, <2>2 DEF WellFormed
  <2>9. ASSUME Head(q) = "unlock", Locked(Tail(q))
        PROVE FALSE
    <3>1. PICK i \in 1..(n - 1) : Tail(q)[i] = "unlock" /\ \A j \in 1..(i - 1) : Tail(q)[j] # "lock"
      BY <2>9, <2>1 DEF Locked
    <3>2. PICK k \in 1..n : 1 < k /\ k < i + 1 /\ q[k] = "lock"
      <4>1. i + 1 \in 1..n /\ 1 < i + 1 /\ q[i + 1] = "unlock"
        BY <3>1, <2>1, <2>2
      <4> QED BY <4>1, <2>2, <2>4, <2>9
    <3>3. k - 1 \in 1..(i - 1) /\ k - 1 \in 1..(n - 1) /\ (k - 1) + 1 = k
      BY <3>1, <3>2, <2>1
    <3> QED BY <3>1, <3>2, <3>3, <2>2
  <2> QED BY <2>7, <2>8, <2>9
<1>6. ASSUME NEW q \in Seq(Ops), q # <<>>
      PROVE /\ Head(q) \notin {"lock", "unlock"} => (Locked(Tail(q)) <=> Locked(q))
            /\ Head(q) = "lock" => ~Locked(q)
            /\ Head(q) = "unlock" => Locked(q)
  <2>1. PICK n \in Nat : n = Len(q) /\ n >= 1 /\ Len(Tail(q)) = n - 1
    BY <1>2, <1>6
  <2>2. /\ Head(q) = q[1] /\ \A i \in 1..(n - 1) : Tail(q)[i] = q[i + 1] /\ i + 1 \in 1..n
        /\ 1 \in 1..n
    BY <1>2, <1>6, <2>1
  <2>3. Head(q) = "lock" => ~Locked(q)
    <3>1. \A i \in 1..n : i = 1 \/ 1 \in 1..(i - 1)
      BY <2>1
    <3> QED BY <3>1, <2>1, <2>2 DEF Locked
  <2>4. Head(q) = "unlock" => Locked(q)
    <3>1. \A j \in 1..(1 - 1) : FALSE
      OBVIOUS
    <3> QED BY <3>1, <2>1, <2>2 DEF Locked
  <2>5. ASSUME Head(q) \notin {"lock", "unlock"}, Locked(q)
        PROVE Locked(Tail(q))
    <3>1. PICK i \in 1..n : q[i] = "unlock" /\ \A j \in 1..(i - 1) : q[j] # "lock"
      BY <2>5, <2>1 DEF Locked
    <3>2. i # 1
      BY <3>1, <2>5, <2>2
    <3>3. i - 1 \in 1..(n - 1) /\ (i - 1) + 1 = i
      BY <3>2, <2>1
    <3>4. \A j \in 1..((i - 1) - 1) : j \in 1..(n - 1) /\ j + 1 \in 1..(i - 1)
      BY <3>3, <2>1
    <3>5. Tail(q)[i - 1] = "unlock" /\ \A j \in 1..((i - 1) - 1) : Tail(q)[j] # "lock"
      BY <3>1, <3>3, <3>4, <2>2
    <3> QED BY <3>3, <3>5, <2>1 DEF Locked
  <2>6. ASSUME Head(q) \notin {"lock", "unlock"}, Locked(Tail(q))
        PROVE Locked(q)
    <3>1. PICK i \in 1..(n - 1) : Tail(q)[i] = "unlock" /\ \A j \in 1..(i - 1) : Tail(q)[j] # "lock"
      BY <2>6, <2>1 DEF Locked
    <3>2. i + 1 \in 1..n /\ q[i + 1] = "unlock"
      BY <3>1, <2>2
    <3>3. ASSUME NEW j \in 1..((i + 1) - 1)
          PROVE q[j] # "lock"
      <4>1. j = 1 \/ (j - 1 \in 1..(i - 1) /\ j - 1 \in 1..(n - 1) /\ (j - 1) + 1 = j)
        BY <2>1
      <4> QED BY <4>1, <3>1, <2>2, <2>6
    <3> QED BY <3>2, <3>3, <2>1 DEF Locked
  <2> QED BY <2>3, <2>4, <2>5, <2>6
<1> HIDE DEF Ops
<1>7. /\ Parking = {"lock", "await", "wait"} /\ Takers["lock"] = {"unlock schedule"}
       /\ Takers["await"] = {"fire next", "fire last"}
       /\ Takers["wait"] = {"done next", "done flag", "done last"}
  BY DEF Parking, Takers
<1>8. ASSUME NEW op \in Parking, NEW l, l \in Takers[op]
        PROVE  l \in {"unlock schedule", "fire next", "fire last", "done next", "done flag", "done last"}
  <2>1. op = "lock" \/ op = "await" \/ op = "wait"
    BY <1>7
  <2> QED BY <1>7, <1>8, <2>1
<1>9. ASSUME NEW l, l \notin {"unlock schedule", "fire next", "fire last", "done next", "done flag", "done last"}
        PROVE  \A op \in Parking : l \notin Takers[op]
  BY <1>8, <1>9
<1>10. \A op \in Parking : "routine" \notin Takers[op]
  <2> SUFFICES ASSUME NEW op \in Parking, "routine" \in Takers[op]
               PROVE  FALSE
    OBVIOUS
  <2>1. "routine" \in {"unlock schedule", "fire next", "fire last", "done next", "done flag", "done last"}
    BY <1>8
  <2> QED BY <2>1
<1>11. Init => FiberInv /\ (SoleWaiter => DeletedLast)
  <2> SUFFICES ASSUME Init
               PROVE  FiberInv /\ (SoleWaiter => DeletedLast)
    OBVIOUS
  <2>1. PICK p \in Plans : Fiber!FibersInit(p)
    BY DEF Init, Fiber!Init
  <2>2. /\ f_ready = p.begin /\ f_on = [w \in Carriers |-> Nothing] /\ f_script = p.script
        /\ f_pc = [f \in AllFibers |-> IF p.script[f] = <<>> THEN "deleted" ELSE "routine"]
        /\ f_taken = [f \in AllFibers |-> Nothing]
    BY <2>1 DEF Fiber!FibersInit
  <2>3. /\ f_st = "None" /\ f_parked = <<>> /\ f_spin = Nothing
        /\ f_fired = FALSE /\ f_waiting = <<>> /\ f_guard = Nothing
        /\ f_countdown = 0 /\ f_inWait = 0 /\ f_completed = FALSE /\ f_queued = <<>> /\ f_latch = Nothing
        /\ f_deleted = FALSE
    BY DEF Init, Fiber!Init, Fiber!MutexInit, Fiber!EventInit, Fiber!GroupInit
  <2>4. /\ p.begin \in Seq(AllFibers)
        /\ p.script \in [AllFibers -> Seq(Ops)]
        /\ \A i, j \in 1..Len(p.begin) : p.begin[i] = p.begin[j] => i = j
        /\ \A f, g \in AllFibers : \A i \in 1..Len(p.script[f]), j \in 1..Len(p.script[g]) :
             p.script[f][i] \in AllFibers \cup {"fire"} /\ p.script[f][i] = p.script[g][j] => f = g /\ i = j
        /\ \A f \in AllFibers : \A i \in 1..Len(p.script[f]), j \in 1..Len(p.begin) :
             p.script[f][i] # p.begin[j]
    BY RoutinesAssumption DEF Ops
  <2>5. /\ \A f \in AllFibers :
             p.script[f] # <<>> <=> \/ \E i \in 1..Len(p.begin) : p.begin[i] = f
                                   \/ \E g \in AllFibers : \E i \in 1..Len(p.script[g]) : p.script[g][i] = f
        /\ \A f \in AllFibers : \A j \in 1..Len(p.script[f]) :
             p.script[f][j] = "unlock" =>
               \E i \in 1..(j - 1) : p.script[f][i] = "lock" /\ \A k \in i..(j - 1) : p.script[f][k] # "unlock"
        /\ \A f \in AllFibers : \A j \in 1..Len(p.script[f]) :
             p.script[f][j] = "add" => p.begin = <<f>> /\ \A i \in 1..j : p.script[f][i] = "add"
    BY RoutinesAssumption
  <2>6. /\ Cardinality(Marks(p.script, "add")) = Cardinality(Marks(p.script, "done"))
        /\ IsFiniteSet(Marks(p.script, "add")) /\ IsFiniteSet(Marks(p.script, "done"))
    BY RoutinesAssumption
  <2>7. \A f \in AllFibers : /\ f_pc[f] \in {"routine", "deleted"} /\ f_taken[f] = Nothing
                             /\ (f_pc[f] = "routine" <=> f_script[f] # <<>>)
    BY <2>2
  <2>8. /\ {"routine", "deleted"} \subseteq Labels
        /\ {"routine", "deleted"} \cap
             (LockSteps \cup UnlockSteps \cup AwaitSteps \cup FireSteps \cup DoneSteps \cup WaitSteps \cup Late) = {}
    BY DEF Labels, LockSteps, UnlockSteps, AwaitSteps, FireSteps, DoneSteps, WaitSteps, Late
  <2>9. Queues = [op \in Parking |-> <<>>]
    BY <2>3 DEF Queues
  <2>10. \A f \in AllFibers : ~Carried(f)
    BY <1>1, <2>2 DEF Carried
  <2>11. \A f \in AllFibers : Among(f_ready, f) <=> \E i \in 1..Len(p.begin) : p.begin[i] = f
    BY <2>2 DEF Among
  <2>12. \A f \in AllFibers : \A x : HasOp(f, x) <=> \E i \in 1..Len(p.script[f]) : p.script[f][i] = x
    BY <2>2 DEF HasOp, Among
  <2>13. FiberTypes
    <3>1. f_pc \in [AllFibers -> Labels]
      BY <2>2, <2>8
    <3>2. f_taken \in [AllFibers -> AllFibers \cup {Nothing}] /\ f_on \in [Carriers -> AllFibers \cup {Nothing}]
      BY <2>2
    <3>3. Queues \in [Parking -> Seq(AllFibers)]
      BY <2>9
    <3>4. f_script \in [AllFibers -> Seq(AllFibers \cup Operations)]
      BY <2>2, <2>4 DEF Ops
    <3> QED BY <2>2, <2>3, <2>4, <3>1, <3>2, <3>3, <3>4 DEF FiberTypes
  <2>14. Routines
    <3>1. ASSUME NEW f \in AllFibers
          PROVE  WellFormed(f_script[f])
      <4> DEFINE q == p.script[f]
      <4>1. \A x \in AllFibers \cup {"fire"} : NoRepeat(q, x)
        BY <2>4 DEF NoRepeat
      <4>2. ASSUME NEW i \in 1..Len(q), NEW j \in 1..Len(q), i < j, q[i] = "unlock", q[j] = "unlock"
            PROVE  \E k \in 1..Len(q) : i < k /\ k < j /\ q[k] = "lock"
        <5>1. PICK k \in 1..(j - 1) : q[k] = "lock" /\ \A l \in k..(j - 1) : q[l] # "unlock"
          BY <2>5, <4>2
        <5>2. ~(k <= i)
          <6>1. k <= i => i \in k..(j - 1)
            BY <4>2
          <6> QED BY <4>2, <5>1, <6>1
        <5>3. Len(q) \in Nat
          BY <2>4
        <5>4. i < k /\ k < j /\ k \in 1..Len(q)
          BY <4>2, <5>2, <5>3
        <5> QED BY <5>1, <5>4
      <4>3. ASSUME NEW i \in 1..Len(q), NEW j \in 1..Len(q), i < j, q[j] = "add"
            PROVE  q[i] = "add"
        <5>1. i \in 1..j
          BY <4>3
        <5> QED BY <2>5, <4>3, <5>1
      <4> QED BY <2>2, <4>1, <4>2, <4>3 DEF WellFormed
    <3>2. \A x \in AllFibers \cup {"fire"} : \A f, g \in AllFibers : HasOp(f, x) /\ HasOp(g, x) => f = g
      <4> SUFFICES ASSUME NEW x \in AllFibers \cup {"fire"}, NEW f \in AllFibers, NEW g \in AllFibers,
                          HasOp(f, x), HasOp(g, x)
                   PROVE  f = g
        OBVIOUS
      <4>1. PICK i \in 1..Len(p.script[f]) : p.script[f][i] = x
        BY <2>12
      <4>2. PICK j \in 1..Len(p.script[g]) : p.script[g][j] = x
        BY <2>12
      <4> QED BY <2>4, <4>1, <4>2
    <3> QED BY <3>1, <3>2 DEF Routines
  <2>15. AtHead
    BY <2>7, <2>8 DEF AtHead
  <2>16. Suspended
    <3>1. \A op \in Parking : "routine" \notin Takers[op] /\ "deleted" \notin Takers[op]
      <4>1. "deleted" \notin {"unlock schedule", "fire next", "fire last", "done next", "done flag", "done last"}
        OBVIOUS
      <4> QED BY <1>8, <1>10, <4>1
    <3>2. \A op \in Parking : \A f \in AllFibers : NoRepeat(Queues[op], f) /\ ~Among(Queues[op], f)
      BY <2>9 DEF NoRepeat, Among
    <3> QED BY <1>1, <2>7, <3>1, <3>2 DEF Suspended
  <2>17. Scheduled
    <3>1. \A v, w \in Carriers : f_on[v] = f_on[w] /\ f_on[v] # Nothing => v = w
      BY <2>2
    <3>2. ASSUME NEW f \in AllFibers
          PROVE  /\ NoRepeat(f_ready, f)
                 /\ Among(f_ready, f) => f_pc[f] = "routine"
                 /\ f_pc[f] = "routine" => Coming(f) \/ Among(f_ready, f)
                 /\ Coming(f) => f_pc[f] = "routine" /\ ~Among(f_ready, f)
      <4>1. NoRepeat(f_ready, f)
        BY <2>2, <2>4 DEF NoRepeat
      <4>2. Coming(f) <=> \E g \in AllFibers : \E i \in 1..Len(p.script[g]) : p.script[g][i] = f
        BY <2>12 DEF Coming
      <4>3. f_pc[f] = "routine" <=> Coming(f) \/ Among(f_ready, f)
        BY <2>2, <2>5, <2>7, <2>11, <4>2
      <4>4. Coming(f) => ~Among(f_ready, f)
        BY <2>4, <2>11, <4>2
      <4> QED BY <4>1, <4>3, <4>4
    <3> QED BY <2>7, <2>10, <3>1, <3>2 DEF Scheduled
  <2>18. OneOwner
    <3>1. ASSUME NEW f \in AllFibers
          PROVE  ~Owner(f)
      <4>1. ~Handed(f)
        BY <1>1, <2>7 DEF Handed
      <4>2. ~Locked(f_script[f])
        BY <2>2, <2>5 DEF Locked
      <4> QED BY <4>1, <4>2 DEF Owner
    <3> QED BY <3>1 DEF OneOwner
  <2>19. FiredOnce
    BY <2>3, <2>7 DEF FiredOnce
  <2>20. AddedFirst
    <3> SUFFICES ASSUME NEW f \in AllFibers, HasOp(f, "add")
                 PROVE  /\ f_pc[f] = "routine" /\ ~f_completed
                        /\ \A g \in AllFibers \ {f} :
                             f_pc[g] \in {"routine", "deleted"} /\ ~Carried(g) /\ ~Among(f_ready, g)
      BY DEF AddedFirst
    <3>1. PICK j \in 1..Len(p.script[f]) : p.script[f][j] = "add"
      BY <2>12
    <3>2. p.begin = <<f>> /\ Len(p.begin) = 1 /\ p.begin[1] = f
      <4>1. p.begin = <<f>>
        BY <2>5, <3>1
      <4> QED BY <4>1
    <3>3. f_pc[f] = "routine"
      <4>1. 1 \in 1..Len(p.begin)
        BY <3>2
      <4> QED BY <2>2, <2>5, <2>7, <3>2, <4>1
    <3>4. \A g \in AllFibers \ {f} : ~Among(f_ready, g)
      BY <2>11, <3>2
    <3> QED BY <2>3, <2>7, <2>10, <3>3, <3>4
  <2>21. Counted
    <3>1. Finishing = {}
      BY <2>7, <2>8 DEF Finishing
    <3>2. Cardinality(Marks(p.script, "add")) \in Nat
      BY <2>6, FS_CardinalityType
    <3>3. Cardinality(Marks(p.script, "done")) = 0 + Cardinality(Marks(p.script, "add")) + 0
      BY <2>6, <3>2
    <3> QED BY <2>2, <2>3, <2>6, <3>1, <3>3 DEF Counted
  <2>22. DoneOnce
    <3>1. \A f \in AllFibers : f_pc[f] \notin Late \cup DoneSteps
      BY <2>7, <2>8
    <3> QED BY <2>3, <2>7, <3>1 DEF DoneOnce
  <2>23. WaitsKept
    <3>1. Inside = {}
      BY <2>7 DEF Inside, Doing
    <3> QED BY <2>3, <3>1, FS_EmptySet DEF WaitsKept
  <2>24. FiberInv
    BY <2>13, <2>14, <2>15, <2>16, <2>17, <2>18, <2>19, <2>20, <2>21, <2>22, <2>23 DEF FiberInv
  <2>25. ASSUME SoleWaiter, Deleting
         PROVE  DeletedLast
    <3>1. \A f \in AllFibers : \A x : HasOp(f, x) <=> Among(p.script[f], x)
      BY <2>2 DEF HasOp
    <3>2. \E f \in AllFibers : Among(p.script[f], "delete")
      BY <2>3, <2>25, <3>1 DEF Deleting
    <3>3. /\ \A f, g \in AllFibers : \A i \in 1..Len(p.script[f]), j \in 1..Len(p.script[g]) :
               p.script[f][i] = "wait" /\ p.script[g][j] = "wait" => f = g /\ i = j
          /\ \A f \in AllFibers :
               /\ Among(p.script[f], "done") => \E g \in AllFibers : Among(p.script[g], "wait")
               /\ Among(p.script[f], "fire") => \E g \in AllFibers : Among(p.script[g], "await")
      BY <2>25, <3>2 DEF SoleWaiter
    <3>4. \A f \in AllFibers : NoRepeat(f_script[f], "wait")
      BY <2>2, <3>3 DEF NoRepeat
    <3>5. \A f, g \in AllFibers : HasOp(f, "wait") /\ HasOp(g, "wait") => f = g
      BY <3>1, <3>3 DEF Among
    <3>6. (Some("fire") => Some("await")) /\ (Some("done") => Some("wait"))
      BY <3>1, <3>3 DEF Some
    <3>7. \A f \in AllFibers : f_pc[f] \notin {"wait schedule", "waited"}
      BY <2>7
    <3> QED BY <2>3, <3>4, <3>5, <3>6, <3>7 DEF DeletedLast, Some
  <2>26. ~Deleting => DeletedLast
    BY DEF DeletedLast, Deleting
  <2> QED BY <2>24, <2>25, <2>26
<1> SUFFICES ASSUME FiberInv, [Next]_vars
             PROVE  FiberInv' /\ WaitsEnd /\ (DeletedLast => DeletedLast')
  BY <1>11
<1>12. /\ FiberTypes /\ Routines /\ AtHead /\ Suspended /\ Scheduled
      /\ OneOwner /\ FiredOnce /\ AddedFirst /\ Counted /\ DoneOnce /\ WaitsKept
  BY DEF FiberInv

(* Routines go on by one operation at a time.                                *)
<1> DEFINE Drops(g) == f_script'[g] # f_script[g]
           Moves == /\ f_script' \in [AllFibers -> Seq(Ops)]
                    /\ \A g \in AllFibers : Drops(g) => f_script[g] # <<>> /\ f_script'[g] = Tail(f_script[g])
           Keeps == Moves /\ \A g \in AllFibers : Drops(g) => Head(f_script[g]) \in Operations
<1>13. f_script \in [AllFibers -> Seq(Ops)]
  BY <1>12 DEF FiberTypes, Ops
<1>14. ASSUME Moves, NEW g \in AllFibers, NEW x
       PROVE /\ HasOp(g, x)' => HasOp(g, x)
             /\ HasOp(g, x) => HasOp(g, x)' \/ (Drops(g) /\ Doing(g, x))
             /\ NoRepeat(f_script[g], x) => NoRepeat(f_script'[g], x)
             /\ NoRepeat(f_script[g], x) /\ Drops(g) /\ Doing(g, x) => ~HasOp(g, x)'
  <2>1. CASE ~Drops(g)
    BY <2>1 DEF HasOp
  <2>2. CASE Drops(g)
    <3>1. f_script[g] \in Seq(Ops) /\ f_script[g] # <<>> /\ f_script'[g] = Tail(f_script[g])
      BY <1>13, <1>14, <2>2
    <3>2. PICK q \in Seq(Ops) : q = f_script[g] /\ q # <<>> /\ Tail(q) = f_script'[g]
      BY <3>1
    <3>3. /\ Among(q, x) <=> Head(q) = x \/ Among(Tail(q), x)
          /\ NoRepeat(q, x) => NoRepeat(Tail(q), x) /\ (Head(q) = x => ~Among(Tail(q), x))
      BY <1>3, <3>2
    <3> QED BY <2>2, <3>2, <3>3 DEF HasOp, Doing
  <2> QED BY <2>1, <2>2
<1>15. ASSUME NEW f \in AllFibers, NEW x, Doing(f, x)
       PROVE  HasOp(f, x)
  BY <1>3, <1>13, <1>15 DEF HasOp, Doing
<1>16. ASSUME Moves
       PROVE  Routines' /\ \A g \in AllFibers : Coming(g)' => Coming(g)
  <2>1. ASSUME NEW g \in AllFibers
        PROVE  WellFormed(f_script'[g])
    <3>1. WellFormed(f_script[g]) /\ f_script[g] \in Seq(Ops)
      BY <1>12, <1>13 DEF Routines
    <3>2. PICK q \in Seq(Ops) : q = f_script[g]
      BY <3>1
    <3> QED BY <1>5, <1>16, <3>1, <3>2
  <2>2. ASSUME NEW x \in AllFibers \cup {"fire"}, NEW f \in AllFibers, NEW g \in AllFibers,
               HasOp(f, x)', HasOp(g, x)'
        PROVE  f = g
    BY <1>12, <1>14, <1>16, <2>2 DEF Routines
  <2>3. \A g \in AllFibers : Coming(g)' => Coming(g)
    BY <1>14, <1>16 DEF Coming
  <2> QED BY <2>1, <2>2, <2>3 DEF Routines
<1>17. ASSUME Keeps
       PROVE  Moves /\ \A g \in AllFibers : Coming(g)' <=> Coming(g)
  <2>1. ASSUME NEW g \in AllFibers, NEW f \in AllFibers, HasOp(f, g)
        PROVE  HasOp(f, g)'
    BY <1>1, <1>14, <1>17, <2>1 DEF Doing
  <2> QED BY <1>16, <1>17, <2>1 DEF Coming
<1>18. ASSUME NEW f \in AllFibers, Carried(f), ~(f_pc[f] = "routine" /\ Doing(f, "add"))
       PROVE  \A g \in AllFibers : ~HasOp(g, "add")
  <2> SUFFICES ASSUME NEW g \in AllFibers, HasOp(g, "add")
               PROVE  FALSE
    OBVIOUS
  <2>1. g = f /\ f_pc[f] = "routine"
    BY <1>12, <1>18 DEF AddedFirst
  <2>2. PICK q \in Seq(Ops) : q = f_script[f]
    BY <1>13
  <2>3. Among(q, "add") /\ WellFormed(q)
    BY <1>12, <2>1, <2>2 DEF HasOp, Routines
  <2>4. q # <<>>
    BY <2>3 DEF Among
  <2> QED BY <1>5, <1>18, <2>1, <2>2, <2>3, <2>4 DEF Doing
<1>19. ASSUME Moves, \A g \in AllFibers : ~HasOp(g, "add")
       PROVE  AddedFirst'
  BY <1>14, <1>19 DEF AddedFirst

(* The queues: a fiber that goes on by itself, one that goes to a queue, one that *)
(* takes another from there, and one that schedules what it has taken.           *)
<1> DEFINE Others(f)  == \A g \in AllFibers \ {f} : f_pc'[g] = f_pc[g] /\ ~Drops(g)
           Free(l)    == l # "suspended" /\ \A op \in Parking : l \notin Takers[op]
           Still(f)   == /\ Others(f) /\ Queues' = Queues /\ f_taken' = f_taken
                         /\ f_pc[f] # "suspended" /\ f_pc'[f] # "suspended"
                         /\ \A op \in Parking : f_pc'[f] \in Takers[op] <=> f_pc[f] \in Takers[op]
           Parks(f, op) == /\ Others(f) /\ ~Drops(f) /\ f_taken' = f_taken
                           /\ Free(f_pc[f]) /\ Doing(f, op) /\ f_pc'[f] = "suspended"
                           /\ Queues' = [Queues EXCEPT ![op] = Append(@, f)]
           Takes(f, op) == /\ Others(f) /\ ~Drops(f)
                           /\ Queues[op] # <<>> /\ Queues' = [Queues EXCEPT ![op] = Tail(@)]
                           /\ f_taken' = [f_taken EXCEPT ![f] = Head(Queues[op])]
                           /\ Free(f_pc[f]) /\ f_pc'[f] # "suspended" /\ f_pc'[f] \in Takers[op]
           Gives(f, h) == /\ h = f_taken[f] /\ h \in AllFibers
                          /\ \A g \in AllFibers \ {f, h} : f_pc'[g] = f_pc[g] /\ ~Drops(g)
                          /\ f_pc[f] # "suspended" /\ Free(f_pc'[f]) /\ Free(f_pc'[h])
                          /\ Queues' = Queues /\ f_taken' = [f_taken EXCEPT ![f] = Nothing]
<1>20. /\ \A op \in Parking : "suspended" \notin Takers[op]
       /\ \A o, op \in Parking : \A l : l \in Takers[o] /\ l \in Takers[op] => o = op
  <2>2. ASSUME NEW op \in Parking, NEW l, l \in Takers[op]
        PROVE  l # "suspended"
    <3>1. op = "lock" \/ op = "await" \/ op = "wait"
      BY <1>7
    <3>2. l \in {"unlock schedule", "fire next", "fire last", "done next", "done flag", "done last"}
      BY <1>7, <2>2, <3>1
    <3> QED BY <3>2
  <2>3. ASSUME NEW o \in Parking, NEW op \in Parking, NEW l, l \in Takers[o], l \in Takers[op]
        PROVE  o = op
    <3>1. CASE o = "lock"
      BY <1>7, <2>3, <3>1
    <3>2. CASE o = "await"
      BY <1>7, <2>3, <3>2
    <3>3. CASE o = "wait"
      BY <1>7, <2>3, <3>3
    <3> QED BY <1>7, <3>1, <3>2, <3>3
  <2> QED BY <2>2, <2>3
<1>21. ASSUME NEW g \in AllFibers, ~Drops(g), NEW x
       PROVE  (Doing(g, x)' <=> Doing(g, x)) /\ (HasOp(g, x)' <=> HasOp(g, x))
  BY <1>21 DEF Doing, HasOp
<1>22. /\ f_pc \in [AllFibers -> Labels] /\ f_taken \in [AllFibers -> AllFibers \cup {Nothing}]
       /\ Queues \in [Parking -> Seq(AllFibers)]
  BY <1>12 DEF FiberTypes
<1>23. ASSUME NEW f \in AllFibers, Still(f)
       PROVE  Suspended'
  <2>1. ASSUME NEW op \in Parking, NEW g \in AllFibers
        PROVE  /\ NoRepeat(Queues[op], g)'
               /\ Among(Queues[op], g)' => f_pc'[g] = "suspended" /\ Doing(g, op)'
    BY <1>12, <1>21, <1>23 DEF Suspended
  <2>2. ASSUME NEW g \in AllFibers
        PROVE  f_taken'[g] # Nothing <=> \E op \in Parking : f_pc'[g] \in Takers[op]
    BY <1>12, <1>23 DEF Suspended
  <2>3. ASSUME NEW h \in AllFibers, NEW g \in AllFibers, f_taken'[g] = h
        PROVE  /\ f_pc'[h] = "suspended"
               /\ \A op \in Parking : ~Among(Queues[op], h)' /\ (f_pc'[g] \in Takers[op] => Doing(h, op)')
               /\ \A k \in AllFibers : f_taken'[k] = h => g = k
    BY <1>12, <1>21, <1>23, <2>3 DEF Suspended
  <2>4. ASSUME NEW g \in AllFibers, f_pc'[g] = "suspended"
        PROVE  (\E op \in Parking : Among(Queues[op], g)') \/ (\E k \in AllFibers : f_taken'[k] = g)
    BY <1>12, <1>23, <2>4 DEF Suspended
  <2> QED BY <2>1, <2>2, <2>3, <2>4 DEF Suspended
<1>24. ASSUME NEW f \in AllFibers, NEW o \in Parking, Parks(f, o)
       PROVE  Suspended'
  <2>1. /\ Queues[o] \in Seq(AllFibers) /\ Queues'[o] = Append(Queues[o], f)
        /\ \A op \in Parking \ {o} : Queues'[op] = Queues[op]
    BY <1>22, <1>24
  <2>2. ~Among(Queues[o], f) /\ (\A op \in Parking : ~Among(Queues[op], f)) /\ \A g \in AllFibers : f_taken[g] # f
    BY <1>12, <1>24 DEF Suspended
  <2>3. ASSUME NEW g \in AllFibers
        PROVE  /\ Among(Queues'[o], g) <=> Among(Queues[o], g) \/ g = f
               /\ NoRepeat(Queues'[o], g)
    BY <1>4, <1>12, <2>1, <2>2 DEF Suspended
  <2>4. ASSUME NEW op \in Parking, NEW g \in AllFibers
        PROVE  /\ NoRepeat(Queues[op], g)'
               /\ Among(Queues[op], g)' => f_pc'[g] = "suspended" /\ Doing(g, op)'
    <3>1. CASE op = o
      BY <1>12, <1>21, <1>24, <2>3, <3>1 DEF Suspended
    <3>2. CASE op # o
      BY <1>12, <1>21, <1>24, <2>1, <2>2, <3>2 DEF Suspended
    <3> QED BY <3>1, <3>2
  <2>5. ASSUME NEW g \in AllFibers
        PROVE  f_taken'[g] # Nothing <=> \E op \in Parking : f_pc'[g] \in Takers[op]
    BY <1>12, <1>20, <1>24 DEF Suspended
  <2>6. ASSUME NEW h \in AllFibers, NEW g \in AllFibers, f_taken'[g] = h
        PROVE  /\ f_pc'[h] = "suspended"
               /\ \A op \in Parking : ~Among(Queues[op], h)' /\ (f_pc'[g] \in Takers[op] => Doing(h, op)')
               /\ \A k \in AllFibers : f_taken'[k] = h => g = k
    <3>1. h # f /\ f_taken[g] = h
      BY <1>24, <2>2, <2>6
    <3>2. \A op \in Parking : ~Among(Queues'[op], h)
      BY <1>12, <2>1, <2>3, <3>1 DEF Suspended
    <3>3. \A op \in Parking : f_pc'[g] \in Takers[op] => Doing(h, op)'
      BY <1>12, <1>20, <1>21, <1>24, <3>1 DEF Suspended
    <3> QED BY <1>12, <1>24, <3>1, <3>2, <3>3 DEF Suspended
  <2>7. ASSUME NEW g \in AllFibers, f_pc'[g] = "suspended"
        PROVE  (\E op \in Parking : Among(Queues[op], g)') \/ (\E k \in AllFibers : f_taken'[k] = g)
    <3>1. CASE g = f
      BY <2>3, <3>1
    <3>2. CASE g # f
      BY <1>12, <1>24, <2>1, <2>3, <2>7, <3>2 DEF Suspended
    <3> QED BY <3>1, <3>2
  <2> QED BY <2>4, <2>5, <2>6, <2>7 DEF Suspended
<1>25. ASSUME NEW f \in AllFibers, NEW o \in Parking, Takes(f, o)
       PROVE  Suspended'
  <2>1. PICK h \in AllFibers : h = Head(Queues[o])
    BY <1>2, <1>22, <1>25
  <2>2. /\ Queues[o] \in Seq(AllFibers) /\ Queues'[o] = Tail(Queues[o])
        /\ \A op \in Parking \ {o} : Queues'[op] = Queues[op]
        /\ f_taken'[f] = h /\ \A g \in AllFibers \ {f} : f_taken'[g] = f_taken[g]
    BY <1>22, <1>25, <2>1
  <2>3. ASSUME NEW g \in AllFibers
        PROVE  /\ Among(Queues[o], g) <=> h = g \/ Among(Queues'[o], g)
               /\ NoRepeat(Queues'[o], g)
               /\ h = g => ~Among(Queues'[o], g)
    BY <1>3, <1>12, <1>25, <2>1, <2>2 DEF Suspended
  <2>4. /\ f_pc[h] = "suspended" /\ Doing(h, o) /\ h # f /\ (\A g \in AllFibers : f_taken[g] # h)
        /\ \A op \in Parking \ {o} : ~Among(Queues[op], h)
    <3>1. Among(Queues[o], h)
      BY <2>3
    <3> QED BY <1>12, <1>25, <3>1 DEF Suspended, Doing
  <2>5. ASSUME NEW op \in Parking, NEW g \in AllFibers
        PROVE  /\ NoRepeat(Queues[op], g)'
               /\ Among(Queues[op], g)' => f_pc'[g] = "suspended" /\ Doing(g, op)'
    <3>1. CASE op = o
      BY <1>12, <1>21, <1>25, <2>3, <3>1 DEF Suspended
    <3>2. CASE op # o
      BY <1>12, <1>21, <1>25, <2>2, <3>2 DEF Suspended
    <3> QED BY <3>1, <3>2
  <2>6. ASSUME NEW g \in AllFibers
        PROVE  f_taken'[g] # Nothing <=> \E op \in Parking : f_pc'[g] \in Takers[op]
    BY <1>1, <1>12, <1>25, <2>2 DEF Suspended
  <2>7. ASSUME NEW k \in AllFibers, NEW g \in AllFibers, f_taken'[g] = k
        PROVE  /\ f_pc'[k] = "suspended"
               /\ \A op \in Parking : ~Among(Queues[op], k)' /\ (f_pc'[g] \in Takers[op] => Doing(k, op)')
               /\ \A i \in AllFibers : f_taken'[i] = k => g = i
    <3>1. CASE g = f
      <4>1. k = h /\ f_pc'[k] = "suspended"
        BY <1>25, <2>2, <2>4, <2>7, <3>1
      <4>2. \A op \in Parking : ~Among(Queues'[op], k)
        BY <2>2, <2>3, <2>4, <4>1
      <4>3. \A op \in Parking : f_pc'[g] \in Takers[op] => Doing(k, op)'
        BY <1>20, <1>21, <1>25, <2>4, <3>1, <4>1
      <4>4. \A i \in AllFibers : f_taken'[i] = k => g = i
        BY <2>2, <2>4, <3>1, <4>1
      <4> QED BY <4>1, <4>2, <4>3, <4>4
    <3>2. CASE g # f
      <4>1. f_taken[g] = k /\ k # h /\ k # f
        BY <1>12, <1>25, <2>2, <2>4, <2>7, <3>2 DEF Suspended
      <4>2. \A op \in Parking : ~Among(Queues'[op], k)
        BY <1>12, <2>2, <2>3, <4>1 DEF Suspended
      <4>3. \A op \in Parking : f_pc'[g] \in Takers[op] => Doing(k, op)'
        BY <1>12, <1>21, <1>25, <3>2, <4>1 DEF Suspended
      <4>4. \A i \in AllFibers : f_taken'[i] = k => g = i
        BY <1>12, <2>2, <4>1 DEF Suspended
      <4>5. f_pc'[k] = "suspended"
        BY <1>12, <1>25, <4>1 DEF Suspended
      <4> QED BY <4>2, <4>3, <4>4, <4>5
    <3> QED BY <3>1, <3>2
  <2>8. ASSUME NEW g \in AllFibers, f_pc'[g] = "suspended"
        PROVE  (\E op \in Parking : Among(Queues[op], g)') \/ (\E k \in AllFibers : f_taken'[k] = g)
    <3>1. f_pc[g] = "suspended" /\ g # f
      BY <1>25, <2>8
    <3>2. CASE g = h
      BY <2>2, <3>2
    <3>3. CASE g # h
      <4>1. CASE \E op \in Parking : Among(Queues[op], g)
        BY <2>2, <2>3, <3>3, <4>1
      <4>2. CASE \E k \in AllFibers : f_taken[k] = g
        <5>1. f_taken[f] = Nothing
          BY <1>12, <1>25 DEF Suspended
        <5> QED BY <1>1, <2>2, <4>2, <5>1
      <4> QED BY <1>12, <3>1, <4>1, <4>2 DEF Suspended
    <3> QED BY <3>2, <3>3
  <2> QED BY <2>5, <2>6, <2>7, <2>8 DEF Suspended
<1>26. ASSUME NEW f \in AllFibers, NEW h, Gives(f, h)
       PROVE  Suspended'
  <2>1. /\ h \in AllFibers /\ f_taken[f] = h /\ f_taken'[f] = Nothing /\ h # Nothing
        /\ \A g \in AllFibers \ {f} : f_taken'[g] = f_taken[g]
    BY <1>1, <1>22, <1>26
  <2>2. /\ f_pc[h] = "suspended" /\ h # f
        /\ \A op \in Parking : ~Among(Queues[op], h)
        /\ \A g \in AllFibers \ {f} : f_taken[g] # h
    BY <1>12, <1>26, <2>1 DEF Suspended
  <2>3. ASSUME NEW op \in Parking, NEW g \in AllFibers
        PROVE  /\ NoRepeat(Queues[op], g)'
               /\ Among(Queues[op], g)' => f_pc'[g] = "suspended" /\ Doing(g, op)'
    BY <1>12, <1>21, <1>26, <2>2 DEF Suspended
  <2>4. ASSUME NEW g \in AllFibers
        PROVE  f_taken'[g] # Nothing <=> \E op \in Parking : f_pc'[g] \in Takers[op]
    <3>1. CASE g = f
      BY <1>26, <2>1, <3>1
    <3>2. CASE g = h
      <4>1. f_taken[h] = Nothing
        BY <1>12, <1>20, <2>1, <2>2 DEF Suspended
      <4> QED BY <1>26, <2>1, <2>2, <3>2, <4>1
    <3>3. CASE g \notin {f, h}
      BY <1>12, <1>26, <2>1, <3>3 DEF Suspended
    <3> QED BY <3>1, <3>2, <3>3
  <2>5. ASSUME NEW k \in AllFibers, NEW g \in AllFibers, f_taken'[g] = k
        PROVE  /\ f_pc'[k] = "suspended"
               /\ \A op \in Parking : ~Among(Queues[op], k)' /\ (f_pc'[g] \in Takers[op] => Doing(k, op)')
               /\ \A i \in AllFibers : f_taken'[i] = k => g = i
    <3>1. g # f /\ f_taken[g] = k /\ k # h /\ k # f
      BY <1>1, <1>12, <1>26, <2>1, <2>2, <2>5 DEF Suspended
    <3>2. f_pc'[k] = "suspended" /\ \A op \in Parking : ~Among(Queues'[op], k)
      BY <1>12, <1>26, <3>1 DEF Suspended
    <3>3. \A op \in Parking : f_pc'[g] \in Takers[op] => Doing(k, op)'
      BY <1>12, <1>21, <1>26, <3>1 DEF Suspended
    <3>4. \A i \in AllFibers : f_taken'[i] = k => g = i
      BY <1>1, <1>12, <2>1, <3>1 DEF Suspended
    <3> QED BY <3>2, <3>3, <3>4
  <2>6. ASSUME NEW g \in AllFibers, f_pc'[g] = "suspended"
        PROVE  (\E op \in Parking : Among(Queues[op], g)') \/ (\E k \in AllFibers : f_taken'[k] = g)
    <3>1. g \notin {f, h} /\ f_pc[g] = "suspended"
      BY <1>26, <2>6
    <3> QED BY <1>12, <1>26, <2>1, <3>1 DEF Suspended
  <2> QED BY <2>3, <2>4, <2>5, <2>6 DEF Suspended

(* The pool: a fiber that stays on its worker, leaves it for good or for the tasks *)
(* of the pool, or schedules another; a worker that takes a task.                *)
<1> DEFINE Alike(f)  == \A g \in AllFibers \ {f} : f_pc'[g] = f_pc[g]
           Started   == \A g \in AllFibers : Coming(g)' <=> Coming(g)
           Left(f)   == f_on' = [w \in Carriers |-> IF f_on[w] = f THEN Nothing ELSE f_on[w]]
           Goes(f)   == /\ Carried(f) /\ Alike(f) /\ Started /\ f_on' = f_on /\ f_ready' = f_ready
                        /\ f_pc'[f] \notin {"suspended", "deleted"}
           Leaves(f) == /\ Carried(f) /\ Alike(f) /\ Started /\ Left(f) /\ f_ready' = f_ready
                        /\ f_pc'[f] \in {"suspended", "deleted"}
           Requeues(f) == /\ Carried(f) /\ Alike(f) /\ Started /\ Left(f) /\ f_ready' = Append(f_ready, f)
                          /\ f_pc'[f] \in {"routine", "waited"}
           Schedules(f, h) == /\ Carried(f) /\ Started /\ f_on' = f_on /\ f_ready' = Append(f_ready, h)
                              /\ h \in AllFibers /\ f_pc[h] = "suspended" /\ f_pc'[h] \in {"routine", "waited"}
                              /\ f_pc'[f] \notin {"suspended", "deleted"}
                              /\ \A g \in AllFibers \ {f, h} : f_pc'[g] = f_pc[g]
           Begins(f, h) == /\ Carried(f) /\ h \in AllFibers /\ Coming(h) /\ f_pc' = f_pc /\ f_on' = f_on
                           /\ \A g \in AllFibers : Coming(g)' <=> Coming(g) /\ g # h
                           /\ f_ready' = Append(f_ready, h)
           Starts(w) == /\ w \in Carriers /\ f_on[w] = Nothing /\ f_ready # <<>>
                        /\ f_on' = [f_on EXCEPT ![w] = Head(f_ready)] /\ f_ready' = Tail(f_ready)
                        /\ f_pc' = f_pc /\ Started
<1>27. f_ready \in Seq(AllFibers) /\ f_on \in [Carriers -> AllFibers \cup {Nothing}]
  BY <1>12 DEF FiberTypes
<1>28. ASSUME NEW f \in AllFibers, Left(f)
       PROVE  /\ \A g \in AllFibers : Carried(g)' <=> Carried(g) /\ g # f
              /\ \A v, w \in Carriers : f_on'[v] = f_on'[w] /\ f_on'[v] # Nothing => v = w
  <2>1. \A w \in Carriers : f_on'[w] = (IF f_on[w] = f THEN Nothing ELSE f_on[w])
    BY <1>28
  <2>2. \A g \in AllFibers : Carried(g)' <=> Carried(g) /\ g # f
    BY <1>1, <2>1 DEF Carried
  <2>3. \A v, w \in Carriers : f_on'[v] = f_on'[w] /\ f_on'[v] # Nothing => v = w
    BY <1>12, <2>1 DEF Scheduled
  <2> QED BY <2>2, <2>3
<1>29. ASSUME f_on' = f_on
       PROVE  /\ \A g \in AllFibers : Carried(g)' <=> Carried(g)
              /\ \A v, w \in Carriers : f_on'[v] = f_on'[w] /\ f_on'[v] # Nothing => v = w
  BY <1>12, <1>29 DEF Carried, Scheduled
<1>30. ASSUME NEW f \in AllFibers, Goes(f)
       PROVE  Scheduled'
  BY <1>12, <1>29, <1>30 DEF Scheduled
<1>31. ASSUME NEW f \in AllFibers, Leaves(f)
       PROVE  Scheduled'
  BY <1>12, <1>28, <1>31 DEF Scheduled
<1>32. ASSUME NEW f \in AllFibers, Requeues(f)
       PROVE  Scheduled'
  <2>1. ~Among(f_ready, f) /\ ~Coming(f)
    BY <1>12, <1>32 DEF Scheduled
  <2>2. \A g \in AllFibers : /\ Among(f_ready', g) <=> Among(f_ready, g) \/ g = f
                             /\ NoRepeat(f_ready', g)
    BY <1>4, <1>12, <1>27, <1>32, <2>1 DEF Scheduled
  <2> QED BY <1>12, <1>28, <1>32, <2>1, <2>2 DEF Scheduled
<1>33. ASSUME NEW f \in AllFibers, NEW h, Schedules(f, h)
       PROVE  Scheduled'
  <2>1. ~Among(f_ready, h) /\ ~Coming(h) /\ ~Carried(h)
    BY <1>12, <1>33 DEF Scheduled
  <2>2. \A g \in AllFibers : /\ Among(f_ready', g) <=> Among(f_ready, g) \/ g = h
                             /\ NoRepeat(f_ready', g)
    BY <1>4, <1>12, <1>27, <1>33, <2>1 DEF Scheduled
  <2> QED BY <1>12, <1>29, <1>33, <2>1, <2>2 DEF Scheduled
<1>34. ASSUME NEW f \in AllFibers, NEW h, Begins(f, h)
       PROVE  Scheduled'
  <2>1. f_pc[h] = "routine" /\ ~Among(f_ready, h) /\ ~Carried(h)
    BY <1>12, <1>34 DEF Scheduled
  <2>2. \A g \in AllFibers : /\ Among(f_ready', g) <=> Among(f_ready, g) \/ g = h
                             /\ NoRepeat(f_ready', g)
    BY <1>4, <1>12, <1>27, <1>34, <2>1 DEF Scheduled
  <2> QED BY <1>12, <1>29, <1>34, <2>1, <2>2 DEF Scheduled
<1>35. ASSUME NEW w, Starts(w)
       PROVE  /\ Scheduled'
              /\ Head(f_ready) \in AllFibers /\ Among(f_ready, Head(f_ready))
              /\ \A g \in AllFibers : (Carried(g)' => Carried(g) \/ g = Head(f_ready))
                                   /\ (Among(f_ready', g) => Among(f_ready, g))
  <2>1. PICK h \in AllFibers : h = Head(f_ready)
    BY <1>2, <1>27, <1>35
  <2>2. /\ w \in Carriers /\ f_on[w] = Nothing /\ f_on'[w] = h /\ h # Nothing
        /\ \A v \in Carriers \ {w} : f_on'[v] = f_on[v]
    BY <1>1, <1>27, <1>35, <2>1
  <2>3. ASSUME NEW g \in AllFibers
        PROVE  /\ Among(f_ready, g) <=> h = g \/ Among(f_ready', g)
               /\ NoRepeat(f_ready', g)
               /\ h = g => ~Among(f_ready', g)
    BY <1>3, <1>12, <1>27, <1>35, <2>1 DEF Scheduled
  <2>4. Among(f_ready, h) /\ f_pc[h] \in {"routine", "waited"} /\ ~Carried(h) /\ ~Coming(h)
    BY <1>12, <2>3 DEF Scheduled
  <2>5. \A g \in AllFibers : Carried(g)' <=> Carried(g) \/ g = h
    BY <1>1, <2>2 DEF Carried
  <2>6. \A u, v \in Carriers : f_on'[u] = f_on'[v] /\ f_on'[u] # Nothing => u = v
    BY <1>12, <2>2, <2>4 DEF Scheduled, Carried
  <2>7. Scheduled'
    BY <1>12, <1>35, <2>3, <2>4, <2>5, <2>6 DEF Scheduled
  <2> QED BY <2>1, <2>3, <2>4, <2>5, <2>7

(* The mutex: a step that has nothing to do with its owner, and the others.      *)
<1> DEFINE Away == /\ Moves /\ (f_st' = f_st \/ f_st' # "None")
                   /\ \A g \in AllFibers :
                        /\ Drops(g) => ~Doing(g, "lock") /\ ~Doing(g, "unlock")
                        /\ f_pc'[g] = "unlock schedule" <=> f_pc[g] = "unlock schedule"
                        /\ f_pc[g] = "unlock schedule" => f_taken'[g] = f_taken[g]
<1>36. ASSUME Moves, NEW g \in AllFibers
       PROVE  /\ ~Drops(g) => (Locked(f_script'[g]) <=> Locked(f_script[g]))
              /\ Drops(g) /\ ~Doing(g, "lock") /\ ~Doing(g, "unlock")
                   => (Locked(f_script'[g]) <=> Locked(f_script[g]))
              /\ Drops(g) /\ Doing(g, "unlock") => ~Locked(f_script'[g])
              /\ Doing(g, "lock") => ~Locked(f_script[g])
              /\ Doing(g, "unlock") => Locked(f_script[g])
  <2>1. PICK q \in Seq(Ops) : q = f_script[g] /\ WellFormed(q)
    BY <1>12, <1>13 DEF Routines
  <2>2. q = <<>> => ~Drops(g) /\ ~Doing(g, "lock") /\ ~Doing(g, "unlock")
    BY <1>36, <2>1 DEF Doing
  <2>3. CASE q # <<>>
    <3>1. Drops(g) => f_script'[g] = Tail(q)
      BY <1>36, <2>1
    <3> QED BY <1>5, <1>6, <2>1, <2>3, <3>1 DEF Doing
  <2> QED BY <2>2, <2>3
<1>37. ASSUME Away
       PROVE  OneOwner'
  <2>1. ASSUME NEW g \in AllFibers
        PROVE  Owner(g)' <=> Owner(g)
    <3>1. Locked(f_script'[g]) <=> Locked(f_script[g])
      BY <1>36, <1>37
    <3>2. Handed(g)' <=> Handed(g)
      BY <1>37 DEF Handed
    <3> QED BY <1>37, <3>1, <3>2 DEF Owner
  <2> QED BY <1>12, <1>37, <2>1 DEF OneOwner
<1>38. ASSUME NEW f \in AllFibers, f_pc[f] # "suspended"
       PROVE  ~Handed(f)
  BY <1>12, <1>38 DEF Handed, Suspended
<1>39. ASSUME NEW f \in AllFibers, Moves, Others(f), f_pc[f] # "suspended", f_taken' = f_taken,
              f_pc[f] # "unlock schedule", f_pc'[f] # "unlock schedule",
              \/ Doing(f, "lock") /\ f_st = "None" /\ f_st' # "None"
              \/ Doing(f, "unlock") /\ Drops(f)
       PROVE  OneOwner'
  <2>1. ASSUME NEW g \in AllFibers, g # f
        PROVE  (Locked(f_script'[g]) <=> Locked(f_script[g])) /\ f_pc'[g] = f_pc[g]
    BY <1>36, <1>39, <2>1
  <2>2. \A g \in AllFibers : Handed(g)' <=> Handed(g)
    BY <1>39 DEF Handed
  <2>3. \A g \in AllFibers : g # f => (Owner(g)' <=> Owner(g))
    BY <2>1, <2>2 DEF Owner
  <2>4. CASE Doing(f, "lock") /\ f_st = "None" /\ f_st' # "None"
    BY <1>12, <2>3, <2>4 DEF OneOwner
  <2>5. CASE Doing(f, "unlock") /\ Drops(f)
    <3>1. Owner(f)
      BY <1>36, <1>39, <2>5 DEF Owner
    <3>2. ~Owner(f)'
      BY <1>36, <1>38, <1>39, <2>2, <2>5 DEF Owner
    <3> QED BY <1>12, <2>3, <3>1, <3>2 DEF OneOwner
  <2> QED BY <1>39, <2>4, <2>5
<1>40. ASSUME NEW f \in AllFibers, Moves, Takes(f, "lock"), f_pc[f] = "unlock take", f_pc'[f] = "unlock schedule",
              f_st' # "None"
       PROVE  OneOwner'
  <2>1. PICK h : h = Head(Queues["lock"]) /\ f_taken' = [f_taken EXCEPT ![f] = h]
    BY <1>40
  <2>2. Owner(f)
    <3>1. Doing(f, "unlock")
      BY <1>12, <1>40 DEF AtHead, UnlockSteps
    <3> QED BY <1>36, <1>40, <3>1 DEF Owner
  <2>3. ASSUME NEW g \in AllFibers
        PROVE  Handed(g)' => Handed(g) \/ g = h
    BY <1>22, <1>40, <2>1 DEF Handed
  <2>4. ASSUME NEW g \in AllFibers, Owner(g)'
        PROVE  g = h
    <3>1. CASE Handed(g)'
      <4>1. Owner(g) \/ g = h
        BY <2>3, <3>1 DEF Owner
      <4>2. ~Handed(f)
        BY <1>38, <1>40
      <4> QED BY <1>12, <2>2, <2>3, <3>1, <4>1, <4>2 DEF OneOwner
    <3>2. CASE Locked(f_script'[g]) /\ f_pc'[g] # "unlock schedule"
      <4>1. g # f
        BY <1>40, <3>2
      <4>2. Owner(g)
        BY <1>36, <1>40, <3>2, <4>1 DEF Owner
      <4> QED BY <1>12, <2>2, <4>1, <4>2 DEF OneOwner
    <3> QED BY <2>4, <3>1, <3>2 DEF Owner
  <2> QED BY <1>40, <2>4 DEF OneOwner
<1>41. ASSUME NEW f \in AllFibers, NEW h, Moves, Gives(f, h), Doing(f, "unlock"), Drops(f),
              f_pc[f] = "unlock schedule", f_st' = f_st
       PROVE  OneOwner'
  <2>1. Owner(h) /\ h \in AllFibers
    BY <1>41 DEF Owner, Handed
  <2>2. ASSUME NEW g \in AllFibers, g # h
        PROVE  ~Owner(g)'
    <3>1. ~Owner(g)
      BY <1>12, <2>1, <2>2 DEF OneOwner
    <3>2. Handed(g)' => Handed(g)
      <4>1. f_pc'[h] # "unlock schedule"
        BY <1>7, <1>41
      <4> QED BY <1>1, <1>22, <1>41, <4>1 DEF Handed
    <3>3. CASE g = f
      BY <1>36, <1>38, <1>41, <3>2, <3>3 DEF Owner
    <3>4. CASE g # f
      BY <1>36, <1>41, <2>2, <3>1, <3>2, <3>4 DEF Owner
    <3> QED BY <3>3, <3>4
  <2> QED BY <1>12, <1>41, <2>1, <2>2 DEF OneOwner

(* The event: a step of somebody else, and those of Fire().                     *)
<1> DEFINE Firing == {"fire take", "fire next", "fire last"}
           Elsewhere == /\ Moves /\ f_fired' = f_fired /\ (f_waiting # <<>> => f_waiting' # <<>>)
                     /\ \A g \in AllFibers :
                          /\ f_pc'[g] \in Firing => f_pc'[g] = f_pc[g]
                          /\ f_pc[g] \in Firing => f_pc'[g] = f_pc[g]
                          /\ f_pc'[g] = "await schedule" => f_pc[g] = "await schedule" \/ f_fired
<1>42. ASSUME Elsewhere
       PROVE  FiredOnce'
  BY <1>12, <1>14, <1>42 DEF FiredOnce
<1>43. ASSUME NEW f \in AllFibers, f_pc[f] \in FireSteps
       PROVE  /\ Doing(f, "fire") /\ HasOp(f, "fire")
              /\ \A g \in AllFibers \ {f} : ~HasOp(g, "fire") /\ f_pc[g] \notin FireSteps
  <2>1. \A g \in AllFibers : f_pc[g] \in FireSteps => Doing(g, "fire") /\ HasOp(g, "fire")
    BY <1>12, <1>15 DEF AtHead
  <2> QED BY <1>12, <1>43, <2>1 DEF Routines

(* What is left to be added and to be done.                                   *)
<1>44. ASSUME NEW s \in [AllFibers -> Seq(Ops)], NEW op, NEW g \in AllFibers, NEW k
       PROVE  <<g, k>> \in Marks(s, op) <=> k \in 1..Len(s[g]) /\ s[g][Len(s[g]) + 1 - k] = op
  BY DEF Marks
<1>45. ASSUME NEW s \in [AllFibers -> Seq(Ops)], NEW op, NEW x \in Marks(s, op)
       PROVE  \E g \in AllFibers : \E k \in 1..Len(s[g]) : x = <<g, k>>
  BY DEF Marks
<1>46. ASSUME Moves, NEW op, NEW g \in AllFibers, NEW k
       PROVE  /\ <<g, k>> \in Marks(f_script', op) <=>
                   <<g, k>> \in Marks(f_script, op) /\ ~(Drops(g) /\ k = Len(f_script[g]))
              /\ f_script[g] # <<>> /\ k = Len(f_script[g]) => (<<g, k>> \in Marks(f_script, op) <=> Doing(g, op))
  <2>1. PICK q \in Seq(Ops), n \in Nat : q = f_script[g] /\ n = Len(q)
    BY <1>13
  <2>2. <<g, k>> \in Marks(f_script, op) <=> k \in 1..n /\ q[n + 1 - k] = op
    BY <1>13, <1>44, <2>1
  <2>3. ASSUME q # <<>>
        PROVE  n >= 1 /\ Head(q) = q[1] /\ Len(Tail(q)) = n - 1 /\ \A i \in 1..(n - 1) : Tail(q)[i] = q[i + 1]
    BY <1>2, <2>1, <2>3
  <2>4. f_script[g] # <<>> /\ k = Len(f_script[g]) => (<<g, k>> \in Marks(f_script, op) <=> Doing(g, op))
    <3>1. n \in Nat /\ n >= 1 => n \in 1..n /\ n + 1 - n = 1
      OBVIOUS
    <3> QED BY <2>1, <2>2, <2>3, <3>1 DEF Doing
  <2>5. <<g, k>> \in Marks(f_script', op) <=>
          k \in 1..Len(f_script'[g]) /\ f_script'[g][Len(f_script'[g]) + 1 - k] = op
    <3>1. f_script' \in [AllFibers -> Seq(Ops)]
      BY <1>46
    <3> QED BY <1>44, <3>1
  <2>6. CASE ~Drops(g)
    <3>1. f_script'[g] = q /\ Len(f_script'[g]) = n
      BY <2>1, <2>6
    <3>2. <<g, k>> \in Marks(f_script', op) <=> k \in 1..n /\ q[n + 1 - k] = op
      BY <2>5, <3>1
    <3> QED BY <2>2, <2>4, <2>6, <3>2
  <2>7. CASE Drops(g)
    <3>1. q # <<>> /\ f_script'[g] = Tail(q)
      BY <1>46, <2>1, <2>7
    <3>2. <<g, k>> \in Marks(f_script', op) <=> k \in 1..(n - 1) /\ Tail(q)[n - k] = op
      <4>1. k \in 1..(n - 1) => (n - 1) + 1 - k = n - k
        BY <2>1
      <4> QED BY <2>3, <2>5, <3>1, <4>1
    <3>3. k \in 1..(n - 1) => n - k \in 1..(n - 1) /\ (n - k) + 1 = n + 1 - k /\ k \in 1..n /\ k # n
      BY <2>1
    <3>4. k \in 1..n /\ k # n => k \in 1..(n - 1)
      BY <2>1
    <3>5. k \in 1..(n - 1) => Tail(q)[n - k] = q[n + 1 - k]
      BY <2>3, <3>1, <3>3
    <3>6. <<g, k>> \in Marks(f_script', op) <=> <<g, k>> \in Marks(f_script, op) /\ k # n
      BY <2>2, <3>2, <3>3, <3>4, <3>5
    <3> QED BY <2>1, <2>4, <2>7, <3>6
  <2> QED BY <2>4, <2>6, <2>7
<1>47. ASSUME Moves, NEW op, \A g \in AllFibers : Drops(g) => ~Doing(g, op)
       PROVE  Marks(f_script', op) = Marks(f_script, op)
  <2>1. f_script' \in [AllFibers -> Seq(Ops)]
    BY <1>47
  <2>2. ASSUME NEW g \in AllFibers, NEW k
        PROVE  <<g, k>> \in Marks(f_script', op) <=> <<g, k>> \in Marks(f_script, op)
    <3>1. Drops(g) => f_script[g] # <<>>
      BY <1>47
    <3> QED BY <1>46, <1>47, <3>1
  <2>3. \A x \in Marks(f_script', op) : x \in Marks(f_script, op)
    BY <1>45, <2>1, <2>2
  <2>4. \A x \in Marks(f_script, op) : x \in Marks(f_script', op)
    BY <1>13, <1>45, <2>2
  <2> QED BY <2>3, <2>4
<1>48. ASSUME Moves, NEW op, NEW f \in AllFibers, Drops(f), Doing(f, op),
              \A g \in AllFibers \ {f} : Drops(g) => ~Doing(g, op), IsFiniteSet(Marks(f_script, op))
       PROVE  /\ IsFiniteSet(Marks(f_script', op))
              /\ Cardinality(Marks(f_script', op)) = Cardinality(Marks(f_script, op)) - 1
  <2>1. f_script' \in [AllFibers -> Seq(Ops)]
    BY <1>48
  <2>2. PICK n : n = Len(f_script[f])
    OBVIOUS
  <2>3. <<f, n>> \in Marks(f_script, op)
    BY <1>46, <1>48, <2>2
  <2>4. ASSUME NEW g \in AllFibers, NEW k
        PROVE  <<g, k>> \in Marks(f_script', op) <=> <<g, k>> \in Marks(f_script, op) /\ <<g, k>> # <<f, n>>
    BY <1>46, <1>48, <2>2
  <2>5. ASSUME NEW x
        PROVE  x \in Marks(f_script', op) => x \in Marks(f_script, op) /\ x # <<f, n>>
    <3> SUFFICES ASSUME x \in Marks(f_script', op)
                 PROVE  x \in Marks(f_script, op) /\ x # <<f, n>>
      OBVIOUS
    <3>1. PICK g \in AllFibers : \E k \in 1..Len(f_script'[g]) : x = <<g, k>>
      BY <1>45, <2>1
    <3> QED BY <2>4, <3>1
  <2>6. ASSUME NEW x
        PROVE  x \in Marks(f_script, op) /\ x # <<f, n>> => x \in Marks(f_script', op)
    <3> SUFFICES ASSUME x \in Marks(f_script, op), x # <<f, n>>
                 PROVE  x \in Marks(f_script', op)
      OBVIOUS
    <3>1. PICK g \in AllFibers : \E k \in 1..Len(f_script[g]) : x = <<g, k>>
      BY <1>13, <1>45
    <3> QED BY <2>4, <3>1
  <2>7. Marks(f_script', op) = Marks(f_script, op) \ {<<f, n>>}
    BY <2>5, <2>6
  <2> QED BY <1>48, <2>3, <2>7, FS_RemoveElement
<1>49. ASSUME NEW f \in AllFibers, NEW op, HasOp(f, op)
       PROVE  \E k : <<f, k>> \in Marks(f_script, op)
  <2>1. PICK n \in Nat : n = Len(f_script[f])
    BY <1>13
  <2>2. PICK i \in 1..n : f_script[f][i] = op
    BY <1>49, <2>1 DEF HasOp, Among
  <2>3. n + 1 - i \in 1..n /\ n + 1 - (n + 1 - i) = i
    BY <2>1
  <2> QED BY <1>13, <1>44, <2>1, <2>2, <2>3
<1>50. ASSUME NEW op, \A g \in AllFibers : ~HasOp(g, op)
       PROVE  Marks(f_script, op) = {}
  <2> SUFFICES ASSUME NEW x \in Marks(f_script, op)
               PROVE  FALSE
    OBVIOUS
  <2>0. PICK g \in AllFibers : \E k \in 1..Len(f_script[g]) : x = <<g, k>>
    BY <1>13, <1>45
  <2>1. PICK k \in 1..Len(f_script[g]) : x = <<g, k>>
    BY <2>0
  <2>2. PICK n \in Nat : n = Len(f_script[g])
    BY <1>13
  <2>3. <<g, k>> \in Marks(f_script, op) <=> k \in 1..n /\ f_script[g][n + 1 - k] = op
    BY <1>13, <1>44, <2>2
  <2>4. k \in 1..n /\ f_script[g][n + 1 - k] = op
    BY <2>1, <2>2, <2>3
  <2>5. n + 1 - k \in 1..n
    BY <2>2, <2>4
  <2> QED BY <1>50, <2>2, <2>4, <2>5 DEF HasOp, Among

(* The wait group: what a fiber that calls Done(), or finishes it, knows.         *)
<1> DEFINE Announced == Marks(f_script, "add")
           Undone    == Marks(f_script, "done")
<1>51. /\ IsFiniteSet(Announced) /\ IsFiniteSet(Undone)
       /\ Cardinality(Announced) \in Nat /\ Cardinality(Undone) \in Nat /\ f_countdown \in Nat /\ f_inWait \in Nat
       /\ Cardinality(Undone) = f_countdown + Cardinality(Announced) + (IF Finishing = {} THEN 0 ELSE 1)
       /\ \A f, g \in Finishing : f = g
       /\ Finishing # {} => f_countdown = 0
  BY <1>12, FS_CardinalityType DEF Counted, FiberTypes
<1>52. ASSUME NEW f \in AllFibers, Carried(f), ~(f_pc[f] = "routine" /\ Doing(f, "add"))
       PROVE  Cardinality(Announced) = 0 /\ \A g \in AllFibers : ~HasOp(g, "add")
  BY <1>18, <1>50, <1>52, FS_EmptySet
<1>53. ASSUME NEW f \in Finishing
       PROVE  /\ f \in AllFibers /\ f_pc[f] \in DoneSteps /\ Doing(f, "done") /\ HasOp(f, "done")
              /\ Carried(f) /\ Finishing = {f} /\ f_countdown = 0
              /\ Cardinality(Announced) = 0 /\ Cardinality(Undone) = 1
              /\ \A g \in AllFibers \ {f} : f_pc[g] \notin DoneSteps /\ ~HasOp(g, "done")
  <2>1. f \in AllFibers /\ f_pc[f] \in DoneSteps
    BY <1>53 DEF Finishing
  <2>2. Doing(f, "done") /\ HasOp(f, "done")
    BY <1>12, <1>15, <2>1 DEF AtHead
  <2>3. f_pc[f] \notin {"routine", "waited", "suspended", "deleted"}
    BY <2>1 DEF DoneSteps
  <2>4. Carried(f)
    BY <1>12, <2>1, <2>3 DEF Scheduled
  <2>5. Finishing = {f} /\ f_countdown = 0
    BY <1>51, <1>53
  <2>6. Cardinality(Announced) = 0
    BY <1>52, <2>1, <2>3, <2>4
  <2>7. Cardinality(Undone) = 1
    BY <1>51, <2>5, <2>6
  <2>8. PICK x : Undone = {x}
    BY <1>51, <2>7, FS_Singleton
  <2>9. ASSUME NEW g \in AllFibers, HasOp(g, "done")
        PROVE  g = f
    <3>1. PICK k : <<g, k>> \in Undone
      BY <1>49, <2>9
    <3>2. PICK l : <<f, l>> \in Undone
      BY <1>49, <2>1, <2>2
    <3> QED BY <2>8, <3>1, <3>2
  <2>10. \A g \in AllFibers \ {f} : f_pc[g] \notin DoneSteps
    BY <2>5 DEF Finishing
  <2> QED BY <2>1, <2>2, <2>4, <2>5, <2>6, <2>7, <2>9, <2>10
<1>54. ASSUME NEW f \in AllFibers, Carried(f), f_pc[f] = "routine", Doing(f, "done")
       PROVE  /\ Finishing = {} /\ f_countdown >= 1 /\ Cardinality(Announced) = 0
              /\ Cardinality(Undone) = f_countdown
              /\ ~f_completed /\ \A g \in AllFibers : f_pc[g] \notin Late
  <2>1. Cardinality(Announced) = 0
    BY <1>52, <1>54 DEF Doing
  <2>2. HasOp(f, "done") /\ f_pc[f] \notin DoneSteps
    BY <1>15, <1>54 DEF DoneSteps
  <2>3. Finishing = {}
    <3> SUFFICES ASSUME NEW g \in Finishing
                 PROVE  FALSE
      OBVIOUS
    <3> QED BY <1>53, <2>2
  <2>4. Cardinality(Undone) # 0
    <3>1. PICK k : <<f, k>> \in Undone
      BY <1>49, <2>2
    <3> QED BY <1>51, <3>1, FS_EmptySet
  <2>5. f_countdown >= 1 /\ Cardinality(Undone) = f_countdown
    BY <1>51, <2>1, <2>3, <2>4
  <2>6. f_countdown # 0
    BY <1>51, <2>5
  <2>7. ~f_completed /\ \A g \in AllFibers : f_pc[g] \notin Late
    BY <1>12, <2>6 DEF DoneOnce
  <2> QED BY <2>1, <2>3, <2>5, <2>7
<1>55. ASSUME NEW f \in AllFibers, Carried(f), f_pc[f] = "routine", Doing(f, "add")
       PROVE  /\ \A g \in AllFibers : f_pc[g] \in {"routine", "deleted"}
              /\ Finishing = {} /\ ~f_completed
  <2>1. HasOp(f, "add")
    BY <1>15, <1>55
  <2>2. ~f_completed /\ \A g \in AllFibers : f_pc[g] \in {"routine", "deleted"}
    BY <1>12, <1>55, <2>1 DEF AddedFirst
  <2> QED BY <2>2 DEF Finishing, DoneSteps

(* Steps of others, and those of Add(), Done() and Wait().                      *)
<1> DEFINE CountKept ==
             /\ Moves /\ f_countdown' = f_countdown
             /\ \A g \in AllFibers : /\ Drops(g) => ~Doing(g, "add") /\ ~Doing(g, "done")
                                     /\ f_pc'[g] \in DoneSteps <=> f_pc[g] \in DoneSteps
           OnceKept ==
             /\ f_completed' = f_completed /\ f_countdown' = f_countdown
             /\ f_queued # <<>> => f_queued' # <<>>
             /\ \A g \in AllFibers :
                  /\ f_pc'[g] \in {"done take", "done next"} => f_pc[g] \in {"done take", "done next"} \/ f_queued' # <<>>
                  /\ f_pc'[g] = "done last" => f_pc[g] = "done last"
                  /\ f_pc'[g] \in Late => f_pc[g] \in Late \/ f_countdown = 0
                  /\ f_pc'[g] \in DoneSteps \ {"done last"} =>
                       f_pc[g] \in DoneSteps \ {"done last"} \/ ~f_completed
           InsideKept ==
             /\ f_inWait' = f_inWait
             /\ \A g \in AllFibers : (Doing(g, "wait") /\ f_pc[g] # "routine")' <=> Doing(g, "wait") /\ f_pc[g] # "routine"
<1>56. ASSUME CountKept
       PROVE  Counted'
  <2>1. Marks(f_script', "add") = Announced /\ Marks(f_script', "done") = Undone
    BY <1>47, <1>56
  <2>2. Finishing' = Finishing
    BY <1>56 DEF Finishing
  <2> QED BY <1>12, <1>56, <2>1, <2>2 DEF Counted
<1>57. ASSUME NEW f \in AllFibers, Carried(f), Moves, Others(f), f_pc[f] = "routine", Doing(f, "add"), Drops(f),
              f_pc'[f] = "routine", f_countdown' = f_countdown + 1, f_completed' = f_completed
       PROVE  Counted' /\ DoneOnce'
  <2>1. Marks(f_script', "done") = Undone
    BY <1>47, <1>57 DEF Doing
  <2>2. /\ IsFiniteSet(Marks(f_script', "add"))
        /\ Cardinality(Marks(f_script', "add")) = Cardinality(Announced) - 1
    BY <1>48, <1>51, <1>57
  <2>3. \A g \in AllFibers : f_pc'[g] \in {"routine", "deleted"}
    BY <1>55, <1>57
  <2>4. Finishing' = {}
    BY <2>3 DEF Finishing, DoneSteps
  <2>5. Counted'
    BY <1>51, <1>55, <1>57, <2>1, <2>2, <2>4 DEF Counted
  <2>6. DoneOnce'
    BY <1>55, <1>57, <2>3 DEF DoneOnce, DoneSteps, Late
  <2> QED BY <2>5, <2>6
<1>58. ASSUME NEW f \in AllFibers, Carried(f), Moves, Others(f), f_pc[f] = "routine", Doing(f, "done"),
              f_countdown' = f_countdown - 1, f_completed' = f_completed,
              IF f_countdown = 1 THEN f_pc'[f] = "done lock" /\ ~Drops(f) ELSE f_pc'[f] = "routine" /\ Drops(f)
       PROVE  Counted' /\ DoneOnce'
  <2>1. Marks(f_script', "add") = Announced
    BY <1>47, <1>58 DEF Doing
  <2>2. /\ Finishing = {} /\ f_countdown >= 1 /\ Cardinality(Announced) = 0
        /\ Cardinality(Undone) = f_countdown
        /\ ~f_completed /\ \A g \in AllFibers : f_pc[g] \notin Late
    BY <1>54, <1>58
  <2>3. \A g \in AllFibers \ {f} : f_pc'[g] = f_pc[g] /\ f_pc[g] \notin DoneSteps
    BY <1>58, <2>2 DEF Finishing
  <2>4. DoneOnce'
    <3>1. \A g \in AllFibers : f_pc'[g] \notin Late
      BY <1>58, <2>2, <2>3 DEF Late
    <3>2. \A g \in AllFibers : f_pc'[g] \notin {"done take", "done next", "done last"}
      BY <1>58, <2>3 DEF DoneSteps
    <3> QED BY <1>58, <2>2, <3>1, <3>2 DEF DoneOnce
  <2>7. f_countdown' = f_countdown - 1 /\ f_countdown \in Nat
    BY <1>51, <1>58
  <2>5. CASE f_countdown = 1
    <3>1. Marks(f_script', "done") = Undone
      BY <1>47, <1>58, <2>5
    <3>2. Finishing' = {f}
      BY <1>58, <2>3, <2>5 DEF Finishing, DoneSteps
    <3>3. f_countdown' = 0 /\ Cardinality(Undone) = 1
      <4>1. Cardinality(Undone) = f_countdown
        BY <2>2
      <4> QED BY <2>5, <2>7, <4>1
    <3>4. Counted'
      BY <1>51, <2>1, <2>2, <3>1, <3>2, <3>3 DEF Counted
    <3> QED BY <2>4, <3>4
  <2>6. CASE f_countdown # 1
    <3>1. /\ IsFiniteSet(Marks(f_script', "done"))
          /\ Cardinality(Marks(f_script', "done")) = Cardinality(Undone) - 1
      BY <1>48, <1>51, <1>58, <2>6
    <3>2. Finishing' = {}
      BY <1>58, <2>3, <2>6 DEF Finishing, DoneSteps
    <3>3. f_countdown' = f_countdown - 1 /\ Cardinality(Marks(f_script', "done")) = f_countdown'
      BY <1>51, <1>58, <2>2, <3>1
    <3>4. f_countdown' + 0 + 0 = f_countdown'
      BY <2>7
    <3>5. Counted'
      BY <1>51, <2>1, <2>2, <3>1, <3>2, <3>3, <3>4 DEF Counted
    <3> QED BY <2>4, <3>5
  <2> QED BY <2>5, <2>6
<1>59. ASSUME NEW f \in Finishing, Moves, Drops(f), \A g \in AllFibers \ {f} : Drops(g) => ~Doing(g, "done"),
              f_pc'[f] = "routine", \A g \in AllFibers \ {f} : f_pc'[g] \in DoneSteps => f_pc[g] \in DoneSteps,
              f_countdown' = f_countdown
       PROVE  Counted' /\ \A g \in AllFibers : ~HasOp(g, "done")'
  <2>1. /\ f \in AllFibers /\ Doing(f, "done") /\ f_countdown = 0
        /\ Cardinality(Announced) = 0 /\ Cardinality(Undone) = 1
        /\ \A g \in AllFibers \ {f} : f_pc[g] \notin DoneSteps
    BY <1>53
  <2>2. \A g \in AllFibers : ~HasOp(g, "add")
    BY <1>52, <1>53, <2>1 DEF DoneSteps
  <2>3. Marks(f_script', "add") = Announced
    <3>1. \A g \in AllFibers : ~Doing(g, "add")
      BY <1>15, <2>2
    <3> QED BY <1>47, <1>59, <3>1
  <2>4. /\ IsFiniteSet(Marks(f_script', "done"))
        /\ Cardinality(Marks(f_script', "done")) = 0
    <3>1. /\ IsFiniteSet(Marks(f_script', "done"))
          /\ Cardinality(Marks(f_script', "done")) = Cardinality(Undone) - 1
      BY <1>48, <1>51, <1>59, <2>1
    <3> QED BY <2>1, <3>1
  <2>5. Finishing' = {}
    BY <1>59, <2>1 DEF Finishing, DoneSteps
  <2>6. Counted'
    BY <1>51, <1>59, <2>1, <2>3, <2>4, <2>5 DEF Counted
  <2>7. ASSUME NEW g \in AllFibers, HasOp(g, "done")'
        PROVE  FALSE
    <3>1. HasOp(g, "done")
      BY <1>14, <1>59, <2>7
    <3>2. g = f
      BY <1>53, <3>1
    <3>3. Marks(f_script', "done") = {}
      BY <2>4, FS_EmptySet
    <3>4. \E i \in 1..Len(f_script'[f]) : f_script'[f][i] = "done"
      BY <2>7, <3>2 DEF HasOp, Among
    <3>5. PICK n \in Nat : n = Len(f_script'[f])
      BY <1>59, <2>1
    <3>6. PICK i \in 1..n : f_script'[f][i] = "done"
      BY <3>4, <3>5
    <3>7. n + 1 - i \in 1..n /\ n + 1 - (n + 1 - i) = i
      BY <3>5
    <3>8. <<f, n + 1 - i>> \in Marks(f_script', "done")
      <4>1. f_script' \in [AllFibers -> Seq(Ops)]
        BY <1>59
      <4>2. n + 1 - i \in 1..Len(f_script'[f]) /\ f_script'[f][Len(f_script'[f]) + 1 - (n + 1 - i)] = "done"
        BY <3>5, <3>6, <3>7
      <4> QED BY <1>44, <2>1, <4>1, <4>2
    <3> QED BY <3>3, <3>8
  <2> QED BY <2>6, <2>7
<1>60. ASSUME OnceKept
       PROVE  DoneOnce'
  BY <1>12, <1>60 DEF DoneOnce
<1>61. ASSUME NEW f \in Finishing, Alike(f), f_completed', f_countdown' = f_countdown,
              f_pc'[f] \in {"routine", "done last"}
       PROVE  DoneOnce'
  <2>1. /\ f \in AllFibers /\ f_countdown = 0
        /\ \A g \in AllFibers \ {f} : f_pc'[g] \notin DoneSteps
    BY <1>53, <1>61
  <2> QED BY <1>61, <2>1 DEF DoneOnce, DoneSteps, Late
<1>62. ASSUME NEW f \in Finishing, Alike(f), f_completed' = f_completed, f_countdown' = f_countdown,
              f_pc[f] # "done last", f_pc'[f] \in {"done flag", "done next"}, f_pc'[f] = "done next" => f_queued' # <<>>
       PROVE  DoneOnce'
  <2>1. /\ f \in AllFibers /\ f_countdown = 0 /\ f_pc[f] \in DoneSteps
        /\ \A g \in AllFibers \ {f} : f_pc'[g] \notin DoneSteps
    BY <1>53, <1>62
  <2>2. ~f_completed
    BY <1>12, <1>62, <2>1 DEF DoneOnce
  <2> QED BY <1>62, <2>1, <2>2 DEF DoneOnce, DoneSteps, Late
<1>63. ASSUME InsideKept
       PROVE  WaitsKept'
  <2>1. Inside' = Inside
    BY <1>63 DEF Inside
  <2> QED BY <1>12, <1>63, <2>1 DEF WaitsKept
<1>64. IsFiniteSet(Inside)
  BY <1>1, FS_Subset DEF Inside
<1>65. ASSUME NEW f \in AllFibers, Others(f), ~Drops(f), Doing(f, "wait"), f_pc[f] = "routine", f_pc'[f] = "wait lock",
              f_inWait' = f_inWait + 1
       PROVE  WaitsKept'
  <2>1. Inside' = Inside \cup {f} /\ f \notin Inside
    BY <1>21, <1>65 DEF Inside
  <2> QED BY <1>12, <1>64, <1>65, <2>1, FS_AddElement DEF WaitsKept
<1>66. ASSUME NEW f \in AllFibers, Others(f), Doing(f, "wait"), f_pc[f] = "waited", f_pc'[f] = "routine",
              f_inWait' = f_inWait - 1
       PROVE  WaitsKept' /\ f_inWait >= 1
  <2>1. Inside' = Inside \ {f} /\ f \in Inside
    BY <1>21, <1>66 DEF Inside
  <2>2. Cardinality(Inside \ {f}) = Cardinality(Inside) - 1 /\ Cardinality(Inside) # 0
    BY <1>64, <2>1, FS_RemoveElement, FS_EmptySet
  <2> QED BY <1>12, <1>51, <1>66, <2>1, <2>2 DEF WaitsKept

(* A step of one component leaves alone what is said of the others.             *)
<1> DEFINE Touched(g) == f_pc'[g] # f_pc[g] \/ Drops(g)
           Within(g, l) == /\ l \in LockSteps => Doing(g, "lock")
                           /\ l \in UnlockSteps => Doing(g, "unlock")
                           /\ l \in AwaitSteps => Doing(g, "await")
                           /\ l \in FireSteps => Doing(g, "fire")
                           /\ l \in DoneSteps => Doing(g, "done")
                           /\ l \in WaitSteps => Doing(g, "wait")
           Rests == {"routine", "suspended", "deleted"}
           Only(L, O) == /\ Moves
                         /\ \A g \in AllFibers : Touched(g) =>
                              /\ f_pc[g] \in L \cup Rests /\ f_pc'[g] \in L \cup Rests
                              /\ Drops(g) => f_pc'[g] = "routine"
                              /\ \A op \in Operations \ O : ~Doing(g, op)
           NoMutex == /\ f_st' = f_st
                      /\ \A g \in AllFibers : f_pc[g] = "unlock schedule" => f_taken'[g] = f_taken[g]
           NoEvent == f_fired' = f_fired /\ f_waiting' = f_waiting
           NoGroup == /\ f_countdown' = f_countdown /\ f_inWait' = f_inWait
                      /\ f_completed' = f_completed /\ f_queued' = f_queued
<1>67. ASSUME NEW L, NEW O, Only(L, O), NoMutex, O \cap {"lock", "unlock"} = {}, L \cap UnlockSteps = {}
       PROVE  OneOwner'
  <2>1. ASSUME NEW g \in AllFibers
        PROVE  /\ Drops(g) => ~Doing(g, "lock") /\ ~Doing(g, "unlock")
               /\ f_pc'[g] = "unlock schedule" <=> f_pc[g] = "unlock schedule"
    BY <1>1, <1>67 DEF UnlockSteps
  <2> QED BY <1>37, <1>67, <2>1
<1>68. ASSUME NEW L, NEW O, Only(L, O), NoEvent, L \cap (AwaitSteps \cup FireSteps) = {}
       PROVE  FiredOnce'
  <2>1. ASSUME NEW g \in AllFibers
        PROVE  /\ f_pc'[g] \in Firing \cup {"await schedule"} => f_pc'[g] = f_pc[g]
               /\ f_pc[g] \in Firing => f_pc'[g] = f_pc[g]
    BY <1>68 DEF AwaitSteps, FireSteps
  <2> QED BY <1>42, <1>68, <2>1
<1>69. ASSUME NEW L, NEW O, Only(L, O), NoGroup, O \cap {"add", "done", "wait"} = {},
              L \cap (DoneSteps \cup WaitSteps) = {}
       PROVE  Counted' /\ DoneOnce' /\ WaitsKept'
  <2>1. ASSUME NEW g \in AllFibers
        PROVE  /\ Drops(g) => ~Doing(g, "add") /\ ~Doing(g, "done")
               /\ Touched(g) => ~Doing(g, "wait")
               /\ f_pc'[g] \in DoneSteps <=> f_pc[g] \in DoneSteps
               /\ f_pc'[g] \in DoneSteps \cup Late => f_pc'[g] = f_pc[g]
    <3>1. Touched(g) => f_pc[g] \notin DoneSteps \cup Late /\ f_pc'[g] \notin DoneSteps \cup Late
      BY <1>69 DEF DoneSteps, WaitSteps, Late
    <3>2. Touched(g) => ~Doing(g, "add") /\ ~Doing(g, "done") /\ ~Doing(g, "wait")
      BY <1>1, <1>69
    <3> QED BY <3>1, <3>2
  <2>2. Counted'
    BY <1>56, <1>69, <2>1
  <2>3. OnceKept
    BY <1>69, <2>1 DEF DoneSteps
  <2>4. ASSUME NEW g \in AllFibers
        PROVE  (Doing(g, "wait") /\ f_pc[g] # "routine")' <=> Doing(g, "wait") /\ f_pc[g] # "routine"
    <3>1. CASE Touched(g)
      BY <1>21, <1>69, <2>1, <3>1
    <3>2. CASE ~Touched(g)
      BY <1>21, <3>2
    <3> QED BY <3>1, <3>2
  <2> QED BY <1>60, <1>63, <1>69, <2>2, <2>3, <2>4
<1>70. ASSUME NEW f \in AllFibers, NEW l, f_pc' = [f_pc EXCEPT ![f] = l], Moves,
              Within(f, l), ~Drops(f) \/ l \in Rests,
              \A g \in AllFibers \ {f} : ~Drops(g)
       PROVE  AtHead'
  <2>1. ASSUME NEW g \in AllFibers, ~Drops(g)
        PROVE  \A op : Doing(g, op)' <=> Doing(g, op)
    BY <1>21, <2>1
  <2>2. f_pc'[f] = l /\ \A g \in AllFibers \ {f} : f_pc'[g] = f_pc[g]
    BY <1>22, <1>70
  <2>3. ASSUME NEW g \in AllFibers \ {f}
        PROVE  Within(g, f_pc[g]) /\ ~Drops(g) /\ f_pc'[g] = f_pc[g]
    BY <1>12, <1>70, <2>2 DEF AtHead
  <2>4. \A m \in Rests : m \notin LockSteps \cup UnlockSteps \cup AwaitSteps \cup FireSteps \cup DoneSteps \cup WaitSteps
    BY DEF LockSteps, UnlockSteps, AwaitSteps, FireSteps, DoneSteps, WaitSteps
  <2> QED BY <1>70, <2>1, <2>2, <2>3, <2>4 DEF AtHead

(* A fiber that goes on within an operation, or to the end of it, on its worker.   *)
<1> DEFINE Apart == UNCHANGED <<f_ready, f_on, f_taken, f_parked, f_waiting, f_queued>>
           Inner(f, l) == /\ Carried(f) /\ f_pc' = [f_pc EXCEPT ![f] = l] /\ f_script' = f_script /\ Apart
           Tailed(f) == f_script[f] # <<>> /\ f_script' = [f_script EXCEPT ![f] = Tail(@)]
           Ends(f) == /\ Carried(f) /\ f_pc' = [f_pc EXCEPT ![f] = "routine"] /\ Tailed(f) /\ Apart
<1>71. ASSUME NEW f \in AllFibers, Tailed(f)
       PROVE  Moves /\ Drops(f) /\ \A g \in AllFibers \ {f} : ~Drops(g)
  <2>1. PICK q \in Seq(Ops) : q = f_script[f] /\ q # <<>> /\ f_script'[f] = Tail(q)
    BY <1>13, <1>71
  <2>2. Tail(q) \in Seq(Ops) /\ Len(q) \in Nat /\ Len(Tail(q)) = Len(q) - 1
    BY <1>2, <2>1
  <2>3. Tail(q) # q
    <3>1. PICK n \in Nat : n = Len(q) /\ Len(Tail(q)) = n - 1
      BY <2>2
    <3>2. n - 1 # n
      OBVIOUS
    <3> QED BY <3>1, <3>2
  <2>4. f_script' \in [AllFibers -> Seq(Ops)] /\ \A g \in AllFibers \ {f} : f_script'[g] = f_script[g]
    BY <1>13, <1>71, <2>1, <2>2
  <2> QED BY <2>1, <2>3, <2>4
<1>72. ASSUME NEW f \in AllFibers, NEW l, Inner(f, l), l \notin {"suspended", "deleted"}, Within(f, l),
              \A op \in Parking : f_pc[f] \in Takers[op] <=> l \in Takers[op],
              ~(f_pc[f] = "routine" /\ Doing(f, "add"))
       PROVE  /\ Moves /\ Others(f) /\ ~Drops(f) /\ f_pc'[f] = l
              /\ Routines' /\ AtHead' /\ Suspended' /\ Scheduled' /\ AddedFirst'
  <2>1. /\ Keeps /\ ~Drops(f) /\ f_pc'[f] = l
        /\ \A g \in AllFibers \ {f} : f_pc'[g] = f_pc[g] /\ ~Drops(g)
    BY <1>13, <1>22, <1>72
  <2>2. f_pc[f] \notin {"suspended", "deleted"} /\ f_pc'[f] \notin {"suspended", "deleted"}
    BY <1>12, <1>72, <2>1 DEF Scheduled
  <2>3. Queues' = Queues
    BY <1>72 DEF Queues
  <2>4. Suspended'
    BY <1>23, <1>72, <2>1, <2>2, <2>3
  <2>5. Scheduled'
    BY <1>17, <1>30, <1>72, <2>1, <2>2
  <2>6. Routines' /\ AddedFirst'
    BY <1>16, <1>18, <1>19, <1>72, <2>1
  <2>7. AtHead'
    BY <1>70, <1>72, <2>1
  <2> QED BY <2>1, <2>4, <2>5, <2>6, <2>7
<1>73. ASSUME NEW f \in AllFibers, Ends(f), Head(f_script[f]) \in Operations,
              \A op \in Parking : f_pc[f] \notin Takers[op]
       PROVE  /\ Moves /\ Others(f) /\ Drops(f) /\ f_pc'[f] = "routine"
              /\ Routines' /\ AtHead' /\ Suspended' /\ Scheduled'
              /\ ~(f_pc[f] = "routine" /\ Doing(f, "add")) => AddedFirst'
  <2>1. /\ Keeps /\ Drops(f) /\ f_pc'[f] = "routine"
        /\ \A g \in AllFibers \ {f} : f_pc'[g] = f_pc[g] /\ ~Drops(g)
    BY <1>22, <1>71, <1>73
  <2>2. f_pc[f] \notin {"suspended", "deleted"} /\ f_pc'[f] \notin {"suspended", "deleted"}
    BY <1>12, <1>73, <2>1 DEF Scheduled
  <2>3. Queues' = Queues
    BY <1>73 DEF Queues
  <2>5. Suspended'
    BY <1>23, <1>73, <2>1, <2>2, <2>3, <1>10
  <2>6. Scheduled'
    BY <1>17, <1>30, <1>73, <2>1, <2>2
  <2>7. Routines' /\ (~(f_pc[f] = "routine" /\ Doing(f, "add")) => AddedFirst')
    BY <1>16, <1>18, <1>19, <1>73, <2>1
  <2>8. AtHead'
    <3>1. "routine" \in Rests /\ Within(f, "routine")
      BY DEF LockSteps, UnlockSteps, AwaitSteps, FireSteps, DoneSteps, WaitSteps
    <3> QED BY <1>70, <1>73, <2>1, <3>1
  <2> QED BY <2>1, <2>5, <2>6, <2>7, <2>8
<1>74. ASSUME FiberTypes', Routines', AtHead', Suspended', Scheduled', OneOwner', FiredOnce', AddedFirst',
              Counted', DoneOnce', WaitsKept'
       PROVE  FiberInv'
  BY <1>74 DEF FiberInv
<1>75. ASSUME NEW f \in AllFibers
       PROVE  /\ Fiber!OnWorker(f) <=> Carried(f)
              /\ \A l : Fiber!At(f, l) <=> Carried(f) /\ f_pc[f] = l
              /\ \A op : Fiber!Calls(f, op) <=> Carried(f) /\ f_pc[f] = "routine" /\ Doing(f, op)
              /\ \A l : Fiber!Goto(f, l) <=> f_pc' = [f_pc EXCEPT ![f] = l]
              /\ Fiber!Return(f) /\ f_script[f] # <<>> <=>
                   Tailed(f) /\ f_pc' = [f_pc EXCEPT ![f] = "routine"]
              /\ Fiber!LeaveWorker(f) <=> Left(f)
  BY DEF Fiber!OnWorker, Fiber!At, Fiber!Calls, Fiber!Goto, Fiber!Return, Fiber!LeaveWorker, Carried, Doing

(* A fiber that goes to a queue, one that takes another from there, and one that *)
(* schedules what it has taken.                                              *)
<1>76. ASSUME NEW q \in Seq(Ops), q # <<>>
        PROVE  Tail(q) # q /\ Tail(q) \in Seq(Ops)
  <2>1. PICK n \in Nat : n = Len(q) /\ Len(Tail(q)) = n - 1
    BY <1>2, <1>76
  <2>2. n - 1 # n
    OBVIOUS
  <2> QED BY <1>2, <1>76, <2>1, <2>2
<1>77. ASSUME Moves, \A g \in AllFibers : f_pc'[g] \in Rests \/ (~Drops(g) /\ Within(g, f_pc'[g]))
        PROVE  AtHead'
  <2>1. ASSUME NEW g \in AllFibers, ~Drops(g)
        PROVE  \A op : Doing(g, op)' <=> Doing(g, op)
    BY <1>21, <2>1
  <2>2. \A m \in Rests : m \notin LockSteps \cup UnlockSteps \cup AwaitSteps \cup FireSteps \cup DoneSteps \cup WaitSteps
    BY DEF LockSteps, UnlockSteps, AwaitSteps, FireSteps, DoneSteps, WaitSteps
  <2> QED BY <1>77, <2>1, <2>2 DEF AtHead
<1>78. ASSUME NEW f \in AllFibers, NEW o \in Parking, Carried(f), Doing(f, o), f_pc[f] # "routine",
              \A op \in Parking : f_pc[f] \notin Takers[op],
              f_pc' = [f_pc EXCEPT ![f] = "suspended"], UNCHANGED <<f_script, f_ready, f_taken>>, Left(f),
              Queues' = [Queues EXCEPT ![o] = Append(@, f)]
       PROVE  /\ Moves /\ Others(f) /\ ~Drops(f) /\ f_pc'[f] = "suspended"
              /\ Routines' /\ AtHead' /\ Suspended' /\ Scheduled' /\ AddedFirst'
              /\ f_on' \in [Carriers -> AllFibers \cup {Nothing}]
              /\ Queues' \in [Parking -> Seq(AllFibers)] /\ Queues'[o] # <<>>
  <2>1. /\ Keeps /\ ~Drops(f) /\ f_pc'[f] = "suspended"
        /\ \A g \in AllFibers \ {f} : f_pc'[g] = f_pc[g] /\ ~Drops(g)
    BY <1>13, <1>22, <1>78
  <2>2. f_pc[f] # "suspended"
    BY <1>12, <1>78 DEF Scheduled
  <2>3. Suspended'
    BY <1>24, <1>78, <2>1, <2>2
  <2>4. Scheduled'
    BY <1>17, <1>31, <1>78, <2>1
  <2>5. Routines' /\ AddedFirst'
    BY <1>16, <1>18, <1>19, <1>78, <2>1
  <2>6. AtHead'
    <3>1. "suspended" \in Rests /\ Within(f, "suspended")
      BY DEF LockSteps, UnlockSteps, AwaitSteps, FireSteps, DoneSteps, WaitSteps
    <3> QED BY <1>70, <1>78, <2>1, <3>1
  <2>7. f_on' \in [Carriers -> AllFibers \cup {Nothing}]
    BY <1>27, <1>78
  <2>8. Queues' \in [Parking -> Seq(AllFibers)] /\ Queues'[o] # <<>>
    BY <1>4, <1>22, <1>78
  <2> QED BY <2>1, <2>3, <2>4, <2>5, <2>6, <2>7, <2>8
<1>79. ASSUME NEW f \in AllFibers, NEW o \in Parking, NEW l \in Takers[o], Carried(f), Within(f, l),
              ~(f_pc[f] = "routine" /\ Doing(f, "add")), \A op \in Parking : f_pc[f] \notin Takers[op],
              f_pc' = [f_pc EXCEPT ![f] = l], UNCHANGED <<f_script, f_ready, f_on>>,
              Queues[o] # <<>>, Queues' = [Queues EXCEPT ![o] = Tail(@)],
              f_taken' = [f_taken EXCEPT ![f] = Head(Queues[o])]
       PROVE  /\ Moves /\ Others(f) /\ ~Drops(f) /\ f_pc'[f] = l /\ Takes(f, o)
              /\ Routines' /\ AtHead' /\ Suspended' /\ Scheduled' /\ AddedFirst'
              /\ f_taken' \in [AllFibers -> AllFibers \cup {Nothing}]
              /\ Queues' \in [Parking -> Seq(AllFibers)]
  <2>1. /\ Keeps /\ ~Drops(f) /\ f_pc'[f] = l
        /\ \A g \in AllFibers \ {f} : f_pc'[g] = f_pc[g] /\ ~Drops(g)
    BY <1>13, <1>22, <1>79
  <2>2. f_pc[f] # "suspended" /\ l \notin {"suspended", "deleted", "routine"}
    <3>1. l \in {"unlock schedule", "fire next", "fire last", "done next", "done flag", "done last"}
      BY <1>8
    <3> QED BY <1>12, <1>79, <3>1 DEF Scheduled
  <2>3. Takes(f, o)
    BY <1>79, <2>1, <2>2
  <2>4. Suspended'
    BY <1>25, <2>3
  <2>5. Scheduled'
    BY <1>17, <1>30, <1>79, <2>1, <2>2
  <2>6. Routines' /\ AddedFirst'
    BY <1>16, <1>18, <1>19, <1>79, <2>1
  <2>7. AtHead'
    BY <1>70, <1>79, <2>1
  <2>8. Head(Queues[o]) \in AllFibers /\ Tail(Queues[o]) \in Seq(AllFibers)
    BY <1>2, <1>22, <1>79
  <2>9. /\ f_taken' \in [AllFibers -> AllFibers \cup {Nothing}]
        /\ Queues' \in [Parking -> Seq(AllFibers)]
    BY <1>22, <1>79, <2>8
  <2> QED BY <2>1, <2>3, <2>4, <2>5, <2>6, <2>7, <2>9
<1>80. ASSUME NEW f \in AllFibers, NEW o \in Parking, f_pc[f] \in Takers[o]
       PROVE  /\ f_taken[f] \in AllFibers /\ f_taken[f] # f /\ f_pc[f_taken[f]] = "suspended"
              /\ Doing(f_taken[f], o) /\ Carried(f) /\ f_pc[f] \notin {"routine", "waited", "suspended", "deleted"}
  <2>1. f_pc[f] \in {"unlock schedule", "fire next", "fire last", "done next", "done flag", "done last"}
    BY <1>8, <1>80
  <2>2. f_taken[f] # Nothing
    BY <1>12, <1>80 DEF Suspended
  <2>3. PICK h \in AllFibers : h = f_taken[f]
    BY <1>22, <2>2
  <2>4. f_pc[h] = "suspended" /\ Doing(h, o)
    BY <1>12, <1>80, <2>3 DEF Suspended
  <2>5. Carried(f)
    BY <1>12, <2>1 DEF Scheduled
  <2> QED BY <2>1, <2>3, <2>4, <2>5
<1>81. ASSUME NEW f \in AllFibers, NEW o \in Parking, NEW h, h = f_taken[f], f_pc[f] \in Takers[o],
              Keeps, NEW a, NEW b \in {"routine", "waited"}, f_pc' = [f_pc EXCEPT ![f] = a, ![h] = b],
              a \notin {"suspended", "deleted"}, \A op \in Parking : a \notin Takers[op],
              a = "routine" \/ (~Drops(f) /\ Within(f, a)), b = "routine" \/ (~Drops(h) /\ o = "wait"),
              \A g \in AllFibers \ {f, h} : ~Drops(g),
              f_ready' = Append(f_ready, h), f_taken' = [f_taken EXCEPT ![f] = Nothing], f_on' = f_on,
              Queues' = Queues
       PROVE  /\ Gives(f, h) /\ f_pc'[f] = a /\ f_pc'[h] = b
              /\ Routines' /\ AtHead' /\ Suspended' /\ Scheduled' /\ AddedFirst'
              /\ f_taken' \in [AllFibers -> AllFibers \cup {Nothing}] /\ f_ready' \in Seq(AllFibers)
  <2>1. /\ h \in AllFibers /\ h # f /\ f_pc[h] = "suspended" /\ Doing(h, o)
        /\ Carried(f) /\ f_pc[f] \notin {"routine", "waited", "suspended", "deleted"}
    BY <1>80, <1>81
  <2>2. /\ f_pc'[f] = a /\ f_pc'[h] = b
        /\ \A g \in AllFibers \ {f, h} : f_pc'[g] = f_pc[g] /\ ~Drops(g)
    BY <1>22, <1>81, <2>1
  <2>3. ASSUME NEW op \in Parking
        PROVE  a \notin Takers[op] /\ b \notin Takers[op]
    BY <1>8, <1>81
  <2>4. Gives(f, h)
    BY <1>81, <2>1, <2>2, <2>3
  <2>5. Suspended'
    BY <1>26, <2>4
  <2>6. Scheduled'
    BY <1>17, <1>33, <1>81, <2>1, <2>2
  <2>7. Routines' /\ AddedFirst'
    BY <1>16, <1>18, <1>19, <1>81, <2>1
  <2>8. AtHead'
    <3>1. Within(h, "waited") <=> Doing(h, "wait")
      BY DEF LockSteps, UnlockSteps, AwaitSteps, FireSteps, DoneSteps, WaitSteps
    <3>2. \A g \in AllFibers : Within(g, f_pc[g])
      BY <1>12 DEF AtHead
    <3>3. f_pc'[h] \in Rests \/ (~Drops(h) /\ Within(h, f_pc'[h]))
      BY <1>81, <2>1, <2>2, <3>1
    <3>4. f_pc'[f] \in Rests \/ (~Drops(f) /\ Within(f, f_pc'[f]))
      BY <1>81, <2>2
    <3>5. ASSUME NEW g \in AllFibers \ {f, h}
          PROVE  ~Drops(g) /\ Within(g, f_pc'[g])
      BY <2>2, <3>2
    <3> HIDE DEF Within, Rests
    <3> QED BY <1>77, <1>81, <3>3, <3>4, <3>5
  <2>9. f_taken' \in [AllFibers -> AllFibers \cup {Nothing}] /\ f_ready' \in Seq(AllFibers)
    BY <1>22, <1>27, <1>81, <2>1
  <2> QED BY <2>2, <2>4, <2>5, <2>6, <2>7, <2>8, <2>9

(* The mutex.                                                                *)
<1>82. ASSUME NEW f \in AllFibers, Fiber!MutexStep(f),
              UNCHANGED <<Fiber!eventVars, Fiber!groupVars, f_deleted>>
       PROVE  FiberInv'
  <2> DEFINE L == LockSteps \cup UnlockSteps
             Sts == {"None", "LockedNoWaiter", "LockedWithWaiters"}
             Self == AllFibers \cup {Nothing}
  <2>1. NoEvent /\ NoGroup /\ f_guard' = f_guard /\ f_latch' = f_latch /\ f_deleted' = f_deleted
    BY <1>82 DEF Fiber!eventVars, Fiber!groupVars
  <2>2. ASSUME Only(L, {"lock", "unlock"})
        PROVE  FiredOnce' /\ Counted' /\ DoneOnce' /\ WaitsKept'
    <3>1. L \cap (AwaitSteps \cup FireSteps) = {} /\ L \cap (DoneSteps \cup WaitSteps) = {}
      BY DEF LockSteps, UnlockSteps, AwaitSteps, FireSteps, DoneSteps, WaitSteps
    <3>2. {"lock", "unlock"} \cap {"add", "done", "wait"} = {}
      OBVIOUS
    <3> HIDE DEF L
    <3> QED BY <1>68, <1>69, <2>1, <2>2, <3>1, <3>2
  <2>3. \A op \in Operations \ {"lock", "unlock"} : Doing(f, "lock") \/ Doing(f, "unlock") => ~Doing(f, op)
    BY DEF Doing
  <2>4. ASSUME NEW l \in L \ {"unlock schedule"}, Inner(f, l), f_pc[f] \in ({"routine"} \cup L) \ {"unlock schedule"},
               IF l \in LockSteps THEN Doing(f, "lock") ELSE Doing(f, "unlock"),
               f_st' \in Sts, f_st' = f_st \/ f_st' # "None", f_spin' \in Self
        PROVE  FiberInv'
    <3>1. l \notin {"routine", "suspended", "deleted"} /\ Within(f, l) /\ l \in Labels
      BY <2>4 DEF LockSteps, UnlockSteps, AwaitSteps, FireSteps, DoneSteps, WaitSteps, Labels
    <3>2. ASSUME NEW op \in Parking
          PROVE  f_pc[f] \notin Takers[op] /\ l \notin Takers[op]
      BY <1>8, <2>4 DEF LockSteps, UnlockSteps
    <3>3. ~Doing(f, "add")
      BY <2>4 DEF Doing
    <3>4. /\ Moves /\ Others(f) /\ ~Drops(f) /\ f_pc'[f] = l
          /\ Routines' /\ AtHead' /\ Suspended' /\ Scheduled' /\ AddedFirst'
      BY <1>72, <2>4, <3>1, <3>2, <3>3
    <3>5. Only(L, {"lock", "unlock"})
      BY <2>3, <2>4, <3>4
    <3>6. OneOwner'
      BY <1>37, <2>4, <3>4
    <3>7. FiberTypes'
      BY <1>12, <2>1, <2>4, <3>1, <3>4 DEF FiberTypes, Queues
    <3> QED BY <1>74, <2>2, <3>4, <3>5, <3>6, <3>7
  <2>5. ASSUME Ends(f), f_pc[f] \in {"routine", "lock again"}, f_st' \in Sts, f_spin' = f_spin,
               (Doing(f, "lock") /\ f_st = "None" /\ f_st' # "None") \/ Doing(f, "unlock")
        PROVE  FiberInv'
    <3>1. Head(f_script[f]) \in Operations /\ ~Doing(f, "add")
      BY <1>1, <2>5 DEF Doing
    <3>2. ASSUME NEW op \in Parking
          PROVE  f_pc[f] \notin Takers[op]
      BY <1>8, <2>5
    <3>3. /\ Moves /\ Others(f) /\ Drops(f) /\ f_pc'[f] = "routine"
          /\ Routines' /\ AtHead' /\ Suspended' /\ Scheduled' /\ AddedFirst'
      BY <1>73, <2>5, <3>1, <3>2
    <3>4. Only(L, {"lock", "unlock"})
      BY <2>3, <2>5, <3>3 DEF LockSteps
    <3>5. OneOwner'
      BY <1>39, <2>5, <3>3
    <3>6. FiberTypes'
      <4>1. "routine" \in Labels
        BY DEF Labels
      <4> QED BY <1>12, <2>1, <2>5, <3>3, <4>1 DEF FiberTypes, Queues, Ops
    <3> QED BY <1>74, <2>2, <3>3, <3>4, <3>5, <3>6
  <2>6. CASE Fiber!LockTry(f)
    <3>1. /\ Carried(f) /\ f_pc[f] \in {"routine", "lock again"} /\ Doing(f, "lock")
          /\ UNCHANGED <<f_ready, f_on, f_taken, f_parked, f_spin>> /\ Apart
      BY <1>12, <1>75, <2>1, <2>6 DEF Fiber!LockTry, AtHead, LockSteps
    <3>2. CASE f_st = "None"
      <4>1. Ends(f) /\ f_st' = "LockedNoWaiter"
        BY <1>75, <2>6, <3>1, <3>2 DEF Fiber!LockTry, Doing
      <4> QED BY <2>5, <3>1, <3>2, <4>1
    <3>3. CASE f_st # "None"
      <4>1. Inner(f, "lock mtx") /\ f_st' = f_st
        BY <1>75, <2>6, <3>1, <3>3 DEF Fiber!LockTry
      <4> QED BY <1>12, <2>4, <3>1, <3>3, <4>1 DEF FiberTypes, LockSteps, UnlockSteps
    <3> QED BY <3>2, <3>3
  <2>7. CASE Fiber!LockMtx(f)
    <3>1. /\ f_pc[f] = "lock mtx" /\ Doing(f, "lock") /\ Inner(f, "lock mark")
          /\ f_st' = f_st /\ f_spin' = f
      BY <1>12, <1>75, <2>1, <2>7 DEF Fiber!LockMtx, AtHead, LockSteps
    <3> QED BY <1>12, <2>4, <3>1 DEF FiberTypes, LockSteps, UnlockSteps
  <2>8. CASE Fiber!LockMark(f)
    <3>1. f_pc[f] = "lock mark" /\ Doing(f, "lock")
      BY <1>12, <1>75, <2>8 DEF Fiber!LockMark, AtHead, LockSteps
    <3>2. CASE f_st = "None"
      <4>1. Inner(f, "lock again") /\ f_st' = f_st /\ f_spin' = Nothing
        BY <1>75, <2>1, <2>8, <3>2 DEF Fiber!LockMark
      <4> QED BY <1>12, <2>4, <3>1, <4>1 DEF FiberTypes, LockSteps, UnlockSteps
    <3>3. CASE f_st # "None"
      <4>1. Inner(f, "lock put") /\ f_st' = "LockedWithWaiters" /\ f_spin' = f_spin
        BY <1>75, <2>1, <2>8, <3>3 DEF Fiber!LockMark
      <4> QED BY <1>12, <2>4, <3>1, <4>1 DEF FiberTypes, LockSteps, UnlockSteps
    <3> QED BY <3>2, <3>3
  <2>9. CASE Fiber!UnlockTry(f)
    <3>1. /\ Carried(f) /\ f_pc[f] = "routine" /\ Doing(f, "unlock")
          /\ UNCHANGED <<f_ready, f_on, f_taken, f_parked, f_spin>> /\ Apart
      BY <1>75, <2>1, <2>9 DEF Fiber!UnlockTry
    <3>2. CASE f_st = "LockedNoWaiter"
      <4>1. Ends(f) /\ f_st' = "None"
        BY <1>75, <2>9, <3>1, <3>2 DEF Fiber!UnlockTry, Doing
      <4> QED BY <2>5, <3>1, <4>1
    <3>3. CASE f_st # "LockedNoWaiter"
      <4>1. Inner(f, "unlock mtx") /\ f_st' = f_st
        BY <1>75, <2>9, <3>1, <3>3 DEF Fiber!UnlockTry
      <4> QED BY <1>12, <2>4, <3>1, <4>1 DEF FiberTypes, LockSteps, UnlockSteps
    <3> QED BY <3>2, <3>3
  <2>10. CASE Fiber!UnlockMtx(f)
    <3>1. /\ f_pc[f] = "unlock mtx" /\ Doing(f, "unlock") /\ Inner(f, "unlock take")
          /\ f_st' = f_st /\ f_spin' = f
      BY <1>12, <1>75, <2>1, <2>10 DEF Fiber!UnlockMtx, AtHead, UnlockSteps
    <3> QED BY <1>12, <2>4, <3>1 DEF FiberTypes, LockSteps, UnlockSteps
  <2>11. CASE Fiber!LockPut(f)
    <3>1. /\ Carried(f) /\ f_pc[f] = "lock put" /\ Doing(f, "lock")
          /\ f_pc' = [f_pc EXCEPT ![f] = "suspended"] /\ UNCHANGED <<f_script, f_ready, f_taken>> /\ Left(f)
          /\ f_parked' = Append(f_parked, f) /\ f_st' = f_st /\ f_spin' = Nothing
      BY <1>12, <1>75, <2>11 DEF Fiber!LockPut, AtHead, LockSteps
    <3>2. Queues' = [Queues EXCEPT !["lock"] = Append(@, f)]
      BY <2>1, <3>1 DEF Queues, Parking
    <3>3. \A op \in Parking : f_pc[f] \notin Takers[op]
      BY <1>8, <3>1
    <3>4. /\ Moves /\ Others(f) /\ ~Drops(f) /\ f_pc'[f] = "suspended"
          /\ Routines' /\ AtHead' /\ Suspended' /\ Scheduled' /\ AddedFirst'
          /\ f_on' \in [Carriers -> AllFibers \cup {Nothing}]
          /\ Queues' \in [Parking -> Seq(AllFibers)]
      BY <1>7, <1>78, <3>1, <3>2, <3>3
    <3>5. Only(L, {"lock", "unlock"})
      BY <2>3, <3>1, <3>4 DEF LockSteps
    <3>6. OneOwner'
      BY <1>37, <3>1, <3>4
    <3>7. FiberTypes'
      <4>1. "suspended" \in Labels
        BY DEF Labels
      <4> QED BY <1>12, <2>1, <3>1, <3>4, <4>1 DEF FiberTypes
    <3> QED BY <1>74, <2>2, <3>4, <3>5, <3>6, <3>7
  <2>12. CASE Fiber!UnlockTake(f)
    <3>1. /\ Carried(f) /\ f_pc[f] = "unlock take" /\ Doing(f, "unlock")
          /\ f_pc' = [f_pc EXCEPT ![f] = "unlock schedule"] /\ UNCHANGED <<f_script, f_ready, f_on>>
          /\ f_parked # <<>> /\ f_parked' = Tail(f_parked)
          /\ f_taken' = [f_taken EXCEPT ![f] = Head(f_parked)]
          /\ f_st' \in Sts \ {"None"} /\ f_spin' = Nothing
      BY <1>12, <1>75, <2>12 DEF Fiber!UnlockTake, AtHead, UnlockSteps
    <3>2. /\ Queues["lock"] = f_parked
          /\ Queues' = [Queues EXCEPT !["lock"] = Tail(@)]
      BY <2>1, <3>1 DEF Queues, Parking
    <3>3. \A op \in Parking : f_pc[f] \notin Takers[op]
      BY <1>8, <3>1
    <3>4. Within(f, "unlock schedule") /\ "unlock schedule" \in Labels
      BY <3>1 DEF LockSteps, UnlockSteps, AwaitSteps, FireSteps, DoneSteps, WaitSteps, Labels
    <3>5. /\ Moves /\ Others(f) /\ ~Drops(f) /\ f_pc'[f] = "unlock schedule" /\ Takes(f, "lock")
          /\ Routines' /\ AtHead' /\ Suspended' /\ Scheduled' /\ AddedFirst'
          /\ f_taken' \in [AllFibers -> AllFibers \cup {Nothing}]
          /\ Queues' \in [Parking -> Seq(AllFibers)]
      BY <1>7, <1>79, <3>1, <3>2, <3>3, <3>4
    <3>6. Only(L, {"lock", "unlock"})
      BY <2>3, <3>1, <3>5 DEF UnlockSteps
    <3>7. OneOwner'
      BY <1>40, <3>1, <3>5
    <3>8. FiberTypes'
      BY <1>12, <2>1, <3>1, <3>4, <3>5 DEF FiberTypes
    <3> QED BY <1>74, <2>2, <3>5, <3>6, <3>7, <3>8
  <2>13. CASE Fiber!UnlockSchedule(f)
    <3>1. PICK h : h = f_taken[f]
      OBVIOUS
    <3>2. f_pc[f] = "unlock schedule" /\ f_pc[f] \in Takers["lock"] /\ Doing(f, "unlock")
      BY <1>12, <1>7, <1>75, <2>13 DEF Fiber!UnlockSchedule, AtHead, UnlockSteps
    <3>3. /\ h \in AllFibers /\ h # f /\ f_pc[h] = "suspended" /\ Doing(h, "lock")
      BY <1>7, <1>80, <3>1, <3>2
    <3>4. /\ f_pc' = [f_pc EXCEPT ![f] = "routine", ![h] = "routine"]
          /\ f_script' = [f_script EXCEPT ![f] = Tail(@), ![h] = Tail(@)]
          /\ f_taken' = [f_taken EXCEPT ![f] = Nothing] /\ f_ready' = Append(f_ready, h)
          /\ UNCHANGED <<f_on, f_st, f_parked, f_spin>> /\ Queues' = Queues
      BY <2>1, <2>13, <3>1 DEF Fiber!UnlockSchedule, Fiber!Submit, Queues
    <3>5. /\ \A g \in {f, h} : f_script[g] # <<>> /\ f_script[g] \in Seq(Ops) /\ f_script'[g] = Tail(f_script[g])
          /\ \A g \in AllFibers \ {f, h} : f_script'[g] = f_script[g]
      BY <1>13, <3>2, <3>3, <3>4 DEF Doing
    <3>6. /\ Drops(f) /\ Drops(h) /\ f_script' \in [AllFibers -> Seq(Ops)]
          /\ \A g \in AllFibers \ {f, h} : ~Drops(g)
      BY <1>13, <1>76, <3>4, <3>5
    <3>7. Keeps
      BY <1>1, <3>2, <3>3, <3>5, <3>6 DEF Doing
    <3>8. /\ Gives(f, h) /\ f_pc'[f] = "routine" /\ f_pc'[h] = "routine"
          /\ Routines' /\ AtHead' /\ Suspended' /\ Scheduled' /\ AddedFirst'
          /\ f_taken' \in [AllFibers -> AllFibers \cup {Nothing}] /\ f_ready' \in Seq(AllFibers)
      <4>1. \A op \in Parking : "routine" \notin Takers[op]
        BY <1>10
      <4> HIDE DEF Keeps, Drops, Within, Gives
      <4>2. "lock" \in Parking /\ "routine" \in {"routine", "waited"}
        BY <1>7
      <4>3. "routine" \notin {"suspended", "deleted"} /\ f_on' = f_on
        BY <3>4
      <4> QED BY <1>81, <3>1, <3>2, <3>4, <3>6, <3>7, <4>1, <4>2, <4>3, ZenonT(60)
    <3>9. Only(L, {"lock", "unlock"})
      <4>1. \A op \in Operations \ {"lock", "unlock"} : ~Doing(f, op) /\ ~Doing(h, op)
        BY <3>2, <3>3 DEF Doing
      <4> QED BY <3>2, <3>3, <3>7, <3>8, <4>1 DEF UnlockSteps
    <3>10. OneOwner'
      BY <1>41, <3>2, <3>4, <3>6, <3>7, <3>8
    <3>11. FiberTypes'
      <4>1. "routine" \in Labels
        BY DEF Labels
      <4> QED BY <1>12, <2>1, <3>4, <3>6, <3>8, <4>1 DEF FiberTypes, Ops
    <3> QED BY <1>74, <2>2, <3>8, <3>9, <3>10, <3>11
  <2> QED
    BY <1>82, <2>6, <2>7, <2>8, <2>9, <2>10, <2>11, <2>12, <2>13 DEF Fiber!MutexStep
<1>83. ASSUME NEW f \in AllFibers, NEW l \in {"routine", "waited"}, Carried(f), Keeps,
              \A g \in AllFibers \ {f} : ~Drops(g), l = "routine" \/ (~Drops(f) /\ Doing(f, "wait")),
              ~(f_pc[f] = "routine" /\ Doing(f, "add")), \A op \in Parking : f_pc[f] \notin Takers[op],
              f_pc' = [f_pc EXCEPT ![f] = l], f_ready' = Append(f_ready, f), Left(f), f_taken' = f_taken,
              Queues' = Queues
       PROVE  /\ Others(f) /\ f_pc'[f] = l
              /\ Routines' /\ AtHead' /\ Suspended' /\ Scheduled' /\ AddedFirst'
              /\ f_on' \in [Carriers -> AllFibers \cup {Nothing}] /\ f_ready' \in Seq(AllFibers)
  <2>1. /\ f_pc'[f] = l /\ \A g \in AllFibers \ {f} : f_pc'[g] = f_pc[g] /\ ~Drops(g)
    BY <1>22, <1>83
  <2>2. f_pc[f] \notin {"suspended", "deleted"} /\ l \notin {"suspended", "deleted"}
    BY <1>12, <1>83 DEF Scheduled
  <2>3. \A op \in Parking : l \notin Takers[op]
    BY <1>8, <1>83
  <2>4. Suspended'
    BY <1>23, <1>83, <2>1, <2>2, <2>3
  <2>5. Scheduled'
    BY <1>17, <1>32, <1>83, <2>1
  <2>6. Routines' /\ AddedFirst'
    BY <1>16, <1>18, <1>19, <1>83
  <2>7. AtHead'
    <3>1. /\ Within(f, "waited") <=> Doing(f, "wait")
          /\ Within(f, "routine")
      BY DEF LockSteps, UnlockSteps, AwaitSteps, FireSteps, DoneSteps, WaitSteps
    <3> QED BY <1>70, <1>83, <2>1, <3>1
  <2>8. f_on' \in [Carriers -> AllFibers \cup {Nothing}] /\ f_ready' \in Seq(AllFibers)
    BY <1>4, <1>27, <1>83
  <2> QED BY <2>1, <2>4, <2>5, <2>6, <2>7, <2>8

(* The event.                                                                *)
<1>84. ASSUME NEW f \in AllFibers, Fiber!EventStep(f),
              UNCHANGED <<Fiber!mutexVars, Fiber!groupVars, f_deleted>>
       PROVE  FiberInv'
  <2> DEFINE L == AwaitSteps \cup FireSteps
             Self == AllFibers \cup {Nothing}
  <2>1. /\ f_st' = f_st /\ f_parked' = f_parked /\ f_spin' = f_spin
        /\ NoGroup /\ f_latch' = f_latch /\ f_deleted' = f_deleted
    BY <1>84 DEF Fiber!mutexVars, Fiber!groupVars
  <2>2. ASSUME Only(L, {"await", "fire"}), \A g \in AllFibers : f_pc[g] = "unlock schedule" => f_taken'[g] = f_taken[g]
        PROVE  OneOwner' /\ Counted' /\ DoneOnce' /\ WaitsKept'
    <3>1. L \cap UnlockSteps = {} /\ L \cap (DoneSteps \cup WaitSteps) = {}
      BY DEF LockSteps, UnlockSteps, AwaitSteps, FireSteps, DoneSteps, WaitSteps
    <3>2. {"await", "fire"} \cap {"lock", "unlock"} = {} /\ {"await", "fire"} \cap {"add", "done", "wait"} = {}
      OBVIOUS
    <3> HIDE DEF L
    <3> QED BY <1>67, <1>69, <2>1, <2>2, <3>1, <3>2
  <2>3. ASSUME NEW g \in AllFibers, Doing(g, "await") \/ Doing(g, "fire")
        PROVE  \A op \in Operations \ {"await", "fire"} : ~Doing(g, op)
    BY <2>3 DEF Doing
  <2>4. ASSUME NEW l \in L \ {"fire next", "fire last"}, Inner(f, l), f_pc[f] \in {"routine"} \cup L,
               f_pc[f] \notin {"fire next", "fire last"},
               IF l \in AwaitSteps THEN Doing(f, "await") ELSE Doing(f, "fire"),
               FiredOnce', f_fired' \in BOOLEAN, f_guard' \in Self
        PROVE  FiberInv'
    <3>1. l \notin {"routine", "suspended", "deleted"} /\ Within(f, l) /\ l \in Labels
      BY <2>4 DEF LockSteps, UnlockSteps, AwaitSteps, FireSteps, DoneSteps, WaitSteps, Labels
    <3>2. ASSUME NEW op \in Parking
          PROVE  f_pc[f] \notin Takers[op] /\ l \notin Takers[op]
      BY <1>8, <2>4 DEF AwaitSteps, FireSteps
    <3>3. ~Doing(f, "add")
      BY <2>4 DEF Doing
    <3>4. /\ Moves /\ Others(f) /\ ~Drops(f) /\ f_pc'[f] = l
          /\ Routines' /\ AtHead' /\ Suspended' /\ Scheduled' /\ AddedFirst'
      BY <1>72, <2>4, <3>1, <3>2, <3>3
    <3>5. Only(L, {"await", "fire"})
      BY <2>3, <2>4, <3>4
    <3>6. FiberTypes'
      BY <1>12, <2>1, <2>4, <3>1, <3>4 DEF FiberTypes, Queues
    <3> QED BY <1>74, <2>2, <2>4, <3>4, <3>5, <3>6
  <2>5. CASE Fiber!AwaitLock(f)
    <3>1. /\ Carried(f) /\ f_pc[f] = "routine" /\ Doing(f, "await") /\ Inner(f, "await look")
          /\ f_fired' = f_fired /\ f_waiting' = f_waiting /\ f_guard' = f
      BY <1>75, <2>1, <2>5 DEF Fiber!AwaitLock
    <3>2. Elsewhere
      BY <1>13, <1>22, <3>1
    <3> QED BY <1>12, <1>42, <2>4, <3>1, <3>2 DEF FiberTypes, AwaitSteps, FireSteps
  <2>6. CASE Fiber!AwaitLook(f)
    <3>1. /\ Carried(f) /\ f_pc[f] = "await look" /\ Doing(f, "await")
          /\ UNCHANGED <<f_ready, f_script, f_taken, f_fired>> /\ f_guard' = Nothing
      BY <1>12, <1>75, <2>6 DEF Fiber!AwaitLook, AtHead, AwaitSteps
    <3>2. CASE f_fired
      <4>1. Inner(f, "await schedule")
        BY <1>75, <2>1, <2>6, <3>1, <3>2 DEF Fiber!AwaitLook
      <4>2. Elsewhere
        BY <1>13, <1>22, <3>1, <3>2, <4>1
      <4> QED BY <1>12, <1>42, <2>4, <3>1, <4>1, <4>2 DEF FiberTypes, AwaitSteps, FireSteps
    <3>3. CASE ~f_fired
      <4>1. /\ f_pc' = [f_pc EXCEPT ![f] = "suspended"] /\ Left(f) /\ f_waiting' = Append(f_waiting, f)
            /\ Queues' = [Queues EXCEPT !["await"] = Append(@, f)]
        BY <1>75, <2>1, <2>6, <3>1, <3>3 DEF Fiber!AwaitLook, Queues, Parking
      <4>2. \A op \in Parking : f_pc[f] \notin Takers[op]
        BY <1>8, <3>1
      <4>3. /\ Moves /\ Others(f) /\ ~Drops(f) /\ f_pc'[f] = "suspended"
            /\ Routines' /\ AtHead' /\ Suspended' /\ Scheduled' /\ AddedFirst'
            /\ f_on' \in [Carriers -> AllFibers \cup {Nothing}]
            /\ Queues' \in [Parking -> Seq(AllFibers)] /\ Queues'["await"] # <<>>
        BY <1>7, <1>78, <3>1, <4>1, <4>2
      <4>4. Only(L, {"await", "fire"})
        BY <2>3, <3>1, <4>3 DEF AwaitSteps
      <4>5. FiredOnce'
        <5>1. f_waiting' # <<>>
          BY <4>3 DEF Queues, Parking
        <5> QED BY <1>42, <3>1, <4>3, <5>1
      <4>6. FiberTypes'
        <5>1. "suspended" \in Labels
          BY DEF Labels
        <5> QED BY <1>12, <2>1, <3>1, <4>1, <4>3, <5>1 DEF FiberTypes
      <4> QED BY <1>74, <2>2, <3>1, <4>3, <4>4, <4>5, <4>6
    <3> QED BY <3>2, <3>3
  <2>7. CASE Fiber!AwaitSchedule(f)
    <3>1. /\ Carried(f) /\ f_pc[f] = "await schedule" /\ Doing(f, "await") /\ Tailed(f)
          /\ f_pc' = [f_pc EXCEPT ![f] = "routine"] /\ f_ready' = Append(f_ready, f) /\ Left(f)
          /\ f_taken' = f_taken /\ UNCHANGED <<f_fired, f_waiting, f_guard>> /\ Queues' = Queues
      <4>1. f_pc[f] = "await schedule" /\ Doing(f, "await") /\ Carried(f) /\ f_script[f] # <<>>
        BY <1>12, <1>75, <2>7 DEF Fiber!AwaitSchedule, AtHead, AwaitSteps, Doing
      <4> QED BY <1>75, <2>1, <2>7, <4>1
              DEF Fiber!AwaitSchedule, Fiber!Reschedule, Fiber!Submit, Fiber!eventVars, Queues
    <3>2. \A op \in Parking : f_pc[f] \notin Takers[op]
      BY <1>8, <3>1
    <3>3. Moves /\ Drops(f) /\ (\A g \in AllFibers \ {f} : ~Drops(g)) /\ Keeps
      BY <1>1, <1>71, <3>1 DEF Doing
    <3>4. /\ Others(f) /\ f_pc'[f] = "routine"
          /\ Routines' /\ AtHead' /\ Suspended' /\ Scheduled' /\ AddedFirst'
          /\ f_on' \in [Carriers -> AllFibers \cup {Nothing}] /\ f_ready' \in Seq(AllFibers)
      BY <1>83, <3>1, <3>2, <3>3
    <3>5. Only(L, {"await", "fire"})
      BY <2>3, <3>1, <3>3, <3>4 DEF AwaitSteps
    <3>6. FiredOnce'
      BY <1>42, <3>1, <3>3, <3>4
    <3>7. FiberTypes'
      <4>1. "routine" \in Labels
        BY DEF Labels
      <4> QED BY <1>12, <2>1, <3>1, <3>3, <3>4, <4>1 DEF FiberTypes, Ops
    <3> QED BY <1>74, <2>2, <3>1, <3>4, <3>5, <3>6, <3>7
  <2>8. CASE Fiber!FireLock(f)
    <3>1. /\ Carried(f) /\ f_pc[f] = "routine" /\ Doing(f, "fire") /\ Inner(f, "fire set")
          /\ f_fired' = f_fired /\ f_waiting' = f_waiting /\ f_guard' = f
      BY <1>75, <2>1, <2>8 DEF Fiber!FireLock
    <3>2. Elsewhere
      BY <1>13, <1>22, <3>1
    <3> QED BY <1>12, <1>42, <2>4, <3>1, <3>2 DEF FiberTypes, AwaitSteps, FireSteps
  <2>9. ASSUME f_pc[f] \in FireSteps, Moves, f_fired',
               \A g \in AllFibers \ {f} : f_pc'[g] \in FireSteps => f_pc[g] \in FireSteps,
               \/ f_pc'[f] \in {"fire take", "fire next"} /\ f_waiting' # <<>>
               \/ f_pc'[f] = "fire last"
               \/ f_pc'[f] = "routine" /\ Drops(f)
        PROVE  FiredOnce'
    <3>1. /\ Doing(f, "fire") /\ NoRepeat(f_script[f], "fire")
          /\ \A g \in AllFibers \ {f} : ~HasOp(g, "fire") /\ f_pc[g] \notin FireSteps
      BY <1>12, <1>43, <2>9 DEF Routines, WellFormed
    <3>2. f_pc'[f] = "routine" => ~HasOp(f, "fire")'
      BY <1>14, <2>9, <3>1
    <3>3. \A g \in AllFibers \ {f} : ~HasOp(g, "fire")' /\ f_pc'[g] \notin FireSteps
      BY <1>14, <2>9, <3>1
    <3> QED BY <2>9, <3>2, <3>3 DEF FiredOnce, FireSteps
  <2>10. CASE Fiber!FireSet(f)
    <3>1. /\ Carried(f) /\ f_pc[f] = "fire set" /\ Doing(f, "fire")
          /\ Apart /\ f_fired' /\ f_fired' \in BOOLEAN /\ f_guard' = Nothing
      BY <1>12, <1>75, <2>1, <2>10 DEF Fiber!FireSet, AtHead, FireSteps
    <3>2. f_pc[f] \in FireSteps /\ \A op \in Parking : f_pc[f] \notin Takers[op]
      BY <1>8, <3>1 DEF FireSteps
    <3>3. CASE f_waiting = <<>>
      <4>1. Ends(f) /\ Head(f_script[f]) \in Operations
        BY <1>1, <1>75, <2>10, <3>1, <3>3 DEF Fiber!FireSet, Doing
      <4>2. /\ Moves /\ Others(f) /\ Drops(f) /\ f_pc'[f] = "routine"
            /\ Routines' /\ AtHead' /\ Suspended' /\ Scheduled' /\ AddedFirst'
        BY <1>73, <3>1, <3>2, <4>1
      <4>3. Only(L, {"await", "fire"})
        BY <2>3, <3>1, <3>2, <4>2
      <4>4. FiredOnce'
        BY <2>9, <3>1, <3>2, <4>2
      <4>5. FiberTypes'
        <5>1. "routine" \in Labels
          BY DEF Labels
        <5> QED BY <1>12, <2>1, <3>1, <4>1, <4>2, <5>1 DEF FiberTypes, Queues, Ops
      <4> QED BY <1>74, <2>2, <3>1, <4>2, <4>3, <4>4, <4>5
    <3>4. CASE f_waiting # <<>>
      <4>1. Inner(f, "fire take")
        BY <1>75, <2>10, <3>1, <3>4 DEF Fiber!FireSet
      <4>2. Moves /\ Others(f) /\ f_pc'[f] = "fire take"
        BY <1>13, <1>22, <4>1
      <4>3. FiredOnce'
        BY <2>9, <3>1, <3>2, <3>4, <4>2
      <4> QED BY <2>4, <3>1, <4>1, <4>3 DEF AwaitSteps, FireSteps
    <3> QED BY <3>3, <3>4
  <2>11. CASE Fiber!FireTake(f)
    <3>1. PICK l : l = IF Tail(f_waiting) = <<>> THEN "fire last" ELSE "fire next"
      OBVIOUS
    <3>2. /\ Carried(f) /\ f_pc[f] = "fire take" /\ Doing(f, "fire") /\ f_waiting # <<>> /\ f_fired
          /\ f_pc' = [f_pc EXCEPT ![f] = l] /\ UNCHANGED <<f_script, f_ready, f_on, f_fired, f_guard>>
          /\ f_waiting' = Tail(f_waiting) /\ f_taken' = [f_taken EXCEPT ![f] = Head(f_waiting)]
      BY <1>12, <1>75, <2>11, <3>1 DEF Fiber!FireTake, AtHead, FireSteps, FiredOnce
    <3>3. /\ Queues["await"] = f_waiting
          /\ Queues' = [Queues EXCEPT !["await"] = Tail(@)]
      BY <2>1, <3>2 DEF Queues, Parking
    <3>4. (\A op \in Parking : f_pc[f] \notin Takers[op]) /\ ~(f_pc[f] = "routine" /\ Doing(f, "add"))
      BY <1>8, <3>2
    <3>5. l \in Takers["await"] /\ l \in FireSteps /\ l \in Labels /\ Within(f, l)
      BY <1>7, <3>1, <3>2 DEF LockSteps, UnlockSteps, AwaitSteps, FireSteps, DoneSteps, WaitSteps, Labels
    <3>6. /\ Moves /\ Others(f) /\ ~Drops(f) /\ f_pc'[f] = l
          /\ Routines' /\ AtHead' /\ Suspended' /\ Scheduled' /\ AddedFirst'
          /\ f_taken' \in [AllFibers -> AllFibers \cup {Nothing}]
          /\ Queues' \in [Parking -> Seq(AllFibers)]
      BY <1>7, <1>79, <3>2, <3>3, <3>4, <3>5
    <3>7. Only(L, {"await", "fire"})
      BY <2>3, <3>2, <3>5, <3>6 DEF FireSteps
    <3>8. FiredOnce'
      BY <2>9, <3>1, <3>2, <3>6 DEF FireSteps
    <3>9. \A g \in AllFibers : f_pc[g] = "unlock schedule" => f_taken'[g] = f_taken[g]
      BY <1>22, <3>2
    <3>10. FiberTypes'
      BY <1>12, <2>1, <3>2, <3>5, <3>6 DEF FiberTypes
    <3> QED BY <1>74, <2>2, <3>6, <3>7, <3>8, <3>9, <3>10
  <2>12. CASE Fiber!FireSchedule(f)
    <3>1. PICK h : h = f_taken[f]
      OBVIOUS
    <3>2. PICK a : a = IF f_pc[f] = "fire last" THEN "routine" ELSE "fire take"
      OBVIOUS
    <3>3. f_pc[f] \in {"fire next", "fire last"} /\ f_pc[f] \in Takers["await"] /\ f_pc[f] \in FireSteps
      BY <1>7, <1>75, <2>12 DEF Fiber!FireSchedule, FireSteps
    <3>4. f_fired /\ Doing(f, "fire") /\ (f_pc[f] = "fire next" => f_waiting # <<>>)
      BY <1>12, <3>3 DEF AtHead, FiredOnce
    <3>5. /\ h \in AllFibers /\ h # f /\ f_pc[h] = "suspended" /\ Doing(h, "await")
      BY <1>7, <1>80, <3>1, <3>3
    <3>6. /\ f_pc' = [f_pc EXCEPT ![h] = "routine", ![f] = a]
          /\ f_script' = [f_script EXCEPT ![h] = Tail(@), ![f] = IF f_pc[f] = "fire last" THEN Tail(@) ELSE @]
          /\ f_taken' = [f_taken EXCEPT ![f] = Nothing] /\ f_ready' = Append(f_ready, h)
          /\ UNCHANGED <<f_on, f_fired, f_waiting, f_guard>> /\ Queues' = Queues
      BY <2>1, <2>12, <3>1, <3>2 DEF Fiber!FireSchedule, Fiber!Submit, Fiber!eventVars, Queues
    <3>7. /\ \A g \in {f, h} : f_script[g] # <<>> /\ f_script[g] \in Seq(Ops)
          /\ f_script'[h] = Tail(f_script[h])
          /\ f_script'[f] = IF f_pc[f] = "fire last" THEN Tail(f_script[f]) ELSE f_script[f]
          /\ \A g \in AllFibers \ {f, h} : f_script'[g] = f_script[g]
      BY <1>13, <3>4, <3>5, <3>6 DEF Doing
    <3>8. /\ Drops(h) /\ (Drops(f) <=> a = "routine") /\ f_script' \in [AllFibers -> Seq(Ops)]
          /\ \A g \in AllFibers \ {f, h} : ~Drops(g)
      BY <1>13, <1>76, <3>2, <3>6, <3>7
    <3>9. Keeps
      BY <1>1, <3>2, <3>4, <3>5, <3>7, <3>8 DEF Doing
    <3>10. f_pc' = [f_pc EXCEPT ![f] = a, ![h] = "routine"]
      BY <1>22, <3>5, <3>6
    <3>11. /\ Gives(f, h) /\ f_pc'[f] = a /\ f_pc'[h] = "routine"
           /\ Routines' /\ AtHead' /\ Suspended' /\ Scheduled' /\ AddedFirst'
           /\ f_taken' \in [AllFibers -> AllFibers \cup {Nothing}] /\ f_ready' \in Seq(AllFibers)
      <4>1. \A op \in Parking : a \notin Takers[op]
        <5>1. "fire take" \notin {"unlock schedule", "fire next", "fire last", "done next", "done flag", "done last"}
          OBVIOUS
        <5> QED BY <1>8, <1>10, <3>2, <5>1
      <4>2. "await" \in Parking /\ "routine" \in {"routine", "waited"} /\ a \notin {"suspended", "deleted"}
        BY <1>7, <3>2
      <4>3. a = "routine" \/ (~Drops(f) /\ Within(f, a))
        BY <3>2, <3>4, <3>8 DEF LockSteps, UnlockSteps, AwaitSteps, FireSteps, DoneSteps, WaitSteps
      <4>4. f_on' = f_on
        BY <3>6
      <4> HIDE DEF Keeps, Drops, Within, Gives
      <4> QED BY <1>81, <3>1, <3>3, <3>6, <3>8, <3>9, <3>10, <4>1, <4>2, <4>3, <4>4, ZenonT(60)
    <3>12. Only(L, {"await", "fire"})
      <4>1. \A op \in Operations \ {"await", "fire"} : ~Doing(f, op) /\ ~Doing(h, op)
        BY <3>4, <3>5 DEF Doing
      <4> QED BY <3>2, <3>3, <3>5, <3>8, <3>9, <3>11, <4>1 DEF FireSteps
    <3>13. FiredOnce'
      <4>1. \A g \in AllFibers \ {f} : f_pc'[g] \in FireSteps => f_pc[g] \in FireSteps
        BY <3>11 DEF FireSteps
      <4> QED BY <2>9, <3>2, <3>3, <3>4, <3>6, <3>8, <3>9, <3>11, <4>1
    <3>14. \A g \in AllFibers : f_pc[g] = "unlock schedule" => f_taken'[g] = f_taken[g]
      BY <1>22, <3>3, <3>6
    <3>15. FiberTypes'
      <4>1. "routine" \in Labels /\ a \in Labels
        BY <3>2 DEF Labels, FireSteps
      <4> QED BY <1>12, <2>1, <3>6, <3>8, <3>11, <4>1 DEF FiberTypes, Ops
    <3> QED BY <1>74, <2>2, <3>11, <3>12, <3>13, <3>14, <3>15
  <2> QED
    BY <1>84, <2>5, <2>6, <2>7, <2>8, <2>10, <2>11, <2>12 DEF Fiber!EventStep

(* The wait group.                                                           *)
<1>85. ASSUME NEW f \in AllFibers, Fiber!GroupStep(f),
              UNCHANGED <<Fiber!mutexVars, Fiber!eventVars, f_deleted>>
       PROVE  FiberInv'
  <2> DEFINE L == DoneSteps \cup WaitSteps
             O == {"add", "done", "wait"}
             Self == AllFibers \cup {Nothing}
             Taking == {"unlock schedule", "fire next", "fire last", "done next", "done flag", "done last"}
  <2>1. /\ f_st' = f_st /\ f_parked' = f_parked /\ f_spin' = f_spin
        /\ NoEvent /\ f_guard' = f_guard /\ f_deleted' = f_deleted
    BY <1>85 DEF Fiber!mutexVars, Fiber!eventVars
  <2>2. ASSUME Only(L, O), \A g \in AllFibers : f_pc[g] = "unlock schedule" => f_taken'[g] = f_taken[g]
        PROVE  OneOwner' /\ FiredOnce'
    <3>1. L \cap UnlockSteps = {} /\ L \cap (AwaitSteps \cup FireSteps) = {}
      BY DEF LockSteps, UnlockSteps, AwaitSteps, FireSteps, DoneSteps, WaitSteps
    <3>2. O \cap {"lock", "unlock"} = {}
      OBVIOUS
    <3> HIDE DEF L, O
    <3> QED BY <1>67, <1>68, <2>1, <2>2, <3>1, <3>2
  <2>3. ASSUME NEW g \in AllFibers, NEW o \in O, Doing(g, o)
        PROVE  \A op \in Operations \ O : ~Doing(g, op)
    BY <2>3 DEF Doing
  <2>4. ASSUME NEW l \in L, Inner(f, l), f_pc[f] \in {"routine"} \cup L,
               (f_pc[f] \notin Taking /\ l \notin Taking) \/ (f_pc[f] = "done flag" /\ l = "done last"),
               IF l \in DoneSteps THEN Doing(f, "done") ELSE Doing(f, "wait"),
               Counted', DoneOnce', WaitsKept', f_completed' \in BOOLEAN, f_countdown' \in Nat, f_inWait' \in Nat,
               f_latch' \in Self
        PROVE  FiberInv'
    <3>1. l \notin {"routine", "suspended", "deleted"} /\ Within(f, l) /\ l \in Labels
      BY <2>4 DEF LockSteps, UnlockSteps, AwaitSteps, FireSteps, DoneSteps, WaitSteps, Labels
    <3>2. ~Doing(f, "add")
      BY <2>4 DEF Doing
    <3>6. ASSUME NEW op \in Parking
          PROVE  f_pc[f] \in Takers[op] <=> l \in Takers[op]
      <4>1. CASE f_pc[f] \notin Taking /\ l \notin Taking
        BY <1>9, <4>1
      <4>2. CASE f_pc[f] = "done flag" /\ l = "done last"
        <5>1. op = "lock" \/ op = "await" \/ op = "wait"
          BY <1>7
        <5> QED BY <1>7, <4>2, <5>1
      <4> QED BY <2>4, <4>1, <4>2
    <3>3. /\ Moves /\ Others(f) /\ ~Drops(f) /\ f_pc'[f] = l
          /\ Routines' /\ AtHead' /\ Suspended' /\ Scheduled' /\ AddedFirst'
      BY <1>72, <2>4, <3>1, <3>2, <3>6
    <3>4. Only(L, O)
      BY <2>3, <2>4, <3>3
    <3>5. FiberTypes'
      BY <1>12, <2>1, <2>4, <3>1, <3>3 DEF FiberTypes, Queues
    <3> QED BY <1>74, <2>2, <2>4, <3>3, <3>4, <3>5
  <2>5. ASSUME Ends(f), f_pc[f] \in {"routine", "done empty", "waited"}, NEW o \in O, Doing(f, o),
               Counted', DoneOnce', WaitsKept', f_completed' \in BOOLEAN, f_countdown' \in Nat, f_inWait' \in Nat,
               f_latch' = f_latch, o = "add" => AddedFirst'
        PROVE  FiberInv'
    <3>1. Head(f_script[f]) \in Operations /\ (o # "add" => ~Doing(f, "add"))
      BY <1>1, <2>5 DEF Doing
    <3>2. \A op \in Parking : f_pc[f] \notin Takers[op]
      BY <1>8, <2>5
    <3>3. /\ Moves /\ Others(f) /\ Drops(f) /\ f_pc'[f] = "routine"
          /\ Routines' /\ AtHead' /\ Suspended' /\ Scheduled' /\ AddedFirst'
      BY <1>73, <2>5, <3>1, <3>2
    <3>4. Only(L, O)
      BY <2>3, <2>5, <3>3 DEF DoneSteps, WaitSteps
    <3>5. FiberTypes'
      <4>1. "routine" \in Labels
        BY DEF Labels
      <4> QED BY <1>12, <2>1, <2>5, <3>3, <4>1 DEF FiberTypes, Queues, Ops
    <3> QED BY <1>74, <2>2, <2>5, <3>3, <3>4, <3>5
  <2>6. ASSUME Others(f), f_inWait' = f_inWait,
               \/ ~Drops(f) /\ f_pc[f] # "routine" /\ f_pc'[f] # "routine"
               \/ ~Doing(f, "wait") /\ (Drops(f) => f_pc'[f] = "routine")
        PROVE  WaitsKept'
    <3>1. ASSUME NEW g \in AllFibers
          PROVE  (Doing(g, "wait") /\ f_pc[g] # "routine")' <=> Doing(g, "wait") /\ f_pc[g] # "routine"
      BY <1>21, <2>6
    <3> QED BY <1>63, <2>6, <3>1
  <2>7. ASSUME NEW l, Inner(f, l)
        PROVE  Moves /\ Others(f) /\ ~Drops(f) /\ f_pc'[f] = l
    BY <1>13, <1>22, <2>7
  <2>8. ASSUME Ends(f)
        PROVE  Moves /\ Others(f) /\ Drops(f) /\ f_pc'[f] = "routine"
    BY <1>22, <1>71, <2>8
  <2>9. /\ f_countdown \in Nat /\ f_inWait \in Nat /\ f_completed \in BOOLEAN /\ f_latch \in Self /\ f \in Self
        /\ Nothing \in Self
    BY <1>12 DEF FiberTypes
  <2>10. ASSUME f_pc[f] \in DoneSteps
         PROVE  f \in Finishing /\ Doing(f, "done") /\ ~Doing(f, "wait") /\ ~Doing(f, "add")
    BY <1>53, <2>10 DEF Finishing, Doing
  <2>11. CASE Fiber!Add(f)
    <3>1. /\ Carried(f) /\ f_pc[f] = "routine" /\ Doing(f, "add") /\ Ends(f) /\ f_countdown' = f_countdown + 1
          /\ UNCHANGED <<f_inWait, f_completed, f_latch>>
      BY <1>75, <2>1, <2>11 DEF Fiber!Add, Doing
    <3>2. Counted' /\ DoneOnce'
      BY <1>57, <2>8, <3>1
    <3>3. WaitsKept'
      <4>1. ~Doing(f, "wait")
        BY <3>1 DEF Doing
      <4> QED BY <2>6, <2>8, <3>1, <4>1
    <3>4. AddedFirst'
      <4>1. ASSUME NEW g \in AllFibers, HasOp(g, "add")'
            PROVE  g = f
        BY <1>12, <1>14, <2>8, <3>1, <4>1 DEF AddedFirst
      <4>2. HasOp(f, "add")
        BY <1>15, <3>1
      <4> QED BY <1>12, <1>29, <2>8, <3>1, <4>1, <4>2 DEF AddedFirst
    <3> QED BY <2>5, <2>9, <3>1, <3>2, <3>3, <3>4
  <2>12. CASE Fiber!DoneSub(f)
    <3>1. /\ Carried(f) /\ f_pc[f] = "routine" /\ Doing(f, "done") /\ f_countdown' = f_countdown - 1
          /\ UNCHANGED <<f_inWait, f_completed, f_latch>> /\ Apart
      BY <1>75, <2>1, <2>12 DEF Fiber!DoneSub
    <3>2. f_countdown' \in Nat
      <4>1. f_countdown >= 1
        BY <1>54, <3>1
      <4> QED BY <2>9, <3>1, <4>1
    <3>3. ~Doing(f, "wait")
      BY <3>1 DEF Doing
    <3>4. CASE f_countdown = 1
      <4>1. Inner(f, "done lock")
        BY <1>75, <2>12, <3>1, <3>4 DEF Fiber!DoneSub
      <4>2. Counted' /\ DoneOnce' /\ WaitsKept'
        BY <1>58, <2>6, <2>7, <3>1, <3>3, <3>4, <4>1
      <4>3. f_pc[f] \notin Taking /\ "done lock" \notin Taking
        BY <3>1
      <4>4. "done lock" \in L /\ "done lock" \in DoneSteps
        BY DEF DoneSteps
      <4> QED BY <2>4, <2>9, <3>1, <3>2, <4>1, <4>2, <4>3, <4>4
    <3>5. CASE f_countdown # 1
      <4>1. Ends(f)
        BY <1>75, <2>12, <3>1, <3>5 DEF Fiber!DoneSub, Doing
      <4>2. Counted' /\ DoneOnce' /\ WaitsKept'
        BY <1>58, <2>6, <2>8, <3>1, <3>3, <3>5, <4>1
      <4> QED BY <2>5, <2>9, <3>1, <3>2, <4>1, <4>2
    <3> QED BY <3>4, <3>5
  <2>13. ASSUME f_pc[f] \in DoneSteps, Moves, Others(f), ~Drops(f), f_pc'[f] \in DoneSteps,
                f_countdown' = f_countdown, f_inWait' = f_inWait
         PROVE  Counted' /\ WaitsKept'
    <3>1. CountKept
      BY <2>13
    <3>2. WaitsKept'
      BY <2>6, <2>10, <2>13
    <3> QED BY <1>56, <3>1, <3>2
  <2>14. CASE Fiber!DoneLock(f)
    <3>1. /\ f_pc[f] = "done lock" /\ Inner(f, "done look") /\ f_latch' = f
          /\ UNCHANGED <<f_countdown, f_inWait, f_completed, f_queued>>
      BY <1>75, <2>1, <2>14 DEF Fiber!DoneLock
    <3>2. {f_pc[f], "done look"} \subseteq DoneSteps \ Taking
      BY <3>1 DEF DoneSteps
    <3>3. Counted' /\ WaitsKept'
      BY <2>7, <2>13, <3>1, <3>2
    <3>4. OnceKept
      BY <2>7, <3>1, <3>2 DEF Late
    <3> QED BY <1>60, <2>4, <2>9, <2>10, <3>1, <3>2, <3>3, <3>4
  <2>15. CASE Fiber!DoneLook(f)
    <3>1. PICK l : l = IF f_queued = <<>> THEN "done empty" ELSE "done take"
      OBVIOUS
    <3>2. /\ f_pc[f] = "done look" /\ Inner(f, l) /\ f_latch' = Nothing
          /\ UNCHANGED <<f_countdown, f_inWait, f_completed, f_queued>>
      BY <1>75, <2>1, <2>15, <3>1 DEF Fiber!DoneLook
    <3>3. {f_pc[f], l} \subseteq DoneSteps \ Taking
      BY <3>1, <3>2 DEF DoneSteps
    <3>4. Counted' /\ WaitsKept'
      BY <2>7, <2>13, <3>2, <3>3
    <3>5. Alike(f) /\ f_pc'[f] = l
      BY <2>7, <3>2
    <3>6. l = "done take" => f_queued' # <<>>
      BY <3>1, <3>2
    <3>7. /\ f_pc[f] \in DoneSteps \ {"done last"} /\ l \notin Late /\ l # "done last" /\ l # "done next"
      BY <3>1, <3>2 DEF DoneSteps, Late
    <3>8. OnceKept
      BY <3>2, <3>5, <3>6, <3>7
    <3> QED BY <1>60, <2>4, <2>9, <2>10, <3>2, <3>3, <3>4, <3>8
  <2>16. CASE Fiber!DoneEmpty(f)
    <3>1. f_pc[f] = "done empty" /\ f_pc[f] \in DoneSteps
      BY <1>75, <2>16 DEF Fiber!DoneEmpty, DoneSteps
    <3>2. f \in Finishing /\ Doing(f, "done") /\ ~Doing(f, "wait")
      BY <2>10, <3>1
    <3>3. /\ Ends(f) /\ f_completed' = TRUE
          /\ UNCHANGED <<f_countdown, f_inWait, f_latch>>
      BY <1>75, <2>1, <2>16, <3>2 DEF Fiber!DoneEmpty, Doing
    <3>4. Counted'
      BY <1>59, <2>8, <3>2, <3>3
    <3>5. DoneOnce'
      BY <1>61, <2>8, <3>2, <3>3
    <3>6. WaitsKept'
      BY <2>6, <2>8, <3>2, <3>3
    <3> QED BY <2>5, <2>9, <3>1, <3>2, <3>3, <3>4, <3>5, <3>6
  <2>17. CASE Fiber!DoneTake(f)
    <3>1. PICK l : l = IF Tail(f_queued) = <<>> THEN "done flag" ELSE "done next"
      OBVIOUS
    <3>2. /\ Carried(f) /\ f_pc[f] = "done take" /\ f_pc[f] \in DoneSteps /\ f_queued # <<>>
          /\ f_pc' = [f_pc EXCEPT ![f] = l] /\ UNCHANGED <<f_script, f_ready, f_on, f_countdown, f_inWait, f_completed, f_latch>>
          /\ f_queued' = Tail(f_queued) /\ f_taken' = [f_taken EXCEPT ![f] = Head(f_queued)]
      BY <1>12, <1>75, <2>17, <3>1 DEF Fiber!DoneTake, DoneSteps, DoneOnce
    <3>3. /\ Queues["wait"] = f_queued
          /\ Queues' = [Queues EXCEPT !["wait"] = Tail(@)]
      BY <2>1, <3>2 DEF Queues, Parking
    <3>4. f \in Finishing /\ Doing(f, "done")
      BY <2>10, <3>2
    <3>5. (\A op \in Parking : f_pc[f] \notin Takers[op]) /\ ~(f_pc[f] = "routine" /\ Doing(f, "add"))
      BY <1>8, <3>2
    <3>6. l \in Takers["wait"] /\ l \in DoneSteps /\ l \in Labels /\ Within(f, l)
      BY <1>7, <3>1, <3>4 DEF LockSteps, UnlockSteps, AwaitSteps, FireSteps, DoneSteps, WaitSteps, Labels
    <3>7. /\ Moves /\ Others(f) /\ ~Drops(f) /\ f_pc'[f] = l
          /\ Routines' /\ AtHead' /\ Suspended' /\ Scheduled' /\ AddedFirst'
          /\ f_taken' \in [AllFibers -> AllFibers \cup {Nothing}]
          /\ Queues' \in [Parking -> Seq(AllFibers)]
      BY <1>7, <1>79, <3>2, <3>3, <3>5, <3>6
    <3>8. Only(L, O)
      BY <2>3, <3>2, <3>4, <3>6, <3>7 DEF DoneSteps
    <3>9. Counted' /\ WaitsKept'
      BY <2>13, <3>2, <3>6, <3>7
    <3>10. DoneOnce'
      <4>1. l \in {"done flag", "done next"} /\ (l = "done next" => f_queued' # <<>>)
        BY <3>1, <3>2
      <4>2. Alike(f) /\ f_pc'[f] = l /\ f_pc[f] # "done last"
        BY <3>2, <3>7
      <4> QED BY <1>62, <3>2, <3>4, <4>1, <4>2
    <3>11. \A g \in AllFibers : f_pc[g] = "unlock schedule" => f_taken'[g] = f_taken[g]
      BY <1>22, <3>2
    <3>12. FiberTypes'
      BY <1>12, <2>1, <3>2, <3>6, <3>7 DEF FiberTypes
    <3> QED BY <1>74, <2>2, <3>7, <3>8, <3>9, <3>10, <3>11, <3>12
  <2>18. CASE Fiber!DoneFlag(f)
    <3>1. /\ f_pc[f] = "done flag" /\ Inner(f, "done last") /\ f_completed' = TRUE
          /\ UNCHANGED <<f_countdown, f_inWait, f_queued, f_latch>>
      BY <1>75, <2>1, <2>18 DEF Fiber!DoneFlag
    <3>2. {f_pc[f], "done last"} \subseteq DoneSteps
      BY <3>1 DEF DoneSteps
    <3>3. Counted' /\ WaitsKept'
      BY <2>7, <2>13, <3>1, <3>2
    <3>4. DoneOnce'
      BY <1>61, <2>7, <2>10, <3>1, <3>2
    <3> QED BY <2>4, <2>9, <2>10, <3>1, <3>2, <3>3, <3>4
  <2>19. CASE Fiber!DoneSchedule(f)
    <3>1. PICK h : h = f_taken[f]
      OBVIOUS
    <3>2. PICK a : a = IF f_pc[f] = "done last" THEN "routine" ELSE "done take"
      OBVIOUS
    <3>3. f_pc[f] \in {"done next", "done last"} /\ f_pc[f] \in Takers["wait"] /\ f_pc[f] \in DoneSteps
      BY <1>7, <1>75, <2>19 DEF Fiber!DoneSchedule, DoneSteps
    <3>4. f \in Finishing /\ Doing(f, "done") /\ ~Doing(f, "wait") /\ f_countdown = 0
      BY <1>53, <2>10, <3>3
    <3>5. /\ h \in AllFibers /\ h # f /\ f_pc[h] = "suspended" /\ Doing(h, "wait")
      BY <1>7, <1>80, <3>1, <3>3
    <3>6. /\ f_pc' = [f_pc EXCEPT ![h] = "waited", ![f] = a]
          /\ f_script' = [f_script EXCEPT ![f] = IF f_pc[f] = "done last" THEN Tail(@) ELSE @]
          /\ f_taken' = [f_taken EXCEPT ![f] = Nothing] /\ f_ready' = Append(f_ready, h)
          /\ UNCHANGED <<f_on, f_latch>> /\ NoGroup /\ Queues' = Queues
      BY <2>1, <2>19, <3>1, <3>2 DEF Fiber!DoneSchedule, Fiber!Submit, Fiber!groupVars, Queues
    <3>7. /\ f_script[f] # <<>> /\ f_script[f] \in Seq(Ops)
          /\ f_script'[f] = IF f_pc[f] = "done last" THEN Tail(f_script[f]) ELSE f_script[f]
          /\ \A g \in AllFibers \ {f} : f_script'[g] = f_script[g]
      BY <1>13, <3>4, <3>6 DEF Doing
    <3>8. /\ (Drops(f) <=> a = "routine") /\ f_script' \in [AllFibers -> Seq(Ops)]
          /\ \A g \in AllFibers \ {f} : ~Drops(g)
      BY <1>13, <1>76, <3>2, <3>6, <3>7
    <3>9. Keeps
      BY <1>1, <3>2, <3>4, <3>7, <3>8 DEF Doing
    <3>10. f_pc' = [f_pc EXCEPT ![f] = a, ![h] = "waited"]
      BY <1>22, <3>5, <3>6
    <3>11. /\ Gives(f, h) /\ f_pc'[f] = a /\ f_pc'[h] = "waited"
           /\ Routines' /\ AtHead' /\ Suspended' /\ Scheduled' /\ AddedFirst'
           /\ f_taken' \in [AllFibers -> AllFibers \cup {Nothing}] /\ f_ready' \in Seq(AllFibers)
      <4>1. \A op \in Parking : a \notin Takers[op]
        <5>1. "done take" \notin {"unlock schedule", "fire next", "fire last", "done next", "done flag", "done last"}
          OBVIOUS
        <5> QED BY <1>8, <1>10, <3>2, <5>1
      <4>2. "wait" \in Parking /\ "waited" \in {"routine", "waited"} /\ a \notin {"suspended", "deleted"}
        BY <1>7, <3>2
      <4>3. a = "routine" \/ (~Drops(f) /\ Within(f, a))
        BY <3>2, <3>4, <3>8 DEF LockSteps, UnlockSteps, AwaitSteps, FireSteps, DoneSteps, WaitSteps
      <4>4. f_on' = f_on /\ ~Drops(h) /\ \A g \in AllFibers \ {f, h} : ~Drops(g)
        BY <3>5, <3>6, <3>8
      <4>5. "waited" = "routine" \/ (~Drops(h) /\ "wait" = "wait")
        BY <4>4
      <4>6. "wait" \in Parking
        BY <4>2
      <4>7. "waited" \in {"routine", "waited"}
        OBVIOUS
      <4>8. a \notin {"suspended", "deleted"}
        BY <4>2
      <4>9. f_taken' = [f_taken EXCEPT ![f] = Nothing] /\ f_ready' = Append(f_ready, h) /\ Queues' = Queues
        BY <3>6
      <4>10. f_pc[f] \in Takers["wait"]
        BY <3>3
      <4>11. \A g \in AllFibers \ {f, h} : ~Drops(g)
        BY <4>4
      <4> HIDE DEF Keeps, Drops, Within, Gives
      <4> QED
        BY <1>81, <3>1, <3>9, <3>10, <4>1, <4>3, <4>4, <4>5, <4>6, <4>7, <4>8, <4>9, <4>10, <4>11, ZenonT(60)
    <3>12. \A g \in AllFibers \ {f, h} : f_pc'[g] = f_pc[g] /\ ~Drops(g)
      BY <3>11
    <3>13. Only(L, O)
      <4>1. \A op \in Operations \ O : ~Doing(f, op) /\ ~Doing(h, op)
        BY <2>3, <3>4, <3>5
      <4>2. f_pc[f] \in L /\ f_pc[h] \in Rests /\ f_pc'[f] \in L \cup Rests /\ f_pc'[h] \in L
        BY <3>2, <3>3, <3>5, <3>11 DEF DoneSteps, WaitSteps
      <4>3. \A g \in AllFibers : Drops(g) => g = f /\ f_pc'[g] = "routine"
        BY <3>8, <3>11
      <4> HIDE DEF L, O, Drops
      <4> QED BY <3>9, <3>12, <4>1, <4>2, <4>3
    <3>14. Counted'
      <4>1. CASE a = "routine"
        <5>1. \A g \in AllFibers \ {f} : f_pc'[g] \in DoneSteps => f_pc[g] \in DoneSteps
          BY <3>11, <3>12 DEF DoneSteps
        <5> QED BY <1>59, <3>4, <3>6, <3>8, <3>9, <3>11, <4>1, <5>1
      <4>2. CASE a = "done take"
        <5>1. CountKept
          <6>1. \A g \in AllFibers : ~Drops(g)
            BY <3>8, <4>2
          <6>2. f_pc'[f] \in DoneSteps /\ f_pc[h] \notin DoneSteps /\ f_pc'[h] \notin DoneSteps
            BY <3>5, <3>11, <4>2 DEF DoneSteps
          <6> QED BY <3>3, <3>6, <3>9, <3>12, <6>1, <6>2
        <5> QED BY <1>56, <5>1
      <4> QED BY <3>2, <4>1, <4>2
    <3>15. DoneOnce'
      <4>1. f_pc'[f] = "done take" => f_pc[f] = "done next"
        BY <3>2, <3>3, <3>11
      <4>2. f_pc'[f] \in {"routine", "done take"}
        BY <3>2, <3>11
      <4>3. ASSUME NEW g \in AllFibers
            PROVE  /\ f_pc'[g] \in {"done take", "done next"} => f_pc[g] \in {"done take", "done next"}
                   /\ f_pc'[g] = "done last" => f_pc[g] = "done last"
                   /\ f_pc'[g] \in DoneSteps \ {"done last"} => f_pc[g] \in DoneSteps \ {"done last"}
        BY <3>11, <3>12, <4>1, <4>2 DEF DoneSteps
      <4>4. OnceKept
        BY <3>4, <3>6, <4>3
      <4> QED BY <1>60, <4>4
    <3>16. WaitsKept'
      <4>1. ASSUME NEW g \in AllFibers
            PROVE  (Doing(g, "wait") /\ f_pc[g] # "routine")' <=> Doing(g, "wait") /\ f_pc[g] # "routine"
        <5>1. CASE g = f
          BY <1>21, <3>4, <3>8, <3>11, <5>1
        <5>2. CASE g = h
          BY <1>21, <3>5, <3>8, <3>11, <5>2
        <5>3. CASE g # f /\ g # h
          BY <1>21, <3>12, <5>3
        <5> QED BY <5>1, <5>2, <5>3
      <4> QED BY <1>63, <3>6, <4>1
    <3>17. \A g \in AllFibers : f_pc[g] = "unlock schedule" => f_taken'[g] = f_taken[g]
      BY <1>22, <3>3, <3>6
    <3>18. FiberTypes'
      <4>1. "waited" \in Labels /\ a \in Labels
        BY <3>2 DEF Labels, DoneSteps, WaitSteps
      <4> QED BY <1>12, <2>1, <3>6, <3>8, <3>11, <4>1 DEF FiberTypes, Ops
    <3> QED BY <1>74, <2>2, <3>11, <3>13, <3>14, <3>15, <3>16, <3>17, <3>18
  <2>20. ASSUME Moves, Others(f), f_pc[f] \notin DoneSteps, f_pc'[f] \notin DoneSteps, Drops(f) => Doing(f, "wait"),
                f_countdown' = f_countdown, f_completed' = f_completed, f_queued # <<>> => f_queued' # <<>>,
                f_pc'[f] \in Late => f_pc[f] \in Late \/ f_countdown = 0
         PROVE  Counted' /\ DoneOnce'
    <3>1. CountKept
      BY <2>20 DEF Doing
    <3>2. f_pc'[f] \notin {"done take", "done next", "done last"}
      BY <2>20 DEF DoneSteps
    <3>3. OnceKept
      BY <2>20, <3>2
    <3> QED BY <1>56, <1>60, <3>1, <3>3
  <2>21. CASE Fiber!WaitCall(f)
    <3>1. /\ Carried(f) /\ f_pc[f] = "routine" /\ Doing(f, "wait") /\ Inner(f, "wait lock") /\ f_inWait' = f_inWait + 1
          /\ UNCHANGED <<f_countdown, f_completed, f_queued, f_latch>>
      BY <1>75, <2>1, <2>21 DEF Fiber!WaitCall
    <3>2. "wait lock" \in WaitSteps /\ {"wait lock", "routine"} \cap (DoneSteps \cup Late \cup Taking) = {}
      BY DEF WaitSteps, DoneSteps, Late
    <3>3. Counted' /\ DoneOnce'
      BY <2>7, <2>20, <3>1, <3>2
    <3>4. WaitsKept'
      BY <1>65, <2>7, <3>1
    <3>5. f_inWait' \in Nat
      <4>1. f_inWait \in Nat /\ f_inWait' = f_inWait + 1
        BY <2>9, <3>1
      <4> QED BY <4>1
    <3> QED BY <2>4, <2>9, <3>1, <3>2, <3>3, <3>4, <3>5
  <2>22. ASSUME f_pc[f] \in WaitSteps
         PROVE  Doing(f, "wait") /\ f_pc[f] # "routine" /\ f_pc[f] \notin DoneSteps /\ f_pc[f] \notin Taking
    BY <1>12, <2>22 DEF AtHead, WaitSteps, DoneSteps
  <2>23. ASSUME NEW l \in WaitSteps, f_pc[f] \in WaitSteps, Inner(f, l), f_latch' \in Self, NoGroup,
                l \in Late => f_pc[f] \in Late \/ f_countdown = 0
         PROVE  FiberInv'
    <3>1. l \notin DoneSteps /\ l \notin Taking /\ l # "routine"
      BY DEF WaitSteps, DoneSteps
    <3>2. Counted' /\ DoneOnce'
      BY <2>7, <2>20, <2>22, <2>23, <3>1
    <3>3. WaitsKept'
      BY <2>6, <2>7, <2>22, <2>23, <3>1
    <3> QED BY <2>4, <2>9, <2>22, <2>23, <3>1, <3>2, <3>3
  <2>24. CASE Fiber!WaitLock(f)
    <3>1. f_pc[f] = "wait lock" /\ Inner(f, "wait look") /\ f_latch' = f /\ NoGroup
      BY <1>75, <2>1, <2>24 DEF Fiber!WaitLock
    <3>2. {"wait lock", "wait look"} \subseteq WaitSteps \ Late
      BY DEF WaitSteps, Late
    <3> QED BY <2>9, <2>23, <3>1, <3>2
  <2>25. CASE Fiber!TryEnqueue(f)
    <3>1. /\ Carried(f) /\ f_pc[f] = "wait look" /\ f_pc[f] \in WaitSteps
          /\ UNCHANGED <<f_ready, f_script, f_taken, f_countdown, f_inWait, f_completed>> /\ f_latch' = Nothing
      BY <1>75, <2>25 DEF Fiber!TryEnqueue, WaitSteps
    <3>2. Doing(f, "wait") /\ f_pc[f] # "routine" /\ f_pc[f] \notin DoneSteps
      BY <2>22, <3>1
    <3>3. CASE f_countdown = 0
      <4>1. Inner(f, "wait count") /\ NoGroup
        BY <1>75, <2>1, <2>25, <3>1, <3>3 DEF Fiber!TryEnqueue
      <4>2. "wait count" \in WaitSteps
        BY DEF WaitSteps
      <4> QED BY <2>9, <2>23, <3>1, <3>3, <4>1, <4>2
    <3>4. CASE f_countdown # 0
      <4>1. /\ f_pc' = [f_pc EXCEPT ![f] = "suspended"] /\ Left(f) /\ f_queued' = Append(f_queued, f)
            /\ Queues' = [Queues EXCEPT !["wait"] = Append(@, f)]
        BY <1>75, <2>1, <2>25, <3>1, <3>4 DEF Fiber!TryEnqueue, Queues, Parking
      <4>2. \A op \in Parking : f_pc[f] \notin Takers[op]
        BY <1>8, <3>1
      <4>3. /\ Moves /\ Others(f) /\ ~Drops(f) /\ f_pc'[f] = "suspended"
            /\ Routines' /\ AtHead' /\ Suspended' /\ Scheduled' /\ AddedFirst'
            /\ f_on' \in [Carriers -> AllFibers \cup {Nothing}]
            /\ Queues' \in [Parking -> Seq(AllFibers)] /\ Queues'["wait"] # <<>>
        BY <1>7, <1>78, <3>1, <3>2, <4>1, <4>2
      <4>4. Only(L, O)
        BY <2>3, <3>1, <3>2, <4>3
      <4>5. f_queued' # <<>> /\ "suspended" \notin DoneSteps \cup Late
        BY <4>3 DEF Queues, Parking, DoneSteps, Late
      <4>6. Counted' /\ DoneOnce'
        BY <2>20, <3>1, <3>2, <4>3, <4>5
      <4>7. WaitsKept'
        BY <2>6, <3>1, <3>2, <4>3
      <4>8. FiberTypes'
        <5>1. "suspended" \in Labels
          BY DEF Labels
        <5> QED BY <1>12, <2>1, <3>1, <4>1, <4>3, <5>1 DEF FiberTypes
      <4> QED BY <1>74, <2>2, <3>1, <4>3, <4>4, <4>6, <4>7, <4>8
    <3> QED BY <3>3, <3>4
  <2>26. CASE Fiber!WaitCount(f)
    <3>1. PICK l : l = IF f_inWait = 1 THEN "wait spin" ELSE "wait schedule"
      OBVIOUS
    <3>2. f_pc[f] = "wait count" /\ Inner(f, l) /\ f_latch' = f_latch /\ NoGroup
      BY <1>75, <2>1, <2>26, <3>1 DEF Fiber!WaitCount, Fiber!groupVars
    <3>3. f_pc[f] \in WaitSteps \cap Late /\ l \in WaitSteps
      BY <3>1, <3>2 DEF WaitSteps, Late
    <3> QED BY <2>9, <2>23, <3>2, <3>3
  <2>27. CASE Fiber!WaitSpin(f)
    <3>1. f_pc[f] = "wait spin" /\ Inner(f, "wait schedule") /\ f_latch' = f_latch /\ NoGroup
      BY <1>75, <2>1, <2>27 DEF Fiber!WaitSpin, Fiber!groupVars
    <3>2. f_pc[f] \in WaitSteps \cap Late /\ "wait schedule" \in WaitSteps
      BY <3>1 DEF WaitSteps, Late
    <3> QED BY <2>9, <2>23, <3>1, <3>2
  <2>28. CASE Fiber!WaitSchedule(f)
    <3>1. /\ Carried(f) /\ f_pc[f] = "wait schedule" /\ f_script' = f_script
          /\ f_pc' = [f_pc EXCEPT ![f] = "waited"] /\ f_ready' = Append(f_ready, f) /\ Left(f)
          /\ f_taken' = f_taken /\ NoGroup /\ f_latch' = f_latch /\ Queues' = Queues
      BY <1>75, <2>1, <2>28 DEF Fiber!WaitSchedule, Fiber!Reschedule, Fiber!Submit, Fiber!groupVars, Queues
    <3>2. f_pc[f] \in WaitSteps \cap Late /\ "waited" \in WaitSteps /\ "waited" \notin DoneSteps
      BY <3>1 DEF WaitSteps, Late, DoneSteps
    <3>3. Doing(f, "wait") /\ f_pc[f] # "routine" /\ f_pc[f] \notin DoneSteps /\ \A op \in Parking : f_pc[f] \notin Takers[op]
      BY <1>8, <2>22, <3>1, <3>2
    <3>4. Keeps /\ \A g \in AllFibers : ~Drops(g)
      BY <1>13, <3>1
    <3>5. /\ Others(f) /\ f_pc'[f] = "waited"
          /\ Routines' /\ AtHead' /\ Suspended' /\ Scheduled' /\ AddedFirst'
          /\ f_on' \in [Carriers -> AllFibers \cup {Nothing}] /\ f_ready' \in Seq(AllFibers)
      BY <1>83, <3>1, <3>3, <3>4
    <3>6. Only(L, O)
      BY <2>3, <3>2, <3>3, <3>4, <3>5
    <3>7. Counted' /\ DoneOnce'
      BY <2>20, <3>1, <3>2, <3>3, <3>4, <3>5
    <3>8. WaitsKept'
      BY <2>6, <3>1, <3>3, <3>4, <3>5
    <3>9. FiberTypes'
      <4>1. "waited" \in Labels
        BY <3>2 DEF Labels
      <4> QED BY <1>12, <2>1, <3>1, <3>4, <3>5, <4>1 DEF FiberTypes, Ops
    <3> QED BY <1>74, <2>2, <3>1, <3>5, <3>6, <3>7, <3>8, <3>9
  <2>29. CASE Fiber!WaitReturn(f)
    <3>1. f_pc[f] = "waited" /\ f_pc[f] \in WaitSteps
      BY <1>75, <2>29 DEF Fiber!WaitReturn, WaitSteps
    <3>2. Doing(f, "wait") /\ f_pc[f] \notin DoneSteps
      BY <2>22, <3>1
    <3>3. /\ Ends(f) /\ f_inWait' = f_inWait - 1
          /\ UNCHANGED <<f_countdown, f_completed, f_queued, f_latch>>
      BY <1>75, <2>1, <2>29, <3>2 DEF Fiber!WaitReturn, Doing
    <3>4. WaitsKept' /\ f_inWait >= 1
      BY <1>66, <2>8, <3>1, <3>2, <3>3
    <3>5. f_inWait' \in Nat
      BY <2>9, <3>3, <3>4
    <3>6. "routine" \notin DoneSteps \cup Late
      BY DEF DoneSteps, Late
    <3>7. Counted' /\ DoneOnce'
      BY <2>8, <2>20, <3>2, <3>3, <3>6
    <3> QED BY <2>5, <2>9, <3>1, <3>2, <3>3, <3>4, <3>5, <3>7
  <2> QED
    BY <1>85, <2>11, <2>12, <2>14, <2>15, <2>16, <2>17, <2>18, <2>19, <2>21, <2>24, <2>25, <2>26, <2>27, <2>28, <2>29
       DEF Fiber!GroupStep

(* The fibers themselves: Go, Yield, the end, the workers, and the deletion.      *)
<1>86. ASSUME NEW f \in AllFibers, Fiber!FiberStep(f),
              UNCHANGED <<Fiber!mutexVars, Fiber!eventVars, Fiber!groupVars, f_deleted>>
       PROVE  FiberInv'
  <2> DEFINE O == {"yield"} \cup AllFibers
  <2>1. /\ f_st' = f_st /\ f_parked' = f_parked /\ f_spin' = f_spin /\ f_guard' = f_guard /\ f_latch' = f_latch
        /\ NoEvent /\ NoGroup /\ f_deleted' = f_deleted /\ Queues' = Queues /\ f_taken' = f_taken
    <3>1. f_taken' = f_taken
      BY <1>86 DEF Fiber!FiberStep, Fiber!Go, Fiber!Yield, Fiber!Complete
    <3> QED BY <1>86, <3>1 DEF Fiber!mutexVars, Fiber!eventVars, Fiber!groupVars, Queues
  <2>2. ASSUME Only({}, O)
        PROVE  OneOwner' /\ FiredOnce' /\ Counted' /\ DoneOnce' /\ WaitsKept'
    <3>1. O \cap {"lock", "unlock"} = {} /\ O \cap {"add", "done", "wait"} = {}
      BY <1>1
    <3>2. \A S : {} \cap S = {}
      OBVIOUS
    <3>3. NoMutex
      BY <2>1
    <3> HIDE DEF O, Only, NoMutex, NoEvent, NoGroup
    <3> QED BY <1>67, <1>68, <1>69, <2>1, <2>2, <3>1, <3>2, <3>3, Zenon
  <2>3. ASSUME Moves, Routines', AtHead', Suspended', Scheduled', AddedFirst', Only({}, O),
               f_pc' \in [AllFibers -> Labels], f_ready' \in Seq(AllFibers),
               f_on' \in [Carriers -> AllFibers \cup {Nothing}]
        PROVE  FiberInv'
    <3>1. FiberTypes'
      BY <1>12, <2>1, <2>3 DEF FiberTypes, Ops
    <3> QED BY <1>74, <2>2, <2>3, <3>1
  <2>4. /\ Carried(f) /\ f_pc[f] = "routine" /\ ~(\E op \in Parking : f_pc[f] \in Takers[op])
        /\ "routine" \in Labels /\ "deleted" \in Labels
    <3>1. Carried(f) /\ f_pc[f] = "routine"
      BY <1>75, <1>86 DEF Fiber!FiberStep, Fiber!Go, Fiber!Yield, Fiber!Complete
    <3> QED BY <1>10, <3>1 DEF Labels
  <2>5. CASE Fiber!Go(f)
    <3>1. PICK h \in AllFibers : h = Head(f_script[f])
      BY <2>5 DEF Fiber!Go
    <3>2. /\ Tailed(f) /\ f_pc' = [f_pc EXCEPT ![f] = "routine"] /\ f_ready' = Append(f_ready, h) /\ f_on' = f_on
      BY <1>75, <2>5, <3>1 DEF Fiber!Go, Fiber!Submit
    <3>3. Moves /\ Drops(f) /\ (\A g \in AllFibers \ {f} : ~Drops(g)) /\ f_pc' = f_pc
      BY <1>22, <1>71, <2>4, <3>2
    <3>4. Doing(f, h) /\ HasOp(f, h) /\ Coming(h) /\ NoRepeat(f_script[f], h)
      <4>1. Doing(f, h)
        BY <3>1, <3>2 DEF Doing
      <4>2. HasOp(f, h)
        BY <1>15, <4>1
      <4> QED BY <1>12, <4>1, <4>2 DEF Coming, Routines, WellFormed
    <3>5. \A op \in Operations : ~Doing(f, op)
      BY <1>1, <3>4 DEF Doing
    <3>6. ASSUME NEW g \in AllFibers
          PROVE  Coming(g)' <=> Coming(g) /\ g # h
      <4>1. Coming(g)' => Coming(g)
        BY <1>16, <3>3
      <4>2. ~Coming(h)'
        <5>1. \A e \in AllFibers : HasOp(e, h) => e = f
          BY <1>12, <3>4 DEF Routines
        <5>2. ~HasOp(f, h)'
          BY <1>14, <3>3, <3>4
        <5>3. \A e \in AllFibers : HasOp(e, h)' => HasOp(e, h)
          BY <1>14, <3>3
        <5> QED BY <5>1, <5>2, <5>3 DEF Coming
      <4>3. Coming(g) /\ g # h => Coming(g)'
        <5>1. ASSUME NEW e \in AllFibers, HasOp(e, g), g # h
              PROVE  HasOp(e, g)'
          <6>1. ~(Drops(e) /\ Doing(e, g))
            BY <3>1, <3>3, <5>1 DEF Doing
          <6> QED BY <1>14, <3>3, <5>1, <6>1
        <5> QED BY <5>1 DEF Coming
      <4> QED BY <4>1, <4>2, <4>3
    <3>7. Scheduled'
      <4>1. Begins(f, h)
        BY <2>4, <3>2, <3>3, <3>4, <3>6
      <4> QED BY <1>34, <4>1
    <3>8. Suspended'
      BY <1>23, <2>1, <2>4, <3>3
    <3>9. AtHead'
      BY <1>77, <2>4, <1>12, <3>3 DEF AtHead
    <3>10. Routines' /\ AddedFirst'
      <4>1. "add" \in Operations
        BY <1>1
      <4> QED BY <1>16, <1>18, <1>19, <2>4, <3>3, <3>5, <4>1
    <3>11. Only({}, O)
      BY <2>4, <3>3, <3>5
    <3>12. f_ready' \in Seq(AllFibers)
      BY <1>4, <1>27, <3>2
    <3> QED BY <1>22, <1>27, <2>3, <3>2, <3>3, <3>7, <3>8, <3>9, <3>10, <3>11, <3>12
  <2>6. CASE Fiber!Yield(f)
    <3>1. /\ Doing(f, "yield") /\ Tailed(f) /\ f_pc' = [f_pc EXCEPT ![f] = "routine"]
          /\ f_ready' = Append(f_ready, f) /\ Left(f)
      <4>1. Doing(f, "yield") /\ f_script[f] # <<>>
        BY <1>75, <2>6 DEF Fiber!Yield, Doing
      <4> QED BY <1>75, <2>6, <4>1 DEF Fiber!Yield, Fiber!Reschedule, Fiber!Submit
    <3>2. Moves /\ Drops(f) /\ (\A g \in AllFibers \ {f} : ~Drops(g)) /\ Keeps
      BY <1>1, <1>71, <3>1 DEF Doing
    <3>3. ~Doing(f, "add") /\ \A op \in Operations \ O : ~Doing(f, op)
      BY <3>1 DEF Doing
    <3>4. /\ Others(f) /\ f_pc'[f] = "routine"
          /\ Routines' /\ AtHead' /\ Suspended' /\ Scheduled' /\ AddedFirst'
          /\ f_on' \in [Carriers -> AllFibers \cup {Nothing}] /\ f_ready' \in Seq(AllFibers)
      BY <1>83, <2>1, <2>4, <3>1, <3>2, <3>3
    <3>5. Only({}, O)
      BY <2>4, <3>2, <3>3, <3>4
    <3>6. f_pc' \in [AllFibers -> Labels]
      BY <1>22, <2>4, <3>1
    <3> QED BY <2>3, <3>2, <3>4, <3>5, <3>6
  <2>7. CASE Fiber!Complete(f)
    <3>1. /\ f_script[f] = <<>> /\ f_script' = f_script /\ f_pc' = [f_pc EXCEPT ![f] = "deleted"]
          /\ Left(f) /\ f_ready' = f_ready
      BY <1>75, <2>7 DEF Fiber!Complete
    <3>2. Keeps /\ (\A g \in AllFibers : ~Drops(g)) /\ Others(f) /\ f_pc'[f] = "deleted"
      BY <1>13, <1>22, <3>1
    <3>3. \A op : ~Doing(f, op)
      BY <3>1 DEF Doing
    <3>4. Scheduled'
      <4>1. Leaves(f)
        BY <1>17, <2>4, <3>1, <3>2
      <4> QED BY <1>31, <4>1
    <3>5. Suspended'
      <4>1. \A op \in Parking : "deleted" \notin Takers[op]
        BY <1>9
      <4> QED BY <1>23, <2>1, <2>4, <3>2, <4>1
    <3>6. AtHead'
      BY <1>77, <1>12, <3>2 DEF AtHead
    <3>7. Routines' /\ AddedFirst'
      BY <1>16, <1>18, <1>19, <2>4, <3>2, <3>3
    <3>8. Only({}, O)
      BY <2>4, <3>2, <3>3
    <3>9. f_pc' \in [AllFibers -> Labels]
      BY <1>22, <2>4, <3>1
    <3>10. f_on' \in [Carriers -> AllFibers \cup {Nothing}]
      BY <1>27, <2>4, <3>1
    <3> QED BY <1>27, <2>3, <3>1, <3>2, <3>4, <3>5, <3>6, <3>7, <3>8, <3>9, <3>10
  <2> QED BY <1>86, <2>5, <2>6, <2>7 DEF Fiber!FiberStep
<1>87. ASSUME NEW f \in AllFibers, Fiber!Delete(f)
       PROVE  FiberInv'
  <2> DEFINE O == {"delete"}
  <2>1. /\ Carried(f) /\ f_pc[f] = "routine" /\ Doing(f, "delete") /\ Ends(f) /\ f_deleted' = TRUE
        /\ f_st' = f_st /\ f_spin' = f_spin /\ f_guard' = f_guard /\ f_latch' = f_latch /\ NoEvent /\ NoGroup
    BY <1>75, <1>87 DEF Fiber!Delete, Fiber!mutexVars, Fiber!eventVars, Fiber!groupVars, Doing
  <2>2. Head(f_script[f]) \in Operations /\ ~Doing(f, "add") /\ \A op \in Operations \ O : ~Doing(f, op)
    BY <1>1, <2>1 DEF Doing
  <2>3. /\ Moves /\ Others(f) /\ Drops(f) /\ f_pc'[f] = "routine"
        /\ Routines' /\ AtHead' /\ Suspended' /\ Scheduled' /\ AddedFirst'
    BY <1>10, <1>73, <2>1, <2>2
  <2>4. Only({}, O)
    BY <2>1, <2>2, <2>3
  <2>5. OneOwner' /\ FiredOnce' /\ Counted' /\ DoneOnce' /\ WaitsKept'
    <3>1. O \cap {"lock", "unlock"} = {} /\ O \cap {"add", "done", "wait"} = {} /\ NoMutex
      BY <2>1
    <3>2. \A S : {} \cap S = {}
      OBVIOUS
    <3> HIDE DEF O, Only, NoMutex, NoEvent, NoGroup
    <3> QED BY <1>67, <1>68, <1>69, <2>1, <2>4, <3>1, <3>2, Zenon
  <2>6. FiberTypes'
    <3>1. "routine" \in Labels
      BY DEF Labels
    <3> QED BY <1>12, <2>1, <2>3, <3>1 DEF FiberTypes, Queues, Ops
  <2> QED BY <1>74, <2>3, <2>5, <2>6
<1>88. ASSUME NEW w \in Carriers, Fiber!Resume(w)
       PROVE  FiberInv'
  <2>1. /\ f_on[w] = Nothing /\ f_ready # <<>> /\ f_on' = [f_on EXCEPT ![w] = Head(f_ready)]
        /\ f_ready' = Tail(f_ready) /\ UNCHANGED <<f_pc, f_script, f_taken>>
        /\ f_st' = f_st /\ f_parked' = f_parked /\ f_spin' = f_spin /\ f_guard' = f_guard /\ f_latch' = f_latch
        /\ NoEvent /\ NoGroup /\ f_deleted' = f_deleted /\ Queues' = Queues
    BY <1>88 DEF Fiber!Resume, Fiber!Run, Fiber!mutexVars, Fiber!eventVars, Fiber!groupVars, Queues
  <2>2. Keeps /\ (\A g \in AllFibers : ~Drops(g) /\ f_pc'[g] = f_pc[g]) /\ Only({}, {})
    BY <1>13, <2>1
  <2>3. Starts(w)
    BY <1>17, <2>1, <2>2
  <2>4. /\ Scheduled'
        /\ Head(f_ready) \in AllFibers /\ Among(f_ready, Head(f_ready))
        /\ \A g \in AllFibers : (Carried(g)' => Carried(g) \/ g = Head(f_ready))
                             /\ (Among(f_ready', g) => Among(f_ready, g))
    BY <1>35, <2>3
  <2>5. Routines' /\ AtHead' /\ Suspended' /\ OneOwner'
    <3>1. \A g \in AllFibers : (\A x : HasOp(g, x)' <=> HasOp(g, x)) /\ (\A x : Doing(g, x)' <=> Doing(g, x))
      BY <1>21, <2>2
    <3>2. Routines' /\ AtHead'
      BY <1>16, <1>12, <2>1, <2>2, <3>1 DEF AtHead
    <3>3. Suspended'
      BY <1>12, <2>1, <3>1 DEF Suspended
    <3>4. Away
      BY <2>1, <2>2
    <3> QED BY <1>37, <3>2, <3>3, <3>4
  <2>6. FiredOnce' /\ Counted' /\ DoneOnce' /\ WaitsKept'
    <3>1. {} \cap (AwaitSteps \cup FireSteps) = {} /\ {} \cap {"add", "done", "wait"} = {}
          /\ {} \cap (DoneSteps \cup WaitSteps) = {}
      OBVIOUS
    <3> QED BY <1>68, <1>69, <2>1, <2>2, <3>1
  <2>7. AddedFirst'
    <3> SUFFICES ASSUME NEW e \in AllFibers, HasOp(e, "add")'
                 PROVE  /\ f_pc'[e] = "routine" /\ ~f_completed'
                        /\ \A g \in AllFibers \ {e} :
                             f_pc'[g] \in {"routine", "deleted"} /\ ~Carried(g)' /\ ~Among(f_ready', g)
      BY DEF AddedFirst
    <3>1. HasOp(e, "add")
      BY <1>14, <2>2
    <3>2. /\ f_pc[e] = "routine" /\ ~f_completed
          /\ \A g \in AllFibers \ {e} : f_pc[g] \in {"routine", "deleted"} /\ ~Carried(g) /\ ~Among(f_ready, g)
      BY <1>12, <3>1 DEF AddedFirst
    <3> QED BY <2>1, <2>2, <2>4, <3>2
  <2>8. FiberTypes'
    <3>1. f_ready' \in Seq(AllFibers)
      BY <1>2, <1>27, <2>1
    <3>2. f_on' \in [Carriers -> AllFibers \cup {Nothing}]
      BY <1>27, <2>1, <2>4
    <3> QED BY <1>12, <2>1, <3>1, <3>2 DEF FiberTypes
  <2> QED BY <1>74, <2>4, <2>5, <2>6, <2>7, <2>8
<1>89. ASSUME UNCHANGED fiberVars
       PROVE  FiberInv'
  <2>1. /\ UNCHANGED <<f_ready, f_on, f_pc, f_script, f_taken, f_st, f_parked, f_spin, f_fired, f_waiting>>
        /\ UNCHANGED <<f_guard, f_countdown, f_inWait, f_completed, f_queued, f_latch, f_deleted>>
    BY <1>89 DEF fiberVars
  <2>2. Moves /\ Queues' = Queues /\ \A g \in AllFibers : ~Drops(g) /\ f_pc'[g] = f_pc[g]
    BY <1>13, <2>1 DEF Queues
  <2>3. \A g \in AllFibers : (\A x : HasOp(g, x)' <=> HasOp(g, x)) /\ (\A x : Doing(g, x)' <=> Doing(g, x))
    BY <1>21, <2>2
  <2>4. FiberTypes' /\ AtHead' /\ Routines'
    BY <1>12, <1>16, <2>1, <2>2, <2>3 DEF FiberTypes, AtHead
  <2>5. Suspended'
    BY <1>12, <2>1, <2>2, <2>3 DEF Suspended
  <2>6. Scheduled'
    BY <1>12, <2>1, <2>2, <2>3 DEF Scheduled, Coming, Carried
  <2>7. OneOwner' /\ FiredOnce' /\ AddedFirst'
    BY <1>12, <2>1, <2>3 DEF OneOwner, Owner, Handed, FiredOnce, AddedFirst, Carried
  <2>8. Counted' /\ DoneOnce' /\ WaitsKept'
    <3>1. CountKept /\ OnceKept
      BY <2>1, <2>2
    <3>2. InsideKept
      BY <2>1, <2>2, <2>3
    <3> QED BY <1>56, <1>60, <1>63, <3>1, <3>2
  <2> QED BY <1>74, <2>4, <2>5, <2>6, <2>7, <2>8
<1>90. FiberInv'
  <2>1. ASSUME FibersOnly, Fiber!Next
        PROVE  FiberInv'
    <3>1. CASE Fiber!Terminated
      BY <1>89, <3>1 DEF Fiber!Terminated, Fiber!vars, Fiber!fiberVars, Fiber!mutexVars, Fiber!eventVars,
                         Fiber!groupVars, fiberVars
    <3>2. ASSUME NEW f \in AllFibers, Fiber!Step(f)
          PROVE  FiberInv'
      BY <1>82, <1>84, <1>85, <1>86, <1>87, <3>2 DEF Fiber!Step
    <3> QED BY <1>88, <2>1, <3>1, <3>2 DEF Fiber!Next
  <2>2. Next => UNCHANGED fiberVars \/ (FibersOnly /\ Fiber!Next)
    BY DEF Next, StrandOnly, CombineOnly, ChainOnly, SleepOnly
  <2>3. UNCHANGED vars => UNCHANGED fiberVars
    BY DEF vars
  <2> QED BY <1>89, <2>1, <2>2, <2>3

(* Who goes on from Wait(), and what is left when the deletion comes.             *)
<1> DEFINE Ended  == {"wait schedule", "waited"}
           Steady == /\ Moves /\ (f_completed => f_completed')
                     /\ \A g \in AllFibers :
                          /\ Drops(g) => ~Doing(g, "await") /\ ~Doing(g, "wait")
                          /\ f_pc'[g] \in Ended => f_pc[g] \in Ended \/ f_completed'
                          /\ f_pc[g] = "done last" => f_pc'[g] = "done last" \/ ~HasOp(g, "done")'
           Deletes == f_deleted' => f_deleted \/ (Deleting /\ ~Some("wait") /\ ~Some("await"))
           Reaches(f, l) == f_pc' = [f_pc EXCEPT ![f] = l] /\ f_script' = f_script
           Returns(f) == f_pc' = [f_pc EXCEPT ![f] = "routine"] /\ Tailed(f) /\ ~Doing(f, "await") /\ ~Doing(f, "wait")
<1>91. ASSUME Moves, \A g \in AllFibers : Drops(g) => ~Doing(g, "await") /\ ~Doing(g, "wait")
       PROVE  WaitsEnd
  BY <1>91 DEF WaitsEnd, Doing
<1>92. ASSUME Moves
       PROVE  \A x : Some(x)' => Some(x)
  BY <1>14, <1>92 DEF Some
<1>93. ASSUME Moves, Deletes, DeletedLast, Deleting,
              (Some("fire") => Some("await"))' \/ \A g \in AllFibers : Drops(g) => ~Doing(g, "await"),
              ~Some("wait")' => \A g \in AllFibers : HasOp(g, "done")' => f_pc'[g] = "done last",
              \A g \in AllFibers : f_pc'[g] \in Ended => f_completed'
       PROVE  DeletedLast'
  <2>1. /\ f_deleted => ~Some("wait") /\ ~Some("await")
        /\ \A f \in AllFibers : NoRepeat(f_script[f], "wait")
        /\ \A f, g \in AllFibers : HasOp(f, "wait") /\ HasOp(g, "wait") => f = g
        /\ Some("fire") => Some("await")
    BY <1>93 DEF DeletedLast
  <2>2. f_deleted' => ~Some("wait")' /\ ~Some("await")'
    BY <1>92, <1>93, <2>1
  <2>3. \A f \in AllFibers : NoRepeat(f_script[f], "wait")'
    BY <1>14, <1>93, <2>1
  <2>4. \A f, g \in AllFibers : HasOp(f, "wait")' /\ HasOp(g, "wait")' => f = g
    BY <1>14, <1>93, <2>1
  <2>5. (Some("fire") => Some("await"))'
    <3>1. CASE \A g \in AllFibers : Drops(g) => ~Doing(g, "await")
      <4>1. \A g \in AllFibers : HasOp(g, "await") => HasOp(g, "await")'
        BY <1>14, <1>93, <3>1
      <4> QED BY <1>92, <1>93, <2>1, <4>1 DEF Some
    <3> QED BY <1>93, <3>1
  <2> QED BY <1>93, <2>2, <2>3, <2>4, <2>5 DEF DeletedLast
<1>94. ASSUME Moves, Deletes, ~Deleting
       PROVE  DeletedLast'
  <2>1. ~Deleting'
    BY <1>14, <1>94 DEF Deleting
  <2> QED BY <2>1 DEF DeletedLast, Deleting
<1>95. ASSUME Moves, Deletes, Deleting /\ DeletedLast => Steady, DeletedLast
       PROVE  DeletedLast'
  <2>1. CASE Deleting
    <3>1. Steady /\ (~Some("wait") => \A g \in AllFibers : HasOp(g, "done") => f_pc[g] = "done last")
          /\ \A g \in AllFibers : f_pc[g] \in Ended => f_completed
      BY <1>95, <2>1 DEF DeletedLast
    <3>2. ~Some("wait")' => ~Some("wait")
      <4>1. \A g \in AllFibers : HasOp(g, "wait") => HasOp(g, "wait")'
        BY <1>14, <1>95, <3>1
      <4> QED BY <4>1 DEF Some
    <3>3. ~Some("wait")' => \A g \in AllFibers : HasOp(g, "done")' => f_pc'[g] = "done last"
      BY <1>14, <3>1, <3>2
    <3>4. \A g \in AllFibers : f_pc'[g] \in Ended => f_completed'
      BY <3>1
    <3> QED BY <1>93, <1>95, <2>1, <3>1, <3>3, <3>4
  <2> QED BY <1>94, <1>95, <2>1
<1>96. ASSUME NEW f \in AllFibers, f_pc[f] # "done last", f_deleted' = f_deleted, f_completed => f_completed',
              NEW l, l \in Ended => f_pc[f] \in Ended \/ f_completed', Reaches(f, l) \/ Returns(f)
       PROVE  WaitsEnd /\ (DeletedLast => DeletedLast')
  <2>1. /\ Moves /\ (\A g \in AllFibers \ {f} : ~Drops(g)) /\ Alike(f)
        /\ Drops(f) => ~Doing(f, "await") /\ ~Doing(f, "wait")
        /\ f_pc'[f] \in Ended => f_pc[f] \in Ended \/ f_completed'
    <3>1. CASE Reaches(f, l)
      BY <1>13, <1>22, <1>96, <3>1
    <3>2. CASE Returns(f)
      BY <1>22, <1>71, <3>2
    <3> QED BY <1>96, <3>1, <3>2
  <2>2. Steady /\ Deletes
    BY <1>96, <2>1
  <2> QED BY <1>91, <1>95, <2>2
<1>97. ASSUME NEW f \in AllFibers, Fiber!MutexStep(f), UNCHANGED <<Fiber!groupVars, f_deleted>>
       PROVE  WaitsEnd /\ (DeletedLast => DeletedLast')
  <2>1. /\ f_completed' = f_completed /\ f_deleted' = f_deleted
        /\ \A g \in AllFibers : (f_pc[g] \in LockSteps => Doing(g, "lock")) /\ (f_pc[g] \in UnlockSteps => Doing(g, "unlock"))
        /\ \A o \in {"lock", "unlock"} : Doing(f, o) => ~Doing(f, "await") /\ ~Doing(f, "wait") /\ f_script[f] # <<>>
    BY <1>12, <1>97 DEF Fiber!groupVars, AtHead, Doing
  <2>2. CASE Fiber!LockTry(f)
    <3>1. /\ f_pc[f] \in {"routine", "lock again"}
          /\ Reaches(f, "lock mtx") \/ Returns(f)
          /\ f_completed => f_completed'
      BY <1>75, <2>1, <2>2 DEF Fiber!LockTry, LockSteps
    <3>2. "lock mtx" \notin Ended /\ f_pc[f] # "done last"
      BY <3>1
    <3> HIDE DEF Reaches, Returns, Ended
    <3> QED BY <1>96, <1>97, <2>1, <3>1, <3>2
  <2>3. CASE Fiber!LockMtx(f)
    <3>1. /\ f_pc[f] = "lock mtx"
          /\ Reaches(f, "lock mark")
          /\ f_completed => f_completed'
      BY <1>75, <2>1, <2>3 DEF Fiber!LockMtx
    <3>2. "lock mark" \notin Ended /\ f_pc[f] # "done last"
      BY <3>1
    <3> HIDE DEF Reaches, Returns, Ended
    <3> QED BY <1>96, <1>97, <2>1, <3>1, <3>2
  <2>4. CASE Fiber!LockMark(f)
    <3>1. /\ f_pc[f] = "lock mark"
          /\ Reaches(f, "lock again") \/ Reaches(f, "lock put")
          /\ f_completed => f_completed'
      BY <1>75, <2>1, <2>4 DEF Fiber!LockMark
    <3>2. "lock again" \notin Ended /\ "lock put" \notin Ended /\ f_pc[f] # "done last"
      BY <3>1
    <3> HIDE DEF Reaches, Returns, Ended
    <3> QED BY <1>96, <1>97, <2>1, <3>1, <3>2
  <2>5. CASE Fiber!LockPut(f)
    <3>1. /\ f_pc[f] = "lock put"
          /\ Reaches(f, "suspended")
          /\ f_completed => f_completed'
      BY <1>75, <2>1, <2>5 DEF Fiber!LockPut
    <3>2. "suspended" \notin Ended /\ f_pc[f] # "done last"
      BY <3>1
    <3> HIDE DEF Reaches, Returns, Ended
    <3> QED BY <1>96, <1>97, <2>1, <3>1, <3>2
  <2>6. CASE Fiber!UnlockTry(f)
    <3>1. /\ f_pc[f] = "routine"
          /\ Reaches(f, "unlock mtx") \/ Returns(f)
          /\ f_completed => f_completed'
      BY <1>75, <2>1, <2>6 DEF Fiber!UnlockTry
    <3>2. "unlock mtx" \notin Ended /\ f_pc[f] # "done last"
      BY <3>1
    <3> HIDE DEF Reaches, Returns, Ended
    <3> QED BY <1>96, <1>97, <2>1, <3>1, <3>2
  <2>7. CASE Fiber!UnlockMtx(f)
    <3>1. /\ f_pc[f] = "unlock mtx"
          /\ Reaches(f, "unlock take")
          /\ f_completed => f_completed'
      BY <1>75, <2>1, <2>7 DEF Fiber!UnlockMtx
    <3>2. "unlock take" \notin Ended /\ f_pc[f] # "done last"
      BY <3>1
    <3> HIDE DEF Reaches, Returns, Ended
    <3> QED BY <1>96, <1>97, <2>1, <3>1, <3>2
  <2>8. CASE Fiber!UnlockTake(f)
    <3>1. /\ f_pc[f] = "unlock take"
          /\ Reaches(f, "unlock schedule")
          /\ f_completed => f_completed'
      BY <1>75, <2>1, <2>8 DEF Fiber!UnlockTake
    <3>2. "unlock schedule" \notin Ended /\ f_pc[f] # "done last"
      BY <3>1
    <3> HIDE DEF Reaches, Returns, Ended
    <3> QED BY <1>96, <1>97, <2>1, <3>1, <3>2
  <2>9. CASE Fiber!UnlockSchedule(f)
    <3>1. PICK h : h = f_taken[f]
      OBVIOUS
    <3>2. f_pc[f] = "unlock schedule" /\ f_pc[f] \in Takers["lock"] /\ Doing(f, "unlock")
      BY <1>12, <1>7, <1>75, <2>9 DEF Fiber!UnlockSchedule, AtHead, UnlockSteps
    <3>3. /\ h \in AllFibers /\ h # f /\ f_pc[h] = "suspended" /\ Doing(h, "lock")
      BY <1>7, <1>80, <3>1, <3>2
    <3>4. /\ f_pc' = [f_pc EXCEPT ![f] = "routine", ![h] = "routine"]
          /\ f_script' = [f_script EXCEPT ![f] = Tail(@), ![h] = Tail(@)]
      BY <2>9, <3>1 DEF Fiber!UnlockSchedule
    <3>5. /\ \A g \in {f, h} : f_script[g] # <<>> /\ f_script[g] \in Seq(Ops) /\ f_script'[g] = Tail(f_script[g])
          /\ \A g \in AllFibers \ {f, h} : f_script'[g] = f_script[g]
          /\ \A g \in AllFibers : f_pc'[g] = "routine" \/ f_pc'[g] = f_pc[g]
      BY <1>13, <1>22, <3>2, <3>3, <3>4 DEF Doing
    <3>6. \A g \in {f, h} : ~Doing(g, "await") /\ ~Doing(g, "wait") /\ f_pc[g] # "done last"
      BY <3>2, <3>3 DEF Doing
    <3>7. f_script' \in [AllFibers -> Seq(Ops)]
      BY <1>13, <1>76, <3>4, <3>5
    <3>8. Moves /\ \A g \in AllFibers : Drops(g) => g \in {f, h}
      BY <3>5, <3>7
    <3>9. Steady
      <4>1. \A g \in AllFibers : f_pc[g] = "done last" => f_pc'[g] = "done last"
        BY <1>22, <3>2, <3>3, <3>4
      <4> QED BY <2>1, <3>5, <3>6, <3>8, <4>1
    <3> QED BY <1>91, <1>95, <2>1, <3>9
  <2> QED
    BY <1>97, <2>2, <2>3, <2>4, <2>5, <2>6, <2>7, <2>8, <2>9 DEF Fiber!MutexStep
<1>98. ASSUME NEW f \in AllFibers, Fiber!GroupStep(f), f_deleted' = f_deleted
       PROVE  WaitsEnd /\ (DeletedLast => DeletedLast')
  <2>1. /\ \A g \in AllFibers : (f_pc[g] \in DoneSteps => Doing(g, "done")) /\ (f_pc[g] \in WaitSteps => Doing(g, "wait"))
        /\ \A o \in {"add", "done"} : Doing(f, o) => ~Doing(f, "await") /\ ~Doing(f, "wait") /\ f_script[f] # <<>>
        /\ f_completed \in BOOLEAN
    BY <1>12 DEF AtHead, Doing, FiberTypes
  <2>2. CASE Fiber!Add(f)
    <3>1. /\ f_pc[f] = "routine"
          /\ Returns(f)
          /\ f_completed => f_completed'
      BY <1>75, <2>1, <2>2 DEF Fiber!Add
    <3>2. "routine" \notin Ended /\ f_pc[f] # "done last"
      BY <3>1
    <3> HIDE DEF Reaches, Returns, Ended
    <3> QED BY <1>96, <1>98, <2>1, <3>1, <3>2
  <2>3. CASE Fiber!DoneSub(f)
    <3>1. /\ f_pc[f] = "routine"
          /\ Reaches(f, "done lock") \/ Returns(f)
          /\ f_completed => f_completed'
      BY <1>75, <2>1, <2>3 DEF Fiber!DoneSub
    <3>2. "done lock" \notin Ended /\ f_pc[f] # "done last"
      BY <3>1
    <3> HIDE DEF Reaches, Returns, Ended
    <3> QED BY <1>96, <1>98, <2>1, <3>1, <3>2
  <2>4. CASE Fiber!DoneLock(f)
    <3>1. /\ f_pc[f] = "done lock"
          /\ Reaches(f, "done look")
          /\ f_completed => f_completed'
      BY <1>75, <2>1, <2>4 DEF Fiber!DoneLock
    <3>2. "done look" \notin Ended /\ f_pc[f] # "done last"
      BY <3>1
    <3> HIDE DEF Reaches, Returns, Ended
    <3> QED BY <1>96, <1>98, <2>1, <3>1, <3>2
  <2>5. CASE Fiber!DoneLook(f)
    <3>1. /\ f_pc[f] = "done look"
          /\ Reaches(f, "done empty") \/ Reaches(f, "done take")
          /\ f_completed => f_completed'
      BY <1>75, <2>1, <2>5 DEF Fiber!DoneLook
    <3>2. "done empty" \notin Ended /\ "done take" \notin Ended /\ f_pc[f] # "done last"
      BY <3>1
    <3> HIDE DEF Reaches, Returns, Ended
    <3> QED BY <1>96, <1>98, <2>1, <3>1, <3>2
  <2>6. CASE Fiber!DoneEmpty(f)
    <3>1. /\ f_pc[f] = "done empty"
          /\ Returns(f)
          /\ f_completed => f_completed'
      BY <1>75, <2>1, <2>6 DEF Fiber!DoneEmpty, DoneSteps
    <3>2. "routine" \notin Ended /\ f_pc[f] # "done last"
      BY <3>1
    <3> HIDE DEF Reaches, Returns, Ended
    <3> QED BY <1>96, <1>98, <2>1, <3>1, <3>2
  <2>7. CASE Fiber!DoneTake(f)
    <3>1. /\ f_pc[f] = "done take"
          /\ Reaches(f, "done flag") \/ Reaches(f, "done next")
          /\ f_completed => f_completed'
      BY <1>75, <2>1, <2>7 DEF Fiber!DoneTake
    <3>2. "done flag" \notin Ended /\ "done next" \notin Ended /\ f_pc[f] # "done last"
      BY <3>1
    <3> HIDE DEF Reaches, Returns, Ended
    <3> QED BY <1>96, <1>98, <2>1, <3>1, <3>2
  <2>8. CASE Fiber!DoneFlag(f)
    <3>1. /\ f_pc[f] = "done flag"
          /\ Reaches(f, "done last")
          /\ f_completed => f_completed'
      BY <1>75, <2>1, <2>8 DEF Fiber!DoneFlag
    <3>2. "done last" \notin Ended /\ f_pc[f] # "done last"
      BY <3>1
    <3> HIDE DEF Reaches, Returns, Ended
    <3> QED BY <1>96, <1>98, <2>1, <3>1, <3>2
  <2>9. CASE Fiber!WaitCall(f)
    <3>1. /\ f_pc[f] = "routine"
          /\ Reaches(f, "wait lock")
          /\ f_completed => f_completed'
      BY <1>75, <2>1, <2>9 DEF Fiber!WaitCall
    <3>2. "wait lock" \notin Ended /\ f_pc[f] # "done last"
      BY <3>1
    <3> HIDE DEF Reaches, Returns, Ended
    <3> QED BY <1>96, <1>98, <2>1, <3>1, <3>2
  <2>10. CASE Fiber!WaitLock(f)
    <3>1. /\ f_pc[f] = "wait lock"
          /\ Reaches(f, "wait look")
          /\ f_completed => f_completed'
      BY <1>75, <2>1, <2>10 DEF Fiber!WaitLock
    <3>2. "wait look" \notin Ended /\ f_pc[f] # "done last"
      BY <3>1
    <3> HIDE DEF Reaches, Returns, Ended
    <3> QED BY <1>96, <1>98, <2>1, <3>1, <3>2
  <2>11. CASE Fiber!TryEnqueue(f)
    <3>1. /\ f_pc[f] = "wait look"
          /\ Reaches(f, "suspended") \/ Reaches(f, "wait count")
          /\ f_completed => f_completed'
      BY <1>75, <2>1, <2>11 DEF Fiber!TryEnqueue
    <3>2. "suspended" \notin Ended /\ "wait count" \notin Ended /\ f_pc[f] # "done last"
      BY <3>1
    <3> HIDE DEF Reaches, Returns, Ended
    <3> QED BY <1>96, <1>98, <2>1, <3>1, <3>2
  <2>12. CASE Fiber!WaitSpin(f)
    <3>1. /\ f_pc[f] = "wait spin"
          /\ Reaches(f, "wait schedule")
          /\ f_completed /\ (f_completed => f_completed')
      BY <1>75, <2>1, <2>12 DEF Fiber!WaitSpin, Fiber!groupVars
    <3>2. f_completed'
      BY <3>1
    <3>3. f_pc[f] # "done last"
      BY <3>1
    <3> HIDE DEF Reaches, Returns, Ended
    <3> QED BY <1>96, <1>98, <3>1, <3>2, <3>3
  <2>13. CASE Fiber!WaitSchedule(f)
    <3>1. /\ f_pc[f] = "wait schedule"
          /\ Reaches(f, "waited")
          /\ f_completed => f_completed'
      BY <1>75, <2>1, <2>13 DEF Fiber!WaitSchedule, Fiber!groupVars
    <3>2. f_pc[f] \in Ended /\ f_pc[f] # "done last"
      BY <3>1
    <3> HIDE DEF Reaches, Returns, Ended
    <3> QED BY <1>96, <1>98, <2>1, <3>1, <3>2
  <2>14. CASE Fiber!WaitCount(f)
    <3>1. PICK l : l = IF f_inWait = 1 THEN "wait spin" ELSE "wait schedule"
      OBVIOUS
    <3>2. /\ f_pc[f] = "wait count" /\ f_pc' = [f_pc EXCEPT ![f] = l] /\ f_script' = f_script
          /\ f_completed' = f_completed /\ Doing(f, "wait")
      BY <1>75, <2>1, <2>14, <3>1 DEF Fiber!WaitCount, Fiber!groupVars, WaitSteps
    <3>3. Moves /\ (\A g \in AllFibers : ~Drops(g)) /\ Alike(f) /\ f_pc'[f] = l
      BY <1>13, <1>22, <3>2
    <3>4. ASSUME DeletedLast, Deleting
          PROVE  Steady
      <4>1. \A g \in Inside : g = f
        BY <1>15, <3>2, <3>4 DEF DeletedLast, Inside
      <4>2. f \in Inside
        BY <3>2 DEF Inside
      <4>3. Inside = {f}
        BY <4>1, <4>2
      <4>4. f_inWait = 1
        BY <1>12, <4>3, FS_Singleton DEF WaitsKept
      <4>5. l = "wait spin" /\ l \notin Ended /\ f_pc[f] # "done last"
        BY <3>1, <3>2, <4>4
      <4> QED BY <3>2, <3>3, <4>5
    <3> QED BY <1>91, <1>95, <2>1, <1>98, <3>3, <3>4
  <2>15. CASE Fiber!DoneSchedule(f)
    <3>1. PICK h : h = f_taken[f]
      OBVIOUS
    <3>2. PICK a : a = IF f_pc[f] = "done last" THEN "routine" ELSE "done take"
      OBVIOUS
    <3>3. f_pc[f] \in {"done next", "done last"} /\ f_pc[f] \in Takers["wait"] /\ f_pc[f] \in DoneSteps
      BY <1>7, <1>75, <2>15 DEF Fiber!DoneSchedule, DoneSteps
    <3>4. f \in Finishing /\ Doing(f, "done") /\ ~Doing(f, "wait") /\ ~Doing(f, "await")
      BY <2>1, <3>3 DEF Finishing, Doing
    <3>5. /\ h \in AllFibers /\ h # f /\ f_pc[h] = "suspended" /\ Doing(h, "wait")
      BY <1>7, <1>80, <3>1, <3>3
    <3>6. /\ f_pc' = [f_pc EXCEPT ![h] = "waited", ![f] = a]
          /\ f_script' = [f_script EXCEPT ![f] = IF f_pc[f] = "done last" THEN Tail(@) ELSE @]
          /\ f_completed' = f_completed /\ f_countdown' = f_countdown
      BY <2>15, <3>1, <3>2 DEF Fiber!DoneSchedule, Fiber!groupVars
    <3>7. /\ f_script[f] # <<>> /\ f_script[f] \in Seq(Ops)
          /\ f_script'[f] = IF f_pc[f] = "done last" THEN Tail(f_script[f]) ELSE f_script[f]
          /\ \A g \in AllFibers \ {f} : f_script'[g] = f_script[g]
          /\ f_pc'[f] = a /\ f_pc'[h] = "waited" /\ \A g \in AllFibers \ {f, h} : f_pc'[g] = f_pc[g]
      BY <1>13, <1>22, <3>4, <3>5, <3>6 DEF Doing
    <3>8. Moves /\ (Drops(f) <=> a = "routine") /\ \A g \in AllFibers \ {f} : ~Drops(g)
      <4>1. f_script' \in [AllFibers -> Seq(Ops)]
        BY <1>13, <1>76, <3>6, <3>7
      <4>2. (Drops(f) <=> a = "routine") /\ \A g \in AllFibers \ {f} : ~Drops(g)
        BY <1>76, <3>2, <3>7
      <4> QED BY <3>7, <4>1, <4>2
    <3>9. f_pc[f] = "done last" => \A g \in AllFibers : ~HasOp(g, "done")'
      <4> SUFFICES ASSUME f_pc[f] = "done last"
                   PROVE  \A g \in AllFibers : ~HasOp(g, "done")'
        OBVIOUS
      <4>1. a = "routine"
        BY <3>2
      <4>2. \A g \in AllFibers \ {f} : f_pc'[g] \in DoneSteps => f_pc[g] \in DoneSteps
        BY <3>7 DEF DoneSteps
      <4> QED BY <1>59, <3>4, <3>6, <3>7, <3>8, <4>1, <4>2
    <3>10. ASSUME DeletedLast, Deleting
           PROVE  Steady
      <4>1. f_pc[f] = "done last"
        <5> SUFFICES ASSUME f_pc[f] = "done next"
                     PROVE  FALSE
          BY <3>3
        <5>1. f_queued # <<>> /\ f_queued \in Seq(AllFibers) /\ Queues["wait"] = f_queued
          BY <1>12, <1>7, <1>22 DEF DoneOnce, Queues
        <5>2. PICK k \in AllFibers : k = Head(f_queued)
          BY <1>2, <5>1
        <5>3. Among(Queues["wait"], k) /\ ~Among(Queues["wait"], h)
          <6>1. Among(Queues["wait"], k)
            BY <1>3, <5>1, <5>2
          <6>2. ~Among(Queues["wait"], h)
            BY <1>12, <1>7, <3>1, <3>5 DEF Suspended
          <6> QED BY <6>1, <6>2
        <5>4. Doing(k, "wait")
          BY <1>12, <1>7, <5>3 DEF Suspended
        <5>5. HasOp(k, "wait") /\ HasOp(h, "wait")
          BY <1>15, <3>5, <5>4
        <5>6. k = h
          BY <3>5, <3>10, <5>5 DEF DeletedLast
        <5> QED BY <5>3, <5>6
      <4>2. f_completed
        BY <1>12, <4>1 DEF DoneOnce
      <4>3. \A g \in AllFibers : f_pc[g] = "done last" => ~HasOp(g, "done")'
        BY <3>9, <4>1
      <4>4. \A g \in AllFibers : Drops(g) => ~Doing(g, "await") /\ ~Doing(g, "wait")
        BY <3>4, <3>8
      <4> QED BY <3>6, <3>8, <4>2, <4>3, <4>4
    <3>11. WaitsEnd
      BY <1>91, <3>4, <3>8
    <3> QED BY <1>95, <1>98, <3>8, <3>10, <3>11
  <2>16. CASE Fiber!WaitReturn(f)
    <3>1. /\ Carried(f) /\ f_pc[f] = "waited" /\ Doing(f, "wait") /\ Tailed(f) /\ f_completed' = f_completed
          /\ f_pc' = [f_pc EXCEPT ![f] = "routine"]
      <4>1. f_pc[f] = "waited" /\ Doing(f, "wait") /\ f_script[f] # <<>>
        BY <1>75, <2>1, <2>16 DEF Fiber!WaitReturn, WaitSteps, Doing
      <4> QED BY <1>75, <2>16, <4>1 DEF Fiber!WaitReturn
    <3>2. Moves /\ Drops(f) /\ (\A g \in AllFibers \ {f} : ~Drops(g)) /\ Alike(f) /\ f_pc'[f] = "routine"
      BY <1>22, <1>71, <3>1
    <3>3. f_countdown = 0 /\ ~Doing(f, "await") /\ ~Doing(f, "add") /\ ~Doing(f, "done")
      BY <1>12, <3>1 DEF DoneOnce, Late, Doing
    <3>4. WaitsEnd
      BY <3>1, <3>2, <3>3 DEF WaitsEnd, Doing
    <3>5. ASSUME DeletedLast, Deleting
          PROVE  DeletedLast'
      <4>1. f_completed
        BY <3>1, <3>5 DEF DeletedLast
      <4>2. ASSUME NEW g \in AllFibers, HasOp(g, "done")
            PROVE  f_pc[g] = "done last"
        <5>1. Cardinality(Announced) = 0
          BY <1>52, <3>1, <3>3
        <5>2. Finishing # {}
          <6> SUFFICES ASSUME Finishing = {}
                       PROVE  FALSE
            OBVIOUS
          <6>1. Cardinality(Undone) = 0
            BY <1>51, <3>3, <5>1
          <6>2. Undone = {}
            BY <1>51, <6>1, FS_EmptySet
          <6> QED BY <1>49, <4>2, <6>2
        <5>3. PICK e \in Finishing : TRUE
          BY <5>2
        <5>4. e = g /\ f_pc[e] \in DoneSteps
          BY <1>53, <4>2, <5>3
        <5> QED BY <1>12, <4>1, <5>4 DEF DoneOnce
      <4>3. \A g \in AllFibers : HasOp(g, "done")' => f_pc'[g] = "done last"
        <5>1. ASSUME NEW g \in AllFibers, HasOp(g, "done")'
              PROVE  f_pc'[g] = "done last"
          <6>1. f_pc[g] = "done last"
            BY <1>14, <3>2, <4>2, <5>1
          <6> QED BY <3>1, <3>2, <6>1
        <5> QED BY <5>1
      <4>4. \A g \in AllFibers : Drops(g) => ~Doing(g, "await")
        BY <3>2, <3>3
      <4> QED BY <1>93, <1>98, <3>1, <3>2, <3>5, <4>1, <4>3, <4>4
    <3> QED BY <1>94, <1>98, <3>2, <3>4, <3>5
  <2> QED
    BY <1>98, <2>2, <2>3, <2>4, <2>5, <2>6, <2>7, <2>8, <2>9, <2>10, <2>11, <2>12, <2>13, <2>14, <2>15, <2>16 DEF Fiber!GroupStep
<1>99. ASSUME Moves, Deletes, DeletedLast, Deleting, (Some("fire") => Some("await"))', f_completed => f_completed',
              \A g \in AllFibers :
                /\ Drops(g) => ~Doing(g, "wait")
                /\ f_pc'[g] \in Ended => f_pc[g] \in Ended
                /\ f_pc[g] = "done last" => f_pc'[g] = "done last"
       PROVE  DeletedLast'
  <2>1. (~Some("wait") => \A g \in AllFibers : HasOp(g, "done") => f_pc[g] = "done last")
        /\ \A g \in AllFibers : f_pc[g] \in Ended => f_completed
    BY <1>99 DEF DeletedLast
  <2>2. ~Some("wait")' => ~Some("wait")
    <3>1. \A g \in AllFibers : HasOp(g, "wait") => HasOp(g, "wait")'
      BY <1>14, <1>99
    <3> QED BY <3>1 DEF Some
  <2>3. ~Some("wait")' => \A g \in AllFibers : HasOp(g, "done")' => f_pc'[g] = "done last"
    BY <1>14, <1>99, <2>1, <2>2
  <2>4. \A g \in AllFibers : f_pc'[g] \in Ended => f_completed'
    BY <1>99, <2>1
  <2> QED BY <1>93, <1>99, <2>3, <2>4
<1>100. ASSUME f_waiting # <<>>
       PROVE  \E k \in AllFibers : /\ Among(Queues["await"], k) /\ f_pc[k] = "suspended"
                                   /\ Doing(k, "await") /\ HasOp(k, "await")
  <2>1. f_waiting \in Seq(AllFibers) /\ Queues["await"] = f_waiting
    BY <1>7, <1>22 DEF Queues
  <2>2. PICK k \in AllFibers : k = Head(f_waiting)
    BY <1>2, <1>100, <2>1
  <2>3. Among(Queues["await"], k)
    BY <1>3, <1>100, <2>1, <2>2
  <2>4. f_pc[k] = "suspended" /\ Doing(k, "await")
    BY <1>12, <1>7, <2>3 DEF Suspended
  <2> QED BY <1>15, <2>3, <2>4
<1>101. ASSUME NEW f \in AllFibers, Fiber!EventStep(f), UNCHANGED <<Fiber!groupVars, f_deleted>>
       PROVE  WaitsEnd /\ (DeletedLast => DeletedLast')
  <2>1. /\ f_completed' = f_completed /\ f_countdown' = f_countdown /\ f_deleted' = f_deleted
        /\ \A g \in AllFibers : (f_pc[g] \in AwaitSteps => Doing(g, "await")) /\ (f_pc[g] \in FireSteps => Doing(g, "fire"))
        /\ Doing(f, "fire") => ~Doing(f, "await") /\ ~Doing(f, "wait") /\ f_script[f] # <<>>
    BY <1>12, <1>101 DEF Fiber!groupVars, AtHead, Doing
  <2>2. CASE Fiber!AwaitLock(f)
    <3>1. /\ f_pc[f] = "routine"
          /\ Reaches(f, "await look")
      BY <1>75, <2>1, <2>2 DEF Fiber!AwaitLock
    <3>2. "await look" \notin Ended /\ f_pc[f] # "done last"
      BY <3>1
    <3> HIDE DEF Reaches, Returns, Ended
    <3> QED BY <1>96, <1>101, <2>1, <3>1, <3>2
  <2>3. CASE Fiber!AwaitLook(f)
    <3>1. /\ f_pc[f] = "await look"
          /\ Reaches(f, "await schedule") \/ Reaches(f, "suspended")
      BY <1>75, <2>1, <2>3 DEF Fiber!AwaitLook
    <3>2. "await schedule" \notin Ended /\ "suspended" \notin Ended /\ f_pc[f] # "done last"
      BY <3>1
    <3> HIDE DEF Reaches, Returns, Ended
    <3> QED BY <1>96, <1>101, <2>1, <3>1, <3>2
  <2>4. CASE Fiber!FireLock(f)
    <3>1. /\ f_pc[f] = "routine"
          /\ Reaches(f, "fire set")
      BY <1>75, <2>1, <2>4 DEF Fiber!FireLock
    <3>2. "fire set" \notin Ended /\ f_pc[f] # "done last"
      BY <3>1
    <3> HIDE DEF Reaches, Returns, Ended
    <3> QED BY <1>96, <1>101, <2>1, <3>1, <3>2
  <2>5. CASE Fiber!FireSet(f)
    <3>1. /\ f_pc[f] = "fire set"
          /\ Reaches(f, "fire take") \/ Returns(f)
      BY <1>75, <2>1, <2>5 DEF Fiber!FireSet, FireSteps
    <3>2. "fire take" \notin Ended /\ f_pc[f] # "done last"
      BY <3>1
    <3> HIDE DEF Reaches, Returns, Ended
    <3> QED BY <1>96, <1>101, <2>1, <3>1, <3>2
  <2>6. CASE Fiber!FireTake(f)
    <3>1. /\ f_pc[f] = "fire take"
          /\ Reaches(f, "fire last") \/ Reaches(f, "fire next")
      BY <1>75, <2>1, <2>6 DEF Fiber!FireTake
    <3>2. "fire last" \notin Ended /\ "fire next" \notin Ended /\ f_pc[f] # "done last"
      BY <3>1
    <3> HIDE DEF Reaches, Returns, Ended
    <3> QED BY <1>96, <1>101, <2>1, <3>1, <3>2
  <2>7. CASE Fiber!AwaitSchedule(f)
    <3>1. /\ f_pc[f] = "await schedule" /\ Doing(f, "await") /\ Tailed(f) /\ f_fired
          /\ f_pc' = [f_pc EXCEPT ![f] = "routine"]
      <4>1. f_pc[f] = "await schedule" /\ Doing(f, "await") /\ f_script[f] # <<>> /\ f_fired
        BY <1>12, <1>75, <2>1, <2>7 DEF Fiber!AwaitSchedule, AwaitSteps, Doing, FiredOnce
      <4> QED BY <1>75, <2>7, <4>1 DEF Fiber!AwaitSchedule
    <3>2. Moves /\ Drops(f) /\ (\A g \in AllFibers \ {f} : ~Drops(g)) /\ Alike(f) /\ f_pc'[f] = "routine"
      BY <1>22, <1>71, <3>1
    <3>3. ~Doing(f, "wait")
      BY <3>1 DEF Doing
    <3>4. WaitsEnd
      BY <3>1, <3>2, <3>3 DEF WaitsEnd, Doing
    <3>5. (Some("fire") => Some("await"))'
      <4> SUFFICES ASSUME NEW e \in AllFibers, HasOp(e, "fire")'
                   PROVE  \E g \in AllFibers : HasOp(g, "await")'
        BY DEF Some
      <4>1. f_pc[e] \in {"fire take", "fire next", "fire last"}
        BY <1>12, <1>14, <3>1, <3>2 DEF FiredOnce
      <4>2. PICK k \in AllFibers : f_pc[k] = "suspended" /\ HasOp(k, "await")
        <5>1. CASE f_pc[e] \in {"fire take", "fire next"}
          BY <1>12, <1>100, <5>1 DEF FiredOnce
        <5>2. CASE f_pc[e] = "fire last"
          BY <1>15, <1>7, <1>80, <5>2
        <5> QED BY <4>1, <5>1, <5>2
      <4>3. k # f
        BY <3>1, <4>2
      <4> QED BY <1>14, <3>2, <4>2, <4>3
    <3>6. ASSUME NEW g \in AllFibers
          PROVE  /\ Drops(g) => ~Doing(g, "wait")
                 /\ f_pc'[g] \in Ended => f_pc[g] \in Ended
                 /\ f_pc[g] = "done last" => f_pc'[g] = "done last"
      BY <3>1, <3>2, <3>3
    <3> QED BY <1>94, <1>99, <2>1, <3>2, <3>4, <3>5, <3>6
  <2>8. CASE Fiber!FireSchedule(f)
    <3>1. PICK h : h = f_taken[f]
      OBVIOUS
    <3>2. PICK a : a = IF f_pc[f] = "fire last" THEN "routine" ELSE "fire take"
      OBVIOUS
    <3>3. f_pc[f] \in {"fire next", "fire last"} /\ f_pc[f] \in Takers["await"] /\ f_pc[f] \in FireSteps
      BY <1>7, <1>75, <2>8 DEF Fiber!FireSchedule, FireSteps
    <3>4. f_fired /\ Doing(f, "fire") /\ (f_pc[f] = "fire next" => f_waiting # <<>>)
      BY <1>12, <2>1, <3>3 DEF FiredOnce
    <3>5. /\ h \in AllFibers /\ h # f /\ f_pc[h] = "suspended" /\ Doing(h, "await")
      BY <1>7, <1>80, <3>1, <3>3
    <3>6. /\ f_pc' = [f_pc EXCEPT ![h] = "routine", ![f] = a]
          /\ f_script' = [f_script EXCEPT ![h] = Tail(@), ![f] = IF f_pc[f] = "fire last" THEN Tail(@) ELSE @]
      BY <2>8, <3>1, <3>2 DEF Fiber!FireSchedule
    <3>7. /\ \A g \in {f, h} : f_script[g] # <<>> /\ f_script[g] \in Seq(Ops)
          /\ f_script'[h] = Tail(f_script[h])
          /\ f_script'[f] = IF f_pc[f] = "fire last" THEN Tail(f_script[f]) ELSE f_script[f]
          /\ \A g \in AllFibers \ {f, h} : f_script'[g] = f_script[g]
          /\ f_pc'[f] = a /\ f_pc'[h] = "routine" /\ \A g \in AllFibers \ {f, h} : f_pc'[g] = f_pc[g]
      BY <1>13, <1>22, <3>4, <3>5, <3>6 DEF Doing
    <3>8. /\ Drops(h) /\ (Drops(f) <=> a = "routine") /\ Moves
          /\ \A g \in AllFibers \ {f, h} : ~Drops(g)
      <4>1. f_script' \in [AllFibers -> Seq(Ops)]
        BY <1>13, <1>76, <3>6, <3>7
      <4>2. Drops(h) /\ (Drops(f) <=> a = "routine") /\ \A g \in AllFibers \ {f, h} : ~Drops(g)
        BY <1>76, <3>2, <3>7
      <4> QED BY <3>7, <4>1, <4>2
    <3>9. ~Doing(f, "await") /\ ~Doing(f, "wait") /\ ~Doing(h, "wait")
      BY <3>4, <3>5 DEF Doing
    <3>10. WaitsEnd
      <4>1. ASSUME NEW g \in AllFibers, Drops(g)
            PROVE  (g = f \/ g = h) /\ f_script[g] # <<>>
        BY <3>7, <3>8, <4>1
      <4> QED BY <3>4, <3>9, <4>1 DEF WaitsEnd, Doing
    <3>11. (Some("fire") => Some("await"))'
      <4>1. CASE a = "routine"
        <5>1. ASSUME NEW g \in AllFibers, HasOp(g, "fire")'
              PROVE  FALSE
          <6>1. HasOp(g, "fire") /\ HasOp(f, "fire")
            BY <1>14, <1>15, <3>4, <3>8, <5>1
          <6>2. g = f /\ NoRepeat(f_script[f], "fire")
            BY <1>12, <6>1 DEF Routines, WellFormed
          <6> QED BY <1>14, <3>4, <3>8, <4>1, <5>1, <6>2
        <5> QED BY <5>1 DEF Some
      <4>2. CASE f_pc[f] = "fire next"
        <5>1. PICK k \in AllFibers : Among(Queues["await"], k) /\ f_pc[k] = "suspended" /\ HasOp(k, "await")
          BY <1>100, <3>4, <4>2
        <5>2. k # h
          BY <1>12, <1>7, <3>1, <3>5, <5>1 DEF Suspended
        <5>3. k # f
          BY <3>3, <5>1
        <5>4. HasOp(k, "await")'
          BY <1>14, <3>8, <5>1, <5>2, <5>3
        <5> QED BY <5>4 DEF Some
      <4> QED BY <3>2, <3>3, <4>1, <4>2
    <3>12. ASSUME NEW g \in AllFibers
           PROVE  /\ Drops(g) => ~Doing(g, "wait")
                  /\ f_pc'[g] \in Ended => f_pc[g] \in Ended
                  /\ f_pc[g] = "done last" => f_pc'[g] = "done last"
      <4>1. f_pc'[f] \notin Ended /\ f_pc'[h] \notin Ended /\ f_pc[f] # "done last" /\ f_pc[h] # "done last"
        BY <3>2, <3>3, <3>5, <3>7
      <4> QED BY <3>7, <3>8, <3>9, <4>1
    <3> QED BY <1>94, <1>99, <2>1, <3>8, <3>10, <3>11, <3>12
  <2> QED
    BY <1>101, <2>2, <2>3, <2>4, <2>5, <2>6, <2>7, <2>8 DEF Fiber!EventStep
<1>102. ASSUME NEW f \in AllFibers, Fiber!FiberStep(f), UNCHANGED <<Fiber!groupVars, f_deleted>>
       PROVE  WaitsEnd /\ (DeletedLast => DeletedLast')
  <2>1. f_completed' = f_completed /\ f_deleted' = f_deleted
    BY <1>102 DEF Fiber!groupVars
  <2>2. f_pc[f] = "routine" /\ "routine" \notin Ended /\ "deleted" \notin Ended
    BY <1>75, <1>102 DEF Fiber!FiberStep, Fiber!Go, Fiber!Yield, Fiber!Complete
  <2>3. Returns(f) \/ Reaches(f, "deleted")
    <3>1. CASE Fiber!Go(f)
      <4>1. f_script[f] # <<>> /\ Head(f_script[f]) \in AllFibers /\ Fiber!Return(f)
        BY <3>1 DEF Fiber!Go
      <4>2. ~Doing(f, "await") /\ ~Doing(f, "wait")
        BY <1>1, <4>1 DEF Doing
      <4> QED BY <1>75, <4>1, <4>2
    <3>2. CASE Fiber!Yield(f)
      <4>1. Doing(f, "yield") /\ f_script[f] # <<>> /\ Fiber!Return(f)
        BY <1>75, <3>2 DEF Fiber!Yield, Doing
      <4>2. ~Doing(f, "await") /\ ~Doing(f, "wait")
        BY <4>1 DEF Doing
      <4> QED BY <1>75, <4>1, <4>2
    <3>3. CASE Fiber!Complete(f)
      BY <1>75, <3>3 DEF Fiber!Complete
    <3> QED BY <1>102, <3>1, <3>2, <3>3 DEF Fiber!FiberStep
  <2>4. f_pc[f] # "done last" /\ (f_completed => f_completed')
    BY <2>1, <2>2
  <2> HIDE DEF Reaches, Returns, Ended
  <2> QED BY <1>96, <2>1, <2>2, <2>3, <2>4
<1>103. ASSUME NEW f \in AllFibers, Fiber!Delete(f)
       PROVE  WaitsEnd /\ (DeletedLast => DeletedLast')
  <2>1. /\ Doing(f, "delete") /\ Tailed(f) /\ f_pc[f] = "routine" /\ f_pc' = [f_pc EXCEPT ![f] = "routine"]
        /\ f_completed' = f_completed
    BY <1>75, <1>103 DEF Fiber!Delete, Fiber!groupVars, Doing
  <2>2. ~Some("wait") /\ ~Some("await")
    <3> SUFFICES ASSUME NEW g \in AllFibers, NEW x \in {"wait", "await"}, HasOp(g, x)
                 PROVE  FALSE
      BY DEF Some
    <3>1. x \notin {f_script[g][i] : i \in DOMAIN f_script[g]}
      BY <1>103 DEF Fiber!Delete, Fiber!Ops
    <3>2. DOMAIN f_script[g] = 1..Len(f_script[g])
      BY <1>13
    <3> QED BY <3>1, <3>2 DEF HasOp, Among
  <2>3. Deleting /\ ~Doing(f, "await") /\ ~Doing(f, "wait")
    BY <1>15, <2>1 DEF Deleting, Doing
  <2>4. Moves /\ Drops(f) /\ (\A g \in AllFibers \ {f} : ~Drops(g)) /\ \A g \in AllFibers : f_pc'[g] = f_pc[g]
    BY <1>22, <1>71, <2>1
  <2> QED BY <1>91, <1>95, <2>1, <2>2, <2>3, <2>4
<1>104. ASSUME UNCHANGED <<f_script, f_pc, f_completed, f_deleted>>
       PROVE  WaitsEnd /\ (DeletedLast => DeletedLast')
  <2>1. Moves /\ (\A g \in AllFibers : ~Drops(g) /\ f_pc'[g] = f_pc[g])
    BY <1>13, <1>104
  <2> QED BY <1>91, <1>95, <1>104, <2>1
<1>105. WaitsEnd /\ (DeletedLast => DeletedLast')
  <2>1. ASSUME FibersOnly, Fiber!Next
        PROVE  WaitsEnd /\ (DeletedLast => DeletedLast')
    <3>1. CASE Fiber!Terminated
      BY <1>104, <3>1 DEF Fiber!Terminated, Fiber!vars, Fiber!fiberVars, Fiber!groupVars
    <3>2. ASSUME NEW f \in AllFibers, Fiber!Step(f)
          PROVE  WaitsEnd /\ (DeletedLast => DeletedLast')
      BY <1>97, <1>98, <1>101, <1>102, <1>103, <3>2 DEF Fiber!Step
    <3>3. ASSUME NEW w \in Carriers, Fiber!Resume(w)
          PROVE  WaitsEnd /\ (DeletedLast => DeletedLast')
      BY <1>104, <3>3 DEF Fiber!Resume, Fiber!Run, Fiber!groupVars
    <3> QED BY <2>1, <3>1, <3>2, <3>3 DEF Fiber!Next
  <2>2. Next => UNCHANGED fiberVars \/ (FibersOnly /\ Fiber!Next)
    BY DEF Next, StrandOnly, CombineOnly, ChainOnly, SleepOnly
  <2>3. UNCHANGED vars => UNCHANGED fiberVars
    BY DEF vars
  <2>4. UNCHANGED fiberVars => WaitsEnd /\ (DeletedLast => DeletedLast')
    BY <1>104 DEF fiberVars
  <2> QED BY <2>1, <2>2, <2>3, <2>4
<1> QED BY <1>90, <1>105

(* Exclusive of MCTasks, for any number of fibers: between its Lock() and its      *)
(* Unlock() a fiber is alone, also when Unlock() hands the mutex over to the next   *)
(* one of the queue and the state never says that it is free (mutex.hpp).        *)
THEOREM MutexHasOneOwner == Spec => []Exclusive
<1>1. FiberInv => Exclusive
  <2> SUFFICES ASSUME FiberInv, NEW f \in AllFibers, NEW g \in AllFibers, Fiber!InCritical(f), Fiber!InCritical(g)
               PROVE  f = g
    BY DEF Exclusive, Fiber!Exclusive
  <2>1. \A h \in {f, g} : f_pc[h] = "routine" /\ Locked(f_script[h])
    BY DEF Fiber!InCritical, Fiber!Owns, Locked
  <2>2. Owner(f) /\ Owner(g)
    BY <2>1 DEF Owner
  <2> QED BY <2>2 DEF FiberInv, OneOwner
<1> QED BY <1>1, FiberInductive, PTL DEF Spec

(* OnePlace of MCTasks: from its Go() until it is deleted a fiber is in one place,  *)
(* on a worker, among the tasks of the pool, in the queue of one primitive, or in   *)
(* the hands of the fiber that took it from there: never lost, never resumed twice. *)
THEOREM FibersAreInOnePlace == Spec => []OnePlace
<1>1. FiberInv => OnePlace
  <2> SUFFICES ASSUME FiberInv
               PROVE  OnePlace
    OBVIOUS
  <2>1. FiberTypes /\ Suspended /\ Scheduled /\ Nothing \notin AllFibers
    BY RoutinesAssumption DEF FiberInv
  <2>2. /\ f_parked \in Seq(AllFibers) /\ f_waiting \in Seq(AllFibers) /\ f_queued \in Seq(AllFibers)
        /\ Queues["lock"] = f_parked /\ Queues["await"] = f_waiting /\ Queues["wait"] = f_queued
        /\ Parking = {"lock", "await", "wait"} /\ f_ready \in Seq(AllFibers)
    <3>1. Parking = {"lock", "await", "wait"}
      BY DEF Parking
    <3>2. Queues["lock"] = f_parked /\ Queues["await"] = f_waiting /\ Queues["wait"] = f_queued
      BY <3>1 DEF Queues
    <3>3. \A op \in Parking : Queues[op] \in Seq(AllFibers)
      BY <2>1 DEF FiberTypes
    <3> QED BY <2>1, <3>1, <3>2, <3>3 DEF FiberTypes
  <2>3. Fiber!TypeOK
    BY <2>1 DEF FiberTypes, Fiber!TypeOK
  <2>4. ASSUME NEW e, NEW f
        PROVE  /\ (\A i \in DOMAIN e : e[i] # f) => Fiber!Times(e, f) = 0
               /\ \A i \in DOMAIN e : e[i] = f /\ (\A j \in DOMAIN e : e[j] = f => i = j) => Fiber!Times(e, f) = 1
    <3>1. Fiber!Times(e, f) = Cardinality({i \in DOMAIN e : e[i] = f})
      <4>1. \A S : Fiber!Cardinality(S) = Cardinality(S)
        BY DEF Fiber!Cardinality, Cardinality, IsFiniteSet, Fiber!IsFiniteSet
      <4> QED BY <4>1 DEF Fiber!Times
    <3>2. ASSUME \A i \in DOMAIN e : e[i] # f
          PROVE  Fiber!Times(e, f) = 0
      <4>1. {i \in DOMAIN e : e[i] = f} = {}
        BY <3>2
      <4> QED BY <3>1, <4>1, FS_EmptySet
    <3>3. ASSUME NEW i \in DOMAIN e, e[i] = f, \A j \in DOMAIN e : e[j] = f => i = j
          PROVE  Fiber!Times(e, f) = 1
      <4>1. {j \in DOMAIN e : e[j] = f} = {i}
        BY <3>3
      <4>2. Cardinality({i}) = 1
        BY FS_Singleton
      <4> QED BY <3>1, <4>1, <4>2
    <3> QED BY <3>2, <3>3
  <2>5. ASSUME NEW q \in Seq(AllFibers), NEW f \in AllFibers, NoRepeat(q, f)
        PROVE  Fiber!Times(q, f) = IF Among(q, f) THEN 1 ELSE 0
    <3>1. DOMAIN q = 1..Len(q)
      OBVIOUS
    <3>2. ~Among(q, f) => \A i \in DOMAIN q : q[i] # f
      BY <3>1 DEF Among
    <3>3. Among(q, f) => \E i \in DOMAIN q : q[i] = f /\ \A j \in DOMAIN q : q[j] = f => i = j
      BY <2>5, <3>1 DEF Among, NoRepeat
    <3> QED BY <2>4, <3>2, <3>3
  <2>6. ASSUME NEW S, NEW e \in [S -> AllFibers \cup {Nothing}], NEW f \in AllFibers,
               \A v, w \in S : e[v] = f /\ e[w] = f => v = w
        PROVE  Fiber!Times(e, f) = IF \E w \in S : e[w] = f THEN 1 ELSE 0
    <3>1. DOMAIN e = S
      OBVIOUS
    <3>2. (\E w \in S : e[w] = f) => \E i \in DOMAIN e : e[i] = f /\ \A j \in DOMAIN e : e[j] = f => i = j
      BY <2>6, <3>1
    <3> QED BY <2>4, <3>1, <3>2
  <2>7. ASSUME NEW f \in AllFibers
        PROVE  Fiber!Places(f) = IF Fiber!Begun(f) /\ f_pc[f] # "deleted" THEN 1 ELSE 0
    <3> DEFINE Held == \E g \in AllFibers : f_taken[g] = f
    <3>1. /\ Fiber!Times(f_ready, f) = IF Among(f_ready, f) THEN 1 ELSE 0
          /\ Fiber!Times(f_parked, f) = IF Among(f_parked, f) THEN 1 ELSE 0
          /\ Fiber!Times(f_waiting, f) = IF Among(f_waiting, f) THEN 1 ELSE 0
          /\ Fiber!Times(f_queued, f) = IF Among(f_queued, f) THEN 1 ELSE 0
      <4>1. NoRepeat(f_ready, f)
        BY <2>1 DEF Scheduled
      <4>2. \A op \in Parking : NoRepeat(Queues[op], f)
        BY <2>1 DEF Suspended
      <4> QED BY <2>2, <2>5, <4>1, <4>2
    <3>2. Fiber!Times(f_on, f) = IF Carried(f) THEN 1 ELSE 0
      <4>1. f_on \in [Carriers -> AllFibers \cup {Nothing}]
        BY <2>1 DEF FiberTypes
      <4>2. \A v, w \in Carriers : f_on[v] = f /\ f_on[w] = f => v = w
        BY <2>1 DEF Scheduled
      <4> QED BY <2>6, <4>1, <4>2 DEF Carried
    <3>3. Fiber!Times(f_taken, f) = IF Held THEN 1 ELSE 0
      <4>1. f_taken \in [AllFibers -> AllFibers \cup {Nothing}]
        BY <2>1 DEF FiberTypes
      <4>2. \A v, w \in AllFibers : f_taken[v] = f /\ f_taken[w] = f => v = w
        BY <2>1 DEF Suspended
      <4> QED BY <2>6, <4>1, <4>2
    <3>4. Fiber!Begun(f) <=> ~Coming(f)
      <4>1. \A g \in AllFibers : DOMAIN f_script[g] = 1..Len(f_script[g])
        BY <2>1 DEF FiberTypes
      <4> QED BY <4>1 DEF Fiber!Begun, Fiber!Ops, Coming, HasOp, Among
    <3>5. /\ Among(f_parked, f) => f_pc[f] = "suspended" /\ Doing(f, "lock")
          /\ Among(f_waiting, f) => f_pc[f] = "suspended" /\ Doing(f, "await")
          /\ Among(f_queued, f) => f_pc[f] = "suspended" /\ Doing(f, "wait")
          /\ Held => /\ f_pc[f] = "suspended"
                     /\ ~Among(f_parked, f) /\ ~Among(f_waiting, f) /\ ~Among(f_queued, f)
          /\ f_pc[f] = "suspended" => Among(f_parked, f) \/ Among(f_waiting, f) \/ Among(f_queued, f) \/ Held
      <4>1. \A op \in Parking : Among(Queues[op], f) => f_pc[f] = "suspended" /\ Doing(f, op)
        BY <2>1 DEF Suspended
      <4>2. Held => f_pc[f] = "suspended" /\ \A op \in Parking : ~Among(Queues[op], f)
        BY <2>1 DEF Suspended
      <4>3. f_pc[f] = "suspended" => (\E op \in Parking : Among(Queues[op], f)) \/ Held
        BY <2>1 DEF Suspended
      <4> HIDE DEF Held
      <4> QED BY <2>2, <4>1, <4>2, <4>3
    <3>6. /\ ~(Doing(f, "lock") /\ Doing(f, "await")) /\ ~(Doing(f, "lock") /\ Doing(f, "wait"))
          /\ ~(Doing(f, "await") /\ Doing(f, "wait"))
      BY DEF Doing
    <3>7. /\ Among(f_ready, f) => f_pc[f] \in {"routine", "waited"} /\ ~Carried(f)
          /\ Carried(f) => f_pc[f] \notin {"suspended", "deleted"}
          /\ f_pc[f] \notin {"routine", "waited", "suspended", "deleted"} => Carried(f)
          /\ f_pc[f] \in {"routine", "waited"} => Coming(f) \/ Among(f_ready, f) \/ Carried(f)
          /\ Coming(f) => f_pc[f] = "routine" /\ ~Among(f_ready, f) /\ ~Carried(f)
      BY <2>1 DEF Scheduled
    <3> HIDE DEF Held
    <3>8. CASE f_pc[f] = "suspended"
      BY <3>1, <3>2, <3>3, <3>4, <3>5, <3>6, <3>7, <3>8 DEF Fiber!Places
    <3>9. CASE f_pc[f] # "suspended"
      BY <3>1, <3>2, <3>3, <3>4, <3>5, <3>7, <3>9 DEF Fiber!Places
    <3> QED BY <3>8, <3>9
  <2> QED BY <2>3, <2>7 DEF OnePlace, Fiber!OnePlace
<1> QED BY <1>1, FiberInductive, PTL DEF Spec

(* ResumedInTime of MCTasks: no Wait() of an event returns before Fire(), and none  *)
(* of a group while something that was added is not done.                       *)
THEOREM WaitersGoOnInTime == Spec => ResumedInTime
<1>1. FiberInv /\ [Next]_vars =>
        [\A f \in AllFibers : f_script'[f] # f_script[f] =>
            /\ Head(f_script[f]) = "await" => f_fired
            /\ Head(f_script[f]) = "wait" => f_countdown = 0]_Fiber!vars
  BY FiberInductive DEF WaitsEnd
<1> QED BY <1>1, FiberInductive, PTL DEF Spec, ResumedInTime, Fiber!ResumedInTime

(* TouchesLive of MCTasks: no Fire(), Done() or awaiter touches the event or the    *)
(* group after a fiber that has waited has deleted them (the tests storage.cpp).   *)
(* It takes SoleWaiter: with two fibers in Wait() the first one to go on may        *)
(* delete the group while the last Done() still schedules the other.              *)
THEOREM DeletedInTime == ASSUME SoleWaiter PROVE Spec => []TouchesLive
<1>1. FiberInv /\ DeletedLast => TouchesLive
  <2> SUFFICES ASSUME FiberInv, DeletedLast, f_deleted, NEW f \in AllFibers, f_pc[f] \in Fiber!Touches
               PROVE  FALSE
    BY DEF TouchesLive, Fiber!TouchesLive
  <2>1. ~Some("wait") /\ ~Some("await") /\ ~Some("fire")
        /\ \A g \in AllFibers : HasOp(g, "done") => f_pc[g] = "done last"
    BY DEF DeletedLast, Deleting
  <2>2. ASSUME NEW op, Doing(f, op)
        PROVE  Some(op)
    <3>1. PICK q \in Seq(AllFibers \cup Operations) : q = f_script[f] /\ q # <<>>
      BY <2>2 DEF FiberInv, FiberTypes, Doing
    <3>2. q[1] = op /\ 1 \in 1..Len(q)
      BY <2>2, <3>1 DEF Doing
    <3> QED BY <3>1, <3>2 DEF Some, HasOp, Among
  <2>3. AtHead
    BY DEF FiberInv
  <2>4. CASE f_pc[f] \in AwaitSteps
    BY <2>1, <2>2, <2>3, <2>4 DEF AtHead
  <2>5. CASE f_pc[f] \in FireSteps
    BY <2>1, <2>2, <2>3, <2>5 DEF AtHead
  <2>6. CASE f_pc[f] \in WaitSteps
    BY <2>1, <2>2, <2>3, <2>6 DEF AtHead
  <2>7. CASE f_pc[f] \in DoneSteps
    <3>1. f_pc[f] # "done last"
      BY DEF Fiber!Touches
    <3>2. HasOp(f, "done")
      <4>1. Doing(f, "done")
        BY <2>3, <2>7 DEF AtHead
      <4>2. PICK q \in Seq(AllFibers \cup Operations) : q = f_script[f] /\ q # <<>>
        BY <4>1 DEF FiberInv, FiberTypes, Doing
      <4>3. q[1] = "done" /\ 1 \in 1..Len(q)
        BY <4>1, <4>2 DEF Doing
      <4> QED BY <4>2, <4>3 DEF HasOp, Among
    <3> QED BY <2>1, <3>1, <3>2
  <2>8. Fiber!Touches \subseteq AwaitSteps \cup FireSteps \cup WaitSteps \cup DoneSteps
    BY DEF Fiber!Touches, AwaitSteps, FireSteps, WaitSteps, DoneSteps
  <2> QED BY <2>4, <2>5, <2>6, <2>7, <2>8
<1>2. Init => FiberInv /\ DeletedLast
  BY SoleWaiter, FiberInductive
<1>3. FiberInv /\ DeletedLast /\ [Next]_vars => FiberInv' /\ DeletedLast'
  BY FiberInductive
<1> QED BY <1>1, <1>2, <1>3, PTL DEF Spec
=============================================================================
