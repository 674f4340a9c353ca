-------------------------- MODULE ThreadPoolProofs --------------------------
(* Proofs about ThreadPool, for any number of workers, clients and tasks.      *)
(*                                                                           *)
(* The inductive invariant follows every task from the caller that has yet to  *)
(* submit it, through the queue and a worker, to its end.  What Stop() promises *)
(* follows from it and from the way workers leave.  What WaitIdle() promises     *)
(* needs the count of the wait group and that nobody submits to a pool that is   *)
(* stopped, which is up to the plan.                                          *)
EXTENDS ThreadPool, Integers, FiniteSetTheorems, SequenceTheorems, TLAPS

(* Where a worker has a task, where anybody is in Submit(), and where Put() has  *)
(* been called.                                                              *)
Adding   == {"add", "zero", "put"}
Placed   == {"notify", "flag", "bell"}
Holding  == {"run", "sub"} \cup Adding \cup Placed
Stopping == {"stop", "close", "close notify", "bell", "join", "stopped"}

WorkerAt == Holding \cup {"take", "one", "wake", "door", "nothing", "check", "park", "exit"}
ClientAt == {"free"} \cup Adding \cup Placed
MainAt   == {"free", "load", "load last", "wait", "wait last"} \cup Stopping

Threads ==
  /\ pc \in [Actors -> WorkerAt \cup ClientAt \cup MainAt]
  /\ \A w \in Workers : pc[w] \in WorkerAt
  /\ \A c \in Clients : pc[c] \in ClientAt
  /\ pc[Main] \in MainAt

Types ==
  /\ plan \in Plans
  /\ queue \in Seq(Tasks)
  /\ counter \in Int
  /\ task \in [Workers -> Tasks \cup {NoTask}]
  /\ left \in [Clients -> Seq(Tasks)]
  /\ ran \in [Tasks -> {0, 1}]
  /\ accepted \subseteq Tasks

(* A task that Put() took is queued, or a worker is about to run it, or it has   *)
(* run, and only one of these.                                               *)
Queued(t) == \E i \in 1..Len(queue) : queue[i] = t

QueuedOnce == \A i, j \in 1..Len(queue) : queue[i] = queue[j] => i = j

Located ==
  \A t \in Tasks :
    /\ Queued(t) => t \in accepted /\ ran[t] = 0
    /\ t \in accepted => ran[t] = 1 \/ Queued(t) \/ \E w \in Workers : pc[w] = "run" /\ task[w] = t
    /\ t \notin accepted => ran[t] = 0
    /\ t \in ended <=> ran[t] = 1

Taken ==
  \A w \in Workers : pc[w] \in Holding =>
    /\ task[w] \in accepted
    /\ ~Queued(task[w])
    /\ pc[w] = "run" <=> ran[task[w]] = 0
    /\ \A v \in Workers : pc[v] \in Holding /\ task[v] = task[w] => v = w

(* What is still to be submitted has not been accepted: what the clients have    *)
(* left ...                                                                  *)
LeftOnce ==
  /\ \A c \in Clients : pc[c] # "free" => left[c] # <<>>
  /\ \A c, d \in Clients : \A i \in 1..Len(left[c]), j \in 1..Len(left[d]) :
       left[c][i] = left[d][j] => c = d /\ i = j
  /\ \A t \in Tasks, c \in Clients : \A i \in 1..Len(left[c]) : plan.child[t] # left[c][i]

LeftIsNew ==
  \A c \in Clients : \A i \in 1..Len(left[c]) :
    left[c][i] \in accepted => i = 1 /\ pc[c] \in Placed

(* ... and the children of tasks. *)
ChildIsNew ==
  /\ \A t \in Tasks : plan.child[t] \in accepted =>
       ran[t] = 1 /\ \A w \in Workers : task[w] = t => pc[w] \notin Adding
  /\ \A w \in Workers : pc[w] \in Adding \cup Placed => plan.child[task[w]] # NoTask

(* A worker leaves an empty and closed queue, which stays so. *)
Leaving ==
  /\ \A w \in Workers : pc[w] \in {"nothing", "exit"} => ~opened /\ queue = <<>>
  /\ pc[Main] = "stopped" => \A w \in Workers : pc[w] = "exit"

Ledger == QueuedOnce /\ Located /\ Taken
Unsubmitted == LeftOnce /\ LeftIsNew /\ ChildIsNew
IInv == Threads /\ Types /\ Ledger /\ Unsubmitted /\ Leaving

-----------------------------------------------------------------------------
(* A plan under which nobody submits to a pool that is being stopped: Stop()     *)
(* comes after a WaitIdle(), or the tasks submit nothing.                      *)
Orderly == \A p \in Plans : p.patient \/ \A t \in Tasks : p.child[t] = NoTask

(* When Main may call Stop(), the clients have returned and no task is left. *)
Settled ==
  /\ pc[Main] \in {"load last", "wait last"} \cup Stopping => ClientsReturned
  /\ pc[Main] \in Stopping => quiet
  /\ ~opened => pc[Main] \in Stopping
  /\ plan.patient /\ quiet =>
       ClientsReturned /\ queue = <<>> /\ \A w \in Workers : pc[w] \notin Holding

(* Submit() returns when the task is accepted, and a task ends when its child is. *)
Followed ==
  /\ owed \subseteq submitted /\ submitted \subseteq accepted
  /\ \A c \in Clients : pc[c] \in Placed => Head(left[c]) \in accepted
  /\ \A w \in Workers : pc[w] \in Placed => plan.child[task[w]] \in accepted
  /\ \A t \in Tasks : ran[t] = 1 /\ plan.child[t] # NoTask =>
       plan.child[t] \in accepted \/ \E w \in Workers : pc[w] \in Adding /\ task[w] = t

Promises == Settled /\ Followed /\ CounterIsWork /\ IdleMeansDone

-----------------------------------------------------------------------------
LEMMA Roles ==
  /\ \A w \in Workers : w \in Actors /\ w \notin Clients /\ w # Main
  /\ \A c \in Clients : c \in Actors /\ c \notin Workers /\ c # Main
  /\ Main \in Actors /\ Main \notin Workers /\ Main \notin Clients
BY ThreadsAssumption DEF Actors

(* One thread goes on. *)
LEMMA Moved ==
  ASSUME Threads, NEW a \in Actors, NEW to, Goto(a, to),
         a \in Workers => to \in WorkerAt,
         a \in Clients => to \in ClientAt,
         a = Main => to \in MainAt
  PROVE  Threads' /\ \A b \in Actors : pc'[b] = IF b = a THEN to ELSE pc[b]
<1>1. \A b \in Actors : pc'[b] = IF b = a THEN to ELSE pc[b]
  BY DEF Threads, Goto
<1>2. Threads'
  BY <1>1, Roles DEF Threads, Goto, Actors
<1> QED
  BY <1>1, <1>2

(* A goes to `to`, and this neither gives a task another place nor lets a worker *)
(* in or out.                                                                *)
Minor(a, to) ==
  /\ Goto(a, to)
  /\ UNCHANGED <<plan, queue, task, left, accepted, ran, ended>>
  /\ counter' \in Int
  /\ opened' = opened \/ opened' = FALSE
  /\ a \in Workers =>
       /\ to \in WorkerAt /\ pc[a] # "exit"
       /\ to = "run" <=> pc[a] = "run"
       /\ to \in Holding => pc[a] \in Holding
       /\ to \in Adding => pc[a] \in Adding
       /\ to \in Placed => pc[a] \in Adding \cup Placed
       /\ to \in {"nothing", "exit"} => ~opened /\ queue = <<>>
  /\ a \in Clients =>
       /\ to \in ClientAt
       /\ pc[a] \in Placed => to \in Placed
       /\ to # "free" => left[a] # <<>>
  /\ a = Main => to \in MainAt /\ (to = "stopped" => \A w \in Workers : pc[w] = "exit")

Still == UNCHANGED <<plan, queue, opened, counter, pc, task, left, quiet,
                     accepted, ran, ended, submitted, owed>>

LEMMA StillStep ==
  ASSUME IInv, Still
  PROVE  IInv' /\ (Promises => Promises')
<1>1. /\ plan' = plan /\ queue' = queue /\ opened' = opened /\ counter' = counter /\ pc' = pc
      /\ task' = task /\ left' = left /\ accepted' = accepted /\ ran' = ran /\ ended' = ended
      /\ \A t : Queued(t)' = Queued(t)
  BY DEF Queued, Still
<1>2. Threads' /\ Types' /\ Leaving'
  BY <1>1 DEF IInv, Threads, Types, Leaving
<1>3. Ledger'
  BY <1>1 DEF IInv, Ledger, QueuedOnce, Located, Taken
<1>4. Unsubmitted'
  BY <1>1 DEF IInv, Unsubmitted, LeftOnce, LeftIsNew, ChildIsNew
<1>5. quiet' = quiet /\ submitted' = submitted /\ owed' = owed
  BY DEF Still
<1>6. ASSUME Promises PROVE Settled'
  <2>1. ClientsReturned' = ClientsReturned
    BY <1>1 DEF ClientsReturned
  <2>2. plan' = plan /\ opened' = opened /\ quiet' = quiet /\ pc'[Main] = pc[Main]
    BY <1>1, <1>5
  <2>3. plan.patient /\ quiet =>
          ClientsReturned /\ queue' = <<>> /\ \A w \in Workers : pc'[w] \notin Holding
    BY <1>1, <1>6 DEF Promises, Settled
  <2>4. /\ pc[Main] \in {"load last", "wait last"} \cup Stopping => ClientsReturned
        /\ pc[Main] \in Stopping => quiet
        /\ ~opened => pc[Main] \in Stopping
    BY <1>6, Zenon DEF Promises, Settled
  <2> QED
    BY <2>1, <2>2, <2>3, <2>4 DEF Settled, Stopping
<1>7. Promises => Followed'
  BY <1>1, <1>5 DEF Promises, Followed
<1>8. Promises => CounterIsWork' /\ IdleMeansDone'
  BY <1>1, <1>5 DEF Promises, CounterIsWork, IdleMeansDone
<1> QED
  BY <1>2, <1>3, <1>4, <1>6, <1>7, <1>8 DEF IInv, Promises

LEMMA NextIInv == IInv /\ [Next]_vars => IInv'
<1> SUFFICES ASSUME IInv, [Next]_vars PROVE IInv'
  OBVIOUS
<1>m. ASSUME NEW a \in Actors, NEW to, Minor(a, to)
      PROVE  IInv'
  <2> USE <1>m
  <2>1. /\ plan' = plan /\ queue' = queue /\ task' = task /\ left' = left /\ accepted' = accepted
        /\ ran' = ran /\ ended' = ended
        /\ \A t : Queued(t)' = Queued(t)
    BY DEF Minor, Queued
  <2>2. Threads' /\ \A b \in Actors : pc'[b] = IF b = a THEN to ELSE pc[b]
    BY Moved DEF Minor, IInv
  <2>3. \A w \in Workers :
          /\ pc'[w] \in Holding => pc[w] \in Holding
          /\ pc'[w] = "run" <=> pc[w] = "run"
          /\ pc'[w] \in Adding => pc[w] \in Adding
          /\ pc'[w] \in Placed => pc[w] \in Adding \cup Placed
    BY <2>2, Roles DEF Minor
  <2>4. \A c \in Clients : /\ pc[c] \in Placed => pc'[c] \in Placed
                           /\ pc'[c] # "free" => left[c] # <<>>
    BY <2>2, Roles DEF Minor, IInv, Unsubmitted, LeftOnce
  <2>5. Types'
    BY <2>1 DEF Minor, IInv, Types
  <2>6. Ledger'
    BY <2>1, <2>3 DEF IInv, Ledger, QueuedOnce, Located, Taken
  <2>7. LeftOnce' /\ LeftIsNew'
    BY <2>1, <2>4 DEF IInv, Unsubmitted, LeftOnce, LeftIsNew
  <2>8. ChildIsNew'
    BY <2>1, <2>3 DEF IInv, Unsubmitted, ChildIsNew
  <2>9. Leaving'
    BY <2>1, <2>2, Roles DEF IInv, Leaving, Minor
  <2> QED
    BY <2>2, <2>5, <2>6, <2>7, <2>8, <2>9 DEF Unsubmitted, IInv
<1>a. ASSUME NEW a \in Workers \cup Clients, Submit(a) PROVE IInv'
  <2> USE <1>a
  <2> USE DEF Holding, Adding, Placed
  <2>0. /\ a \in Actors /\ (a \in Workers <=> a \notin Clients) /\ a # Main
        /\ counter \in Int
    BY Roles DEF IInv, Types
  <2>1. a \in Clients /\ pc[a] # "free" => left[a] # <<>>
    BY DEF IInv, Unsubmitted, LeftOnce
  <2>2. CASE SubmitAdd(a)
    <3>1. PICK to \in {"zero", "put"} : Goto(a, to)
      BY <2>2 DEF SubmitAdd
    <3>2. counter' \in Int
      BY <2>0, <2>2 DEF SubmitAdd, FetchAdd
    <3>3. Minor(a, to)
      BY <2>0, <2>1, <2>2, <3>1, <3>2 DEF SubmitAdd, Minor, WorkerAt, ClientAt, queueVars, history
    <3> QED
      BY <2>0, <3>3, <1>m
  <2>3. CASE SubmitAddStore(a)
    <3>1. Minor(a, "put")
      BY <2>0, <2>1, <2>3 DEF SubmitAddStore, StoreZero, Minor, WorkerAt, ClientAt, queueVars, history
    <3> QED
      BY <2>0, <3>1, <1>m
  <2>4. CASE SubmitNotify(a)
    <3>1. Minor(a, "flag")
      BY <2>0, <2>1, <2>4 DEF SubmitNotify, NotifyOne, Minor, WorkerAt, ClientAt, groupVars, history
    <3> QED
      BY <2>0, <3>1, <1>m
  <2>5. CASE SubmitFlag(a)
    <3>1. Minor(a, "bell")
      BY <2>0, <2>1, <2>5 DEF SubmitFlag, Minor, WorkerAt, ClientAt, queueVars, groupVars, history
    <3> QED
      BY <2>0, <3>1, <1>m
  <2>6. CASE SubmitBell(a) /\ a \in Workers
    <3>1. Minor(a, "sub")
      BY <2>0, <2>6 DEF SubmitBell, Minor, WorkerAt, ClientAt, queueVars, groupVars
    <3> QED
      BY <2>0, <3>1, <1>m
  <2>7. CASE SubmitBell(a) /\ a \in Clients
    <3>1. /\ pc[a] = "bell" /\ Goto(a, "free") /\ left' = [left EXCEPT ![a] = Tail(@)]
          /\ UNCHANGED <<plan, queue, opened, counter, task, accepted, ran, ended>>
      BY <2>0, <2>7 DEF SubmitBell, queueVars, groupVars
    <3>2. Threads' /\ \A b \in Actors : pc'[b] = IF b = a THEN "free" ELSE pc[b]
      BY <2>0, <2>7, <3>1, Moved DEF IInv, ClientAt
    <3>3. left[a] \in Seq(Tasks) /\ left[a] # <<>> /\ left \in [Clients -> Seq(Tasks)]
      BY <2>1, <2>7, <3>1 DEF IInv, Types
    <3>4. /\ left'[a] \in Seq(Tasks) /\ Len(left[a]) \in Nat /\ Len(left'[a]) = Len(left[a]) - 1
          /\ \A i \in 1..Len(left'[a]) : i + 1 \in 1..Len(left[a]) /\ left'[a][i] = left[a][i + 1]
      <4>1. left'[a] = Tail(left[a])
        BY <2>7, <3>1, <3>3
      <4> QED
        BY <4>1, <3>3
    <3>5. \A c \in Clients \ {a} : left'[c] = left[c]
      BY <3>1, <3>3
    <3>6. Types'
      <4>1. left' \in [Clients -> Seq(Tasks)]
        BY <2>7, <3>1, <3>3, <3>4
      <4> QED
        BY <3>1, <4>1 DEF IInv, Types
    <3>7. Ledger'
      <4>1. \A w \in Workers : pc'[w] = pc[w]
        BY <2>7, <3>2, Roles
      <4>2. \A t : Queued(t)' = Queued(t)
        BY <3>1 DEF Queued
      <4> QED
        BY <3>1, <4>1, <4>2 DEF IInv, Ledger, QueuedOnce, Located, Taken
    <3> DEFINE Place(c, i) == IF c = a THEN i + 1 ELSE i
    <3>8. \A c \in Clients : \A i \in 1..Len(left'[c]) :
            Place(c, i) \in 1..Len(left[c]) /\ left'[c][i] = left[c][Place(c, i)]
      BY <3>4, <3>5
    <3>9. \A c, d \in Clients : \A i \in 1..Len(left'[c]), j \in 1..Len(left'[d]) :
            left'[c][i] = left'[d][j] => c = d /\ i = j
      <4> SUFFICES ASSUME NEW c \in Clients, NEW d \in Clients,
                          NEW i \in 1..Len(left'[c]), NEW j \in 1..Len(left'[d]),
                          left'[c][i] = left'[d][j]
                   PROVE  c = d /\ i = j
        OBVIOUS
      <4> HIDE DEF Place
      <4>1. c = d /\ Place(c, i) = Place(d, j)
        <5>1. \A x, y \in Clients : \A k \in 1..Len(left[x]), l \in 1..Len(left[y]) :
                left[x][k] = left[y][l] => x = y /\ k = l
          BY DEF IInv, Unsubmitted, LeftOnce
        <5>2. PICK k \in 1..Len(left[c]) : k = Place(c, i) /\ left'[c][i] = left[c][k]
          BY <3>8
        <5>3. PICK l \in 1..Len(left[d]) : l = Place(d, j) /\ left'[d][j] = left[d][l]
          BY <3>8
        <5>4. left[c][k] = left[d][l]
          BY <5>2, <5>3
        <5>5. c = d /\ k = l
          BY <5>1, <5>4
        <5> QED
          BY <5>2, <5>3, <5>5
      <4> QED
        BY <4>1 DEF Place
    <3>11. LeftOnce'
      <4>1. \A c \in Clients : pc'[c] # "free" => left'[c] # <<>>
        BY <2>7, <3>2, <3>5, Roles DEF IInv, Unsubmitted, LeftOnce
      <4>2. \A t \in Tasks, c \in Clients : \A i \in 1..Len(left'[c]) : plan.child[t] # left'[c][i]
        BY <3>8 DEF IInv, Unsubmitted, LeftOnce
      <4>3. plan' = plan
        BY <3>1
      <4> QED
        BY <3>9, <4>1, <4>2, <4>3, Zenon DEF LeftOnce
    <3>12. LeftIsNew'
      <4> SUFFICES ASSUME NEW c \in Clients, NEW i \in 1..Len(left'[c]), left'[c][i] \in accepted
                   PROVE  i = 1 /\ pc'[c] \in Placed
        BY <3>1 DEF LeftIsNew
      <4>1. Place(c, i) = 1 /\ pc[c] \in Placed
        BY <3>8 DEF IInv, Unsubmitted, LeftIsNew
      <4>2. Len(left'[c]) \in Nat
        BY <3>6 DEF Types
      <4> QED
        BY <4>1, <4>2, <3>2, Roles
    <3>10. ChildIsNew' /\ Leaving'
      BY <2>7, <3>1, <3>2, Roles DEF IInv, Unsubmitted, ChildIsNew, Leaving
    <3> QED
      BY <3>2, <3>6, <3>7, <3>10, <3>11, <3>12 DEF IInv, Unsubmitted
  <2>8. CASE SubmitPut(a)                   (* Put() takes a task that no place has yet *)
    <3> USE <2>8
    <3> USE DEF Holding, Adding, Placed
    <3> DEFINE e == Submitting(a)
    <3>0. /\ a \in Actors /\ (a \in Workers <=> a \notin Clients) /\ a # Main
          /\ plan \in Plans /\ queue \in Seq(Tasks) /\ left \in [Clients -> Seq(Tasks)]
          /\ task \in [Workers -> Tasks \cup {NoTask}] /\ accepted \subseteq Tasks
      BY Roles DEF IInv, Types
    <3>1. /\ pc[a] = "put"
          /\ UNCHANGED <<plan, task, left, ran, ended, counter>>
      BY Zenon DEF SubmitPut, groupVars
    <3>2. CASE Push(e) /\ accepted' = accepted \cup {e} /\ Goto(a, "notify")
      <4>1. /\ opened /\ opened' = opened
            /\ queue' = Append(queue, e) /\ accepted' = accepted \cup {e}
        BY <3>2 DEF Push
      <4>2. /\ Threads'
            /\ \A b \in Actors : pc'[b] = IF b = a THEN "notify" ELSE pc[b]
        BY <3>0, <3>2, Moved DEF IInv, WorkerAt, ClientAt
      <4>3. a \in Clients => left[a] \in Seq(Tasks) /\ 1 \in 1..Len(left[a]) /\ e = left[a][1]
        <5>1. a \in Clients => left[a] \in Seq(Tasks) /\ left[a] # <<>> /\ e = Head(left[a])
          BY <3>0, <3>1 DEF IInv, Unsubmitted, LeftOnce, Submitting
        <5> QED
          BY <5>1
      <4>4. a \in Workers => /\ task[a] \in Tasks /\ ran[task[a]] = 1 /\ e = plan.child[task[a]]
                             /\ e # NoTask /\ e \in Tasks \cup {NoTask}
        <5>1. \A t \in Tasks : plan.child[t] \in Tasks \cup {NoTask}
          BY <3>0, PlansAssumption
        <5> QED
          BY <5>1, <3>0, <3>1 DEF IInv, Ledger, Taken, Located, Unsubmitted, ChildIsNew, Submitting
      <4>5. e \in Tasks /\ e \notin accepted
        <5>1. CASE a \in Workers
          BY <5>1, <3>1, <4>4 DEF IInv, Unsubmitted, ChildIsNew
        <5>2. CASE a \in Clients
          BY <5>2, <3>1, <4>3 DEF IInv, Unsubmitted, LeftIsNew
        <5> QED
          BY <5>1, <5>2, SMTT(60)
      <4> HIDE DEF e
      <4>6. /\ queue' \in Seq(Tasks) /\ Len(queue) \in Nat /\ Len(queue') = Len(queue) + 1
            /\ \A i \in 1..Len(queue) : queue'[i] = queue[i]
            /\ queue'[Len(queue) + 1] = e
        BY <3>0, <4>1, <4>5
      <4>7. \A t : Queued(t)' <=> Queued(t) \/ t = e
        BY <4>6 DEF Queued
      <4>8. Types'
        BY <3>1, <4>1, <4>5, <4>6 DEF IInv, Types
      <4>9. QueuedOnce'
        <5>1. \A i \in 1..Len(queue) : queue[i] # e
          BY <4>5 DEF IInv, Ledger, Located, Queued
        <5> QED
          BY <5>1, <4>6 DEF IInv, Ledger, QueuedOnce
      <4>10. Located'
        <5>1. \A w \in Workers : pc[w] = "run" => pc'[w] = "run"
          BY <3>1, <4>2, Roles
        <5> QED
          BY <5>1, <3>1, <4>1, <4>5, <4>7 DEF IInv, Ledger, Located
      <4>11. Taken'
        <5>1. \A w \in Workers : /\ pc'[w] = "run" <=> pc[w] = "run"
                                 /\ pc'[w] \in Holding <=> pc[w] \in Holding
          BY <3>1, <4>2, Roles
        <5> QED
          BY <5>1, <3>1, <4>1, <4>5, <4>7 DEF IInv, Ledger, Taken
      <4>12. LeftOnce'
        BY <3>1, <4>2, Roles DEF IInv, Unsubmitted, LeftOnce
      <4>13. LeftIsNew'
        <5> SUFFICES ASSUME NEW c \in Clients, NEW i \in 1..Len(left[c]), left[c][i] \in accepted'
                     PROVE  i = 1 /\ pc'[c] \in Placed
          BY <3>1 DEF LeftIsNew
        <5>1. CASE left[c][i] \in accepted
          BY <5>1, <4>2, Roles DEF IInv, Unsubmitted, LeftIsNew
        <5>2. CASE left[c][i] = e /\ a \in Clients
          BY <5>2, <4>2, <4>3, Roles DEF IInv, Unsubmitted, LeftOnce
        <5>3. CASE left[c][i] = e /\ a \in Workers
          BY <5>3, <4>4 DEF IInv, Unsubmitted, LeftOnce
        <5> QED
          BY <4>1, <5>1, <5>2, <5>3
      <4>14. ChildIsNew'
        <5>1. ASSUME NEW t \in Tasks, plan.child[t] \in accepted'
              PROVE  ran[t] = 1 /\ \A w \in Workers : task[w] = t => pc'[w] \notin Adding
          <6>1. CASE plan.child[t] \in accepted
            BY <6>1, <4>2, Roles DEF IInv, Unsubmitted, ChildIsNew
          <6>2. CASE plan.child[t] = e
            <7>1. a \in Workers
              BY <6>2, <4>3 DEF IInv, Unsubmitted, LeftOnce
            <7>2. \A u, v \in Tasks : plan.child[u] = plan.child[v] /\ plan.child[u] # NoTask => u = v
              BY <3>0, PlansAssumption, Zenon
            <7>3. t = task[a]
              BY <7>1, <7>2, <6>2, <4>4
            <7>4. \A w \in Workers : pc[w] \in Holding /\ task[w] = t => w = a
              BY <7>1, <7>3, <3>1 DEF IInv, Ledger, Taken
            <7> QED
              BY <7>1, <7>3, <7>4, <4>4, <4>2, Roles
          <6> QED
            BY <5>1, <6>1, <6>2, <4>1
        <5>2. \A w \in Workers : pc'[w] \in Adding \cup Placed => pc[w] \in Adding \cup Placed
          BY <3>1, <4>2, Roles
        <5> QED
          BY <5>1, <5>2, <3>1 DEF IInv, Unsubmitted, ChildIsNew
      <4>15. Leaving'
        BY <3>0, <4>1, <4>2, Roles DEF IInv, Leaving
      <4> QED
        BY <4>2, <4>8, <4>9, <4>10, <4>11, <4>12, <4>13, <4>14, <4>15 DEF IInv, Ledger, Unsubmitted
    <3>3. CASE Reject /\ Goto(a, "flag") /\ UNCHANGED accepted
      <4>1. left[a] # <<>> \/ a \in Workers
        BY <3>0, <3>1 DEF IInv, Unsubmitted, LeftOnce
      <4>2. counter' \in Int
        BY <3>1 DEF IInv, Types
      <4>3. Minor(a, "flag")
        BY <3>0, <3>1, <3>3, <4>1, <4>2 DEF Reject, Minor, WorkerAt, ClientAt
      <4> QED
        BY <3>0, <4>3, <1>m
    <3> QED
      BY <3>2, <3>3 DEF SubmitPut
  <2> QED
    BY <2>2, <2>3, <2>4, <2>5, <2>6, <2>7, <2>8, <2>0 DEF Submit
<1>b. ASSUME NEW w \in Workers, Work(w) PROVE IInv'
  <2> USE <1>b
  <2> USE DEF Holding, Adding, Placed, WorkerAt
  <2>0. w \in Actors /\ w \notin Clients /\ w # Main /\ counter \in Int /\ counter - 1 \in Int
    BY Roles DEF IInv, Types
  <2>1. CASE WorkerTake(w) /\ Pop(w)
    <3> DEFINE e == Head(queue)
    <3>1. /\ pc[w] = "take" /\ queue # <<>> /\ queue' = Tail(queue) /\ opened' = opened
          /\ task' = [task EXCEPT ![w] = e] /\ Goto(w, "run")
          /\ UNCHANGED <<plan, counter, left, accepted, ran, ended>>
      <4>1. task' = [task EXCEPT ![w] = e] /\ Goto(w, "run")
        BY <2>1 DEF WorkerTake, Pop, Park, TakeNothing
      <4> QED
        BY <2>1, <4>1 DEF WorkerTake, Pop, groupVars, history
    <3>2. /\ w \in Actors /\ queue \in Seq(Tasks)
          /\ task \in [Workers -> Tasks \cup {NoTask}] /\ accepted \subseteq Tasks
      BY Roles DEF IInv, Types
    <3>3. /\ Threads'
          /\ \A b \in Actors : pc'[b] = IF b = w THEN "run" ELSE pc[b]
      BY <3>1, <3>2, Roles, Moved DEF IInv, WorkerAt
    <3>4. /\ queue' \in Seq(Tasks) /\ Len(queue) \in Nat /\ 1 \in 1..Len(queue) /\ e = queue[1]
          /\ Len(queue') = Len(queue) - 1
          /\ \A i \in 1..Len(queue') : i + 1 \in 1..Len(queue) /\ queue'[i] = queue[i + 1]
      BY <3>1, <3>2
    <3>5. Queued(e)
      BY <3>4 DEF Queued
    <3> HIDE DEF e
    <3>6. \A t : Queued(t)' <=> Queued(t) /\ t # e
      <4>1. ASSUME NEW t, Queued(t)' PROVE Queued(t) /\ t # e
        <5>1. PICK i \in 1..Len(queue') : queue'[i] = t
          BY <4>1 DEF Queued
        <5>2. i + 1 \in 1..Len(queue) /\ queue[i + 1] = t /\ i + 1 # 1
          BY <5>1, <3>4
        <5> QED
          BY <5>2, <3>4 DEF Queued, IInv, Ledger, QueuedOnce
      <4>2. ASSUME NEW t, Queued(t), t # e PROVE Queued(t)'
        <5>1. PICK i \in 1..Len(queue) : queue[i] = t
          BY <4>2 DEF Queued
        <5>2. i - 1 \in 1..Len(queue') /\ queue'[i - 1] = t
          BY <5>1, <4>2, <3>4
        <5> QED
          BY <5>2 DEF Queued
      <4> QED
        BY <4>1, <4>2
    <3>7. e \in accepted /\ e \in Tasks /\ ran[e] = 0
      BY <3>4, <3>5, <3>2 DEF IInv, Ledger, Located
    <3>8. \A v \in Workers : task'[v] = IF v = w THEN e ELSE task[v]
      BY <3>1, <3>2
    <3>9. Types'
      <4>1. task' \in [Workers -> Tasks \cup {NoTask}]
        BY <3>1, <3>2, <3>7
      <4> QED
        BY <4>1, <3>1, <3>4 DEF IInv, Types
    <3>10. QueuedOnce'
      BY <3>4 DEF IInv, Ledger, QueuedOnce
    <3>11. Located'
      <4>1. ASSUME NEW t \in Tasks, t \in accepted
            PROVE  ran[t] = 1 \/ Queued(t)' \/ \E v \in Workers : pc'[v] = "run" /\ task'[v] = t
        <5>1. CASE t = e
          BY <5>1, <3>3, <3>8, Roles
        <5>2. CASE t # e
          BY <4>1, <5>2, <3>1, <3>3, <3>6, <3>8, Roles DEF IInv, Ledger, Located
        <5> QED
          BY <5>1, <5>2, SMTT(60)
      <4> QED
        BY <4>1, <3>1, <3>6 DEF IInv, Ledger, Located
    <3>12. Taken'
      <4>1. \A v \in Workers \ {w} : pc[v] \in Holding => task[v] # e
        BY <3>5 DEF IInv, Ledger, Taken
      <4> QED
        BY <4>1, <3>1, <3>3, <3>6, <3>7, <3>8, Roles DEF IInv, Ledger, Taken
    <3>13. LeftOnce' /\ LeftIsNew'
      BY <3>1, <3>3, Roles DEF IInv, Unsubmitted, LeftOnce, LeftIsNew
    <3>14. ChildIsNew'
      BY <3>1, <3>3, <3>8, Roles DEF IInv, Unsubmitted, ChildIsNew
    <3>15. Leaving'
      BY <3>1, <3>3, Roles DEF IInv, Leaving
    <3> QED
      BY <3>3, <3>9, <3>10, <3>11, <3>12, <3>13, <3>14, <3>15 DEF IInv, Ledger, Unsubmitted
  <2>2. CASE WorkerTake(w) /\ TakeNothing(w) /\ Goto(w, "nothing") /\ UNCHANGED task
    <3>1. Minor(w, "nothing")
      BY <2>0, <2>2 DEF WorkerTake, TakeNothing, Minor, groupVars, history
    <3> QED
      BY <2>0, <3>1, <1>m
  <2>3. CASE WorkerDone(w)
    <3>1. PICK to \in {"one", "door"} : Goto(w, to)
      BY <2>3 DEF WorkerDone
    <3>2. Minor(w, to)
      BY <2>0, <2>3, <3>1 DEF WorkerDone, FetchSub, Minor, queueVars, history
    <3> QED
      BY <2>0, <3>2, <1>m
  <2>4. CASE WorkerDoneStore(w)
    <3>1. Minor(w, "wake")
      BY <2>0, <2>4 DEF WorkerDoneStore, StoreOne, Minor, queueVars, history
    <3> QED
      BY <2>0, <3>1, <1>m
  <2>5. CASE WorkerDoneWake(w)
    <3>1. Minor(w, "door")
      BY <2>0, <2>5 DEF WorkerDoneWake, WakeAll, Minor, queueVars, history
    <3> QED
      BY <2>0, <3>1, <1>m
  <2>6. CASE WorkerNothing(w)
    <3>1. PICK to \in {"door", "exit"} : Goto(w, to)
      BY <2>6 DEF WorkerNothing
    <3>2. Minor(w, to)
      BY <2>0, <2>6, <3>1 DEF WorkerNothing, Minor, queueVars, groupVars, history, IInv, Leaving
    <3> QED
      BY <2>0, <3>2, <1>m
  <2>7. CASE WorkerDoor(w)
    <3>1. PICK to \in {"take", "check"} : Goto(w, to)
      BY <2>7 DEF WorkerDoor
    <3>2. Minor(w, to)
      BY <2>0, <2>7, <3>1 DEF WorkerDoor, Minor, queueVars, groupVars, history
    <3> QED
      BY <2>0, <3>2, <1>m
  <2>8. CASE WorkerCheck(w)
    <3>1. PICK to \in {"take", "park"} : Goto(w, to)
      BY <2>8 DEF WorkerCheck
    <3>2. Minor(w, to)
      BY <2>0, <2>8, <3>1 DEF WorkerCheck, Minor, queueVars, groupVars, history
    <3> QED
      BY <2>0, <3>2, <1>m
  <2>9. CASE WorkerPark(w)
    <3>1. Minor(w, "door")
      BY <2>0, <2>9 DEF WorkerPark, Minor, queueVars, groupVars, history
    <3> QED
      BY <2>0, <3>1, <1>m
  <2>10. CASE WorkerTake(w) /\ Park(w) /\ UNCHANGED <<plan, task, pc>>
    BY <2>10, StillStep DEF Still, WorkerTake, Park, groupVars, history
  <2>11. CASE WorkerRun(w)
    <3> DEFINE t == task[w]
    <3>1. PICK to \in {"sub", "add"} :
            /\ to = "add" <=> plan.child[t] # NoTask
            /\ pc[w] = "run" /\ Goto(w, to)
            /\ ran' = [ran EXCEPT ![t] = @ + 1] /\ ended' = ended \cup {t}
            /\ UNCHANGED <<plan, queue, opened, counter, task, left, accepted>>
      BY <2>11 DEF WorkerRun, queueVars, groupVars
    <3>2. /\ w \in Actors /\ t \in accepted /\ t \in Tasks
          /\ ran \in [Tasks -> {0, 1}]
      BY <3>1, Roles DEF IInv, Types, Ledger, Taken
    <3>3. /\ Threads'
          /\ \A b \in Actors : pc'[b] = IF b = w THEN to ELSE pc[b]
      BY <3>1, <3>2, Roles, Moved DEF IInv, WorkerAt
    <3>4. ran[t] = 0 /\ ~Queued(t) /\ \A v \in Workers : pc[v] \in Holding /\ task[v] = t => v = w
      BY <3>1 DEF IInv, Ledger, Taken
    <3>5. \A u \in Tasks : ran'[u] = IF u = t THEN 1 ELSE ran[u]
      BY <3>1, <3>2, <3>4
    <3>6. plan.child[t] \notin accepted
      BY <3>2, <3>4 DEF IInv, Unsubmitted, ChildIsNew
    <3>7. \A u : Queued(u)' = Queued(u)
      BY <3>1 DEF Queued
    <3> HIDE DEF t
    <3>8. Types'
      <4>1. ran' \in [Tasks -> {0, 1}]
        BY <3>1, <3>2, <3>4
      <4> QED
        BY <4>1, <3>1 DEF IInv, Types
    <3>9. QueuedOnce'
      BY <3>1 DEF IInv, Ledger, QueuedOnce
    <3>10. Located'
      <4>1. ASSUME NEW u \in Tasks
            PROVE  /\ Queued(u) => u \in accepted /\ ran'[u] = 0
                   /\ u \in accepted =>
                        ran'[u] = 1 \/ Queued(u) \/ \E v \in Workers : pc'[v] = "run" /\ task[v] = u
                   /\ u \notin accepted => ran'[u] = 0
                   /\ u \in ended' <=> ran'[u] = 1
        <5>1. CASE u = t
          BY <5>1, <3>1, <3>2, <3>4, <3>5
        <5>2. CASE u # t
          <6>1. \A v \in Workers : pc[v] = "run" /\ task[v] = u => pc'[v] = "run"
            BY <5>2, <3>3, Roles DEF t
          <6> QED
            BY <6>1, <5>2, <3>1, <3>5 DEF IInv, Ledger, Located
        <5> QED
          BY <5>1, <5>2, SMTT(60)
      <4> QED
        BY <4>1, <3>1, <3>7, Zenon DEF Located
    <3>11. Taken'
      <4>1. \A v \in Workers \ {w} : pc'[v] = pc[v] /\ (pc[v] \in Holding => ran'[task[v]] = ran[task[v]])
        BY <3>2, <3>3, <3>4, <3>5, Roles DEF IInv, Ledger, Taken, Types
      <4>2. pc'[w] = to /\ task[w] = t
        BY <3>3, Roles DEF t
      <4> QED
        BY <4>1, <4>2, <3>1, <3>2, <3>4, <3>5, <3>7 DEF IInv, Ledger, Taken
    <3>12. LeftOnce' /\ LeftIsNew'
      BY <3>1, <3>3, Roles DEF IInv, Unsubmitted, LeftOnce, LeftIsNew
    <3>13. ChildIsNew'
      BY <3>1, <3>3, <3>5, <3>6, Roles DEF IInv, Unsubmitted, ChildIsNew, t
    <3>14. Leaving'
      BY <3>1, <3>3, Roles DEF IInv, Leaving
    <3> QED
      BY <3>3, <3>8, <3>9, <3>10, <3>11, <3>12, <3>13, <3>14 DEF IInv, Ledger, Unsubmitted
  <2> QED
    BY <2>1, <2>2, <2>3, <2>4, <2>5, <2>6, <2>7, <2>8, <2>9, <2>10, <2>11, <1>a
       DEF Work, WorkerTake
<1> USE DEF MainAt, Stopping
<1>0. /\ Main \in Actors /\ Main \notin Workers /\ Main \notin Clients /\ counter \in Int
      /\ pc[Main] = "stopped" => \A w \in Workers : pc[w] = "exit"
  BY Roles DEF IInv, Types, Leaving
<1>2. ASSUME NEW c \in Clients, CallSubmit(c) PROVE IInv'
  <2>1. Minor(c, "add")
    BY <1>0, <1>2, Roles
       DEF CallSubmit, Minor, queueVars, groupVars, history, ClientAt, Adding, Placed
  <2> QED
    BY <2>1, Roles, <1>m
<1>4. CASE CallWaitIdle
  <2>1. PICK to \in {"load", "load last"} : Goto(Main, to)
    BY <1>4 DEF CallWaitIdle
  <2>2. Minor(Main, to)
    BY <1>0, <1>4, <2>1 DEF CallWaitIdle, Minor, queueVars, groupVars
  <2> QED
    BY <1>0, <2>2, <1>m
<1>5. ASSUME NEW phase \in {"load", "load last"}, IdleLoad(phase) PROVE IInv'
  <2>1. PICK to \in {"free", "wait", "wait last"} : Goto(Main, to)
    BY <1>5 DEF IdleLoad
  <2>2. Minor(Main, to)
    BY <1>0, <1>5, <2>1 DEF IdleLoad, Minor, queueVars, groupVars, history
  <2> QED
    BY <1>0, <2>2, <1>m
<1>6. ASSUME NEW phase \in {"wait", "wait last"}, IdleWait(phase) PROVE IInv'
  <2>1. CASE FutexPark(Main) /\ UNCHANGED pc
    BY <1>6, <2>1, StillStep DEF Still, IdleWait, FutexPark, queueVars, history
  <2>2. ASSUME NEW to \in {"load", "load last"}, FutexReturns(Main), Goto(Main, to)
        PROVE  IInv'
    <3>1. Minor(Main, to)
      BY <1>0, <1>6, <2>2 DEF IdleWait, FutexReturns, Minor, queueVars, history
    <3> QED
      BY <1>0, <3>1, <1>m
  <2> QED
    BY <1>6, <2>1, <2>2 DEF IdleWait
<1>7. CASE CallStop
  <2>1. Minor(Main, "stop")
    BY <1>0, <1>7 DEF CallStop, Minor, queueVars, groupVars, history
  <2> QED
    BY <1>0, <2>1, <1>m
<1>8. CASE Stop
  <2>1. PICK to \in Stopping : Goto(Main, to)
    BY <1>8 DEF Stop, StopFlag, StopClose, StopCloseNotify, StopBell, StopJoin
  <2>2. Minor(Main, to)
    <3>1. to = "stopped" => \A w \in Workers : pc[w] = "exit"
      BY <1>8, <2>1, <1>0
         DEF Stop, StopFlag, StopClose, StopCloseNotify, StopBell, StopJoin, Goto, IInv, Threads
    <3>2. UNCHANGED <<plan, queue, task, left, accepted, ran, ended, counter>> /\ (opened' = opened \/ opened' = FALSE)
      <4>1. CASE StopClose
        <5>1. UNCHANGED <<plan, queue, task, left, accepted, ran, ended, counter>>
          BY <4>1 DEF StopClose, Shut, groupVars, history
        <5>2. opened' = FALSE
          BY <4>1, Zenon DEF StopClose, Shut
        <5> QED
          BY <5>1, <5>2
      <4>2. CASE StopCloseNotify
        BY <4>2 DEF StopCloseNotify, NotifyAll, groupVars, history
      <4>3. CASE StopFlag \/ StopBell \/ StopJoin
        BY <4>3 DEF StopFlag, StopBell, StopJoin, queueVars, groupVars, history
      <4> QED
        BY <1>8, <4>1, <4>2, <4>3 DEF Stop
    <3> QED
      BY <1>0, <2>1, <3>1, <3>2 DEF Minor
  <2> QED
    BY <1>0, <2>2, <1>m
<1>9. CASE UNCHANGED vars
  BY <1>9, StillStep DEF Still, vars, poolVars, history
<1> QED
  BY <1>a, <1>b, <1>2, <1>4, <1>5, <1>6, <1>7, <1>8, <1>9 DEF Next, WaitIdle, Terminated

LEMMA InitIInv == Init => IInv /\ Promises
<1> SUFFICES ASSUME Init PROVE IInv /\ Promises
  OBVIOUS
<1>1. /\ plan \in Plans /\ queue = <<>> /\ Len(queue) = 0 /\ opened = TRUE /\ counter = 0
      /\ pc = [a \in Actors |-> IF a \in Workers THEN "take" ELSE "free"]
      /\ task = [w \in Workers |-> NoTask] /\ left = plan.script /\ accepted = {}
      /\ ran = [t \in Tasks |-> 0] /\ ended = {}
      /\ quiet = ~plan.patient /\ owed = {} /\ submitted = {}
  BY DEF Init, QueueInit, WaitGroupInit
<1>2. Threads
  BY <1>1, Roles DEF Threads, WorkerAt, ClientAt, MainAt
<1>3. plan.script \in [Clients -> Seq(Tasks)]
  BY <1>1, PlansAssumption
<1>4. Types
  BY <1>1, <1>3 DEF Types
<1>5. \A t : ~Queued(t)
  BY <1>1 DEF Queued
<1>6. \A w \in Workers : pc[w] = "take"
  BY <1>1, Roles
<1>7. Ledger
  BY <1>1, <1>5, <1>6 DEF Ledger, QueuedOnce, Located, Taken, Holding, Adding, Placed
<1>8. LeftOnce
  BY <1>1, Roles, PlansAssumption DEF LeftOnce
<1>9. LeftIsNew /\ ChildIsNew /\ Leaving
  BY <1>1, <1>6, Roles DEF LeftIsNew, ChildIsNew, Leaving, Adding, Placed
<1>10. pc[Main] = "free" /\ \A a \in Actors : pc[a] \in {"take", "free"}
  BY <1>1, Roles
<1>11. Settled
  BY <1>1, <1>10 DEF Settled, Stopping
<1>12. Followed
  BY <1>1, <1>10, Roles DEF Followed, Placed
<1>13. CounterIsWork
  <2>1. /\ {a \in Actors : pc[a] \in {"zero", "put"}} = {}
        /\ {w \in Workers : pc[w] \in
              {"run", "add", "zero", "put", "notify", "flag", "bell", "sub"}} = {}
    BY <1>10, Roles
  <2>2. Cardinality({}) = 0
    BY FS_EmptySet
  <2>3. Len(queue) = 0 /\ counter = 0
    BY <1>1
  <2>4. counter = Len(queue) + Cardinality({}) + Cardinality({})
    BY <2>2, <2>3
  <2> QED
    BY <2>1, <2>4, Zenon DEF CounterIsWork
<1>14. IdleMeansDone
  BY <1>1 DEF IdleMeansDone
<1> QED
  BY <1>2, <1>4, <1>7, <1>8, <1>9, <1>11, <1>12, <1>13, <1>14 DEF IInv, Unsubmitted, Promises

(* Stop() is no cancellation: whatever the clients, the tasks and the workers    *)
(* do meanwhile, when it returns, each task that Put() took has run once.        *)
THEOREM StopRunsAll == Spec => []StopDrains
<1>1. IInv => StopDrains
  <2> SUFFICES ASSUME IInv, pc[Main] = "stopped"
               PROVE  /\ queue = <<>> /\ ~opened
                      /\ \A t \in Tasks : ran[t] = IF t \in accepted THEN 1 ELSE 0
    BY DEF StopDrains
  <2>1. \A w \in Workers : pc[w] = "exit"
    BY DEF IInv, Leaving
  <2>2. queue = <<>> /\ ~opened
    BY <2>1, ThreadsAssumption DEF IInv, Leaving
  <2>3. \A t : ~Queued(t)
    BY <2>2 DEF Queued
  <2>4. \A t \in Tasks : ran[t] = IF t \in accepted THEN 1 ELSE 0
    BY <2>1, <2>3 DEF IInv, Ledger, Located
  <2> QED
    BY <2>2, <2>4
<1> QED
  BY <1>1, InitIInv, NextIInv, PTL DEF Spec

-----------------------------------------------------------------------------
Putting == {a \in Actors : pc[a] \in {"zero", "put"}}
Busy    == {w \in Workers : pc[w] \in Holding}

One(b) == IF b THEN 1 ELSE 0

(* How the two counted sets change when one thread goes on. *)
LEMMA Counted ==
  ASSUME NEW a \in Actors, NEW to,
         \A b \in Actors : pc'[b] = IF b = a THEN to ELSE pc[b]
  PROVE  /\ Cardinality(Putting) \in Nat /\ Cardinality(Busy) \in Nat
         /\ Cardinality(Putting) = 0 <=> Putting = {}
         /\ Cardinality(Busy) = 0 <=> Busy = {}
         /\ Cardinality(Putting') = Cardinality(Putting)
              + (One(to \in {"zero", "put"}) - One(pc[a] \in {"zero", "put"}))
         /\ Cardinality(Busy') = Cardinality(Busy)
              + (One(a \in Workers /\ to \in Holding) - One(a \in Workers /\ pc[a] \in Holding))
<1>1. IsFiniteSet(Putting) /\ IsFiniteSet(Busy)
  <2>1. IsFiniteSet(Workers) /\ IsFiniteSet(Clients) /\ IsFiniteSet({Main})
    BY ThreadsAssumption, FS_Singleton
  <2>2. IsFiniteSet(Actors)
    BY <2>1, FS_Union DEF Actors
  <2> QED
    BY <2>1, <2>2, FS_Subset DEF Putting, Busy
<1>2. Putting' = IF to \in {"zero", "put"} THEN Putting \cup {a} ELSE Putting \ {a}
  BY DEF Putting
<1>3. a \in Putting <=> pc[a] \in {"zero", "put"}
  BY DEF Putting
<1>4. Busy' = IF a \in Workers /\ to \in Holding THEN Busy \cup {a} ELSE Busy \ {a}
  BY Roles DEF Busy
<1>5. a \in Busy <=> a \in Workers /\ pc[a] \in Holding
  BY DEF Busy
<1>6. /\ Cardinality(Putting) \in Nat /\ Cardinality(Busy) \in Nat
      /\ Cardinality(Putting) = 0 <=> Putting = {}
      /\ Cardinality(Busy) = 0 <=> Busy = {}
  BY <1>1, FS_CardinalityType, FS_EmptySet
<1>9. ASSUME NEW S, IsFiniteSet(S)
      PROVE  /\ Cardinality(S \cup {a}) = Cardinality(S) + 1 - One(a \in S)
             /\ Cardinality(S \ {a}) = Cardinality(S) - One(a \in S)
  <2>1. Cardinality(S) \in Nat
    BY <1>9, FS_CardinalityType
  <2>2. Cardinality(S \cup {a}) = IF a \in S THEN Cardinality(S) ELSE Cardinality(S) + 1
    BY <1>9, FS_AddElement, Zenon
  <2>3. Cardinality(S \ {a}) = IF a \in S THEN Cardinality(S) - 1 ELSE Cardinality(S)
    BY <1>9, FS_RemoveElement, Zenon
  <2>4. One(a \in S) = IF a \in S THEN 1 ELSE 0
    BY DEF One
  <2> QED
    BY <2>1, <2>2, <2>3, <2>4
<1>7. Cardinality(Putting') = Cardinality(Putting)
        + (One(to \in {"zero", "put"}) - One(pc[a] \in {"zero", "put"}))
  <2>1. One(a \in Putting) = One(pc[a] \in {"zero", "put"}) /\ One(a \in Putting) \in {0, 1}
    BY <1>3 DEF One
  <2>2. CASE to \in {"zero", "put"}
    BY <1>1, <1>2, <1>6, <1>9, <2>1, <2>2 DEF One
  <2>3. CASE to \notin {"zero", "put"}
    BY <1>1, <1>2, <1>6, <1>9, <2>1, <2>3 DEF One
  <2> QED
    BY <2>2, <2>3
<1>8. Cardinality(Busy') = Cardinality(Busy)
        + (One(a \in Workers /\ to \in Holding) - One(a \in Workers /\ pc[a] \in Holding))
  <2>1. One(a \in Busy) = One(a \in Workers /\ pc[a] \in Holding) /\ One(a \in Busy) \in {0, 1}
    BY <1>5 DEF One
  <2>4. /\ Cardinality(Busy \cup {a}) = Cardinality(Busy) + 1 - One(a \in Busy)
        /\ Cardinality(Busy \ {a}) = Cardinality(Busy) - One(a \in Busy)
    BY <1>1, <1>9, Zenon
  <2>2. CASE a \in Workers /\ to \in Holding
    <3>1. Busy' = Busy \cup {a} /\ One(a \in Workers /\ to \in Holding) = 1
      BY <1>4, <2>2 DEF One
    <3> QED
      BY <1>6, <2>1, <2>4, <3>1
  <2>3. CASE ~(a \in Workers /\ to \in Holding)
    <3>1. Busy' = Busy \ {a} /\ One(a \in Workers /\ to \in Holding) = 0
      BY <1>4, <2>3 DEF One
    <3> QED
      BY <1>6, <2>1, <2>4, <3>1
  <2> QED
    BY <2>2, <2>3
<1> QED
  BY <1>6, <1>7, <1>8

(* What a step of a worker or of a client that goes to `to` does, other than to   *)
(* keep Followed: it does not touch what Main decides, it starts in a client or a *)
(* worker that has not finished or leaves the pool as idle as it was, ...       *)
Underway(a, to) ==
  /\ Goto(a, to)
  /\ UNCHANGED <<plan, opened, quiet, owed>>
  /\ ended \subseteq ended'
  /\ a \in Clients => ~ClientsReturned
  /\ a \in Workers => /\ left' = left
                      /\ \/ pc[a] \in Holding
                         \/ queue # <<>>
                         \/ queue' = queue /\ to \notin Holding

(* ... and the counter moves with what it counts. *)
Balanced(a, to) ==
  /\ counter' \in Int /\ Len(queue') \in Int
  /\ counter' = counter + (Len(queue') - Len(queue))
                + (One(to \in {"zero", "put"}) - One(pc[a] \in {"zero", "put"}))
                + (One(a \in Workers /\ to \in Holding) - One(a \in Workers /\ pc[a] \in Holding))

(* A step that starts no task and leaves Submit() only for a task that is        *)
(* accepted.                                                                 *)
Plain(a, to) ==
  /\ UNCHANGED <<left, task, ran>>
  /\ accepted \subseteq accepted'
  /\ submitted' = submitted \/ submitted' = submitted \cup {Submitting(a)}
  /\ submitted' # submitted => a \in Workers /\ pc[a] \in Placed
  /\ a \in Clients => to \in ClientAt /\ (to \in Placed => Head(left[a]) \in accepted')
  /\ a \in Workers =>
       /\ to \in WorkerAt
       /\ to \in Placed => plan.child[task[a]] \in accepted'
       /\ pc[a] \in Adding => to \in Adding \/ plan.child[task[a]] \in accepted'

LEMMA NextPromises ==
  ASSUME Promises, IInv, Orderly, [Next]_vars
  PROVE  Promises'
<1>o. ASSUME NEW a \in Workers \cup Clients, NEW to,
             Underway(a, to), Balanced(a, to), Followed'
      PROVE  Promises'
  <2> USE <1>o
  <2>0. \A b \in Actors : pc'[b] = IF b = a THEN to ELSE pc[b]
    BY DEF Underway, Goto, IInv, Threads
  <2>1. /\ a \in Actors /\ a # Main /\ (a \in Clients <=> a \notin Workers)
        /\ pc'[Main] = pc[Main] /\ counter \in Int /\ Len(queue) \in Int
    BY <2>0, Roles DEF IInv, Types
  <2>2. Settled'
    <3>1. CASE a \in Clients
      <4>1. /\ pc[Main] \notin {"load last", "wait last"} \cup Stopping
            /\ opened /\ ~(plan.patient /\ quiet)
        BY <3>1, Zenon DEF Promises, Settled, Underway
      <4>2. ~(plan'.patient /\ quiet') /\ opened'
        BY <4>1 DEF Underway
      <4>3. pc'[Main] \notin {"load last", "wait last"} \cup Stopping
        BY <2>1, <4>1, Zenon
      <4> QED
        BY <4>2, <4>3 DEF Settled, Stopping
    <3>2. CASE a \in Workers
      <4>1. \A c \in Clients : pc'[c] = pc[c] /\ left'[c] = left[c]
        BY <2>0, <3>2, Roles DEF Underway
      <4>2. ClientsReturned' = ClientsReturned
        BY <4>1 DEF ClientsReturned
      <4>3. plan.patient /\ quiet => queue' = <<>> /\ \A w \in Workers : pc'[w] \notin Holding
        BY <2>0, <3>2, Roles DEF Promises, Settled, Underway
      <4>4. plan' = plan /\ opened' = opened /\ quiet' = quiet
        BY DEF Underway
      <4> QED
        BY <2>1, <4>2, <4>3, <4>4 DEF Promises, Settled, Stopping, Holding, Adding, Placed
    <3> QED
      BY <2>1, <3>1, <3>2
  <2>3. CounterIsWork'
    <3> DEFINE p == One(to \in {"zero", "put"}) - One(pc[a] \in {"zero", "put"})
               r == One(a \in Workers /\ to \in Holding) - One(a \in Workers /\ pc[a] \in Holding)
    <3>1. counter = Len(queue) + Cardinality(Putting) + Cardinality(Busy)
      BY DEF Promises, CounterIsWork, Putting, Busy, Holding, Adding, Placed
    <3>2. /\ Cardinality(Putting) \in Nat /\ Cardinality(Busy) \in Nat
          /\ Cardinality(Putting') = Cardinality(Putting) + p
          /\ Cardinality(Busy') = Cardinality(Busy) + r
      BY <2>0, <2>1, Counted, Zenon
    <3>3. p \in Int /\ r \in Int
      BY DEF One
    <3>4. /\ counter' = counter + (Len(queue') - Len(queue)) + p + r
          /\ Len(queue') \in Int
      BY Zenon DEF Balanced
    <3> HIDE DEF p, r
    <3>5. Cardinality(Putting) + p \in Int /\ Cardinality(Busy) + r \in Int
      BY <3>2, <3>3
    <3>6. counter + (Len(queue') - Len(queue))
            = Len(queue') + Cardinality(Putting) + Cardinality(Busy)
      BY <2>1, <3>1, <3>2, <3>4
    <3>7. counter' = Len(queue') + (Cardinality(Putting) + p) + (Cardinality(Busy) + r)
      BY <3>2, <3>3, <3>4, <3>6
    <3> QED
      BY <3>2, <3>7 DEF CounterIsWork, Putting, Busy, Holding, Adding, Placed
  <2>4. IdleMeansDone'
    BY <2>1 DEF Promises, IdleMeansDone, Underway
  <2> QED
    BY <2>2, <2>3, <2>4 DEF Promises
<1>p. ASSUME NEW a \in Workers \cup Clients, NEW to,
             Plain(a, to), Underway(a, to), Balanced(a, to)
      PROVE  Promises'
  <2> USE <1>p
  <2>1. \A b \in Actors : pc'[b] = IF b = a THEN to ELSE pc[b]
    BY DEF Underway, Goto, IInv, Threads
  <2>2. /\ plan' = plan /\ owed' = owed /\ left' = left /\ task' = task /\ ran' = ran
        /\ accepted \subseteq accepted'
    BY DEF Plain, Underway
  <2>3. owed' \subseteq submitted' /\ submitted' \subseteq accepted'
    BY <2>2 DEF Plain, Promises, Followed, Submitting
  <2>4. \A c \in Clients : pc'[c] \in Placed => Head(left[c]) \in accepted'
    BY <2>1, <2>2, Roles DEF Plain, Promises, Followed
  <2>5. \A w \in Workers : pc'[w] \in Placed => plan.child[task[w]] \in accepted'
    BY <2>1, <2>2, Roles DEF Plain, Promises, Followed
  <2>6. ASSUME NEW t \in Tasks, ran[t] = 1, plan.child[t] # NoTask
        PROVE  plan.child[t] \in accepted' \/ \E w \in Workers : pc'[w] \in Adding /\ task[w] = t
    <3>1. CASE plan.child[t] \in accepted
      BY <3>1, <2>2
    <3>2. ASSUME NEW w \in Workers, pc[w] \in Adding, task[w] = t
          PROVE  plan.child[t] \in accepted' \/ pc'[w] \in Adding
      BY <2>1, <3>2, Roles DEF Plain
    <3> QED
      BY <2>6, <3>1, <3>2 DEF Promises, Followed
  <2>7. Followed'
    BY <2>2, <2>3, <2>4, <2>5, <2>6 DEF Followed, Adding, Placed
  <2> QED
    BY <2>7, <1>o
<1>a. ASSUME NEW a \in Workers \cup Clients, Submit(a) PROVE Promises'
  <2> USE <1>a
  <2> USE DEF Holding, Adding, Placed
  <2>0. /\ a \in Actors /\ (a \in Workers <=> a \notin Clients) /\ a # Main
        /\ counter \in Int /\ counter + 1 \in Int /\ Len(queue) \in Int
        /\ queue \in Seq(Tasks) /\ left \in [Clients -> Seq(Tasks)] /\ accepted \subseteq Tasks
    BY Roles DEF IInv, Types
  <2>1. a \in Clients /\ pc[a] # "free" => ~ClientsReturned
    BY DEF ClientsReturned
  <2>2. One(TRUE) = 1 /\ One(FALSE) = 0
    BY DEF One
  <2>3. CASE SubmitAdd(a)
    <3>1. PICK to \in {"zero", "put"} : Goto(a, to)
      BY <2>3 DEF SubmitAdd
    <3>2. /\ pc[a] = "add" /\ counter' = counter + 1
          /\ UNCHANGED <<plan, queue, opened, left, quiet, owed, task, ran, ended, accepted, submitted>>
      BY <2>3 DEF SubmitAdd, FetchAdd, queueVars, history
    <3>3. Plain(a, to)
      BY <3>1, <3>2 DEF Plain, ClientAt, WorkerAt
    <3>4. Underway(a, to)
      BY <2>1, <3>1, <3>2 DEF Underway
    <3>5. Balanced(a, to)
      BY <2>0, <2>2, <3>1, <3>2 DEF Balanced, One
    <3> QED
      BY <3>3, <3>4, <3>5, <1>p
  <2>4. ASSUME NEW from, NEW to, Goto(a, to), pc[a] = from,
               <<from, to>> \in {<<"zero", "put">>, <<"notify", "flag">>, <<"flag", "bell">>},
               UNCHANGED <<plan, queue, opened, counter, left, quiet, owed, task, ran, ended,
                           accepted, submitted>>
        PROVE  Promises'
    <3>1. Plain(a, to)
      BY <2>0, <2>4 DEF Plain, ClientAt, WorkerAt, Promises, Followed
    <3>2. Underway(a, to)
      BY <2>1, <2>4 DEF Underway
    <3>3. Balanced(a, to)
      BY <2>0, <2>2, <2>4 DEF Balanced, One
    <3> QED
      BY <3>1, <3>2, <3>3, <1>p
  <2>5. CASE SubmitAddStore(a) \/ SubmitNotify(a) \/ SubmitFlag(a)
    BY <2>4, <2>5 DEF SubmitAddStore, SubmitNotify, SubmitFlag, StoreZero, NotifyOne,
                      queueVars, groupVars, history
  <2>6. CASE SubmitPut(a) /\ Push(Submitting(a)) /\ Goto(a, "notify")
                          /\ accepted' = accepted \cup {Submitting(a)}
    <3>1. /\ pc[a] = "put" /\ queue' = Append(queue, Submitting(a))
          /\ UNCHANGED <<plan, opened, counter, left, quiet, owed, task, ran, ended, submitted>>
      BY <2>6 DEF SubmitPut, Push, groupVars
    <3>2. Len(queue') = Len(queue) + 1
      <4>1. queue' \in Seq(Tasks)
        BY NextIInv DEF IInv, Types
      <4> QED
        BY <3>1, <4>1, <2>0
    <3>3. Plain(a, "notify")
      BY <2>0, <2>6, <3>1 DEF Plain, ClientAt, WorkerAt, Submitting
    <3>4. Underway(a, "notify")
      BY <2>0, <2>1, <2>6, <3>1 DEF Underway
    <3>5. Balanced(a, "notify")
      BY <2>0, <2>2, <3>1, <3>2 DEF Balanced, One
    <3> QED
      BY <3>3, <3>4, <3>5, <1>p
  <2>7. CASE SubmitPut(a) /\ Reject
    <3>1. pc[a] = "put" /\ ~opened
      BY <2>7, Zenon DEF SubmitPut, Reject
    <3>2. ClientsReturned /\ quiet
      BY <3>1 DEF Promises, Settled, Stopping
    <3>3. a \in Workers /\ plan.child[task[a]] # NoTask /\ task[a] \in Tasks
      BY <2>0, <2>1, <3>1, <3>2 DEF IInv, Ledger, Taken, Unsubmitted, ChildIsNew
    <3>4. ~plan.patient
      BY <3>1, <3>2, <3>3 DEF Promises, Settled
    <3> QED
      BY <3>3, <3>4 DEF Orderly, IInv, Types
  <2>8. CASE SubmitBell(a) /\ a \in Workers
    <3>1. /\ pc[a] = "bell" /\ Goto(a, "sub") /\ submitted' = submitted \cup {Submitting(a)}
          /\ UNCHANGED <<plan, queue, opened, counter, left, quiet, owed, task, ran, ended, accepted>>
      BY <2>8 DEF SubmitBell, queueVars, groupVars
    <3>2. Plain(a, "sub")
      BY <2>0, <2>8, <3>1 DEF Plain, WorkerAt
    <3>3. Underway(a, "sub")
      BY <2>0, <2>8, <3>1 DEF Underway
    <3>4. Balanced(a, "sub")
      BY <2>0, <2>2, <3>1 DEF Balanced, One
    <3> QED
      BY <3>2, <3>3, <3>4, <1>p
  <2>9. CASE SubmitBell(a) /\ a \in Clients
    <3>1. /\ pc[a] = "bell" /\ Goto(a, "free") /\ submitted' = submitted \cup {Submitting(a)}
          /\ left' = [left EXCEPT ![a] = Tail(@)]
          /\ UNCHANGED <<plan, queue, opened, counter, quiet, owed, task, ran, ended, accepted>>
      BY <2>0, <2>9 DEF SubmitBell, queueVars, groupVars
    <3>2. \A b \in Actors : pc'[b] = IF b = a THEN "free" ELSE pc[b]
      BY <2>0, <2>9, <3>1, Moved DEF IInv, ClientAt
    <3>3. Underway(a, "free")
      BY <2>0, <2>1, <2>9, <3>1 DEF Underway
    <3>4. Balanced(a, "free")
      BY <2>0, <2>2, <2>9, <3>1 DEF Balanced, One
    <3>5. Followed'
      <4>1. owed' \subseteq submitted' /\ submitted' \subseteq accepted'
        BY <2>0, <2>9, <3>1 DEF Promises, Followed, Submitting
      <4>2. \A c \in Clients : pc'[c] \in Placed => Head(left'[c]) \in accepted'
        BY <2>0, <3>1, <3>2, Roles DEF Promises, Followed
      <4>3. \A w \in Workers : pc'[w] = pc[w]
        BY <2>9, <3>2, Roles
      <4> QED
        BY <3>1, <4>1, <4>2, <4>3 DEF Promises, Followed
    <3> QED
      BY <3>2, <3>3, <3>4, <3>5, <1>o
  <2> QED
    BY <2>3, <2>5, <2>6, <2>7, <2>8, <2>9 DEF Submit, SubmitPut
<1>b. ASSUME NEW w \in Workers, Work(w) PROVE Promises'
  <2> USE <1>b
  <2> USE DEF Holding, Adding, Placed
  <2>0. /\ w \in Actors /\ w \notin Clients /\ w # Main
        /\ counter \in Int /\ counter - 1 \in Int /\ Len(queue) \in Int
        /\ queue \in Seq(Tasks) /\ accepted \subseteq Tasks /\ task \in [Workers -> Tasks \cup {NoTask}]
        /\ ran \in [Tasks -> {0, 1}]
    BY Roles DEF IInv, Types
  <2>1. One(TRUE) = 1 /\ One(FALSE) = 0
    BY DEF One
  <2>2. ASSUME NEW from, NEW to, Goto(w, to), pc[w] = from,
               <<from, to>> \in {<<"take", "nothing">>, <<"one", "wake">>, <<"wake", "door">>,
                                 <<"nothing", "door">>, <<"nothing", "exit">>, <<"door", "take">>,
                                 <<"door", "check">>, <<"check", "take">>, <<"check", "park">>,
                                 <<"park", "door">>},
               UNCHANGED <<plan, queue, opened, counter, left, quiet, owed, task, ran, ended,
                           accepted, submitted>>
        PROVE  Promises'
    <3>1. Plain(w, to)
      BY <2>0, <2>2 DEF Plain, WorkerAt
    <3>2. Underway(w, to)
      BY <2>0, <2>2 DEF Underway
    <3>3. Balanced(w, to)
      BY <2>0, <2>1, <2>2 DEF Balanced, One
    <3> QED
      BY <3>1, <3>2, <3>3, <1>p
  <2>3. CASE WorkerTake(w) /\ TakeNothing(w) /\ Goto(w, "nothing") /\ UNCHANGED task
    BY <2>2, <2>3 DEF WorkerTake, TakeNothing, groupVars, history
  <2>4. CASE WorkerDoneStore(w) \/ WorkerDoneWake(w) \/ WorkerPark(w)
    BY <2>2, <2>4 DEF WorkerDoneStore, WorkerDoneWake, WorkerPark, StoreOne, WakeAll,
                      queueVars, groupVars, history
  <2>5. CASE WorkerNothing(w) \/ WorkerDoor(w) \/ WorkerCheck(w)
    BY <2>2, <2>5 DEF WorkerNothing, WorkerDoor, WorkerCheck, queueVars, groupVars, history
  <2>6. CASE WorkerTake(w) /\ Park(w) /\ UNCHANGED <<plan, task, pc>>
    BY <2>6, StillStep DEF Still, WorkerTake, Park, groupVars, history
  <2>7. CASE WorkerTake(w) /\ Pop(w) /\ task' = [task EXCEPT ![w] = Head(queue)] /\ Goto(w, "run")
    <3>1. /\ pc[w] = "take" /\ queue # <<>> /\ queue' = Tail(queue)
          /\ UNCHANGED <<plan, opened, counter, left, quiet, owed, ran, ended, accepted, submitted>>
      BY <2>7 DEF WorkerTake, Pop, groupVars, history
    <3>2. \A b \in Actors : pc'[b] = IF b = w THEN "run" ELSE pc[b]
      BY <2>0, <2>7, Moved DEF IInv, WorkerAt
    <3>3. Len(queue') = Len(queue) - 1 /\ Len(queue') \in Int
      BY <2>0, <3>1
    <3>4. Underway(w, "run")
      BY <2>0, <2>7, <3>1 DEF Underway
    <3>5. Balanced(w, "run")
      BY <2>0, <2>1, <3>1, <3>3 DEF Balanced, One
    <3>6. Followed'
      <4>1. \A v \in Workers : pc'[v] \in Adding \cup Placed => pc[v] = pc'[v] /\ task'[v] = task[v]
        BY <2>0, <2>7, <3>2, Roles
      <4>2. \A v \in Workers : pc[v] \in Adding => pc'[v] = pc[v] /\ task'[v] = task[v]
        BY <2>0, <2>7, <3>1, <3>2, Roles
      <4>3. \A c \in Clients : pc'[c] = pc[c]
        BY <2>0, <3>2, Roles
      <4> QED
        BY <3>1, <4>1, <4>2, <4>3 DEF Promises, Followed
    <3> QED
      BY <3>2, <3>4, <3>5, <3>6, <1>o
  <2>8. CASE WorkerRun(w)
    <3>1. PICK to \in {"sub", "add"} :
            /\ to = "add" <=> plan.child[task[w]] # NoTask
            /\ pc[w] = "run" /\ Goto(w, to)
            /\ ran' = [ran EXCEPT ![task[w]] = @ + 1] /\ ended' = ended \cup {task[w]}
            /\ UNCHANGED <<plan, queue, opened, counter, left, quiet, owed, task, accepted, submitted>>
      BY <2>8 DEF WorkerRun, queueVars, groupVars
    <3>2. \A b \in Actors : pc'[b] = IF b = w THEN to ELSE pc[b]
      BY <2>0, <3>1, Moved DEF IInv, WorkerAt
    <3>3. Underway(w, to)
      BY <2>0, <3>1 DEF Underway
    <3>4. Balanced(w, to)
      BY <2>0, <2>1, <3>1 DEF Balanced, One
    <3>5. Followed'
      <4>1. \A v \in Workers : pc'[v] \in Placed => pc[v] \in Placed
        BY <3>1, <3>2, Roles
      <4>2. \A c \in Clients : pc'[c] = pc[c]
        BY <2>0, <3>2, Roles
      <4>3. ASSUME NEW t \in Tasks, ran'[t] = 1, plan.child[t] # NoTask
            PROVE  plan.child[t] \in accepted \/ \E v \in Workers : pc'[v] \in Adding /\ task[v] = t
        <5>1. CASE t = task[w]
          BY <4>3, <5>1, <3>1, <3>2, <2>0
        <5>2. CASE t # task[w]
          <6>1. ran[t] = 1
            BY <4>3, <5>2, <3>1, <2>0
          <6>2. \A v \in Workers : pc[v] \in Adding => pc'[v] \in Adding
            BY <3>1, <3>2, Roles
          <6> QED
            BY <4>3, <6>1, <6>2 DEF Promises, Followed
        <5> QED
          BY <5>1, <5>2
      <4> QED
        BY <3>1, <4>1, <4>2, <4>3 DEF Promises, Followed
    <3> QED
      BY <3>2, <3>3, <3>4, <3>5, <1>o
  <2>9. CASE WorkerDone(w)
    <3>1. PICK to \in {"one", "door"} : Goto(w, to)
      BY <2>9 DEF WorkerDone
    <3>2. /\ pc[w] = "sub" /\ counter' = counter - 1
          /\ UNCHANGED <<plan, queue, opened, left, quiet, owed, task, ran, ended, accepted, submitted>>
      BY <2>9 DEF WorkerDone, FetchSub, queueVars, history
    <3>3. Plain(w, to)
      BY <2>0, <3>1, <3>2 DEF Plain, WorkerAt
    <3>4. Underway(w, to)
      BY <2>0, <3>1, <3>2 DEF Underway
    <3>5. Balanced(w, to)
      BY <2>0, <2>1, <3>1, <3>2 DEF Balanced, One
    <3> QED
      BY <3>3, <3>4, <3>5, <1>p
  <2> QED
    BY <2>3, <2>4, <2>5, <2>6, <2>7, <2>8, <2>9, <1>a DEF Work, WorkerTake
<1> USE DEF Stopping
<1> DEFINE work == <<plan, queue, counter, task, left, accepted, ran, ended, submitted>>
<1>0. Main \in Actors /\ Main \notin Workers /\ Main \notin Clients
  BY Roles
<1>11. /\ queue \in Seq(Tasks) /\ Len(queue) \in Nat /\ counter \in Int /\ plan \in Plans
       /\ accepted \subseteq Tasks
  BY DEF IInv, Types
<1>2. ASSUME NEW c \in Clients, CallSubmit(c) PROVE Promises'
  <2>1. /\ pc[c] = "free" /\ left[c] # <<>> /\ Goto(c, "add") /\ c \notin Workers
        /\ UNCHANGED <<work, opened, quiet, owed>>
    BY <1>2, Roles DEF CallSubmit, queueVars, groupVars, history
  <2>2. Plain(c, "add")
    BY <2>1 DEF Plain, ClientAt, Adding, Placed
  <2>3. Underway(c, "add")
    BY <2>1 DEF Underway, ClientsReturned
  <2>4. Balanced(c, "add")
    BY <2>1 DEF Balanced, One, IInv, Types
  <2> QED
    BY <2>2, <2>3, <2>4, <1>p
(* Main, which works on nothing. *)
<1>4. ASSUME NEW to \in MainAt, Goto(Main, to), UNCHANGED work,
             owed' = owed \/ owed' = submitted,
             to \in {"load last", "wait last"} \cup Stopping => ClientsReturned,
             to \in Stopping => quiet',
             ~opened' => to \in Stopping,
             plan.patient /\ quiet' =>
               ClientsReturned /\ queue = <<>> /\ \A w \in Workers : pc[w] \notin Holding,
             to = "free" => owed' \cup ({plan.child[t] : t \in owed'} \ {NoTask}) \subseteq ended
      PROVE  Promises'
  <2>1. \A b \in Actors : pc'[b] = IF b = Main THEN to ELSE pc[b]
    BY <1>0, <1>4, Moved DEF IInv
  <2>2. /\ pc'[Main] = to /\ \A w \in Workers : pc'[w] = pc[w]
        /\ \A c \in Clients : pc'[c] = pc[c]
    BY <2>1, Roles
  <2>3. ClientsReturned' = ClientsReturned
    BY <1>4, <2>2 DEF ClientsReturned
  <2>4. Settled'
    BY <1>4, <2>2, <2>3 DEF Settled
  <2>5. Followed'
    BY <1>4, <2>2 DEF Promises, Followed
  <2>6. CounterIsWork'
    <3>1. {a \in Actors : pc[a] \in {"zero", "put"}}' = {a \in Actors : pc[a] \in {"zero", "put"}}
      BY <2>1, <1>0, <1>4 DEF MainAt, IInv, Threads
    <3>2. CounterIsWork' <=> CounterIsWork
      BY <3>1, <1>4, <2>2 DEF CounterIsWork
    <3> QED
      BY <3>2 DEF Promises
  <2>7. IdleMeansDone'
    BY <1>4, <2>2 DEF IdleMeansDone
  <2> QED
    BY <2>4, <2>5, <2>6, <2>7 DEF Promises
<1>5. CASE CallWaitIdle
  <2>1. PICK to \in {"load", "load last"} : Goto(Main, to) /\ (to = "load last" => ClientsReturned)
    BY <1>5 DEF CallWaitIdle
  <2>2. pc[Main] = "free" /\ UNCHANGED <<work, opened, quiet>> /\ owed' = submitted
    BY <1>5 DEF CallWaitIdle, queueVars, groupVars
  <2> QED
    BY <1>4, <2>1, <2>2 DEF Promises, Settled, MainAt
<1>6. ASSUME NEW phase, phase \in {"load", "load last"}, IdleLoad(phase) PROVE Promises'
  <2>1. pc[Main] = phase /\ UNCHANGED <<work, opened, owed>>
    BY <1>6, Zenon DEF IdleLoad, queueVars, groupVars, history
  <2>2. CASE counter = 0
    <3>1. queue = <<>> /\ \A w \in Workers : pc[w] \notin Holding
      <4>1. counter = Len(queue) + Cardinality(Putting) + Cardinality(Busy)
        BY DEF Promises, CounterIsWork, Putting, Busy, Holding, Adding, Placed
      <4>2. \A b \in Actors : pc'[b] = IF b = Main THEN "free" ELSE pc[b]
        BY <1>0, <1>6, <2>2, Moved DEF IdleLoad, IInv, MainAt
      <4>3. /\ Cardinality(Putting) \in Nat /\ Cardinality(Busy) \in Nat
            /\ Cardinality(Busy) = 0 <=> Busy = {}
        BY <1>0, <4>2, Counted, Zenon
      <4>5. Len(queue) = 0 /\ Busy = {}
        BY <2>2, <4>1, <4>3, <1>11
      <4> QED
        BY <1>11, <4>5 DEF Busy
    <3>2. \A t \in accepted : t \in Tasks /\ ran[t] = 1 /\ t \in ended
      BY <3>1, <1>11 DEF IInv, Ledger, Located, Queued, Holding
    <3>3. owed \subseteq ended
      BY <3>2 DEF Promises, Followed
    <3>4. \A t \in owed : plan.child[t] # NoTask => plan.child[t] \in ended
      BY <3>1, <3>2 DEF Promises, Followed, Holding
    <3>5. Goto(Main, "free") /\ quiet' = (quiet \/ phase = "load last")
      BY <1>6, <2>2, Zenon DEF IdleLoad
    <3>6. phase = "load last" => ClientsReturned
      BY <2>1 DEF Promises, Settled
    <3> QED
      BY <1>4, <1>6, <2>1, <3>1, <3>3, <3>4, <3>5, <3>6 DEF Promises, Settled, MainAt
  <2>3. CASE counter # 0
    <3>1. PICK to \in {"wait", "wait last"} : Goto(Main, to) /\ (to = "wait last" => phase = "load last")
      BY <1>6, <2>3 DEF IdleLoad
    <3>2. UNCHANGED quiet
      BY <1>6, <2>3 DEF IdleLoad
    <3> QED
      BY <1>4, <1>6, <2>1, <3>1, <3>2 DEF Promises, Settled, MainAt
  <2> QED
    BY <2>2, <2>3
<1>7. ASSUME NEW phase, phase \in {"wait", "wait last"}, IdleWait(phase) PROVE Promises'
  <2>1. pc[Main] = phase /\ UNCHANGED <<work, opened, quiet, owed>>
    BY <1>7 DEF IdleWait, FutexPark, FutexReturns, queueVars, history
  <2>2. CASE UNCHANGED pc
    BY <2>1, <2>2, StillStep DEF Still
  <2>3. ASSUME NEW to \in {"load", "load last"}, Goto(Main, to), to = "load last" => phase = "wait last"
        PROVE  Promises'
    BY <1>4, <1>7, <2>1, <2>3 DEF Promises, Settled, MainAt
  <2> QED
    BY <1>7, <2>2, <2>3 DEF IdleWait
<1>8. CASE CallStop
  <2>1. /\ pc[Main] = "free" /\ quiet /\ ClientsReturned /\ Goto(Main, "stop")
        /\ UNCHANGED <<work, opened, quiet, owed>>
    BY <1>8 DEF CallStop, queueVars, groupVars, history
  <2> QED
    BY <1>4, <2>1 DEF Promises, Settled, MainAt
<1>9. CASE Stop
  <2>1. PICK to \in Stopping : Goto(Main, to)
    BY <1>9 DEF Stop, StopFlag, StopClose, StopCloseNotify, StopBell, StopJoin
  <2>2. pc[Main] \in Stopping /\ UNCHANGED <<work, quiet, owed>>
    BY <1>9 DEF Stop, StopFlag, StopClose, StopCloseNotify, StopBell, StopJoin, Shut, NotifyAll,
                queueVars, groupVars, history
  <2> QED
    BY <1>4, <2>1, <2>2 DEF Promises, Settled, MainAt
<1>10. CASE UNCHANGED vars
  BY <1>10, StillStep DEF Still, vars, poolVars, history
<1> QED
  BY <1>a, <1>b, <1>2, <1>5, <1>6, <1>7, <1>8, <1>9, <1>10 DEF Next, WaitIdle, Terminated

(* The wait group counts exactly the tasks that are announced and not counted   *)
(* out, whatever the interleaving of its two atomics with the queue.           *)
THEOREM CounterCounts == ASSUME Orderly PROVE Spec => []CounterIsWork
<1>1. IInv /\ Promises /\ [Next]_vars => IInv' /\ Promises'
  BY NextIInv, NextPromises
<1>2. Init => IInv /\ Promises
  BY InitIInv
<1>3. Promises => CounterIsWork
  BY DEF Promises
<1> QED
  BY <1>1, <1>2, <1>3, PTL DEF Spec

(* WaitIdle() returns when everything submitted before it was called has run, the *)
(* tasks that those tasks submit included, although it looks at the counter alone. *)
THEOREM IdleIsDone == ASSUME Orderly PROVE Spec => []IdleMeansDone
<1>1. IInv /\ Promises /\ [Next]_vars => IInv' /\ Promises'
  BY NextIInv, NextPromises
<1>2. Init => IInv /\ Promises
  BY InitIInv
<1>3. Promises => IdleMeansDone
  BY DEF Promises
<1> QED
  BY <1>1, <1>2, <1>3, PTL DEF Spec
=============================================================================
