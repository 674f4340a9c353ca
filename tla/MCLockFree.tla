----------------------------- MODULE MCLockFree -----------------------------
(* The four lock-free objects, one behaviour checking one of them: `object`    *)
(* says which.  The members of Pair are the items of the stack, the threads    *)
(* that share pointers and the thieves of the work-stealing queue; the nodes   *)
(* are addresses, and the control blocks of the shared pointers.               *)
EXTENDS TLC

CONSTANTS Threads, Nodes, Pair, Owner, Sentinel, Null

VARIABLES
  object,
  s_head, s_node, s_alive, s_pc, s_old, s_got, s_fresh,
  q_head, q_tail, q_next, q_size, q_fresh, q_pc, q_curr, q_mine,
  w_head, w_tail, w_buffer, w_pc, w_cur, w_seen, w_out, w_missed,
  p_top, p_count, p_next, p_alive, p_call, p_pc, p_found, p_mine, p_desired, p_todo

stackVars    == <<s_head, s_node, s_alive, s_pc, s_old, s_got, s_fresh>>
queueVars    == <<q_head, q_tail, q_next, q_size, q_fresh, q_pc, q_curr, q_mine>>
stealingVars == <<w_head, w_tail, w_buffer, w_pc, w_cur, w_seen, w_out, w_missed>>
sharedVars   == <<p_top, p_count, p_next, p_alive, p_call, p_pc, p_found, p_mine, p_desired, p_todo>>
vars == <<object, stackVars, queueVars, stealingVars, sharedVars>>

Stack ==
  INSTANCE LockFreeStack
  WITH Items <- Pair, NoItem <- Null, MaxStamp <- 2,
       head <- s_head, node <- s_node, alive <- s_alive, pc <- s_pc, old <- s_old,
       got <- s_got, fresh <- s_fresh

Queue ==
  INSTANCE LockFreeQueue
  WITH head <- q_head, tail <- q_tail, next <- q_next, size <- q_size, fresh <- q_fresh,
       pc <- q_pc, curr <- q_curr, mine <- q_mine

Stealing ==
  INSTANCE WorkStealingQueue
  WITH Thieves <- Pair, NoItem <- Null, Capacity <- 2, Batch <- 2, MaxTail <- 4,
       head <- w_head, tail <- w_tail, buffer <- w_buffer, pc <- w_pc, cur <- w_cur,
       seen <- w_seen, out <- w_out, missed <- w_missed

Shared ==
  INSTANCE SharedPtrStack
  WITH Threads <- Pair, Blocks <- Nodes, Limit <- 64000, MaxStamp <- 3,
       top <- p_top, count <- p_count, next <- p_next, alive <- p_alive, call <- p_call,
       pc <- p_pc, found <- p_found, mine <- p_mine, desired <- p_desired, todo <- p_todo

Init ==
  /\ object \in {"stack", "queue", "stealing", "shared"}
  /\ Stack!Init /\ Queue!Init /\ Stealing!Init /\ Shared!Init

Next ==
  /\ UNCHANGED object
  /\ \/ object = "stack" /\ Stack!Next /\ UNCHANGED <<queueVars, stealingVars, sharedVars>>
     \/ object = "queue" /\ Queue!Next /\ UNCHANGED <<stackVars, stealingVars, sharedVars>>
     \/ object = "stealing" /\ Stealing!Next /\ UNCHANGED <<stackVars, queueVars, sharedVars>>
     \/ object = "shared" /\ Shared!Next /\ UNCHANGED <<stackVars, queueVars, stealingVars>>

Spec == Init /\ [][Next]_vars

Symmetry == Permutations(Threads) \cup Permutations(Nodes) \cup Permutations(Pair)

(* No thread touches memory that was given back, in the stack that counts in    *)
(* its nodes and in the one that is built from shared pointers.                *)
NoUseAfterFree ==
  /\ object = "stack" => Stack!HeldIsAlive
  /\ object = "shared" => Shared!TouchedIsAlive

(* Nothing is leaked by either. *)
NoLeak ==
  /\ object = "stack" => Stack!NoLeak
  /\ object = "shared" => Shared!QuietIsCounted

(* Linearizability of the four: what the object does is a step of what it       *)
(* promises, or nothing.                                                      *)
ImplementsStack ==
  Stack!Promised!Init /\ [][object = "stack" => [Stack!Promised!Next]_(Stack!Promised!vars)]_vars

ImplementsQueue ==
  Queue!Promised!Init /\ [][object = "queue" => [Queue!Promised!Next]_(Queue!Promised!vars)]_vars

ImplementsStealing ==
  /\ Stealing!Promised!Init
  /\ [][object = "stealing" => [Stealing!Promised!Next]_(Stealing!Promised!vars)]_vars

ImplementsSharedStack ==
  /\ Shared!Promised!Init
  /\ [][object = "shared" => [Shared!Promised!Next \/ Shared!Gone']_(Shared!Promised!vars)]_vars
=============================================================================
