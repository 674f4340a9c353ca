----------------------------- MODULE SharedState -----------------------------
(* SharedState of tasks/futures/fun/exe/futures/state/shared_state.hpp, the     *)
(* rendezvous of a promise and a future: whoever comes second, the result or   *)
(* the callback, submits the callback into the executor.  The executor is the  *)
(* one every state starts with, Inline: submitting is running on the spot.    *)
(*                                                                           *)
(* A thread has a stack of operations it is about to execute; an operation may *)
(* put others on top of the rest, as a call does.                             *)
EXTENDS Naturals, Sequences

CONSTANTS
  Threads,
  Futures,
  Values,        \* what a result may be
  Nothing        \* an empty result_opt_

VARIABLES
  result,        \* result_opt_ of each future
  callback,      \* callback_opt_: none, set or moved
  state,         \* state_
  todo           \* the operations of each thread, the next one first

stateVars == <<result, callback, state, todo>>

StatesInit ==
  /\ result = [f \in Futures |-> Nothing]
  /\ callback = [f \in Futures |-> "none"]
  /\ state = [f \in Futures |-> "Initial"]

(* SetResult(r) and SetCallback() of future f, as sequences of operations. *)
SetResult(f, r) == <<<<"emplace", f, r>>, <<"publish", f>>>>
SetCallback(f)  == <<<<"store", f>>, <<"subscribe", f>>>>

(* The next operation of thread t is op, and `calls` replaces it. *)
At(t, op)       == todo[t] # <<>> /\ Head(todo[t])[1] = op
Now(t)          == Head(todo[t])[2]
Then(t, calls)  == todo' = [todo EXCEPT ![t] = calls \o Tail(@)]

-----------------------------------------------------------------------------
(* result_opt_.emplace(), under the mutex; notify_one follows. *)
Emplace(t) ==
  /\ At(t, "emplace")
  /\ result' = [result EXCEPT ![Now(t)] = Head(todo[t])[3]]
  /\ Then(t, <<>>)
  /\ UNCHANGED <<callback, state>>

(* state_.exchange(ResultSet) *)
Publish(t) ==
  /\ At(t, "publish")
  /\ state' = [state EXCEPT ![Now(t)] = "ResultSet"]
  /\ Then(t, IF state[Now(t)] = "CallbackSet" THEN <<<<"invoke", Now(t)>>>> ELSE <<>>)
  /\ UNCHANGED <<result, callback>>

Store(t) ==
  /\ At(t, "store")
  /\ callback' = [callback EXCEPT ![Now(t)] = "set"]
  /\ Then(t, <<>>)
  /\ UNCHANGED <<result, state>>

(* Variant: the subscriber looks at the result instead of the state. *)
SubscribeByResult(t) ==
  /\ At(t, "subscribe")
  /\ state' = [state EXCEPT ![Now(t)] = "CallbackSet"]
  /\ Then(t, IF result[Now(t)] # Nothing THEN <<<<"invoke", Now(t)>>>> ELSE <<>>)
  /\ UNCHANGED <<result, callback>>

(* state_.exchange(CallbackSet) *)
Subscribe(t) ==
  /\ At(t, "subscribe")
  /\ state' = [state EXCEPT ![Now(t)] = "CallbackSet"]
  /\ Then(t, IF state[Now(t)] = "ResultSet" THEN <<<<"invoke", Now(t)>>>> ELSE <<>>)
  /\ UNCHANGED <<result, callback>>

(* SubmitCallbackIntoExecutor() moves the callback out and runs it: `calls` are *)
(* the operations of its body.                                                *)
Invoke(t, calls) ==
  /\ At(t, "invoke")
  /\ callback' = [callback EXCEPT ![Now(t)] = "moved"]
  /\ Then(t, calls)
  /\ UNCHANGED <<result, state>>

(* SyncGet(): the thread waits for a result. *)
SyncGet(t) ==
  /\ At(t, "get")
  /\ result[Now(t)] # Nothing
  /\ Then(t, <<>>)
  /\ UNCHANGED <<result, callback, state>>
=============================================================================
