------------------------- MODULE FutureCombinators -------------------------
(* futures::First and futures::Both of tasks/futures/fun/exe/futures/combine/  *)
(* par: the callbacks of the two input futures race for the output future.     *)
(*                                                                           *)
(* Two producers fulfil the inputs 1 and 2, each with a value or an error; the  *)
(* thread Main calls the combinator and then consumes the output, with Get or   *)
(* with a callback of its own.  A result is named by the input it comes from,  *)
(* Pair is the tuple of Both.                                                 *)
EXTENDS SharedState, FiniteSets

CONSTANTS
  Main,
  Out, Pair

Inputs == {1, 2}

VARIABLES
  kind,          \* the combinator that was called
  outcome,       \* what each input is fulfilled with
  counter, refs, \* value and ref_count_ of the combinator's RefCounter
  tuple,         \* the fields of res_tup that are assigned
  invoked,       \* history: how often each callback was run
  got,           \* history: what the consumer got
  first          \* history: what the output was fulfilled with first

combineVars == <<kind, outcome, counter, refs, tuple, invoked, got, first>>
vars == <<stateVars, combineVars>>

(* What one input alone fulfils the output with: a value for First, an error   *)
(* for Both.                                                                 *)
Decides(i) == outcome[i] = IF kind = "First" THEN "ok" ELSE "error"

(* Two values for First, two errors for Both: the callbacks of both inputs set  *)
(* the output.                                                               *)
Contested == \A i \in Inputs : Decides(i)

Init ==
  /\ StatesInit
  /\ kind \in {"First", "Both"}
  /\ outcome \in [Inputs -> {"ok", "error"}]
  /\ \E consume \in {<<<<"get", Out>>>>, SetCallback(Out)} :
       todo = [t \in Threads |->
                 IF t = Main THEN SetCallback(1) \o SetCallback(2) \o consume
                 ELSE SetResult(t, t)]
  /\ counter = 2
  /\ refs = 2
  /\ tuple = {}
  /\ invoked = [f \in Futures |-> 0]
  /\ got = Nothing
  /\ first = Nothing

-----------------------------------------------------------------------------
(* The body of the callback of input i. *)
Callback(i) ==
  IF Decides(i) THEN SetResult(Out, i) \o <<<<"release", i>>>>
  ELSE IF kind = "First" THEN <<<<"count", i>>, <<"release", i>>>>
  ELSE <<<<"assign", i>>, <<"count", i>>, <<"release", i>>>>

Call(t) ==
  /\ Invoke(t, IF Now(t) \in Inputs THEN Callback(Now(t)) ELSE <<>>)
  /\ invoked' = [invoked EXCEPT ![Now(t)] = @ + 1]
  /\ got' = IF Now(t) = Out THEN result[Out] ELSE got
  /\ UNCHANGED <<kind, outcome, counter, refs, tuple, first>>

(* std::get<i>(res_tup) = value *)
Assign(t) ==
  /\ At(t, "assign")
  /\ tuple' = tuple \cup {Now(t)}
  /\ Then(t, <<>>)
  /\ UNCHANGED <<result, callback, state, kind, outcome, counter, refs, invoked, got, first>>

(* value.fetch_sub(1): the last one fulfils the output with the last error, or *)
(* with the tuple.                                                           *)
Count(t) ==
  /\ At(t, "count")
  /\ counter' = counter - 1
  /\ Then(t, IF counter # 1 THEN <<>>
             ELSE SetResult(Out, IF kind = "First" THEN Now(t) ELSE Pair))
  /\ UNCHANGED <<result, callback, state, kind, outcome, refs, tuple, invoked, got, first>>

(* ReleaseRef() *)
Release(t) ==
  /\ At(t, "release")
  /\ refs' = refs - 1
  /\ Then(t, <<>>)
  /\ UNCHANGED <<result, callback, state, kind, outcome, counter, tuple, invoked, got, first>>

(* The operations of the shared states themselves. *)
Rendezvous(t) ==
  /\ \/ Emplace(t) \/ Publish(t) \/ Store(t) \/ Subscribe(t)
     \/ SyncGet(t)
  /\ got' = IF At(t, "get") THEN result[Out] ELSE got
  /\ first' = IF first = Nothing THEN result'[Out] ELSE first
  /\ UNCHANGED <<kind, outcome, counter, refs, tuple, invoked>>

Step(t) == Call(t) \/ Assign(t) \/ Count(t) \/ Release(t) \/ Rendezvous(t)

(* Every thread has returned, or waits for a result in Get; that a result does  *)
(* come is Delivered.                                                        *)
Terminated ==
  /\ \A t \in Threads : todo[t] = <<>> \/ At(t, "get")
  /\ UNCHANGED vars

Next == (\E t \in Threads : Step(t)) \/ Terminated

Spec == Init /\ [][Next]_vars

(* Every thread is scheduled. *)
FairSpec == Spec /\ \A t \in Threads : WF_vars(Step(t))

-----------------------------------------------------------------------------
TypeOK ==
  /\ result \in [Futures -> Values \cup {Nothing}]
  /\ callback \in [Futures -> {"none", "set", "moved"}]
  /\ state \in [Futures -> {"Initial", "CallbackSet", "ResultSet"}]
  /\ counter \in 0..2 /\ refs \in 0..2
  /\ tuple \subseteq Inputs
  /\ got \in Values \cup {Nothing}

(* A callback is submitted once, by the later of SetResult() and SetCallback(): *)
(* a second time it would be a function that was moved out.  The code does not  *)
(* keep this when both inputs set the output.                                 *)
CallbackOnce == \A f \in Futures : invoked[f] <= 1
SubmittedOnce == Contested \/ CallbackOnce

(* What the consumer gets is what futures/fun/readme.md says: a value, or the   *)
(* last error, of First; both values, or an error, of Both; and it is what the *)
(* output was fulfilled with, unless both inputs set it.                      *)
RightResult ==
  got # Nothing =>
    /\ got = first \/ Contested
    /\ got = Pair => tuple = Inputs
    /\ got \in Inputs => Decides(got) \/ (kind = "First" /\ counter = 0)

(* The callbacks never touch the shared counter, or the tuple in it, after the  *)
(* last of them has deleted it.                                              *)
CounterIsAlive ==
  \A t \in Threads : At(t, "assign") \/ At(t, "count") \/ At(t, "release") => refs > 0

(* A consumer gets a result whichever way the threads interleave: the output    *)
(* is fulfilled as soon as it can be, and the rendezvous does not lose it.    *)
Delivered == got = Nothing ~> got # Nothing
=============================================================================
