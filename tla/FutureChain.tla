----------------------------- MODULE FutureChain -----------------------------
(* Chains of sequential combinators of tasks/futures/fun/exe/futures/combine/seq: *)
(* Map, AndThen, OrElse, FlatMap, Flatten and Via.                             *)
(*                                                                           *)
(* Future 0 is the future of a Submit() to the pool, and stage j of the chain    *)
(* makes future j from future j - 1: it subscribes a callback to the one and      *)
(* keeps the promise of the other.  Main pipes the stages and consumes the last *)
(* future, while the workers of the pool run what it is given.  With a          *)
(* ManualExecutor, Main drains it until the consumer has its result.           *)
(*                                                                           *)
(* A result is told by whether it is a value, and by the stage whose function   *)
(* made it (0: the submitted one).  Functions that return a future submit a      *)
(* task to the pool that fulfils it: the inner future of their stage.           *)
EXTENDS SharedState

CONSTANTS
  Main, Workers,
  Chains,        \* sequences of "map", "nest", "and_then", "or_else", "flat_map", "flatten"
  InnerErrors    \* inner futures may be fulfilled with an error

Kinds == {"map", "nest", "and_then", "or_else", "flat_map", "flatten"}

VARIABLES
  chain,         \* the stages; "nest" is a Map whose function returns a future
  outcome,       \* whether what each stage makes is a value
  executor,      \* executor_ of each future
  tasks,         \* the queue of the pool
  manual,        \* tasks_ of the ManualExecutor
  calledBy,      \* history: the threads that called the function of each stage
  got,           \* history: what the consumer got
  crashed        \* an exception has left a callback

chainVars == <<chain, outcome, executor, tasks, manual, calledBy, got, crashed>>
vars == <<stateVars, chainVars>>

Last     == Len(chain)
Inner(j) == 10 + j
R(j)     == [ok |-> outcome[j], by |-> j]

(* A Map makes a value, whatever its function returns. *)
Possible(c, o) ==
  /\ \A j \in 1..Len(c) : c[j] \in {"map", "nest"} => o[j]
  /\ InnerErrors \/ \A j \in 1..Len(c) : c[j] \in {"flat_map", "flatten"} => o[j]

Piped(j) == SetCallback(j - 1) \o <<<<"via", j>>>>
Pipes    == [j \in 1..3 |-> IF j <= Last THEN Piped(j) ELSE <<>>]

(* Who waits in Get() does not drain. *)
ConsumeOn(e, consume) == IF e = "manual" THEN SetCallback(Last) \o <<<<"drain", 0>>>> ELSE consume

(* The chain begins as Submit(pool, f) | Via(executor) | ... *)
Init ==
  /\ StatesInit
  /\ chain \in Chains
  /\ outcome \in [0..Last -> BOOLEAN] /\ Possible(chain, outcome)
  /\ \E e \in {"inline", "pool", "manual"}, consume \in {<<<<"get", Last>>>>, SetCallback(Last)} :
       /\ executor = [f \in Futures |-> IF f = 0 THEN e ELSE "inline"]
       /\ todo = [t \in Threads |->
                 IF t = Main THEN Pipes[1] \o Pipes[2] \o Pipes[3] \o ConsumeOn(e, consume) ELSE <<>>]
  /\ tasks = <<SetResult(0, R(0))>>
  /\ manual = <<>>
  /\ calledBy = [j \in 1..Last |-> {}]
  /\ got = Nothing
  /\ crashed = FALSE

-----------------------------------------------------------------------------
(* The callbacks, as functions of the result r of future j - 1. *)
Call(j) == <<<<"call", j>>>>

Map(j, r)     == IF r.ok THEN Call(j) \o SetResult(j, R(j)) ELSE SetResult(j, r)
AndThen(j, r) == IF r.ok THEN Call(j) \o SetResult(j, R(j)) ELSE SetResult(j, r)

(* Variant: the handler is called for values. *)
OrElseOfValue(j, r) == IF r.ok THEN Call(j) \o SetResult(j, R(j)) ELSE SetResult(j, r)

OrElse(j, r)  == IF ~r.ok THEN Call(j) \o SetResult(j, R(j)) ELSE SetResult(j, r)
FlatMap(j, r) == IF r.ok THEN Call(j) \o SetCallback(Inner(j)) ELSE SetResult(j, r)
Flatten(j, r) == IF r.ok THEN SetCallback(Inner(j)) ELSE SetResult(j, r)

Callback(j, r) ==
  CASE chain[j] \in {"map", "nest"} -> Map(j, r)
    [] chain[j] = "and_then"       -> AndThen(j, r)
    [] chain[j] = "or_else"        -> OrElse(j, r)
    [] chain[j] = "flat_map"       -> FlatMap(j, r)
    [] chain[j] = "flatten"        -> Flatten(j, r)

(* The callback of FlatMap and Flatten on the inner future takes its value(). *)
InnerCallback(j, r) == IF r.ok THEN SetResult(j, r) ELSE <<<<"throw">>>>

Body(f) ==
  IF f > 10 THEN InnerCallback(f - 10, result[f])
  ELSE IF f < Last THEN Callback(f + 1, result[f])
  ELSE <<<<"consume", f>>>>

(* Variant: the executor is not asked. *)
SubmitInline(t) ==
  /\ Invoke(t, Body(Now(t)))
  /\ UNCHANGED chainVars

(* SubmitCallbackIntoExecutor() *)
Submit(t) ==
  /\ At(t, "invoke")
  /\ LET e == executor[Now(t)]
         task == Body(Now(t))
     IN /\ Invoke(t, IF e = "inline" THEN task ELSE <<>>)
        /\ tasks' = IF e = "pool" THEN Append(tasks, task) ELSE tasks
        /\ manual' = IF e = "manual" THEN Append(manual, task) ELSE manual
  /\ UNCHANGED <<chain, outcome, executor, calledBy, got, crashed>>

(* A worker takes a task. *)
Work(w) ==
  /\ todo[w] = <<>>
  /\ tasks # <<>>
  /\ todo' = [todo EXCEPT ![w] = Head(tasks)]
  /\ tasks' = Tail(tasks)
  /\ UNCHANGED <<result, callback, state, chain, outcome, executor, manual, calledBy, got, crashed>>

(* Drain(): the next task, until there is none; called until the result is there. *)
Drain(t) ==
  /\ At(t, "drain")
  /\ IF manual = <<>>
     THEN got # Nothing /\ Then(t, <<>>) /\ UNCHANGED manual
     ELSE Then(t, Head(manual) \o <<Head(todo[t])>>) /\ manual' = Tail(manual)
  /\ UNCHANGED <<result, callback, state, chain, outcome, executor, tasks, calledBy, got, crashed>>

(* The function of a stage is called; it may submit the task of a new future. *)
Makes(j) ==
  IF chain[j] = "flat_map" THEN {j} ELSE IF chain[j] = "nest" THEN {j + 1} ELSE {}

CallFunction(t) ==
  /\ At(t, "call")
  /\ LET j == Now(t) IN
     /\ calledBy' = [calledBy EXCEPT ![j] = @ \cup {t}]
     /\ IF Makes(j) = {} THEN UNCHANGED tasks
        ELSE \E i \in Makes(j) : tasks' = Append(tasks, SetResult(Inner(i), R(i)))
  /\ Then(t, <<>>)
  /\ UNCHANGED <<result, callback, state, chain, outcome, executor, manual, got, crashed>>

(* The output inherits the executor of the input; Flatten leaves it as it is. *)
Via(t) ==
  /\ At(t, "via")
  /\ LET j == Now(t) IN
     executor' = [executor EXCEPT ![j] = IF chain[j] = "flatten" THEN @ ELSE executor[j - 1]]
  /\ Then(t, <<>>)
  /\ UNCHANGED <<result, callback, state, chain, outcome, tasks, manual, calledBy, got, crashed>>

(* value() of an error throws, and nobody catches: the program is terminated. *)
Throw(t) ==
  /\ At(t, "throw")
  /\ crashed' = TRUE
  /\ Then(t, <<>>)
  /\ UNCHANGED <<result, callback, state, chain, outcome, executor, tasks, manual, calledBy, got>>

Consume(t) ==
  /\ At(t, "consume")
  /\ got' = result[Now(t)]
  /\ Then(t, <<>>)
  /\ UNCHANGED <<result, callback, state, chain, outcome, executor, tasks, manual, calledBy, crashed>>

Get(t) ==
  /\ SyncGet(t)
  /\ got' = result[Now(t)]
  /\ UNCHANGED <<chain, outcome, executor, tasks, manual, calledBy, crashed>>

Rendezvous(t) ==
  /\ Emplace(t) \/ Publish(t) \/ Store(t) \/ Subscribe(t)
  /\ UNCHANGED chainVars

Step(t) ==
  /\ ~crashed
  /\ \/ Submit(t) \/ Drain(t) \/ CallFunction(t) \/ Via(t) \/ Throw(t) \/ Consume(t) \/ Get(t)
     \/ Rendezvous(t) \/ (t \in Workers /\ Work(t))

Terminated ==
  /\ crashed \/ (got # Nothing /\ tasks = <<>> /\ manual = <<>> /\ \A t \in Threads : todo[t] = <<>>)
  /\ UNCHANGED vars

Next == (\E t \in Threads : Step(t)) \/ Terminated

Spec == Init /\ [][Next]_vars

FairSpec == Spec /\ \A t \in Threads : WF_vars(Step(t))

-----------------------------------------------------------------------------
(* What a chain says: the stages composed as functions on results. *)
Applies(j, r) == r.ok = (chain[j] # "or_else")

Composed[j \in 0..Last] ==
  IF j = 0 THEN R(0)
  ELSE IF Applies(j, Composed[j - 1]) THEN R(j)
  ELSE Composed[j - 1]

HasFunction(j) == chain[j] # "flatten"

(* The consumer gets the result of the composed functions, and the function of  *)
(* a stage is called once and only if its case occurs.                          *)
RightResult ==
  /\ got # Nothing => got = Composed[Last]
  /\ \A j \in 1..Last :
       /\ calledBy[j] # {} => HasFunction(j) /\ Applies(j, Composed[j - 1])
       /\ got # Nothing /\ HasFunction(j) /\ Applies(j, Composed[j - 1]) => calledBy[j] # {}

(* After Via(pool) the functions of the chain run in the pool, also when Main    *)
(* subscribes to a future that is fulfilled already, and after Via(manual) in     *)
(* the thread that drains; Flatten ends that.                                   *)
Where(e) == CASE e = "pool" -> Workers [] e = "manual" -> {Main} [] OTHER -> Threads

RunsWhereTold ==
  \A j \in 1..Last :
    (\A i \in 1..j - 1 : chain[i] # "flatten") => calledBy[j] \subseteq Where(executor[0])

(* An error of an inner future is passed on, as every other error. *)
ErrorsArePassedOn == ~crashed

Delivered == got = Nothing ~> got # Nothing
=============================================================================
