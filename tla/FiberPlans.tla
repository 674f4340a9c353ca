----------------------------- MODULE FiberPlans -----------------------------
(* Plans for FiberClients: the stress and storage tests of the three            *)
(* primitives, and the example of the readme; and plans for FiberSleep.         *)
EXTENDS Naturals, Sequences, TLC

CONSTANTS f1, f2, f3, f4

Plan(begin, s1, s2, s3, s4) ==
  [begin |-> begin, script |-> (f1 :> s1 @@ f2 :> s2 @@ f3 :> s3 @@ f4 :> s4)]

Critical == <<"lock", "yield", "unlock">>

(* Three fibers compete for the mutex, one of them twice. *)
Mutexes == Plan(<<f1, f2, f3>>, Critical, <<"lock", "unlock", "lock", "unlock">>, <<"lock", "unlock">>, <<>>)

(* Two fibers wait for an event, and a third fires it. *)
Events == Plan(<<f1>>, <<f2, f3, "await", "delete">>, <<"fire">>, <<"await">>, <<>>)

(* One fiber waits for two others, and deletes the group. *)
Storage == Plan(<<f1>>, <<"add", "add", f2, f3, "wait", "delete">>, <<"done">>, <<"done">>, <<>>)

(* Two fibers wait for two others, and the group stays. *)
Waiters == Plan(<<f1>>, <<"add", "add", f2, f3, f4, "wait">>, <<"done">>, <<"done">>, <<"wait">>)

(* The example of the readme: jobs with a critical section. *)
Example ==
  Plan(<<f1>>, <<"add", "add", f2, f3, "wait", "delete">>, Critical \o <<"done">>,
       Critical \o <<"done">>, <<>>)

(* Two fibers wait for a third; when both have returned one deletes the group. *)
WaitersDelete ==
  Plan(<<f1>>, <<"add", f2, f3, "wait", "delete">>, <<"done">>, <<"wait">>, <<>>)

Tested   == {Mutexes, Events, Storage, Waiters, Example}
Untested == {WaitersDelete}

(* The initial fiber of the test and two others, which sleep and yield. *)
Sleepers ==
  {Plan(<<f1>>, <<f2, f3, "sleep">>, <<"sleep", "yield", "sleep">>, <<"yield", "sleep">>, <<>>),
   Plan(<<f1>>, <<f2, "sleep", f3>>, <<"yield", "sleep", "sleep">>, <<"sleep", "yield">>, <<>>)}
=============================================================================
