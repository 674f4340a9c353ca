---------------------------- MODULE MCThreadPool ----------------------------
(* Two clients with a task each: the pool is waited for and then stopped, and  *)
(* one of the tasks submits a third; or it is stopped at once.                *)
EXTENDS ThreadPool

CONSTANTS a, b, c       \* the tasks

TwoClients == [x \in Clients |-> IF x = "c1" THEN <<a>> ELSE <<b>>]
NoChild    == [t \in Tasks |-> NoTask]
OneChild   == [NoChild EXCEPT ![a] = c]

MCPlans ==
  { [script |-> TwoClients, child |-> OneChild, patient |-> TRUE],
    [script |-> TwoClients, child |-> NoChild, patient |-> FALSE] }

(* Stop() overlaps a task that submits another one. *)
MCImpatient == { [script |-> TwoClients, child |-> OneChild, patient |-> FALSE] }
=============================================================================
