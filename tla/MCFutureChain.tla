---------------------------- MODULE MCFutureChain ----------------------------
(* Chains whose functions return futures, which may be fulfilled with errors. *)
EXTENDS FutureChain

Nested == {<<"flat_map">>, <<"flat_map", "or_else">>, <<"nest", "flatten">>}

Results == [ok : BOOLEAN, by : 0..3]
=============================================================================
