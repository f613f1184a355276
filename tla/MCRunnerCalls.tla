---------------------------- MODULE MCRunnerCalls ----------------------------
(* Small instances of RunnerCalls for TLC: two calls, 1 and 2. *)
EXTENDS RunnerCalls
=============================================================================
