---------------------------- MODULE MCRunnerLink ----------------------------
(* Small instances of RunnerLink for TLC: connections 1 and 2 and attempts   *)
(* 1 and 2.                                                                  *)
EXTENDS RunnerLink

\* Faults and the revocation are explored with one attempt, two attempts without
\* them.
Scope == faults > 0 \/ revoked => \E a \in Attempts : status[a] = "none"
=============================================================================
