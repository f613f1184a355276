------------------------------ MODULE MCChecker ------------------------------
(* A small instance of Checker for TLC: one checkpoint, a channel for two     *)
(* events.                                                                    *)
EXTENDS Checker

\* A failing call of the store, events that fill the channel and the shutdown
\* are explored one at a time.
Scope ==
    /\ faults > 0 => others = 0 /\ ~closing
    /\ others > 0 => ~closing
=============================================================================
