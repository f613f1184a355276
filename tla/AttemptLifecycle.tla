--------------------------- MODULE AttemptLifecycle ---------------------------
(***************************************************************************)
(* What internal/attempt promises of an attempt, seen from outside: it is  *)
(* started on a runner with room for a user with no other attempt, it may  *)
(* start running once, and it ends once, for good.  AttemptService is      *)
(* shown to implement this for the first life of every attempt.            *)
(***************************************************************************)
EXTENDS Naturals, FiniteSets

CONSTANTS Attempts, Owner, Runners, Capacity, NoRunner

VARIABLES
    life,   \* "none", "provisioning", "running" or "ended"
    at      \* the runner the attempt was placed on

lifeVars == <<life, at>>

Living(a) == life[a] \in {"provisioning", "running"}
LivingOn(r) == {a \in Attempts : at[a] = r /\ Living(a)}

LifeInit ==
    /\ life = [a \in Attempts |-> "none"]
    /\ at = [a \in Attempts |-> NoRunner]

\* The one way in: the user has no living attempt and the runner has room.
LifeStart(a, r) ==
    /\ life[a] = "none"
    /\ \A b \in Attempts : Owner[b] = Owner[a] => ~Living(b)
    /\ Cardinality(LivingOn(r)) < Capacity[r]
    /\ life' = [life EXCEPT ![a] = "provisioning"]
    /\ at' = [at EXCEPT ![a] = r]

\* The sandbox stands.
LifeRun(a) ==
    /\ life[a] = "provisioning"
    /\ life' = [life EXCEPT ![a] = "running"]
    /\ UNCHANGED at

\* One attempt ends, or a restart ends all that were left.
LifeEnd(S) ==
    /\ \A a \in S : Living(a)
    /\ life' = [a \in Attempts |-> IF a \in S THEN "ended" ELSE life[a]]
    /\ UNCHANGED at

LifeNext ==
    \/ \E a \in Attempts, r \in Runners : LifeStart(a, r)
    \/ \E a \in Attempts : LifeRun(a)
    \/ \E S \in SUBSET Attempts : LifeEnd(S)

LifeSpec == LifeInit /\ [][LifeNext]_lifeVars
=============================================================================
