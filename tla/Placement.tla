------------------------------ MODULE Placement ------------------------------
(***************************************************************************)
(* What runner.Schedule promises, as a predicate: the runner a new attempt *)
(* is placed on, among the connected runners that offer its environment,   *)
(* as the loop in internal/runner/registry.go picks it.  AttemptService    *)
(* places attempts with it.                                                *)
(*                                                                         *)
(* load and cap map a runner to its active attempts and its capacity, rank *)
(* to the alphabetical position of its name.                               *)
(***************************************************************************)
EXTENDS Naturals

\* A runner that may take one more sandbox.
HasRoomOffByOne(r, load, cap) == cap[r] > 0 /\ load[r] <= cap[r]  \* mutant
HasRoom(r, load, cap) == cap[r] > 0 /\ load[r] < cap[r]

\* The share of r's capacity in use is strictly below that of s; the code
\* multiplies crosswise instead of dividing.
Lighter(r, s, load, cap) == load[r] * cap[s] < load[s] * cap[r]

\* r is the pick among the runners of members: it has room, no other runner
\* with room is lighter, and of the equally loaded ones its name comes first.
IsPick(r, members, load, cap, rank) ==
    /\ r \in members
    /\ HasRoom(r, load, cap)
    /\ \A s \in members :
          HasRoom(s, load, cap) =>
             /\ ~Lighter(s, r, load, cap)
             /\ ~Lighter(r, s, load, cap) => rank[r] <= rank[s]
=============================================================================
