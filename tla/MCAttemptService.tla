-------------------------- MODULE MCAttemptService --------------------------
(* Small instances of AttemptService for TLC. *)
EXTENDS AttemptService

CONSTANTS a1, a2, a3, a4

\* Every attempt belongs to one user.
OneUser == [a \in Attempts |-> "u1"]
\* a2 belongs to one user, the others to another.
TwoUsers == [a \in Attempts |-> IF a = a2 THEN "u2" ELSE "u1"]
PlainLab == [a \in Attempts |-> "plain"]
CheckedLab == [a \in Attempts |-> "checked"]
LabEnv == [l \in Labs |-> "container"]
LabRetries == [l \in Labs |-> IF l = "checked" THEN 2 ELSE 0]
AllCapable == [r \in Runners |-> {"container"}]
CapacityOne == [r \in Runners |-> 1]
CapacityTwo == [r \in Runners |-> 2]
Alphabetical == [r \in Runners |-> IF r = "edge" THEN 1 ELSE 2]
OneChecked == [a \in Attempts |-> IF a = a4 THEN "checked" ELSE "plain"]

\* The two regions that AttemptSlots explores: attempt a4 alone, with a
\* fault, a lost connection, a restart and deletions, or the other attempts
\* racing for slots, with nothing going wrong and one call of end at a time,
\* by a user or by failProvision.
Begun == {a \in Attempts : status[a] # "none"} \cup {s.id : s \in starting}
AloneWithFaults == Begun \subseteq {a4} /\ drops <= 1 /\ restarts <= 1
RaceForSlots ==
    /\ a4 \notin Begun
    /\ faults + drops + restarts = 0
    /\ phase = "up"
    /\ deleting = {}
    /\ expiring = {}
    /\ Cardinality(calls) <= 1
    /\ \A c \in calls : c.to # "passed"
Scope == AloneWithFaults \/ RaceForSlots
=============================================================================
