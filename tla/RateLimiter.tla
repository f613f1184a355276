----------------------------- MODULE RateLimiter -----------------------------
(***************************************************************************)
(* The login limiter of internal/auth/ratelimit.go as operators on its map *)
(* of entries.  Every method of the code runs under one mutex, so each is  *)
(* one operator: what the map is afterwards.                               *)
(*                                                                         *)
(* A time is a number and starts at 1: 0 is Go's zero time, which is before*)
(* every other.  A client without an address is not limited at all (the    *)
(* empty key) and is left out.                                             *)
(***************************************************************************)
EXTENDS Integers, Functions

CONSTANTS
    Keys,         \* client addresses
    MaxFailures,  \* MaxLoginFailures
    BlockFor      \* LoginBlockFor

ASSUME LimiterAssumption ==
    /\ MaxFailures \in Nat \ {0}
    /\ BlockFor \in Nat \ {0}

Entry == [failures : Nat, lastFailure : Nat, blockedUntil : Nat]

\* The entry Fail starts from for an address it does not know.
FreshEntry == [failures |-> 0, lastFailure |-> 0, blockedUntil |-> 0]

Blocked(entries, key, now) ==
    key \in DOMAIN entries /\ now < entries[key].blockedUntil

Without(entries, key) == Restrict(entries, DOMAIN entries \ {key})

\* Allow lets a login pass that is not Blocked, and forgets a block that is over.
AfterAllow(entries, key) ==
    IF key \in DOMAIN entries /\ entries[key].blockedUntil # 0
    THEN Without(entries, key)
    ELSE entries

AfterReset(entries, key) == Without(entries, key)

\* Mutant: an entry goes as soon as one of the two conditions holds.
PruneEither(entries, now) ==
    Restrict(entries,
        {k \in DOMAIN entries :
            ~ ( \/ now - entries[k].lastFailure > BlockFor
                \/ now > entries[k].blockedUntil )})

Prune(entries, now) ==
    Restrict(entries,
        {k \in DOMAIN entries :
            ~ ( /\ now - entries[k].lastFailure > BlockFor
                /\ now > entries[k].blockedUntil )})

\* The entry of an address after one more failure: the count starts again after
\* a pause longer than BlockFor, and at the limit it becomes a block.
Counted(entry, now) ==
    LET failures ==
            1 + IF now - entry.lastFailure > BlockFor THEN 0 ELSE entry.failures
    IN  IF failures >= MaxFailures
        THEN [failures |-> 0, lastFailure |-> now, blockedUntil |-> now + BlockFor]
        ELSE [failures |-> failures, lastFailure |-> now,
              blockedUntil |-> entry.blockedUntil]

AfterFail(entries, key, now) ==
    LET entry == IF key \in DOMAIN entries THEN entries[key] ELSE FreshEntry
    IN  Prune([k \in DOMAIN entries \cup {key} |->
                  IF k = key THEN Counted(entry, now) ELSE entries[k]], now)

=============================================================================
