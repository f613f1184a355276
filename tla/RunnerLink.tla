------------------------------ MODULE RunnerLink ------------------------------
(***************************************************************************)
(* The link between the server and one remote runner: the Hub of           *)
(* internal/runnerserver, which authenticates a connection, registers it   *)
(* under the runner's name in place of an older one and reports its end;   *)
(* the client of internal/runnerclient, which dials again after every loss *)
(* and keeps its sandboxes for a while; and, as far as the two callbacks   *)
(* and the Provision and Destroy calls go, the attempts placed on it.      *)
(*                                                                         *)
(* A websocket is one atomic flag: closed by either end or by the network, *)
(* and each end notices on its own.  Runners with other names never meet   *)
(* this one in the Hub, so one name is enough.  Left out: terminals, exec  *)
(* and pings (a connection that misses its pings is one that broke), and   *)
(* what the entry shows an admin (capacity, version, last seen).  A call   *)
(* of the provider's Destroy may fail, and so may a store call of the Hub. *)
(***************************************************************************)
EXTENDS Naturals, FiniteSets

CONSTANTS
    Conns,      \* connections, numbered in the order the client dials them
    Attempts,   \* attempts in the order they start, and the sandboxes named
                \* after them
    SlowClose,  \* whether closing a replaced connection may outlast replaceTimeout
    Revokes,    \* whether an admin revokes the runner
    MaxFaults   \* bound: failing calls of Provider.Destroy, Collect and authenticate

ASSUME LinkAssumption ==
    /\ Conns \subseteq Nat \ {0} /\ Attempts \subseteq Nat
    /\ {SlowClose, Revokes} \subseteq BOOLEAN /\ MaxFaults \in Nat

VARIABLES
    hub,        \* where ServeHTTP is for each connection
    previous,   \* what register read before it replaces it
    entry,      \* Hub.entries[name].conn
    closed,     \* connections that broke or were closed
    refused,    \* connections closed with the unauthorized code
    hello,      \* sandboxes each connection's hello listed
    revoked,    \* the token's row
    revoking,   \* revokeRunner between Revoke and Disconnect
    client,     \* the client: "away", "hello", "serving", "stopped"
    dialled,    \* the connection of its session
    kept,       \* client.sandboxes
    expiry,     \* client.expiry: "none", a "running" timer, or one that "fired"
    firing,     \* the goroutine of a fired timer is before destroyAll's lock
    status,     \* attempts: "none", "provisioning", "running", "ended"
    via,        \* the connection an attempt's Provision call went out on
    calls,      \* attempts whose Provision call has not returned
    building,   \* those the runner still works on
    dropped,    \* RunnerDisconnected has yet to list and end the attempts
    destroying, \* attempts whose destroy has yet to run
    leftover,   \* sandboxes RunnerReconnected has yet to destroy
    faults,     \* bound used up
    \* History: sandboxes that a Destroy failed for, whether the client was
    \* welcomed while a fired timer waited for the lock, and whether a connection
    \* took the entry from one that was dialled after it.
    failed, haunted, overtaken

hubVars == <<hub, previous, entry, closed, refused, revoked, revoking>>
clientVars == <<client, dialled, hello, expiry, firing, haunted>>
attemptVars == <<status, via, calls>>
vars == <<hubVars, clientVars, kept, building, attemptVars, dropped, destroying, leftover,
          faults, failed, overtaken>>

NoConn == 0
HubStep == {"none", "hello", "welcomed", "waiting", "serving", "finished", "gone"}
Active == {a \in Attempts : status[a] \in {"provisioning", "running"}}

Init ==
    /\ hub = [c \in Conns |-> "none"]
    /\ previous = [c \in Conns |-> NoConn]
    /\ entry = NoConn
    /\ closed = {}
    /\ refused = {}
    /\ hello = [c \in Conns |-> {}]
    /\ revoked = FALSE
    /\ revoking = FALSE
    /\ client = "away"
    /\ dialled = NoConn
    /\ kept = {}
    /\ expiry = "none"
    /\ firing = FALSE
    /\ status = [a \in Attempts |-> "none"]
    /\ via = [a \in Attempts |-> NoConn]
    /\ calls = {}
    /\ building = {}
    /\ dropped = FALSE
    /\ destroying = {}
    /\ leftover = {}
    /\ faults = 0
    /\ failed = {}
    /\ haunted = FALSE
    /\ overtaken = FALSE

-----------------------------------------------------------------------------
\* A call fails; or it does not.
Fault == faults < MaxFaults /\ faults' = faults + 1
NoFault == UNCHANGED faults

\* The calls of Provider.Destroy for the sandboxes in S: one that fails is
\* logged and not tried again.
DestroyEach(S) ==
    \/ NoFault /\ UNCHANGED failed
    \/ Fault /\ \E a \in S : failed' = failed \cup {a}

-----------------------------------------------------------------------------
(* The client.                                                             *)

\* session dials and sends a hello with the sandboxes it keeps.  ServeHTTP may be
\* anywhere with the connections dialled before.
Dial(c) ==
    /\ client = "away"
    /\ hub[c] = "none" /\ \A d \in Conns : d < c => hub[d] # "none"
    /\ client' = "hello"
    /\ dialled' = c
    /\ hello' = [hello EXCEPT ![c] = kept]
    /\ hub' = [hub EXCEPT ![c] = "hello"]
    /\ UNCHANGED <<previous, entry, closed, refused, revoked, revoking, kept, building,
                   expiry, firing, haunted, attemptVars, dropped, destroying, leftover,
                   faults, failed, overtaken>>

\* The timer after a welcome: stopped and forgotten.
ExpiryAfterWelcomeKept == expiry                                 \* mutant
ExpiryAfterWelcome == "none"

\* The welcome arrives: connected stops the retention timer, and not the
\* goroutine of one that fired.
Welcomed ==
    /\ client = "hello"
    /\ hub[dialled] \in {"welcomed", "waiting", "serving"}
    /\ dialled \notin closed
    /\ client' = "serving"
    /\ expiry' = ExpiryAfterWelcome
    /\ haunted' = firing
    /\ UNCHANGED <<hubVars, dialled, hello, firing, kept, building, attemptVars, dropped,
                   destroying, leftover, faults, failed, overtaken>>

\* The timer after a lost session: a new one if there is none and something
\* to keep.
ExpiryAfterLossNever(held) == expiry                             \* mutant
ExpiryAfterLoss(held) == IF expiry = "none" /\ held # {} THEN "running" ELSE expiry

\* session returns: its calls are cancelled and waited for, and each one either
\* had finished its sandbox or removes what it built; disconnected starts the
\* timer.  A welcome that does not come in time ends the session too.
Lose ==
    /\ client \in {"hello", "serving"}
    /\ dialled \in closed \/ client = "hello"
    /\ dialled \notin refused
    /\ \E S \in SUBSET (IF client = "serving" THEN building ELSE {}) :
          /\ kept' = kept \cup S
          /\ expiry' = ExpiryAfterLoss(kept \cup S)
    /\ building' = {}
    /\ closed' = closed \cup {dialled}
    /\ client' = "away"
    /\ dialled' = NoConn
    /\ UNCHANGED <<hub, previous, entry, refused, revoked, revoking, hello, firing, haunted,
                   attemptVars, dropped, destroying, leftover, faults, failed, overtaken>>

\* run ends when the server refuses the runner: destroyAll.
Stop ==
    /\ client \in {"hello", "serving"}
    /\ dialled \in refused
    /\ client' = "stopped"
    /\ dialled' = NoConn
    /\ kept' = {}
    /\ building' = {}
    /\ expiry' = "none"
    /\ firing' = FALSE
    /\ DestroyEach(kept)
    /\ UNCHANGED <<hubVars, hello, haunted, attemptVars, dropped, destroying, leftover,
                   overtaken>>

\* The retention is over and the timer starts its goroutine.  It gets the lock
\* before another retention is over.
Fire ==
    /\ expiry = "running"
    /\ ~firing
    /\ expiry' = "fired"
    /\ firing' = TRUE
    /\ UNCHANGED <<hubVars, client, dialled, hello, haunted, kept, building, attemptVars,
                   dropped, destroying, leftover, faults, failed, overtaken>>

\* The goroutine's destroyAll: the lock, under which every sandbox is forgotten
\* and any timer stopped, and the calls of Destroy, which nobody else makes for
\* sandboxes no longer listed.
Retention ==
    /\ firing
    /\ firing' = FALSE
    /\ kept' = {}
    /\ expiry' = "none"
    /\ DestroyEach(kept)
    /\ UNCHANGED <<hubVars, client, dialled, hello, haunted, building, attemptVars, dropped,
                   destroying, leftover, overtaken>>

\* The process dies and a new one collects the leftovers before it dials.
Restart ==
    /\ client # "stopped"
    /\ closed' = closed \cup ({dialled} \ {NoConn})
    /\ client' = "away"
    /\ dialled' = NoConn
    /\ kept' = {}
    /\ building' = {}
    /\ expiry' = "none"
    /\ firing' = FALSE
    /\ DestroyEach(kept \cup building)
    /\ UNCHANGED <<hub, previous, entry, refused, revoked, revoking, hello, haunted,
                   attemptVars, dropped, destroying, leftover, overtaken>>

\* The network, or a missed ping.
Break ==
    /\ client \in {"hello", "serving"}
    /\ dialled \notin closed
    /\ closed' = closed \cup {dialled}
    /\ UNCHANGED <<hub, previous, entry, refused, revoked, revoking, clientVars, kept,
                   building, attemptVars, dropped, destroying, leftover, faults, failed,
                   overtaken>>

-----------------------------------------------------------------------------
(* The Hub: ServeHTTP for one connection.                                  *)

HubFrame == UNCHANGED <<clientVars, kept, building, attemptVars, destroying, failed>>

\* The hello, authenticate and the welcome.  A revoked runner, one whose row
\* cannot be read, or one with a wrong token or protocol version is closed for
\* good; a socket that is gone before its hello was read needs nothing.
Authenticate(c) ==
    /\ hub[c] = "hello"
    /\ \/ /\ ~revoked
          /\ NoFault
          /\ hub' = [hub EXCEPT ![c] = "welcomed"]
          /\ UNCHANGED <<closed, refused>>
       \/ /\ (revoked /\ NoFault) \/ Fault
          /\ hub' = [hub EXCEPT ![c] = "gone"]
          /\ closed' = closed \cup {c}
          /\ refused' = IF c \in closed THEN refused ELSE refused \cup {c}
       \/ /\ c \in closed
          /\ NoFault
          /\ hub' = [hub EXCEPT ![c] = "gone"]
          /\ UNCHANGED <<closed, refused>>
    /\ HubFrame
    /\ UNCHANGED <<previous, entry, revoked, revoking, dropped, leftover, overtaken>>

\* The connections register shuts down before it registers a new one.
Replaced == {entry} \ {NoConn}

\* register reads the entry and shuts the previous connection down ...
RegisterRead(c) ==
    /\ hub[c] = "welcomed"
    /\ hub' = [hub EXCEPT ![c] = "waiting"]
    /\ previous' = [previous EXCEPT ![c] = entry]
    /\ closed' = closed \cup Replaced
    /\ HubFrame
    /\ UNCHANGED <<entry, refused, revoked, revoking, dropped, leftover, faults, overtaken>>

\* What a hello listed is handed to RunnerReconnected.
ReportedNone(c) == {}                                            \* mutant
Reported(c) == hello[c]

\* ... waits until it finished, or for replaceTimeout, and takes its place.
RegisterWrite(c) ==
    /\ hub[c] = "waiting"
    /\ SlowClose \/ \A d \in Conns : d = previous[c] => hub[d] \in {"finished", "gone"}
    /\ entry' = c
    /\ hub' = [hub EXCEPT ![c] = "serving"]
    /\ leftover' = leftover \cup Reported(c)
    /\ overtaken' = (overtaken \/ c < entry)
    /\ HubFrame
    /\ UNCHANGED <<previous, closed, refused, revoked, revoking, dropped, faults>>

\* serve returns: teardown fails the calls that are out, and finished is
\* closed.
Finish(c) ==
    /\ hub[c] = "serving"
    /\ c \in closed
    /\ hub' = [hub EXCEPT ![c] = "finished"]
    /\ HubFrame
    /\ UNCHANGED <<previous, entry, closed, refused, revoked, revoking, dropped, leftover,
                   faults, overtaken>>

\* Whether the callbacks of OnDisconnect run.
Reports(c) == entry = c

\* The entry without the connection that ended.
EntryAfterAny(c) == NoConn                                       \* mutant
EntryAfter(c) == IF entry = c THEN NoConn ELSE entry

\* unregister: only the connection in the entry is reported.
Unregister(c) ==
    /\ hub[c] = "finished"
    /\ hub' = [hub EXCEPT ![c] = "gone"]
    /\ entry' = EntryAfter(c)
    /\ dropped' = (dropped \/ Reports(c))
    /\ HubFrame
    /\ UNCHANGED <<previous, closed, refused, revoked, revoking, leftover, faults, overtaken>>

\* revokeRunner marks the row ...
Revoke ==
    /\ Revokes
    /\ ~revoked
    /\ revoked' = TRUE
    /\ revoking' = TRUE
    /\ HubFrame
    /\ UNCHANGED <<hub, previous, entry, closed, refused, dropped, leftover, faults, overtaken>>

\* ... and Disconnect closes the connection in the entry as unauthorized.
Disconnect ==
    /\ revoking
    /\ revoking' = FALSE
    /\ closed' = closed \cup ({entry} \ {NoConn})
    /\ refused' = refused \cup ({entry} \ (closed \cup {NoConn}))
    /\ HubFrame
    /\ UNCHANGED <<hub, previous, entry, revoked, dropped, leftover, faults, overtaken>>

-----------------------------------------------------------------------------
(* Attempts on the runner.                                                 *)

LinkFrame == UNCHANGED <<hubVars, clientVars, overtaken>>

\* A call through Get(name) goes out on an open connection, where the client
\* reads it once it has been welcomed.
Reachable == entry # NoConn /\ dialled = entry /\ entry \notin closed

\* An attempt is placed on the runner and Provision goes out on its connection.
Start(a) ==
    /\ status[a] = "none" /\ \A b \in Attempts : b < a => status[b] # "none"
    /\ entry # NoConn
    /\ status' = [status EXCEPT ![a] = "provisioning"]
    /\ via' = [via EXCEPT ![a] = entry]
    /\ calls' = calls \cup {a}
    /\ building' = IF Reachable THEN building \cup {a} ELSE building
    /\ LinkFrame
    /\ UNCHANGED <<kept, dropped, destroying, leftover, faults, failed>>

\* dispatch: Provision works and the sandbox is tracked, or it fails.
Build(a) ==
    /\ client = "serving"
    /\ a \in building
    /\ building' = building \ {a}
    /\ \E ok \in BOOLEAN : kept' = IF ok THEN kept \cup {a} ELSE kept
    /\ LinkFrame
    /\ UNCHANGED <<attemptVars, dropped, destroying, leftover, faults, failed>>

\* What becomes of an attempt whose Provision returned: it runs, unless it
\* ended meanwhile or the call failed.
AfterResult(a, ok) == IF ok /\ status[a] = "provisioning" THEN "running" ELSE "ended"

\* Provision returns: with its result, or because the connection is torn down.
\* An attempt that does not run now is ended or has ended, and destroyed.
Result(a) ==
    /\ a \in calls
    /\ calls' = calls \ {a}
    /\ \/ /\ a \notin building
          /\ hub[via[a]] = "serving" /\ via[a] \notin closed
          /\ status' = [status EXCEPT ![a] = AfterResult(a, a \in kept)]
       \/ /\ hub[via[a]] \in {"finished", "gone"}
          /\ status' = [status EXCEPT ![a] = "ended"]
    /\ destroying' = IF status'[a] = "ended" THEN destroying \cup {a} ELSE destroying
    /\ LinkFrame
    /\ UNCHANGED <<via, kept, building, dropped, leftover, faults, failed>>

\* The user, the checker or the idle timer ends it.
End(a) ==
    /\ a \in Active
    /\ status' = [status EXCEPT ![a] = "ended"]
    /\ destroying' = destroying \cup {a}
    /\ LinkFrame
    /\ UNCHANGED <<via, calls, kept, building, dropped, leftover, faults, failed>>

\* RunnerDisconnected ends every active attempt of the runner.
RunnerDisconnected ==
    /\ dropped
    /\ dropped' = FALSE
    /\ status' = [a \in Attempts |-> IF a \in Active THEN "ended" ELSE status[a]]
    /\ destroying' = destroying \cup Active
    /\ LinkFrame
    /\ UNCHANGED <<via, calls, kept, building, leftover, faults, failed>>

\* destroy and RunnerReconnected: a runner that is not reachable is left to its
\* next hello, and a Destroy that fails leaves the sandbox listed and is not
\* tried again.
DestroySandbox(a) ==
    /\ Reachable => client = "serving"
    /\ \/ a \in destroying /\ destroying' = destroying \ {a} /\ UNCHANGED leftover
       \/ a \in leftover /\ leftover' = leftover \ {a} /\ UNCHANGED destroying
    /\ \/ /\ Reachable /\ NoFault
          /\ kept' = kept \ {a}
          /\ UNCHANGED failed
       \/ /\ Reachable /\ Fault
          /\ failed' = failed \cup {a}
          /\ UNCHANGED kept
       \/ /\ ~Reachable /\ NoFault
          /\ UNCHANGED <<kept, failed>>
    /\ LinkFrame
    /\ UNCHANGED <<attemptVars, building, dropped>>

-----------------------------------------------------------------------------
HubSteps(c) ==
    \/ Authenticate(c) \/ RegisterRead(c) \/ RegisterWrite(c) \/ Finish(c) \/ Unregister(c)

ClientSteps == Welcomed \/ Lose \/ Stop \/ Fire \/ Retention \/ Restart \/ Break

AttemptSteps(a) == Start(a) \/ Build(a) \/ Result(a) \/ End(a) \/ DestroySandbox(a)

Next ==
    \/ \E c \in Conns : Dial(c) \/ HubSteps(c)
    \/ ClientSteps
    \/ \E a \in Attempts : AttemptSteps(a)
    \/ Revoke \/ Disconnect \/ RunnerDisconnected

Spec == Init /\ [][Next]_vars

\* Goroutines run, calls have deadlines, a closed connection is noticed at both
\* ends (read error or ping timeout) and the retention timer fires.  Nobody has
\* to dial, break, revoke, start or end.
Fairness ==
    /\ \A c \in Conns : WF_vars(HubSteps(c))
    /\ WF_vars(Welcomed \/ Lose \/ Stop)
    /\ WF_vars(Fire \/ Retention)
    /\ \A a \in Attempts : WF_vars(Build(a) \/ Result(a) \/ DestroySandbox(a))
    /\ WF_vars(Disconnect \/ RunnerDisconnected)

FairSpec == Spec /\ Fairness

-----------------------------------------------------------------------------
(* Properties                                                              *)

\* Every variable has its type.
TypeOK ==
    /\ hub \in [Conns -> HubStep]
    /\ previous \in [Conns -> Conns \cup {NoConn}]
    /\ entry \in Conns \cup {NoConn}
    /\ closed \subseteq Conns
    /\ refused \subseteq closed
    /\ hello \in [Conns -> SUBSET Attempts]
    /\ revoked \in BOOLEAN /\ revoking \in BOOLEAN
    /\ client \in {"away", "hello", "serving", "stopped"}
    /\ dialled \in Conns \cup {NoConn}
    /\ kept \subseteq Attempts
    /\ expiry \in {"none", "running", "fired"}
    /\ firing \in BOOLEAN
    /\ status \in [Attempts -> {"none", "provisioning", "running", "ended"}]
    /\ via \in [Attempts -> Conns \cup {NoConn}]
    /\ calls \subseteq Attempts
    /\ building \subseteq Attempts
    /\ dropped \in BOOLEAN
    /\ destroying \subseteq Attempts
    /\ leftover \subseteq Attempts
    /\ faults \in Nat
    /\ failed \subseteq Attempts
    /\ haunted \in BOOLEAN /\ overtaken \in BOOLEAN

\* The Hub has one live connection at most: a connection that serves, is open
\* at both ends and is not the one calls go to would leave the runner's
\* sandboxes out of reach.
OneLiveConnection ==
    \A c \in Conns : hub[c] = "serving" /\ c \notin closed => c = entry

\* The Hub has one live connection at most, unless a connection that its client
\* had left registered after the newer one and took the entry from it.
LatestIsLive == ~overtaken => OneLiveConnection

\* The sandbox of an attempt that ended is on its way out: a destroy is due, or
\* its Provision has yet to return, or the Hub has its name from a hello, or the
\* client is about to dial with it in the hello while its retention runs.  Left
\* are a sandbox that a Destroy failed for, and a runner whose live connection
\* lost the entry.
EndedSandboxHasOwner ==
    \A a \in kept \ failed :
       status[a] = "ended" /\ ~overtaken =>
          \/ a \in destroying \cup leftover \cup calls
          \/ client = "away" /\ expiry # "none"
          \/ client \in {"hello", "serving"} /\ dialled \in closed
          \/ client \in {"hello", "serving"} /\ a \in hello[dialled]
                /\ hub[dialled] \in {"hello", "welcomed", "waiting"}

\* While its connection lasts, a running attempt keeps its sandbox: neither the
\* retention timer of an earlier loss nor a destroy meant for the sandboxes kept
\* through it takes it away.  Only a timer that fired before the welcome and is
\* still waiting for the client's lock does.
RunningKeepsSandbox ==
    \A a \in Attempts :
       /\ status[a] = "running"
       /\ client = "serving" /\ via[a] = dialled /\ dialled \notin closed
       /\ ~haunted
       => a \in kept

\* The connection an attempt runs on is gone: RunnerDisconnected is about to
\* end the attempt.
LostAttemptIsReaped ==
    \A a \in Attempts :
       status[a] = "running" /\ hub[via[a]] = "gone" => dropped

\* A runner that stays away gives its host back: whatever it keeps is gone in
\* the end unless its attempt still runs, a Destroy failed for it, or the live
\* connection lost the entry.
EndedSandboxGoes ==
    \A a \in Attempts : status[a] = "ended" ~> a \notin kept \/ a \in failed \/ overtaken
=============================================================================
