---------------------------- MODULE AttemptService ----------------------------
(***************************************************************************)
(* The life of practice attempts in internal/attempt: Start reserves a row *)
(* and a runner, a goroutine provisions the sandbox and promotes the       *)
(* attempt to running, and any of five callers (the user, an admin, the    *)
(* idle timer, the checker, a lost runner) ends it and destroys the        *)
(* sandbox.  The rows live in SQLite and are read and written one          *)
(* statement at a time with no transaction around a handler, so every      *)
(* store call is an atomic step of its own and other goroutines run in     *)
(* between.                                                                *)
(*                                                                         *)
(* Left out, because no guard reads them: the columns started_at,          *)
(* elapsed_ms, seed, params and case_id (a write of one of them only       *)
(* matters in that it fails when the row is gone, which the step it is     *)
(* part of keeps), tick events, and the texts of errors.  sandbox_id and   *)
(* ended_at are functions of what is kept: a provider names a sandbox      *)
(* after its attempt, and SetStatus writes ended_at with status.           *)
(***************************************************************************)
EXTENDS Placement, Integers, FiniteSets

CONSTANTS
    Attempts,      \* attempt ids; each is used for at most one row
    Labs,
    Owner,         \* Owner[a]: the user who starts attempt a
    Lab,           \* Lab[a]: the lab it practises
    Env,           \* Env[l]: the environment lab l asks for
    Retries,       \* Retries[l]: precheck.retries, or 0 for a lab without precheck
    Local,         \* the in-process runner, as a set of at most one name
    Remote,        \* the names of the remote runners
    Capabilities,  \* Capabilities[r]: the environments runner r offers
    Capacity,      \* Capacity[r]: how many sandboxes it may hold
    Rank,          \* Rank[r]: alphabetical position of its name
    AdminDeletes,  \* whether an admin deletes attempts or prunes history
    MaxConns,      \* bound: browser connections per attempt
    MaxCalls,      \* bound: concurrent calls of Service.end
    MaxFaults,     \* bound: store, runner or request-context failures
    MaxBreaks      \* bound: connections lost by remote runners, and exits of
                   \* the server process, together

Runners == Local \cup Remote
NoRunner == ""     \* runner_id of a row that is not placed

ASSUME AttemptAssumption ==
    /\ IsFiniteSet(Attempts)
    /\ Local \cap Remote = {}
    /\ NoRunner \notin Runners
    /\ Lab \in [Attempts -> Labs]
    /\ Retries \in [Labs -> Nat]
    /\ Capacity \in [Runners -> Nat]
    /\ Rank \in [Runners -> Nat]
    /\ AdminDeletes \in BOOLEAN
    /\ {MaxConns, MaxCalls, MaxFaults, MaxBreaks} \subseteq Nat

VARIABLES
    \* The attempts table, and the progress table.
    status, place, progress,
    \* The server process: "up", "stopping" after Close, "down".
    phase,
    \* startMu: the Start call between its checks and its insert, if any.
    starting,
    \* The provisioning goroutine of each attempt, its current try, and
    \* whether the connection its call went out on is lost.
    prov, tries, lost,
    \* Calls of end in flight, past their first read of the row.  Two calls
    \* with the same attempt, aim and step are one: what they do next is equal.
    calls,
    \* Service.tracked: ids with a tracker, its conns, its idle channel, and
    \* the timer goroutines that found it armed and will call expire.
    tracked, conns, idle, expiring,
    \* Service.sandboxes: ids that routed calls find a runner for.
    bound,
    \* Runners whose connection is gone and not yet unregistered at the hub;
    \* goroutines of RunnerDisconnected before their list query, and what
    \* the list gave; what RunnerReconnected still has to destroy.
    finishing, dropped, reap, leftover,
    \* Rows that Delete or Prune found terminal and is about to remove.
    deleting,
    \* Outside the server: connected runners, sandboxes that exist, and
    \* browsers with an open event socket.
    connected, sandbox, sockets,
    \* Bounds used up.
    faults, drops, restarts,
    \* History: attempts whose row was once written with a final status, and
    \* attempts whose sandbox stood on a connection that was replaced before
    \* the hub unregistered it, so that RunnerDisconnected never ran for it.
    everEnded, replaced

rowVars  == <<status, place, progress>>
provVars == <<prov, tries, lost>>
idleVars == <<tracked, conns, idle, expiring>>
taskVars == <<finishing, dropped, reap, leftover, deleting>>
histVars == <<everEnded, replaced>>
worldVars == <<connected, sandbox, sockets>>
boundVars == <<faults, drops, restarts>>
vars == <<rowVars, phase, starting, provVars, calls, idleVars, bound,
          taskVars, worldVars, boundVars, histVars>>

\* The six statuses of the attempts table, a row not yet inserted ("none")
\* and one removed again ("deleted").
Terminal == {"passed", "abandoned", "expired", "error"}
Active == {"provisioning", "running"}
Status == Active \cup Terminal \cup {"none", "deleted"}

ProvStep == {"none", "created", "start", "provision", "precheck", "undo_retry",
             "undo_fail", "resolve", "fail", "promote", "promote_write",
             "undo_done", "done"}
CallStep == {"set_status", "progress", "untrack", "destroy"}
Call == [id : Attempts, to : Terminal, pc : CallStep]

HasRow(a) == status[a] \notin {"none", "deleted"}
IsActive(a) == status[a] \in Active
\* The attempts placed on runner r.
On(r) == {a \in Attempts : place[a] = r}
\* A call of end for attempt a is in flight.
Ending(a) == \E c \in calls : c.id = a

Init ==
    /\ status = [a \in Attempts |-> "none"]
    /\ place = [a \in Attempts |-> NoRunner]
    /\ progress = {}
    /\ phase = "up"
    /\ starting = {}
    /\ prov = [a \in Attempts |-> "none"]
    /\ tries = [a \in Attempts |-> 0]
    /\ lost = {}
    /\ calls = {}
    /\ tracked = {}
    /\ conns = [a \in Attempts |-> 0]
    /\ idle = [a \in Attempts |-> "nil"]
    /\ expiring = {}
    /\ bound = {}
    /\ finishing = {}
    /\ dropped = {}
    /\ reap = {}
    /\ leftover = {}
    /\ deleting = {}
    /\ connected = Runners
    /\ sandbox = {}
    /\ sockets = [a \in Attempts |-> 0]
    /\ faults = 0
    /\ drops = 0
    /\ restarts = 0
    /\ everEnded = {}
    /\ replaced = {}

-----------------------------------------------------------------------------
\* A store call, a runner call or a request context fails; or it does not.
Fault == faults < MaxFaults /\ faults' = faults + 1
NoFault == UNCHANGED faults

\* One more connection or process may break.
Breakable == drops + restarts < MaxBreaks

\* Service.destroy: the sandbox goes if its runner is connected and its
\* Destroy works, a runner that is away is left to its reconnection, and the
\* binding is dropped in every case.
Destroy(a) ==
    /\ bound' = bound \ {a}
    /\ \/ /\ place[a] \in connected
          /\ sandbox' = sandbox \ {a}
          /\ NoFault
       \/ /\ place[a] \notin connected
          /\ UNCHANGED sandbox
          /\ NoFault
       \/ /\ place[a] \in connected
          /\ UNCHANGED sandbox
          /\ Fault

-----------------------------------------------------------------------------
(* Start: reserve under startMu, then the row, then the tracker.           *)

\* The runners whose hub entry says connected and that offer the environment
\* of attempt a's lab, and how many active rows each one has.
Capable(a) == {r \in connected \cup finishing : Env[Lab[a]] \in Capabilities[r]}
Load == [r \in Runners |-> Cardinality({b \in On(r) : IsActive(b)})]

\* ActiveForUser finds no active row of the user.
UserIsFree(a) == \A b \in Attempts : Owner[b] = Owner[a] => ~IsActive(b)

\* startMu is free.
StartMuIgnored == TRUE                                           \* mutant
StartMuFree == starting = {}

\* ActiveForUser, CountActiveByRunner and Schedule; a refusal changes nothing.
Reserve(a) ==
    /\ phase = "up"
    /\ StartMuFree
    /\ status[a] = "none"
    /\ UserIsFree(a)
    /\ \E r \in Runners :
          /\ IsPick(r, Capable(a), Load, Capacity, Rank)
          /\ starting' = starting \cup {[id |-> a, runner |-> r]}
    /\ UNCHANGED <<rowVars, phase, provVars, calls, idleVars, bound, taskVars,
                   worldVars, boundVars, histVars>>

\* Attempts.Create, and startMu is released.
Create(s) ==
    /\ phase # "down"
    /\ starting' = starting \ {s}
    /\ \/ /\ NoFault
          /\ status' = [status EXCEPT ![s.id] = "provisioning"]
          /\ place' = [place EXCEPT ![s.id] = s.runner]
          /\ prov' = [prov EXCEPT ![s.id] = "created"]
       \/ /\ Fault
          /\ UNCHANGED <<status, place, prov>>
    /\ UNCHANGED <<progress, phase, tries, lost, calls, idleVars, bound, taskVars,
                   worldVars, drops, restarts, histVars>>

\* The timer of a new tracker.
FreshTimerUnarmed == "nil"                                       \* mutant
FreshTimer == "waiting"

\* track arms the idle timer, then the provisioning goroutine starts.
Track(a) ==
    /\ phase # "down"
    /\ prov[a] = "created"
    /\ prov' = [prov EXCEPT ![a] = "start"]
    /\ tracked' = tracked \cup {a}
    /\ idle' = [idle EXCEPT ![a] = FreshTimer]
    /\ UNCHANGED <<rowVars, phase, starting, tries, lost, calls, conns, expiring,
                   bound, taskVars, worldVars, boundVars, histVars>>

-----------------------------------------------------------------------------
(* The provisioning goroutine.                                             *)

\* Where an error of provisionUntilPrechecked leads: a service that is
\* shutting down leaves the row to the next Recover.
AfterError == IF phase = "stopping" THEN "done" ELSE "fail"

\* What a step of the goroutine never touches.
ProvFrame == UNCHANGED <<phase, starting, idleVars, taskVars, connected, sockets,
                         drops, restarts, progress, place>>

\* A runner whose entry says disconnected is refused at once; a call on a
\* connection that is gone and still registered fails.
BeginProvision(a) ==
    /\ phase # "down"
    /\ prov[a] = "start"
    /\ \/ /\ place[a] \in connected
          /\ prov' = [prov EXCEPT ![a] = "provision"]
          /\ tries' = [tries EXCEPT ![a] = 1]
       \/ /\ place[a] \notin connected
          /\ prov' = [prov EXCEPT ![a] =
                         IF place[a] \in finishing THEN AfterError ELSE "fail"]
          /\ UNCHANGED tries
    /\ ProvFrame
    /\ UNCHANGED <<status, lost, calls, bound, sandbox, faults, histVars>>

\* The sandbox stands and is bound; a lab without precheck is done.
ProvisionOK(a) ==
    /\ phase # "down"
    /\ prov[a] = "provision"
    /\ a \notin lost
    /\ sandbox' = sandbox \cup {a}
    /\ bound' = bound \cup {a}
    /\ prov' = [prov EXCEPT ![a] = IF Retries[Lab[a]] = 0 THEN "promote" ELSE "precheck"]
    /\ ProvFrame
    /\ UNCHANGED <<status, tries, lost, calls, faults, histVars>>

\* A provider that fails removes what it built.  When the connection was
\* lost, the runner decides alone what is left (LoseRunner).
ProvisionError(a) ==
    /\ phase # "down"
    /\ prov[a] = "provision"
    /\ prov' = [prov EXCEPT ![a] = AfterError]
    /\ sandbox' = IF a \in lost THEN sandbox ELSE sandbox \ {a}
    /\ ProvFrame
    /\ UNCHANGED <<status, tries, lost, calls, bound, faults, histVars>>

\* runPrecheck passes on every node, cannot run, or fails on one of them: the
\* last permitted try gives up, an earlier one is followed by another.
Precheck(a) ==
    /\ phase # "down"
    /\ prov[a] = "precheck"
    /\ \E outcome \in {"pass", "fail", "error"} :
          /\ outcome = "error" \/ a \notin lost
          /\ prov' = [prov EXCEPT ![a] =
                         CASE outcome = "pass" -> "promote"
                           [] outcome = "error" -> "undo_fail"
                           [] OTHER -> IF tries[a] = Retries[Lab[a]]
                                       THEN "undo_fail" ELSE "undo_retry"]
    /\ ProvFrame
    /\ UNCHANGED <<status, tries, lost, calls, bound, sandbox, faults, histVars>>

\* destroy, from the three places the goroutine calls it.
Undo(a) ==
    /\ phase # "down"
    /\ prov[a] \in {"undo_retry", "undo_fail", "undo_done"}
    /\ Destroy(a)
    /\ prov' = [prov EXCEPT ![a] =
                   CASE prov[a] = "undo_retry" -> "resolve"
                     [] prov[a] = "undo_fail" -> AfterError
                     [] OTHER -> "done"]
    /\ ProvFrame
    /\ UNCHANGED <<status, tries, lost, calls, histVars>>

\* storeResolved with the next seed, then the loop provisions again.
Resolve(a) ==
    /\ phase # "down"
    /\ prov[a] = "resolve"
    /\ \/ /\ NoFault
          /\ HasRow(a)
          /\ prov' = [prov EXCEPT ![a] = "provision"]
          /\ tries' = [tries EXCEPT ![a] = @ + 1]
       \/ /\ NoFault
          /\ ~HasRow(a)
          /\ prov' = [prov EXCEPT ![a] = AfterError]
          /\ UNCHANGED tries
       \/ /\ Fault
          /\ prov' = [prov EXCEPT ![a] = AfterError]
          /\ UNCHANGED tries
    /\ ProvFrame
    /\ UNCHANGED <<status, lost, calls, bound, sandbox, histVars>>

\* What promote does with the row it read.
AfterPromoteReadNoUndo(a) ==                                     \* mutant
    IF status[a] = "provisioning" THEN "promote_write" ELSE "done"
AfterPromoteRead(a) ==
    CASE ~HasRow(a) -> "done"
      [] status[a] = "provisioning" -> "promote_write"
      [] OTHER -> "undo_done"

\* promote: the read.  An attempt that ended meanwhile loses its sandbox
\* here; a row that is gone, or cannot be read, ends the goroutine.
PromoteRead(a) ==
    /\ phase # "down"
    /\ prov[a] = "promote"
    /\ \/ /\ NoFault
          /\ prov' = [prov EXCEPT ![a] = AfterPromoteRead(a)]
       \/ /\ Fault
          /\ prov' = [prov EXCEPT ![a] = "done"]
    /\ ProvFrame
    /\ UNCHANGED <<status, tries, lost, calls, bound, sandbox, histVars>>

\* promote: SetSandbox, SetStartedAt and SetStatus, none conditional on the
\* status that was read.  The first two write columns left out here, and all
\* three fail alike when the row is gone.
PromoteWrite(a) ==
    /\ phase # "down"
    /\ prov[a] = "promote_write"
    /\ prov' = [prov EXCEPT ![a] = "done"]
    /\ \/ /\ NoFault
          /\ HasRow(a)
          /\ status' = [status EXCEPT ![a] = "running"]
       \/ /\ NoFault
          /\ ~HasRow(a)
          /\ UNCHANGED status
       \/ /\ Fault
          /\ UNCHANGED status
    /\ ProvFrame
    /\ UNCHANGED <<tries, lost, calls, bound, sandbox, histVars>>

-----------------------------------------------------------------------------
(* end: get and check, SetElapsed and SetStatus, progress, untrack and the  *)
(* hooks, and destroyAsync.  A call that finds the attempt over, or not in  *)
(* a status it may end, returns an error and changes nothing.               *)

\* The first read: a call of end that will set status to, for attempt a.
EndCall(a, to) == [id |-> a, to |-> to, pc |-> "set_status"]
BeginEnd(a, to, from) ==
    /\ status[a] \in from
    /\ Cardinality(calls) < MaxCalls
    /\ calls' = calls \cup {EndCall(a, to)}

\* Moving call c on to its next step.
Goto(c, pc) == (calls \ {c}) \cup {[c EXCEPT !.pc = pc]}

EndFrame == UNCHANGED <<phase, starting, provVars, taskVars, connected, sockets,
                        drops, restarts, place, expiring>>

\* Abandon and AbandonAsAdmin.
Abandon(a) ==
    /\ phase = "up"
    /\ BeginEnd(a, "abandoned", Active)
    /\ EndFrame
    /\ UNCHANGED <<status, progress, tracked, conns, idle, bound, sandbox, faults, histVars>>

\* Finish, by the checker or by Submit when every checkpoint passes.
Finish(a) ==
    /\ phase = "up"
    /\ BeginEnd(a, "passed", {"running"})
    /\ EndFrame
    /\ UNCHANGED <<status, progress, tracked, conns, idle, bound, sandbox, faults, histVars>>

\* The statuses failProvision may end.
FailFromNone == {}                                               \* mutant
FailFrom == {"provisioning"}

\* failProvision: a goroutine that could not provision ends its attempt.
FailProvision(a) ==
    /\ phase # "down"
    /\ prov[a] = "fail"
    /\ prov' = [prov EXCEPT ![a] = "done"]
    /\ \/ NoFault /\ BeginEnd(a, "error", FailFrom)
       \/ NoFault /\ status[a] \notin FailFrom /\ UNCHANGED calls
       \/ Fault /\ UNCHANGED calls
    /\ lost' = lost \ {a}
    /\ ProvFrame
    /\ UNCHANGED <<status, tries, bound, sandbox, histVars>>

\* Only a passed attempt is entered in the progress table.
AfterSetStatus(c) == IF c.to = "passed" THEN "progress" ELSE "untrack"

\* SetElapsed and SetStatus write whatever the row says by now; only a
\* missing row stops them.
EndSetStatus(c) ==
    /\ phase # "down"
    /\ c.pc = "set_status"
    /\ \/ /\ NoFault
          /\ HasRow(c.id)
          /\ status' = [status EXCEPT ![c.id] = c.to]
          /\ everEnded' = everEnded \cup {c.id}
          /\ calls' = Goto(c, AfterSetStatus(c))
       \/ /\ NoFault
          /\ ~HasRow(c.id)
          /\ calls' = calls \ {c}
          /\ UNCHANGED <<status, everEnded>>
       \/ /\ Fault
          /\ calls' = calls \ {c}
          /\ UNCHANGED <<status, everEnded>>
    /\ EndFrame
    /\ UNCHANGED <<progress, tracked, conns, idle, bound, sandbox, replaced>>

\* Progress.Upsert of a passed lab; its failure returns before the sandbox is
\* destroyed.
EndProgress(c) ==
    /\ phase # "down"
    /\ c.pc = "progress"
    /\ \/ /\ NoFault
          /\ progress' = progress \cup {<<Owner[c.id], Lab[c.id]>>}
          /\ calls' = Goto(c, "untrack")
       \/ /\ Fault
          /\ calls' = calls \ {c}
          /\ UNCHANGED progress
    /\ EndFrame
    /\ UNCHANGED <<status, tracked, conns, idle, bound, sandbox, histVars>>

\* untrack, the before-destroy hooks and the status event.
EndUntrack(c) ==
    /\ phase # "down"
    /\ c.pc = "untrack"
    /\ tracked' = tracked \ {c.id}
    /\ conns' = [conns EXCEPT ![c.id] = 0]
    /\ idle' = [idle EXCEPT ![c.id] = "nil"]
    /\ calls' = Goto(c, "destroy")
    /\ EndFrame
    /\ UNCHANGED <<status, progress, bound, sandbox, faults, histVars>>

\* The goroutine of destroyAsync.
EndDestroy(c) ==
    /\ phase # "down"
    /\ c.pc = "destroy"
    /\ Destroy(c.id)
    /\ calls' = calls \ {c}
    /\ EndFrame
    /\ UNCHANGED <<status, progress, tracked, conns, idle, histVars>>

-----------------------------------------------------------------------------
(* Browsers come and go; the idle timer runs while none is connected.      *)

IdleFrame == UNCHANGED <<rowVars, phase, starting, provVars, bound, taskVars,
                         connected, sandbox, drops, restarts, histVars>>

\* Connected: a browser opens its socket; a tracker counts it and disarms the
\* timer, an attempt without tracker does not notice.
Connected(a) ==
    /\ phase = "up"
    /\ HasRow(a)
    /\ sockets[a] < MaxConns
    /\ sockets' = [sockets EXCEPT ![a] = @ + 1]
    /\ conns' = [conns EXCEPT ![a] = IF a \in tracked THEN @ + 1 ELSE @]
    /\ idle' = [idle EXCEPT ![a] = "nil"]
    /\ IdleFrame
    /\ UNCHANGED <<calls, tracked, expiring, faults>>

\* Disconnected: the tracker's count never drops below zero, and at zero the
\* timer is armed unless it already is.
DecrementPastZero(n) == n - 1                                    \* mutant
Decrement(n) == IF n > 0 THEN n - 1 ELSE n
RearmNever(n, timer) == timer                                    \* mutant
Rearm(n, timer) == IF n = 0 /\ timer = "nil" THEN "waiting" ELSE timer
Disconnected(a) ==
    /\ phase = "up"
    /\ sockets[a] > 0
    /\ sockets' = [sockets EXCEPT ![a] = @ - 1]
    /\ \/ /\ a \in tracked
          /\ conns' = [conns EXCEPT ![a] = Decrement(@)]
          /\ idle' = [idle EXCEPT ![a] = Rearm(Decrement(conns[a]), @)]
       \/ /\ a \notin tracked
          /\ UNCHANGED <<conns, idle>>
    /\ IdleFrame
    /\ UNCHANGED <<calls, tracked, expiring, faults>>

\* The timer goroutine wakes and armed still finds its channel.  The idle
\* timeout is far longer than a call of expire, so one is in flight at most.
IdleFires(a) ==
    /\ phase = "up"
    /\ a \in tracked \ expiring
    /\ idle[a] = "waiting"
    /\ idle' = [idle EXCEPT ![a] = "fired"]
    /\ expiring' = expiring \cup {a}
    /\ IdleFrame
    /\ UNCHANGED <<calls, tracked, conns, sockets, faults>>

\* expire calls end, after the lock that armed held was released.
Expire(a) ==
    /\ phase # "down"
    /\ a \in expiring
    /\ expiring' = expiring \ {a}
    /\ \/ NoFault /\ BeginEnd(a, "expired", Active)
       \/ NoFault /\ ~IsActive(a) /\ UNCHANGED calls
       \/ Fault /\ UNCHANGED calls
    /\ IdleFrame
    /\ UNCHANGED <<tracked, conns, idle, sockets>>

-----------------------------------------------------------------------------
(* Remote runners lose their connection and come back.                     *)

TaskFrame == UNCHANGED <<progress, place, phase, starting, idleVars, restarts, prov,
                         tries, sockets>>

\* RunnerDisconnected starts its goroutine unless the service is stopping.
OnDisconnectIgnored(r) == dropped                                \* mutant
OnDisconnect(r) == IF phase = "up" THEN dropped \cup {r} ELSE dropped

\* The connection of runner r is gone: the calls out on it fail, and the
\* runner may or may not have finished the sandboxes it was building.  Its
\* serve is still to unregister it.
LoseRunner(r) ==
    /\ r \in Remote \cap connected
    /\ Breakable
    /\ drops' = drops + 1
    /\ connected' = connected \ {r}
    /\ finishing' = finishing \cup {r}
    /\ lost' = lost \cup {a \in On(r) : prov[a] \in {"provision", "precheck",
                                                    "undo_retry", "resolve"}}
    /\ \E S \in SUBSET {a \in On(r) : prov[a] = "provision" /\ a \notin lost} :
          sandbox' = sandbox \cup S
    /\ TaskFrame
    /\ UNCHANGED <<status, calls, bound, dropped, reap, leftover, deleting, faults,
                   histVars>>

\* unregister finds the connection still current, and the hub's callback
\* starts the goroutine of RunnerDisconnected.
Unregister(r) ==
    /\ phase # "down"
    /\ r \in finishing
    /\ finishing' = finishing \ {r}
    /\ dropped' = OnDisconnect(r)
    /\ TaskFrame
    /\ UNCHANGED <<status, lost, calls, bound, reap, leftover, deleting, connected,
                   sandbox, faults, drops, histVars>>

\* RunnerDisconnected lists the active attempts of its runner ...
ReapList(r) ==
    /\ phase # "down"
    /\ r \in dropped
    /\ dropped' = dropped \ {r}
    /\ \/ NoFault /\ reap' = reap \cup {a \in On(r) : IsActive(a)}
       \/ Fault /\ UNCHANGED reap
    /\ TaskFrame
    /\ UNCHANGED <<status, lost, calls, bound, finishing, leftover, deleting, connected, sandbox,
                   drops, histVars>>

\* ... and ends each of them with failDisconnected.
ReapEnd(a) ==
    /\ phase # "down"
    /\ a \in reap
    /\ reap' = reap \ {a}
    /\ \/ NoFault /\ BeginEnd(a, "error", Active)
       \/ NoFault /\ ~IsActive(a) /\ UNCHANGED calls
       \/ Fault /\ UNCHANGED calls
    /\ TaskFrame
    /\ UNCHANGED <<status, lost, bound, finishing, dropped, leftover, deleting, connected, sandbox,
                   drops, histVars>>

\* The runner is back and its hello lists the sandboxes it kept.  When it is
\* registered before the connection it lost was unregistered, that one is no
\* longer current and RunnerDisconnected never runs for it.
Reconnect(r) ==
    /\ phase = "up"
    /\ r \in Remote \ connected
    /\ connected' = connected \cup {r}
    /\ leftover' = leftover \cup (On(r) \cap sandbox)
    /\ finishing' = finishing \ {r}
    /\ replaced' = IF r \in finishing THEN replaced \cup (On(r) \cap (sandbox \cup bound))
                   ELSE replaced
    /\ TaskFrame
    /\ UNCHANGED <<status, lost, calls, bound, dropped, reap, deleting, sandbox,
                   faults, drops, everEnded>>

\* RunnerReconnected destroys one of them.
DestroyLeftover(a) ==
    /\ phase # "down"
    /\ a \in leftover
    /\ leftover' = leftover \ {a}
    /\ \/ NoFault /\ sandbox' = IF place[a] \in connected THEN sandbox \ {a} ELSE sandbox
       \/ Fault /\ UNCHANGED sandbox
    /\ TaskFrame
    /\ UNCHANGED <<status, lost, calls, bound, finishing, dropped, reap, deleting, connected,
                   drops, histVars>>

\* A runner that stays away destroys what it holds when its retention ends.
Retention(r) ==
    /\ r \in Remote \ connected
    /\ sandbox \cap On(r) # {}
    /\ sandbox' = sandbox \ On(r)
    /\ TaskFrame
    /\ UNCHANGED <<status, lost, calls, bound, taskVars, connected, faults, drops, histVars>>

-----------------------------------------------------------------------------
(* Old rows are removed by an admin or by prune: list or check, then       *)
(* delete.                                                                 *)

\* Delete asks isTerminal, prune's query excludes the two active statuses.
DeletableAny(a) == HasRow(a)                                     \* mutant
Deletable(a) == status[a] \in Terminal

Delete(S) ==
    /\ AdminDeletes
    /\ phase = "up"
    /\ S \ deleting # {}
    /\ \A a \in S : Deletable(a)
    /\ deleting' = deleting \cup S
    /\ TaskFrame
    /\ UNCHANGED <<status, lost, calls, bound, finishing, dropped, reap, leftover, connected,
                   sandbox, faults, drops, histVars>>

Remove(a) ==
    /\ phase # "down"
    /\ a \in deleting
    /\ deleting' = deleting \ {a}
    /\ status' = [status EXCEPT ![a] = IF HasRow(a) THEN "deleted" ELSE @]
    /\ TaskFrame
    /\ UNCHANGED <<lost, calls, bound, finishing, dropped, reap, leftover, connected, sandbox,
                   faults, drops, histVars>>

-----------------------------------------------------------------------------
(* The server process closes, exits and starts again.                      *)

\* Close cancels the context and closes every tracker; goroutines finish.
Close ==
    /\ phase = "up"
    /\ Breakable
    /\ phase' = "stopping"
    /\ tracked' = {}
    /\ conns' = [a \in Attempts |-> 0]
    /\ idle' = [a \in Attempts |-> "nil"]
    /\ UNCHANGED <<rowVars, starting, provVars, calls, expiring, bound, taskVars,
                   worldVars, boundVars, histVars>>

\* The process is gone, in an orderly way or not, and with it all that was
\* only in memory; a provider call that was under way may leave a sandbox.
Exit ==
    /\ phase # "down"
    /\ Breakable
    /\ restarts' = restarts + 1
    /\ phase' = "down"
    /\ starting' = {}
    /\ prov' = [a \in Attempts |-> IF prov[a] = "none" THEN "none" ELSE "done"]
    /\ lost' = {}
    /\ calls' = {}
    /\ tracked' = {}
    /\ conns' = [a \in Attempts |-> 0]
    /\ sockets' = [a \in Attempts |-> 0]
    /\ idle' = [a \in Attempts |-> "nil"]
    /\ expiring' = {}
    /\ bound' = {}
    /\ finishing' = {}
    /\ dropped' = {}
    /\ reap' = {}
    /\ leftover' = {}
    /\ deleting' = {}
    /\ connected' = connected \ Remote
    /\ \E S \in SUBSET {a \in Attempts : prov[a] = "provision" /\ a \notin lost} :
          sandbox' = sandbox \cup S
    /\ tries' = [a \in Attempts |-> 0]
    /\ UNCHANGED <<rowVars, faults, drops, histVars>>

\* What is left once every connected runner has collected its sandboxes.
Uncollected == {a \in sandbox : place[a] \notin connected}

\* Recover at startup, before anything is served: the attempts left active are
\* expired one by one, and the connected runner collects its sandboxes.  A
\* store error after expiring S stops the new process; a runner that cannot
\* collect is only logged.
Recover(S) ==
    /\ phase = "down"
    /\ \A a \in S : IsActive(a)
    /\ status' = [a \in Attempts |-> IF a \in S THEN "expired" ELSE status[a]]
    /\ everEnded' = everEnded \cup S
    /\ \/ /\ \A a \in Attempts \ S : ~IsActive(a)
          /\ phase' = "up"
          /\ \/ NoFault /\ sandbox' = Uncollected
             \/ Fault /\ UNCHANGED sandbox
       \/ Fault /\ UNCHANGED <<phase, sandbox>>
    /\ UNCHANGED <<place, progress, starting, provVars, calls, idleVars, bound,
                   taskVars, connected, sockets, drops, restarts, replaced>>

-----------------------------------------------------------------------------
Provisioner(a) ==
    \/ BeginProvision(a) \/ ProvisionOK(a) \/ ProvisionError(a) \/ Precheck(a)
    \/ Undo(a) \/ Resolve(a) \/ PromoteRead(a) \/ PromoteWrite(a) \/ FailProvision(a)

EndStep(c) == EndSetStatus(c) \/ EndProgress(c) \/ EndUntrack(c) \/ EndDestroy(c)

AttemptStep(a) ==
    \/ Reserve(a) \/ Track(a) \/ Provisioner(a)
    \/ Abandon(a) \/ Finish(a)
    \/ Connected(a) \/ Disconnected(a) \/ IdleFires(a) \/ Expire(a)
    \/ ReapEnd(a) \/ DestroyLeftover(a) \/ Remove(a)

RunnerStep(r) ==
    LoseRunner(r) \/ Unregister(r) \/ ReapList(r) \/ Reconnect(r) \/ Retention(r)

Next ==
    \/ \E a \in Attempts : AttemptStep(a)
    \/ \E s \in starting : Create(s)
    \/ \E c \in calls : EndStep(c)
    \/ \E r \in Remote : RunnerStep(r)
    \/ \E S \in SUBSET Attempts : Delete(S) \/ Recover(S)
    \/ Close \/ Exit

Spec == Init /\ [][Next]_vars

\* What the goroutines that a lost and a reconnected runner start do for
\* attempt a.
Cleanup(a) == ReapEnd(a) \/ DestroyLeftover(a)

\* Goroutines that can run do run, calls of a provider return because their
\* contexts have deadlines, timers fire, and a runner that stays away ends its
\* retention.  Users, admins, runners' connections and the process itself
\* promise nothing.  Fairness of a union asks for less than fairness of its
\* parts, and is enough here.
Fairness ==
    /\ \A a \in Attempts :
          /\ WF_vars(Track(a) \/ Provisioner(a))
          /\ WF_vars(IdleFires(a)) /\ WF_vars(Expire(a))
          /\ WF_vars(Cleanup(a))
    /\ WF_vars(\E s \in starting : Create(s))
    /\ WF_vars(\E c \in calls : EndStep(c))
    /\ \A r \in Remote : WF_vars(Unregister(r) \/ ReapList(r)) /\ WF_vars(Retention(r))

FairSpec == Spec /\ Fairness

-----------------------------------------------------------------------------
(* Properties                                                              *)

\* Every variable has its type.
TypeOK ==
    /\ status \in [Attempts -> Status]
    /\ place \in [Attempts -> Runners \cup {NoRunner}]
    /\ progress \subseteq {<<Owner[a], Lab[a]>> : a \in Attempts}
    /\ phase \in {"up", "stopping", "down"}
    /\ starting \subseteq [id : Attempts, runner : Runners]
    /\ prov \in [Attempts -> ProvStep]
    /\ tries \in [Attempts -> Nat]
    /\ lost \subseteq Attempts
    /\ calls \subseteq Call
    /\ tracked \subseteq Attempts
    /\ conns \in [Attempts -> Nat]
    /\ idle \in [Attempts -> {"nil", "waiting", "fired"}]
    /\ expiring \subseteq Attempts
    /\ bound \subseteq Attempts
    /\ finishing \subseteq Remote
    /\ dropped \subseteq Remote
    /\ reap \subseteq Attempts
    /\ leftover \subseteq Attempts
    /\ deleting \subseteq Attempts
    /\ connected \subseteq Runners
    /\ sandbox \subseteq Attempts
    /\ sockets \in [Attempts -> Nat]
    /\ faults \in Nat /\ drops \in Nat /\ restarts \in Nat
    /\ everEnded \subseteq Attempts /\ replaced \subseteq Attempts

\* An attempt in its first life: active, and never written as ended before.
Alive(a) == IsActive(a) /\ a \notin everEnded

\* reserve refuses a second attempt: of the attempts that were never ended,
\* a user has one active at most, whatever Starts, ends and promotions run
\* at the same time.
OneAlivePerUser ==
    \A a, b \in Attempts : Alive(a) /\ Alive(b) /\ Owner[a] = Owner[b] => a = b

\* The attempts of runner r in their first life.
AliveOn(r) == {a \in On(r) : Alive(a)}

\* Schedule and startMu keep every runner within its capacity, counting the
\* attempts that were never ended.
WithinCapacity ==
    \A r \in Runners : Cardinality(AliveOn(r)) <= Capacity[r]

\* What makes the two inductive.  A row in its first life is not there yet or
\* is active, and only rows that ended are about to be deleted; startMu is
\* held by one Start at most, and what it checked still holds for the rows in
\* their first life when it inserts its own.
FirstLife ==
    \A a \in Attempts :
       /\ a \notin everEnded => status[a] \in Active \cup {"none"}
       /\ status[a] = "none" => a \notin everEnded
       /\ a \in deleting => a \in everEnded
Reserved ==
    /\ \A s, t \in starting : s = t
    /\ \A s \in starting :
          /\ status[s.id] = "none"
          /\ \A b \in Attempts : Alive(b) => Owner[b] # Owner[s.id]
          /\ Cardinality(AliveOn(s.runner)) < Capacity[s.runner]

\* No active attempt escapes the idle timer: while the server is up, an
\* attempt in its first life has a tracker, and either a browser is
\* connected, or a timer runs, or its expiry or another end is under way.
Watched ==
    \A a \in Attempts :
       phase = "up" /\ Alive(a) /\ prov[a] # "created" =>
          /\ a \in tracked
          /\ \/ conns[a] > 0
             \/ idle[a] = "waiting"
             \/ a \in expiring
             \/ Ending(a)

\* A sandbox is never forgotten: it belongs to an active attempt, or the
\* provisioning goroutine or a call of end will still destroy it, or its
\* runner is away, or RunnerReconnected has it on its list.
SandboxAccounted ==
    phase = "up" =>
       \A a \in sandbox :
          \/ IsActive(a)
          \/ prov[a] \in ProvStep \ {"none", "done"}
          \/ Ending(a)
          \/ place[a] \notin connected
          \/ a \in leftover

\* A running attempt has its sandbox and its binding: what is missing was
\* lost with a connection, and the hub or RunnerDisconnected has yet to end the
\* attempt.  Only an attempt whose connection was replaced before the hub
\* unregistered it stays running with its sandbox gone.
RunningHasSandbox ==
    \A a \in Attempts :
       phase = "up" /\ Alive(a) /\ status[a] = "running" /\ a \notin replaced =>
          \/ place[a] \in connected /\ a \in sandbox /\ a \in bound
          \/ place[a] \in finishing \cup dropped
          \/ a \in reap
          \/ Ending(a)

\* The server is started again whenever it stops.
Served == []<>(phase = "up")

\* The idle timer reclaims: unless browsers keep coming back, an attempt in
\* its first life ends (decision D7 of DESIGN.md), across restarts too.
IdleIsReclaimed ==
    Served => \A a \in Attempts : []<>(sockets[a] > 0) \/ (Alive(a) ~> ~Alive(a))

\* Provisioning settles: the attempt runs or ends, also when the user just
\* waits with the page open, and when the server restarts meanwhile.
ProvisioningSettles ==
    Served => \A a \in Attempts : status[a] = "provisioning" ~> status[a] # "provisioning"

\* The sandbox of an attempt that ended goes away, whichever of promote, end,
\* a reconnection, the runner's retention or the collection after a restart gets
\* to destroy it.
EndedSandboxGoes ==
    Served => \A a \in Attempts : a \in everEnded ~> a \notin sandbox

\* The promise of DESIGN.md section 6: a user has one attempt that is not in
\* a final status, at most.
OneActivePerUser ==
    \A a, b \in Attempts : IsActive(a) /\ IsActive(b) /\ Owner[a] = Owner[b] => a = b

\* The refinement: an attempt's first life ends with the first final status.
Life == [a \in Attempts |-> IF a \in everEnded THEN "ended"
                            ELSE IF IsActive(a) THEN status[a] ELSE "none"]
Lifecycle == INSTANCE AttemptLifecycle WITH life <- Life, at <- place

\* Every start, promotion and end of the service, with all its interleaved
\* store calls, lost runners, failures and restarts, is a step of
\* AttemptLifecycle or no step of it at all.
ImplementsLifecycle == Lifecycle!LifeSpec

=============================================================================
