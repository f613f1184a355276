# Network Skill Lab: formal models

TLA+ modules, TLC runs and TLAPS proofs for the server and the remote runner of
Network Skill Lab (`src/cmd/nsl`, `src/internal`). A user starts an *attempt* of
a lab; the server places it on a *runner*, which builds a *sandbox* (containers
or virtual machines); a checker looks at the sandbox, terminals and commands are
recorded, and the attempt ends because it passed, was given up, was left alone,
or lost its runner. Everything that can go wrong in that sentence is concurrent:
about a dozen kinds of goroutine act on the same rows and sandboxes, and neither
the rows nor the sandboxes are protected by a transaction or a lock that spans a
handler.

Run a model with `tlc -config <Run>.cfg <Module>`, check the proofs of a component
with `tlapm <Module>Proofs.tla` (`tlapm EdgesProofs.tla` for the components of the
Edges run). `PROJECT.json` lists the runs, the source lines
behind every definition, a mutant for every property, the hazards the properties
are for, and the theorems.

## 1. Inventory

### Components, their state and their operations

| Component | Source | State | Operations | Model |
|---|---|---|---|---|
| Attempt service | `internal/attempt/{service,runners,submit,prune}.go`, `internal/store/attempts.go` | rows of `attempts` and `progress`; in memory `tracked`, `sandboxes`, `startMu` | Start, provision, promote, end (from Abandon, Finish, expire, failProvision, RunnerDisconnected), Connected/Disconnected, Delete, Prune, RunnerReconnected, Close, Recover | `AttemptService`, `AttemptLifecycle` |
| Scheduler | `internal/runner/registry.go` | none | Schedule | `Placement` |
| Event bus | `internal/attempt/bus.go` | a channel of 64 events per subscriber | subscribe, publish, close | `EventBus`, `EventSocket` |
| Checker | `internal/checker/checker.go`, `store/checkpoint_runs.go` | `loops`, `states`, rows of `checkpoint_runs` | dispatch, run, sweep, SweepNow, Close | `Checker` |
| Command log recorder | `internal/recorder/recorder.go`, `store/command_log.go` | `loops` with offsets and a lock each, rows of `command_log` | dispatch, run, pullAll, finalPull, Close | `Recorder` |
| Runner hub, runner client | `internal/runnerserver/hub.go`, `internal/runnerclient/client.go` | `entries`; the runner's `sandboxes` and retention timer | ServeHTTP, register, unregister, Disconnect; session, connected, disconnected, destroyAll | `RunnerLink` |
| Runner calls | `internal/runnerserver/{conn,outbox,pty}.go`, `internal/runnerclient/session.go` | `pending`, `streams`, `closedStreams`, the outbox; the session's `calls` and `streams` | roundTrip, handleResult, handleFrame, closeStream, teardown; start, openTerminal, pumps | `RunnerCalls` |
| Accounts | `internal/auth`, `store/{users,sessions}.go`, `api/{auth,admin}.go`, `cmd/nsl/user.go` | rows of `users` and `sessions`, the limiter's entries | Login, Authenticate, Logout, createUser, patchUser, `nsl user` | `RateLimiter`, `Accounts` |
| Browser sockets | `internal/api/{terminal,events,socket}.go` | open terminals, outboxes, subscriptions | connect, replace, bridge; subscribe, view, follow | `Terminals`, `EventSocket` |
| Terminal recordings, history | `internal/recorder/cast.go`, `store/recordings.go`, `attempt/prune.go`, `api/history.go` | files, rows of `recordings` and `attempts` | OpenRecording, Close, Delete, Prune, replay | `Terminals`, `History` |
| Docker provider | `internal/provider/docker` | containers, networks, endpoints | Provision, Destroy, Collect | `DockerProvider` |
| VM provider | `internal/provider/vm` | domains, networks, directories | Provision, Destroy, GC | `VMProvider` |
| Parameters | `internal/content/params.go` | none | PickCase, mergeParams, Resolve | `Params` |
| Store | `internal/store/{store,migrate}.go` | `schema_migrations`, the schema | Open, migrate | `Migrations` |
| Other content, lint, config, HTTP views, web client | `internal/{content,lint,config,api}`, `web/` | files, presentation | load, validate, format | not modelled |

### How they interact

Start inserts the row under `startMu` and leaves a goroutine that calls the
runner (in process or through the Hub) and then `promote`. Everything that ends
an attempt goes through `Service.end`, which reads the row, writes the final
status, records progress, untracks, runs the before-destroy hooks (the
recorder's final pull), publishes, and destroys the sandbox in another goroutine.
The bus carries the status to the checker and the recorder, which keep one loop
per attempt; the checker calls back `Finish`. The Hub calls
`RunnerDisconnected(name)` and `RunnerReconnected(name, sandboxes)`. The browser
sockets call `Connected` and `Disconnected`, which drive the idle timer. On a
restart, `Recover` expires what was active and asks every runner to collect its
leftovers.

### What is hard, and the properties that make it right

* Handlers read, decide and write in separate store statements: one active
  attempt per user and runners within capacity (`OneAlivePerUser`,
  `WithinCapacity`), statuses that end once (`ImplementsLifecycle`).
* Sandboxes outlive the goroutines that made them: none is forgotten
  (`SandboxAccounted`, `EndedSandboxHasOwner`, `EndedSandboxGoes`), none is taken
  from an attempt that runs (`RunningHasSandbox`, `RunningKeepsSandbox`).
* Timers race with browsers and connections: `Watched`, `IdleIsReclaimed`.
* Connections break, are replaced and are revoked at any point:
  `LatestIsLive`, `OneLiveConnection`, `LostAttemptIsReaped`, `CallReturns`,
  `HeldStreamLearns`, `ToldOnce`, `AbandonedIsReleased`.
* Background loops overlap with requests and with shutdown: `SweepsSerialized`,
  `PassedKeepsResults`, `FirstPassIsEarliest`, `RepairedPasses`, `LoggedOnce`,
  `EnteredIsLogged`, `EndGetsOn`, `LoopEnds`, `LoopEndsAlways`, `CloseReturns`.
* Requests authenticate, log in and change accounts in several statements:
  `ServedIsEntitled`, `GuessesLimited`.
* A socket is set up in several steps while the attempt, the terminal or another
  browser moves: `BrowserIsCurrent`, `NothingLeaks`.
* Sandboxes are built and removed by many calls that fail one by one and overlap:
  `ReadyIsWhole`, `ReportedRemovalIsReal`, `DestroyedIsGone`.
* Several processes share the database and the data directory:
  `SchemaIsVersioned`, `HistoryIsWhole`. What a lab is given depends on a seed
  nobody chose: `ResolvedIsUsable`.

The hazards behind them, each at its line, are in `PROJECT.json`.

## 2. Modules

`Placement` states what `Schedule` picks as a predicate (`IsPick`): a capable,
connected runner with room, with the lowest share of its capacity in use, the
first by name among equals.

`AttemptService` EXTENDS it. One action is one store statement or one critical
section: `Start` is Reserve (the checks, under `startMu`), Create (the insert,
which releases it) and Track; `provision` is BeginProvision, ProvisionOK or
ProvisionError, Precheck, Undo, Resolve, PromoteRead, PromoteWrite,
FailProvision; `end` is BeginEnd in the caller's action (read and guard),
EndSetStatus, EndProgress, EndUntrack, EndDestroy, held as a record in `calls`.
`everEnded` is a history variable: the attempts whose row was once final. It
lets the properties speak of the *first life* of an attempt (`Alive`), because
`promote` can bring an ended row back (section 5). A remote runner's connection is
lost in two steps: LoseRunner ends it, and Unregister has the hub report it. A runner
that reconnects in between takes the entry first, the loss is never reported, and
`replaced` remembers the attempts that stay behind.

`AttemptLifecycle` is the promise to a user and an admin: an attempt starts if
the user has no other and the runner has room, may run once, ends once.
`AttemptService` implements it under `Life` and `place`.

`EventBus` is `publish` to one bounded channel. `Checker` and `Recorder` use it;
each has its own small environment for the attempt (it is announced, it ends, the
hooks run, the end is announced, the sandbox goes), one action per line of
`promote` and `end` that they can observe, since the full service beside them
would only multiply states. The announcement of the attempt and that of its end are
independent steps, as in the code, so the end may be announced first (`late`), and a
status that finds the channel full is lost (`missed`).

`RunnerLink` has one runner name, its connections in the order they are dialled,
ServeHTTP as a program counter per connection, the client, and the attempts on
the runner as far as Provision, Destroy and the two callbacks go. A connection may be
dialled wherever ServeHTTP is with an older one. The retention timer fires, takes the
lock (Retention) and destroys (DestroyEach) in separate steps: a timer that has fired
is out of `Stop`'s reach.

`RunnerCalls` has one connection and the calls on it; toRunner is the outbox
with the socket behind it, toServer what the runner wrote.

`RateLimiter` is `ratelimit.go` as operators on the map of entries; `Accounts`
EXTENDS it. A login, a request and a patch are program counters with one step per
store statement; `strikes`, `dead` and `barred` are history: failures as an observer
of one address counts them, and whether the session or the account of a request was
gone *throughout* since it arrived.

`Terminals` has, for each browser at one tab, the handler, the pump, the writer of
the outbox and `close`, which any of them or the next handler may run.
`EventSocket` has the service's store-then-publish on one side and the handler's
subscribe, read, accept, follow on the other.

`DockerProvider` runs Provision as the calls of its plan, then the stages with one
step per node. A call is named after its place in the loops of `provision`
(networks, containers, links), and it is next when all earlier places are done.
Both run beside removers (the clean-up of a failed
Provision, and a Destroy or Collect from outside). Docker is external: a call has
its effect if its objects exist, removed containers go later and endpoints later
still. `VMProvider` has a goroutine per node as `forEachNode` starts them, and the
same removers over domains, networks and the directory.

`Params` resolves one parameter per step; a random draw is a choice among all that
the source could give, so every seed is covered. The merged parameters are a function
of their places, with gaps where an override took an earlier place. `Migrations` has processes that
open the database at once and may die. `History` has recordings as rows and files,
terminals that still record, Prune, Delete and a reader.

`MCEdges` puts the last eight components into one instance. They share no variable,
so the variable `part` picks the one that moves and the others stay in an initial
state: its states are the union of the components', not their product. Accounts
is entered in three ways, one of them (`SignedIn`) from the state that
`nsl user add` and two logins reach.

Modules with the prefix `MC` instantiate for TLC; `Recorder` needs no definitions
beyond its constants and is run directly.
The proofs are in modules of their own, one per component and one for the
components of Edges: `AttemptServiceProofs`, `AttemptSafetyProofs`,
`RunnerLinkProofs`, `RunnerCallsProofs`, `EventBusProofs`, `CheckerProofs`,
`RecorderProofs`, `EdgesProofs`.

### Abstractions

Timestamps, elapsed time, seeds, parameters, error texts, tick events, pings and
progress messages are left out where no guard reads them. Ids are values; a
sandbox is named after its attempt, as both providers do. SQLite statements are
atomic and the database is one writer. Where a failing call of the store or a runner
changes what happens next, it is a branch that spends one of `MaxFaults`: every store
statement and runner call in `AttemptService`; in `RunnerLink` authentication (a
failing store or a protocol that does not match are one refusal) and every Destroy; in
`Checker` the reads of the loop, `Finish` and the writes of results; in `Recorder` the
read of the attempt, pulls, appends and the hook's deadline. Left out are the calls
whose failure is only logged, and the view that `runBeforeDestroy` reads: when that
fails no hook runs, and `EnteredIsLogged` says nothing of it. In `Checker` a
checkpoint is healthy or not, and a script that cannot run or times out gives an error
only for one that is not; in `Recorder` a line that does not parse counts as read. The
idle timer's check under the lock and the `expire` after it are two steps (IdleFires,
Expire). `EventSocket` has one end of the attempt: a browser is let go at the first
final status, so a second one cannot reach it.

## 3. Runs

| Run | Instance | What it shows |
|---|---|---|
| AttemptLife | 1 attempt with prechecks, in-process and remote runner, 1 browser, 2 concurrent ends, 1 lost connection or restart | TypeOK, Watched, SandboxAccounted, RunningHasSandbox, IdleIsReclaimed, ProvisioningSettles, EndedSandboxGoes |
| AttemptSlots | 3 attempts of 2 users racing for 1 slot, or 1 attempt with a fault anywhere, a lost connection, a restart and deletions | OneAlivePerUser, WithinCapacity, ImplementsLifecycle |
| AttemptOneActive | 2 attempts of 1 user | violates OneActivePerUser |
| Link | 2 connections, 2 attempts, revocation, runner restart, slow close, 1 failing call | LatestIsLive, EndedSandboxHasOwner, RunningKeepsSandbox, EndedSandboxGoes |
| LinkReplaced | 2 connections, 1 attempt | violates LostAttemptIsReaped |
| LinkOrphan | 2 connections, 1 attempt | violates OneLiveConnection |
| CallsSafety | 2 calls, outbox of 2, 1 frame each | HeldStreamLearns, ToldOnce, CallReturns |
| CallsAbandoned | 1 call | violates AbandonedIsReleased |
| Checker | 1 checkpoint, guided and real mode, Submit, 1 failing call, a channel of 2, shutdown | PassedKeepsResults, FirstPassIsEarliest, SweepsSerialized, RepairedPasses, LoopEnds, CloseReturns |
| CheckerLate | 1 checkpoint, no failing call, nothing lost | violates LoopEndsAlways |
| Recorder | 1 node, 2 lines, 1 fault, a channel of 2, shutdown | LoggedOnce, EnteredIsLogged, LoopEnds, EndGetsOn, CloseReturns |
| Edges | each of the edge components by itself, bounds below | ServedIsEntitled, GuessesLimited, NothingLeaks, BrowserIsCurrent, ReportedRemovalIsReal, ReadyIsWhole, DestroyedIsGone, ResolvedIsUsable, SchemaIsVersioned, HistoryIsWhole |

Some properties hold of the code only with an exception: a history variable that is set
at the step that goes wrong, and at no other.

| Exception | Set when | In |
|---|---|---|
| `replaced` | the runner's new connection took the entry before the old one was unregistered; the attempts with a sandbox on the old one | RunningHasSandbox |
| `overtaken` | a connection took the hub's entry from one dialled after it | LatestIsLive, EndedSandboxHasOwner, EndedSandboxGoes |
| `failed` | a Destroy failed for this sandbox | EndedSandboxHasOwner, EndedSandboxGoes |
| `haunted` | the retention timer's goroutine still waited for the lock at the welcome of this connection | RunningKeepsSandbox |
| `late` | `running` was announced after the end | SweepsSerialized, LoopEnds |
| `missed` | a status found the channel full | RepairedPasses, LoopEnds |
| `gaveUp` | the loop could not read or finish its attempt and returned | RepairedPasses, FirstPassIsEarliest |
| `unrecorded` | the latest sweep could not write this checkpoint's result | PassedKeepsResults |

The violation runs LinkReplaced, LinkOrphan and CheckerLate show three of them as
properties without the exception; section 5 has the others.

### Why the bounds are enough to be interesting

* Two ends at once are the smallest race on a row, and one restart, one lost
  connection and one fault can each fall between any two statements. Three
  attempts of two users on one slot give both races of `reserve`: same user, and
  last slot. The theorems of section 4 remove the bounds for these properties.
* Two connections are one replacement, and enough for `LinkOrphan`: a connection whose
  client left it before it registered, and the next one. In Link, the failing call and
  the revocation are explored with one attempt and two attempts without them (`Scope`
  of MCRunnerLink); the theorems have no such limit.
* AttemptSlots explores two regions (`Scope` of MCAttemptService): one attempt alone
  with everything that goes wrong, and three that race for a slot with nothing going
  wrong. `MaxBreaks` counts lost connections and restarts together.
* Two calls let one fill the outbox of the other; an outbox of two is reached
  by a call and a cancel. With one frame each, output meets every stage of a
  stream.
* One checkpoint passes, fails and errs; recording is one step for all of them.
  Three state objects are all the Checker can make in this instance (the state count
  is the same with room for four). Two nodes in `Recorder` only multiply
  the same pull.
* `Buffer` is 2 for the two statuses and one other event of an attempt, so the channel
  overflows and either status may be the one that is lost. The code has 64 for all
  attempts together. In Checker, the failing call, the overflow and the shutdown are
  explored one at a time (`Scope` of MCChecker).
* In Edges, a limit of two failures and a block of two ticks on a clock of five let
  an address fail, be blocked, be let in again and fail again; two logins and two
  requests are the smallest races between them. A session lives one tick, so it
  expires and is touched within the clock. Two browsers are one replacement; an
  outbox of one is full after one frame, a bus channel of two overflows with three
  other events. Two nodes on one link let one fail while the other goes on, and one
  remover from outside meets the clean-up of Provision. Addresses have five bits,
  enough for a reserved block, a base and subnets of four and eight addresses that
  run out. Three migrations of two statements and two processes with two deaths
  put a death within and between migrations. Two attempts with batches of one make
  Prune list several times while another removal is in between.

All cfgs say `CHECK_DEADLOCK FALSE`: with bounded attempts, connections, calls
and faults every instance comes to rest, and a server with nothing to do is one.
In Edges likewise a request is answered, a terminal is gone, a sandbox is removed
and a store is open.

### Fairness

Weak fairness on the goroutines of the server and the runner: Go schedules every
runnable goroutine, and every call they wait for has a deadline (`storeTimeout`,
`provisionTimeout`, `destroyTimeout`, `hookTimeout`, script and pull timeouts,
ping timeout). Weak fairness on timers: the idle timer, the retention timer and
the tickers fire. In `Recorder`, strong fairness where Go's `select` chooses at
random among ready cases (a stop channel cannot be passed over for ever) and
where a `sync.Mutex` hands over to a waiter after a millisecond. In `RunnerLink` the
client, the timer, each attempt's calls and each ServeHTTP are one goroutine each, with
weak fairness of its own. The
liveness properties of AttemptService read `Served => ...`: they speak of runs in
which the server is up again and again, since a process that exits for good
reclaims nothing. Nothing is assumed
of users, admins, networks, processes or faults: nobody has to connect, end,
submit, repair, dial, break, revoke or shut down.

## 4. Proofs

Every safety invariant and action property that a passing run checks is a theorem,
for any value of the constants that satisfies the modules' assumptions and under the
hypotheses below. Each rests on an inductive invariant: the property by itself
never is one, because a handler acts on what it read several steps ago, and the
invariant has to say what is still true of it.

**Attempt service** (`AttemptServiceProofs`, from `AttemptAssumption`).
`TypeCorrect`, `OneAlivePerUserHolds`, `WithinCapacityHolds`,
`ServiceImplementsLifecycle`. `IInv` adds two parts to the types and the properties.
`Reserved`: what Reserve checked still holds when Create inserts the row, because
`startMu` admits one Start and no other action brings a first life about; in between,
attempts can only leave the sets that were counted. `FirstLife`: a row that never was
final is absent or active, and only rows that were final are deleted, so that a row
cannot lose its history. The proof that a step preserves `IInv` first shows that all
but eight actions leave five variables alone (`KeySteps`, `KeyUnchanged`), then that
six of the eight can only shrink the set of living attempts (`FewerAlive`,
`OtherKeySteps`), and treats Reserve and Create by themselves. The refinement maps
Create to LifeStart, PromoteWrite to LifeRun or a stutter, EndSetStatus and Recover to
LifeEnd or a stutter, and the rest to stutters, with `IInv` as the invariant.

**Its clean-up** (`AttemptSafetyProofs`). `AttemptSafe` is the inductive `SafeInv`:
the tracker and its timer, the goroutine of `provision`, the row and the sandbox of an
attempt agree (`Kept`), a call of `end` that has written its status has ended the attempt
for good (`CallsEnd`), and one formula for each property and attempt (`WatchedOne`,
`Provided`, `AccountedOne`). The theorems
carry hypotheses that the invariant needs, and the code does:

* `WatchedHolds`, `RunningHasSandboxHolds`: while `faults = 0`. `end` gives up when a
  store statement fails, and nobody tries again. The second has lost and replaced
  connections in it: what was lost is between LoseRunner and the end that the report
  starts, or was replaced.
* `SandboxAccountedHolds`: while `faults = 0` and no row was deleted (`NoneDeleted`).
  `promote` leaves the sandbox of a row that is gone.

Runs without faults satisfy them for their whole length, with any number of lost
connections and restarts; the AttemptLife run checks the properties under the same
restrictions.

**Runner link** (`RunnerLinkProofs`). `LinkSafe` is the inductive `LinkInv`: what the
client's state says of the connection it dialled, what each step of ServeHTTP knows of
the entry, and where the sandboxes of an ended attempt may be. `LatestIsLiveHolds`,
`EndedSandboxHasOwnerHolds` and `RunningKeepsSandboxHolds` follow for any number of
connections that overlap in any way, of attempts and of failing calls, with the
exceptions of section 3. That only a connection its client has left can take the entry
from a newer one is part of the invariant: the client dials one at a time.

**Runner calls** (`RunnerCallsProofs`). `CallsSafe`, with the order of the messages of
one call in each queue; `ToldOnceHolds` and `HeldStreamLearnsHolds` for any number of
calls and any outbox.

**Event bus** (`EventBusProofs`). `PublishedChannel` and `ReceivedChannel` say what
`publish` and a receive do to a bounded channel: what is in it, how often and in which
order. `Checker`, `Recorder` and `EventSocket` use only these facts.

**Checker** (`CheckerProofs`). `CheckerSafe`, and from it `PassedKeepsResultsHolds`,
`FirstPassIsEarliestHolds` and `SweepsSerializedHolds`, wherever the end comes and
whatever fails. The invariant says that the loop starts once, that two sweeps at once
have two states, that outside real mode nothing sweeps after the sweep that passed,
and, unless the announcement was `late`, that a registered loop and Submit have the
same state: the lock is the state's, so only this makes the lock one lock. For the
first pass (`Remembered`), as long as nothing drops the state in `states` there is one
state, which every sweep has and which knows the first sweep that saw each checkpoint
pass, stored or not.

**Recorder** (`RecorderProofs`). `RecorderSafe`, `TypeOKHolds`, `LoggedOnceHolds`,
`EnteredIsLoggedHolds`. What was read and is not stored belongs to whoever has the lock
and begins at the node's offset, and the log ends there; unless something failed, `end`
waits for the hook and the hook for every node.

**The edges** (`EdgesProofs`), each component with the specification of its own
(`AccountsSpec`, `TerminalsSpec`, ...), of which MCEdges runs an instance:

* `SchemaIsVersionedHolds`: a process found or made every version it is past, and found
  applied nothing that is not recorded; a transaction that dies leaves no trace.
* `NothingLeaksHolds`: an open shell or recording belongs to a handler that is about to
  attach or close it, or to a session whose `close` is not there yet; between `put` and
  `remove` a handler is registered, or is closed by the one that replaced it.
* `BrowserIsCurrentHolds`: a handler that follows was shown the stored status, unless
  that one, or an end, is still to be published or in the channel.
* `HistoryIsWholeHolds`: the file of a recording is there from before its row is made
  until after its attempt's row is gone; a batch that was not full has all that is left
  of what the cutoff covers.
* `ReportedRemovalIsRealHolds`, `ReadyIsWholeHolds`: a remover that is alone and met no
  error has on its list all that is there; what a call of the plan has made is in place
  while no remover has begun, and the stages before the one that runs are done on
  every node, unless one failed.
* `DestroyedIsGoneHolds`: likewise for machines, networks and the directory, and no
  goroutine of a stage goes on once Provision has left the stage.
* `ServedIsEntitledHolds` from `SessionsSafe`: a session that was dead when a request
  came stays dead until Touch revives it (it is made once, by a login that is over),
  and a disabled account stays disabled until somebody enables it, who releases every
  request that waits for it (`DeadSessionStep`, `BarredAccountStep`).
* `GuessesLimitedHolds` (`GuessesInv`): a failure that still counts for an observer is
  in the limiter, in an entry at least as young with at least as many; a block is in the
  limiter until it is over; a login that was allowed since the last block finds no
  block. Without the first part, prune could drop a count that still matters.
* `ResolvedIsUsableHolds` (`ParamsInv`): a name is in the merged list once
  (`MergedOnce`), so a value is never replaced and what a later parameter was drawn
  from stays what it was (`KnownIsKept`); an address is in the set of its subnet from
  the draw on. That a masked prefix ends within the address space (`MaskedFits`,
  `ParsedFits`) makes the modulo of the 32-bit sum harmless.

The assumptions are on constants and evaluated by TLC on every run: sizes are natural
numbers, orders are sequences, a patch body has the fields of `PatchBody`, a name is in
a list of parameters once (`UnmarshalYAML` reads a YAML mapping, whose keys differ).
`ParamsAssumption` states the two laws of powers of two that the sizes of networks
need, up to `Width`: their proof would be an induction.

Only model-checked:

* liveness under fairness, which this prover does not handle: `IdleIsReclaimed`,
  `ProvisioningSettles`, both `EndedSandboxGoes`, `CallReturns`, `RepairedPasses`,
  `LoopEnds`, `EndGetsOn`, `CloseReturns`;
* the five runs that find a violation.

## 5. Where the code and its documents disagree

* **A promoted attempt that had ended** (`AttemptOneActive`). `promote` reads
  `provisioning` and writes `running` without a condition. An end in between is
  overwritten: the row is active again with no tracker and no sandbox, and the
  user may have a second active attempt, against `docs/DESIGN.md` section 6.
* **A replaced connection is not reported** (`LinkReplaced`). `finished` is
  closed before `unregister`; the new connection may take the entry in between,
  and OnDisconnect never runs for the old one. Its attempts stay `running`,
  against `README.md` ("its attempts end within seconds").
* **A live connection out of the entry** (`LinkOrphan`). A client gives up a
  connection that has not registered yet (its welcome is late, or the network breaks)
  and dials again. `register` has read an empty entry for both; the new one writes
  it first, and the stale one then writes itself over it. The live connection serves,
  and the Hub does not find it, against `README.md` ("it takes new attempts right
  away").
* **A terminal nobody owns** (`CallsAbandoned`). A caller gives up after
  `handleResult` released the lock and before it passed the reply on. The terminal
  stays open until the connection ends.
* **A loop that nobody stops** (`CheckerLate`). `promote` writes `running` and publishes
  it later; a whole `end` in between publishes first. The loop that the late
  announcement starts has nothing to stop it before shutdown, in the Checker and
  likewise in the Recorder, against their tests ("the sweep loop is still running").

Known and not a run of their own:

* A status that is lost on a full channel is not repeated: a loop is not started, or
  not stopped (`missed`).
* After a late announcement a registered loop and Submit may have different state
  objects and sweep together (`late`).
* A retention timer that fired just before the welcome takes the sandboxes of the new
  connection (`haunted`): `connected` stops the timer, not its goroutine.
* A Destroy that fails is logged and not repeated (`failed`); `destroyAll` has
  forgotten the sandbox by then.
* After a failed write of a result the attempt may pass without it (`unrecorded`).
* `PassedKeepsResults` excludes real mode: there the background loop goes on
  sweeping until it hears of the end, and may write errors over the results of
  the Submit that passed.
* The clean-up properties are for runs without faults: `end` does not retry a progress
  entry or a destroy that failed, or that the process did not reach, and a deleted row
  leaves the sandbox that `promote` was about to own. A pass may so be without its
  progress row.
* Of two concurrent ends the later status wins; a pass may read `abandoned`.
* A browser that connects between the idle timer's check and `expire` is watched
  and expired all the same.
* A revocation between `authenticate` and `register` finds no connection to close.
* A recording's file is named after the tab: a tab that is opened again writes over
  the recording before it, whose row stays and then replays the newer one. Files
  that a late terminal creates for a removed attempt stay behind.
* Two administrators who disable each other at the same time may leave none: the role
  is the one the middleware read, and `patchUser` only refuses the caller's own account,
  which `docs/specs/phase3.html` (section 05) wants in order to avoid a lock-out.
* Lint and `validate` resolve parameters with one seed; two `cidr` parameters of one
  base may draw equal or overlapping networks for another.

## 6. Plan

1. Done: attempt service, placement, lifecycle, link, calls, checker, recorder,
   accounts, terminals, events socket, providers, parameters, migrations, history;
   the proofs of section 4.
2. `Schedule` as its loop over sorted members, shown to satisfy `IsPick`; the
   providers shown to implement the sandbox set of `AttemptService`.
3. Further disagreements as runs: PassedIsFinal, ConnectedIsNotExpired,
   RevokedIsDisconnected, and the administrators of section 5.

## 7. Not modelled

* Content loading, validation and lint, configuration and flags: functions of files
  that run once, without state that anything else changes.
* HTTP decoding and views, history lists and statistics: reads and formatting.
* Password hashing, the wire format of runners, domain XML, cloud-init, the texts sent
  to Docker, libvirt and the guest agent: conversions; the models use what they mean.
* Exec and terminals inside a provider: single calls to Docker, ssh or the guest agent.
* The web client: presentation, and a socket that reconnects to what is modelled.
* The spikes and images directories are not part of the program.
