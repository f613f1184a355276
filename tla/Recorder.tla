------------------------------- MODULE Recorder -------------------------------
(***************************************************************************)
(* The Recorder of internal/recorder for one attempt: a loop that pulls the*)
(* command log of every node from the sandbox into the store, from the     *)
(* offset of the last pull on and complete lines only, and the final pull  *)
(* that end waits for before it destroys the sandbox.                      *)
(*                                                                         *)
(* The attempt is a running one that ends once; AttemptService has its     *)
(* life in full.  A line is its number; an offset counts the complete      *)
(* lines before it.  A line that is still being written is not             *)
(* there yet: pull stops after the last newline.  Left out: terminal       *)
(* recordings, and lines that do not parse (they are skipped and counted   *)
(* as read).                                                               *)
(***************************************************************************)
EXTENDS Naturals, Sequences, FiniteSets, EventBus

CONSTANTS
    Nodes,
    Buffer,     \* subscriberBuffer
    MaxOthers,  \* bound: events other than a status
    MaxLines,   \* bound: lines each node's log gets
    MaxFaults   \* bound: failing pulls, failing store, a hook that times out

ASSUME RecorderAssumption ==
    /\ IsFiniteSet(Nodes)
    /\ {Buffer, MaxOthers, MaxLines, MaxFaults} \subseteq Nat

VARIABLES
    \* The attempt: whether promote announced it, where end is, the sandbox.
    announced, ending, sandbox,
    \* Bounds used up.
    faults, others,
    \* The log of each node in the sandbox.
    lines,
    \* The subscription, the dispatcher, Close.
    inbox, dispatching, closing,
    \* loops[id], the loop, its context, its stop channel, whether its view and
    \* offsets are there, its final flag.
    entry, loop, cancelled, stopped, ready, final,
    \* Who holds the loop's lock, the nodes it has yet to pull, what it has read
    \* of one and not stored, and the hook's progress.
    pulling, todo, read, hook,
    \* The offsets, and the rows of command_log.
    offsets, log,
    \* History: the lines end found complete when a ready loop was asked for the
    \* final pull; running was announced after the end; the end was lost on a full
    \* channel.
    owed, late, missed

dispatchVars == <<inbox, dispatching, closing>>
loopVars == <<entry, loop, cancelled, stopped, ready>>
pullVars == <<final, pulling, todo, read>>
logVars == <<offsets, log>>
recorderVars == <<lines, dispatchVars, loopVars, pullVars, hook, logVars, owed>>
busVars == <<others, late, missed>>
attemptVars == <<announced, ending, sandbox, faults, busVars>>
vars == <<attemptVars, recorderVars>>

Pullers == {"loop", "hook"}

Init ==
    /\ announced = FALSE
    /\ ending = "no"
    /\ sandbox = TRUE
    /\ faults = 0
    /\ others = 0
    /\ lines = [n \in Nodes |-> 0]
    /\ inbox = <<>>
    /\ dispatching = TRUE
    /\ closing = FALSE
    /\ entry = FALSE
    /\ loop = "none"
    /\ cancelled = FALSE
    /\ stopped = FALSE
    /\ ready = FALSE
    /\ final = FALSE
    /\ pulling = {}
    /\ todo = [p \in Pullers |-> {}]
    /\ read = [p \in Pullers |-> {}]
    /\ hook = "idle"
    /\ offsets = [n \in Nodes |-> 0]
    /\ log = [n \in Nodes |-> <<>>]
    /\ owed = [n \in Nodes |-> 0]
    /\ late = FALSE /\ missed = FALSE

-----------------------------------------------------------------------------
(* The attempt.                                                            *)

Publish(event) ==
    /\ inbox' = Published(inbox, event, Buffer)
    /\ UNCHANGED <<lines, dispatching, closing, loopVars, pullVars, hook, logVars, owed>>

\* promote announces the attempt ...
Announce ==
    /\ ~announced
    /\ announced' = TRUE
    /\ Publish("running")
    /\ late' = (ending \in {"destroy", "over"})
    /\ UNCHANGED <<ending, sandbox, faults, others, missed>>

\* ... end writes a final status, maybe before that ...
End ==
    /\ ending = "no"
    /\ ending' = "hook"
    /\ UNCHANGED <<announced, sandbox, faults, busVars, recorderVars>>

\* ... and goes on when its hook returned, or when the deadline passed ...
HookReturns ==
    /\ ending = "hook"
    /\ \/ hook = "done" /\ UNCHANGED faults
       \/ hook \in {"waiting", "pulling"} /\ faults < MaxFaults /\ faults' = faults + 1
    /\ ending' = "publish"
    /\ UNCHANGED <<announced, sandbox, busVars, recorderVars>>

\* ... to announce the end ...
AnnounceEnd ==
    /\ ending = "publish"
    /\ ending' = "destroy"
    /\ Publish("ended")
    /\ missed' = (Len(inbox) >= Buffer)
    /\ UNCHANGED <<announced, sandbox, faults, others, late>>

\* ... and to destroy the sandbox.
Destroy ==
    /\ ending = "destroy"
    /\ ending' = "over"
    /\ sandbox' = FALSE
    /\ UNCHANGED <<announced, faults, busVars, recorderVars>>

\* A tick, a provisioning step, a checkpoint or a submit.
OtherEvent ==
    /\ others < MaxOthers
    /\ others' = others + 1
    /\ Publish("other")
    /\ UNCHANGED <<announced, ending, sandbox, faults, late, missed>>

\* The user enters a command, and the shell of the node logs it.
Enter(n) ==
    /\ sandbox
    /\ lines[n] < MaxLines
    /\ lines' = [lines EXCEPT ![n] = @ + 1]
    /\ UNCHANGED <<dispatchVars, loopVars, pullVars, hook, logVars, owed, attemptVars>>

-----------------------------------------------------------------------------
(* The dispatcher and the loop.                                            *)

\* stopLoop: the stop channel of a loop that is registered is closed.
StopAskedNever == stopped                                        \* mutant
StopAsked == stopped \/ entry

\* An event: a loop is started, or asked to stop.
Dispatch ==
    /\ dispatching
    /\ inbox # <<>>
    /\ inbox' = Tail(inbox)
    /\ \/ /\ Head(inbox) = "running"
          /\ entry' = TRUE
          /\ loop' = IF entry THEN loop ELSE "loading"
          /\ cancelled' = IF entry THEN cancelled ELSE closing
          /\ UNCHANGED stopped
       \/ /\ Head(inbox) = "ended"
          /\ stopped' = StopAsked
          /\ UNCHANGED <<entry, loop, cancelled>>
       \/ /\ Head(inbox) = "other"
          /\ UNCHANGED <<entry, loop, cancelled, stopped>>
    /\ UNCHANGED <<lines, dispatching, closing, ready, pullVars, hook, logVars, owed, attemptVars>>

\* Close ends the context of the dispatcher and with it that of the loop.
CancelledByCloseNot == cancelled                                 \* mutant
CancelledByClose == TRUE

Close ==
    /\ ~closing
    /\ closing' = TRUE
    /\ entry' = FALSE
    /\ cancelled' = CancelledByClose
    /\ UNCHANGED <<lines, inbox, dispatching, loop, stopped, ready, pullVars, hook, logVars, owed,
                   attemptVars>>

DispatcherEnds ==
    /\ closing
    /\ dispatching
    /\ dispatching' = FALSE
    /\ UNCHANGED <<lines, inbox, closing, loopVars, pullVars, hook, logVars, owed, attemptVars>>

\* run returns and forget removes the loop.
LoopReturns ==
    /\ loop' = "gone"
    /\ entry' = FALSE
    /\ cancelled' = (cancelled \/ entry)
    /\ UNCHANGED <<stopped, ready>>

\* run reads the attempt, which fails when it is cancelled, or when the store does.
Load ==
    /\ loop = "loading"
    /\ \/ /\ ~cancelled
          /\ loop' = "ticking"
          /\ ready' = TRUE
          /\ UNCHANGED <<entry, cancelled, stopped, faults>>
       \/ cancelled /\ LoopReturns /\ UNCHANGED faults
       \/ faults < MaxFaults /\ faults' = faults + 1 /\ LoopReturns
    /\ UNCHANGED <<lines, dispatchVars, pullVars, hook, logVars, owed, announced, ending, sandbox,
                   busVars>>

LoopCancelled ==
    /\ loop = "ticking"
    /\ cancelled
    /\ LoopReturns
    /\ UNCHANGED <<lines, dispatchVars, pullVars, hook, logVars, owed, attemptVars>>

\* A tick, or the stop channel: the loop goes for the lock.
Tick ==
    /\ loop = "ticking"
    /\ loop' = "pulling"
    /\ UNCHANGED <<lines, dispatchVars, entry, cancelled, stopped, ready, pullVars, hook, logVars,
                   owed, attemptVars>>

Stopped ==
    /\ loop = "ticking"
    /\ stopped
    /\ loop' = "last pull"
    /\ UNCHANGED <<lines, dispatchVars, entry, cancelled, stopped, ready, pullVars, hook, logVars,
                   owed, attemptVars>>

-----------------------------------------------------------------------------
(* pullAll.                                                                *)

\* The lock of the loop is free.
LockFree == pulling = {}

\* A pull that has nothing to do: the final one was made, or there are no
\* offsets yet.
Useless == final \/ ~ready

\* Whether a pull is the last one.
IsFinalAlways(p) == TRUE                                         \* mutant
IsFinal(p) == p = "hook" \/ loop = "last pull"

Wants(p) == IF p = "hook" THEN hook = "waiting" ELSE loop \in {"pulling", "last pull"}

\* The lock is taken and the pull starts with every node to go ...
BeginPull(p) ==
    /\ Wants(p)
    /\ p \notin pulling
    /\ LockFree
    /\ ~Useless
    /\ pulling' = pulling \cup {p}
    /\ todo' = [todo EXCEPT ![p] = Nodes]
    /\ final' = IsFinal(p)
    /\ hook' = IF p = "hook" THEN "pulling" ELSE hook
    /\ loop' = IF p = "loop" THEN (IF loop = "last pull" THEN "in last pull" ELSE "in pull") ELSE loop
    /\ UNCHANGED <<lines, dispatchVars, entry, cancelled, stopped, ready, read, logVars, owed,
                   attemptVars>>

\* ... one node is read, if there is a sandbox and a context: the loop's, or the
\* hook's, whose deadline has passed once end went on without it ...
Gone(p) ==
    \/ ~sandbox
    \/ p = "loop" /\ cancelled
    \/ p = "hook" /\ ending # "hook"

Read(p, n) ==
    /\ p \in pulling
    /\ read[p] = {}
    /\ n \in todo[p]
    /\ \/ /\ ~Gone(p)
          /\ read' = [read EXCEPT ![p] = {[node |-> n, from |-> offsets[n], upto |-> lines[n]]}]
          /\ UNCHANGED <<todo, faults>>
       \/ /\ Gone(p) \/ faults < MaxFaults
          /\ faults' = IF Gone(p) THEN faults ELSE faults + 1
          /\ todo' = [todo EXCEPT ![p] = @ \ {n}]
          /\ UNCHANGED read
    /\ UNCHANGED <<lines, dispatchVars, loopVars, pulling, final, hook, logVars, owed, announced,
                   ending, sandbox, busVars>>

\* The offset after an append: moved on if the rows were stored.
OffsetAfterAnyway(r, ok) == r.upto                               \* mutant
OffsetAfter(r, ok) == IF ok THEN r.upto ELSE r.from

\* ... and its new lines are appended in one transaction, or not at all.
Append1(p, r) ==
    /\ read' = [read EXCEPT ![p] = {}]
    /\ todo' = [todo EXCEPT ![p] = @ \ {r.node}]
    /\ \E ok \in BOOLEAN :
          /\ ok \/ faults < MaxFaults
          /\ faults' = IF ok THEN faults ELSE faults + 1
          /\ offsets' = [offsets EXCEPT ![r.node] = OffsetAfter(r, ok)]
          /\ log' = IF ok
                    THEN [log EXCEPT ![r.node] = @ \o [k \in 1..(r.upto - r.from) |-> r.from + k]]
                    ELSE log
    /\ UNCHANGED <<lines, dispatchVars, loopVars, pulling, final, hook, owed,
                   announced, ending, sandbox, busVars>>

\* The lock is given back.
UnlockedNot(p) == pulling                                        \* mutant
Unlocked(p) == pulling \ {p}

\* pullAll returns: the loop ticks on or returns, the hook asks the loop to stop.
EndPull(p) ==
    /\ \/ p \in pulling /\ todo[p] = {}
       \/ p \notin pulling /\ Wants(p) /\ LockFree /\ Useless
    /\ pulling' = Unlocked(p)
    /\ \/ /\ p = "hook"
          /\ hook' = "done"
          /\ stopped' = StopAsked
          /\ UNCHANGED <<entry, loop, cancelled, ready>>
       \/ /\ p = "loop" /\ loop \in {"pulling", "in pull"}
          /\ loop' = "ticking"
          /\ UNCHANGED <<entry, cancelled, stopped, ready, hook>>
       \/ /\ p = "loop" /\ loop \in {"last pull", "in last pull"}
          /\ LoopReturns
          /\ UNCHANGED hook
    /\ UNCHANGED <<lines, dispatchVars, final, todo, read, logVars, owed, attemptVars>>

-----------------------------------------------------------------------------
(* The hook that end waits for.                                            *)

\* finalPull: there is a loop, or nothing to do.
FinalPull ==
    /\ ending = "hook"
    /\ hook = "idle"
    /\ hook' = IF entry THEN "waiting" ELSE "done"
    /\ owed' = IF entry /\ ready THEN lines ELSE owed
    /\ UNCHANGED <<lines, dispatchVars, loopVars, pullVars, logVars, attemptVars>>

-----------------------------------------------------------------------------
PullSteps(p) ==
    \/ BeginPull(p) \/ EndPull(p)
    \/ \E n \in Nodes : Read(p, n)
    \/ \E r \in read[p] : Append1(p, r)

LoopSteps == Load \/ PullSteps("loop")
HookSteps == FinalPull \/ PullSteps("hook")
ServiceStep == Announce \/ HookReturns \/ AnnounceEnd \/ Destroy

Next ==
    \/ ServiceStep \/ End \/ OtherEvent
    \/ \E n \in Nodes : Enter(n)
    \/ Dispatch \/ DispatcherEnds \/ Close
    \/ LoopSteps \/ LoopCancelled \/ Stopped \/ Tick
    \/ HookSteps

Spec == Init /\ [][Next]_vars

\* The goroutines of the service and the Recorder run and calls into the sandbox
\* have a deadline.  select chooses among the ready cases at random, so ticks
\* cannot keep the loop from seeing its stop channel or its context for ever,
\* and a sync.Mutex does not starve the hook that waits for it.
Fairness ==
    /\ WF_vars(ServiceStep)
    /\ WF_vars(Dispatch \/ DispatcherEnds)
    /\ WF_vars(LoopSteps)
    /\ SF_vars(LoopCancelled \/ Stopped)
    /\ WF_vars(HookSteps)
    /\ SF_vars(BeginPull("hook"))

FairSpec == Spec /\ Fairness

-----------------------------------------------------------------------------
(* Properties                                                              *)

\* Every variable has its type, one pull at a time has the lock, and no offset
\* is beyond the log.
TypeOK ==
    /\ ending \in {"no", "hook", "publish", "destroy", "over"}
    /\ {announced, sandbox, dispatching, closing, entry, cancelled, stopped, ready, final,
         late, missed} \subseteq BOOLEAN
    /\ inbox \in Seq({"running", "ended", "other"}) /\ Len(inbox) <= Buffer
    /\ loop \in {"none", "loading", "ticking", "pulling", "in pull", "last pull", "in last pull",
                 "gone"}
    /\ hook \in {"idle", "waiting", "pulling", "done"}
    /\ pulling \subseteq Pullers /\ Cardinality(pulling) <= 1
    /\ todo \in [Pullers -> SUBSET Nodes]
    /\ \A p \in Pullers : read[p] \subseteq [node : Nodes, from : 0..MaxLines, upto : 0..MaxLines]
    /\ \A n \in Nodes : offsets[n] \in 0..lines[n] /\ lines[n] \in 0..MaxLines

\* command_log has the lines of a node in order and each of them once, whatever
\* pulls fail or wait for each other.
LoggedOnce ==
    \A n \in Nodes : log[n] = [k \in 1..Len(log[n]) |-> k]

\* Nothing the user entered is lost: when the sandbox is gone, the lines end
\* found are in command_log, unless something failed or the server shut down.
EnteredIsLogged ==
    ~sandbox /\ faults = 0 /\ ~closing => \A n \in Nodes : Len(log[n]) >= owed[n]

\* Once an attempt ended its loop does (TestFinalPullOnTerminalStatus), unless the
\* bus announced the end before the attempt, or lost it.
LoopEnds == ending # "no" ~> loop \in {"none", "gone"} \/ late \/ missed

\* The hook never keeps end from destroying the sandbox.
EndGetsOn == ending = "hook" ~> ~sandbox

\* Close returns: the dispatcher and the loop end.
CloseReturns == closing ~> ~dispatching /\ loop \in {"none", "gone"}
=============================================================================
