------------------------------- MODULE Checker -------------------------------
(***************************************************************************)
(* The Checker of internal/checker for one attempt.  Its dispatcher starts *)
(* a sweep loop when the bus announces the attempt as running and stops it *)
(* when it announces the end.  A tick of the loop runs every checkpoint's  *)
(* script in the sandbox, records the results and, outside real mode, ends *)
(* the attempt as passed once they all pass; in real mode Submit asks for  *)
(* a sweep of its own and ends the attempt if that one passes.             *)
(*                                                                         *)
(* The attempt is a running one that ends once; AttemptService has its     *)
(* life in full.  One state object of c.states is a number; clock counts   *)
(* the sweeps that recorded something, as the time they recorded, up to    *)
(* MaxClock.  A read or write of the store may fail, up to MaxFaults times; *)
(* a failure is logged, and the loop passes over it or gives up.  Left out *)
(* are the events that tell browsers of a changed checkpoint.              *)
(***************************************************************************)
EXTENDS Naturals, Sequences, FiniteSets, EventBus

CONSTANTS
    Checkpoints,
    Buffer,      \* subscriberBuffer
    MaxOthers,   \* bound: events other than a status
    MaxFaults,   \* bound: steps with a failing call of the store
    MaxStates,   \* bound: state objects made for the attempt
    MaxClock     \* bound: times told apart

ASSUME CheckerAssumption ==
    /\ Checkpoints # {} /\ IsFiniteSet(Checkpoints)
    /\ {Buffer, MaxOthers, MaxFaults, MaxStates, MaxClock} \subseteq Nat

VARIABLES
    \* The attempt: its mode, its status, whether promote announced it, where end
    \* is, the sandbox and the checkpoints whose scripts run and pass in it.
    mode, row, announced, ending, sandbox, healthy,
    \* Bounds used up.
    others, faults,
    \* The subscription, the dispatcher, Close.
    inbox, dispatching, closing,
    \* loops[id] and the loop: where it is, its context, sweeping and done.
    entry, loop, cancelled, sweeping, done,
    \* states[id] (0: none), the objects made so far and their firstPassed.
    current, made, firstPassed,
    \* The sweeps of the loop and of Submit.
    sweep,
    \* checkpoint_runs, and the time.
    last, first, clock,
    \* History: running was announced after the end, a status was lost on a full
    \* channel, the loop gave up after a failed call, the checkpoints whose results
    \* the latest sweep could not write, and the time of the first sweep that saw
    \* each of them pass.
    late, missed, gaveUp, unrecorded, earliest

dispatchVars == <<inbox, dispatching, closing>>
loopVars == <<entry, loop, cancelled, sweeping, done>>
stateVars == <<current, made, firstPassed>>
runVars == <<last, first, clock, unrecorded, earliest>>
checkerVars == <<dispatchVars, loopVars, stateVars, sweep, runVars>>
faultVars == <<faults, gaveUp>>
busVars == <<others, late, missed>>
attemptVars == <<mode, row, announced, ending, sandbox, healthy, busVars>>
vars == <<attemptVars, checkerVars, faultVars>>

Sweepers == {"loop", "submit"}
Outcome == {"pass", "fail", "error"}
Idle == [pc |-> "idle", state |-> 0, got |-> [cp \in Checkpoints |-> "none"]]

Init ==
    /\ mode \in {"guided", "real"}
    /\ row = "running"
    /\ announced = FALSE
    /\ ending = "no"
    /\ sandbox = TRUE
    /\ healthy = {}
    /\ others = 0
    /\ inbox = <<>>
    /\ dispatching = TRUE
    /\ closing = FALSE
    /\ entry = FALSE
    /\ loop = "none"
    /\ cancelled = FALSE
    /\ sweeping = FALSE
    /\ done = {}
    /\ current = 0
    /\ made = 0
    /\ firstPassed = [s \in 1..MaxStates |-> [cp \in Checkpoints |-> 0]]
    /\ sweep = [w \in Sweepers |-> Idle]
    /\ last = [cp \in Checkpoints |-> "none"]
    /\ first = [cp \in Checkpoints |-> 0]
    /\ clock = 0
    /\ faults = 0
    /\ late = FALSE /\ missed = FALSE /\ gaveUp = FALSE
    /\ unrecorded = {}
    /\ earliest = [cp \in Checkpoints |-> 0]

-----------------------------------------------------------------------------
(* The attempt.                                                            *)

Publish(event) ==
    /\ inbox' = Published(inbox, event, Buffer)
    /\ UNCHANGED <<dispatching, closing, loopVars, stateVars, sweep, runVars, faultVars>>

\* A status, which the dispatcher misses if its channel is full.
PublishStatus(event) ==
    /\ Publish(event)
    /\ missed' = (missed \/ Len(inbox) >= Buffer)
    /\ UNCHANGED others

\* promote announces the attempt it wrote as running ...
Announce ==
    /\ ~announced
    /\ announced' = TRUE
    /\ PublishStatus("running")
    /\ late' = (ending \in {"destroy", "over"})
    /\ UNCHANGED <<mode, row, ending, sandbox, healthy>>

\* ... which the user abandons, or which expires, maybe before that ...
Abandon ==
    /\ row = "running"
    /\ row' = "abandoned"
    /\ ending' = "hook"
    /\ UNCHANGED <<mode, announced, sandbox, healthy, busVars, checkerVars, faultVars>>

\* ... and end announces that when its hooks returned ...
AnnounceEnd ==
    /\ ending = "hook"
    /\ ending' = "destroy"
    /\ PublishStatus("ended")
    /\ UNCHANGED <<mode, row, announced, sandbox, healthy, late>>

\* ... and destroys the sandbox, in which nothing passes any more.
Destroy ==
    /\ ending = "destroy"
    /\ ending' = "over"
    /\ sandbox' = FALSE
    /\ healthy' = {}
    /\ UNCHANGED <<mode, row, announced, busVars, checkerVars, faultVars>>

\* A tick, a provisioning step, a checkpoint or a submit.
OtherEvent ==
    /\ others < MaxOthers
    /\ others' = others + 1
    /\ Publish("other")
    /\ UNCHANGED <<mode, row, announced, ending, sandbox, healthy, late, missed>>

\* The user repairs something, or breaks it again.
Repair(cp) ==
    /\ sandbox
    /\ healthy' = IF cp \in healthy THEN healthy \ {cp} ELSE healthy \cup {cp}
    /\ UNCHANGED <<mode, row, announced, ending, sandbox, busVars, checkerVars, faultVars>>

-----------------------------------------------------------------------------
(* The dispatcher and the loop's life.                                     *)

\* stopLoop: the state goes, and the loop is cancelled if it is registered.
CancelledByStopNot == cancelled                                  \* mutant
CancelledByStop == cancelled \/ entry

StopLoop ==
    /\ entry' = FALSE
    /\ cancelled' = CancelledByStop
    /\ current' = 0
    /\ UNCHANGED <<made, firstPassed>>

\* The dispatcher takes an event; events that are no status are passed over.
Dispatch ==
    /\ dispatching
    /\ inbox # <<>>
    /\ inbox' = Tail(inbox)
    /\ \/ /\ Head(inbox) = "running"
          /\ entry' = TRUE
          /\ loop' = IF entry THEN loop ELSE "loading"
          /\ cancelled' = IF entry THEN cancelled ELSE closing
          /\ UNCHANGED stateVars
       \/ /\ Head(inbox) = "ended"
          /\ StopLoop
          /\ UNCHANGED loop
       \/ /\ Head(inbox) = "other"
          /\ UNCHANGED <<entry, loop, cancelled, stateVars>>
    /\ UNCHANGED <<dispatching, closing, sweeping, done, sweep, runVars, attemptVars, faultVars>>

\* Close cancels the dispatcher and the loop, and waits for what still runs.
Close ==
    /\ ~closing
    /\ closing' = TRUE
    /\ entry' = FALSE
    /\ cancelled' = TRUE
    /\ current' = IF entry THEN 0 ELSE current
    /\ UNCHANGED <<inbox, dispatching, loop, sweeping, done, made, firstPassed, sweep, runVars,
                   attemptVars, faultVars>>

DispatcherEnds ==
    /\ closing
    /\ dispatching
    /\ dispatching' = FALSE
    /\ UNCHANGED <<inbox, closing, loopVars, stateVars, sweep, runVars, attemptVars, faultVars>>

\* The loop returns, and its deferred stopLoop runs.
LoopReturns == loop' = "gone" /\ StopLoop

\* stateFor: the state that is there, or a new one.
StateForFresh == made + 1                                        \* mutant
StateFor == IF current = 0 THEN made + 1 ELSE current

TakeState ==
    /\ StateFor <= MaxStates
    /\ current' = StateFor
    /\ made' = IF StateFor > made THEN StateFor ELSE made
    /\ UNCHANGED firstPassed

\* A call of the store fails, and the loop returns for good.
GiveUp ==
    /\ faults < MaxFaults
    /\ faults' = faults + 1
    /\ gaveUp' = TRUE
    /\ LoopReturns

\* run reads the attempt, which fails when it is cancelled, takes the state it
\* keeps from then on and starts to tick.
Load ==
    /\ loop = "loading"
    /\ \/ /\ ~cancelled
          /\ loop' = "ticking"
          /\ TakeState
          /\ sweep' = [sweep EXCEPT !["loop"].state = StateFor]
          /\ UNCHANGED <<entry, cancelled, faultVars>>
       \/ cancelled /\ LoopReturns /\ UNCHANGED <<sweep, faultVars>>
       \/ GiveUp /\ UNCHANGED sweep
    /\ UNCHANGED <<dispatchVars, sweeping, done, runVars, attemptVars>>

\* The loop's context ended.
LoopCancelled ==
    /\ loop = "ticking"
    /\ cancelled
    /\ LoopReturns
    /\ UNCHANGED <<dispatchVars, sweeping, done, sweep, runVars, attemptVars, faultVars>>

\* A tick starts a sweep, unless one is under way.
MayTick == ~sweeping

Tick ==
    /\ loop = "ticking"
    /\ MayTick
    /\ sweep["loop"].pc = "idle"
    /\ sweeping' = TRUE
    /\ sweep' = [sweep EXCEPT !["loop"].pc = "waiting"]
    /\ UNCHANGED <<dispatchVars, entry, loop, cancelled, done, stateVars, runVars, attemptVars,
                   faultVars>>

-----------------------------------------------------------------------------
(* sweep.                                                                  *)

SweepFrame == UNCHANGED <<dispatchVars, entry, loop, cancelled, sweeping>>
Cancelled(w) == w = "loop" /\ cancelled
Sweeping(w) == sweep[w].pc = "checking"

\* The state's lock, which the sweep holds until its results are recorded.
Lock(w) ==
    /\ sweep[w].pc = "waiting"
    /\ \A v \in Sweepers : Sweeping(v) => sweep[v].state # sweep[w].state
    /\ sweep' = [sweep EXCEPT ![w].pc = "checking"]
    /\ SweepFrame
    /\ UNCHANGED <<done, stateVars, runVars, attemptVars, faultVars>>

\* One script: pass, or for a checkpoint that is not healthy a failure or, when it
\* times out or cannot be run, an error; only errors once the sandbox is gone.
Check(w, cp) ==
    /\ Sweeping(w)
    /\ sweep[w].got[cp] = "none"
    /\ \E outcome \in Outcome :
          /\ outcome = "pass" => cp \in healthy /\ ~Cancelled(w)
          /\ outcome = "fail" => sandbox /\ ~Cancelled(w) /\ cp \notin healthy
          /\ outcome = "error" => cp \notin healthy \/ Cancelled(w)
          /\ sweep' = [sweep EXCEPT ![w].got[cp] = outcome]
    /\ SweepFrame
    /\ UNCHANGED <<done, stateVars, runVars, attemptVars, faultVars>>

Checked(w) == Sweeping(w) /\ \A cp \in Checkpoints : sweep[w].got[cp] # "none"
AllPass(w) == \A cp \in Checkpoints : sweep[w].got[cp] = "pass"

Now == IF clock < MaxClock THEN clock + 1 ELSE clock

\* The time the state has for a checkpoint's first pass, after this sweep.
FirstPassed(w, cp) ==
    LET known == firstPassed[sweep[w].state][cp]
    IN IF known = 0 /\ sweep[w].got[cp] = "pass" THEN Now ELSE known

\* What Upsert leaves as first_passed_at: what was there, or the time of a pass.
FirstAfter(w, cp) ==
    IF first[cp] = 0 /\ sweep[w].got[cp] = "pass" THEN FirstPassed(w, cp) ELSE first[cp]

\* The results are recorded, but for those whose write fails, and the lock is
\* released.
Record(w) ==
    /\ Checked(w)
    /\ ~Cancelled(w)
    /\ clock' = Now
    /\ firstPassed' = [firstPassed EXCEPT ![sweep[w].state] =
                          [cp \in Checkpoints |-> FirstPassed(w, cp)]]
    /\ \E lost \in SUBSET Checkpoints :
          /\ lost # {} => faults < MaxFaults
          /\ faults' = IF lost = {} THEN faults ELSE faults + 1
          /\ last' = [cp \in Checkpoints |-> IF cp \in lost THEN last[cp] ELSE sweep[w].got[cp]]
          /\ first' = [cp \in Checkpoints |-> IF cp \in lost THEN first[cp] ELSE FirstAfter(w, cp)]
          /\ unrecorded' = lost
    /\ earliest' = [cp \in Checkpoints |->
                       IF earliest[cp] = 0 /\ sweep[w].got[cp] = "pass" THEN Now ELSE earliest[cp]]
    /\ sweep' = [sweep EXCEPT ![w].pc = IF w = "loop" THEN "sending" ELSE "judging"]
    /\ SweepFrame
    /\ UNCHANGED <<done, current, made, attemptVars, gaveUp>>

\* A sweep whose context ended records nothing and did not pass.
Discard(w) ==
    /\ Checked(w)
    /\ Cancelled(w)
    /\ sweep' = [sweep EXCEPT ![w].pc = "sending",
                              ![w].got = [cp \in Checkpoints |-> "error"]]
    /\ SweepFrame
    /\ UNCHANGED <<done, stateVars, runVars, attemptVars, faultVars>>

-----------------------------------------------------------------------------
(* The end of a sweep of the loop.                                         *)

\* The channel done has room for one result.
CanSendUnbuffered == loop = "ticking"                            \* mutant
CanSend == done = {}

Send ==
    /\ sweep["loop"].pc = "sending"
    /\ CanSend
    /\ done' = {AllPass("loop")}
    /\ sweep' = [sweep EXCEPT !["loop"] = [Idle EXCEPT !.state = sweep["loop"].state]]
    /\ SweepFrame
    /\ UNCHANGED <<stateVars, runVars, attemptVars, faultVars>>

\* Whether a sweep is under way once its result was taken.
SweepingAfterStill == TRUE                                       \* mutant
SweepingAfter == FALSE

\* The loop takes the result; all passed outside real mode, it finishes.
Receive ==
    /\ loop = "ticking"
    /\ done # {}
    /\ done' = {}
    /\ \/ cancelled /\ LoopReturns /\ UNCHANGED sweeping
       \/ /\ ~cancelled
          /\ sweeping' = SweepingAfter
          /\ loop' = IF TRUE \in done /\ mode # "real" THEN "finishing" ELSE loop
          /\ UNCHANGED <<entry, cancelled, stateVars>>
    /\ UNCHANGED <<dispatchVars, sweep, runVars, attemptVars, faultVars>>

\* Finish: the attempt passes unless it has ended, and end does the rest.
Finish ==
    /\ row' = IF row = "running" THEN "passed" ELSE row
    /\ ending' = IF row = "running" THEN "hook" ELSE ending
    /\ UNCHANGED <<mode, announced, sandbox, healthy, busVars>>

\* The loop waits for end and then returns.
AfterFinishTicks == "ticking"                                    \* mutant
AfterFinish == "ending"

LoopFinishes ==
    /\ loop = "finishing"
    /\ \/ /\ loop' = AfterFinish
          /\ Finish
          /\ UNCHANGED <<entry, cancelled, stateVars, faultVars>>
       \/ GiveUp /\ UNCHANGED attemptVars
    /\ UNCHANGED <<dispatchVars, sweeping, done, sweep, runVars>>

\* end returned, and so does the loop.
LoopFinished ==
    /\ loop = "ending"
    /\ ending \in {"destroy", "over"}
    /\ LoopReturns
    /\ UNCHANGED <<dispatchVars, sweeping, done, sweep, runVars, attemptVars, faultVars>>

-----------------------------------------------------------------------------
(* Submit, in real mode.                                                   *)

Submit ==
    /\ mode = "real"
    /\ ~closing
    /\ row = "running"
    /\ sweep["submit"].pc = "idle"
    /\ sweep' = [sweep EXCEPT !["submit"].pc = "asked"]
    /\ SweepFrame
    /\ UNCHANGED <<done, stateVars, runVars, attemptVars, faultVars>>

SweepNow ==
    /\ sweep["submit"].pc = "asked"
    /\ TakeState
    /\ sweep' = [sweep EXCEPT !["submit"].pc = "waiting", !["submit"].state = StateFor]
    /\ SweepFrame
    /\ UNCHANGED <<done, runVars, attemptVars, faultVars>>

\* The request is cancelled: the attempt cannot be read before or after the
\* sweep, or the scripts end and nothing is recorded.
SubmitCancelled ==
    /\ sweep["submit"].pc \in {"asked", "checking", "judging"}
    /\ sweep' = [sweep EXCEPT !["submit"] = Idle]
    /\ SweepFrame
    /\ UNCHANGED <<done, stateVars, runVars, attemptVars, faultVars>>

\* The sweep's own results decide.
Judge ==
    /\ sweep["submit"].pc = "judging"
    /\ sweep' = [sweep EXCEPT !["submit"] = Idle]
    /\ IF AllPass("submit") THEN Finish ELSE UNCHANGED attemptVars
    /\ SweepFrame
    /\ UNCHANGED <<done, stateVars, runVars, faultVars>>

-----------------------------------------------------------------------------
SweepSteps(w) == Lock(w) \/ (\E cp \in Checkpoints : Check(w, cp)) \/ Record(w) \/ Discard(w)

LoopSteps ==
    \/ Load \/ LoopCancelled \/ Send \/ Receive \/ LoopFinishes \/ LoopFinished

ServiceStep == Announce \/ AnnounceEnd \/ Destroy

Next ==
    \/ ServiceStep \/ Abandon \/ OtherEvent
    \/ \E cp \in Checkpoints : Repair(cp)
    \/ Dispatch \/ DispatcherEnds \/ Close
    \/ LoopSteps \/ Tick
    \/ \E w \in Sweepers : SweepSteps(w)
    \/ Submit \/ SweepNow \/ SubmitCancelled \/ Judge

Spec == Init /\ [][Next]_vars

\* The goroutines of the service and the Checker run, the ticker ticks and
\* scripts end, as they have a deadline.  Nobody has to repair, abandon, submit
\* or shut down.
Fairness ==
    /\ WF_vars(ServiceStep)
    /\ WF_vars(Dispatch \/ DispatcherEnds)
    /\ WF_vars(LoopSteps)
    /\ WF_vars(Tick)
    /\ \A w \in Sweepers : WF_vars(SweepSteps(w))

FairSpec == Spec /\ Fairness

-----------------------------------------------------------------------------
(* Properties                                                              *)

\* Every variable has its type, and the loop's sweep and its result are there
\* only while the loop counts a sweep as under way.
TypeOK ==
    /\ mode \in {"guided", "real"}
    /\ row \in {"running", "passed", "abandoned"}
    /\ ending \in {"no", "hook", "destroy", "over"}
    /\ healthy \subseteq Checkpoints
    /\ {announced, sandbox, dispatching, closing, entry, cancelled, sweeping} \subseteq BOOLEAN
    /\ inbox \in Seq({"running", "ended", "other"}) /\ Len(inbox) <= Buffer
    /\ loop \in {"none", "loading", "ticking", "finishing", "ending", "gone"}
    /\ done \in {{}, {TRUE}, {FALSE}}
    /\ current \in 0..made /\ made \in 0..MaxStates
    /\ firstPassed \in [1..MaxStates -> [Checkpoints -> 0..MaxClock]]
    /\ sweep \in [Sweepers -> [pc : {"idle", "asked", "waiting", "checking", "sending", "judging"},
                                state : 0..MaxStates,
                                got : [Checkpoints -> {"none"} \cup Outcome]]]
    /\ last \in [Checkpoints -> {"none"} \cup Outcome]
    /\ first \in [Checkpoints -> 0..MaxClock]
    /\ clock \in 0..MaxClock
    /\ faults \in Nat
    /\ {late, missed, gaveUp} \subseteq BOOLEAN
    /\ unrecorded \subseteq Checkpoints
    /\ earliest \in [Checkpoints -> 0..MaxClock]
    /\ sweep["loop"].pc # "idle" \/ done # {} => sweeping

\* What made an attempt pass stays on record: after the loop finished an
\* attempt no later sweep, which would find no sandbox, writes over the results.
\* Missing are only results that the sweep that passed could not write.
PassedKeepsResults ==
    row = "passed" /\ mode # "real" => \A cp \in Checkpoints \ unrecorded : last[cp] = "pass"

\* A first pass on record has the time of the first sweep that saw it, also when
\* that sweep could not write it: the loop and Submit remember it in one state
\* object, as long as the attempt and its loop run, and outside real mode to the
\* end.
FirstPassIsEarliest ==
    (row = "running" /\ ~closing /\ ~gaveUp) \/ mode # "real" =>
       \A cp \in Checkpoints : first[cp] \in {0, earliest[cp]}

\* While the loop is registered, it and Submit never sweep at the same time
\* (TestSweepNowWaitsForTheBackgroundSweep), unless the loop was started by an
\* announcement that came after the end.
SweepsSerialized ==
    entry /\ ~late => ~(Sweeping("loop") /\ Sweeping("submit"))

\* Outside real mode, an attempt whose checkpoints all pass for good ends, unless
\* the dispatcher missed that it runs, or the loop could not read or finish it.
RepairedPasses ==
    <>[](healthy = Checkpoints /\ ~closing /\ mode # "real")
       => <>(row # "running" \/ missed \/ gaveUp)

\* Once an attempt ended its loop does.
LoopEndsAlways == row # "running" ~> loop \in {"none", "gone"}

\* Once an attempt ended its loop does, unless the bus announced the end before
\* the attempt, or lost it.
LoopEnds == row # "running" ~> loop \in {"none", "gone"} \/ late \/ missed

\* Close returns: the dispatcher, the loop and its sweep end.
CloseReturns ==
    closing ~> ~dispatching /\ loop \in {"none", "gone"} /\ sweep["loop"].pc = "idle"
=============================================================================
