---------------------------- MODULE CheckerProofs ----------------------------
(***************************************************************************)
(* Checker for any checkpoints, any buffer, any number of states and of    *)
(* failing calls: what made an attempt pass stays on record, a first pass  *)
(* keeps the time it was first seen, and while the loop is registered it   *)
(* and Submit do not sweep together, unless promote's announcement came    *)
(* after the end: a loop that is started then does not have the state that *)
(* Submit's sweep locked.                                                  *)
(***************************************************************************)
EXTENDS Checker, EventBusProofs

-----------------------------------------------------------------------------
(* The inductive invariant.                                                *)

\* The attempt is announced once, so the loop is started once, and is there
\* when it is registered.
StartedOnce ==
    /\ Once(inbox, "running")
    /\ Queued(inbox, "running") => announced /\ loop = "none"
    /\ loop # "none" => announced
    /\ entry => loop \notin {"none", "gone"}

\* Where the sweeps can be, and that one that is under way has a state.
Stages ==
    /\ sweep["loop"].pc \notin {"asked", "judging"}
    /\ sweep["submit"].pc # "sending"
    /\ sweep["loop"].pc # "idle" => done = {}
    /\ loop \in {"none", "loading", "finishing", "ending"} => sweep["loop"].pc = "idle" /\ done = {}
    /\ \A w \in Sweepers :
          sweep[w].pc \in {"waiting", "checking", "sending", "judging"} => sweep[w].state # 0
    /\ loop \in {"ticking", "finishing", "ending"} => sweep["loop"].state # 0

\* Every checkpoint's last result is a pass, if it could be written.
LastPassed == \A cp \in Checkpoints \ unrecorded : last[cp] = "pass"

\* Outside real mode only the loop sweeps; from the sweep that passed on, the
\* results on record are its results, and nothing sweeps after the pass.
PassIsLast ==
    /\ mode = "real" => loop # "finishing"
    /\ mode # "real" =>
          /\ sweep["submit"].pc = "idle"
          /\ TRUE \in done => LastPassed
          /\ sweep["loop"].pc = "sending" /\ AllPass("loop") => LastPassed
          /\ loop = "finishing" => LastPassed
          /\ row = "passed" => loop \in {"ending", "gone"} /\ sweep["loop"].pc = "idle" /\ LastPassed

\* Two sweeps at once have two states: the lock is the state's.
Locked ==
    Sweeping("loop") /\ Sweeping("submit") => sweep["loop"].state # sweep["submit"].state

\* The end is announced after it is written, and unless it overtakes the
\* announcement of the attempt, behind that.
EndsFollow ==
    /\ row = "running" <=> ending = "no"
    /\ Queued(inbox, "ended") => ending \in {"destroy", "over"}
    /\ late => announced
    /\ ~late => NoneAfter(inbox, "running", "ended")

\* The loop is registered, or may still be, before the end was announced.
MayRegister ==
    \/ entry
    \/ Queued(inbox, "running")
    \/ ~announced /\ ending \notin {"destroy", "over"}

\* Then the state in c.states is the one the loop and Submit's sweep took.
SameState ==
    ~late =>
       /\ MayRegister /\ sweep["submit"].pc \in {"waiting", "checking", "judging"} =>
             sweep["submit"].state = current
       /\ entry /\ loop \in {"ticking", "finishing", "ending"} => sweep["loop"].state = current

\* A state that was not made yet remembers nothing, and no sweep has it.
Fresh ==
    /\ \A s \in 1..MaxStates, cp \in Checkpoints : s > made => firstPassed[s][cp] = 0
    /\ \A w \in Sweepers : sweep[w].state <= made
    /\ loop \in {"none", "loading"} => sweep["loop"].state = 0

\* The state in c.states is not dropped.
Remembering == row = "running" /\ ~closing /\ ~gaveUp

\* State s knows when each checkpoint passed first.
Same(s) == \A cp \in Checkpoints : earliest[cp] = IF s = 0 THEN 0 ELSE firstPassed[s][cp]

\* While nothing drops it there is one state, which every sweep has and which
\* remembers every first pass; outside real mode the loop's does to the end.
Remembered ==
    /\ Remembering =>
          /\ ~cancelled
          /\ current = 0 => made = 0
          /\ \A w \in Sweepers : sweep[w].state \in {0, current}
          /\ Same(current)
    /\ mode # "real" =>
          /\ sweep["loop"].state = 0 => made = 0
          /\ Same(sweep["loop"].state)

\* The inductive invariant.
CheckerInv ==
    /\ TypeOK
    /\ StartedOnce
    /\ Stages
    /\ PassIsLast
    /\ Locked
    /\ EndsFollow
    /\ SameState
    /\ Fresh
    /\ Remembered
    /\ FirstPassIsEarliest

-----------------------------------------------------------------------------
(* What a step makes of the inbox.                                         *)

Events == {"running", "ended", "other"}

\* Publishing in this module's terms ...
LEMMA PublishQueue ==
    ASSUME inbox \in Seq(Events), Len(inbox) <= Buffer, NEW e \in Events,
           inbox' = Published(inbox, e, Buffer)
    PROVE  /\ inbox' \in Seq(Events) /\ Len(inbox') <= Buffer
           /\ \A m \in Events : Queued(inbox', m) => Queued(inbox, m) \/ m = e
           /\ \A m \in Events : Once(inbox, m) /\ (e # m \/ ~Queued(inbox, m)) => Once(inbox', m)
           /\ \A m, n \in Events :
                 NoneAfter(inbox, m, n) /\ m # n /\ (e # m \/ ~Queued(inbox, n)) =>
                     NoneAfter(inbox', m, n)
<1>1. Buffer \in Nat
  BY CheckerAssumption
<1> QED BY <1>1, PublishedChannel

\* ... and what the dispatcher takes.
LEMMA DispatchQueue ==
    ASSUME inbox \in Seq(Events), inbox # <<>>, Len(inbox) <= Buffer, inbox' = Tail(inbox)
    PROVE  /\ inbox' \in Seq(Events) /\ Len(inbox') <= Buffer
           /\ Queued(inbox, Head(inbox))
           /\ \A m \in Events : Queued(inbox', m) => Queued(inbox, m)
           /\ \A m \in Events :
                 Once(inbox, m) => Once(inbox', m) /\ (Head(inbox) = m => ~Queued(inbox', m))
           /\ \A m, n \in Events :
                 NoneAfter(inbox, m, n) =>
                     NoneAfter(inbox', m, n) /\ (Head(inbox) = n => ~Queued(inbox', m))
<1>1. Buffer \in Nat /\ Len(inbox) \in Nat
  BY CheckerAssumption
<1>2. Len(inbox') = Len(inbox) - 1 => Len(inbox') <= Buffer
  BY <1>1
<1> QED BY <1>2, ReceivedChannel

-----------------------------------------------------------------------------
(* Types.                                                                  *)

\* What a sweep is.
SweepSet == [pc : {"idle", "asked", "waiting", "checking", "sending", "judging"},
             state : 0..MaxStates,
             got : [Checkpoints -> {"none"} \cup Outcome]]

\* The parts of TypeOK: the flags ...
Flags ==
    /\ announced \in BOOLEAN /\ sandbox \in BOOLEAN /\ dispatching \in BOOLEAN /\ closing \in BOOLEAN
    /\ entry \in BOOLEAN /\ cancelled \in BOOLEAN /\ sweeping \in BOOLEAN
    /\ late \in BOOLEAN /\ missed \in BOOLEAN /\ gaveUp \in BOOLEAN

\* ... where everything is ...
Control ==
    /\ mode \in {"guided", "real"}
    /\ row \in {"running", "passed", "abandoned"}
    /\ ending \in {"no", "hook", "destroy", "over"}
    /\ healthy \subseteq Checkpoints
    /\ inbox \in Seq(Events) /\ Len(inbox) <= Buffer
    /\ loop \in {"none", "loading", "ticking", "finishing", "ending", "gone"}
    /\ done \in {{}, {TRUE}, {FALSE}}
    /\ sweep["loop"].pc # "idle" \/ done # {} => sweeping

\* ... the states and the results.
Results ==
    /\ current \in 0..made /\ made \in 0..MaxStates
    /\ firstPassed \in [1..MaxStates -> [Checkpoints -> 0..MaxClock]]
    /\ last \in [Checkpoints -> {"none"} \cup Outcome]
    /\ first \in [Checkpoints -> 0..MaxClock]
    /\ clock \in 0..MaxClock
    /\ faults \in Nat
    /\ unrecorded \subseteq Checkpoints
    /\ earliest \in [Checkpoints -> 0..MaxClock]

\* They and the type of the sweeps are TypeOK.
LEMMA TypeParts == TypeOK <=> Flags /\ Control /\ Results /\ sweep \in [Sweepers -> SweepSet]
BY ZenonT(40) DEF TypeOK, Flags, Control, Results, SweepSet, Events

\* stateFor gives a state, and the one that is there if there is one.
LEMMA TakenState ==
    ASSUME Results, StateFor <= MaxStates
    PROVE  /\ StateFor \in 1..MaxStates /\ (current # 0 => StateFor = current)
           /\ StateFor \in 0..(IF StateFor > made THEN StateFor ELSE made)
           /\ (IF StateFor > made THEN StateFor ELSE made) \in 0..MaxStates
BY CheckerAssumption DEF Results, StateFor

\* The same after a step.
LEMMA TypePartsNext == TypeOK' <=> (Flags /\ Control /\ Results /\ sweep \in [Sweepers -> SweepSet])'
BY ZenonT(40) DEF TypeOK, Flags, Control, Results, SweepSet, Events


-----------------------------------------------------------------------------
(* Every step keeps it.                                                    *)

\* Every step keeps the flags' types.
LEMMA FlagsStep ==
    ASSUME Flags, Control, Results, sweep \in [Sweepers -> SweepSet], Next
    PROVE  Flags'
<1> USE CheckerAssumption DEF vars, attemptVars, checkerVars, dispatchVars, loopVars, stateVars, runVars,
        faultVars, busVars, Events, Sweepers, Sweeping, Flags
<1>1. CASE Announce
  BY <1>1, PublishQueue DEF Announce, PublishStatus, Publish
<1>2. CASE AnnounceEnd
  BY <1>2, PublishQueue DEF AnnounceEnd, PublishStatus, Publish
<1>3. CASE Destroy
  BY <1>3 DEF Destroy
<1>4. CASE Abandon
  BY <1>4 DEF Abandon
<1>5. CASE OtherEvent
  BY <1>5, PublishQueue DEF OtherEvent, Publish
<1>6. ASSUME NEW cp \in Checkpoints, Repair(cp) PROVE Flags'
  BY <1>6 DEF Repair
<1>7. CASE Dispatch
  BY <1>7, DispatchQueue DEF Dispatch, StopLoop, CancelledByStop
<1>8. CASE DispatcherEnds
  BY <1>8 DEF DispatcherEnds
<1>9. CASE Close
  BY <1>9 DEF Close
<1>10. CASE Load
  BY <1>10, TakenState DEF Load, GiveUp, TakeState, LoopReturns, StopLoop, CancelledByStop
<1>11. CASE LoopCancelled
  BY <1>11 DEF LoopCancelled, LoopReturns, StopLoop, CancelledByStop
<1>12. CASE Send
  BY <1>12 DEF Send, CanSend, SweepFrame, Idle
<1>13. CASE Receive
  BY <1>13 DEF Receive, SweepingAfter, LoopReturns, StopLoop, CancelledByStop
<1>14. CASE LoopFinishes
  BY <1>14 DEF LoopFinishes, GiveUp, LoopReturns, StopLoop, CancelledByStop, AfterFinish, Finish
<1>15. CASE LoopFinished
  BY <1>15 DEF LoopFinished, LoopReturns, StopLoop, CancelledByStop
<1>16. CASE Tick
  BY <1>16 DEF Tick, MayTick
<1>17. ASSUME NEW w \in Sweepers, Lock(w) PROVE Flags'
  BY <1>17 DEF Lock, SweepFrame
<1>18. ASSUME NEW w \in Sweepers, NEW cp \in Checkpoints, Check(w, cp) PROVE Flags'
  BY <1>18 DEF Check, SweepFrame, Cancelled
<1>19. ASSUME NEW w \in Sweepers, Record(w) PROVE Flags'
  BY <1>19 DEF Record, Checked, Cancelled, SweepFrame
<1>20. ASSUME NEW w \in Sweepers, Discard(w) PROVE Flags'
  BY <1>20 DEF Discard, Checked, Cancelled, SweepFrame
<1>21. CASE Submit
  BY <1>21 DEF Submit, SweepFrame
<1>22. CASE SweepNow
  BY <1>22, TakenState DEF SweepNow, TakeState, SweepFrame
<1>23. CASE SubmitCancelled
  BY <1>23 DEF SubmitCancelled, SweepFrame, Idle
<1>24. CASE Judge
  BY <1>24 DEF Judge, Finish, SweepFrame, Idle
<1> QED BY <1>1, <1>2, <1>3, <1>4, <1>5, <1>6, <1>7, <1>8, <1>9, <1>10, <1>11, <1>12,
           <1>13, <1>14, <1>15, <1>16, <1>17, <1>18, <1>19, <1>20, <1>21, <1>22, <1>23, <1>24
        DEF Next, ServiceStep, LoopSteps, SweepSteps

\* Every step keeps Control.
LEMMA ControlStep ==
    ASSUME Flags, Control, Results, sweep \in [Sweepers -> SweepSet], Stages, Next
    PROVE  Control'
<1> USE CheckerAssumption DEF vars, attemptVars, checkerVars, dispatchVars, loopVars, stateVars, runVars,
        faultVars, busVars, Events, Sweepers, Sweeping, Control, Stages, SweepSet
<1>1. CASE Announce
  BY <1>1, PublishQueue DEF Announce, PublishStatus, Publish
<1>2. CASE AnnounceEnd
  BY <1>2, PublishQueue DEF AnnounceEnd, PublishStatus, Publish
<1>3. CASE Destroy
  BY <1>3 DEF Destroy
<1>4. CASE Abandon
  BY <1>4 DEF Abandon
<1>5. CASE OtherEvent
  BY <1>5, PublishQueue DEF OtherEvent, Publish
<1>6. ASSUME NEW cp \in Checkpoints, Repair(cp) PROVE Control'
  BY <1>6 DEF Repair
<1>7. CASE Dispatch
  BY <1>7, DispatchQueue DEF Dispatch, StopLoop, CancelledByStop
<1>8. CASE DispatcherEnds
  BY <1>8 DEF DispatcherEnds
<1>9. CASE Close
  BY <1>9 DEF Close
<1>10. CASE Load
  BY <1>10, TakenState DEF Load, GiveUp, TakeState, LoopReturns, StopLoop, CancelledByStop
<1>11. CASE LoopCancelled
  BY <1>11 DEF LoopCancelled, LoopReturns, StopLoop, CancelledByStop
<1>12. CASE Send
  <2>1. done' \in {{TRUE}, {FALSE}}
    <3>1. AllPass("loop") \in BOOLEAN
      BY DEF AllPass
    <3> QED BY <1>12, <3>1 DEF Send
  <2>2. sweeping
    BY <1>12 DEF Send
  <2> QED BY <1>12, <2>1, <2>2 DEF Send, SweepFrame
<1>13. CASE Receive
  BY <1>13 DEF Receive, SweepingAfter, LoopReturns, StopLoop, CancelledByStop
<1>14. CASE LoopFinishes
  BY <1>14 DEF LoopFinishes, GiveUp, LoopReturns, StopLoop, CancelledByStop, AfterFinish, Finish
<1>15. CASE LoopFinished
  BY <1>15 DEF LoopFinished, LoopReturns, StopLoop, CancelledByStop
<1>16. CASE Tick
  BY <1>16 DEF Tick, MayTick
<1>17. ASSUME NEW w \in Sweepers, Lock(w) PROVE Control'
  BY <1>17 DEF Lock, SweepFrame
<1>18. ASSUME NEW w \in Sweepers, NEW cp \in Checkpoints, Check(w, cp) PROVE Control'
  BY <1>18 DEF Check, SweepFrame, Cancelled
<1>19. ASSUME NEW w \in Sweepers, Record(w) PROVE Control'
  BY <1>19 DEF Record, Checked, Cancelled, SweepFrame
<1>20. ASSUME NEW w \in Sweepers, Discard(w) PROVE Control'
  BY <1>20 DEF Discard, Checked, Cancelled, SweepFrame
<1>21. CASE Submit
  BY <1>21 DEF Submit, SweepFrame
<1>22. CASE SweepNow
  BY <1>22, TakenState DEF SweepNow, TakeState, SweepFrame
<1>23. CASE SubmitCancelled
  BY <1>23 DEF SubmitCancelled, SweepFrame, Idle
<1>24. CASE Judge
  BY <1>24 DEF Judge, Finish, SweepFrame, Idle
<1> QED BY <1>1, <1>2, <1>3, <1>4, <1>5, <1>6, <1>7, <1>8, <1>9, <1>10, <1>11, <1>12,
           <1>13, <1>14, <1>15, <1>16, <1>17, <1>18, <1>19, <1>20, <1>21, <1>22, <1>23, <1>24
        DEF Next, ServiceStep, LoopSteps, SweepSteps

\* Every step keeps Results.
LEMMA ResultsStep ==
    ASSUME Flags, Control, Results, sweep \in [Sweepers -> SweepSet], Stages, Next
    PROVE  Results'
<1> USE CheckerAssumption DEF vars, attemptVars, checkerVars, dispatchVars, loopVars, stateVars, runVars,
        faultVars, busVars, Events, Sweepers, Sweeping, Results, Stages, SweepSet, Outcome
<1>1. CASE Announce
  BY <1>1, PublishQueue DEF Announce, PublishStatus, Publish
<1>2. CASE AnnounceEnd
  BY <1>2, PublishQueue DEF AnnounceEnd, PublishStatus, Publish
<1>3. CASE Destroy
  BY <1>3 DEF Destroy
<1>4. CASE Abandon
  BY <1>4 DEF Abandon
<1>5. CASE OtherEvent
  BY <1>5, PublishQueue DEF OtherEvent, Publish
<1>6. ASSUME NEW cp \in Checkpoints, Repair(cp) PROVE Results'
  BY <1>6 DEF Repair
<1>7. CASE Dispatch
  BY SMTT(30), <1>7, DispatchQueue DEF Dispatch, StopLoop, CancelledByStop
<1>8. CASE DispatcherEnds
  BY <1>8 DEF DispatcherEnds
<1>9. CASE Close
  BY <1>9 DEF Close
<1>10. CASE Load
  <2>3. faults' \in Nat
    <3>1. CASE UNCHANGED faultVars
      BY <3>1
    <3>2. CASE GiveUp
      BY <3>2 DEF GiveUp
    <3> QED BY <1>10, <3>1, <3>2 DEF Load
  <2>1. CASE ~cancelled /\ TakeState /\ loop' = "ticking"
            /\ sweep' = [sweep EXCEPT !["loop"].state = StateFor]
            /\ UNCHANGED <<entry, cancelled, faultVars>>
    <3>1. current' \in 0..made' /\ made' \in 0..MaxStates /\ UNCHANGED firstPassed
      BY <2>1, TakenState DEF TakeState
    <3> QED BY <1>10, <2>3, <3>1 DEF Load
  <2>2. CASE LoopReturns /\ UNCHANGED sweep
    <3>1. current' = 0 /\ UNCHANGED <<made, firstPassed>>
      BY <2>2 DEF LoopReturns, StopLoop
    <3> QED BY <1>10, <2>3, <3>1 DEF Load
  <2> QED BY <1>10, <2>1, <2>2 DEF Load, GiveUp
<1>11. CASE LoopCancelled
  BY <1>11 DEF LoopCancelled, LoopReturns, StopLoop, CancelledByStop
<1>12. CASE Send
  BY <1>12 DEF Send, CanSend, SweepFrame, Idle
<1>13. CASE Receive
  <2>1. CASE cancelled /\ LoopReturns
    BY <1>13, <2>1 DEF Receive, LoopReturns, StopLoop
  <2>2. CASE UNCHANGED stateVars
    BY <1>13, <2>2 DEF Receive
  <2> QED BY <1>13, <2>1, <2>2 DEF Receive
<1>14. CASE LoopFinishes
  <2>3. faults' \in Nat
    <3>1. CASE UNCHANGED faultVars
      BY <3>1
    <3>2. CASE GiveUp
      BY <3>2 DEF GiveUp
    <3> QED BY <1>14, <3>1, <3>2 DEF LoopFinishes
  <2>4. current' \in {0, current} /\ UNCHANGED <<made, firstPassed>>
    BY <1>14 DEF LoopFinishes, GiveUp, LoopReturns, StopLoop
  <2> QED BY <1>14, <2>3, <2>4 DEF LoopFinishes
<1>15. CASE LoopFinished
  BY <1>15 DEF LoopFinished, LoopReturns, StopLoop, CancelledByStop
<1>16. CASE Tick
  BY <1>16 DEF Tick, MayTick
<1>17. ASSUME NEW w \in Sweepers, Lock(w) PROVE Results'
  BY <1>17 DEF Lock, SweepFrame
<1>18. ASSUME NEW w \in Sweepers, NEW cp \in Checkpoints, Check(w, cp) PROVE Results'
  BY <1>18 DEF Check, SweepFrame, Cancelled
<1>19. ASSUME NEW w \in Sweepers, Record(w) PROVE Results'
  <2>1. Now \in 0..MaxClock
    BY DEF Now
  <2>2. sweep[w].state \in 1..MaxStates /\ sweep[w].got \in [Checkpoints -> {"none", "pass", "fail", "error"}]
    BY <1>19 DEF Record, Checked
  <2>3. \A cp \in Checkpoints : FirstPassed(w, cp) \in 0..MaxClock
    BY <2>1, <2>2 DEF FirstPassed
  <2>4. \A cp \in Checkpoints : FirstAfter(w, cp) \in 0..MaxClock
    BY <2>3 DEF FirstAfter
  <2>0. PICK lost \in SUBSET Checkpoints :
           /\ faults' = IF lost = {} THEN faults ELSE faults + 1
           /\ last' = [cp \in Checkpoints |-> IF cp \in lost THEN last[cp] ELSE sweep[w].got[cp]]
           /\ first' = [cp \in Checkpoints |-> IF cp \in lost THEN first[cp] ELSE FirstAfter(w, cp)]
           /\ unrecorded' = lost
    BY <1>19 DEF Record
  <2>5. faults' \in Nat /\ unrecorded' \subseteq Checkpoints
    BY <2>0
  <2>6. last' \in [Checkpoints -> {"none"} \cup Outcome]
    BY <2>2, <2>0
  <2>7. first' \in [Checkpoints -> 0..MaxClock]
    BY <2>4, <2>0
  <2>8. earliest' \in [Checkpoints -> 0..MaxClock]
    BY <1>19, <2>1 DEF Record
  <2>10. firstPassed' \in [1..MaxStates -> [Checkpoints -> 0..MaxClock]]
    BY <1>19, <2>2, <2>3 DEF Record
  <2>11. UNCHANGED <<current, made>> /\ clock' \in 0..MaxClock
    BY <1>19, <2>1 DEF Record
  <2> QED BY <2>5, <2>6, <2>7, <2>8, <2>10, <2>11
<1>20. ASSUME NEW w \in Sweepers, Discard(w) PROVE Results'
  BY <1>20 DEF Discard, Checked, Cancelled, SweepFrame
<1>21. CASE Submit
  BY <1>21 DEF Submit, SweepFrame
<1>22. CASE SweepNow
  BY <1>22, TakenState DEF SweepNow, TakeState, SweepFrame
<1>23. CASE SubmitCancelled
  BY <1>23 DEF SubmitCancelled, SweepFrame, Idle
<1>24. CASE Judge
  BY <1>24 DEF Judge, Finish, SweepFrame, Idle
<1> QED BY <1>1, <1>2, <1>3, <1>4, <1>5, <1>6, <1>7, <1>8, <1>9, <1>10, <1>11, <1>12,
           <1>13, <1>14, <1>15, <1>16, <1>17, <1>18, <1>19, <1>20, <1>21, <1>22, <1>23, <1>24
        DEF Next, ServiceStep, LoopSteps, SweepSteps

\* Every step keeps the sweeps' type.
LEMMA SweepStep ==
    ASSUME Flags, Control, Results, sweep \in [Sweepers -> SweepSet], Next
    PROVE  (sweep \in [Sweepers -> SweepSet])'
<1> USE CheckerAssumption DEF vars, attemptVars, checkerVars, dispatchVars, loopVars, stateVars, runVars,
        faultVars, busVars, Events, Sweepers, Sweeping, Control, SweepSet, Outcome
<1>1. CASE Announce
  BY <1>1, PublishQueue DEF Announce, PublishStatus, Publish
<1>2. CASE AnnounceEnd
  BY <1>2, PublishQueue DEF AnnounceEnd, PublishStatus, Publish
<1>3. CASE Destroy
  BY <1>3 DEF Destroy
<1>4. CASE Abandon
  BY <1>4 DEF Abandon
<1>5. CASE OtherEvent
  BY <1>5, PublishQueue DEF OtherEvent, Publish
<1>6. ASSUME NEW cp \in Checkpoints, Repair(cp) PROVE (sweep \in [Sweepers -> SweepSet])'
  BY <1>6 DEF Repair
<1>7. CASE Dispatch
  BY <1>7, DispatchQueue DEF Dispatch, StopLoop, CancelledByStop
<1>8. CASE DispatcherEnds
  BY <1>8 DEF DispatcherEnds
<1>9. CASE Close
  BY <1>9 DEF Close
<1>10. CASE Load
  BY <1>10, TakenState DEF Load, GiveUp, TakeState, LoopReturns, StopLoop, CancelledByStop
<1>11. CASE LoopCancelled
  BY <1>11 DEF LoopCancelled, LoopReturns, StopLoop, CancelledByStop
<1>12. CASE Send
  BY <1>12 DEF Send, CanSend, SweepFrame, Idle
<1>13. CASE Receive
  BY <1>13 DEF Receive, SweepingAfter, LoopReturns, StopLoop, CancelledByStop
<1>14. CASE LoopFinishes
  BY <1>14 DEF LoopFinishes, GiveUp, LoopReturns, StopLoop, CancelledByStop, AfterFinish, Finish
<1>15. CASE LoopFinished
  BY <1>15 DEF LoopFinished, LoopReturns, StopLoop, CancelledByStop
<1>16. CASE Tick
  BY <1>16 DEF Tick, MayTick
<1>17. ASSUME NEW w \in Sweepers, Lock(w) PROVE (sweep \in [Sweepers -> SweepSet])'
  BY <1>17 DEF Lock, SweepFrame
<1>18. ASSUME NEW w \in Sweepers, NEW cp \in Checkpoints, Check(w, cp) PROVE (sweep \in [Sweepers -> SweepSet])'
  <2>1. PICK outcome \in Outcome : sweep' = [sweep EXCEPT ![w].got[cp] = outcome]
    BY <1>18 DEF Check
  <2> QED BY <2>1
<1>19. ASSUME NEW w \in Sweepers, Record(w) PROVE (sweep \in [Sweepers -> SweepSet])'
  BY <1>19 DEF Record, Checked, Cancelled, SweepFrame
<1>20. ASSUME NEW w \in Sweepers, Discard(w) PROVE (sweep \in [Sweepers -> SweepSet])'
  BY ZenonT(40), <1>20 DEF Discard, Checked, Cancelled, SweepFrame
<1>21. CASE Submit
  BY <1>21 DEF Submit, SweepFrame
<1>22. CASE SweepNow
  <2>1. StateFor \in 0..MaxStates
    BY <1>22, TakenState DEF SweepNow, TakeState
  <2> QED BY <1>22, <2>1 DEF SweepNow
<1>23. CASE SubmitCancelled
  BY <1>23 DEF SubmitCancelled, SweepFrame, Idle
<1>24. CASE Judge
  BY <1>24 DEF Judge, Finish, SweepFrame, Idle
<1> QED BY <1>1, <1>2, <1>3, <1>4, <1>5, <1>6, <1>7, <1>8, <1>9, <1>10, <1>11, <1>12,
           <1>13, <1>14, <1>15, <1>16, <1>17, <1>18, <1>19, <1>20, <1>21, <1>22, <1>23, <1>24
        DEF Next, ServiceStep, LoopSteps, SweepSteps

\* Every step keeps StartedOnce.
LEMMA StartedOnceStep ==
    ASSUME Flags, Control, Results, sweep \in [Sweepers -> SweepSet], StartedOnce, Next
    PROVE  StartedOnce'
<1> USE CheckerAssumption DEF vars, attemptVars, checkerVars, dispatchVars, loopVars, stateVars, runVars,
        faultVars, busVars, Events, Sweepers, Sweeping, Flags, Control, StartedOnce
<1>1. CASE Announce
  BY <1>1, PublishQueue DEF Announce, PublishStatus, Publish
<1>2. CASE AnnounceEnd
  BY <1>2, PublishQueue DEF AnnounceEnd, PublishStatus, Publish
<1>3. CASE Destroy
  BY <1>3 DEF Destroy
<1>4. CASE Abandon
  BY <1>4 DEF Abandon
<1>5. CASE OtherEvent
  BY <1>5, PublishQueue DEF OtherEvent, Publish
<1>6. ASSUME NEW cp \in Checkpoints, Repair(cp) PROVE StartedOnce'
  BY <1>6 DEF Repair
<1>7. CASE Dispatch
  BY <1>7, DispatchQueue DEF Dispatch, StopLoop, CancelledByStop
<1>8. CASE DispatcherEnds
  BY <1>8 DEF DispatcherEnds
<1>9. CASE Close
  BY <1>9 DEF Close
<1>10. CASE Load
  BY <1>10, TakenState DEF Load, GiveUp, TakeState, LoopReturns, StopLoop, CancelledByStop
<1>11. CASE LoopCancelled
  BY <1>11 DEF LoopCancelled, LoopReturns, StopLoop, CancelledByStop
<1>12. CASE Send
  BY <1>12 DEF Send, CanSend, SweepFrame, Idle
<1>13. CASE Receive
  BY <1>13 DEF Receive, SweepingAfter, LoopReturns, StopLoop, CancelledByStop
<1>14. CASE LoopFinishes
  BY <1>14 DEF LoopFinishes, GiveUp, LoopReturns, StopLoop, CancelledByStop, AfterFinish, Finish
<1>15. CASE LoopFinished
  BY <1>15 DEF LoopFinished, LoopReturns, StopLoop, CancelledByStop
<1>16. CASE Tick
  BY <1>16 DEF Tick, MayTick
<1>17. ASSUME NEW w \in Sweepers, Lock(w) PROVE StartedOnce'
  BY <1>17 DEF Lock, SweepFrame
<1>18. ASSUME NEW w \in Sweepers, NEW cp \in Checkpoints, Check(w, cp) PROVE StartedOnce'
  BY <1>18 DEF Check, SweepFrame, Cancelled
<1>19. ASSUME NEW w \in Sweepers, Record(w) PROVE StartedOnce'
  BY <1>19 DEF Record, Checked, Cancelled, SweepFrame
<1>20. ASSUME NEW w \in Sweepers, Discard(w) PROVE StartedOnce'
  BY <1>20 DEF Discard, Checked, Cancelled, SweepFrame
<1>21. CASE Submit
  BY <1>21 DEF Submit, SweepFrame
<1>22. CASE SweepNow
  BY <1>22, TakenState DEF SweepNow, TakeState, SweepFrame
<1>23. CASE SubmitCancelled
  BY <1>23 DEF SubmitCancelled, SweepFrame, Idle
<1>24. CASE Judge
  BY <1>24 DEF Judge, Finish, SweepFrame, Idle
<1> QED BY <1>1, <1>2, <1>3, <1>4, <1>5, <1>6, <1>7, <1>8, <1>9, <1>10, <1>11, <1>12,
           <1>13, <1>14, <1>15, <1>16, <1>17, <1>18, <1>19, <1>20, <1>21, <1>22, <1>23, <1>24
        DEF Next, ServiceStep, LoopSteps, SweepSteps

\* Every step keeps Stages.
LEMMA StagesStep ==
    ASSUME Flags, Control, Results, sweep \in [Sweepers -> SweepSet], StartedOnce, Stages, Next
    PROVE  Stages'
<1> USE CheckerAssumption DEF vars, attemptVars, checkerVars, dispatchVars, loopVars, stateVars, runVars,
        faultVars, busVars, Events, Sweepers, Sweeping, Control, Results, SweepSet, StartedOnce, Stages
<1>1. CASE Announce
  BY <1>1, PublishQueue DEF Announce, PublishStatus, Publish
<1>2. CASE AnnounceEnd
  BY <1>2, PublishQueue DEF AnnounceEnd, PublishStatus, Publish
<1>3. CASE Destroy
  BY <1>3 DEF Destroy
<1>4. CASE Abandon
  BY <1>4 DEF Abandon
<1>5. CASE OtherEvent
  BY <1>5, PublishQueue DEF OtherEvent, Publish
<1>6. ASSUME NEW cp \in Checkpoints, Repair(cp) PROVE Stages'
  BY <1>6 DEF Repair
<1>7. CASE Dispatch
  BY <1>7, DispatchQueue DEF Dispatch, StopLoop, CancelledByStop
<1>8. CASE DispatcherEnds
  BY <1>8 DEF DispatcherEnds
<1>9. CASE Close
  BY <1>9 DEF Close
<1>10. CASE Load
  <2>1. CASE ~cancelled /\ TakeState /\ loop' = "ticking"
            /\ sweep' = [sweep EXCEPT !["loop"].state = StateFor]
            /\ UNCHANGED <<entry, cancelled, faultVars>>
    <3>1. StateFor # 0 /\ StateFor \in 0..MaxStates
      BY SMTT(30), <2>1, TakenState DEF TakeState
    <3> QED BY <1>10, <2>1, <3>1 DEF Load
  <2>2. CASE LoopReturns /\ UNCHANGED sweep
    BY <1>10, <2>2 DEF Load, LoopReturns, StopLoop
  <2> QED BY <1>10, <2>1, <2>2 DEF Load, GiveUp
<1>11. CASE LoopCancelled
  BY <1>11 DEF LoopCancelled, LoopReturns, StopLoop, CancelledByStop
<1>12. CASE Send
  BY <1>12 DEF Send, CanSend, SweepFrame, Idle
<1>13. CASE Receive
  BY <1>13 DEF Receive, SweepingAfter, LoopReturns, StopLoop, CancelledByStop
<1>14. CASE LoopFinishes
  BY <1>14 DEF LoopFinishes, GiveUp, LoopReturns, StopLoop, CancelledByStop, AfterFinish, Finish
<1>15. CASE LoopFinished
  BY <1>15 DEF LoopFinished, LoopReturns, StopLoop, CancelledByStop
<1>16. CASE Tick
  BY <1>16 DEF Tick, MayTick
<1>17. ASSUME NEW w \in Sweepers, Lock(w) PROVE Stages'
  BY <1>17 DEF Lock, SweepFrame
<1>18. ASSUME NEW w \in Sweepers, NEW cp \in Checkpoints, Check(w, cp) PROVE Stages'
  BY <1>18 DEF Check, SweepFrame, Cancelled
<1>19. ASSUME NEW w \in Sweepers, Record(w) PROVE Stages'
  BY SMTT(30), <1>19 DEF Record, Checked, Cancelled, SweepFrame
<1>20. ASSUME NEW w \in Sweepers, Discard(w) PROVE Stages'
  BY <1>20 DEF Discard, Checked, Cancelled, SweepFrame
<1>21. CASE Submit
  BY <1>21 DEF Submit, SweepFrame
<1>22. CASE SweepNow
  <2>1. StateFor # 0
    BY SMTT(30), <1>22, TakenState DEF SweepNow, TakeState
  <2> QED BY <1>22, <2>1 DEF SweepNow, SweepFrame
<1>23. CASE SubmitCancelled
  BY <1>23 DEF SubmitCancelled, SweepFrame, Idle
<1>24. CASE Judge
  BY <1>24 DEF Judge, Finish, SweepFrame, Idle
<1> QED BY <1>1, <1>2, <1>3, <1>4, <1>5, <1>6, <1>7, <1>8, <1>9, <1>10, <1>11, <1>12,
           <1>13, <1>14, <1>15, <1>16, <1>17, <1>18, <1>19, <1>20, <1>21, <1>22, <1>23, <1>24
        DEF Next, ServiceStep, LoopSteps, SweepSteps

\* Every step keeps PassIsLast.
LEMMA PassIsLastStep ==
    ASSUME Flags, Control, Results, sweep \in [Sweepers -> SweepSet], StartedOnce, Stages, PassIsLast, Next
    PROVE  PassIsLast'
<1> USE CheckerAssumption DEF vars, attemptVars, checkerVars, dispatchVars, loopVars, stateVars, runVars,
        faultVars, busVars, Events, Sweepers, Sweeping, Control, SweepSet, StartedOnce, Stages, PassIsLast, LastPassed, AllPass
<1>1. CASE Announce
  BY <1>1, PublishQueue DEF Announce, PublishStatus, Publish
<1>2. CASE AnnounceEnd
  BY <1>2, PublishQueue DEF AnnounceEnd, PublishStatus, Publish
<1>3. CASE Destroy
  BY <1>3 DEF Destroy
<1>4. CASE Abandon
  BY <1>4 DEF Abandon
<1>5. CASE OtherEvent
  BY <1>5, PublishQueue DEF OtherEvent, Publish
<1>6. ASSUME NEW cp \in Checkpoints, Repair(cp) PROVE PassIsLast'
  BY <1>6 DEF Repair
<1>7. CASE Dispatch
  BY <1>7, DispatchQueue DEF Dispatch, StopLoop, CancelledByStop
<1>8. CASE DispatcherEnds
  BY <1>8 DEF DispatcherEnds
<1>9. CASE Close
  BY <1>9 DEF Close
<1>10. CASE Load
  BY <1>10, TakenState DEF Load, GiveUp, TakeState, LoopReturns, StopLoop, CancelledByStop
<1>11. CASE LoopCancelled
  BY <1>11 DEF LoopCancelled, LoopReturns, StopLoop, CancelledByStop
<1>12. CASE Send
  BY <1>12 DEF Send, CanSend, SweepFrame, Idle
<1>13. CASE Receive
  BY <1>13 DEF Receive, SweepingAfter, LoopReturns, StopLoop, CancelledByStop
<1>14. CASE LoopFinishes
  BY <1>14 DEF LoopFinishes, GiveUp, LoopReturns, StopLoop, CancelledByStop, AfterFinish, Finish
<1>15. CASE LoopFinished
  BY <1>15 DEF LoopFinished, LoopReturns, StopLoop, CancelledByStop
<1>16. CASE Tick
  BY <1>16 DEF Tick, MayTick
<1>17. ASSUME NEW w \in Sweepers, Lock(w) PROVE PassIsLast'
  BY <1>17 DEF Lock, SweepFrame
<1>18. ASSUME NEW w \in Sweepers, NEW cp \in Checkpoints, Check(w, cp) PROVE PassIsLast'
  BY <1>18 DEF Check, SweepFrame, Cancelled
<1>19. ASSUME NEW w \in Sweepers, Record(w) PROVE PassIsLast'
  <2>0. PICK lost \in SUBSET Checkpoints :
           /\ faults' = IF lost = {} THEN faults ELSE faults + 1
           /\ last' = [cp \in Checkpoints |-> IF cp \in lost THEN last[cp] ELSE sweep[w].got[cp]]
           /\ first' = [cp \in Checkpoints |-> IF cp \in lost THEN first[cp] ELSE FirstAfter(w, cp)]
           /\ unrecorded' = lost
    BY <1>19 DEF Record
  <2>1. UNCHANGED <<mode, loop, done, row>>
    BY <1>19 DEF Record, SweepFrame
  <2>2. sweep' = [sweep EXCEPT ![w].pc = IF w = "loop" THEN "sending" ELSE "judging"] /\ sweep[w].pc = "checking"
    BY <1>19 DEF Record, Checked
  <2>3. mode # "real" => w = "loop" /\ done = {} /\ loop # "finishing" /\ row # "passed"
    BY <2>2
  <2>4. AllPass("loop")' /\ w = "loop" => LastPassed'
    BY <2>2, <2>0
  <2>5. sweep'["submit"].pc = IF w = "submit" THEN "judging" ELSE sweep["submit"].pc
    BY <2>2
  <2> QED BY <2>1, <2>3, <2>4, <2>5
<1>20. ASSUME NEW w \in Sweepers, Discard(w) PROVE PassIsLast'
  BY ZenonT(40), <1>20 DEF Discard, Checked, Cancelled, SweepFrame
<1>21. CASE Submit
  BY <1>21 DEF Submit, SweepFrame
<1>22. CASE SweepNow
  BY <1>22, TakenState DEF SweepNow, TakeState, SweepFrame
<1>23. CASE SubmitCancelled
  BY <1>23 DEF SubmitCancelled, SweepFrame, Idle
<1>24. CASE Judge
  BY <1>24 DEF Judge, Finish, SweepFrame, Idle
<1> QED BY <1>1, <1>2, <1>3, <1>4, <1>5, <1>6, <1>7, <1>8, <1>9, <1>10, <1>11, <1>12,
           <1>13, <1>14, <1>15, <1>16, <1>17, <1>18, <1>19, <1>20, <1>21, <1>22, <1>23, <1>24
        DEF Next, ServiceStep, LoopSteps, SweepSteps

\* Every step keeps Locked.
LEMMA LockedStep ==
    ASSUME Flags, Control, Results, sweep \in [Sweepers -> SweepSet], Stages, Locked, Next
    PROVE  Locked'
<1> USE CheckerAssumption DEF vars, attemptVars, checkerVars, dispatchVars, loopVars, stateVars, runVars,
        faultVars, busVars, Events, Sweepers, Sweeping, SweepSet, Stages, Locked
<1>1. CASE Announce
  BY <1>1, PublishQueue DEF Announce, PublishStatus, Publish
<1>2. CASE AnnounceEnd
  BY <1>2, PublishQueue DEF AnnounceEnd, PublishStatus, Publish
<1>3. CASE Destroy
  BY <1>3 DEF Destroy
<1>4. CASE Abandon
  BY <1>4 DEF Abandon
<1>5. CASE OtherEvent
  BY <1>5, PublishQueue DEF OtherEvent, Publish
<1>6. ASSUME NEW cp \in Checkpoints, Repair(cp) PROVE Locked'
  BY <1>6 DEF Repair
<1>7. CASE Dispatch
  BY <1>7, DispatchQueue DEF Dispatch, StopLoop, CancelledByStop
<1>8. CASE DispatcherEnds
  BY <1>8 DEF DispatcherEnds
<1>9. CASE Close
  BY <1>9 DEF Close
<1>10. CASE Load
  BY <1>10, TakenState DEF Load, GiveUp, TakeState, LoopReturns, StopLoop, CancelledByStop
<1>11. CASE LoopCancelled
  BY <1>11 DEF LoopCancelled, LoopReturns, StopLoop, CancelledByStop
<1>12. CASE Send
  BY <1>12 DEF Send, CanSend, SweepFrame, Idle
<1>13. CASE Receive
  BY <1>13 DEF Receive, SweepingAfter, LoopReturns, StopLoop, CancelledByStop
<1>14. CASE LoopFinishes
  BY <1>14 DEF LoopFinishes, GiveUp, LoopReturns, StopLoop, CancelledByStop, AfterFinish, Finish
<1>15. CASE LoopFinished
  BY <1>15 DEF LoopFinished, LoopReturns, StopLoop, CancelledByStop
<1>16. CASE Tick
  BY <1>16 DEF Tick, MayTick
<1>17. ASSUME NEW w \in Sweepers, Lock(w) PROVE Locked'
  BY <1>17 DEF Lock, SweepFrame
<1>18. ASSUME NEW w \in Sweepers, NEW cp \in Checkpoints, Check(w, cp) PROVE Locked'
  BY <1>18 DEF Check, SweepFrame, Cancelled
<1>19. ASSUME NEW w \in Sweepers, Record(w) PROVE Locked'
  BY <1>19 DEF Record, Checked, Cancelled, SweepFrame
<1>20. ASSUME NEW w \in Sweepers, Discard(w) PROVE Locked'
  BY <1>20 DEF Discard, Checked, Cancelled, SweepFrame
<1>21. CASE Submit
  BY <1>21 DEF Submit, SweepFrame
<1>22. CASE SweepNow
  BY <1>22, TakenState DEF SweepNow, TakeState, SweepFrame
<1>23. CASE SubmitCancelled
  BY <1>23 DEF SubmitCancelled, SweepFrame, Idle
<1>24. CASE Judge
  BY <1>24 DEF Judge, Finish, SweepFrame, Idle
<1> QED BY <1>1, <1>2, <1>3, <1>4, <1>5, <1>6, <1>7, <1>8, <1>9, <1>10, <1>11, <1>12,
           <1>13, <1>14, <1>15, <1>16, <1>17, <1>18, <1>19, <1>20, <1>21, <1>22, <1>23, <1>24
        DEF Next, ServiceStep, LoopSteps, SweepSteps

\* Every step keeps EndsFollow.
LEMMA EndsFollowStep ==
    ASSUME Flags, Control, Results, sweep \in [Sweepers -> SweepSet], StartedOnce, EndsFollow, Next
    PROVE  EndsFollow'
<1> USE CheckerAssumption DEF vars, attemptVars, checkerVars, dispatchVars, loopVars, stateVars, runVars,
        faultVars, busVars, Events, Sweepers, Sweeping, Flags, Control, StartedOnce, EndsFollow
<1>1. CASE Announce
  BY <1>1, PublishQueue DEF Announce, PublishStatus, Publish
<1>2. CASE AnnounceEnd
  BY <1>2, PublishQueue DEF AnnounceEnd, PublishStatus, Publish
<1>3. CASE Destroy
  BY <1>3 DEF Destroy
<1>4. CASE Abandon
  BY <1>4 DEF Abandon
<1>5. CASE OtherEvent
  BY <1>5, PublishQueue DEF OtherEvent, Publish
<1>6. ASSUME NEW cp \in Checkpoints, Repair(cp) PROVE EndsFollow'
  BY <1>6 DEF Repair
<1>7. CASE Dispatch
  BY <1>7, DispatchQueue DEF Dispatch, StopLoop, CancelledByStop
<1>8. CASE DispatcherEnds
  BY <1>8 DEF DispatcherEnds
<1>9. CASE Close
  BY <1>9 DEF Close
<1>10. CASE Load
  BY <1>10, TakenState DEF Load, GiveUp, TakeState, LoopReturns, StopLoop, CancelledByStop
<1>11. CASE LoopCancelled
  BY <1>11 DEF LoopCancelled, LoopReturns, StopLoop, CancelledByStop
<1>12. CASE Send
  BY <1>12 DEF Send, CanSend, SweepFrame, Idle
<1>13. CASE Receive
  BY <1>13 DEF Receive, SweepingAfter, LoopReturns, StopLoop, CancelledByStop
<1>14. CASE LoopFinishes
  BY <1>14 DEF LoopFinishes, GiveUp, LoopReturns, StopLoop, CancelledByStop, AfterFinish, Finish
<1>15. CASE LoopFinished
  BY <1>15 DEF LoopFinished, LoopReturns, StopLoop, CancelledByStop
<1>16. CASE Tick
  BY <1>16 DEF Tick, MayTick
<1>17. ASSUME NEW w \in Sweepers, Lock(w) PROVE EndsFollow'
  BY <1>17 DEF Lock, SweepFrame
<1>18. ASSUME NEW w \in Sweepers, NEW cp \in Checkpoints, Check(w, cp) PROVE EndsFollow'
  BY <1>18 DEF Check, SweepFrame, Cancelled
<1>19. ASSUME NEW w \in Sweepers, Record(w) PROVE EndsFollow'
  BY <1>19 DEF Record, Checked, Cancelled, SweepFrame
<1>20. ASSUME NEW w \in Sweepers, Discard(w) PROVE EndsFollow'
  BY <1>20 DEF Discard, Checked, Cancelled, SweepFrame
<1>21. CASE Submit
  BY <1>21 DEF Submit, SweepFrame
<1>22. CASE SweepNow
  BY <1>22, TakenState DEF SweepNow, TakeState, SweepFrame
<1>23. CASE SubmitCancelled
  BY <1>23 DEF SubmitCancelled, SweepFrame, Idle
<1>24. CASE Judge
  BY <1>24 DEF Judge, Finish, SweepFrame, Idle
<1> QED BY <1>1, <1>2, <1>3, <1>4, <1>5, <1>6, <1>7, <1>8, <1>9, <1>10, <1>11, <1>12,
           <1>13, <1>14, <1>15, <1>16, <1>17, <1>18, <1>19, <1>20, <1>21, <1>22, <1>23, <1>24
        DEF Next, ServiceStep, LoopSteps, SweepSteps

\* Every step keeps SameState.
LEMMA SameStateStep ==
    ASSUME Flags, Control, Results, sweep \in [Sweepers -> SweepSet], StartedOnce, Stages, EndsFollow, SameState, Next
    PROVE  SameState'
<1> USE CheckerAssumption DEF vars, attemptVars, checkerVars, dispatchVars, loopVars, stateVars, runVars,
        faultVars, busVars, Events, Sweepers, Sweeping, Control, Results, SweepSet, StartedOnce, Stages, EndsFollow, SameState, MayRegister
<1>1. CASE Announce
  BY <1>1, PublishQueue DEF Announce, PublishStatus, Publish
<1>2. CASE AnnounceEnd
  BY <1>2, PublishQueue DEF AnnounceEnd, PublishStatus, Publish
<1>3. CASE Destroy
  BY <1>3 DEF Destroy
<1>4. CASE Abandon
  BY <1>4 DEF Abandon
<1>5. CASE OtherEvent
  BY <1>5, PublishQueue DEF OtherEvent, Publish
<1>6. ASSUME NEW cp \in Checkpoints, Repair(cp) PROVE SameState'
  BY <1>6 DEF Repair
<1>7. CASE Dispatch
  BY <1>7, DispatchQueue DEF Dispatch, StopLoop, CancelledByStop
<1>8. CASE DispatcherEnds
  BY <1>8 DEF DispatcherEnds
<1>9. CASE Close
  BY <1>9 DEF Close
<1>10. CASE Load
  <2>1. CASE ~cancelled /\ TakeState /\ loop' = "ticking"
            /\ sweep' = [sweep EXCEPT !["loop"].state = StateFor]
            /\ UNCHANGED <<entry, cancelled, faultVars>>
    <3>1. current' = StateFor /\ (current # 0 => StateFor = current)
      BY <2>1, TakenState DEF TakeState
    <3>2. sweep'["loop"].state = current' /\ sweep'["submit"] = sweep["submit"]
      BY <2>1, <3>1
    <3>3. UNCHANGED <<entry, announced, inbox, ending, late>>
      BY <1>10, <2>1 DEF Load
    <3> QED BY <3>1, <3>2, <3>3
  <2>2. CASE LoopReturns /\ UNCHANGED sweep
    BY <1>10, <2>2 DEF Load, LoopReturns, StopLoop
  <2> QED BY <1>10, <2>1, <2>2 DEF Load, GiveUp
<1>11. CASE LoopCancelled
  BY <1>11 DEF LoopCancelled, LoopReturns, StopLoop, CancelledByStop
<1>12. CASE Send
  BY <1>12 DEF Send, CanSend, SweepFrame, Idle
<1>13. CASE Receive
  <2>1. CASE cancelled /\ LoopReturns
    BY <1>13, <2>1 DEF Receive, LoopReturns, StopLoop
  <2>2. CASE UNCHANGED <<entry, cancelled, stateVars>>
    BY <1>13, <2>2 DEF Receive
  <2> QED BY <1>13, <2>1, <2>2 DEF Receive
<1>14. CASE LoopFinishes
  BY <1>14 DEF LoopFinishes, GiveUp, LoopReturns, StopLoop, CancelledByStop, AfterFinish, Finish
<1>15. CASE LoopFinished
  BY <1>15 DEF LoopFinished, LoopReturns, StopLoop, CancelledByStop
<1>16. CASE Tick
  BY <1>16 DEF Tick, MayTick
<1>17. ASSUME NEW w \in Sweepers, Lock(w) PROVE SameState'
  BY <1>17 DEF Lock, SweepFrame
<1>18. ASSUME NEW w \in Sweepers, NEW cp \in Checkpoints, Check(w, cp) PROVE SameState'
  BY <1>18 DEF Check, SweepFrame, Cancelled
<1>19. ASSUME NEW w \in Sweepers, Record(w) PROVE SameState'
  BY <1>19 DEF Record, Checked, Cancelled, SweepFrame
<1>20. ASSUME NEW w \in Sweepers, Discard(w) PROVE SameState'
  BY <1>20 DEF Discard, Checked, Cancelled, SweepFrame
<1>21. CASE Submit
  BY <1>21 DEF Submit, SweepFrame
<1>22. CASE SweepNow
  BY <1>22, TakenState DEF SweepNow, TakeState, SweepFrame
<1>23. CASE SubmitCancelled
  BY <1>23 DEF SubmitCancelled, SweepFrame, Idle
<1>24. CASE Judge
  BY <1>24 DEF Judge, Finish, SweepFrame, Idle
<1> QED BY <1>1, <1>2, <1>3, <1>4, <1>5, <1>6, <1>7, <1>8, <1>9, <1>10, <1>11, <1>12,
           <1>13, <1>14, <1>15, <1>16, <1>17, <1>18, <1>19, <1>20, <1>21, <1>22, <1>23, <1>24
        DEF Next, ServiceStep, LoopSteps, SweepSteps

\* Every step keeps Fresh.
LEMMA FreshStep ==
    ASSUME Flags, Control, Results, sweep \in [Sweepers -> SweepSet], StartedOnce, Stages, Fresh, Next
    PROVE  Fresh'
<1> USE CheckerAssumption DEF vars, attemptVars, checkerVars, dispatchVars, loopVars, stateVars, runVars,
        faultVars, busVars, Events, Sweepers, Sweeping, Control, Results, SweepSet, StartedOnce, Stages, Fresh
<1>1. CASE Announce
  BY <1>1, PublishQueue DEF Announce, PublishStatus, Publish
<1>2. CASE AnnounceEnd
  BY <1>2, PublishQueue DEF AnnounceEnd, PublishStatus, Publish
<1>3. CASE Destroy
  BY <1>3 DEF Destroy
<1>4. CASE Abandon
  BY <1>4 DEF Abandon
<1>5. CASE OtherEvent
  BY <1>5, PublishQueue DEF OtherEvent, Publish
<1>6. ASSUME NEW cp \in Checkpoints, Repair(cp) PROVE Fresh'
  BY <1>6 DEF Repair
<1>7. CASE Dispatch
  <2>1. UNCHANGED <<sweep, made, firstPassed>>
    BY <1>7 DEF Dispatch, StopLoop
  <2>2. loop' \in {"none", "loading"} => loop \in {"none", "loading"}
    BY <1>7, DispatchQueue DEF Dispatch, StopLoop
  <2> QED BY <2>1, <2>2
<1>8. CASE DispatcherEnds
  BY <1>8 DEF DispatcherEnds
<1>9. CASE Close
  BY <1>9 DEF Close
<1>10. CASE Load
  <2>1. CASE ~cancelled /\ TakeState /\ loop' = "ticking"
            /\ sweep' = [sweep EXCEPT !["loop"].state = StateFor]
            /\ UNCHANGED <<entry, cancelled, faultVars>>
    <3>1. StateFor <= made' /\ made <= made' /\ UNCHANGED firstPassed /\ made' \in 0..MaxStates
      BY SMTT(30), <2>1, TakenState DEF TakeState
    <3>2. \A v \in Sweepers : sweep'[v].state \in {sweep[v].state, StateFor} /\ sweep[v].state \in 0..MaxStates
      BY <2>1
    <3>3. \A v \in Sweepers : sweep'[v].state <= made'
      BY <3>1, <3>2
    <3>4. loop' = "ticking"
      BY <2>1
    <3> HIDE DEF StateFor
    <3> QED BY <3>1, <3>3, <3>4
  <2>2. CASE LoopReturns /\ UNCHANGED sweep
    BY <1>10, <2>2 DEF Load, LoopReturns, StopLoop
  <2> QED BY <1>10, <2>1, <2>2 DEF Load, GiveUp
<1>11. CASE LoopCancelled
  BY <1>11 DEF LoopCancelled, LoopReturns, StopLoop, CancelledByStop
<1>12. CASE Send
  BY <1>12 DEF Send, CanSend, SweepFrame, Idle
<1>13. CASE Receive
  BY ZenonT(40), <1>13 DEF Receive, SweepingAfter, LoopReturns, StopLoop, CancelledByStop
<1>14. CASE LoopFinishes
  BY <1>14 DEF LoopFinishes, GiveUp, LoopReturns, StopLoop, CancelledByStop, AfterFinish, Finish
<1>15. CASE LoopFinished
  BY <1>15 DEF LoopFinished, LoopReturns, StopLoop, CancelledByStop
<1>16. CASE Tick
  BY <1>16 DEF Tick, MayTick
<1>17. ASSUME NEW w \in Sweepers, Lock(w) PROVE Fresh'
  BY <1>17 DEF Lock, SweepFrame
<1>18. ASSUME NEW w \in Sweepers, NEW cp \in Checkpoints, Check(w, cp) PROVE Fresh'
  BY SMTT(30), <1>18 DEF Check, SweepFrame, Cancelled
<1>19. ASSUME NEW w \in Sweepers, Record(w) PROVE Fresh'
  <2>1. sweep[w].state \in 1..MaxStates /\ sweep[w].state <= made
    BY SMTT(30), <1>19 DEF Record, Checked
  <2>2. \A s \in 1..MaxStates : s # sweep[w].state => firstPassed'[s] = firstPassed[s]
    BY <1>19 DEF Record
  <2>3. UNCHANGED <<made, loop>> /\ \A v \in Sweepers : sweep'[v].state = sweep[v].state
    BY <1>19 DEF Record, SweepFrame
  <2>4. \A s \in 1..MaxStates : s > made => s # sweep[w].state
    BY <2>1
  <2> QED BY <2>2, <2>3, <2>4
<1>20. ASSUME NEW w \in Sweepers, Discard(w) PROVE Fresh'
  BY <1>20 DEF Discard, Checked, Cancelled, SweepFrame
<1>21. CASE Submit
  BY <1>21 DEF Submit, SweepFrame
<1>22. CASE SweepNow
  <2>0. StateFor <= MaxStates /\ made' = (IF StateFor > made THEN StateFor ELSE made) /\ UNCHANGED firstPassed
    BY <1>22 DEF SweepNow, TakeState
  <2>1. StateFor <= made' /\ made <= made' /\ UNCHANGED firstPassed /\ made' \in 0..MaxStates
    BY <2>0, TakenState
  <2>2. \A v \in Sweepers : sweep'[v].state \in {sweep[v].state, StateFor} /\ sweep[v].state \in 0..MaxStates
    BY <1>22 DEF SweepNow
  <2>3. \A v \in Sweepers : sweep'[v].state <= made'
    BY <2>1, <2>2
  <2>4. UNCHANGED loop /\ sweep'["loop"] = sweep["loop"]
    BY <1>22 DEF SweepNow, SweepFrame
  <2> QED BY <2>1, <2>3, <2>4
<1>23. CASE SubmitCancelled
  BY <1>23 DEF SubmitCancelled, SweepFrame, Idle
<1>24. CASE Judge
  BY <1>24 DEF Judge, Finish, SweepFrame, Idle
<1> QED BY <1>1, <1>2, <1>3, <1>4, <1>5, <1>6, <1>7, <1>8, <1>9, <1>10, <1>11, <1>12,
           <1>13, <1>14, <1>15, <1>16, <1>17, <1>18, <1>19, <1>20, <1>21, <1>22, <1>23, <1>24
        DEF Next, ServiceStep, LoopSteps, SweepSteps

\* Every step keeps Remembered.
LEMMA RememberedStep ==
    ASSUME Flags, Control, Results, sweep \in [Sweepers -> SweepSet], StartedOnce, Stages,
           PassIsLast, EndsFollow, Fresh, Remembered, Next
    PROVE  Remembered'
<1> USE CheckerAssumption DEF vars, attemptVars, checkerVars, dispatchVars, loopVars, stateVars, runVars,
        faultVars, busVars, Events, Sweepers, Sweeping, Flags, Control, Results,
        SweepSet, StartedOnce, Stages, PassIsLast, EndsFollow, Fresh, Remembered, Remembering, Same
<1>1. CASE Announce
  BY <1>1, PublishQueue DEF Announce, PublishStatus, Publish
<1>2. CASE AnnounceEnd
  BY <1>2, PublishQueue DEF AnnounceEnd, PublishStatus, Publish
<1>3. CASE Destroy
  BY <1>3 DEF Destroy
<1>4. CASE Abandon
  BY <1>4 DEF Abandon
<1>5. CASE OtherEvent
  BY <1>5, PublishQueue DEF OtherEvent, Publish
<1>6. ASSUME NEW cp \in Checkpoints, Repair(cp) PROVE Remembered'
  BY <1>6 DEF Repair
<1>7. CASE Dispatch
  <2>1. UNCHANGED <<earliest, firstPassed, mode, made, sweep, row, closing, gaveUp>>
    BY <1>7 DEF Dispatch, StopLoop
  <2>2. Remembering => UNCHANGED current /\ cancelled' = FALSE
    BY <1>7, DispatchQueue DEF Dispatch, StopLoop
  <2> QED BY <2>1, <2>2
<1>8. CASE DispatcherEnds
  BY <1>8 DEF DispatcherEnds
<1>9. CASE Close
  BY <1>9 DEF Close
<1>10. CASE Load
  <2>1. CASE ~cancelled /\ TakeState /\ loop' = "ticking"
            /\ sweep' = [sweep EXCEPT !["loop"].state = StateFor]
            /\ UNCHANGED <<entry, cancelled, faultVars>>
    <3>1. StateFor \in 1..MaxStates /\ (current # 0 => StateFor = current) /\ current' = StateFor
          /\ UNCHANGED <<firstPassed, earliest, mode, row, closing, gaveUp, cancelled>>
      BY <1>10, <2>1, TakenState DEF Load, TakeState
    <3>2. made = 0 => StateFor = 1 /\ current = 0
      BY DEF StateFor
    <3>3. sweep["loop"].state = 0 /\ sweep'["loop"].state = StateFor /\ sweep'["submit"] = sweep["submit"]
      BY <1>10, <2>1 DEF Load
    <3>4. Remembering' => \A v \in Sweepers : sweep'[v].state \in {0, current'}
      BY <3>1, <3>3
    <3>5. made = 0 /\ Same(0) => \A cp \in Checkpoints : earliest'[cp] = firstPassed'[StateFor][cp]
      BY <3>1, <3>2
    <3>6. Remembering' => Same(current)'
      BY <3>1, <3>5
    <3>7. mode' # "real" => Same(sweep["loop"].state)'
      BY <3>1, <3>3, <3>5
    <3> HIDE DEF Same
    <3> QED BY <3>1, <3>3, <3>4, <3>6, <3>7
  <2>2. CASE LoopReturns /\ UNCHANGED sweep
    <3>1. UNCHANGED <<earliest, firstPassed, mode, made, sweep, row, closing>>
      BY <1>10, <2>2 DEF Load, LoopReturns, StopLoop
    <3>2. ~Remembering'
      <4>1. CASE cancelled /\ UNCHANGED gaveUp
        BY <3>1, <4>1
      <4>2. CASE gaveUp' = TRUE
        BY <4>2
      <4> QED BY <1>10, <2>2, <4>1, <4>2 DEF Load, GiveUp, LoopReturns
    <3> QED BY <3>1, <3>2
  <2> QED BY <1>10, <2>1, <2>2 DEF Load, GiveUp
<1>11. CASE LoopCancelled
  BY <1>11 DEF LoopCancelled, LoopReturns, StopLoop, CancelledByStop
<1>12. CASE Send
  BY <1>12 DEF Send, CanSend, SweepFrame, Idle
<1>13. CASE Receive
  <2>1. UNCHANGED <<earliest, firstPassed, mode, made, sweep, row, closing, gaveUp>>
    BY <1>13 DEF Receive, LoopReturns, StopLoop
  <2>2. Remembering => UNCHANGED <<current, cancelled>>
    BY <1>13 DEF Receive, LoopReturns, StopLoop
  <2> QED BY <2>1, <2>2
<1>14. CASE LoopFinishes
  BY <1>14 DEF LoopFinishes, GiveUp, LoopReturns, StopLoop, CancelledByStop, AfterFinish, Finish
<1>15. CASE LoopFinished
  BY <1>15 DEF LoopFinished, LoopReturns, StopLoop, CancelledByStop
<1>16. CASE Tick
  BY <1>16 DEF Tick, MayTick
<1>17. ASSUME NEW w \in Sweepers, Lock(w) PROVE Remembered'
  BY <1>17 DEF Lock, SweepFrame
<1>18. ASSUME NEW w \in Sweepers, NEW cp \in Checkpoints, Check(w, cp) PROVE Remembered'
  <2>1. \A v \in Sweepers : sweep'[v].state = sweep[v].state
    BY <1>18 DEF Check
  <2>2. UNCHANGED <<earliest, firstPassed, mode, made, row, closing, gaveUp, current, cancelled>>
    BY <1>18 DEF Check, SweepFrame
  <2> QED BY <2>1, <2>2
<1>19. ASSUME NEW w \in Sweepers, Record(w) PROVE Remembered'
  <2>1. sweep[w].state \in 1..MaxStates
    BY SMTT(30), <1>19 DEF Record, Checked
  <2>2. UNCHANGED <<mode, made, row, closing, gaveUp, current, cancelled>>
        /\ \A v \in Sweepers : sweep'[v].state = sweep[v].state
    BY <1>19 DEF Record, SweepFrame
  <2>3. Same(sweep[w].state) => Same(sweep[w].state)'
    <3> SUFFICES ASSUME Same(sweep[w].state), NEW cp \in Checkpoints
                 PROVE  earliest'[cp] = firstPassed'[sweep[w].state][cp]
      <4>1. sweep'[w].state = sweep[w].state /\ sweep[w].state # 0
        BY SMTT(30), <2>1, <2>2
      <4> QED BY <4>1
    <3>1. firstPassed'[sweep[w].state][cp] = FirstPassed(w, cp)
      BY <1>19, <2>1 DEF Record
    <3>2. earliest'[cp] = IF earliest[cp] = 0 /\ sweep[w].got[cp] = "pass" THEN Now ELSE earliest[cp]
      BY <1>19 DEF Record
    <3>3. earliest[cp] = firstPassed[sweep[w].state][cp]
      BY <2>1
    <3> QED BY <3>1, <3>2, <3>3 DEF FirstPassed
  <2>4. Remembering => sweep[w].state = current
    BY SMTT(30), <2>1
  <2>5. mode # "real" => w = "loop"
    BY <1>19 DEF Record, Checked
  <2>6. Remembering' => Same(current)'
    BY SMTT(30), <2>2, <2>3, <2>4
  <2>7. mode' # "real" => Same(sweep["loop"].state)'
    BY <2>2, <2>3, <2>5
  <2> HIDE DEF Same
  <2> QED BY <2>2, <2>6, <2>7
<1>20. ASSUME NEW w \in Sweepers, Discard(w) PROVE Remembered'
  BY <1>20 DEF Discard, Checked, Cancelled, SweepFrame
<1>21. CASE Submit
  BY <1>21 DEF Submit, SweepFrame
<1>22. CASE SweepNow
  <2>1. StateFor \in 1..MaxStates /\ (current # 0 => StateFor = current) /\ current' = StateFor
        /\ UNCHANGED <<firstPassed, earliest, mode, row, closing, gaveUp, cancelled>>
    BY <1>22, TakenState DEF SweepNow, TakeState, SweepFrame
  <2>2. made = 0 => StateFor = 1 /\ current = 0
    BY DEF StateFor
  <2>3. sweep'["loop"] = sweep["loop"] /\ sweep'["submit"].state = StateFor /\ mode = "real"
    BY <1>22 DEF SweepNow
  <2>4. Remembering' => \A v \in Sweepers : sweep'[v].state \in {0, current'}
    BY <2>1, <2>3
  <2>5. made = 0 /\ Same(0) => \A cp \in Checkpoints : earliest'[cp] = firstPassed'[StateFor][cp]
    BY <2>1, <2>2
  <2>6. Remembering' => Same(current)'
    BY <2>1, <2>5
  <2> HIDE DEF Same
  <2> QED BY <2>1, <2>3, <2>4, <2>6
<1>23. CASE SubmitCancelled
  BY <1>23 DEF SubmitCancelled, SweepFrame, Idle
<1>24. CASE Judge
  BY <1>24 DEF Judge, Finish, SweepFrame, Idle
<1> QED BY <1>1, <1>2, <1>3, <1>4, <1>5, <1>6, <1>7, <1>8, <1>9, <1>10, <1>11, <1>12,
           <1>13, <1>14, <1>15, <1>16, <1>17, <1>18, <1>19, <1>20, <1>21, <1>22, <1>23, <1>24
        DEF Next, ServiceStep, LoopSteps, SweepSteps

\* Every step leaves a first pass on record its time.
LEMMA EarliestStep ==
    ASSUME Flags, Control, Results, sweep \in [Sweepers -> SweepSet], Stages,
           PassIsLast, Remembered, FirstPassIsEarliest, Next
    PROVE  FirstPassIsEarliest'
<1> USE CheckerAssumption DEF vars, attemptVars, checkerVars, dispatchVars, loopVars, stateVars, runVars,
        faultVars, busVars, Events, Sweepers, Sweeping, Flags, Control, Results,
        SweepSet, Stages, PassIsLast, Remembered, Remembering, Same, FirstPassIsEarliest
<1>1. CASE Announce
  BY <1>1, PublishQueue DEF Announce, PublishStatus, Publish
<1>2. CASE AnnounceEnd
  BY <1>2, PublishQueue DEF AnnounceEnd, PublishStatus, Publish
<1>3. CASE Destroy
  BY <1>3 DEF Destroy
<1>4. CASE Abandon
  BY <1>4 DEF Abandon
<1>5. CASE OtherEvent
  BY <1>5, PublishQueue DEF OtherEvent, Publish
<1>6. ASSUME NEW cp \in Checkpoints, Repair(cp) PROVE FirstPassIsEarliest'
  BY <1>6 DEF Repair
<1>7. CASE Dispatch
  BY <1>7, DispatchQueue DEF Dispatch, StopLoop, CancelledByStop
<1>8. CASE DispatcherEnds
  BY <1>8 DEF DispatcherEnds
<1>9. CASE Close
  BY <1>9 DEF Close
<1>10. CASE Load
  BY <1>10, TakenState DEF Load, GiveUp, TakeState, LoopReturns, StopLoop, CancelledByStop
<1>11. CASE LoopCancelled
  BY <1>11 DEF LoopCancelled, LoopReturns, StopLoop, CancelledByStop
<1>12. CASE Send
  BY <1>12 DEF Send, CanSend, SweepFrame, Idle
<1>13. CASE Receive
  BY <1>13 DEF Receive, SweepingAfter, LoopReturns, StopLoop, CancelledByStop
<1>14. CASE LoopFinishes
  BY <1>14 DEF LoopFinishes, GiveUp, LoopReturns, StopLoop, CancelledByStop, AfterFinish, Finish
<1>15. CASE LoopFinished
  BY <1>15 DEF LoopFinished, LoopReturns, StopLoop, CancelledByStop
<1>16. CASE Tick
  BY <1>16 DEF Tick, MayTick
<1>17. ASSUME NEW w \in Sweepers, Lock(w) PROVE FirstPassIsEarliest'
  BY <1>17 DEF Lock, SweepFrame
<1>18. ASSUME NEW w \in Sweepers, NEW cp \in Checkpoints, Check(w, cp) PROVE FirstPassIsEarliest'
  BY <1>18 DEF Check, SweepFrame, Cancelled
<1>19. ASSUME NEW w \in Sweepers, Record(w) PROVE FirstPassIsEarliest'
  <2>0. PICK lost \in SUBSET Checkpoints :
           /\ faults' = IF lost = {} THEN faults ELSE faults + 1
           /\ last' = [cp \in Checkpoints |-> IF cp \in lost THEN last[cp] ELSE sweep[w].got[cp]]
           /\ first' = [cp \in Checkpoints |-> IF cp \in lost THEN first[cp] ELSE FirstAfter(w, cp)]
           /\ unrecorded' = lost
    BY <1>19 DEF Record
  <2>1. sweep[w].state \in 1..MaxStates
    BY SMTT(30), <1>19 DEF Record, Checked
  <2>2. UNCHANGED <<mode, row, closing, gaveUp>>
    BY <1>19 DEF Record, SweepFrame
  <2>3. Remembering \/ mode # "real" => Same(sweep[w].state)
    <3>1. CASE Remembering
      <4>1. sweep[w].state = current /\ Same(current)
        BY SMTT(30), <2>1, <3>1
      <4> HIDE DEF Same
      <4> QED BY <4>1
    <3>2. CASE mode # "real"
      <4>1. w = "loop"
        BY <1>19, <3>2 DEF Record, Checked
      <4> QED BY <3>2, <4>1
    <3> QED BY <3>1, <3>2
  <2> SUFFICES ASSUME Remembering \/ mode # "real", NEW cp \in Checkpoints
               PROVE  first'[cp] \in {0, earliest'[cp]}
    BY <2>2
  <2>4. earliest[cp] = firstPassed[sweep[w].state][cp] /\ first[cp] \in {0, earliest[cp]}
    BY SMTT(30), <2>1, <2>3
  <2>5. earliest'[cp] = FirstPassed(w, cp)
    BY <1>19, <2>4 DEF Record, FirstPassed
  <2>6. first'[cp] \in {first[cp], FirstAfter(w, cp)}
    BY <2>0
  <2>7. first[cp] # 0 => earliest'[cp] = earliest[cp]
    BY <2>4, <2>5 DEF FirstPassed
  <2> QED BY <2>4, <2>5, <2>6, <2>7 DEF FirstAfter
<1>20. ASSUME NEW w \in Sweepers, Discard(w) PROVE FirstPassIsEarliest'
  BY <1>20 DEF Discard, Checked, Cancelled, SweepFrame
<1>21. CASE Submit
  BY <1>21 DEF Submit, SweepFrame
<1>22. CASE SweepNow
  BY <1>22, TakenState DEF SweepNow, TakeState, SweepFrame
<1>23. CASE SubmitCancelled
  BY <1>23 DEF SubmitCancelled, SweepFrame, Idle
<1>24. CASE Judge
  BY <1>24 DEF Judge, Finish, SweepFrame, Idle
<1> QED BY <1>1, <1>2, <1>3, <1>4, <1>5, <1>6, <1>7, <1>8, <1>9, <1>10, <1>11, <1>12,
           <1>13, <1>14, <1>15, <1>16, <1>17, <1>18, <1>19, <1>20, <1>21, <1>22, <1>23, <1>24
        DEF Next, ServiceStep, LoopSteps, SweepSteps

\* Every step keeps the invariant, and so does one that changes nothing.
LEMMA StepChecker == CheckerInv /\ [Next]_vars => CheckerInv'
<1> SUFFICES ASSUME CheckerInv, [Next]_vars PROVE CheckerInv'
  OBVIOUS
<1>1. CASE Next
  <2>1. Flags /\ Control /\ Results /\ sweep \in [Sweepers -> SweepSet]
    BY TypeParts DEF CheckerInv
  <2>2. TypeOK'
    BY <1>1, <2>1, TypePartsNext, FlagsStep, ControlStep, ResultsStep, SweepStep DEF CheckerInv
  <2>3. StartedOnce' /\ Stages' /\ PassIsLast' /\ Locked'
    BY <1>1, <2>1, StartedOnceStep, StagesStep, PassIsLastStep, LockedStep DEF CheckerInv
  <2>4. EndsFollow' /\ SameState'
    BY <1>1, <2>1, EndsFollowStep, SameStateStep DEF CheckerInv
  <2>5. Fresh' /\ Remembered' /\ FirstPassIsEarliest'
    BY <1>1, <2>1, FreshStep, RememberedStep, EarliestStep DEF CheckerInv
  <2> QED BY <2>2, <2>3, <2>4, <2>5 DEF CheckerInv
<1>2. CASE UNCHANGED vars
  <2>1. TypeOK'
    BY <1>2 DEF vars, attemptVars, checkerVars, dispatchVars, loopVars, stateVars, runVars,
       faultVars, busVars, CheckerInv, TypeOK
  <2> USE <1>2 DEF CheckerInv, vars, attemptVars, checkerVars, dispatchVars, loopVars, stateVars,
          runVars, faultVars, busVars, Sweeping
  <2>2. StartedOnce' /\ Stages' /\ Locked'
    BY DEF StartedOnce, Stages, Locked
  <2>3. PassIsLast'
    BY DEF PassIsLast, LastPassed, AllPass
  <2>4. EndsFollow' /\ SameState'
    BY DEF EndsFollow, SameState, MayRegister
  <2>5. Fresh'
    BY DEF Fresh
  <2>6. Remembered'
    BY DEF Remembered, Remembering, Same
  <2>7. FirstPassIsEarliest'
    BY DEF FirstPassIsEarliest
  <2> QED BY <2>1, <2>2, <2>3, <2>4, <2>5, <2>6, <2>7
<1> QED BY <1>1, <1>2

\* It holds before the attempt is announced.
LEMMA InitChecker == Init => CheckerInv
<1> SUFFICES ASSUME Init PROVE CheckerInv
  OBVIOUS
<1> USE CheckerAssumption DEF Init, Idle, Sweepers
<1>1. inbox = <<>> /\ inbox \in Seq({"running", "ended", "other"}) /\ DOMAIN inbox = {} /\ Len(inbox) = 0
  OBVIOUS
<1>2. TypeOK
  <2>1. Flags
    BY DEF Flags
  <2>2. Control
    BY <1>1 DEF Control, Events
  <2>3. Results
    BY DEF Results
  <2>4. sweep \in [Sweepers -> SweepSet]
    BY DEF SweepSet
  <2> QED BY <2>1, <2>2, <2>3, <2>4, TypeParts
<1>3. StartedOnce
  BY <1>1 DEF StartedOnce, Once, Queued
<1>4. Stages
  BY DEF Stages
<1>5. PassIsLast
  BY DEF PassIsLast
<1>6. Locked
  BY DEF Locked, Sweeping
<1>7. EndsFollow /\ SameState
  BY <1>1 DEF EndsFollow, SameState, Queued, NoneAfter
<1>8. Fresh /\ Remembered /\ FirstPassIsEarliest
  BY DEF Fresh, Remembered, Remembering, Same, FirstPassIsEarliest
<1> QED BY <1>2, <1>3, <1>4, <1>5, <1>6, <1>7, <1>8 DEF CheckerInv

-----------------------------------------------------------------------------
(* The theorems.                                                           *)

\* The Checker keeps its invariant: types, and how its loop, its sweeps and the
\* results on record belong together.
THEOREM CheckerSafe == Spec => []CheckerInv
<1>1. Init => CheckerInv
  BY InitChecker
<1>2. CheckerInv /\ [Next]_vars => CheckerInv'
  BY StepChecker
<1> QED BY <1>1, <1>2, PTL DEF Spec

\* After the loop finished an attempt, no sweep (runSweep) writes over the results
\* that made it pass.
THEOREM PassedKeepsResultsHolds == Spec => []PassedKeepsResults
<1>1. CheckerInv => PassedKeepsResults
  BY DEF CheckerInv, PassIsLast, LastPassed, PassedKeepsResults
<1> QED BY <1>1, CheckerSafe, PTL

\* A first pass on record has the time of the first sweep that saw it, also when
\* the write (record) of that sweep failed, as long as the attempt and its loop
\* run, and outside real mode to the end.
THEOREM FirstPassIsEarliestHolds == Spec => []FirstPassIsEarliest
<1>1. CheckerInv => FirstPassIsEarliest
  BY DEF CheckerInv
<1> QED BY <1>1, CheckerSafe, PTL

\* While the loop is registered, it and Submit never hold the lock of a sweep
\* (state.mu) together, unless the loop was started by an announcement that came
\* after the end.
THEOREM SweepsSerializedHolds == Spec => []SweepsSerialized
<1>1. CheckerInv => SweepsSerialized
  <2> SUFFICES ASSUME CheckerInv, entry, ~late, Sweeping("loop"), Sweeping("submit") PROVE FALSE
    BY DEF SweepsSerialized
  <2>1. loop \notin {"none", "loading", "finishing", "ending", "gone"}
    BY DEF CheckerInv, StartedOnce, Stages, Sweeping
  <2>2. loop = "ticking"
    BY <2>1 DEF CheckerInv, TypeOK
  <2>3. sweep["loop"].state = current /\ sweep["submit"].state = current
    BY <2>2 DEF CheckerInv, SameState, MayRegister, Sweeping
  <2> QED BY <2>3 DEF CheckerInv, Locked
<1> QED BY <1>1, CheckerSafe, PTL
=============================================================================
