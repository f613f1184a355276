------------------------- MODULE AttemptSafetyProofs -------------------------
(***************************************************************************)
(* What AttemptService keeps while the store and the runners do what they  *)
(* are asked: no living attempt escapes the idle timer, none that runs is  *)
(* without its sandbox and no sandbox is forgotten, for every set of       *)
(* attempts, users, labs and runners.                                      *)
(*                                                                         *)
(* A failing store call breaks each of the three, and a removed row one of *)
(* them, so that the theorems say "as long as none failed":                *)
(* faults counts the failures there were, and the theorems hold whatever   *)
(* MaxFaults allows later.                                                 *)
(***************************************************************************)
EXTENDS AttemptServiceProofs

-----------------------------------------------------------------------------
(* The inductive invariant.                                                *)

\* What the service keeps of attempt a agrees: the tracker and its timer, the
\* goroutine and the row, the goroutine and the sandbox.
Kept(a) ==
    /\ prov[a] \in {"none", "created"} => a \notin tracked
    /\ a \notin tracked => conns[a] = 0
    /\ conns[a] > 0 => idle[a] = "nil"
    /\ status[a] = "none" => prov[a] = "none"
    /\ status[a] = "running" => prov[a] = "done"
    /\ prov[a] \in {"none", "created", "start"} => a \notin sandbox /\ a \notin leftover
    /\ prov[a] \in {"provision", "precheck", "undo_retry", "resolve"} /\ a \notin lost
          => place[a] \in connected
    /\ phase = "down" => prov[a] \in {"none", "done"}

\* A call of end that has written its status has ended the attempt for good.
CallsEnd == \A c \in calls : c.pc # "set_status" => c.id \in everEnded

Books == CallsEnd /\ \A a \in Attempts : Kept(a)

\* The attempt is about to be ended: by the goroutine of RunnerDisconnected
\* before or after its list, or by a call that is under way.
Doomed(a) == place[a] \in dropped \/ a \in reap \/ Ending(a)

\* Attempt a is watched by a timer, a browser or whoever ends it.
WatchedOne(a) ==
    phase = "up" /\ Alive(a) /\ prov[a] # "created" =>
       /\ a \in tracked
       /\ conns[a] > 0 \/ idle[a] = "waiting" \/ a \in expiring \/ Ending(a)

\* Nobody takes the sandbox of a living attempt but who ends the attempt too: not
\* the retention of its runner, and not RunnerReconnected, unless the runner
\* was back before the hub unregistered the connection it lost.
Provided(a) ==
    phase = "up" /\ Alive(a) /\ a \notin replaced =>
       /\ a \in sandbox /\ place[a] \notin connected => place[a] \in finishing \/ Doomed(a)
       /\ a \in leftover => Doomed(a)
       /\ prov[a] \in {"precheck", "promote", "promote_write"} \/ status[a] = "running"
             => \/ a \in bound /\ (a \in sandbox \/ place[a] \in finishing)
                \/ Doomed(a)

\* A goroutine that has no sandbox of its own leaves none behind.
Abandoned(a) ==
    /\ phase = "up" /\ a \in sandbox /\ prov[a] \in {"resolve", "provision", "fail"}
    => place[a] \notin connected \/ a \in leftover

\* The sandbox of attempt a is accounted for.
AccountedOne(a) ==
    phase = "up" /\ a \in sandbox =>
       \/ IsActive(a)
       \/ prov[a] \in ProvStep \ {"none", "done"}
       \/ Ending(a)
       \/ place[a] \notin connected
       \/ a \in leftover

NoneDeleted == \A a \in Attempts : status[a] # "deleted"

SafeInv ==
    /\ IInv
    /\ Books
    /\ faults = 0 =>
          /\ \A a \in Attempts : WatchedOne(a) /\ Provided(a) /\ Abandoned(a)
          /\ NoneDeleted => \A a \in Attempts : AccountedOne(a)

-----------------------------------------------------------------------------
(* The books.                                                              *)

\* CallsEnd needs the record of a call that moved on.
LEMMA GotoEnds ==
    ASSUME TypeOK, CallsEnd, NEW c \in calls, NEW pc \in CallStep,
           calls' = Goto(c, pc), c.id \in everEnded', everEnded \subseteq everEnded'
    PROVE  CallsEnd'
BY DEF Goto, CallsEnd, TypeOK, Call

\* Every step keeps CallsEnd.
LEMMA CallsEndStep ==
    ASSUME TypeOK, CallsEnd, Next
    PROVE  CallsEnd'
<1> USE DEF rowVars, provVars, idleVars, taskVars, worldVars, boundVars, histVars
<1>1. ASSUME NEW a \in Attempts, AttemptStep(a) PROVE CallsEnd'
  BY <1>1 DEF AttemptStep, Reserve, Track, Provisioner, BeginProvision, ProvisionOK,
     ProvisionError, Precheck, Undo, Resolve, PromoteRead, PromoteWrite, FailProvision,
     Abandon, Finish, Connected, Disconnected, IdleFires, Expire, ReapEnd, DestroyLeftover,
     Remove, BeginEnd, EndCall, ProvFrame, EndFrame, IdleFrame, TaskFrame, CallsEnd, Destroy
<1>2. ASSUME NEW s \in starting, Create(s) PROVE CallsEnd'
  BY <1>2 DEF Create, CallsEnd
<1>3. ASSUME NEW c \in calls, EndStep(c) PROVE CallsEnd'
  <2>1. CASE EndSetStatus(c)
    <3>1. AfterSetStatus(c) \in CallStep
      BY DEF AfterSetStatus, CallStep
    <3>2. everEnded \subseteq everEnded'
      BY <2>1 DEF EndSetStatus
    <3>3. calls' = calls \ {c} \/ (calls' = Goto(c, AfterSetStatus(c)) /\ c.id \in everEnded')
      BY <2>1 DEF EndSetStatus
    <3> QED BY <3>1, <3>2, <3>3, GotoEnds DEF CallsEnd
  <2>2. CASE EndProgress(c) \/ EndUntrack(c)
    <3>1. c.id \in everEnded /\ UNCHANGED everEnded
      BY <2>2 DEF EndProgress, EndUntrack, CallsEnd
    <3>2. calls' = calls \ {c} \/ \E pc \in CallStep : calls' = Goto(c, pc)
      BY <2>2 DEF EndProgress, EndUntrack, CallStep
    <3> QED BY <3>1, <3>2, GotoEnds DEF CallsEnd
  <2>3. CASE EndDestroy(c)
    BY <2>3 DEF EndDestroy, CallsEnd
  <2> QED BY <1>3, <2>1, <2>2, <2>3 DEF EndStep
<1>4. ASSUME NEW r \in Remote, RunnerStep(r) PROVE CallsEnd'
  BY <1>4 DEF RunnerStep, LoseRunner, Unregister, ReapList, Reconnect, Retention, TaskFrame, CallsEnd
<1>5. ASSUME NEW S \in SUBSET Attempts, Delete(S) \/ Recover(S) PROVE CallsEnd'
  BY <1>5 DEF Delete, Recover, TaskFrame, CallsEnd
<1>6. ASSUME Close \/ Exit PROVE CallsEnd'
  BY <1>6 DEF Close, Exit, CallsEnd
<1> QED BY <1>1, <1>2, <1>3, <1>4, <1>5, <1>6 DEF Next

\* Kept holds for every attempt after a step of the goroutine of attempt b ...
LEMMA KeptProvisioner ==
    ASSUME TypeOK, \A d \in Attempts : Kept(d), NEW b \in Attempts, Provisioner(b),
           NEW a \in Attempts
    PROVE  Kept(a)'
<1> USE DEF rowVars, provVars, idleVars, taskVars, worldVars, boundVars, histVars, ProvFrame
<1>0. Kept(a) /\ Kept(b)
  OBVIOUS
<1>1. CASE BeginProvision(b)
  BY <1>0, <1>1 DEF BeginProvision, AfterError, TypeOK, Kept
<1>2. CASE ProvisionOK(b)
  BY <1>0, <1>2 DEF ProvisionOK, TypeOK, Kept
<1>3. CASE ProvisionError(b)
  BY <1>0, <1>3 DEF ProvisionError, TypeOK, Kept, AfterError
<1>4. CASE Precheck(b)
  <2>1. prov'[b] \in {"promote", "undo_fail", "undo_retry"}
    BY <1>4 DEF Precheck, TypeOK
  <2> QED BY <1>0, <1>4, <2>1 DEF Precheck, TypeOK, Kept
<1>5. CASE Undo(b)
  <2>1. \/ prov[b] = "undo_retry" /\ prov'[b] = "resolve"
        \/ prov'[b] \in {"done", "fail"}
    BY <1>5 DEF Undo, TypeOK, AfterError
  <2> QED BY <1>0, <1>5, <2>1 DEF Undo, Destroy, TypeOK, Kept
<1>6. CASE Resolve(b)
  BY <1>0, <1>6 DEF Resolve, TypeOK, Kept, AfterError
<1>7. CASE PromoteRead(b)
  <2>1. prov'[b] \in {"promote_write", "undo_done", "done"}
    BY <1>7 DEF PromoteRead, TypeOK, AfterPromoteRead
  <2> QED BY <1>0, <1>7, <2>1 DEF PromoteRead, TypeOK, Kept
<1>8. CASE PromoteWrite(b)
  BY <1>0, <1>8 DEF PromoteWrite, TypeOK, Kept, HasRow
<1>9. CASE FailProvision(b)
  BY <1>0, <1>9 DEF FailProvision, TypeOK, Kept
<1> QED BY <1>1, <1>2, <1>3, <1>4, <1>5, <1>6, <1>7, <1>8, <1>9 DEF Provisioner

\* ... of a call of end ...
LEMMA KeptEnd ==
    ASSUME TypeOK, \A d \in Attempts : Kept(d), NEW c \in calls, EndStep(c),
           NEW a \in Attempts
    PROVE  Kept(a)'
<1> USE DEF rowVars, provVars, idleVars, taskVars, worldVars, boundVars, histVars, EndFrame
<1>0. Kept(a) /\ c.id \in Attempts /\ c.to \in Terminal
  BY DEF TypeOK, Call
<1>1. CASE EndSetStatus(c)
  BY <1>0, <1>1 DEF EndSetStatus, TypeOK, Kept, HasRow, Terminal
<1>2. CASE EndProgress(c)
  BY <1>0, <1>2 DEF EndProgress, TypeOK, Kept
<1>3. CASE EndUntrack(c)
  BY <1>0, <1>3 DEF EndUntrack, TypeOK, Kept
<1>4. CASE EndDestroy(c)
  BY <1>0, <1>4 DEF EndDestroy, Destroy, TypeOK, Kept
<1> QED BY <1>1, <1>2, <1>3, <1>4 DEF EndStep

\* ... of a user, a browser, a timer or a task for attempt b ...
LEMMA KeptAttempt ==
    ASSUME TypeOK, \A d \in Attempts : Kept(d), NEW b \in Attempts, AttemptStep(b),
           NEW a \in Attempts
    PROVE  Kept(a)'
<1> USE DEF rowVars, provVars, idleVars, taskVars, worldVars, boundVars, histVars, EndFrame,
            IdleFrame, TaskFrame
<1>0. Kept(a) /\ Kept(b)
  OBVIOUS
<1>1. CASE Reserve(b) \/ Abandon(b) \/ Finish(b)
  BY <1>0, <1>1 DEF Reserve, Abandon, Finish, TypeOK, Kept
<1>2. CASE Track(b)
  BY <1>0, <1>2 DEF Track, TypeOK, Kept
<1>3. CASE Connected(b)
  BY <1>0, <1>3 DEF Connected, TypeOK, Kept, HasRow
<1>4. CASE Disconnected(b)
  BY <1>0, <1>4 DEF Disconnected, TypeOK, Kept, Decrement, Rearm
<1>5. CASE IdleFires(b)
  BY <1>0, <1>5 DEF IdleFires, TypeOK, Kept
<1>6. CASE Expire(b)
  BY <1>0, <1>6 DEF Expire, TypeOK, Kept
<1>7. CASE ReapEnd(b)
  BY <1>0, <1>7 DEF ReapEnd, TypeOK, Kept
<1>8. CASE DestroyLeftover(b)
  BY <1>0, <1>8 DEF DestroyLeftover, TypeOK, Kept
<1>9. CASE Remove(b)
  BY <1>0, <1>9 DEF Remove, TypeOK, Kept, HasRow
<1> QED BY <1>1, <1>2, <1>3, <1>4, <1>5, <1>6, <1>7, <1>8, <1>9, KeptProvisioner
        DEF AttemptStep

\* ... of a Start, a runner or the process.
LEMMA KeptStep ==
    ASSUME TypeOK, Reserved, \A d \in Attempts : Kept(d), Next, NEW a \in Attempts
    PROVE  Kept(a)'
<1> USE DEF rowVars, provVars, idleVars, taskVars, worldVars, boundVars, histVars, TaskFrame
<1>0. Kept(a)
  OBVIOUS
<1>1. ASSUME NEW s \in starting, Create(s) PROVE Kept(a)'
  <2>1. s.id \in Attempts /\ status[s.id] = "none" /\ Kept(s.id)
    BY DEF TypeOK, Reserved
  <2> QED BY <1>0, <1>1, <2>1 DEF Create, TypeOK, Kept
<1>2. ASSUME NEW r \in Remote, RunnerStep(r) PROVE Kept(a)'
  <2>1. CASE LoseRunner(r)
    BY <1>0, <2>1 DEF LoseRunner, On, TypeOK, Kept
  <2>2. CASE Unregister(r) \/ ReapList(r)
    BY <1>0, <2>2 DEF Unregister, ReapList, TypeOK, Kept
  <2>3. CASE Reconnect(r)
    BY <1>0, <2>3 DEF Reconnect, On, TypeOK, Kept
  <2>4. CASE Retention(r)
    BY <1>0, <2>4 DEF Retention, TypeOK, Kept
  <2> QED BY <1>2, <2>1, <2>2, <2>3, <2>4 DEF RunnerStep
<1>3. ASSUME NEW S \in SUBSET Attempts, Delete(S) PROVE Kept(a)'
  BY <1>0, <1>3 DEF Delete, TypeOK, Kept
<1>4. ASSUME NEW S \in SUBSET Attempts, Recover(S) PROVE Kept(a)'
  BY <1>0, <1>4 DEF Recover, Uncollected, TypeOK, Kept
<1>5. CASE Close
  BY <1>0, <1>5 DEF Close, TypeOK, Kept
<1>6. CASE Exit
  BY <1>0, <1>6 DEF Exit, TypeOK, Kept
<1> QED BY <1>1, <1>2, <1>3, <1>4, <1>5, <1>6, KeptEnd, KeptAttempt DEF Next

-----------------------------------------------------------------------------
(* Steps without a failure.                                                *)

\* The bound on faults is used up step by step: none now, none before.
LEMMA FaultsStep == TypeOK /\ Next /\ faults' = 0 => faults = 0
<1> SUFFICES ASSUME TypeOK, Next, faults' = 0 PROVE faults = 0
  OBVIOUS
<1>1. faults \in Nat /\ (NoFault \/ Fault => faults = 0) /\ (UNCHANGED faults => faults = 0)
  BY DEF TypeOK, Fault, NoFault
<1> USE DEF rowVars, provVars, idleVars, taskVars, worldVars, boundVars, histVars, ProvFrame, EndFrame,
            IdleFrame, TaskFrame
<1>2. ASSUME NEW a \in Attempts, AttemptStep(a) PROVE faults = 0
  BY <1>1, <1>2 DEF AttemptStep, Reserve, Track, Provisioner, BeginProvision, ProvisionOK,
     ProvisionError, Precheck, Undo, Resolve, PromoteRead, PromoteWrite, FailProvision,
     Abandon, Finish, Connected, Disconnected, IdleFires, Expire, ReapEnd, DestroyLeftover,
     Remove, Destroy
<1>3. ASSUME NEW s \in starting, Create(s) PROVE faults = 0
  BY <1>1, <1>3 DEF Create
<1>4. ASSUME NEW c \in calls, EndStep(c) PROVE faults = 0
  BY <1>1, <1>4 DEF EndStep, EndSetStatus, EndProgress, EndUntrack, EndDestroy, Destroy
<1>5. ASSUME NEW r \in Remote, RunnerStep(r) PROVE faults = 0
  BY <1>1, <1>5 DEF RunnerStep, LoseRunner, Unregister, ReapList, Reconnect, Retention
<1>6. ASSUME NEW S \in SUBSET Attempts, Delete(S) \/ Recover(S) PROVE faults = 0
  BY <1>1, <1>6 DEF Delete, Recover
<1>7. ASSUME Close \/ Exit PROVE faults = 0
  BY <1>1, <1>7 DEF Close, Exit
<1> QED BY <1>2, <1>3, <1>4, <1>5, <1>6, <1>7 DEF Next

\* A call of end stays on its way until it has ended the attempt, and goes only
\* with the process.
LEMMA EndingStep ==
    ASSUME TypeOK, CallsEnd, Next, faults' = 0, phase' # "down",
           NEW a \in Attempts, Ending(a), HasRow(a), a \notin everEnded'
    PROVE  Ending(a)'
<1> USE DEF rowVars, provVars, idleVars, taskVars, worldVars, boundVars, histVars, ProvFrame, EndFrame,
            IdleFrame, TaskFrame
<1>0. calls \subseteq calls' => Ending(a)'
  BY DEF Ending
<1>1. ASSUME NEW b \in Attempts, AttemptStep(b) PROVE calls \subseteq calls'
  BY <1>1 DEF AttemptStep, Reserve, Track, Provisioner, BeginProvision, ProvisionOK,
     ProvisionError, Precheck, Undo, Resolve, PromoteRead, PromoteWrite, FailProvision,
     Abandon, Finish, Connected, Disconnected, IdleFires, Expire, ReapEnd, DestroyLeftover,
     Remove, BeginEnd
<1>2. ASSUME NEW s \in starting, Create(s) PROVE calls \subseteq calls'
  BY <1>2 DEF Create
<1>3. ASSUME NEW c \in calls, EndStep(c) PROVE Ending(a)'
  <2>1. PICK d \in calls : d.id = a
    BY DEF Ending
  <2>2. everEnded \subseteq everEnded' /\ d.pc = "set_status"
    BY <1>3, <2>1 DEF EndStep, EndSetStatus, EndProgress, EndUntrack, EndDestroy, CallsEnd
  <2>3. CASE c = d
    BY <1>3, <2>1, <2>2, <2>3 DEF EndStep, EndSetStatus, EndProgress, EndUntrack, EndDestroy,
       Fault, TypeOK
  <2>4. CASE c # d
    <3>1. d \in calls'
      BY <1>3, <2>4 DEF EndStep, EndSetStatus, EndProgress, EndUntrack, EndDestroy, Goto
    <3> QED BY <2>1, <3>1 DEF Ending
  <2> QED BY <2>3, <2>4
<1>4. ASSUME NEW r \in Remote, RunnerStep(r) PROVE calls \subseteq calls'
  BY <1>4 DEF RunnerStep, LoseRunner, Unregister, ReapList, Reconnect, Retention
<1>5. ASSUME NEW S \in SUBSET Attempts, Delete(S) \/ Recover(S) PROVE calls \subseteq calls'
  BY <1>5 DEF Delete, Recover
<1>6. CASE Close
  BY <1>0, <1>6 DEF Close
<1>7. CASE Exit
  BY <1>7 DEF Exit
<1> QED BY <1>0, <1>1, <1>2, <1>3, <1>4, <1>5, <1>6, <1>7 DEF Next

\* A caller that found the attempt in a status it may end has a call of end for it.
LEMMA BeginEndEnds ==
    ASSUME NEW a, NEW to, NEW from, BeginEnd(a, to, from)
    PROVE  Ending(a)'
<1>1. EndCall(a, to) \in calls' /\ EndCall(a, to).id = a
  BY DEF BeginEnd, EndCall
<1> QED BY <1>1 DEF Ending

\* An attempt is born by the insert of its row, and alive since then.
LEMMA AliveStep ==
    ASSUME TypeOK, FirstLife, Reserved, Next, NEW a \in Attempts, Alive(a)'
    PROVE  \/ Alive(a) /\ HasRow(a)
           \/ prov'[a] = "created" /\ status[a] = "none"
              /\ \E s \in starting : s.id = a /\ Create(s)
<1> USE DEF rowVars, provVars, idleVars, taskVars, worldVars, boundVars, histVars, ProvFrame, EndFrame,
            IdleFrame, TaskFrame
<1>0. /\ a \notin everEnded => status[a] \in Active \cup {"none"}
      /\ Alive(a) => HasRow(a)
      /\ a \notin everEnded /\ HasRow(a) => Alive(a)
  BY DEF FirstLife, Alive, IsActive, HasRow, Active
<1>8. ASSUME UNCHANGED <<status, everEnded>> PROVE Alive(a)
  BY <1>8 DEF Alive, IsActive
<1>1. ASSUME NEW b \in Attempts, AttemptStep(b) PROVE Alive(a)
  <2>1. CASE PromoteWrite(b)
    BY <1>0, <2>1 DEF PromoteWrite, Alive, IsActive, TypeOK
  <2>2. CASE Remove(b)
    BY <1>0, <2>2 DEF Remove, Alive, IsActive, TypeOK, Active
  <2>3. CASE ~PromoteWrite(b) /\ ~Remove(b)
    BY <1>8, <1>1, <2>3 DEF AttemptStep, Reserve, Track, Provisioner, BeginProvision,
       ProvisionOK, ProvisionError, Precheck, Undo, Resolve, PromoteRead, FailProvision,
       Abandon, Finish, Connected, Disconnected, IdleFires, Expire, ReapEnd, DestroyLeftover
  <2> QED BY <2>1, <2>2, <2>3
<1>2. ASSUME NEW s \in starting, Create(s)
      PROVE  Alive(a) \/ (prov'[a] = "created" /\ status[a] = "none" /\ s.id = a)
  <2>1. s.id \in Attempts /\ status[s.id] = "none"
    BY DEF TypeOK, Reserved
  <2> QED BY <1>8, <1>2, <2>1 DEF Create, Alive, IsActive, TypeOK
<1>3. ASSUME NEW c \in calls, EndStep(c) PROVE Alive(a)
  <2>1. CASE EndSetStatus(c)
    BY <2>1, <1>8 DEF EndSetStatus, Alive, IsActive, TypeOK, Call
  <2>2. CASE EndProgress(c) \/ EndUntrack(c) \/ EndDestroy(c)
    BY <2>2, <1>8 DEF EndProgress, EndUntrack, EndDestroy
  <2> QED BY <1>3, <2>1, <2>2 DEF EndStep
<1>4. ASSUME NEW r \in Remote, RunnerStep(r) PROVE Alive(a)
  BY <1>8, <1>4 DEF RunnerStep, LoseRunner, Unregister, ReapList, Reconnect, Retention
<1>5. ASSUME NEW S \in SUBSET Attempts, Delete(S) PROVE Alive(a)
  BY <1>8, <1>5 DEF Delete
<1>6. ASSUME NEW S \in SUBSET Attempts, Recover(S) PROVE Alive(a)
  BY <1>6 DEF Recover, Alive, IsActive, TypeOK
<1>7. ASSUME Close \/ Exit PROVE Alive(a)
  BY <1>8, <1>7 DEF Close, Exit
<1> QED BY <1>0, <1>1, <1>2, <1>3, <1>4, <1>5, <1>6, <1>7 DEF Next

\* Only Recover brings the service up.
LEMMA PhaseStep ==
    ASSUME Next, phase' = "up", phase # "up"
    PROVE  \E S \in SUBSET Attempts : Recover(S)
<1> USE DEF ProvFrame, EndFrame, IdleFrame, TaskFrame
<1>1. ASSUME NEW b \in Attempts, AttemptStep(b) PROVE FALSE
  BY <1>1 DEF AttemptStep, Reserve, Track, Provisioner, BeginProvision, ProvisionOK,
     ProvisionError, Precheck, Undo, Resolve, PromoteRead, PromoteWrite, FailProvision,
     Abandon, Finish, Connected, Disconnected, IdleFires, Expire, ReapEnd, DestroyLeftover, Remove
<1>2. ASSUME NEW s \in starting, Create(s) PROVE FALSE
  BY <1>2 DEF Create
<1>3. ASSUME NEW c \in calls, EndStep(c) PROVE FALSE
  BY <1>3 DEF EndStep, EndSetStatus, EndProgress, EndUntrack, EndDestroy
<1>4. ASSUME NEW r \in Remote, RunnerStep(r) PROVE FALSE
  BY <1>4 DEF RunnerStep, LoseRunner, Unregister, ReapList, Reconnect, Retention
<1>5. ASSUME NEW S \in SUBSET Attempts, Delete(S) PROVE FALSE
  BY <1>5 DEF Delete
<1>6. ASSUME Close \/ Exit PROVE FALSE
  BY <1>6 DEF Close, Exit
<1> QED BY <1>1, <1>2, <1>3, <1>4, <1>5, <1>6 DEF Next

\* Recover ends every attempt that was alive before it serves anyone.
LEMMA RecoverStep ==
    ASSUME TypeOK, NEW S \in SUBSET Attempts, Recover(S), phase' = "up"
    PROVE  \A a \in Attempts : ~IsActive(a)'
BY DEF Recover, IsActive, TypeOK, Active

-----------------------------------------------------------------------------
(* No living attempt escapes the idle timer.                               *)

\* What keeps an attempt watched while it lives: nothing of it changes, or only
\* in the direction of its end.
LEMMA StillWatched ==
    ASSUME TypeOK, CallsEnd, Next, faults' = 0, phase' = "up", phase = "up",
           NEW a \in Attempts, WatchedOne(a), Alive(a), HasRow(a), Alive(a)',
           prov[a] # "created", a \in tracked',
           conns[a] > 0 \/ idle[a] = "waiting" \/ a \in expiring
              => \/ conns'[a] > 0 \/ idle'[a] = "waiting" \/ a \in expiring' \/ Ending(a)'
    PROVE  WatchedOne(a)'
<1>1. Ending(a) => Ending(a)'
  BY EndingStep DEF Alive
<1> QED BY <1>1 DEF WatchedOne

\* What Watched says of one attempt is kept by every step.
LEMMA WatchedStep ==
    ASSUME IInv, Books, Next, faults' = 0, \A d \in Attempts : WatchedOne(d),
           NEW a \in Attempts
    PROVE  WatchedOne(a)'
<1> SUFFICES ASSUME phase' = "up", Alive(a)', prov'[a] # "created" PROVE WatchedOne(a)'
  BY DEF WatchedOne
<1> USE DEF rowVars, provVars, idleVars, taskVars, worldVars, boundVars, histVars, ProvFrame, EndFrame,
            IdleFrame, TaskFrame
<1>0. TypeOK /\ CallsEnd /\ Kept(a) /\ WatchedOne(a) /\ Alive(a) /\ HasRow(a)
  BY AliveStep DEF IInv, Books
<1>1. ASSUME phase = "up", prov[a] # "created", UNCHANGED <<tracked, conns, idle>>,
             expiring \subseteq expiring'
      PROVE  WatchedOne(a)'
  BY <1>0, <1>1, StillWatched DEF WatchedOne
<1>2. ASSUME NEW b \in Attempts, AttemptStep(b) PROVE WatchedOne(a)'
  <2>1. CASE Track(b)
    <3>1. CASE a = b
      BY <2>1, <3>1, <1>0 DEF Track, WatchedOne, FreshTimer, TypeOK
    <3>2. CASE a # b
      <4>1. prov[a] # "created" /\ phase = "up" /\ a \in tracked'
        BY <2>1, <3>2, <1>0 DEF Track, TypeOK, WatchedOne
      <4> QED BY <2>1, <3>2, <4>1, <1>0, StillWatched DEF Track, TypeOK
    <3> QED BY <3>1, <3>2
  <2>2. CASE Provisioner(b)
    <3>1. prov[a] # "created" /\ phase = "up" /\ UNCHANGED <<tracked, conns, idle, expiring>>
      BY <2>2, <1>0 DEF Provisioner, BeginProvision, ProvisionOK, ProvisionError, Precheck,
         Undo, Resolve, PromoteRead, PromoteWrite, FailProvision, TypeOK
    <3> QED BY <3>1, <1>1
  <2>3. CASE Connected(b) \/ Disconnected(b) \/ IdleFires(b)
    <3>1. prov[a] # "created" /\ phase = "up" /\ a \in tracked'
      BY <2>3, <1>0 DEF Connected, Disconnected, IdleFires, WatchedOne
    <3>2. conns[a] > 0 \/ idle[a] = "waiting" \/ a \in expiring
             => conns'[a] > 0 \/ idle'[a] = "waiting" \/ a \in expiring'
      BY <2>3, <3>1, <1>0 DEF Connected, Disconnected, IdleFires, Decrement, Rearm, Kept, TypeOK
    <3> QED BY <3>1, <3>2, <1>0, StillWatched
  <2>4. CASE Expire(b)
    <3>1. prov[a] # "created" /\ phase = "up" /\ UNCHANGED <<tracked, conns, idle>>
      BY <2>4, <1>0 DEF Expire
    <3>2. a # b => (a \in expiring' <=> a \in expiring)
      BY <2>4 DEF Expire
    <3>3. a = b => BeginEnd(a, "expired", Active)
      BY <2>4, <1>0 DEF Expire, Fault, TypeOK, Alive
    <3>4. a = b => Ending(a)'
      BY <3>3, BeginEndEnds
    <3> QED BY <3>1, <3>2, <3>4, <1>0, StillWatched DEF WatchedOne
  <2>5. CASE Reserve(b) \/ Abandon(b) \/ Finish(b) \/ ReapEnd(b) \/ DestroyLeftover(b) \/ Remove(b)
    BY <2>5, <1>1 DEF Reserve, Abandon, Finish, ReapEnd, DestroyLeftover, Remove
  <2> QED BY <1>2, <2>1, <2>2, <2>3, <2>4, <2>5 DEF AttemptStep
<1>3. ASSUME NEW s \in starting, Create(s) PROVE WatchedOne(a)'
  <2>1. prov[a] # "created" /\ phase = "up"
    BY <1>3, <1>0 DEF Create, TypeOK
  <2> QED BY <1>1, <1>3, <2>1 DEF Create
<1>4. ASSUME NEW c \in calls, EndStep(c) PROVE WatchedOne(a)'
  <2>1. prov[a] # "created" /\ phase = "up"
    BY <1>4 DEF EndStep, EndSetStatus, EndProgress, EndUntrack, EndDestroy
  <2>2. CASE EndUntrack(c)
    <3>1. c.id # a
      BY <2>2, <1>0 DEF EndUntrack, CallsEnd, Alive
    <3>2. a \in tracked' /\ conns'[a] = conns[a] /\ idle'[a] = idle[a] /\ UNCHANGED expiring
      BY <2>1, <2>2, <3>1, <1>0 DEF EndUntrack, TypeOK, Call, WatchedOne
    <3> QED BY <2>1, <3>2, <1>0, StillWatched
  <2>3. CASE ~EndUntrack(c)
    BY <1>1, <1>4, <2>1, <2>3 DEF EndStep, EndSetStatus, EndProgress, EndDestroy
  <2> QED BY <2>2, <2>3
<1>5. ASSUME NEW r \in Remote, RunnerStep(r) PROVE WatchedOne(a)'
  BY <1>1, <1>5 DEF RunnerStep, LoseRunner, Unregister, ReapList, Reconnect, Retention
<1>6. ASSUME NEW S \in SUBSET Attempts, Delete(S) PROVE WatchedOne(a)'
  BY <1>1, <1>6 DEF Delete
<1>7. ASSUME NEW S \in SUBSET Attempts, Recover(S) PROVE WatchedOne(a)'
  BY <1>0, <1>7, RecoverStep DEF Alive
<1>8. ASSUME Close \/ Exit PROVE FALSE
  BY <1>8 DEF Close, Exit
<1> QED BY <1>2, <1>3, <1>4, <1>5, <1>6, <1>7, <1>8 DEF Next

-----------------------------------------------------------------------------
(* No running attempt is without its sandbox.                              *)

\* Who is about to end a living attempt goes on to do it.
LEMMA DoomedStep ==
    ASSUME TypeOK, Reserved, CallsEnd, Next, faults' = 0, phase' = "up",
           NEW a \in Attempts, Alive(a), HasRow(a), Alive(a)', Doomed(a)
    PROVE  Doomed(a)'
<1> USE DEF rowVars, provVars, idleVars, taskVars, worldVars, boundVars, histVars, ProvFrame, EndFrame,
            IdleFrame, TaskFrame
<1>0. Ending(a) => Ending(a)'
  BY EndingStep DEF Alive
<1>1. ASSUME place'[a] = place[a], dropped \subseteq dropped', reap \subseteq reap'
      PROVE  Doomed(a)'
  BY <1>0, <1>1 DEF Doomed
<1>2. ASSUME NEW b \in Attempts, AttemptStep(b) PROVE Doomed(a)'
  <2>1. CASE ReapEnd(b)
    <3>1. CASE a = b
      <4>1. BeginEnd(a, "error", Active)
        BY <2>1, <3>1 DEF ReapEnd, Fault, TypeOK, Alive
      <4> QED BY <4>1, BeginEndEnds DEF Doomed
    <3>2. CASE a # b
      BY <1>0, <2>1, <3>2 DEF ReapEnd, Doomed
    <3> QED BY <3>1, <3>2
  <2>2. CASE ~ReapEnd(b)
    BY <1>1, <1>2, <2>2 DEF AttemptStep, Reserve, Track, Provisioner, BeginProvision, ProvisionOK,
       ProvisionError, Precheck, Undo, Resolve, PromoteRead, PromoteWrite, FailProvision,
       Abandon, Finish, Connected, Disconnected, IdleFires, Expire, DestroyLeftover, Remove
  <2> QED BY <2>1, <2>2
<1>3. ASSUME NEW s \in starting, Create(s) PROVE Doomed(a)'
  <2>1. s.id # a
    BY DEF Reserved, HasRow
  <2> QED BY <1>1, <1>3, <2>1 DEF Create, TypeOK
<1>4. ASSUME NEW c \in calls, EndStep(c) PROVE Doomed(a)'
  BY <1>1, <1>4 DEF EndStep, EndSetStatus, EndProgress, EndUntrack, EndDestroy
<1>5. ASSUME NEW r \in Remote, RunnerStep(r) PROVE Doomed(a)'
  <2>1. CASE ReapList(r)
    BY <1>0, <2>1 DEF ReapList, Doomed, On, Fault, TypeOK, Alive
  <2>2. CASE ~ReapList(r)
    BY <1>1, <1>5, <2>2 DEF RunnerStep, LoseRunner, Unregister, OnDisconnect, Reconnect, Retention
  <2> QED BY <2>1, <2>2
<1>6. ASSUME NEW S \in SUBSET Attempts, Delete(S) PROVE Doomed(a)'
  BY <1>1, <1>6 DEF Delete
<1>7. ASSUME NEW S \in SUBSET Attempts, Recover(S) PROVE Doomed(a)'
  BY <1>7, RecoverStep DEF Alive
<1>8. ASSUME Close \/ Exit PROVE FALSE
  BY <1>8 DEF Close, Exit
<1> QED BY <1>2, <1>3, <1>4, <1>5, <1>6, <1>7, <1>8 DEF Next

\* Every step keeps a living attempt Provided.
LEMMA ProvidedStep ==
    ASSUME IInv, Books, Next, faults' = 0, \A d \in Attempts : Provided(d),
           NEW a \in Attempts
    PROVE  Provided(a)'
<1> SUFFICES ASSUME phase' = "up", Alive(a)' PROVE Provided(a)'
  BY DEF Provided
<1> USE DEF rowVars, provVars, idleVars, taskVars, worldVars, boundVars, histVars, ProvFrame, EndFrame,
            IdleFrame, TaskFrame
<1>0. TypeOK /\ TypeOK' /\ CallsEnd /\ FirstLife /\ Reserved /\ Kept(a) /\ Kept(a)' /\ Provided(a)
  BY NextType, KeptStep DEF IInv, Books
<1>1. CASE ~Alive(a)
  <2>1. prov'[a] = "created" /\ status'[a] # "running"
    BY <1>0, <1>1, AliveStep DEF Kept
  <2> QED BY <1>0, <2>1 DEF Provided, Kept
<1>2. CASE Alive(a) /\ phase = "up"
  <2>0. HasRow(a) /\ (Doomed(a) => Doomed(a)')
    BY <1>0, <1>2, DoomedStep DEF Alive, IsActive, HasRow, Active
  <2>1. ASSUME UNCHANGED <<prov, place, connected, sandbox, bound, leftover, finishing,
                           replaced>>,
               status'[a] = status[a]
        PROVE  Provided(a)'
    BY <1>0, <1>2, <2>0, <2>1 DEF Provided
  <2>2. ASSUME NEW b \in Attempts, Provisioner(b) PROVE Provided(a)'
    <3>1. CASE a # b
      <4>1. /\ prov'[a] = prov[a] /\ status'[a] = status[a]
            /\ UNCHANGED <<place, connected, leftover, finishing, replaced>>
            /\ (a \in sandbox' <=> a \in sandbox) /\ (a \in bound' <=> a \in bound)
        BY <1>0, <2>2, <3>1 DEF Provisioner, BeginProvision, ProvisionOK, ProvisionError, Precheck,
           Undo, Destroy, Resolve, PromoteRead, PromoteWrite, FailProvision, TypeOK
      <4> QED BY <1>0, <1>2, <2>0, <4>1 DEF Provided
    <3>2. CASE a = b
      <4>1. CASE ProvisionOK(a)
        BY <1>0, <1>2, <2>0, <4>1 DEF ProvisionOK, Provided, Kept, TypeOK
      <4>2. CASE PromoteWrite(a)
        BY <1>0, <1>2, <2>0, <4>2 DEF PromoteWrite, Provided, TypeOK
      <4>3. CASE Precheck(a)
        <5>1. prov'[a] \in {"promote", "undo_fail", "undo_retry"}
          BY <1>0, <4>3 DEF Precheck, TypeOK
        <5> QED BY <1>0, <1>2, <2>0, <4>3, <5>1 DEF Precheck, Provided, TypeOK
      <4>4. CASE PromoteRead(a)
        <5>1. prov'[a] \in {"promote_write", "undo_done", "done"}
          BY <1>0, <4>4 DEF PromoteRead, TypeOK, AfterPromoteRead
        <5> QED BY <1>0, <1>2, <2>0, <4>4, <5>1 DEF PromoteRead, Provided, TypeOK
      <4>5. CASE BeginProvision(a) \/ Resolve(a) \/ FailProvision(a) \/ ProvisionError(a)
        <5>1. /\ prov'[a] \in {"provision", "fail", "done"} /\ sandbox' \subseteq sandbox
              /\ UNCHANGED <<status, place, connected, leftover, finishing, replaced>>
              /\ prov[a] # "done"
          BY <1>0, <4>5 DEF BeginProvision, Resolve, FailProvision, ProvisionError, AfterError, TypeOK
        <5> QED BY <1>0, <1>2, <2>0, <5>1 DEF Provided, Kept
      <4>6. CASE Undo(a)
        <5>1. /\ prov'[a] \in {"resolve", "fail", "done"} /\ sandbox' \subseteq sandbox
              /\ UNCHANGED <<status, place, connected, leftover, finishing, replaced>>
              /\ prov[a] # "done"
          BY <1>0, <4>6 DEF Undo, Destroy, AfterError, TypeOK
        <5> QED BY <1>0, <1>2, <2>0, <5>1 DEF Provided, Kept
      <4> QED BY <2>2, <3>2, <4>1, <4>2, <4>3, <4>4, <4>5, <4>6 DEF Provisioner
    <3> QED BY <3>1, <3>2
  <2>3. ASSUME NEW b \in Attempts, AttemptStep(b), ~Provisioner(b) PROVE Provided(a)'
    <3>1. CASE Track(b)
      BY <1>0, <1>2, <2>0, <3>1 DEF Track, Provided, Kept, TypeOK
    <3>2. CASE DestroyLeftover(b)
      BY <1>0, <1>2, <2>0, <3>2 DEF DestroyLeftover, Provided
    <3>3. CASE Remove(b)
      <4>1. a # b
        BY <1>0, <1>2, <3>3 DEF Remove, FirstLife, Alive
      <4> QED BY <1>0, <2>1, <3>3, <4>1 DEF Remove, TypeOK
    <3>4. CASE ~Track(b) /\ ~DestroyLeftover(b) /\ ~Remove(b)
      BY <2>1, <2>3, <3>4 DEF AttemptStep, Reserve, Abandon, Finish, Connected, Disconnected,
         IdleFires, Expire, ReapEnd
    <3> QED BY <3>1, <3>2, <3>3, <3>4
  <2>4. ASSUME NEW s \in starting, Create(s) PROVE Provided(a)'
    <3>1. s.id # a
      BY <1>0, <2>0 DEF Reserved, HasRow
    <3> QED BY <1>0, <1>2, <2>0, <2>4, <3>1 DEF Create, Provided, TypeOK
  <2>5. ASSUME NEW c \in calls, EndStep(c) PROVE Provided(a)'
    <3>1. CASE EndSetStatus(c)
      <4>1. c.id # a \/ UNCHANGED status
        BY <3>1 DEF EndSetStatus, Alive
      <4> QED BY <1>0, <2>1, <3>1, <4>1 DEF EndSetStatus, TypeOK, Call
    <3>2. CASE EndDestroy(c)
      <4>1. c.id # a
        BY <1>0, <1>2, <3>2 DEF EndDestroy, CallsEnd, Alive
      <4> QED BY <1>0, <1>2, <2>0, <3>2, <4>1 DEF EndDestroy, Destroy, Provided
    <3>3. CASE EndProgress(c) \/ EndUntrack(c)
      BY <2>1, <3>3 DEF EndProgress, EndUntrack
    <3> QED BY <2>5, <3>1, <3>2, <3>3 DEF EndStep
  <2>6. ASSUME NEW r \in Remote, RunnerStep(r) PROVE Provided(a)'
    <3>1. CASE LoseRunner(r)
      BY <1>0, <1>2, <2>0, <3>1 DEF LoseRunner, On, Provided
    <3>5. CASE Unregister(r)
      BY <1>0, <1>2, <2>0, <3>5 DEF Unregister, OnDisconnect, Provided, Doomed
    <3>2. CASE ReapList(r)
      BY <2>1, <3>2 DEF ReapList
    <3>3. CASE Reconnect(r)
      BY <1>0, <1>2, <2>0, <3>3 DEF Reconnect, On, Provided
    <3>4. CASE Retention(r)
      BY <1>0, <1>2, <2>0, <3>4 DEF Retention, On, Provided
    <3> QED BY <2>6, <3>1, <3>2, <3>3, <3>4, <3>5 DEF RunnerStep
  <2>7. ASSUME NEW S \in SUBSET Attempts, Delete(S) PROVE Provided(a)'
    BY <2>1, <2>7 DEF Delete
  <2>8. ASSUME NEW S \in SUBSET Attempts, Recover(S) PROVE FALSE
    BY <1>2, <2>8 DEF Recover
  <2>9. ASSUME Close \/ Exit PROVE FALSE
    BY <2>9 DEF Close, Exit
  <2> QED BY <2>2, <2>3, <2>4, <2>5, <2>6, <2>7, <2>8, <2>9 DEF Next
<1>3. CASE phase # "up"
  <2>1. \E S \in SUBSET Attempts : Recover(S)
    BY <1>3, PhaseStep
  <2> QED BY <1>0, <2>1, RecoverStep DEF Alive
<1> QED BY <1>1, <1>2, <1>3

-----------------------------------------------------------------------------
(* No sandbox is forgotten.                                                *)

\* What the two invariants about sandboxes speak of, for one attempt: unchanged.
Still(a) ==
    /\ prov'[a] = prov[a] /\ status'[a] = status[a] /\ place'[a] = place[a]
    /\ (a \in sandbox' => a \in sandbox) /\ (a \in leftover => a \in leftover')
    /\ UNCHANGED connected

\* Every step keeps Abandoned: the goroutine that fails or tries again has
\* destroyed its sandbox, or its runner is away and will report it.
LEMMA AbandonedStep ==
    ASSUME IInv, Books, Next, faults' = 0, \A d \in Attempts : Abandoned(d),
           NEW a \in Attempts
    PROVE  Abandoned(a)'
<1> SUFFICES ASSUME phase' = "up" PROVE Abandoned(a)'
  BY DEF Abandoned
<1> USE DEF rowVars, provVars, idleVars, taskVars, worldVars, boundVars, histVars, ProvFrame, EndFrame,
            IdleFrame, TaskFrame
<1>0. TypeOK /\ Reserved /\ Kept(a) /\ Kept(a)' /\ Abandoned(a) /\ (NoFault \/ ~Fault)
  BY KeptStep DEF IInv, Books, Fault, NoFault, TypeOK
<1>1. CASE phase # "up"
  <2>1. \E S \in SUBSET Attempts : Recover(S)
    BY <1>1, PhaseStep
  <2>2. prov'[a] \in {"none", "done"}
    BY <1>0, <2>1 DEF Recover, Kept
  <2> QED BY <2>2 DEF Abandoned
<1>2. CASE phase = "up"
  <2>0. Still(a) => Abandoned(a)'
    BY <1>0, <1>2 DEF Still, Abandoned
  <2>1. ASSUME NEW b \in Attempts, Provisioner(b) PROVE Abandoned(a)'
    <3>1. CASE a # b
      <4>1. Still(a)
        BY <1>0, <2>1, <3>1 DEF Provisioner, BeginProvision, ProvisionOK, ProvisionError, Precheck,
           Undo, Destroy, Resolve, PromoteRead, PromoteWrite, FailProvision, TypeOK, Still
      <4> QED BY <2>0, <4>1
    <3>2. CASE a = b
      <4>1. CASE BeginProvision(a)
        BY <1>0, <4>1 DEF BeginProvision, AfterError, Kept, Abandoned
      <4>2. CASE ProvisionError(a)
        BY <1>0, <1>2, <4>2 DEF ProvisionError, AfterError, Abandoned, TypeOK
      <4>3. CASE Undo(a)
        BY <1>0, <4>3 DEF Undo, Destroy, Fault, TypeOK, Abandoned
      <4>4. CASE Resolve(a)
        BY <1>0, <1>2, <4>4 DEF Resolve, Abandoned
      <4>5. CASE ProvisionOK(a) \/ PromoteWrite(a) \/ FailProvision(a)
        BY <1>0, <4>5 DEF ProvisionOK, PromoteWrite, FailProvision, Abandoned, TypeOK
      <4>6. CASE Precheck(a)
        <5>1. prov'[a] \in {"promote", "undo_fail", "undo_retry"}
          BY <1>0, <4>6 DEF Precheck, TypeOK
        <5> QED BY <5>1 DEF Abandoned
      <4>7. CASE PromoteRead(a)
        <5>1. prov'[a] \in {"promote_write", "undo_done", "done"}
          BY <1>0, <4>7 DEF PromoteRead, TypeOK, AfterPromoteRead
        <5> QED BY <5>1 DEF Abandoned
      <4> QED BY <2>1, <3>2, <4>1, <4>2, <4>3, <4>4, <4>5, <4>6, <4>7 DEF Provisioner
    <3> QED BY <3>1, <3>2
  <2>2. ASSUME NEW b \in Attempts, AttemptStep(b), ~Provisioner(b) PROVE Abandoned(a)'
    <3>1. CASE Track(b)
      BY <1>0, <1>2, <3>1 DEF Track, Abandoned, Kept, TypeOK
    <3>2. CASE DestroyLeftover(b)
      BY <1>0, <1>2, <3>2 DEF DestroyLeftover, Fault, TypeOK, Abandoned
    <3>3. CASE Remove(b)
      BY <1>0, <1>2, <3>3 DEF Remove, Abandoned
    <3>4. CASE ~Track(b) /\ ~DestroyLeftover(b) /\ ~Remove(b)
      BY <2>0, <2>2, <3>4 DEF AttemptStep, Reserve, Abandon, Finish, Connected, Disconnected,
         IdleFires, Expire, ReapEnd, Still
    <3> QED BY <3>1, <3>2, <3>3, <3>4
  <2>3. ASSUME NEW s \in starting, Create(s) PROVE Abandoned(a)'
    <3>1. s.id \in Attempts
      BY <1>0 DEF TypeOK
    <3> QED BY <1>0, <1>2, <2>3, <3>1 DEF Create, Abandoned, TypeOK
  <2>4. ASSUME NEW c \in calls, EndStep(c) PROVE Abandoned(a)'
    BY <1>0, <1>2, <2>4 DEF EndStep, EndSetStatus, EndProgress, EndUntrack, EndDestroy, Destroy,
       Abandoned
  <2>5. ASSUME NEW r \in Remote, RunnerStep(r) PROVE Abandoned(a)'
    <3>1. CASE LoseRunner(r)
      BY <1>0, <1>2, <3>1 DEF LoseRunner, On, Abandoned
    <3>2. CASE Reconnect(r)
      BY <1>0, <1>2, <3>2 DEF Reconnect, On, Abandoned
    <3>3. CASE Unregister(r) \/ ReapList(r) \/ Retention(r)
      BY <2>0, <3>3 DEF Unregister, ReapList, Retention, Still
    <3> QED BY <2>5, <3>1, <3>2, <3>3 DEF RunnerStep
  <2>6. ASSUME NEW S \in SUBSET Attempts, Delete(S) \/ Recover(S) PROVE Abandoned(a)'
    BY <1>2, <2>0, <2>6 DEF Delete, Recover, Still
  <2>7. ASSUME Close \/ Exit PROVE FALSE
    BY <2>7 DEF Close, Exit
  <2> QED BY <2>1, <2>2, <2>3, <2>4, <2>5, <2>6, <2>7 DEF Next
<1> QED BY <1>1, <1>2

\* A removed row stays removed: while none is, none was.
LEMMA DeletedStep ==
    ASSUME TypeOK, Reserved, Next, NoneDeleted'
    PROVE  NoneDeleted
<1> SUFFICES ASSUME NEW a \in Attempts, status[a] = "deleted" PROVE status'[a] = "deleted"
  BY DEF NoneDeleted
<1> USE DEF rowVars, provVars, idleVars, taskVars, worldVars, boundVars, histVars, ProvFrame, EndFrame,
            IdleFrame, TaskFrame
<1>1. ASSUME NEW b \in Attempts, AttemptStep(b) PROVE status'[a] = "deleted"
  BY <1>1 DEF AttemptStep, Reserve, Track, Provisioner, BeginProvision, ProvisionOK,
     ProvisionError, Precheck, Undo, Resolve, PromoteRead, PromoteWrite, FailProvision,
     Abandon, Finish, Connected, Disconnected, IdleFires, Expire, ReapEnd, DestroyLeftover,
     Remove, HasRow, TypeOK
<1>2. ASSUME NEW s \in starting, Create(s) PROVE status'[a] = "deleted"
  BY <1>2 DEF Create, Reserved, TypeOK
<1>3. ASSUME NEW c \in calls, EndStep(c) PROVE status'[a] = "deleted"
  BY <1>3 DEF EndStep, EndSetStatus, EndProgress, EndUntrack, EndDestroy, HasRow, TypeOK
<1>4. ASSUME NEW r \in Remote, RunnerStep(r) PROVE status'[a] = "deleted"
  BY <1>4 DEF RunnerStep, LoseRunner, Unregister, ReapList, Reconnect, Retention
<1>5. ASSUME NEW S \in SUBSET Attempts, Delete(S) \/ Recover(S) PROVE status'[a] = "deleted"
  BY <1>5 DEF Delete, Recover, IsActive, Active
<1>6. ASSUME Close \/ Exit PROVE status'[a] = "deleted"
  BY <1>6 DEF Close, Exit
<1> QED BY <1>1, <1>2, <1>3, <1>4, <1>5, <1>6 DEF Next

\* A call of end that moved on is still under way.
LEMMA GotoEnding ==
    ASSUME TypeOK, NEW c \in calls, NEW pc \in CallStep, calls' = Goto(c, pc),
           NEW a \in Attempts, Ending(a)
    PROVE  Ending(a)'
<1>1. [c EXCEPT !.pc = pc] \in calls' /\ [c EXCEPT !.pc = pc].id = c.id
  BY DEF Goto, TypeOK, Call
<1>2. PICK d \in calls : d.id = a
  BY DEF Ending
<1>3. CASE d = c
  BY <1>1, <1>2, <1>3 DEF Ending
<1>4. CASE d # c
  BY <1>2, <1>4 DEF Ending, Goto
<1> QED BY <1>3, <1>4

\* Every step keeps the sandbox of attempt a accounted for: whoever stops
\* answering for it has destroyed it, or passed it on.
LEMMA AccountedStep ==
    ASSUME IInv, Books, Next, faults' = 0, NoneDeleted, NoneDeleted',
           NEW a \in Attempts, Abandoned(a), AccountedOne(a)
    PROVE  AccountedOne(a)'
<1> SUFFICES ASSUME phase' = "up", a \in sandbox' PROVE AccountedOne(a)'
  BY DEF AccountedOne
<1> USE DEF rowVars, provVars, idleVars, taskVars, worldVars, boundVars, histVars, ProvFrame, EndFrame,
            IdleFrame, TaskFrame
<1>0. TypeOK /\ Reserved /\ Kept(a) /\ Kept(a)' /\ ~Fault
  BY KeptStep DEF IInv, Books, Fault, TypeOK
<1>1. CASE phase # "up"
  <2>1. PICK S \in SUBSET Attempts : Recover(S)
    BY <1>1, PhaseStep
  <2> QED BY <1>0, <2>1 DEF Recover, Uncollected, AccountedOne
<1>2. CASE phase = "up"
  <2>0. ASSUME Still(a), calls \subseteq calls' PROVE AccountedOne(a)'
    BY <1>0, <1>2, <2>0 DEF Still, AccountedOne, Ending, IsActive
  <2>1. ASSUME NEW b \in Attempts, Provisioner(b) PROVE AccountedOne(a)'
    <3>0. calls \subseteq calls'
      BY <2>1 DEF Provisioner, BeginProvision, ProvisionOK, ProvisionError, Precheck,
         Undo, Resolve, PromoteRead, PromoteWrite, FailProvision, BeginEnd
    <3>1. CASE a # b
      <4>1. Still(a)
        BY <1>0, <2>1, <3>1 DEF Provisioner, BeginProvision, ProvisionOK, ProvisionError, Precheck,
           Undo, Destroy, Resolve, PromoteRead, PromoteWrite, FailProvision, TypeOK, Still
      <4> QED BY <2>0, <3>0, <4>1
    <3>2. CASE a = b
      <4>0. prov'[a] \notin {"none", "done"} => AccountedOne(a)'
        BY <1>0, NextType DEF AccountedOne, IInv, TypeOK
      <4>1. CASE Undo(a)
        BY <1>0, <4>1 DEF Undo, Destroy, AccountedOne
      <4>2. CASE PromoteWrite(a)
        BY <1>0, <4>2 DEF PromoteWrite, TypeOK, AccountedOne, IsActive, Active, Kept, HasRow,
           NoneDeleted
      <4>3. CASE FailProvision(a)
        BY <1>0, <1>2, <4>3 DEF FailProvision, Abandoned, AccountedOne
      <4>4. CASE PromoteRead(a)
        <5>1. HasRow(a)
          BY <1>0, <4>4 DEF PromoteRead, Kept, HasRow, NoneDeleted
        <5>2. prov'[a] \in {"promote_write", "undo_done"}
          BY <1>0, <4>4, <5>1 DEF PromoteRead, TypeOK, AfterPromoteRead
        <5> QED BY <4>0, <5>2
      <4>5. CASE Precheck(a)
        <5>1. prov'[a] \in {"promote", "undo_fail", "undo_retry"}
          BY <1>0, <4>5 DEF Precheck, TypeOK
        <5> QED BY <4>0, <5>1
      <4>6. CASE BeginProvision(a) \/ ProvisionOK(a) \/ ProvisionError(a) \/ Resolve(a)
        BY <1>0, <1>2, <4>0, <4>6 DEF BeginProvision, ProvisionOK, ProvisionError, Resolve,
           AfterError, TypeOK
      <4> QED BY <2>1, <3>2, <4>1, <4>2, <4>3, <4>4, <4>5, <4>6 DEF Provisioner
    <3> QED BY <3>1, <3>2
  <2>2. ASSUME NEW b \in Attempts, AttemptStep(b), ~Provisioner(b) PROVE AccountedOne(a)'
    <3>1. CASE Track(b)
      BY <1>0, <1>2, <3>1 DEF Track, AccountedOne, Kept, TypeOK, Ending, IsActive
    <3>2. CASE DestroyLeftover(b)
      BY <1>0, <1>2, <3>2 DEF DestroyLeftover, AccountedOne, Ending, IsActive
    <3>3. CASE Remove(b)
      <4>1. UNCHANGED status
        BY <1>0, <3>3 DEF Remove, HasRow, NoneDeleted, TypeOK
      <4> QED BY <2>0, <3>3, <4>1 DEF Remove, Still
    <3>4. CASE ~Track(b) /\ ~DestroyLeftover(b) /\ ~Remove(b)
      BY <2>0, <2>2, <3>4 DEF AttemptStep, Reserve, Abandon, Finish, Connected, Disconnected,
         IdleFires, Expire, ReapEnd, Still, BeginEnd
    <3> QED BY <3>1, <3>2, <3>3, <3>4
  <2>3. ASSUME NEW s \in starting, Create(s) PROVE AccountedOne(a)'
    <3>1. s.id # a
      BY <1>0, <2>3 DEF TypeOK, Reserved, Create, Kept
    <3> QED BY <1>0, <2>0, <2>3, <3>1 DEF Create, Still, TypeOK
  <2>4. ASSUME NEW c \in calls, EndStep(c) PROVE AccountedOne(a)'
    <3>0. c.id \in Attempts
      BY <1>0 DEF TypeOK, Call
    <3>1. ASSUME NEW pc \in CallStep, calls' = Goto(c, pc), Still(a) PROVE AccountedOne(a)'
      BY <1>0, <1>2, <3>1, GotoEnding DEF AccountedOne, Still, IsActive
    <3>2. CASE EndSetStatus(c)
      <4>1. CASE calls' = Goto(c, AfterSetStatus(c))
        <5>1. AfterSetStatus(c) \in CallStep
          BY DEF AfterSetStatus, CallStep
        <5>2. CASE c.id = a
          <6>1. Ending(a)'
            BY <1>0, <4>1, <5>1, <5>2, GotoEnding DEF Ending
          <6> QED BY <6>1 DEF AccountedOne
        <5>3. CASE c.id # a
          BY <1>0, <3>0, <3>1, <3>2, <4>1, <5>1, <5>3 DEF EndSetStatus, Still, TypeOK
        <5> QED BY <5>2, <5>3
      <4>2. CASE ~HasRow(c.id) /\ UNCHANGED status /\ calls' = calls \ {c}
        <5>1. c.id # a
          BY <1>0, <3>2, <4>2 DEF EndSetStatus, Kept, HasRow, NoneDeleted
        <5>2. Ending(a) => Ending(a)'
          BY <4>2, <5>1 DEF Ending
        <5> QED BY <1>2, <3>2, <4>2, <5>2 DEF EndSetStatus, AccountedOne, IsActive
      <4> QED BY <1>0, <3>2, <4>1, <4>2 DEF EndSetStatus
    <3>3. CASE EndProgress(c) \/ EndUntrack(c)
      <4>1. Still(a) /\ calls' = Goto(c, IF c.pc = "progress" THEN "untrack" ELSE "destroy")
        BY <1>0, <3>3 DEF EndProgress, EndUntrack, Still
      <4> QED BY <3>1, <4>1 DEF CallStep
    <3>4. CASE EndDestroy(c)
      <4>1. CASE c.id = a
        BY <1>0, <3>4, <4>1 DEF EndDestroy, Destroy, AccountedOne
      <4>2. CASE c.id # a
        <5>1. Ending(a) => Ending(a)'
          BY <3>4, <4>2 DEF EndDestroy, Ending
        <5> QED BY <1>0, <1>2, <3>4, <5>1 DEF EndDestroy, Destroy, AccountedOne, IsActive
      <4> QED BY <4>1, <4>2
    <3> QED BY <2>4, <3>2, <3>3, <3>4 DEF EndStep
  <2>5. ASSUME NEW r \in Remote, RunnerStep(r) PROVE AccountedOne(a)'
    <3>1. CASE LoseRunner(r)
      BY <1>0, <1>2, <3>1 DEF LoseRunner, On, AccountedOne, Ending, IsActive, ProvStep
    <3>2. CASE Reconnect(r)
      BY <1>0, <1>2, <3>2 DEF Reconnect, On, AccountedOne, Ending, IsActive
    <3>3. CASE Unregister(r) \/ ReapList(r) \/ Retention(r)
      BY <2>0, <3>3 DEF Unregister, ReapList, Retention, Still
    <3> QED BY <2>5, <3>1, <3>2, <3>3 DEF RunnerStep
  <2>6. ASSUME NEW S \in SUBSET Attempts, Delete(S) \/ Recover(S) PROVE AccountedOne(a)'
    BY <1>2, <2>0, <2>6 DEF Delete, Recover, Still
  <2>7. ASSUME Close \/ Exit PROVE FALSE
    BY <2>7 DEF Close, Exit
  <2> QED BY <2>1, <2>2, <2>3, <2>4, <2>5, <2>6, <2>7 DEF Next
<1> QED BY <1>1, <1>2

-----------------------------------------------------------------------------
(* The invariant holds, and with it the three properties.                  *)

\* The service starts with an empty table and no sandbox.
LEMMA InitSafe == Init => SafeInv
<1> SUFFICES ASSUME Init PROVE SafeInv
  OBVIOUS
<1>1. IInv
  BY InitInv
<1>2. Books
  BY DEF Init, Books, CallsEnd, Kept
<1>3. \A a \in Attempts : WatchedOne(a) /\ Provided(a) /\ Abandoned(a) /\ AccountedOne(a)
  BY DEF Init, WatchedOne, Provided, Abandoned, AccountedOne, Alive, IsActive, Active
<1> QED BY <1>1, <1>2, <1>3 DEF SafeInv

\* Every step keeps SafeInv.
LEMMA NextSafe == SafeInv /\ [Next]_vars => SafeInv'
<1> SUFFICES ASSUME SafeInv, [Next]_vars PROVE SafeInv'
  OBVIOUS
<1>1. IInv'
  BY NextInv DEF SafeInv
<1>2. CASE Next
  <2>0. TypeOK /\ FirstLife /\ Reserved /\ Books
    BY DEF SafeInv, IInv
  <2>1. Books'
    BY <1>2, <2>0, CallsEndStep, KeptStep DEF Books
  <2>2. ASSUME faults' = 0
        PROVE  /\ \A a \in Attempts : (WatchedOne(a) /\ Provided(a) /\ Abandoned(a))'
               /\ NoneDeleted' => \A a \in Attempts : AccountedOne(a)'
    <3>0. faults = 0
      BY <1>2, <2>0, <2>2, FaultsStep
    <3>1. \A a \in Attempts : (WatchedOne(a) /\ Provided(a) /\ Abandoned(a))'
      BY <1>2, <2>2, <3>0, WatchedStep, ProvidedStep, AbandonedStep DEF SafeInv
    <3>2. ASSUME NoneDeleted', NEW a \in Attempts PROVE AccountedOne(a)'
      <4>1. NoneDeleted
        BY <1>2, <2>0, <3>2, DeletedStep
      <4> QED BY <1>2, <2>2, <3>0, <3>2, <4>1, AccountedStep DEF SafeInv
    <3> QED BY <3>1, <3>2
  <2> QED BY <1>1, <2>1, <2>2 DEF SafeInv
<1>3. CASE UNCHANGED vars
  BY <1>1, <1>3 DEF SafeInv, Books, CallsEnd, Kept, WatchedOne, Provided, Doomed, Abandoned,
     AccountedOne, NoneDeleted, Ending, Alive, IsActive, vars, rowVars, provVars,
     idleVars, taskVars, worldVars, boundVars, histVars
<1> QED BY <1>2, <1>3

\* The inductive invariant.
THEOREM AttemptSafe == Spec => []SafeInv
BY InitSafe, NextSafe, PTL DEF Spec

\* No living attempt escapes the idle timer: whatever browsers, timers, ends,
\* lost runners and restarts interleave, as long as no store call failed, an
\* attempt that was never ended has its tracker, and a browser, a timer or an
\* end that runs.
THEOREM WatchedHolds == Spec => [](faults = 0 => Watched)
<1>1. SafeInv => (faults = 0 => Watched)
  BY DEF SafeInv, WatchedOne, Watched
<1> QED BY <1>1, AttemptSafe, PTL

\* A running attempt has its sandbox and its binding on a connected runner, or
\* unregister, RunnerDisconnected or another end is on its way to it, as long as
\* no store or runner call failed, and unless the connection its sandbox stood
\* on was replaced before the hub unregistered it.
THEOREM RunningHasSandboxHolds == Spec => [](faults = 0 => RunningHasSandbox)
<1>1. SafeInv => (faults = 0 => RunningHasSandbox)
  BY DEF SafeInv, Provided, Doomed, RunningHasSandbox
<1> QED BY <1>1, AttemptSafe, PTL

\* No sandbox is forgotten, as long as no store or runner call failed and no
\* row was removed: promote leaves the sandbox of a removed row standing.
THEOREM SandboxAccountedHolds == Spec => [](faults = 0 /\ NoneDeleted => SandboxAccounted)
<1>1. SafeInv => (faults = 0 /\ NoneDeleted => SandboxAccounted)
  BY DEF SafeInv, IInv, TypeOK, AccountedOne, SandboxAccounted
<1> QED BY <1>1, AttemptSafe, PTL
=============================================================================
