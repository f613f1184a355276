------------------------ MODULE AttemptServiceProofs ------------------------
(***************************************************************************)
(* Theorems about AttemptService for every set of attempts, users, labs    *)
(* and runners and every value of the bounds.                              *)
(***************************************************************************)
EXTENDS AttemptService, FiniteSetTheorems, TLAPS

-----------------------------------------------------------------------------
(* Types.                                                                  *)

\* The active statuses, the final ones and those of a missing row are statuses.
LEMMA StatusFacts ==
    /\ Active \subseteq Status
    /\ Terminal \subseteq Status
    /\ {"none", "deleted"} \subseteq Status
BY DEF Status, Active, Terminal

\* The initial state has its types.
LEMMA InitType == Init => TypeOK
BY AttemptAssumption DEF Init, TypeOK, Status, ProvStep, Runners

\* Destroy, which several actions share, keeps the types of what it changes.
LEMMA DestroyType ==
    ASSUME TypeOK, NEW a \in Attempts, Destroy(a)
    PROVE  bound' \subseteq Attempts /\ sandbox' \subseteq Attempts /\ faults' \in Nat
BY DEF Destroy, TypeOK, Fault, NoFault

\* A new call of end is a Call.
LEMMA BeginEndType ==
    ASSUME TypeOK, NEW a \in Attempts, NEW to \in Terminal, NEW from,
           BeginEnd(a, to, from)
    PROVE  calls' \subseteq Call
BY DEF BeginEnd, EndCall, TypeOK, Call, CallStep

\* A call of end that moves on stays a Call.
LEMMA GotoType ==
    ASSUME TypeOK, NEW c \in calls, NEW pc \in CallStep
    PROVE  Goto(c, pc) \subseteq Call
BY DEF Goto, TypeOK, Call

\* Start: reserve and track ...
LEMMA StartType ==
    ASSUME TypeOK, NEW a \in Attempts, Reserve(a) \/ Track(a)
    PROVE  TypeOK'
<1> USE DEF rowVars, provVars, idleVars, taskVars, worldVars, boundVars, histVars
<1>1. CASE Reserve(a)
  <2>1. starting' \subseteq [id : Attempts, runner : Runners]
    BY <1>1 DEF Reserve, TypeOK
  <2> QED BY <1>1, <2>1 DEF Reserve, TypeOK
<1>2. CASE Track(a)
  BY <1>2 DEF Track, TypeOK, ProvStep, FreshTimer
<1> QED BY <1>1, <1>2

\* ... and the insert between them.
LEMMA CreateType ==
    ASSUME TypeOK, NEW s \in starting, Create(s)
    PROVE  TypeOK'
<1> USE DEF rowVars, provVars, idleVars, taskVars, worldVars, boundVars, histVars
<1>1. s.id \in Attempts /\ s.runner \in Runners
  BY DEF TypeOK
<1> QED BY <1>1 DEF Create, TypeOK, Status, Active, ProvStep, Fault, NoFault

\* The goroutine that provisions an attempt and promotes it.
LEMMA ProvisionType ==
    ASSUME TypeOK, NEW a \in Attempts, Provisioner(a)
    PROVE  TypeOK'
<1> USE DEF rowVars, provVars, idleVars, taskVars, worldVars, boundVars, histVars, ProvFrame
<1>1. CASE BeginProvision(a)
  BY <1>1 DEF BeginProvision, TypeOK, ProvStep, AfterError
<1>2. CASE ProvisionOK(a)
  BY <1>2 DEF ProvisionOK, TypeOK, ProvStep
<1>3. CASE ProvisionError(a)
  BY <1>3 DEF ProvisionError, TypeOK, ProvStep, AfterError
<1>4. CASE Precheck(a)
  BY <1>4 DEF Precheck, TypeOK, ProvStep
<1>5. CASE Undo(a)
  BY <1>5, DestroyType DEF Undo, TypeOK, ProvStep, AfterError
<1>6. CASE Resolve(a)
  BY <1>6 DEF Resolve, TypeOK, ProvStep, AfterError, Fault, NoFault
<1>7. CASE PromoteRead(a)
  BY <1>7 DEF PromoteRead, TypeOK, ProvStep, AfterPromoteRead, Fault, NoFault
<1>8. CASE PromoteWrite(a)
  BY <1>8 DEF PromoteWrite, TypeOK, ProvStep, Status, Active, Fault, NoFault
<1>9. CASE FailProvision(a)
  <2>1. calls' \subseteq Call
    BY <1>9, BeginEndType DEF FailProvision, TypeOK, Terminal
  <2> QED BY <1>9, <2>1 DEF FailProvision, TypeOK, ProvStep, Fault, NoFault
<1> QED BY <1>1, <1>2, <1>3, <1>4, <1>5, <1>6, <1>7, <1>8, <1>9 DEF Provisioner

\* The steps of a call of end.
LEMMA EndType ==
    ASSUME TypeOK, NEW c \in calls, EndStep(c)
    PROVE  TypeOK'
<1> USE DEF rowVars, provVars, idleVars, taskVars, worldVars, boundVars, histVars, EndFrame
<1>1. c \in Call /\ c.id \in Attempts /\ c.to \in Terminal
  BY DEF TypeOK, Call
<1>2. calls \ {c} \subseteq Call
  BY DEF TypeOK
<1>3. CASE EndSetStatus(c)
  <2>1. AfterSetStatus(c) \in CallStep
    BY DEF AfterSetStatus, CallStep
  <2>2. calls' \subseteq Call
    BY <1>2, <1>3, <2>1, GotoType DEF EndSetStatus
  <2> QED BY <1>1, <1>3, <2>2, StatusFacts DEF EndSetStatus, TypeOK, Fault, NoFault
<1>4. CASE EndProgress(c)
  <2>1. calls' \subseteq Call
    BY <1>2, <1>4, GotoType DEF EndProgress, CallStep
  <2> QED BY <1>1, <1>4, <2>1 DEF EndProgress, TypeOK, Fault, NoFault
<1>5. CASE EndUntrack(c)
  <2>1. calls' \subseteq Call
    BY <1>5, GotoType DEF EndUntrack, CallStep
  <2> QED BY <1>1, <1>5, <2>1 DEF EndUntrack, TypeOK
<1>6. CASE EndDestroy(c)
  BY <1>1, <1>2, <1>6, DestroyType DEF EndDestroy, TypeOK
<1> QED BY <1>3, <1>4, <1>5, <1>6 DEF EndStep

\* Those who call end: the user, the checker, the idle timer, a lost runner.
LEMMA CallerType ==
    ASSUME TypeOK, NEW a \in Attempts,
           Abandon(a) \/ Finish(a) \/ Expire(a) \/ ReapEnd(a)
    PROVE  TypeOK'
<1> USE DEF rowVars, provVars, idleVars, taskVars, worldVars, boundVars, histVars
<1>1. calls' \subseteq Call
  BY BeginEndType DEF Abandon, Finish, Expire, ReapEnd, TypeOK, Terminal
<1>2. CASE Abandon(a)
  BY <1>1, <1>2 DEF Abandon, TypeOK, EndFrame
<1>3. CASE Finish(a)
  BY <1>1, <1>3 DEF Finish, TypeOK, EndFrame
<1>4. CASE Expire(a)
  BY <1>1, <1>4 DEF Expire, TypeOK, IdleFrame, Fault, NoFault
<1>5. CASE ReapEnd(a)
  BY <1>1, <1>5 DEF ReapEnd, TypeOK, TaskFrame, Fault, NoFault
<1> QED BY <1>2, <1>3, <1>4, <1>5

\* Connected, Disconnected and the idle timer.
LEMMA BrowserType ==
    ASSUME TypeOK, NEW a \in Attempts,
           Connected(a) \/ Disconnected(a) \/ IdleFires(a)
    PROVE  TypeOK'
<1> USE DEF rowVars, provVars, idleVars, taskVars, worldVars, boundVars, histVars, IdleFrame
<1>1. CASE Connected(a)
  BY <1>1 DEF Connected, TypeOK
<1>2. CASE Disconnected(a)
  BY <1>2 DEF Disconnected, TypeOK, Decrement, Rearm
<1>3. CASE IdleFires(a)
  BY <1>3 DEF IdleFires, TypeOK
<1> QED BY <1>1, <1>2, <1>3

\* A remote runner that goes away and comes back.
LEMMA RunnerType ==
    ASSUME TypeOK, NEW r \in Remote, RunnerStep(r)
    PROVE  TypeOK'
<1> USE DEF rowVars, provVars, idleVars, taskVars, worldVars, boundVars, histVars, TaskFrame
<1>1. On(r) \subseteq Attempts /\ Remote \subseteq Runners
  BY DEF On, Runners
<1>2. CASE LoseRunner(r)
  BY <1>1, <1>2 DEF LoseRunner, TypeOK
<1>6. CASE Unregister(r)
  BY <1>6 DEF Unregister, OnDisconnect, TypeOK
<1>3. CASE ReapList(r)
  BY <1>1, <1>3 DEF ReapList, TypeOK, Fault, NoFault
<1>4. CASE Reconnect(r)
  BY <1>1, <1>4 DEF Reconnect, TypeOK
<1>5. CASE Retention(r)
  BY <1>1, <1>5 DEF Retention, TypeOK
<1> QED BY <1>2, <1>3, <1>4, <1>5, <1>6 DEF RunnerStep

\* Clean-up after a reconnection, and the deletion of attempts.
LEMMA TaskType ==
    ASSUME TypeOK,
           \/ \E a \in Attempts : DestroyLeftover(a) \/ Remove(a)
           \/ \E S \in SUBSET Attempts : Delete(S)
    PROVE  TypeOK'
<1> USE DEF rowVars, provVars, idleVars, taskVars, worldVars, boundVars, histVars, TaskFrame
<1>1. ASSUME NEW a \in Attempts, DestroyLeftover(a) PROVE TypeOK'
  BY <1>1 DEF DestroyLeftover, TypeOK, Fault, NoFault
<1>2. ASSUME NEW a \in Attempts, Remove(a) PROVE TypeOK'
  BY <1>2, StatusFacts DEF Remove, TypeOK
<1>3. ASSUME NEW S \in SUBSET Attempts, Delete(S) PROVE TypeOK'
  BY <1>3 DEF Delete, TypeOK
<1> QED BY <1>1, <1>2, <1>3

\* Close, the end of the process and Recover.
LEMMA ProcessType ==
    ASSUME TypeOK, Close \/ Exit \/ \E S \in SUBSET Attempts : Recover(S)
    PROVE  TypeOK'
<1> USE DEF rowVars, provVars, idleVars, taskVars, worldVars, boundVars, histVars
<1>1. CASE Close
  BY <1>1 DEF Close, TypeOK
<1>2. CASE Exit
  BY <1>2 DEF Exit, TypeOK, ProvStep
<1>3. ASSUME NEW S \in SUBSET Attempts, Recover(S) PROVE TypeOK'
  BY <1>3, StatusFacts DEF Recover, TypeOK, Uncollected, Terminal, Fault, NoFault
<1> QED BY <1>1, <1>2, <1>3

\* Every step keeps the types.
LEMMA NextType == TypeOK /\ [Next]_vars => TypeOK'
<1> SUFFICES ASSUME TypeOK, [Next]_vars PROVE TypeOK'
  OBVIOUS
<1>1. CASE Next
  BY <1>1, StartType, CreateType, ProvisionType, EndType, CallerType, BrowserType,
     RunnerType, TaskType, ProcessType DEF Next, AttemptStep
<1>2. CASE UNCHANGED vars
  BY <1>2 DEF vars, rowVars, provVars, idleVars, taskVars, worldVars, boundVars, histVars, TypeOK
<1> QED BY <1>1, <1>2

\* The variables keep their types, whatever the sets of attempts and runners
\* and the bounds are.
THEOREM TypeCorrect == Spec => []TypeOK
BY InitType, NextType, PTL DEF Spec

-----------------------------------------------------------------------------
(* One living attempt per user, and runners within their capacity.  Both   *)
(* depend on five variables only, and few actions change those.            *)

keyVars == <<status, place, starting, everEnded, deleting>>

IInv == TypeOK /\ FirstLife /\ Reserved /\ OneAlivePerUser /\ WithinCapacity

\* A step that leaves the five variables alone leaves the invariant alone.
LEMMA KeyUnchanged ==
    ASSUME IInv, UNCHANGED keyVars
    PROVE  (FirstLife /\ Reserved /\ OneAlivePerUser /\ WithinCapacity)'
BY DEF IInv, keyVars, FirstLife, Reserved, OneAlivePerUser, WithinCapacity, AliveOn,
       Alive, IsActive, On

\* Which actions change one of the five.
LEMMA KeySteps ==
    ASSUME TypeOK, Next
    PROVE  \/ UNCHANGED keyVars
           \/ \E a \in Attempts : Reserve(a) \/ PromoteWrite(a) \/ Remove(a)
           \/ \E s \in starting : Create(s)
           \/ \E c \in calls : EndSetStatus(c)
           \/ \E S \in SUBSET Attempts : Delete(S) \/ Recover(S)
           \/ Exit
<1> USE DEF rowVars, provVars, idleVars, taskVars, worldVars, boundVars, histVars, keyVars
<1>1. ASSUME NEW a \in Attempts, AttemptStep(a), ~Reserve(a), ~PromoteWrite(a), ~Remove(a)
      PROVE  UNCHANGED keyVars
  <2>1. CASE Provisioner(a)
    BY <1>1, <2>1 DEF Provisioner, BeginProvision, ProvisionOK, ProvisionError,
       Precheck, Undo, Resolve, PromoteRead, FailProvision, ProvFrame
  <2>2. CASE Track(a) \/ Abandon(a) \/ Finish(a)
    BY <2>2 DEF Track, Abandon, Finish, EndFrame
  <2>3. CASE Connected(a) \/ Disconnected(a) \/ IdleFires(a) \/ Expire(a)
    BY <2>3 DEF Connected, Disconnected, IdleFires, Expire, IdleFrame
  <2>4. CASE ReapEnd(a) \/ DestroyLeftover(a)
    BY <2>4 DEF ReapEnd, DestroyLeftover, TaskFrame
  <2> QED BY <1>1, <2>1, <2>2, <2>3, <2>4 DEF AttemptStep
<1>2. ASSUME NEW c \in calls, EndStep(c), ~EndSetStatus(c)
      PROVE  UNCHANGED keyVars
  BY <1>2 DEF EndStep, EndProgress, EndUntrack, EndDestroy, EndFrame
<1>3. ASSUME NEW r \in Remote, RunnerStep(r)
      PROVE  UNCHANGED keyVars
  BY <1>3 DEF RunnerStep, LoseRunner, Unregister, ReapList, Reconnect, Retention, TaskFrame
<1>4. ASSUME Close PROVE UNCHANGED keyVars
  BY <1>4 DEF Close
<1> QED BY <1>1, <1>2, <1>3, <1>4 DEF Next

\* Attempts are finitely many, so the living ones on a runner can be counted,
\* and a subset of them counts no more.
LEMMA AliveFinite ==
    ASSUME NEW r
    PROVE  /\ IsFiniteSet(AliveOn(r))
           /\ \A S \in SUBSET AliveOn(r) :
                 IsFiniteSet(S) /\ Cardinality(S) <= Cardinality(AliveOn(r))
<1>1. AliveOn(r) \subseteq Attempts
  BY DEF AliveOn, On
<1> QED BY <1>1, AttemptAssumption, FS_Subset

\* When no attempt is living that was not before, nor moves, what was checked
\* and counted stays true.
LEMMA FewerAlive ==
    ASSUME IInv, UNCHANGED place,
           \A a \in Attempts : Alive(a)' => Alive(a),
           starting' \subseteq starting,
           \A s \in starting' : status'[s.id] = "none"
    PROVE  (Reserved /\ OneAlivePerUser /\ WithinCapacity)'
<1>1. ASSUME NEW r PROVE Cardinality(AliveOn(r)') <= Cardinality(AliveOn(r))
  <2>1. AliveOn(r)' \subseteq AliveOn(r)
    BY DEF AliveOn, On
  <2> QED BY <2>1, AliveFinite
<1>2. ASSUME NEW r
      PROVE  Cardinality(AliveOn(r)) \in Nat /\ Cardinality(AliveOn(r)') \in Nat
  <2>1. IsFiniteSet(AliveOn(r))
    BY AliveFinite
  <2>2. IsFiniteSet(AliveOn(r)')
    <3>1. AliveOn(r)' \subseteq AliveOn(r)
      BY DEF AliveOn, On
    <3> QED BY <3>1, AliveFinite
  <2> QED BY <2>1, <2>2, FS_CardinalityType
<1>3. OneAlivePerUser'
  BY DEF IInv, OneAlivePerUser
<1>4. WithinCapacity'
  BY <1>1, <1>2, AttemptAssumption DEF IInv, WithinCapacity
<1>5. Reserved'
  BY <1>1, <1>2, AttemptAssumption DEF IInv, Reserved, TypeOK
<1> QED BY <1>3, <1>4, <1>5

\* What reserve checks is what Reserved says of the Start it lets in.
LEMMA ReserveStep ==
    ASSUME IInv, NEW a \in Attempts, Reserve(a)
    PROVE  (FirstLife /\ Reserved /\ OneAlivePerUser /\ WithinCapacity)'
<1> USE DEF rowVars, provVars, idleVars, taskVars, worldVars, boundVars, histVars
<1>1. UNCHANGED <<status, place, everEnded, deleting>>
  BY DEF Reserve
<1>2. PICK r \in Runners : /\ IsPick(r, Capable(a), Load, Capacity, Rank)
                           /\ starting' = {[id |-> a, runner |-> r]}
  BY DEF Reserve, StartMuFree
<1>3. Cardinality(AliveOn(r)) < Capacity[r]
  <2> DEFINE Busy == {b \in On(r) : IsActive(b)}
  <2>1. Cardinality(Busy) < Capacity[r]
    BY <1>2 DEF IsPick, HasRoom, Load
  <2>2. Busy \subseteq Attempts /\ AliveOn(r) \subseteq Busy
    BY DEF On, AliveOn, Alive
  <2>3. IsFiniteSet(Busy) /\ IsFiniteSet(AliveOn(r))
        /\ Cardinality(AliveOn(r)) <= Cardinality(Busy)
    BY <2>2, AttemptAssumption, FS_Subset
  <2>4. Cardinality(Busy) \in Nat /\ Cardinality(AliveOn(r)) \in Nat
    BY <2>3, FS_CardinalityType
  <2> HIDE DEF Busy
  <2> QED BY <2>1, <2>3, <2>4, AttemptAssumption
<1>4. AliveOn(r)' = AliveOn(r) /\ \A b \in Attempts : Alive(b)' <=> Alive(b)
  BY <1>1 DEF AliveOn, On, Alive, IsActive
<1>5. Reserved'
  <2>1. \A b \in Attempts : Alive(b) => Owner[b] # Owner[a]
    BY DEF Reserve, UserIsFree, Alive
  <2>2. status'[a] = "none"
    BY <1>1 DEF Reserve
  <2>3. ASSUME NEW s \in starting'
        PROVE  /\ status'[s.id] = "none"
               /\ \A b \in Attempts : Alive(b)' => Owner[b] # Owner[s.id]
               /\ Cardinality(AliveOn(s.runner)') < Capacity[s.runner]
    <3>1. s.id = a /\ s.runner = r
      BY <1>2, <2>3
    <3>2. AliveOn(s.runner)' = AliveOn(r)
      BY <1>4, <3>1 DEF AliveOn, On
    <3> QED BY <1>3, <1>4, <2>1, <2>2, <3>1, <3>2
  <2>4. \A s, t \in starting' : s = t
    BY <1>2
  <2> QED BY <2>3, <2>4 DEF Reserved
<1>6. (FirstLife /\ OneAlivePerUser /\ WithinCapacity)'
  BY <1>1 DEF IInv, FirstLife, OneAlivePerUser, WithinCapacity, AliveOn, On, Alive, IsActive
<1> QED BY <1>5, <1>6

\* The row that Create inserts is the only new living attempt, and Reserved
\* says there is room for it.
LEMMA CreateStep ==
    ASSUME IInv, NEW s \in starting, Create(s)
    PROVE  (FirstLife /\ Reserved /\ OneAlivePerUser /\ WithinCapacity)'
<1> USE DEF rowVars, provVars, idleVars, taskVars, worldVars, boundVars, histVars
<1>1. s.id \in Attempts /\ s.runner \in Runners
  BY DEF IInv, TypeOK
<1>2. starting' = {}
  BY DEF Create, IInv, Reserved
<1>3. UNCHANGED <<everEnded, deleting>>
  BY DEF Create
<1>4. status[s.id] = "none" /\ s.id \notin everEnded /\ ~Alive(s.id)
  BY <1>1 DEF IInv, Reserved, FirstLife, Alive, IsActive, Active
<1>5. CASE UNCHANGED <<status, place>>
  BY <1>2, <1>3, <1>5 DEF IInv, FirstLife, Reserved, OneAlivePerUser, WithinCapacity,
     AliveOn, On, Alive, IsActive
<1>6. CASE /\ status' = [status EXCEPT ![s.id] = "provisioning"]
           /\ place' = [place EXCEPT ![s.id] = s.runner]
  <2>1. /\ \A b \in Attempts : Alive(b)' <=> (Alive(b) \/ b = s.id)
        /\ \A b \in Attempts \ {s.id} : place'[b] = place[b]
        /\ place'[s.id] = s.runner
    BY <1>1, <1>3, <1>4, <1>6 DEF IInv, TypeOK, Alive, IsActive, Active
  <2>2. FirstLife'
    BY <1>1, <1>3, <1>4, <1>6 DEF IInv, TypeOK, FirstLife, Active
  <2>3. OneAlivePerUser'
    <3>1. \A b \in Attempts : Alive(b) => Owner[b] # Owner[s.id]
      BY DEF IInv, Reserved
    <3> QED BY <1>1, <2>1, <3>1 DEF IInv, OneAlivePerUser
  <2>4. Reserved'
    BY <1>2 DEF Reserved
  <2>5. ASSUME NEW r \in Runners, r # s.runner
        PROVE  Cardinality(AliveOn(r)') <= Capacity[r]
    <3>1. AliveOn(r)' = AliveOn(r)
      BY <1>4, <2>1, <2>5 DEF AliveOn, On
    <3> QED BY <3>1 DEF IInv, WithinCapacity
  <2>6. Cardinality(AliveOn(s.runner)') <= Capacity[s.runner]
    <3>1. AliveOn(s.runner)' = AliveOn(s.runner) \cup {s.id} /\ s.id \notin AliveOn(s.runner)
      BY <1>1, <1>4, <2>1 DEF AliveOn, On
    <3>2. IsFiniteSet(AliveOn(s.runner))
      BY AliveFinite
    <3>3. Cardinality(AliveOn(s.runner) \cup {s.id}) = Cardinality(AliveOn(s.runner)) + 1
      BY <3>1, <3>2, FS_AddElement
    <3>4. Cardinality(AliveOn(s.runner)) \in Nat
      BY <3>2, FS_CardinalityType
    <3>5. Cardinality(AliveOn(s.runner)) < Capacity[s.runner]
      BY DEF IInv, Reserved
    <3> QED BY <1>1, <3>1, <3>3, <3>4, <3>5, AttemptAssumption
  <2>7. WithinCapacity'
    BY <2>5, <2>6 DEF WithinCapacity
  <2> QED BY <2>2, <2>3, <2>4, <2>7
<1> QED BY <1>5, <1>6 DEF Create

\* promote and end write rows that are already there, so nothing comes to
\* life; neither does anything when rows are removed or the process restarts.
LEMMA OtherKeySteps ==
    ASSUME IInv,
           \/ \E a \in Attempts : PromoteWrite(a) \/ Remove(a)
           \/ \E c \in calls : EndSetStatus(c)
           \/ \E S \in SUBSET Attempts : Delete(S) \/ Recover(S)
           \/ Exit
    PROVE  (FirstLife /\ Reserved /\ OneAlivePerUser /\ WithinCapacity)'
<1> USE DEF rowVars, provVars, idleVars, taskVars, worldVars, boundVars, histVars
<1> DEFINE Quiet == /\ UNCHANGED place
                    /\ \A a \in Attempts : Alive(a)' => Alive(a)
                    /\ starting' \subseteq starting
                    /\ \A s \in starting' : status'[s.id] = "none"
<1>0. \A s \in starting : s.id \in Attempts /\ status[s.id] = "none"
  BY DEF IInv, TypeOK, Reserved
<1>1. ASSUME NEW a \in Attempts, PromoteWrite(a) PROVE FirstLife' /\ Quiet
  BY <1>0, <1>1 DEF PromoteWrite, ProvFrame, HasRow, IInv, TypeOK, FirstLife, Alive,
     IsActive, Active
<1>2. ASSUME NEW a \in Attempts, Remove(a) PROVE FirstLife' /\ Quiet
  BY <1>0, <1>2 DEF Remove, TaskFrame, HasRow, IInv, TypeOK, FirstLife, Alive, IsActive,
     Active
<1>3. ASSUME NEW c \in calls, EndSetStatus(c) PROVE FirstLife' /\ Quiet
  <2>1. c.id \in Attempts /\ c.to \in Terminal
    BY DEF IInv, TypeOK, Call
  <2> QED BY <1>0, <1>3, <2>1 DEF EndSetStatus, EndFrame, HasRow, IInv, TypeOK, FirstLife,
     Alive, IsActive, Active, Terminal
<1>4. ASSUME NEW S \in SUBSET Attempts, Delete(S) PROVE FirstLife' /\ Quiet
  BY <1>0, <1>4 DEF Delete, Deletable, TaskFrame, IInv, TypeOK, FirstLife, Alive, IsActive,
     Active, Terminal
<1>5. ASSUME Exit PROVE FirstLife' /\ Quiet
  BY <1>0, <1>5 DEF Exit, IInv, TypeOK, FirstLife, Alive, IsActive
<1>6. ASSUME NEW S \in SUBSET Attempts, Recover(S) PROVE FirstLife' /\ Quiet
  BY <1>0, <1>6 DEF Recover, IInv, TypeOK, FirstLife, Alive, IsActive, Active
<1>7. FirstLife' /\ Quiet
  BY <1>1, <1>2, <1>3, <1>4, <1>5, <1>6
<1> QED BY <1>7, FewerAlive

\* IInv holds initially ...
LEMMA InitInv == Init => IInv
<1> SUFFICES ASSUME Init PROVE IInv
  OBVIOUS
<1>1. TypeOK
  BY InitType
<1>2. \A a \in Attempts : ~Alive(a)
  BY DEF Init, Alive, IsActive, Active
<1>3. \A r \in Runners : AliveOn(r) = {}
  BY <1>2 DEF AliveOn, On
<1>4. WithinCapacity
  BY <1>3, AttemptAssumption, FS_EmptySet DEF WithinCapacity
<1>5. FirstLife /\ Reserved /\ OneAlivePerUser
  BY <1>2 DEF Init, FirstLife, Reserved, OneAlivePerUser
<1> QED BY <1>1, <1>4, <1>5 DEF IInv

\* ... and every step keeps it.
LEMMA NextInv == IInv /\ [Next]_vars => IInv'
<1> SUFFICES ASSUME IInv, [Next]_vars PROVE IInv'
  OBVIOUS
<1>1. TypeOK'
  BY NextType DEF IInv
<1>2. (FirstLife /\ Reserved /\ OneAlivePerUser /\ WithinCapacity)'
  <2>1. CASE UNCHANGED vars
    <3>1. UNCHANGED keyVars
      BY <2>1 DEF vars, rowVars, taskVars, histVars, keyVars
    <3> QED BY <3>1, KeyUnchanged
  <2>2. CASE Next
    <3>1. TypeOK
      BY DEF IInv
    <3> QED BY <2>2, <3>1, KeySteps, KeyUnchanged, ReserveStep, CreateStep, OtherKeySteps
  <2> QED BY <2>1, <2>2
<1> QED BY <1>1, <1>2 DEF IInv

\* The invariant holds in every reachable state.
LEMMA Invariance == Spec => []IInv
BY InitInv, NextInv, PTL DEF Spec

\* However many Starts, ends, promotions, lost runners, failures and restarts
\* interleave, no user has two living attempts.
THEOREM OneAlivePerUserHolds == Spec => []OneAlivePerUser
<1>1. IInv => OneAlivePerUser
  BY DEF IInv
<1> QED BY <1>1, Invariance, PTL

\* ... and no runner has more living attempts than its capacity.
THEOREM WithinCapacityHolds == Spec => []WithinCapacity
<1>1. IInv => WithinCapacity
  BY DEF IInv
<1> QED BY <1>1, Invariance, PTL

-----------------------------------------------------------------------------
(* The service implements AttemptLifecycle.                                *)

\* The life of each attempt, spelled out.
LEMMA LifeOf ==
    ASSUME TypeOK, FirstLife, NEW a \in Attempts
    PROVE  /\ a \in everEnded => Life[a] = "ended"
           /\ a \notin everEnded => Life[a] = status[a]
           /\ Lifecycle!Living(a) <=> Alive(a)
BY DEF TypeOK, FirstLife, Life, Lifecycle!Living, Alive, IsActive, Active

\* The living attempts of a runner are the same ones on both levels.
LEMMA LivingOnIsAliveOn ==
    ASSUME TypeOK, FirstLife, NEW r
    PROVE  Lifecycle!LivingOn(r) = AliveOn(r)
BY LifeOf DEF Lifecycle!LivingOn, AliveOn, On

\* Lives are kept by a step that ends nobody and writes no status.
LEMMA LifeKept ==
    ASSUME UNCHANGED <<status, place, everEnded>>
    PROVE  UNCHANGED Lifecycle!lifeVars
BY DEF Lifecycle!lifeVars, Life, IsActive

\* What makes a step a LifeStart.
LEMMA StartOf ==
    ASSUME NEW a \in Attempts, NEW r \in Runners,
           Life[a] = "none",
           \A b \in Attempts : Owner[b] = Owner[a] => ~Lifecycle!Living(b),
           Cardinality(Lifecycle!LivingOn(r)) < Capacity[r],
           Life' = [Life EXCEPT ![a] = "provisioning"],
           place' = [place EXCEPT ![a] = r]
    PROVE  Lifecycle!LifeStart(a, r)
<1>1. Cardinality(Lifecycle!LivingOn(r)) = Lifecycle!Cardinality(Lifecycle!LivingOn(r))
  BY DEF Cardinality, Lifecycle!Cardinality
<1> QED BY <1>1 DEF Lifecycle!LifeStart

\* The insert of a row starts a life, or fails.
LEMMA CreateIsStart ==
    ASSUME IInv, NEW s \in starting, Create(s)
    PROVE  [Lifecycle!LifeNext]_(Lifecycle!lifeVars)
<1> USE DEF rowVars, provVars, idleVars, taskVars, worldVars, boundVars, histVars
<1>0. TypeOK /\ FirstLife
  BY DEF IInv
<1>1. s.id \in Attempts /\ s.runner \in Runners
  BY DEF IInv, TypeOK
<1>2. UNCHANGED everEnded
  BY DEF Create
<1>3. CASE UNCHANGED <<status, place>>
  BY <1>2, <1>3, LifeKept
<1>4. CASE /\ status' = [status EXCEPT ![s.id] = "provisioning"]
           /\ place' = [place EXCEPT ![s.id] = s.runner]
  <2>1. status[s.id] = "none" /\ s.id \notin everEnded
    BY <1>0, <1>1 DEF IInv, Reserved, FirstLife
  <2>2. Life[s.id] = "none"
    BY <1>0, <1>1, <2>1, LifeOf
  <2>3. \A b \in Attempts : Owner[b] = Owner[s.id] => ~Lifecycle!Living(b)
    BY <1>0, LifeOf DEF IInv, Reserved
  <2>4. Cardinality(Lifecycle!LivingOn(s.runner)) < Capacity[s.runner]
    BY <1>0, LivingOnIsAliveOn DEF IInv, Reserved
  <2>5. Life' = [Life EXCEPT ![s.id] = "provisioning"]
    BY <1>0, <1>1, <1>2, <1>4, <2>1 DEF Life, IsActive, Active, TypeOK
  <2>6. Lifecycle!LifeStart(s.id, s.runner)
    BY <1>1, <1>4, <2>2, <2>3, <2>4, <2>5, StartOf
  <2> QED BY <1>1, <2>6 DEF Lifecycle!LifeNext
<1> QED BY <1>3, <1>4 DEF Create

\* promote runs an attempt in its first life once; one that ended is not seen.
LEMMA PromoteIsRun ==
    ASSUME IInv, NEW a \in Attempts, PromoteWrite(a)
    PROVE  [Lifecycle!LifeNext]_(Lifecycle!lifeVars)
<1> USE DEF rowVars, provVars, idleVars, taskVars, worldVars, boundVars, histVars
<1>0. TypeOK /\ FirstLife /\ UNCHANGED <<place, everEnded>>
  BY DEF IInv, PromoteWrite, ProvFrame
<1>1. CASE UNCHANGED status
  BY <1>0, <1>1, LifeKept
<1>2. CASE HasRow(a) /\ status' = [status EXCEPT ![a] = "running"]
  <2>1. CASE a \in everEnded
    <3>1. Life' = Life
      BY <1>0, <1>2, <2>1 DEF Life, IsActive, TypeOK
    <3> QED BY <1>0, <3>1 DEF Lifecycle!lifeVars
  <2>2. CASE a \notin everEnded /\ status[a] = "running"
    <3>1. status' = status
      BY <1>0, <1>2, <2>2 DEF TypeOK
    <3> QED BY <1>0, <3>1, LifeKept
  <2>3. CASE a \notin everEnded /\ status[a] = "provisioning"
    <3>1. Life[a] = "provisioning"
      BY <1>0, <2>3, LifeOf
    <3>2. Life' = [Life EXCEPT ![a] = "running"]
      BY <1>0, <1>2, <2>3 DEF Life, IsActive, Active, TypeOK
    <3>3. Lifecycle!LifeRun(a)
      BY <1>0, <3>1, <3>2 DEF Lifecycle!LifeRun
    <3> QED BY <3>3 DEF Lifecycle!LifeNext
  <2> QED BY <1>0, <1>2, <2>1, <2>2, <2>3 DEF FirstLife, HasRow, Active
<1> QED BY <1>1, <1>2 DEF PromoteWrite

\* A call of end that writes the first final status of an attempt ends its
\* life; a later one changes nothing that AttemptLifecycle sees.
LEMMA SetStatusIsEnd ==
    ASSUME IInv, NEW c \in calls, EndSetStatus(c)
    PROVE  [Lifecycle!LifeNext]_(Lifecycle!lifeVars)
<1> USE DEF rowVars, provVars, idleVars, taskVars, worldVars, boundVars, histVars
<1>0. TypeOK /\ FirstLife /\ UNCHANGED place
  BY DEF IInv, EndSetStatus, EndFrame
<1>1. c.id \in Attempts
  BY <1>0 DEF TypeOK, Call
<1>2. CASE UNCHANGED <<status, everEnded>>
  BY <1>0, <1>2, LifeKept
<1>3. CASE /\ HasRow(c.id)
           /\ status' = [status EXCEPT ![c.id] = c.to]
           /\ everEnded' = everEnded \cup {c.id}
  <2>1. Life' = [b \in Attempts |-> IF b \in {c.id} THEN "ended" ELSE Life[b]]
    BY <1>0, <1>1, <1>3 DEF Life, IsActive, TypeOK
  <2>2. CASE c.id \in everEnded
    <3>1. Life' = Life
      BY <1>0, <1>1, <2>1, <2>2 DEF Life
    <3> QED BY <1>0, <3>1 DEF Lifecycle!lifeVars
  <2>3. CASE c.id \notin everEnded
    <3>1. Alive(c.id)
      BY <1>0, <1>1, <1>3, <2>3 DEF FirstLife, HasRow, Alive, IsActive
    <3>2. Lifecycle!Living(c.id)
      BY <1>0, <1>1, <3>1, LifeOf
    <3>3. Lifecycle!LifeEnd({c.id})
      BY <1>0, <2>1, <3>2 DEF Lifecycle!LifeEnd
    <3> QED BY <1>1, <3>3 DEF Lifecycle!LifeNext
  <2> QED BY <2>2, <2>3
<1> QED BY <1>2, <1>3 DEF EndSetStatus

\* Recover ends attempts in their first life.
LEMMA RecoverIsEnd ==
    ASSUME IInv, NEW S \in SUBSET Attempts, Recover(S)
    PROVE  [Lifecycle!LifeNext]_(Lifecycle!lifeVars)
<1>0. TypeOK /\ FirstLife /\ UNCHANGED place
  BY DEF IInv, Recover
<1> DEFINE T == {a \in S : Alive(a)}
<1>1. \A a \in T : Lifecycle!Living(a)
  BY <1>0, LifeOf
<1>2. Life' = [a \in Attempts |-> IF a \in T THEN "ended" ELSE Life[a]]
  BY <1>0 DEF Recover, Life, Alive, IsActive, Active, TypeOK
<1>3. Lifecycle!LifeEnd(T)
  BY <1>0, <1>1, <1>2 DEF Lifecycle!LifeEnd
<1> QED BY <1>3 DEF Lifecycle!LifeNext

\* Removing a row changes nothing: it had ended.
LEMMA RemoveKeepsLife ==
    ASSUME IInv, NEW a \in Attempts, Remove(a)
    PROVE  UNCHANGED Lifecycle!lifeVars
<1>0. TypeOK /\ FirstLife /\ UNCHANGED <<place, everEnded>>
  BY DEF IInv, Remove, TaskFrame, histVars
<1>1. a \in everEnded
  BY <1>0 DEF Remove, FirstLife
<1>2. Life' = Life
  BY <1>0, <1>1 DEF Remove, Life, IsActive, TypeOK
<1> QED BY <1>0, <1>2 DEF Lifecycle!lifeVars

\* Every step of the service is a step of AttemptLifecycle or none.
LEMMA StepIsLifeStep ==
    IInv /\ [Next]_vars => [Lifecycle!LifeNext]_(Lifecycle!lifeVars)
<1> SUFFICES ASSUME IInv, [Next]_vars
             PROVE  [Lifecycle!LifeNext]_(Lifecycle!lifeVars)
  OBVIOUS
<1> USE DEF rowVars, provVars, idleVars, taskVars, worldVars, boundVars, histVars
<1>1. CASE UNCHANGED vars
  BY <1>1, LifeKept DEF vars
<1>2. CASE UNCHANGED keyVars
  BY <1>2, LifeKept DEF keyVars
<1>3. ASSUME NEW a \in Attempts, Reserve(a) PROVE UNCHANGED <<status, place, everEnded>>
  BY <1>3 DEF Reserve
<1>4. ASSUME NEW S \in SUBSET Attempts, Delete(S) PROVE UNCHANGED <<status, place, everEnded>>
  BY <1>4 DEF Delete, TaskFrame
<1>5. ASSUME Exit PROVE UNCHANGED <<status, place, everEnded>>
  BY <1>5 DEF Exit
<1>6. CASE Next
  <2>1. TypeOK
    BY DEF IInv
  <2> QED BY <1>2, <1>3, <1>4, <1>5, <1>6, <2>1, KeySteps, LifeKept, CreateIsStart,
             PromoteIsRun, SetStatusIsEnd, RecoverIsEnd, RemoveKeepsLife
<1> QED BY <1>1, <1>6

\* Seen through Life, every behaviour of the service is a behaviour of
\* AttemptLifecycle: one living attempt per user, runners within capacity,
\* running at most once and ending for good.
THEOREM ServiceImplementsLifecycle == Spec => ImplementsLifecycle
<1>1. Init => Lifecycle!LifeInit
  BY DEF Init, Lifecycle!LifeInit, Life, IsActive, Active
<1> QED BY <1>1, StepIsLifeStep, Invariance, PTL DEF Spec, ImplementsLifecycle, Lifecycle!LifeSpec
=============================================================================
