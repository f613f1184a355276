----------------------------- MODULE EdgesProofs -----------------------------
(***************************************************************************)
(* The components at the edges of the attempt service, each by itself and  *)
(* for every value of its constants: MCEdges checks them on small          *)
(* instances.  They share no variable; each section has the inductive      *)
(* invariant of one component, the lemmas that its steps keep it and the   *)
(* theorems that follow.                                                   *)
(***************************************************************************)
EXTENDS Accounts, Terminals, EventSocket, DockerProvider, VMProvider, Params, Migrations,
        History, EventBusProofs, SequenceTheorems

-----------------------------------------------------------------------------
(* Migrations.                                                             *)

MigrationsSpec == InitMigrations /\ [][NextMigrations]_migrationVars

MigrationsType ==
    /\ recorded \subseteq Versions
    /\ made \in [Versions -> {0, Statements}]
    /\ opener \in [Openers -> [pc : {"closed", "migrate", "exec", "record", "open", "failed"},
                               applied : SUBSET Versions, version : 1..(LastVersion + 1)]]

\* The database has the statements of the recorded versions, which are the first.
Schema ==
    /\ \A m \in Versions : made[m] = IF m \in recorded THEN Statements ELSE 0
    /\ \E v \in 0..LastVersion : recorded = 1..v

\* A process that is past a version has found or made it, and has found nothing
\* that is not recorded.
Progress ==
    \A p \in Openers :
        /\ opener[p].pc \in {"exec", "record"} => opener[p].version \in Versions
        /\ opener[p].pc = "open" => opener[p].version = LastVersion + 1
        /\ opener[p].pc \in {"migrate", "exec", "record", "open"} =>
              /\ opener[p].applied \subseteq recorded
              /\ \A m \in Versions : m < opener[p].version => m \in recorded

MigrationsInv == MigrationsType /\ Schema /\ Progress

\* Every step keeps the types ...
LEMMA MigrationsTypeStep ==
    ASSUME MigrationsType, NextMigrations
    PROVE  MigrationsType'
<1> USE MigrationsAssumption DEF MigrationsType, Versions
<1>1. ASSUME NEW p \in Openers, AppliedVersions(p) PROVE MigrationsType'
  BY <1>1 DEF AppliedVersions
<1>2. ASSUME NEW p \in Openers, NextMigration(p) PROVE MigrationsType'
  <2>0. /\ opener[p].version \in 1..(LastVersion + 1) /\ opener[p].pc = "migrate"
        /\ opener[p].version \notin Versions \ opener[p].applied
        /\ recorded' = recorded /\ made' = made
    BY <1>2 DEF NextMigration
  <2>1. CASE opener[p].version > LastVersion
    <3>1. opener' = [opener EXCEPT ![p] = [opener[p] EXCEPT !.pc = "open"]]
      BY <1>2, <2>1 DEF NextMigration
    <3>2. opener[p].version = LastVersion + 1
      BY <2>0, <2>1
    <3> QED BY <2>0, <3>1, <3>2
  <2>2. CASE ~(opener[p].version > LastVersion)
    <3>1. opener' = [opener EXCEPT ![p] = [opener[p] EXCEPT !.version = opener[p].version + 1]]
      BY <1>2, <2>2 DEF NextMigration
    <3>2. opener[p].version \in 1..LastVersion /\ opener[p].version \in opener[p].applied
      BY <2>0, <2>2
    <3>3. opener[p].version + 1 \in 1..(LastVersion + 1)
      BY <3>2
    <3> QED BY <2>0, <3>1, <3>3
  <2> QED BY <2>1, <2>2
<1>3. ASSUME NEW p \in Openers, BeginTx(p) PROVE MigrationsType'
  BY <1>3 DEF BeginTx
<1>4. ASSUME NEW p \in Openers, Exec(p) PROVE MigrationsType'
  BY <1>4 DEF Exec
<1>5. ASSUME NEW p \in Openers, RecordVersion(p) PROVE MigrationsType'
  BY <1>5 DEF RecordVersion
<1>6. ASSUME NEW p \in Openers, OpenFails(p) PROVE MigrationsType'
  BY <1>6 DEF OpenFails, Rollback
<1>7. ASSUME NEW p \in Openers, Restart(p) PROVE MigrationsType'
  BY <1>7 DEF Restart, Rollback, ClosedStore
<1> QED BY <1>1, <1>2, <1>3, <1>4, <1>5, <1>6, <1>7 DEF NextMigrations

\* ... what the versions mean ...
LEMMA SchemaStep ==
    ASSUME MigrationsType, Schema, Progress, NextMigrations
    PROVE  Schema'
<1> USE MigrationsAssumption DEF MigrationsType, Schema, Progress, Versions
<1>1. ASSUME NEW p \in Openers, AppliedVersions(p) PROVE Schema'
  BY <1>1 DEF AppliedVersions
<1>2. ASSUME NEW p \in Openers, NextMigration(p) PROVE Schema'
  BY <1>2 DEF NextMigration
<1>3. ASSUME NEW p \in Openers, BeginTx(p) PROVE Schema'
  BY <1>3 DEF BeginTx
<1>4. ASSUME NEW p \in Openers, Exec(p) PROVE Schema'
  BY <1>4 DEF Exec
<1>5. ASSUME NEW p \in Openers, RecordVersion(p) PROVE Schema'
  <2> DEFINE m == opener[p].version
  <2>1. m \in Versions /\ m \notin recorded /\ recorded' = recorded \cup {m}
    BY <1>5 DEF RecordVersion
  <2>2. PICK v \in 0..LastVersion : recorded = 1..v
    OBVIOUS
  <2>3. \A k \in Versions : k < m => k \in recorded
    BY <1>5 DEF RecordVersion
  <2>4. v = m - 1
    <3>1. ~(m <= v)
      BY <2>1, <2>2
    <3>2. ~(v + 1 < m)
      <4>1. v + 1 < m => v + 1 \in Versions
        BY <2>1, <2>2
      <4> QED BY <2>2, <2>3, <4>1
    <3> QED BY <2>1, <2>2, <3>1, <3>2
  <2>5. recorded' = 1..m /\ m \in 0..LastVersion
    BY <2>1, <2>2, <2>4
  <2>6. \A k \in Versions : made'[k] = IF k \in recorded' THEN Statements ELSE 0
    BY <1>5, <2>1 DEF RecordVersion
  <2> QED BY <2>5, <2>6
<1>6. ASSUME NEW p \in Openers, OpenFails(p) PROVE Schema'
  BY <1>6 DEF OpenFails, Rollback
<1>7. ASSUME NEW p \in Openers, Restart(p) PROVE Schema'
  BY <1>7 DEF Restart, Rollback, ClosedStore
<1> QED BY <1>1, <1>2, <1>3, <1>4, <1>5, <1>6, <1>7 DEF NextMigrations

\* ... and what a process knows.
LEMMA ProgressStep ==
    ASSUME MigrationsType, Progress, NextMigrations
    PROVE  Progress'
<1> USE MigrationsAssumption DEF MigrationsType, Progress, Versions
<1>1. ASSUME NEW p \in Openers, AppliedVersions(p) PROVE Progress'
  BY <1>1 DEF AppliedVersions
<1>2. ASSUME NEW p \in Openers, NextMigration(p) PROVE Progress'
  <2>0. /\ opener[p].version \in 1..(LastVersion + 1) /\ opener[p].pc = "migrate"
        /\ opener[p].version \notin Versions \ opener[p].applied
        /\ recorded' = recorded /\ made' = made
    BY <1>2 DEF NextMigration
  <2>1. CASE opener[p].version > LastVersion
    <3>1. opener' = [opener EXCEPT ![p] = [opener[p] EXCEPT !.pc = "open"]]
      BY <1>2, <2>1 DEF NextMigration
    <3>2. opener[p].version = LastVersion + 1
      BY <2>0, <2>1
    <3> QED BY <2>0, <3>1, <3>2
  <2>2. CASE ~(opener[p].version > LastVersion)
    <3>1. opener' = [opener EXCEPT ![p] = [opener[p] EXCEPT !.version = opener[p].version + 1]]
      BY <1>2, <2>2 DEF NextMigration
    <3>2. opener[p].version \in 1..LastVersion /\ opener[p].version \in opener[p].applied
      BY <2>0, <2>2
    <3> QED BY <2>0, <3>1, <3>2
  <2> QED BY <2>1, <2>2
<1>3. ASSUME NEW p \in Openers, BeginTx(p) PROVE Progress'
  BY <1>3 DEF BeginTx
<1>4. ASSUME NEW p \in Openers, Exec(p) PROVE Progress'
  BY <1>4 DEF Exec
<1>5. ASSUME NEW p \in Openers, RecordVersion(p) PROVE Progress'
  BY <1>5 DEF RecordVersion
<1>6. ASSUME NEW p \in Openers, OpenFails(p) PROVE Progress'
  BY <1>6 DEF OpenFails, Rollback
<1>7. ASSUME NEW p \in Openers, Restart(p) PROVE Progress'
  BY <1>7 DEF Restart, Rollback, ClosedStore
<1> QED BY <1>1, <1>2, <1>3, <1>4, <1>5, <1>6, <1>7 DEF NextMigrations

\* Every step keeps the invariant, and a new database or one of an earlier release
\* has it.
LEMMA StepMigrations == MigrationsInv /\ [NextMigrations]_migrationVars => MigrationsInv'
<1>1. ASSUME MigrationsInv, NextMigrations PROVE MigrationsInv'
  BY <1>1, MigrationsTypeStep, SchemaStep, ProgressStep DEF MigrationsInv
<1>2. ASSUME MigrationsInv, UNCHANGED migrationVars PROVE MigrationsInv'
  BY <1>2 DEF migrationVars, MigrationsInv, MigrationsType, Schema, Progress
<1> QED BY <1>1, <1>2

\* It holds before the first migration.
LEMMA FirstMigrations == InitMigrations => MigrationsInv
<1> SUFFICES ASSUME InitMigrations PROVE MigrationsInv
  OBVIOUS
<1> USE MigrationsAssumption DEF InitMigrations, ClosedStore, Versions
<1>1. PICK v \in 0..LastVersion :
          recorded = 1..v /\ made = [m \in Versions |-> IF m <= v THEN Statements ELSE 0]
  OBVIOUS
<1>2. MigrationsType
  BY <1>1 DEF MigrationsType
<1>3. Schema
  BY SMTT(30), <1>1 DEF Schema
<1>4. Progress
  BY DEF Progress
<1> QED BY <1>2, <1>3, <1>4 DEF MigrationsInv

\* Whichever processes open the database at once and wherever they die, it has the
\* statements of the recorded versions, in their order, and who opened the store
\* finds all of them (migrate, applyMigration).
THEOREM SchemaIsVersionedHolds == MigrationsSpec => []SchemaIsVersioned
<1>1. MigrationsInv => SchemaIsVersioned
  <2> SUFFICES ASSUME MigrationsInv, NEW p \in Openers, opener[p].pc = "open" PROVE recorded = Versions
    BY DEF SchemaIsVersioned, MigrationsInv, Schema
  <2>1. opener[p].version = LastVersion + 1
    BY DEF MigrationsInv, Progress
  <2>2. \A m \in Versions : m \in recorded
    BY <2>1, MigrationsAssumption DEF MigrationsInv, Progress, Versions
  <2> QED BY <2>2 DEF MigrationsInv, MigrationsType
<1>2. MigrationsSpec => []MigrationsInv
  BY FirstMigrations, StepMigrations, PTL DEF MigrationsSpec
<1> QED BY <1>1, <1>2, PTL

-----------------------------------------------------------------------------
(* Terminals.                                                              *)

TerminalsSpec == InitTerminals /\ [][NextTerminals]_terminalVars

Box == [frames : Int, count : Int, writing : BOOLEAN, closed : BOOLEAN, done : BOOLEAN]

TerminalsType ==
    /\ open \in Handlers \cup {Nobody}
    /\ handler \in [Handlers ->
          [pc : {"new", "put", "replace", "terminal", "recording", "attach", "shutdown", "read",
                 "remove", "close", "gone"},
           previous : Handlers \cup {Nobody}]]
    /\ closing \in [Handlers -> {"no", "finish", "pty", "cast", "cancel", "done"}]
    /\ attached \in [Handlers -> BOOLEAN]
    /\ pty \in [Handlers -> {"none", "open", "closed"}]
    /\ cast \in [Handlers -> {"none", "open", "closed"}]
    /\ outbox \in [Handlers -> Box]
    /\ cancelled \in [Handlers -> BOOLEAN]

\* A shell or a recording that is open belongs to a handler that is about to attach
\* or to close it, or to a session whose close is not there yet.
Held ==
    \A h \in Handlers :
        /\ attached[h] => handler[h].pc \in {"read", "remove", "close", "gone"}
        /\ pty[h] = "open" => IF attached[h] THEN closing[h] \in {"no", "finish", "pty"}
                                             ELSE handler[h].pc \in {"recording", "attach"}
        /\ cast[h] = "open" => IF attached[h] THEN closing[h] \in {"no", "finish", "pty", "cast"}
                                              ELSE handler[h].pc = "attach"

\* How far close is, and that a handler returns after it.
Closed ==
    \A h \in Handlers :
        /\ closing[h] \in {"pty", "cast", "cancel", "done"} => outbox[h].closed
        /\ closing[h] = "done" => cancelled[h]
        /\ handler[h].pc = "gone" => closing[h] = "done"

\* Between put and remove a handler is registered, or is being closed or about to be
\* by the one that replaced it; before and after it is not.
Registered ==
    \A h \in Handlers :
        /\ handler[h].pc \in {"new", "put", "close", "gone"} => open # h
        /\ handler[h].pc \notin {"new", "put", "close", "gone"} =>
              \/ open = h \/ closing[h] # "no"
              \/ \E g \in Handlers : handler[g].pc = "replace" /\ handler[g].previous = h

TerminalsInv == TerminalsType /\ Held /\ Closed /\ Registered

\* What send and finish make of an outbox: it stays one, and stays closed.
LEMMA BoxSteps ==
    ASSUME NEW box \in Box
    PROVE  /\ Finished(box) \in Box /\ Finished(box).closed
           /\ Sent(box) \in Box /\ (box.closed => Sent(box).closed)
           /\ Finished(Sent(box)) \in Box /\ Finished(Sent(box)).closed
<1>1. \A b \in Box : Finished(b) \in Box /\ Finished(b).closed
  BY DEF Finished, Box
<1>2. Sent(box) \in Box
  <2>1. CASE box.closed
    BY <2>1 DEF Sent
  <2>2. CASE ~box.closed /\ box.count + 1 > MaxOutbox
    BY <1>1, <2>2 DEF Sent
  <2>3. CASE ~box.closed /\ ~(box.count + 1 > MaxOutbox)
    <3>1. Sent(box) = [box EXCEPT !.count = box.count + 1, !.frames = box.frames + 1]
      BY <2>3 DEF Sent
    <3>2. \A c, f \in Int : [box EXCEPT !.count = c, !.frames = f] \in Box
      BY DEF Box
    <3>3. box.count + 1 \in Int /\ box.frames + 1 \in Int
      BY DEF Box
    <3> QED BY <3>1, <3>2, <3>3
  <2> QED BY <2>1, <2>2, <2>3
<1>3. box.closed => Sent(box).closed
  BY DEF Sent
<1> QED BY <1>1, <1>2, <1>3

\* Every step keeps the types ...
LEMMA TerminalsTypeStep ==
    ASSUME TerminalsType, NextTerminals
    PROVE  TerminalsType'
<1> USE DEF TerminalsType
<1>1. ASSUME NEW h \in Handlers, Accept(h) PROVE TerminalsType'
  BY <1>1 DEF Accept, Goes
<1>2. ASSUME NEW h \in Handlers, Put(h) PROVE TerminalsType'
  BY <1>2 DEF Put
<1>3. ASSUME NEW h \in Handlers, Replaced(h) PROVE TerminalsType'
  BY <1>3 DEF Replaced, Goes
<1>4. ASSUME NEW h \in Handlers, OpenTerminal(h) PROVE TerminalsType'
  BY <1>4 DEF OpenTerminal, Goes
<1>5. ASSUME NEW h \in Handlers, OpenTerminalFails(h) PROVE TerminalsType'
  BY <1>5, BoxSteps DEF OpenTerminalFails, Goes
<1>6. ASSUME NEW h \in Handlers, OpenRecording(h) PROVE TerminalsType'
  BY <1>6 DEF OpenRecording, Goes
<1>7. ASSUME NEW h \in Handlers, OpenRecordingFails(h) PROVE TerminalsType'
  BY <1>7, BoxSteps DEF OpenRecordingFails, Goes
<1>8. ASSUME NEW h \in Handlers, Shutdown(h) PROVE TerminalsType'
  BY <1>8 DEF Shutdown, Goes
<1>9. ASSUME NEW h \in Handlers, Attach(h) PROVE TerminalsType'
  <2>1. CASE closing[h] = "no"
    <3>1. /\ handler' = [handler EXCEPT ![h].pc = "read"]
          /\ attached' = [attached EXCEPT ![h] = TRUE]
          /\ UNCHANGED <<open, closing, pty, cast, outbox, cancelled>>
      BY <1>9, <2>1 DEF Attach, Goes
    <3> QED BY <3>1
  <2>2. CASE closing[h] # "no"
    <3>1. /\ handler' = [handler EXCEPT ![h].pc = "remove"]
          /\ pty' = [pty EXCEPT ![h] = "closed"] /\ cast' = [cast EXCEPT ![h] = "closed"]
          /\ UNCHANGED <<open, closing, attached, outbox, cancelled>>
      BY <1>9, <2>2 DEF Attach, Goes
    <3> QED BY <3>1
  <2> QED BY <2>1, <2>2
<1>10. ASSUME NEW h \in Handlers, ReadClientEnds(h) PROVE TerminalsType'
  BY <1>10 DEF ReadClientEnds, Goes
<1>11. ASSUME NEW h \in Handlers, Unregister(h) PROVE TerminalsType'
  BY <1>11 DEF Unregister, Goes
<1>12. ASSUME NEW h \in Handlers, HandlerReturns(h) PROVE TerminalsType'
  BY <1>12 DEF HandlerReturns, Goes
<1>13. ASSUME NEW h \in Handlers, ClientLeaves(h) PROVE TerminalsType'
  BY <1>13 DEF ClientLeaves
<1>14. ASSUME NEW h \in Handlers, ConnCloses(h) PROVE TerminalsType'
  BY <1>14 DEF ConnCloses
<1>15. ASSUME NEW h \in Handlers, CloseMarks(h) PROVE TerminalsType'
  BY <1>15 DEF CloseMarks, CloseStep
<1>16. ASSUME NEW h \in Handlers, CloseFinishes(h) PROVE TerminalsType'
  BY <1>16, BoxSteps DEF CloseFinishes, CloseStep
<1>17. ASSUME NEW h \in Handlers, ClosePty(h) PROVE TerminalsType'
  BY <1>17 DEF ClosePty, CloseStep
<1>18. ASSUME NEW h \in Handlers, CloseCast(h) PROVE TerminalsType'
  BY <1>18 DEF CloseCast, CloseStep
<1>19. ASSUME NEW h \in Handlers, CloseCancels(h) PROVE TerminalsType'
  BY <1>19 DEF CloseCancels, CloseStep
<1>20. ASSUME NEW h \in Handlers, PumpSends(h) PROVE TerminalsType'
  BY <1>20, BoxSteps DEF PumpSends
<1>21. ASSUME NEW h \in Handlers, PumpReadEnds(h) PROVE TerminalsType'
  BY <1>21, BoxSteps DEF PumpReadEnds
<1>22. ASSUME NEW h \in Handlers, PumpShutdown(h) PROVE TerminalsType'
  BY <1>22 DEF PumpShutdown
<1>23. ASSUME NEW h \in Handlers, PumpReturns(h) PROVE TerminalsType'
  BY <1>23 DEF PumpReturns
<1>24. ASSUME NEW h \in Handlers, WriterTakes(h) PROVE TerminalsType'
  BY <1>24 DEF WriterTakes, Box
<1>25. ASSUME NEW h \in Handlers, WriterStops(h) PROVE TerminalsType'
  BY ZenonT(40), <1>25 DEF WriterStops, Box
<1>26. ASSUME NEW h \in Handlers, NEW ok \in BOOLEAN, WriterWrites(h, ok) PROVE TerminalsType'
  BY <1>26 DEF WriterWrites, Box
<1> QED BY <1>1, <1>2, <1>3, <1>4, <1>5, <1>6, <1>7, <1>8, <1>9, <1>10, <1>11, <1>12, <1>13, <1>14,
        <1>15, <1>16, <1>17, <1>18, <1>19, <1>20, <1>21, <1>22, <1>23, <1>24, <1>25, <1>26 DEF
        NextTerminals

\* ... who holds what ...
LEMMA HeldStep ==
    ASSUME TerminalsType, Held, NextTerminals
    PROVE  Held'
<1> USE DEF TerminalsType, Held
<1>1. ASSUME NEW h \in Handlers, Accept(h) PROVE Held'
  BY <1>1 DEF Accept, Goes
<1>2. ASSUME NEW h \in Handlers, Put(h) PROVE Held'
  BY <1>2 DEF Put
<1>3. ASSUME NEW h \in Handlers, Replaced(h) PROVE Held'
  BY <1>3 DEF Replaced, Goes
<1>4. ASSUME NEW h \in Handlers, OpenTerminal(h) PROVE Held'
  BY <1>4 DEF OpenTerminal, Goes
<1>5. ASSUME NEW h \in Handlers, OpenTerminalFails(h) PROVE Held'
  BY <1>5, BoxSteps DEF OpenTerminalFails, Goes
<1>6. ASSUME NEW h \in Handlers, OpenRecording(h) PROVE Held'
  BY <1>6 DEF OpenRecording, Goes
<1>7. ASSUME NEW h \in Handlers, OpenRecordingFails(h) PROVE Held'
  BY <1>7, BoxSteps DEF OpenRecordingFails, Goes
<1>8. ASSUME NEW h \in Handlers, Shutdown(h) PROVE Held'
  BY <1>8 DEF Shutdown, Goes
<1>9. ASSUME NEW h \in Handlers, Attach(h) PROVE Held'
  BY <1>9 DEF Attach, Goes
<1>10. ASSUME NEW h \in Handlers, ReadClientEnds(h) PROVE Held'
  BY <1>10 DEF ReadClientEnds, Goes
<1>11. ASSUME NEW h \in Handlers, Unregister(h) PROVE Held'
  BY <1>11 DEF Unregister, Goes
<1>12. ASSUME NEW h \in Handlers, HandlerReturns(h) PROVE Held'
  BY <1>12 DEF HandlerReturns, Goes
<1>13. ASSUME NEW h \in Handlers, ClientLeaves(h) PROVE Held'
  BY <1>13 DEF ClientLeaves
<1>14. ASSUME NEW h \in Handlers, ConnCloses(h) PROVE Held'
  BY <1>14 DEF ConnCloses
<1>15. ASSUME NEW h \in Handlers, CloseMarks(h) PROVE Held'
  BY <1>15 DEF CloseMarks, CloseStep
<1>16. ASSUME NEW h \in Handlers, CloseFinishes(h) PROVE Held'
  BY <1>16, BoxSteps DEF CloseFinishes, CloseStep
<1>17. ASSUME NEW h \in Handlers, ClosePty(h) PROVE Held'
  BY <1>17 DEF ClosePty, CloseStep
<1>18. ASSUME NEW h \in Handlers, CloseCast(h) PROVE Held'
  BY <1>18 DEF CloseCast, CloseStep
<1>19. ASSUME NEW h \in Handlers, CloseCancels(h) PROVE Held'
  BY <1>19 DEF CloseCancels, CloseStep
<1>20. ASSUME NEW h \in Handlers, PumpSends(h) PROVE Held'
  BY <1>20, BoxSteps DEF PumpSends
<1>21. ASSUME NEW h \in Handlers, PumpReadEnds(h) PROVE Held'
  BY <1>21, BoxSteps DEF PumpReadEnds
<1>22. ASSUME NEW h \in Handlers, PumpShutdown(h) PROVE Held'
  BY <1>22 DEF PumpShutdown
<1>23. ASSUME NEW h \in Handlers, PumpReturns(h) PROVE Held'
  BY <1>23 DEF PumpReturns
<1>24. ASSUME NEW h \in Handlers, WriterTakes(h) PROVE Held'
  BY <1>24 DEF WriterTakes
<1>25. ASSUME NEW h \in Handlers, WriterStops(h) PROVE Held'
  BY <1>25 DEF WriterStops
<1>26. ASSUME NEW h \in Handlers, NEW ok \in BOOLEAN, WriterWrites(h, ok) PROVE Held'
  BY <1>26 DEF WriterWrites
<1> QED BY <1>1, <1>2, <1>3, <1>4, <1>5, <1>6, <1>7, <1>8, <1>9, <1>10, <1>11, <1>12, <1>13, <1>14,
        <1>15, <1>16, <1>17, <1>18, <1>19, <1>20, <1>21, <1>22, <1>23, <1>24, <1>25, <1>26 DEF
        NextTerminals

\* ... how far close is ...
LEMMA ClosedStep ==
    ASSUME TerminalsType, Closed, NextTerminals
    PROVE  Closed'
<1> USE DEF TerminalsType, Closed
<1>1. ASSUME NEW h \in Handlers, Accept(h) PROVE Closed'
  BY <1>1 DEF Accept, Goes
<1>2. ASSUME NEW h \in Handlers, Put(h) PROVE Closed'
  BY <1>2 DEF Put
<1>3. ASSUME NEW h \in Handlers, Replaced(h) PROVE Closed'
  BY <1>3 DEF Replaced, Goes
<1>4. ASSUME NEW h \in Handlers, OpenTerminal(h) PROVE Closed'
  BY <1>4 DEF OpenTerminal, Goes
<1>5. ASSUME NEW h \in Handlers, OpenTerminalFails(h) PROVE Closed'
  BY <1>5, BoxSteps DEF OpenTerminalFails, Goes
<1>6. ASSUME NEW h \in Handlers, OpenRecording(h) PROVE Closed'
  BY <1>6 DEF OpenRecording, Goes
<1>7. ASSUME NEW h \in Handlers, OpenRecordingFails(h) PROVE Closed'
  BY <1>7, BoxSteps DEF OpenRecordingFails, Goes
<1>8. ASSUME NEW h \in Handlers, Shutdown(h) PROVE Closed'
  BY <1>8 DEF Shutdown, Goes
<1>9. ASSUME NEW h \in Handlers, Attach(h) PROVE Closed'
  BY <1>9 DEF Attach, Goes
<1>10. ASSUME NEW h \in Handlers, ReadClientEnds(h) PROVE Closed'
  BY <1>10 DEF ReadClientEnds, Goes
<1>11. ASSUME NEW h \in Handlers, Unregister(h) PROVE Closed'
  BY <1>11 DEF Unregister, Goes
<1>12. ASSUME NEW h \in Handlers, HandlerReturns(h) PROVE Closed'
  BY <1>12 DEF HandlerReturns, Goes
<1>13. ASSUME NEW h \in Handlers, ClientLeaves(h) PROVE Closed'
  BY <1>13 DEF ClientLeaves
<1>14. ASSUME NEW h \in Handlers, ConnCloses(h) PROVE Closed'
  BY <1>14 DEF ConnCloses
<1>15. ASSUME NEW h \in Handlers, CloseMarks(h) PROVE Closed'
  BY <1>15 DEF CloseMarks, CloseStep
<1>16. ASSUME NEW h \in Handlers, CloseFinishes(h) PROVE Closed'
  BY <1>16, BoxSteps DEF CloseFinishes, CloseStep
<1>17. ASSUME NEW h \in Handlers, ClosePty(h) PROVE Closed'
  BY <1>17 DEF ClosePty, CloseStep
<1>18. ASSUME NEW h \in Handlers, CloseCast(h) PROVE Closed'
  BY <1>18 DEF CloseCast, CloseStep
<1>19. ASSUME NEW h \in Handlers, CloseCancels(h) PROVE Closed'
  BY <1>19 DEF CloseCancels, CloseStep
<1>20. ASSUME NEW h \in Handlers, PumpSends(h) PROVE Closed'
  BY <1>20, BoxSteps DEF PumpSends
<1>21. ASSUME NEW h \in Handlers, PumpReadEnds(h) PROVE Closed'
  BY <1>21, BoxSteps DEF PumpReadEnds
<1>22. ASSUME NEW h \in Handlers, PumpShutdown(h) PROVE Closed'
  BY <1>22 DEF PumpShutdown
<1>23. ASSUME NEW h \in Handlers, PumpReturns(h) PROVE Closed'
  BY <1>23 DEF PumpReturns
<1>24. ASSUME NEW h \in Handlers, WriterTakes(h) PROVE Closed'
  BY <1>24 DEF WriterTakes, Box
<1>25. ASSUME NEW h \in Handlers, WriterStops(h) PROVE Closed'
  BY <1>25 DEF WriterStops, Box
<1>26. ASSUME NEW h \in Handlers, NEW ok \in BOOLEAN, WriterWrites(h, ok) PROVE Closed'
  BY <1>26 DEF WriterWrites, Box
<1> QED BY <1>1, <1>2, <1>3, <1>4, <1>5, <1>6, <1>7, <1>8, <1>9, <1>10, <1>11, <1>12, <1>13, <1>14,
        <1>15, <1>16, <1>17, <1>18, <1>19, <1>20, <1>21, <1>22, <1>23, <1>24, <1>25, <1>26 DEF
        NextTerminals

\* ... and who is registered.
LEMMA RegisteredStep ==
    ASSUME TerminalsType, Registered, NextTerminals
    PROVE  Registered'
<1> USE OutboxAssumption DEF TerminalsType, Registered
<1>1. ASSUME NEW h \in Handlers, Accept(h) PROVE Registered'
  BY <1>1 DEF Accept, Goes
<1>2. ASSUME NEW h \in Handlers, Put(h) PROVE Registered'
  BY <1>2 DEF Put
<1>3. ASSUME NEW h \in Handlers, Replaced(h) PROVE Registered'
  BY <1>3 DEF Replaced, Goes
<1>4. ASSUME NEW h \in Handlers, OpenTerminal(h) PROVE Registered'
  BY <1>4 DEF OpenTerminal, Goes
<1>5. ASSUME NEW h \in Handlers, OpenTerminalFails(h) PROVE Registered'
  BY <1>5, BoxSteps DEF OpenTerminalFails, Goes
<1>6. ASSUME NEW h \in Handlers, OpenRecording(h) PROVE Registered'
  BY <1>6 DEF OpenRecording, Goes
<1>7. ASSUME NEW h \in Handlers, OpenRecordingFails(h) PROVE Registered'
  BY <1>7, BoxSteps DEF OpenRecordingFails, Goes
<1>8. ASSUME NEW h \in Handlers, Shutdown(h) PROVE Registered'
  BY <1>8 DEF Shutdown, Goes
<1>9. ASSUME NEW h \in Handlers, Attach(h) PROVE Registered'
  BY <1>9 DEF Attach, Goes
<1>10. ASSUME NEW h \in Handlers, ReadClientEnds(h) PROVE Registered'
  BY <1>10 DEF ReadClientEnds, Goes
<1>11. ASSUME NEW h \in Handlers, Unregister(h) PROVE Registered'
  BY <1>11 DEF Unregister, Goes
<1>12. ASSUME NEW h \in Handlers, HandlerReturns(h) PROVE Registered'
  BY <1>12 DEF HandlerReturns, Goes
<1>13. ASSUME NEW h \in Handlers, ClientLeaves(h) PROVE Registered'
  BY <1>13 DEF ClientLeaves
<1>14. ASSUME NEW h \in Handlers, ConnCloses(h) PROVE Registered'
  BY <1>14 DEF ConnCloses
<1>15. ASSUME NEW h \in Handlers, CloseMarks(h) PROVE Registered'
  BY <1>15 DEF CloseMarks, CloseStep
<1>16. ASSUME NEW h \in Handlers, CloseFinishes(h) PROVE Registered'
  BY <1>16, BoxSteps DEF CloseFinishes, CloseStep
<1>17. ASSUME NEW h \in Handlers, ClosePty(h) PROVE Registered'
  BY <1>17 DEF ClosePty, CloseStep
<1>18. ASSUME NEW h \in Handlers, CloseCast(h) PROVE Registered'
  BY <1>18 DEF CloseCast, CloseStep
<1>19. ASSUME NEW h \in Handlers, CloseCancels(h) PROVE Registered'
  BY <1>19 DEF CloseCancels, CloseStep
<1>20. ASSUME NEW h \in Handlers, PumpSends(h) PROVE Registered'
  BY <1>20, BoxSteps DEF PumpSends
<1>21. ASSUME NEW h \in Handlers, PumpReadEnds(h) PROVE Registered'
  BY <1>21, BoxSteps DEF PumpReadEnds
<1>22. ASSUME NEW h \in Handlers, PumpShutdown(h) PROVE Registered'
  BY <1>22 DEF PumpShutdown
<1>23. ASSUME NEW h \in Handlers, PumpReturns(h) PROVE Registered'
  BY <1>23 DEF PumpReturns
<1>24. ASSUME NEW h \in Handlers, WriterTakes(h) PROVE Registered'
  BY <1>24 DEF WriterTakes
<1>25. ASSUME NEW h \in Handlers, WriterStops(h) PROVE Registered'
  BY <1>25 DEF WriterStops
<1>26. ASSUME NEW h \in Handlers, NEW ok \in BOOLEAN, WriterWrites(h, ok) PROVE Registered'
  BY <1>26 DEF WriterWrites
<1> QED BY <1>1, <1>2, <1>3, <1>4, <1>5, <1>6, <1>7, <1>8, <1>9, <1>10, <1>11, <1>12, <1>13, <1>14,
        <1>15, <1>16, <1>17, <1>18, <1>19, <1>20, <1>21, <1>22, <1>23, <1>24, <1>25, <1>26 DEF
        NextTerminals

\* Every step keeps the invariant, which holds before a browser comes.
LEMMA StepTerminals == TerminalsInv /\ [NextTerminals]_terminalVars => TerminalsInv'
<1>1. ASSUME TerminalsInv, NextTerminals PROVE TerminalsInv'
  BY <1>1, TerminalsTypeStep, HeldStep, ClosedStep, RegisteredStep DEF TerminalsInv
<1>2. ASSUME TerminalsInv, UNCHANGED terminalVars PROVE TerminalsInv'
  BY <1>2 DEF terminalVars, TerminalsInv, TerminalsType, Held, Closed, Registered
<1> QED BY <1>1, <1>2

\* It holds before the first terminal is opened.
LEMMA FirstTerminals == InitTerminals => TerminalsInv
<1> SUFFICES ASSUME InitTerminals PROVE TerminalsInv
  OBVIOUS
<1>1. TerminalsType
  BY DEF InitTerminals, TerminalsType, Box
<1>2. Held /\ Closed /\ Registered
  BY OutboxAssumption DEF InitTerminals, Held, Closed, Registered
<1> QED BY <1>1, <1>2 DEF TerminalsInv

\* Whoever closes a terminal session and however that meets its opening, a handler
\* that returned leaves nothing behind, and one that is replaced is closed
\* (terminal, attach, close, put, remove).
THEOREM NothingLeaksHolds == TerminalsSpec => []NothingLeaks
<1>1. TerminalsInv => NothingLeaks
  <2> SUFFICES ASSUME TerminalsInv, NEW h \in Handlers
               PROVE  /\ handler[h].pc = "gone" =>
                            /\ pty[h] # "open" /\ cast[h] # "open"
                            /\ outbox[h].closed /\ cancelled[h]
                            /\ open # h
                      /\ (attached[h] /\ closing[h] = "no") => HasOwner(h)
    BY DEF NothingLeaks
  <2>1. CASE handler[h].pc = "gone"
    BY <2>1 DEF TerminalsInv, Held, Closed, Registered
  <2>2. CASE handler[h].pc # "gone"
    BY <2>2 DEF TerminalsInv, Held, Registered, HasOwner
  <2> QED BY <2>1, <2>2
<1>2. TerminalsSpec => []TerminalsInv
  BY FirstTerminals, StepTerminals, PTL DEF TerminalsSpec
<1> QED BY <1>1, <1>2, PTL

-----------------------------------------------------------------------------
(* The events socket.                                                      *)

EventSocketSpec == InitEventSocket /\ [][NextEventSocket]_eventVars

BusEvents == {"running", "abandoned", "passed", "progress", "checkpoint"}

EventSocketType ==
    /\ stored \in {"provisioning", "running", "abandoned", "passed"}
    /\ pending \subseteq {"running", "abandoned", "passed"}
    /\ channel \in Seq(BusEvents) /\ Len(channel) <= Room
    /\ subscribed \in BOOLEAN /\ lost \in BOOLEAN
    /\ socketAt \in {"new", "view", "accept", "follow", "gone"}

\* A status that was stored and that the browser has not been sent.
Coming(status) == status \in pending \/ Queued(channel, status)

\* Only an end that was taken back or a pass comes after running was stored.
RunningStays == Coming("running") => stored \in {"running", "passed"}

\* A handler that follows was shown no end, and was shown the stored status unless
\* that one, or an end, is still to come.
Current ==
    /\ socketAt = "follow" => shown \notin TerminalStatuses
    /\ (socketAt \in {"accept", "follow"} /\ subscribed /\ ~lost) =>
          shown = stored \/ Coming(stored) \/ \E t \in TerminalStatuses : Coming(t)

EventSocketInv == EventSocketType /\ RunningStays /\ Current

\* What publish makes of what is to come.
LEMMA PublishedEvents ==
    ASSUME EventSocketType, NEW event \in BusEvents, Publish(event)
    PROVE  /\ channel' \in Seq(BusEvents) /\ Len(channel') <= Room
           /\ \A m : Queued(channel', m) => Queued(channel, m) \/ m = event
           /\ \A m : Queued(channel, m) => Queued(channel', m)
           /\ (subscribed /\ ~(Len(channel) >= Room)) => Queued(channel', event)
<1> USE EventSocketAssumption DEF EventSocketType
<1>1. CASE subscribed
  <2>1. channel' = Published(channel, event, Room) /\ Len(channel) \in Nat
    BY <1>1 DEF Publish
  <2>2. \A m : Queued(channel', m) => Queued(channel, m) \/ m = event
    BY <2>1, PublishedChannel
  <2>3. \A m : Queued(channel, m) => Queued(channel', m)
    BY <2>1, PublishedChannel
  <2>4. channel' \in Seq(BusEvents) /\ Len(channel') <= Room /\ (Len(channel) < Room => Queued(channel', event))
    BY <2>1, PublishedChannel
  <2> QED BY <1>1, <2>1, <2>2, <2>3, <2>4
<1>2. CASE ~subscribed
  <2>1. channel' = channel
    BY <1>2 DEF Publish
  <2> QED BY <1>2, <2>1
<1> QED BY <1>1, <1>2

\* Every step keeps the types ...
LEMMA EventSocketTypeStep ==
    ASSUME EventSocketType, NextEventSocket
    PROVE  EventSocketType'
<1> USE DEF EventSocketType
<1>1. ASSUME NEW status \in {"running", "abandoned", "passed"}, StoreStatus(status)
      PROVE  EventSocketType'
  BY <1>1 DEF StoreStatus, Follow
<1>2. ASSUME NEW status \in {"running", "abandoned", "passed"}, PublishStatus(status)
      PROVE  EventSocketType'
  <2>1. Publish(status)
    BY <1>2 DEF PublishStatus
  <2>2. status \in BusEvents
    BY <1>2 DEF PublishStatus, BusEvents
  <2>3. /\ channel' \in Seq(BusEvents) /\ Len(channel') <= Room
        /\ \A m : Queued(channel', m) => Queued(channel, m) \/ m = status
        /\ \A m : Queued(channel, m) => Queued(channel', m)
        /\ (subscribed /\ ~(Len(channel) >= Room)) => Queued(channel', status)
    BY <2>1, <2>2, PublishedEvents
  <2> QED BY <1>2, <2>2, <2>3 DEF PublishStatus
<1>3. ASSUME NEW event \in {"progress", "checkpoint"}, PublishProgress(event) PROVE EventSocketType'
  <2>1. Publish(event)
    BY <1>3 DEF PublishProgress
  <2>2. event \in BusEvents
    BY <1>3 DEF PublishProgress, BusEvents
  <2>3. /\ channel' \in Seq(BusEvents) /\ Len(channel') <= Room
        /\ \A m : Queued(channel', m) => Queued(channel, m) \/ m = event
        /\ \A m : Queued(channel, m) => Queued(channel', m)
        /\ (subscribed /\ ~(Len(channel) >= Room)) => Queued(channel', event)
    BY <2>1, <2>2, PublishedEvents
  <2> QED BY <1>3, <2>2, <2>3 DEF PublishProgress
<1>4. CASE CloseBus
  BY <1>4 DEF CloseBus
<1>5. CASE Subscribe
  BY <1>5 DEF Subscribe
<1>6. CASE View
  BY <1>6 DEF View
<1>7. CASE AcceptSocket
  BY <1>7 DEF AcceptSocket
<1>8. CASE Follows
  <2> DEFINE event == Head(channel)
  <2>1. /\ socketAt = "follow" /\ channel # <<>> /\ channel' = Tail(channel)
        /\ stored' = stored /\ pending' = pending /\ subscribed' = subscribed /\ lost' = lost
        /\ event \notin {"progress", "checkpoint"} => shown' = event
        /\ event \in {"progress", "checkpoint"} => shown' = shown
        /\ socketAt' = IF event \in TerminalStatuses THEN "gone" ELSE "follow"
    BY <1>8 DEF Follows
  <2>2. /\ channel' \in Seq(BusEvents) /\ Len(channel') = Len(channel) - 1
        /\ Queued(channel, event) /\ event \in BusEvents
        /\ \A m : Queued(channel', m) => Queued(channel, m)
        /\ \A m : Queued(channel, m) => Queued(channel', m) \/ m = event
    <3>1. event \in BusEvents
      BY <2>1
    <3> QED BY <2>1, <3>1, ReceivedChannel

  <2>3. Len(channel) \in Nat
    OBVIOUS
  <2> QED BY <2>1, <2>2, <2>3, EventSocketAssumption
<1>9. CASE BusEnds
  BY <1>9 DEF BusEnds
<1>10. CASE SocketEnds
  BY <1>10 DEF SocketEnds
<1>11. CASE Unsubscribe
  BY <1>11 DEF Unsubscribe
<1> QED BY <1>1, <1>2, <1>3, <1>4, <1>5, <1>6, <1>7, <1>8, <1>9, <1>10, <1>11 DEF NextEventSocket

\* ... what comes after running ...
LEMMA RunningStaysStep ==
    ASSUME EventSocketType, RunningStays, NextEventSocket
    PROVE  RunningStays'
<1> USE DEF EventSocketType, RunningStays
<1>0. /\ \A status : Coming(status) <=> status \in pending \/ Queued(channel, status)
      /\ \A status : Coming(status)' <=> status \in pending' \/ Queued(channel', status)
  BY DEF Coming
<1>1. ASSUME NEW status \in {"running", "abandoned", "passed"}, StoreStatus(status) PROVE RunningStays'
  BY <1>1, <1>0 DEF StoreStatus, Follow
<1>2. ASSUME NEW status \in {"running", "abandoned", "passed"}, PublishStatus(status)
      PROVE  RunningStays'
  <2>1. Publish(status)
    BY <1>2 DEF PublishStatus
  <2>2. status \in BusEvents
    BY <1>2 DEF PublishStatus, BusEvents
  <2>3. /\ channel' \in Seq(BusEvents) /\ Len(channel') <= Room
        /\ \A m : Queued(channel', m) => Queued(channel, m) \/ m = status
        /\ \A m : Queued(channel, m) => Queued(channel', m)
        /\ (subscribed /\ ~(Len(channel) >= Room)) => Queued(channel', status)
    BY <2>1, <2>2, PublishedEvents
  <2> QED BY <1>0, <1>2, <2>2, <2>3 DEF PublishStatus
<1>3. ASSUME NEW event \in {"progress", "checkpoint"}, PublishProgress(event) PROVE RunningStays'
  <2>1. Publish(event)
    BY <1>3 DEF PublishProgress
  <2>2. event \in BusEvents
    BY <1>3 DEF PublishProgress, BusEvents
  <2>3. /\ channel' \in Seq(BusEvents) /\ Len(channel') <= Room
        /\ \A m : Queued(channel', m) => Queued(channel, m) \/ m = event
        /\ \A m : Queued(channel, m) => Queued(channel', m)
        /\ (subscribed /\ ~(Len(channel) >= Room)) => Queued(channel', event)
    BY <2>1, <2>2, PublishedEvents
  <2> QED BY <1>0, <1>3, <2>2, <2>3 DEF PublishProgress
<1>4. CASE CloseBus
  BY <1>4, <1>0 DEF CloseBus
<1>5. CASE Subscribe
  BY <1>5, <1>0 DEF Subscribe
<1>6. CASE View
  BY <1>6, <1>0 DEF View
<1>7. CASE AcceptSocket
  BY <1>7, <1>0 DEF AcceptSocket
<1>8. CASE Follows
  <2> DEFINE event == Head(channel)
  <2>1. /\ socketAt = "follow" /\ channel # <<>> /\ channel' = Tail(channel)
        /\ stored' = stored /\ pending' = pending /\ subscribed' = subscribed /\ lost' = lost
        /\ event \notin {"progress", "checkpoint"} => shown' = event
        /\ event \in {"progress", "checkpoint"} => shown' = shown
        /\ socketAt' = IF event \in TerminalStatuses THEN "gone" ELSE "follow"
    BY <1>8 DEF Follows
  <2>2. /\ channel' \in Seq(BusEvents) /\ Len(channel') = Len(channel) - 1
        /\ Queued(channel, event) /\ event \in BusEvents
        /\ \A m : Queued(channel', m) => Queued(channel, m)
        /\ \A m : Queued(channel, m) => Queued(channel', m) \/ m = event
    <3>1. event \in BusEvents
      BY <2>1
    <3> QED BY <2>1, <3>1, ReceivedChannel

  <2> QED BY <1>0, <2>1, <2>2
<1>9. CASE BusEnds
  BY <1>9, <1>0 DEF BusEnds
<1>10. CASE SocketEnds
  BY <1>10, <1>0 DEF SocketEnds
<1>11. CASE Unsubscribe
  BY <1>11, <1>0 DEF Unsubscribe
<1> QED BY <1>1, <1>2, <1>3, <1>4, <1>5, <1>6, <1>7, <1>8, <1>9, <1>10, <1>11 DEF NextEventSocket

\* ... and what the browser was shown.
LEMMA CurrentStep ==
    ASSUME EventSocketType, RunningStays, Current, NextEventSocket
    PROVE  Current'
<1> USE DEF EventSocketType, Current
<1>0. /\ \A status : Coming(status) <=> status \in pending \/ Queued(channel, status)
      /\ \A status : Coming(status)' <=> status \in pending' \/ Queued(channel', status)
  BY DEF Coming
<1>1. ASSUME NEW status \in {"running", "abandoned", "passed"}, StoreStatus(status) PROVE Current'
  BY <1>1, <1>0 DEF StoreStatus, Follow
<1>2. ASSUME NEW status \in {"running", "abandoned", "passed"}, PublishStatus(status) PROVE Current'
  <2>1. Publish(status)
    BY <1>2 DEF PublishStatus
  <2>2. status \in BusEvents
    BY <1>2 DEF PublishStatus, BusEvents
  <2>3. /\ channel' \in Seq(BusEvents) /\ Len(channel') <= Room
        /\ \A m : Queued(channel', m) => Queued(channel, m) \/ m = status
        /\ \A m : Queued(channel, m) => Queued(channel', m)
        /\ (subscribed /\ ~(Len(channel) >= Room)) => Queued(channel', status)
    BY <2>1, <2>2, PublishedEvents
  <2> QED BY <1>0, <1>2, <2>2, <2>3 DEF PublishStatus
<1>3. ASSUME NEW event \in {"progress", "checkpoint"}, PublishProgress(event) PROVE Current'
  <2>1. Publish(event)
    BY <1>3 DEF PublishProgress
  <2>2. event \in BusEvents
    BY <1>3 DEF PublishProgress, BusEvents
  <2>3. /\ channel' \in Seq(BusEvents) /\ Len(channel') <= Room
        /\ \A m : Queued(channel', m) => Queued(channel, m) \/ m = event
        /\ \A m : Queued(channel, m) => Queued(channel', m)
        /\ (subscribed /\ ~(Len(channel) >= Room)) => Queued(channel', event)
    BY <2>1, <2>2, PublishedEvents
  <2> QED BY <1>0, <1>3, <2>2, <2>3 DEF PublishProgress
<1>4. CASE CloseBus
  BY <1>4, <1>0 DEF CloseBus
<1>5. CASE Subscribe
  BY <1>5, <1>0 DEF Subscribe
<1>6. CASE View
  BY <1>6, <1>0 DEF View
<1>7. CASE AcceptSocket
  BY <1>7, <1>0 DEF AcceptSocket
<1>8. CASE Follows
  <2> DEFINE event == Head(channel)
  <2>1. /\ socketAt = "follow" /\ channel # <<>> /\ channel' = Tail(channel)
        /\ stored' = stored /\ pending' = pending /\ subscribed' = subscribed /\ lost' = lost
        /\ event \notin {"progress", "checkpoint"} => shown' = event
        /\ event \in {"progress", "checkpoint"} => shown' = shown
        /\ socketAt' = IF event \in TerminalStatuses THEN "gone" ELSE "follow"
    BY <1>8 DEF Follows
  <2>2. /\ channel' \in Seq(BusEvents) /\ Len(channel') = Len(channel) - 1
        /\ Queued(channel, event) /\ event \in BusEvents
        /\ \A m : Queued(channel', m) => Queued(channel, m)
        /\ \A m : Queued(channel, m) => Queued(channel', m) \/ m = event
    <3>1. event \in BusEvents
      BY <2>1
    <3> QED BY <2>1, <3>1, ReceivedChannel

  <2>3. CASE event \in TerminalStatuses
    BY <2>1, <2>3
  <2>4. CASE event \in {"progress", "checkpoint"}
    <3>1. shown' = shown /\ event \notin TerminalStatuses /\ event # stored
      BY <2>1, <2>4 DEF TerminalStatuses
    <3> QED BY <1>0, <2>1, <2>2, <3>1
  <2>5. CASE event = "running"
    <3>1. shown' = "running" /\ "running" \notin TerminalStatuses
      BY <2>1, <2>5 DEF TerminalStatuses
    <3>2. Coming("running")
      BY <1>0, <2>2, <2>5
    <3>3. stored \in {"running", "passed"}
      BY <3>2 DEF RunningStays
    <3>4. shown = stored => stored = "running"
      BY <2>1, <3>3 DEF TerminalStatuses
    <3> QED BY <1>0, <2>1, <2>2, <2>5, <3>1, <3>3, <3>4
  <2> QED BY <2>2, <2>3, <2>4, <2>5 DEF BusEvents, TerminalStatuses
<1>9. CASE BusEnds
  BY <1>9, <1>0 DEF BusEnds
<1>10. CASE SocketEnds
  BY <1>10, <1>0 DEF SocketEnds
<1>11. CASE Unsubscribe
  BY <1>11, <1>0 DEF Unsubscribe
<1> QED BY <1>1, <1>2, <1>3, <1>4, <1>5, <1>6, <1>7, <1>8, <1>9, <1>10, <1>11 DEF NextEventSocket

\* Every step keeps the invariant, which holds before a browser comes.
LEMMA StepEventSocket == EventSocketInv /\ [NextEventSocket]_eventVars => EventSocketInv'
<1>1. ASSUME EventSocketInv, NextEventSocket PROVE EventSocketInv'
  BY <1>1, EventSocketTypeStep, RunningStaysStep, CurrentStep DEF EventSocketInv
<1>2. ASSUME EventSocketInv, UNCHANGED eventVars PROVE EventSocketInv'
  BY <1>2 DEF eventVars, EventSocketInv, EventSocketType, RunningStays, Current, Coming
<1> QED BY <1>1, <1>2

\* The attempt is being provisioned and nobody follows it.
LEMMA FirstEventSocket == InitEventSocket => EventSocketInv
<1> SUFFICES ASSUME InitEventSocket PROVE EventSocketInv
  OBVIOUS
<1>1. channel \in Seq(BusEvents) /\ Len(channel) = 0 /\ \A m : ~Queued(channel, m)
  BY EmptyChannel DEF InitEventSocket
<1>2. EventSocketType
  <2>1. Len(channel) <= Room
    BY <1>1, EventSocketAssumption
  <2>2. /\ stored \in {"provisioning", "running", "abandoned", "passed"}
        /\ pending \subseteq {"running", "abandoned", "passed"}
        /\ subscribed \in BOOLEAN /\ lost \in BOOLEAN
        /\ socketAt \in {"new", "view", "accept", "follow", "gone"}
    BY Zenon DEF InitEventSocket
  <2> QED BY <1>1, <2>1, <2>2 DEF EventSocketType
<1>3. RunningStays /\ Current
  BY <1>1 DEF InitEventSocket, RunningStays, Current, Coming
<1> QED BY <1>2, <1>3 DEF EventSocketInv

\* Whenever statuses are stored, in whichever order they are published, and wherever
\* the handler is meanwhile: a browser that was sent all there is knows the status,
\* and follows no attempt that is over (events, Bus.Subscribe, publish).
THEOREM BrowserIsCurrentHolds == EventSocketSpec => []BrowserIsCurrent
<1>1. EventSocketInv => BrowserIsCurrent
  <2> SUFFICES ASSUME EventSocketInv, socketAt = "follow", subscribed, channel = <<>>, pending = {}, ~lost
               PROVE  shown = stored /\ stored \notin TerminalStatuses
    BY DEF BrowserIsCurrent
  <2>1. \A m : ~Coming(m)
    BY EmptyChannel DEF Coming
  <2> QED BY <2>1 DEF EventSocketInv, Current
<1>2. EventSocketSpec => []EventSocketInv
  BY FirstEventSocket, StepEventSocket, PTL DEF EventSocketSpec
<1> QED BY <1>1, <1>2, PTL

-----------------------------------------------------------------------------
(* Past attempts and their recordings.                                     *)

HistorySpec == InitHistory /\ [][NextHistory]_historyVars

Sweep == [pc : {"idle", "list", "next", "files", "done", "failed"}, cutoff : SUBSET Past,
          batch : SUBSET Past, full : BOOLEAN, at : Past \cup {NoCast}]

HistoryType ==
    /\ rows \in [Past -> {"running", "ended", "gone"}]
    /\ recordings \subseteq Casts
    /\ tape \in [Casts -> [of : Past, pc : {"new", "create", "insert", "open", "closed"}]]
    /\ sweeper \in [Sweepers -> Sweep]
    /\ replay \in [pc : {"idle", "open", "served", "missing"}, cast : Casts \cup {NoCast}]

\* The file of a recording is there from before its row is made until after the row
\* of its attempt is gone.
OnDisk(c) == tape[c].of \in files \/ rows[tape[c].of] = "gone"

Recorded ==
    /\ \A c \in recordings : tape[c].of \in files /\ rows[tape[c].of] # "gone"
    /\ \A c \in Casts : tape[c].pc = "insert" => OnDisk(c)
    /\ replay.pc = "open" => replay.cast \in Casts /\ OnDisk(replay.cast)
    /\ replay.pc = "missing" => replay.cast \in Casts /\ rows[tape[replay.cast].of] = "gone"

\* A remover takes the files of an attempt whose row is gone, and one whose last
\* batch was not full has in it all that is left of what its cutoff covers.
Swept ==
    \A s \in Sweepers :
        /\ sweeper[s].pc = "files" => sweeper[s].at \in Past /\ rows[sweeper[s].at] = "gone"
        /\ (sweeper[s].pc \in {"next", "files"} /\ ~sweeper[s].full) =>
              \A a \in sweeper[s].cutoff : rows[a] = "gone" \/ a \in sweeper[s].batch
        /\ sweeper[s].pc = "done" => \A a \in sweeper[s].cutoff : rows[a] = "gone"

HistoryInv == HistoryType /\ Recorded /\ Swept

\* Every step keeps the types ...
LEMMA HistoryTypeStep ==
    ASSUME HistoryType, NextHistory
    PROVE  HistoryType'
<1> USE DEF HistoryType
<1>1. ASSUME NEW a \in Past, Ends(a) PROVE HistoryType'
  BY <1>1 DEF Ends
<1>2. ASSUME NEW a \in Past, DeleteAttempt(a) PROVE HistoryType'
  BY <1>2 DEF DeleteAttempt, Idle, Sweepers, Sweep
<1>3. ASSUME NEW c \in Casts, Tape(c) PROVE HistoryType'
  BY <1>3 DEF Tape, TapeGoes
<1>4. ASSUME NEW c \in Casts, CreateFile(c) PROVE HistoryType'
  BY <1>4 DEF CreateFile, TapeGoes
<1>5. ASSUME NEW c \in Casts, CreateRecording(c) PROVE HistoryType'
  BY <1>5 DEF CreateRecording, TapeGoes
<1>6. ASSUME NEW c \in Casts, TapeEnds(c) PROVE HistoryType'
  BY <1>6 DEF TapeEnds, TapeGoes
<1>7. ASSUME NEW c \in Casts, ListRecordings(c) PROVE HistoryType'
  BY <1>7 DEF ListRecordings, Sweep
<1>8. ASSUME NEW s \in Pruners, NEW old \in SUBSET Past, StartPrune(s, old) PROVE HistoryType'
  BY <1>8 DEF StartPrune, Idle, Sweepers, Sweep
<1>9. ASSUME NEW s \in Sweepers, ListBatch(s) PROVE HistoryType'
  <2>1. PICK batch \in SUBSET Past :
            sweeper' = [sweeper EXCEPT ![s].pc = "next", ![s].batch = batch,
                                       ![s].full = Cardinality(batch) = PruneBatch]
    BY <1>9 DEF ListBatch, Sweep
  <2>2. (Cardinality(batch) = PruneBatch) \in BOOLEAN
    OBVIOUS
  <2>5. sweeper[s] \in Sweep
    OBVIOUS
  <2>6. [sweeper[s] EXCEPT !.pc = "next", !.batch = batch, !.full = Cardinality(batch) = PruneBatch] \in Sweep
    BY <2>2, <2>5 DEF Sweep
  <2>7. sweeper' = [sweeper EXCEPT ![s] = [sweeper[s] EXCEPT !.pc = "next", !.batch = batch, !.full = Cardinality(batch) = PruneBatch]]
    BY <2>1
  <2>8. UNCHANGED <<rows, recordings, tape, replay>>
    BY <1>9 DEF ListBatch
  <2> QED BY <2>6, <2>7, <2>8
<1>10. ASSUME NEW s \in Sweepers, RemoveFiles(s) PROVE HistoryType'
  BY <1>10 DEF RemoveFiles, Sweep
<1>11. ASSUME NEW s \in Sweepers, BatchEnds(s) PROVE HistoryType'
  <2>5. sweeper[s] \in Sweep
    OBVIOUS
  <2>6. [sweeper[s] EXCEPT !.pc = IF sweeper[s].full THEN "list" ELSE "done"] \in Sweep
    BY <2>5 DEF Sweep
  <2>7. sweeper' = [sweeper EXCEPT ![s] = [sweeper[s] EXCEPT !.pc = IF sweeper[s].full THEN "list" ELSE "done"]]
    BY <1>11 DEF BatchEnds
  <2>8. UNCHANGED <<rows, recordings, tape, replay>>
    BY <1>11 DEF BatchEnds
  <2> QED BY <2>6, <2>7, <2>8
<1>12. ASSUME NEW s \in Sweepers, SweepFails(s) PROVE HistoryType'
  BY <1>12 DEF SweepFails, Sweep
<1>13. ASSUME NEW s \in Sweepers, NEW a \in Past, DeleteRow(s, a) PROVE HistoryType'
  <2>5. sweeper[s] \in Sweep
    OBVIOUS
  <2>6. [sweeper[s] EXCEPT !.batch = sweeper[s].batch \ {a}, !.at = a,
                            !.pc = IF rows[a] = "gone" THEN "next" ELSE "files"] \in Sweep
    BY <2>5 DEF Sweep
  <2>7. sweeper' = [sweeper EXCEPT ![s] = [sweeper[s] EXCEPT !.batch = sweeper[s].batch \ {a}, !.at = a,
                            !.pc = IF rows[a] = "gone" THEN "next" ELSE "files"]]
    BY <1>13 DEF DeleteRow
  <2>8. /\ rows' = [rows EXCEPT ![a] = "gone"]
        /\ recordings' = {c \in recordings : tape[c].of # a}
        /\ UNCHANGED <<tape, replay>>
    BY <1>13 DEF DeleteRow
  <2> QED BY <2>6, <2>7, <2>8
<1>14. CASE OpenCast
  BY <1>14 DEF OpenCast
<1> QED BY <1>1, <1>2, <1>3, <1>4, <1>5, <1>6, <1>7, <1>8, <1>9, <1>10, <1>11, <1>12, <1>13, <1>14
        DEF NextHistory

\* ... the files of recordings ...
LEMMA RecordedStep ==
    ASSUME HistoryType, Recorded, Swept, NextHistory
    PROVE  Recorded'
<1> USE DEF HistoryType, Sweep, Recorded, OnDisk
<1>1. ASSUME NEW a \in Past, Ends(a) PROVE Recorded'
  BY <1>1 DEF Ends
<1>2. ASSUME NEW a \in Past, DeleteAttempt(a) PROVE Recorded'
  BY <1>2 DEF DeleteAttempt, Idle, Sweepers
<1>3. ASSUME NEW c \in Casts, Tape(c) PROVE Recorded'
  BY <1>3 DEF Tape, TapeGoes
<1>4. ASSUME NEW c \in Casts, CreateFile(c) PROVE Recorded'
  BY <1>4 DEF CreateFile, TapeGoes
<1>5. ASSUME NEW c \in Casts, CreateRecording(c) PROVE Recorded'
  BY <1>5 DEF CreateRecording, TapeGoes
<1>6. ASSUME NEW c \in Casts, TapeEnds(c) PROVE Recorded'
  BY <1>6 DEF TapeEnds, TapeGoes
<1>7. ASSUME NEW c \in Casts, ListRecordings(c) PROVE Recorded'
  BY <1>7 DEF ListRecordings
<1>8. ASSUME NEW s \in Pruners, NEW old \in SUBSET Past, StartPrune(s, old) PROVE Recorded'
  BY <1>8 DEF StartPrune, Idle, Sweepers
<1>9. ASSUME NEW s \in Sweepers, ListBatch(s) PROVE Recorded'
  BY <1>9 DEF ListBatch
<1>10. ASSUME NEW s \in Sweepers, RemoveFiles(s) PROVE Recorded'
  BY <1>10 DEF RemoveFiles, Swept
<1>11. ASSUME NEW s \in Sweepers, BatchEnds(s) PROVE Recorded'
  BY <1>11 DEF BatchEnds
<1>12. ASSUME NEW s \in Sweepers, SweepFails(s) PROVE Recorded'
  BY <1>12 DEF SweepFails
<1>13. ASSUME NEW s \in Sweepers, NEW a \in Past, DeleteRow(s, a) PROVE Recorded'
  BY <1>13 DEF DeleteRow
<1>14. CASE OpenCast
  BY <1>14 DEF OpenCast
<1> QED BY <1>1, <1>2, <1>3, <1>4, <1>5, <1>6, <1>7, <1>8, <1>9, <1>10, <1>11, <1>12, <1>13, <1>14
        DEF NextHistory

\* ... and what is left to remove.
LEMMA SweptStep ==
    ASSUME HistoryType, Swept, NextHistory
    PROVE  Swept'
<1> USE DEF HistoryType, Sweep, Swept
<1>1. ASSUME NEW a \in Past, Ends(a) PROVE Swept'
  BY <1>1 DEF Ends
<1>2. ASSUME NEW a \in Past, DeleteAttempt(a) PROVE Swept'
  BY <1>2 DEF DeleteAttempt, Idle, Sweepers
<1>3. ASSUME NEW c \in Casts, Tape(c) PROVE Swept'
  BY <1>3 DEF Tape, TapeGoes
<1>4. ASSUME NEW c \in Casts, CreateFile(c) PROVE Swept'
  BY <1>4 DEF CreateFile, TapeGoes
<1>5. ASSUME NEW c \in Casts, CreateRecording(c) PROVE Swept'
  BY <1>5 DEF CreateRecording, TapeGoes
<1>6. ASSUME NEW c \in Casts, TapeEnds(c) PROVE Swept'
  BY <1>6 DEF TapeEnds, TapeGoes
<1>7. ASSUME NEW c \in Casts, ListRecordings(c) PROVE Swept'
  BY <1>7 DEF ListRecordings
<1>8. ASSUME NEW s \in Pruners, NEW old \in SUBSET Past, StartPrune(s, old) PROVE Swept'
  BY <1>8 DEF StartPrune, Idle, Sweepers
<1>9. ASSUME NEW s \in Sweepers, ListBatch(s) PROVE Swept'
  BY <1>9 DEF ListBatch
<1>10. ASSUME NEW s \in Sweepers, RemoveFiles(s) PROVE Swept'
  BY <1>10 DEF RemoveFiles
<1>11. ASSUME NEW s \in Sweepers, BatchEnds(s) PROVE Swept'
  BY <1>11 DEF BatchEnds
<1>12. ASSUME NEW s \in Sweepers, SweepFails(s) PROVE Swept'
  BY <1>12 DEF SweepFails
<1>13. ASSUME NEW s \in Sweepers, NEW a \in Past, DeleteRow(s, a) PROVE Swept'
  BY <1>13 DEF DeleteRow
<1>14. CASE OpenCast
  BY <1>14 DEF OpenCast
<1> QED BY <1>1, <1>2, <1>3, <1>4, <1>5, <1>6, <1>7, <1>8, <1>9, <1>10, <1>11, <1>12, <1>13, <1>14
        DEF NextHistory

\* Every step keeps the invariant, which holds before there is a recording.
LEMMA StepHistory == HistoryInv /\ [NextHistory]_historyVars => HistoryInv'
<1>1. ASSUME HistoryInv, NextHistory PROVE HistoryInv'
  BY <1>1, HistoryTypeStep, RecordedStep, SweptStep DEF HistoryInv
<1>2. ASSUME HistoryInv, UNCHANGED historyVars PROVE HistoryInv'
  BY <1>2 DEF historyVars, HistoryInv, HistoryType, Recorded, Swept, OnDisk
<1> QED BY <1>1, <1>2

\* The attempts run, and nothing was recorded or removed.
LEMMA FirstHistory == InitHistory => HistoryInv
<1> SUFFICES ASSUME InitHistory PROVE HistoryInv
  OBVIOUS
<1>1. HistoryType
  BY DEF InitHistory, HistoryType, Sweep
<1>2. Recorded /\ Swept
  BY DEF InitHistory, Recorded, Swept, OnDisk
<1> QED BY <1>1, <1>2 DEF HistoryInv

\* However removals, failures and terminals meet, with any number of each: a
\* recording that is listed is on disk, a replay finds no file only of an attempt that
\* was removed meanwhile, and a Prune without an error left nothing it was to remove
\* (remove, Prune, OpenRecording, attemptCast).
THEOREM HistoryIsWholeHolds == HistorySpec => []HistoryIsWhole
<1>1. HistoryInv => HistoryIsWhole
  BY DEF HistoryInv, Recorded, Swept, HistoryIsWhole, Sweepers
<1>2. HistorySpec => []HistoryInv
  BY FirstHistory, StepHistory, PTL DEF HistorySpec
<1> QED BY <1>1, <1>2, PTL

-----------------------------------------------------------------------------
(* The container provider.                                                 *)

DockerSpec == InitDocker /\ [][NextDocker]_dockerVars

DaemonType ==
    /\ container \in [Nodes -> {"none", "created", "running", "dying"}]
    /\ network \subseteq Networks
    /\ endpoints \in [Networks -> SUBSET Nodes]

ProvisionType ==
    /\ provision \in [pc : {"call", "stage", "ready", "cleanup", "failed"}, made : SUBSET Plan,
                      stage : 1..Len(Stages), busy : SUBSET Nodes, failed : SUBSET Nodes]
    /\ ready \in [Nodes -> SUBSET ToSet(Stages)]

Remover == [pc : {"idle", "containers", "wait", "list", "networks", "done"},
            todo : SUBSET (Nodes \cup Networks), removing : SUBSET Nodes, tries : Int,
            failed : BOOLEAN, alone : BOOLEAN]

RemoverType == remover \in [AllRemovers -> Remover]

\* A remover that is alone, and that met no error, has on its list all that is there,
\* and no container once it is through with them.
Removed ==
    \A r \in AllRemovers :
        remover[r].alone =>
            /\ provision.pc \notin {"call", "stage"}
            /\ ~remover[r].failed =>
                  /\ Removing(r, "containers") =>
                        \A n \in Nodes : Exists(n) => n \in remover[r].todo
                  /\ remover[r].pc \in {"wait", "list", "networks", "done"} =>
                        \A n \in Nodes : ~Exists(n)
                  /\ Removing(r, "networks") => network \subseteq remover[r].todo
                  /\ Removing(r, "done") => network = {}

\* What a call has done, while nobody undoes it.
InPlace(c) ==
    LET call == CallAt(c) IN
    /\ call.does = "network" => call.net \in network
    /\ call.does = "start" => container[call.node] = "running" /\ call.node \in endpoints[Mgmt]
    /\ call.does = "connect" => Exists(call.node) /\ call.node \in endpoints[call.net]

Quiet == \A r \in AllRemovers : Removing(r, "idle")

Made == Quiet => \A c \in provision.made : InPlace(c)

\* The stages a node went through, unless one of the nodes failed: those before the
\* stage that runs, and that one if it is not busy with it.
Staged ==
    /\ provision.pc = "call" => provision.stage = 1
    /\ provision.pc \in {"stage", "ready"} => provision.made = Plan
    /\ (provision.pc = "stage" /\ provision.failed = {}) =>
          \A n \in Nodes :
             /\ \A i \in 1..Len(Stages) : i < provision.stage => Stages[i] \in ready[n]
             /\ n \notin provision.busy => Stages[provision.stage] \in ready[n]
    /\ provision.pc = "ready" => \A n \in Nodes : \A i \in 1..Len(Stages) : Stages[i] \in ready[n]

DockerInv == DaemonType /\ ProvisionType /\ RemoverType /\ Removed /\ Made /\ Staged

\* A call is about a network of the sandbox and one of its nodes.
LEMMA CallTypes ==
    ASSUME NEW c \in Plan
    PROVE  /\ CallAt(c).net \in Networks
           /\ CallAt(c).does \in {"network", "create", "start", "connect"}
           /\ CallAt(c).does # "network" => CallAt(c).node \in Nodes
           /\ CallAt(c).does \in {"create", "start"} => CallAt(c).net = Mgmt
<1> USE DEF Call, Networks, Nodes, ToSet
<1>1. CASE c \in CreateNetworks
  <2>1. CallAt(c) = Call("network", Mgmt, IF c.at = 0 THEN Mgmt ELSE LinkOrder[c.at])
    BY <1>1 DEF CallAt, CreateNetworks
  <2> QED BY <1>1, <2>1 DEF CreateNetworks
<1>2. CASE c \in CreateContainers
  <2>1. CallAt(c) = Call(IF c.of = 1 THEN "create" ELSE "start", NodeOrder[c.at], Mgmt)
    BY <1>2 DEF CallAt, CreateContainers
  <2> QED BY <1>2, <2>1 DEF CreateContainers
<1>3. CASE c \in ConnectLinks
  <2>1. CallAt(c) = Call("connect", NodeOrder[c.of], LinkOrder[c.at])
    BY <1>3 DEF CallAt, ConnectLinks
  <2> QED BY <1>3, <2>1 DEF ConnectLinks
<1> QED BY <1>1, <1>2, <1>3 DEF Plan

\* There are two stages at least.
LEMMA StagesShape ==
    /\ Stages \in Seq({"systemd", "bootstrap", "k3s", "setup"})
    /\ Len(Stages) \in Nat \ {0} /\ DOMAIN Stages = 1..Len(Stages)
    /\ ToSet(Stages) = {Stages[i] : i \in 1..Len(Stages)}
<1> DEFINE T == {"systemd", "bootstrap", "k3s", "setup"}
           a == <<"systemd", "bootstrap">>
           b == IF K3s = "none" THEN <<>> ELSE <<"k3s">>
           d == IF HasSetup THEN <<"setup">> ELSE <<>>
<1>1. Stages = a \o b \o d
  BY DEF Stages
<1>2. a \in Seq(T) /\ Len(a) = 2 /\ b \in Seq(T) /\ d \in Seq(T)
  <2>1. <<"k3s">> \in Seq(T) /\ <<"setup">> \in Seq(T)
    OBVIOUS
  <2>2. <<>> \in Seq(T)
    BY EmptyChannel
  <2>3. a \in Seq(T) /\ Len(a) = 2
    OBVIOUS
  <2>4. b \in Seq(T) /\ d \in Seq(T)
    BY <2>1, <2>2
  <2> QED BY <2>3, <2>4
<1> HIDE DEF T, a, b, d
<1>3. a \o b \in Seq(T) /\ Len(a \o b) = Len(a) + Len(b)
  BY <1>2, ConcatProperties
<1>4. (a \o b) \o d \in Seq(T) /\ Len((a \o b) \o d) = Len(a \o b) + Len(d)
  BY <1>2, <1>3, ConcatProperties
<1>5. Stages \in Seq(T) /\ Len(Stages) = 2 + Len(b) + Len(d) /\ Len(b) \in Nat /\ Len(d) \in Nat
  BY <1>1, <1>2, <1>3, <1>4
<1>6. Len(Stages) \in Nat \ {0} /\ DOMAIN Stages = 1..Len(Stages)
  BY <1>5
<1> QED BY <1>5, <1>6 DEF ToSet, T

\* What the daemon does keeps its types, ...
LEMMA EffectTypes ==
    ASSUME DaemonType, NEW c \in Plan, Effect(CallAt(c))
    PROVE  DaemonType'
<1> DEFINE call == CallAt(c)
<1>1. /\ call.net \in Networks
      /\ call.does \in {"network", "create", "start", "connect"}
      /\ call.does # "network" => call.node \in Nodes
  BY CallTypes
<1>2. /\ network' = IF call.does = "network" THEN network \cup {call.net} ELSE network
      /\ container' = CASE call.does = "create" -> [container EXCEPT ![call.node] = "created"]
                        [] call.does = "start" -> [container EXCEPT ![call.node] = "running"]
                        [] OTHER -> container
      /\ endpoints' = IF call.does \in {"start", "connect"}
                      THEN [endpoints EXCEPT ![call.net] = @ \cup {call.node}]
                      ELSE endpoints
  BY DEF Effect
<1> HIDE DEF call
<1>3. (network \subseteq Networks)'
  BY <1>1, <1>2 DEF DaemonType
<1>4. (container \in [Nodes -> {"none", "created", "running", "dying"}])'
  BY <1>1, <1>2 DEF DaemonType
<1>5. (endpoints \in [Networks -> SUBSET Nodes])'
  BY <1>1, <1>2 DEF DaemonType
<1> QED BY <1>3, <1>4, <1>5 DEF DaemonType

\* ... takes nothing away that another call has made, and does what is asked.
LEMMA EffectKeeps ==
    ASSUME DaemonType, NEW c \in Plan, Possible(CallAt(c)), Effect(CallAt(c)),
           NEW d \in Plan, InPlace(d)
    PROVE  InPlace(d)'
<1> DEFINE call == CallAt(c)
           other == CallAt(d)
<1>1. /\ call.net \in Networks
      /\ call.does \in {"network", "create", "start", "connect"}
      /\ call.does # "network" => call.node \in Nodes
  BY CallTypes
<1>2. /\ other.net \in Networks
      /\ other.does # "network" => other.node \in Nodes
  BY CallTypes
<1>3. CallAt(d)' = CallAt(d)
  BY DEF CallAt, Call
<1>4. /\ network' = IF call.does = "network" THEN network \cup {call.net} ELSE network
      /\ container' = CASE call.does = "create" -> [container EXCEPT ![call.node] = "created"]
                        [] call.does = "start" -> [container EXCEPT ![call.node] = "running"]
                        [] OTHER -> container
      /\ endpoints' = IF call.does \in {"start", "connect"}
                      THEN [endpoints EXCEPT ![call.net] = @ \cup {call.node}]
                      ELSE endpoints
  BY DEF Effect
<1>5. /\ call.does = "create" => container[call.node] = "none"
      /\ call.does = "start" => container[call.node] = "created"
  BY <1>1 DEF Possible
<1>6. Mgmt \in Networks
  BY DEF Networks
<1>7. /\ other.does = "network" => other.net \in network
      /\ other.does = "start" => container[other.node] = "running" /\ other.node \in endpoints[Mgmt]
      /\ other.does = "connect" => Exists(other.node) /\ other.node \in endpoints[other.net]
  BY DEF InPlace
<1> HIDE DEF call, other
<1> USE DEF DaemonType
<1>8. other.does = "network" => other.net \in network'
  BY <1>4, <1>7
<1>9. other.does = "start" => container'[other.node] = "running"
  BY <1>1, <1>2, <1>4, <1>5, <1>7
<1>10. other.does = "connect" => container'[other.node] \in {"created", "running"}
  BY <1>1, <1>2, <1>4, <1>5, <1>7 DEF Exists
<1>11. \A net \in Networks : endpoints[net] \subseteq endpoints'[net]
  BY <1>1, <1>4
<1> QED BY <1>2, <1>3, <1>6, <1>7, <1>8, <1>9, <1>10, <1>11 DEF InPlace, Exists, other

\* What a call that is possible asks for is there after it.
LEMMA EffectDoes ==
    ASSUME DaemonType, NEW c \in Plan, Possible(CallAt(c)), Effect(CallAt(c))
    PROVE  InPlace(c)'
<1> DEFINE call == CallAt(c)
<1>1. /\ call.net \in Networks
      /\ call.does \in {"network", "create", "start", "connect"}
      /\ call.does # "network" => call.node \in Nodes
      /\ call.does \in {"create", "start"} => call.net = Mgmt
  BY CallTypes
<1>2. CallAt(c)' = CallAt(c)
  BY DEF CallAt, Call
<1>3. /\ network' = IF call.does = "network" THEN network \cup {call.net} ELSE network
      /\ container' = CASE call.does = "create" -> [container EXCEPT ![call.node] = "created"]
                        [] call.does = "start" -> [container EXCEPT ![call.node] = "running"]
                        [] OTHER -> container
      /\ endpoints' = IF call.does \in {"start", "connect"}
                      THEN [endpoints EXCEPT ![call.net] = @ \cup {call.node}]
                      ELSE endpoints
  BY DEF Effect
<1>4. call.does = "connect" => Exists(call.node)
  BY <1>1 DEF Possible
<1> HIDE DEF call
<1> USE DEF DaemonType
<1>5. call.does = "network" => call.net \in network'
  BY <1>3
<1>6. call.does = "start" => container'[call.node] = "running" /\ call.node \in endpoints'[Mgmt]
  BY <1>1, <1>3
<1>7. call.does = "connect" =>
          container'[call.node] \in {"created", "running"} /\ call.node \in endpoints'[call.net]
  BY <1>1, <1>3, <1>4 DEF Exists
<1> QED BY <1>2, <1>5, <1>6, <1>7 DEF InPlace, Exists, call

\* Every step keeps the types of the daemon, ...
LEMMA DaemonTypeStep ==
    ASSUME DaemonType, NextDocker
    PROVE  DaemonType'
<1> USE DEF DaemonType
<1>1. CASE ProvisionCall
  BY <1>1, EffectTypes DEF ProvisionCall
<1>2. CASE K3sReady
  BY <1>2 DEF K3sReady
<1>3. CASE StageEnds
  BY <1>3 DEF StageEnds
<1>4. CASE ProvisionFails
  BY <1>4 DEF ProvisionFails
<1>5. ASSUME NEW done \in BOOLEAN, ProvisionCallFails(done) PROVE DaemonType'
  <2>1. CASE done
    BY <1>5, <2>1, EffectTypes DEF ProvisionCallFails
  <2>2. CASE ~done
    BY <1>5, <2>2 DEF ProvisionCallFails
  <2> QED BY <2>1, <2>2
<1>6. ASSUME NEW n \in Nodes, NodePasses(n) PROVE DaemonType'
  BY <1>6 DEF NodePasses
<1>7. ASSUME NEW n \in Nodes, NodeFails(n) PROVE DaemonType'
  BY <1>7 DEF NodeFails
<1>8. ASSUME NEW n \in Nodes, ContainerGone(n) PROVE DaemonType'
  BY <1>8 DEF ContainerGone
<1>9. ASSUME NEW net \in Networks, NEW n \in Nodes, EndpointGone(net, n) PROVE DaemonType'
  BY <1>9 DEF EndpointGone
<1>10. ASSUME NEW r \in AllRemovers, ListContainers(r) PROVE DaemonType'
  BY <1>10 DEF ListContainers
<1>11. ASSUME NEW r \in AllRemovers, RemoverFails(r) PROVE DaemonType'
  BY <1>11 DEF RemoverFails
<1>12. ASSUME NEW r \in AllRemovers, WaitGone(r) PROVE DaemonType'
  BY <1>12 DEF WaitGone
<1>13. ASSUME NEW r \in AllRemovers, ListNetworks(r) PROVE DaemonType'
  BY <1>13 DEF ListNetworks
<1>14. ASSUME NEW r \in AllRemovers, RemoverReturns(r) PROVE DaemonType'
  BY <1>14 DEF RemoverReturns
<1>15. ASSUME NEW r \in AllRemovers, NEW n \in Nodes, RemoveContainer(r, n) PROVE DaemonType'
  BY <1>15 DEF RemoveContainer
<1>16. ASSUME NEW r \in AllRemovers, NEW n \in Nodes, RemoveContainerFails(r, n) PROVE DaemonType'
  BY <1>16 DEF RemoveContainerFails
<1>17. ASSUME NEW r \in AllRemovers, NEW net \in Networks, RemoveNetwork(r, net) PROVE DaemonType'
  BY <1>17 DEF RemoveNetwork
<1>18. ASSUME NEW r \in AllRemovers, NEW net \in Networks, RemoveNetworkAgain(r, net) PROVE DaemonType'
  BY <1>18 DEF RemoveNetworkAgain
<1>19. ASSUME NEW r \in AllRemovers, NEW net \in Networks, RemoveNetworkFails(r, net) PROVE DaemonType'
  BY <1>19 DEF RemoveNetworkFails
<1> QED BY <1>1, <1>2, <1>3, <1>4, <1>5, <1>6, <1>7, <1>8, <1>9, <1>10, <1>11, <1>12, <1>13, <1>14,
        <1>15, <1>16, <1>17, <1>18, <1>19 DEF NextDocker

\* ... which keeps those of Provision ...
LEMMA ProvisionTypeStep ==
    ASSUME ProvisionType, NextDocker
    PROVE  ProvisionType'
<1> USE StagesShape DEF ProvisionType
<1>1. CASE ProvisionCall
  <2>1. PICK c \in Plan :
            provision' = IF Plan \subseteq provision.made \cup {c}
                         THEN [provision EXCEPT !.made = Plan, !.pc = "stage", !.busy = Nodes]
                         ELSE [provision EXCEPT !.made = provision.made \cup {c}]
    BY <1>1 DEF ProvisionCall
  <2>2. ready' = ready
    BY <1>1 DEF ProvisionCall
  <2>3. CASE Plan \subseteq provision.made \cup {c}
    <3>1. provision' = [provision EXCEPT !.made = Plan, !.pc = "stage", !.busy = Nodes]
      BY <2>1, <2>3
    <3> QED BY <2>2, <3>1
  <2>4. CASE ~(Plan \subseteq provision.made \cup {c})
    <3>1. provision' = [provision EXCEPT !.made = provision.made \cup {c}]
      BY <2>1, <2>4
    <3> QED BY <2>2, <3>1
  <2> QED BY <2>3, <2>4
<1>2. CASE K3sReady
  <2>1. Stage \in ToSet(Stages)
    BY DEF Stage
  <2>2. /\ provision' = [provision EXCEPT !.busy = {}]
        /\ ready' = [n \in Nodes |-> ready[n] \cup {Stage}]
    BY <1>2 DEF K3sReady
  <2> HIDE DEF Stage
  <2> QED BY <2>1, <2>2
<1>3. CASE StageEnds
  <2>1. CASE provision.failed # {}
    BY <1>3, <2>1 DEF StageEnds
  <2>2. CASE provision.failed = {} /\ provision.stage < Len(Stages)
    <3>1. provision' = [provision EXCEPT !.stage = provision.stage + 1, !.busy = Nodes]
      BY <1>3, <2>2 DEF StageEnds
    <3>2. provision.stage + 1 \in 1..Len(Stages)
      BY <2>2
    <3>3. ready' = ready
      BY <1>3 DEF StageEnds
    <3> QED BY <3>1, <3>2, <3>3
  <2>3. CASE provision.failed = {} /\ ~(provision.stage < Len(Stages))
    BY <1>3, <2>3 DEF StageEnds
  <2> QED BY <2>1, <2>2, <2>3
<1>4. CASE ProvisionFails
  BY <1>4 DEF ProvisionFails
<1>5. ASSUME NEW done \in BOOLEAN, ProvisionCallFails(done) PROVE ProvisionType'
  BY <1>5 DEF ProvisionCallFails, IsNext
<1>6. ASSUME NEW n \in Nodes, NodePasses(n) PROVE ProvisionType'
  <2>1. Stage \in ToSet(Stages)
    BY DEF Stage
  <2>2. /\ provision' = [provision EXCEPT !.busy = provision.busy \ {n}]
        /\ ready' = [ready EXCEPT ![n] = ready[n] \cup {Stage}]
    BY <1>6 DEF NodePasses
  <2> HIDE DEF Stage
  <2> QED BY <2>1, <2>2
<1>7. ASSUME NEW n \in Nodes, NodeFails(n) PROVE ProvisionType'
  BY <1>7 DEF NodeFails
<1>8. ASSUME NEW n \in Nodes, ContainerGone(n) PROVE ProvisionType'
  BY <1>8 DEF ContainerGone
<1>9. ASSUME NEW net \in Networks, NEW n \in Nodes, EndpointGone(net, n) PROVE ProvisionType'
  BY <1>9 DEF EndpointGone
<1>10. ASSUME NEW r \in AllRemovers, ListContainers(r) PROVE ProvisionType'
  BY <1>10 DEF ListContainers
<1>11. ASSUME NEW r \in AllRemovers, RemoverFails(r) PROVE ProvisionType'
  BY <1>11 DEF RemoverFails
<1>12. ASSUME NEW r \in AllRemovers, WaitGone(r) PROVE ProvisionType'
  BY <1>12 DEF WaitGone
<1>13. ASSUME NEW r \in AllRemovers, ListNetworks(r) PROVE ProvisionType'
  BY <1>13 DEF ListNetworks
<1>14. ASSUME NEW r \in AllRemovers, RemoverReturns(r) PROVE ProvisionType'
  BY <1>14 DEF RemoverReturns
<1>15. ASSUME NEW r \in AllRemovers, NEW n \in Nodes, RemoveContainer(r, n) PROVE ProvisionType'
  BY <1>15 DEF RemoveContainer
<1>16. ASSUME NEW r \in AllRemovers, NEW n \in Nodes, RemoveContainerFails(r, n) PROVE ProvisionType'
  BY <1>16 DEF RemoveContainerFails
<1>17. ASSUME NEW r \in AllRemovers, NEW net \in Networks, RemoveNetwork(r, net) PROVE ProvisionType'
  BY <1>17 DEF RemoveNetwork
<1>18. ASSUME NEW r \in AllRemovers, NEW net \in Networks, RemoveNetworkAgain(r, net)
       PROVE  ProvisionType'
  BY <1>18 DEF RemoveNetworkAgain
<1>19. ASSUME NEW r \in AllRemovers, NEW net \in Networks, RemoveNetworkFails(r, net)
       PROVE  ProvisionType'
  BY <1>19 DEF RemoveNetworkFails
<1> QED BY <1>1, <1>2, <1>3, <1>4, <1>5, <1>6, <1>7, <1>8, <1>9, <1>10, <1>11, <1>12, <1>13, <1>14,
        <1>15, <1>16, <1>17, <1>18, <1>19 DEF NextDocker

\* ... and of the removers, ...
LEMMA RemoverTypeStep ==
    ASSUME DaemonType, RemoverType, NextDocker
    PROVE  RemoverType'
<1> USE DEF RemoverType
<1>1. CASE ProvisionCall
  BY <1>1 DEF ProvisionCall, IsNext, Remover
<1>2. CASE K3sReady
  BY <1>2 DEF K3sReady, Remover
<1>3. CASE StageEnds
  BY <1>3 DEF StageEnds, Remover
<1>4. CASE ProvisionFails
  BY <1>4 DEF ProvisionFails, Remover
<1>5. ASSUME NEW done \in BOOLEAN, ProvisionCallFails(done) PROVE RemoverType'
  BY <1>5 DEF ProvisionCallFails, IsNext, Remover
<1>6. ASSUME NEW n \in Nodes, NodePasses(n) PROVE RemoverType'
  BY <1>6 DEF NodePasses, Remover
<1>7. ASSUME NEW n \in Nodes, NodeFails(n) PROVE RemoverType'
  BY <1>7 DEF NodeFails, Remover
<1>8. ASSUME NEW n \in Nodes, ContainerGone(n) PROVE RemoverType'
  BY <1>8 DEF ContainerGone, Remover
<1>9. ASSUME NEW net \in Networks, NEW n \in Nodes, EndpointGone(net, n) PROVE RemoverType'
  BY <1>9 DEF EndpointGone, Remover
<1>10. ASSUME NEW r \in AllRemovers, ListContainers(r) PROVE RemoverType'
  <2>1. remover[r] \in Remover
    OBVIOUS
  <2>2. [remover[r] EXCEPT !.pc = "containers", !.todo = {n \in Nodes : container[n] # "none"},
                           !.alone = provision.pc \notin {"call", "stage"}] \in Remover
    BY <1>10, <2>1 DEF Remover, DaemonType, ListContainers
  <2>3. remover' = [remover EXCEPT ![r] = [remover[r] EXCEPT !.pc = "containers", !.todo = {n \in Nodes : container[n] # "none"},
                           !.alone = provision.pc \notin {"call", "stage"}]]
    BY <1>10 DEF ListContainers
  <2> QED BY <2>2, <2>3
<1>11. ASSUME NEW r \in AllRemovers, RemoverFails(r) PROVE RemoverType'
  <2>1. remover[r] \in Remover
    OBVIOUS
  <2>2. [remover[r] EXCEPT !.pc = "done", !.failed = TRUE] \in Remover
    BY <1>11, <2>1 DEF Remover, DaemonType, RemoverFails
  <2>3. remover' = [remover EXCEPT ![r] = [remover[r] EXCEPT !.pc = "done", !.failed = TRUE]]
    BY <1>11 DEF RemoverFails
  <2> QED BY <2>2, <2>3
<1>12. ASSUME NEW r \in AllRemovers, WaitGone(r) PROVE RemoverType'
  <2>0. CASE Removing(r, "containers")
    BY <1>12, <2>0 DEF WaitGone, Removing, Remover
  <2>4. CASE ~Removing(r, "containers")
    BY <1>12, <2>4 DEF WaitGone, Removing, Remover
  <2> QED BY <2>0, <2>4
<1>13. ASSUME NEW r \in AllRemovers, ListNetworks(r) PROVE RemoverType'
  <2>1. remover[r] \in Remover
    OBVIOUS
  <2>2. [remover[r] EXCEPT !.pc = "networks", !.todo = network] \in Remover
    BY <1>13, <2>1 DEF Remover, DaemonType, ListNetworks
  <2>3. remover' = [remover EXCEPT ![r] = [remover[r] EXCEPT !.pc = "networks", !.todo = network]]
    BY <1>13 DEF ListNetworks
  <2> QED BY <2>2, <2>3
<1>14. ASSUME NEW r \in AllRemovers, RemoverReturns(r) PROVE RemoverType'
  BY <1>14 DEF RemoverReturns, Remover
<1>15. ASSUME NEW r \in AllRemovers, NEW n \in Nodes, RemoveContainer(r, n) PROVE RemoverType'
  <2>1. remover[r] \in Remover
    OBVIOUS
  <2>2. [remover[r] EXCEPT !.todo = remover[r].todo \ {n},
            !.removing = IF container[n] = "none" THEN remover[r].removing ELSE remover[r].removing \cup {n}] \in Remover
    BY <1>15, <2>1 DEF Remover, DaemonType, RemoveContainer
  <2>3. remover' = [remover EXCEPT ![r] = [remover[r] EXCEPT !.todo = remover[r].todo \ {n},
            !.removing = IF container[n] = "none" THEN remover[r].removing ELSE remover[r].removing \cup {n}]]
    BY <1>15 DEF RemoveContainer
  <2> QED BY <2>2, <2>3
<1>16. ASSUME NEW r \in AllRemovers, NEW n \in Nodes, RemoveContainerFails(r, n) PROVE RemoverType'
  <2>1. remover[r] \in Remover
    OBVIOUS
  <2>2. [remover[r] EXCEPT !.todo = remover[r].todo \ {n}, !.failed = TRUE] \in Remover
    BY <1>16, <2>1 DEF Remover, DaemonType, RemoveContainerFails
  <2>3. remover' = [remover EXCEPT ![r] = [remover[r] EXCEPT !.todo = remover[r].todo \ {n}, !.failed = TRUE]]
    BY <1>16 DEF RemoveContainerFails
  <2> QED BY <2>2, <2>3
<1>17. ASSUME NEW r \in AllRemovers, NEW net \in Networks, RemoveNetwork(r, net) PROVE RemoverType'
  <2>1. remover[r] \in Remover
    OBVIOUS
  <2>2. [remover[r] EXCEPT !.todo = remover[r].todo \ {net}, !.tries = 0] \in Remover
    <3>1. remover[r].todo \ {net} \in SUBSET (Nodes \cup Networks)
      BY <2>1 DEF Remover
    <3>2. \A todo \in SUBSET (Nodes \cup Networks), tries \in Int, failed \in BOOLEAN :
              [remover[r] EXCEPT !.todo = todo, !.tries = tries, !.failed = failed] \in Remover
      BY <2>1 DEF Remover
    <3>3. \A todo \in SUBSET (Nodes \cup Networks), tries \in Int :
              [remover[r] EXCEPT !.todo = todo, !.tries = tries] \in Remover
      BY <2>1 DEF Remover
    <3>4. 0 \in Int
      OBVIOUS
    <3> QED BY <3>1, <3>2, <3>3, <3>4
  <2>3. remover' = [remover EXCEPT ![r] = [remover[r] EXCEPT !.todo = remover[r].todo \ {net}, !.tries = 0]]
    BY <1>17 DEF RemoveNetwork
  <2> QED BY <2>2, <2>3
<1>18. ASSUME NEW r \in AllRemovers, NEW net \in Networks, RemoveNetworkAgain(r, net) PROVE RemoverType'
  BY <1>18 DEF RemoveNetworkAgain, Remover
<1>19. ASSUME NEW r \in AllRemovers, NEW net \in Networks, RemoveNetworkFails(r, net) PROVE RemoverType'
  <2>1. remover[r] \in Remover
    OBVIOUS
  <2>2. [remover[r] EXCEPT !.todo = remover[r].todo \ {net}, !.tries = 0, !.failed = TRUE] \in Remover
    <3>1. remover[r].todo \ {net} \in SUBSET (Nodes \cup Networks)
      BY <2>1 DEF Remover
    <3>2. \A todo \in SUBSET (Nodes \cup Networks), tries \in Int, failed \in BOOLEAN :
              [remover[r] EXCEPT !.todo = todo, !.tries = tries, !.failed = failed] \in Remover
      BY <2>1 DEF Remover
    <3>3. \A todo \in SUBSET (Nodes \cup Networks), tries \in Int :
              [remover[r] EXCEPT !.todo = todo, !.tries = tries] \in Remover
      BY <2>1 DEF Remover
    <3>4. 0 \in Int
      OBVIOUS
    <3> QED BY <3>1, <3>2, <3>3, <3>4
  <2>3. remover' = [remover EXCEPT ![r] = [remover[r] EXCEPT !.todo = remover[r].todo \ {net}, !.tries = 0, !.failed = TRUE]]
    BY <1>19 DEF RemoveNetworkFails
  <2> QED BY <2>2, <2>3
<1> QED BY <1>1, <1>2, <1>3, <1>4, <1>5, <1>6, <1>7, <1>8, <1>9, <1>10, <1>11, <1>12, <1>13, <1>14,
        <1>15, <1>16, <1>17, <1>18, <1>19 DEF NextDocker

\* ... what removers have still to do ...
LEMMA RemovedStep ==
    ASSUME DaemonType, ProvisionType, RemoverType, Removed, NextDocker
    PROVE  Removed'
<1> USE DEF DaemonType, ProvisionType, RemoverType, Remover, Removed, Removing, Exists
<1>1. CASE ProvisionCall
  BY <1>1 DEF ProvisionCall, IsNext
<1>2. CASE K3sReady
  BY <1>2 DEF K3sReady
<1>3. CASE StageEnds
  BY <1>3 DEF StageEnds
<1>4. CASE ProvisionFails
  BY <1>4 DEF ProvisionFails
<1>5. ASSUME NEW done \in BOOLEAN, ProvisionCallFails(done) PROVE Removed'
  BY <1>5 DEF ProvisionCallFails, IsNext
<1>6. ASSUME NEW n \in Nodes, NodePasses(n) PROVE Removed'
  BY <1>6 DEF NodePasses
<1>7. ASSUME NEW n \in Nodes, NodeFails(n) PROVE Removed'
  BY <1>7 DEF NodeFails
<1>8. ASSUME NEW n \in Nodes, ContainerGone(n) PROVE Removed'
  BY <1>8 DEF ContainerGone
<1>9. ASSUME NEW net \in Networks, NEW n \in Nodes, EndpointGone(net, n) PROVE Removed'
  BY <1>9 DEF EndpointGone
<1>10. ASSUME NEW r \in AllRemovers, ListContainers(r) PROVE Removed'
  BY <1>10 DEF ListContainers
<1>11. ASSUME NEW r \in AllRemovers, RemoverFails(r) PROVE Removed'
  BY <1>11 DEF RemoverFails
<1>12. ASSUME NEW r \in AllRemovers, WaitGone(r) PROVE Removed'
  <2>0. CASE Removing(r, "containers")
    BY <1>12, <2>0 DEF WaitGone
  <2>4. CASE ~Removing(r, "containers")
    BY <1>12, <2>4 DEF WaitGone
  <2> QED BY <2>0, <2>4
<1>13. ASSUME NEW r \in AllRemovers, ListNetworks(r) PROVE Removed'
  BY <1>13 DEF ListNetworks
<1>14. ASSUME NEW r \in AllRemovers, RemoverReturns(r) PROVE Removed'
  BY <1>14 DEF RemoverReturns
<1>15. ASSUME NEW r \in AllRemovers, NEW n \in Nodes, RemoveContainer(r, n) PROVE Removed'
  BY <1>15 DEF RemoveContainer
<1>16. ASSUME NEW r \in AllRemovers, NEW n \in Nodes, RemoveContainerFails(r, n) PROVE Removed'
  BY <1>16 DEF RemoveContainerFails
<1>17. ASSUME NEW r \in AllRemovers, NEW net \in Networks, RemoveNetwork(r, net) PROVE Removed'
  BY <1>17 DEF RemoveNetwork
<1>18. ASSUME NEW r \in AllRemovers, NEW net \in Networks, RemoveNetworkAgain(r, net) PROVE Removed'
  BY <1>18 DEF RemoveNetworkAgain
<1>19. ASSUME NEW r \in AllRemovers, NEW net \in Networks, RemoveNetworkFails(r, net) PROVE Removed'
  BY <1>19 DEF RemoveNetworkFails
<1> QED BY <1>1, <1>2, <1>3, <1>4, <1>5, <1>6, <1>7, <1>8, <1>9, <1>10, <1>11, <1>12, <1>13, <1>14,
        <1>15, <1>16, <1>17, <1>18, <1>19 DEF NextDocker

\* ... how far the nodes are ...
LEMMA StagedStep ==
    ASSUME ProvisionType, Staged, NextDocker
    PROVE  Staged'
<1> USE StagesShape DEF ProvisionType, Staged
<1>1. CASE ProvisionCall
  <2>1. PICK c \in Plan :
            provision' = IF Plan \subseteq provision.made \cup {c}
                         THEN [provision EXCEPT !.made = Plan, !.pc = "stage", !.busy = Nodes]
                         ELSE [provision EXCEPT !.made = provision.made \cup {c}]
    BY <1>1 DEF ProvisionCall
  <2>2. ready' = ready /\ provision.pc = "call" 
    BY <1>1 DEF ProvisionCall, IsNext
  <2>3. CASE Plan \subseteq provision.made \cup {c}
    <3>1. provision' = [provision EXCEPT !.made = Plan, !.pc = "stage", !.busy = Nodes]
      BY <2>1, <2>3
    <3> QED BY <2>2, <3>1
  <2>4. CASE ~(Plan \subseteq provision.made \cup {c})
    <3>1. provision' = [provision EXCEPT !.made = provision.made \cup {c}]
      BY <2>1, <2>4
    <3> QED BY <2>2, <3>1
  <2> QED BY <2>3, <2>4
<1>2. CASE K3sReady
  BY <1>2 DEF K3sReady, Stage
<1>3. CASE StageEnds
  BY <1>3 DEF StageEnds
<1>4. CASE ProvisionFails
  BY <1>4 DEF ProvisionFails
<1>5. ASSUME NEW done \in BOOLEAN, ProvisionCallFails(done) PROVE Staged'
  BY <1>5 DEF ProvisionCallFails, IsNext
<1>6. ASSUME NEW n \in Nodes, NodePasses(n) PROVE Staged'
  BY <1>6 DEF NodePasses, Stage
<1>7. ASSUME NEW n \in Nodes, NodeFails(n) PROVE Staged'
  BY <1>7 DEF NodeFails, Stage
<1>8. ASSUME NEW n \in Nodes, ContainerGone(n) PROVE Staged'
  BY <1>8 DEF ContainerGone
<1>9. ASSUME NEW net \in Networks, NEW n \in Nodes, EndpointGone(net, n) PROVE Staged'
  BY <1>9 DEF EndpointGone
<1>10. ASSUME NEW r \in AllRemovers, ListContainers(r) PROVE Staged'
  BY <1>10 DEF ListContainers
<1>11. ASSUME NEW r \in AllRemovers, RemoverFails(r) PROVE Staged'
  BY <1>11 DEF RemoverFails
<1>12. ASSUME NEW r \in AllRemovers, WaitGone(r) PROVE Staged'
  BY <1>12 DEF WaitGone
<1>13. ASSUME NEW r \in AllRemovers, ListNetworks(r) PROVE Staged'
  BY <1>13 DEF ListNetworks
<1>14. ASSUME NEW r \in AllRemovers, RemoverReturns(r) PROVE Staged'
  BY <1>14 DEF RemoverReturns
<1>15. ASSUME NEW r \in AllRemovers, NEW n \in Nodes, RemoveContainer(r, n) PROVE Staged'
  BY <1>15 DEF RemoveContainer
<1>16. ASSUME NEW r \in AllRemovers, NEW n \in Nodes, RemoveContainerFails(r, n) PROVE Staged'
  BY <1>16 DEF RemoveContainerFails
<1>17. ASSUME NEW r \in AllRemovers, NEW net \in Networks, RemoveNetwork(r, net) PROVE Staged'
  BY <1>17 DEF RemoveNetwork
<1>18. ASSUME NEW r \in AllRemovers, NEW net \in Networks, RemoveNetworkAgain(r, net) PROVE Staged'
  BY <1>18 DEF RemoveNetworkAgain
<1>19. ASSUME NEW r \in AllRemovers, NEW net \in Networks, RemoveNetworkFails(r, net) PROVE Staged'
  BY <1>19 DEF RemoveNetworkFails
<1> QED BY <1>1, <1>2, <1>3, <1>4, <1>5, <1>6, <1>7, <1>8, <1>9, <1>10, <1>11, <1>12, <1>13, <1>14,
        <1>15, <1>16, <1>17, <1>18, <1>19 DEF NextDocker

\* ... and what Provision has made.
LEMMA MadeStep ==
    ASSUME DaemonType, ProvisionType, RemoverType, Made, NextDocker
    PROVE  Made'
<1> USE DEF DaemonType, ProvisionType, RemoverType, Remover, Made, Quiet, InPlace, Removing, Exists
<1>1. CASE ProvisionCall
  <2>1. PICK c \in Plan :
            /\ Possible(CallAt(c)) /\ Effect(CallAt(c))
            /\ provision' = IF Plan \subseteq provision.made \cup {c}
                            THEN [provision EXCEPT !.made = Plan, !.pc = "stage", !.busy = Nodes]
                            ELSE [provision EXCEPT !.made = provision.made \cup {c}]
    BY <1>1 DEF ProvisionCall
  <2>2. \A d \in Plan : InPlace(d) => InPlace(d)'
    BY <2>1, EffectKeeps
  <2>3. InPlace(c)'
    BY <2>1, EffectDoes
  <2>4. \A d \in provision.made' : d \in Plan /\ (d \in provision.made \/ d = c)
    BY <2>1
  <2>5. remover' = remover
    BY <1>1 DEF ProvisionCall
  <2> QED BY <2>2, <2>3, <2>4, <2>5 DEF Made, Quiet, Removing
<1>2. CASE K3sReady
  BY <1>2 DEF K3sReady
<1>3. CASE StageEnds
  BY <1>3 DEF StageEnds
<1>4. CASE ProvisionFails
  BY <1>4 DEF ProvisionFails
<1>5. ASSUME NEW done \in BOOLEAN, ProvisionCallFails(done) PROVE Made'
  <2>1. CASE done
    <3>1. PICK c \in Plan :
              /\ Possible(CallAt(c)) /\ Effect(CallAt(c))
              /\ provision' = [provision EXCEPT !.pc = "cleanup"]
      BY <1>5, <2>1 DEF ProvisionCallFails
    <3>2. \A d \in Plan : InPlace(d) => InPlace(d)'
      BY <3>1, EffectKeeps
    <3>3. provision.made' = provision.made /\ remover' = remover
      BY <1>5, <3>1 DEF ProvisionCallFails
    <3> QED BY <3>2, <3>3 DEF Made, Quiet, Removing
  <2>2. CASE ~done
    BY <1>5, <2>2 DEF ProvisionCallFails
  <2> QED BY <2>1, <2>2
<1>6. ASSUME NEW n \in Nodes, NodePasses(n) PROVE Made'
  BY <1>6 DEF NodePasses
<1>7. ASSUME NEW n \in Nodes, NodeFails(n) PROVE Made'
  BY <1>7 DEF NodeFails
<1>8. ASSUME NEW n \in Nodes, ContainerGone(n) PROVE Made'
  BY <1>8 DEF ContainerGone
<1>9. ASSUME NEW net \in Networks, NEW n \in Nodes, EndpointGone(net, n) PROVE Made'
  BY <1>9 DEF EndpointGone
<1>10. ASSUME NEW r \in AllRemovers, ListContainers(r) PROVE Made'
  BY <1>10 DEF ListContainers
<1>11. ASSUME NEW r \in AllRemovers, RemoverFails(r) PROVE Made'
  BY <1>11 DEF RemoverFails
<1>12. ASSUME NEW r \in AllRemovers, WaitGone(r) PROVE Made'
  BY <1>12 DEF WaitGone
<1>13. ASSUME NEW r \in AllRemovers, ListNetworks(r) PROVE Made'
  BY <1>13 DEF ListNetworks
<1>14. ASSUME NEW r \in AllRemovers, RemoverReturns(r) PROVE Made'
  BY <1>14 DEF RemoverReturns
<1>15. ASSUME NEW r \in AllRemovers, NEW n \in Nodes, RemoveContainer(r, n) PROVE Made'
  BY <1>15 DEF RemoveContainer
<1>16. ASSUME NEW r \in AllRemovers, NEW n \in Nodes, RemoveContainerFails(r, n) PROVE Made'
  BY <1>16 DEF RemoveContainerFails
<1>17. ASSUME NEW r \in AllRemovers, NEW net \in Networks, RemoveNetwork(r, net) PROVE Made'
  BY <1>17 DEF RemoveNetwork
<1>18. ASSUME NEW r \in AllRemovers, NEW net \in Networks, RemoveNetworkAgain(r, net) PROVE Made'
  BY <1>18 DEF RemoveNetworkAgain
<1>19. ASSUME NEW r \in AllRemovers, NEW net \in Networks, RemoveNetworkFails(r, net) PROVE Made'
  BY <1>19 DEF RemoveNetworkFails
<1> QED BY <1>1, <1>2, <1>3, <1>4, <1>5, <1>6, <1>7, <1>8, <1>9, <1>10, <1>11, <1>12, <1>13, <1>14,
        <1>15, <1>16, <1>17, <1>18, <1>19 DEF NextDocker

\* Every step keeps the invariant, which holds before there is a sandbox.
LEMMA StepDocker == DockerInv /\ [NextDocker]_dockerVars => DockerInv'
<1>1. ASSUME DockerInv, NextDocker PROVE DockerInv'
  BY <1>1, DaemonTypeStep, ProvisionTypeStep, RemoverTypeStep, RemovedStep, StagedStep, MadeStep
     DEF DockerInv
<1>2. ASSUME DockerInv, UNCHANGED dockerVars PROVE DockerInv'
  <2> USE <1>2 DEF dockerVars, DockerInv
  <2>1. DaemonType' /\ ProvisionType' /\ RemoverType' /\ Staged'
    BY DEF DaemonType, ProvisionType, RemoverType, Staged
  <2>2. Removed' /\ Made'
    BY DEF Removed, Made, Quiet, InPlace, Removing, Exists
  <2> QED BY <2>1, <2>2
<1> QED BY <1>1, <1>2

\* Provision begins, and nobody removes.
LEMMA FirstDocker == InitDocker => DockerInv
<1> SUFFICES ASSUME InitDocker PROVE DockerInv
  OBVIOUS
<1>1. DaemonType
  BY DEF InitDocker, DaemonType
<1>2. ProvisionType
  BY StagesShape DEF InitDocker, ProvisionType
<1>3. RemoverType
  BY DEF InitDocker, RemoverType, Remover
<1>4. Removed /\ Staged /\ Made
  BY DEF InitDocker, Removed, Staged, Made
<1> QED BY <1>1, <1>2, <1>3, <1>4 DEF DockerInv

\* The invariant at every time.
LEMMA DockerSafe == DockerSpec => []DockerInv
<1> QED BY FirstDocker, StepDocker, PTL DEF DockerSpec

\* However many removals overlap, of a sandbox of any size, and whatever the daemon
\* does: one that reports no error, and began when nothing was created any more, has
\* left no network and no container that is not being torn down (remove).
THEOREM ReportedRemovalIsRealHolds == DockerSpec => []ReportedRemovalIsReal
<1>1. DockerInv => ReportedRemovalIsReal
  BY DEF DockerInv, Removed, Removing, ReportedRemovalIsReal
<1> QED BY <1>1, DockerSafe, PTL

\* For any nodes and links: the sandbox that Provision returns has all its networks,
\* and every node runs, is on all of its networks and went through every stage, unless
\* somebody began to remove it (provision, forEachNode).
THEOREM ReadyIsWholeHolds == DockerSpec => []ReadyIsWhole
<1>1. DockerInv => ReadyIsWhole
  <2> SUFFICES ASSUME DockerInv, provision.pc = "ready", Quiet
               PROVE  /\ network = Networks
                      /\ \A n \in Nodes :
                           /\ container[n] = "running"
                           /\ ready[n] = ToSet(Stages)
                           /\ \A net \in Networks :
                                (net = Mgmt \/ n \in Endpoints[net]) => n \in endpoints[net]
    BY DEF ReadyIsWhole, Quiet
  <2>1. \A c \in Plan : InPlace(c)
    BY DEF DockerInv, Staged, Made
  <2>2. network = Networks
    <3>1. ASSUME NEW net \in Networks PROVE net \in network
      <4>1. PICK i \in {0} \cup DOMAIN LinkOrder : net = IF i = 0 THEN Mgmt ELSE LinkOrder[i]
        <5>1. 0 \notin DOMAIN LinkOrder
          BY DockerAssumption
        <5>2. net = Mgmt \/ \E j \in DOMAIN LinkOrder : net = LinkOrder[j]
          BY DEF Networks, ToSet
        <5> QED BY <5>1, <5>2
      <4> DEFINE c == [loop |-> 1, at |-> i, of |-> 0]
      <4>2. c \in Plan
        BY DEF Plan, CreateNetworks
      <4>3. CallAt(c) = Call("network", Mgmt, net)
        BY <4>1 DEF CallAt
      <4> QED BY <2>1, <4>2, <4>3 DEF InPlace, Call
    <3> QED BY <3>1 DEF DockerInv, DaemonType
  <2>3. ASSUME NEW n \in Nodes
        PROVE  /\ container[n] = "running" /\ n \in endpoints[Mgmt]
               /\ ready[n] = ToSet(Stages)
    <3>1. PICK i \in DOMAIN NodeOrder : NodeOrder[i] = n
      BY DEF Nodes, ToSet
    <3> DEFINE c == [loop |-> 2, at |-> i, of |-> 2]
    <3>2. c \in Plan
      BY DEF Plan, CreateContainers
    <3>3. CallAt(c) = Call("start", n, Mgmt)
      BY <3>1 DEF CallAt
    <3>4. container[n] = "running" /\ n \in endpoints[Mgmt]
      BY <2>1, <3>2, <3>3 DEF InPlace, Call
    <3>5. ToSet(Stages) \subseteq ready[n]
      BY StagesShape DEF DockerInv, Staged
    <3>6. ready[n] \subseteq ToSet(Stages)
      BY DEF DockerInv, ProvisionType
    <3> QED BY <3>4, <3>5, <3>6
  <2>4. ASSUME NEW n \in Nodes, NEW net \in Networks, net # Mgmt, n \in Endpoints[net]
        PROVE  n \in endpoints[net]
    <3>1. PICK i \in DOMAIN NodeOrder : NodeOrder[i] = n
      BY DEF Nodes, ToSet
    <3>2. PICK j \in DOMAIN LinkOrder : LinkOrder[j] = net
      BY <2>4 DEF Networks, ToSet
    <3> DEFINE c == [loop |-> 3, at |-> j, of |-> i]
    <3>3. c \in Plan
      BY <2>4, <3>1, <3>2 DEF Plan, ConnectLinks
    <3>4. CallAt(c) = Call("connect", n, net)
      BY <3>1, <3>2 DEF CallAt
    <3> QED BY <2>1, <3>3, <3>4 DEF InPlace, Call
  <2> QED BY <2>2, <2>3, <2>4
<1> QED BY <1>1, DockerSafe, PTL

-----------------------------------------------------------------------------
(* The virtual machine provider.                                           *)

VMSpec == InitVM /\ [][NextVM]_vmVars

HostType ==
    /\ domain \in [Machines -> {"none", "defined", "running", "transient"}]
    /\ nets \subseteq Nets
    /\ dir \in BOOLEAN

BuildType ==
    /\ building \in [pc : {"dir", "networks", "create", "agents", "bootstrap", "setup", "ready",
                           "cleanup", "failed"}, next : Int]
    /\ building.pc \in {"dir", "networks"} => building.next \in Nat \ {0}
    /\ building.pc = "dir" => building.next = 1
    /\ building.pc = "networks" => building.next \in DOMAIN NetOrder
    /\ maker \in [Machines ->
          {"idle", "overlay", "seed", "define", "start", "exec", "ok", "failed"}]

Destroyer == [pc : {"idle", "nets", "remove", "stat", "dir", "done", "not-found"}, gc : BOOLEAN,
              domains : SUBSET Machines, nets : SUBSET Nets, undefine : SUBSET Machines,
              empty : BOOLEAN, hadDir : BOOLEAN, failed : BOOLEAN, alone : BOOLEAN]

DestroyerType == destroyer \in [AllDestroyers -> Destroyer]

\* No goroutine of a stage goes on once Provision has left the stage.
Joined ==
    building.pc \in {"dir", "networks", "setup", "ready", "cleanup", "failed"} =>
        \A n \in Machines : maker[n] \in {"idle", "ok", "failed"}

\* A destroyer undefines one machine at a time.  One that is alone, and that met no
\* error, has on its lists all that is there, has stopped the machine it undefines,
\* and leaves the directory for the end.
Destroyed ==
    \A d \in AllDestroyers :
        /\ destroyer[d].undefine # {} => destroyer[d].pc = "remove"
        /\ \A m, n \in destroyer[d].undefine : m = n
        /\ destroyer[d].alone => building.pc \in {"ready", "cleanup", "failed"}
        /\ (destroyer[d].alone /\ ~destroyer[d].failed) =>
              /\ destroyer[d].pc = "nets" =>
                    \A n \in Machines : domain[n] # "none" => n \in destroyer[d].domains
              /\ destroyer[d].pc = "remove" =>
                    /\ nets \subseteq destroyer[d].nets
                    /\ \A n \in Machines :
                          /\ domain[n] # "none" => n \in destroyer[d].domains \cup destroyer[d].undefine
                          /\ n \in destroyer[d].undefine => domain[n] \in {"defined", "none"}
              /\ destroyer[d].pc \in {"stat", "dir", "done", "not-found"} =>
                    nets = {} /\ \A n \in Machines : domain[n] = "none"
              /\ destroyer[d].pc \in {"done", "not-found"} => ~dir

VMInv == HostType /\ BuildType /\ DestroyerType /\ Joined /\ Destroyed

\* Every step keeps the types of what there is, ...
LEMMA HostTypeStep ==
    ASSUME HostType, BuildType, NextVM
    PROVE  HostType'
<1> USE VMAssumption DEF HostType, BuildType
<1>1. CASE MakeDir
  BY <1>1 DEF MakeDir, BuildAt, BuildNext, BuildFails
<1>2. CASE CreateNetwork
  BY <1>2 DEF CreateNetwork, BuildAt, BuildNext, BuildFails
<1>3. CASE JoinNodes
  BY <1>3 DEF JoinNodes, AfterStage, BuildAt, BuildNext, BuildFails
<1>4. CASE RunSetup
  BY <1>4 DEF RunSetup, BuildAt, BuildNext, BuildFails
<1>5. CASE SetupFails
  BY <1>5 DEF SetupFails, BuildAt, BuildNext, BuildFails
<1>6. CASE ProvisionReturns
  BY <1>6 DEF ProvisionReturns, BuildAt
<1>7. ASSUME NEW done \in BOOLEAN, CreateFails(done) PROVE HostType'
  BY <1>7 DEF CreateFails, BuildAt, BuildNext, BuildFails
<1>8. ASSUME NEW n \in Machines, Overlay(n) PROVE HostType'
  BY <1>8 DEF Overlay, BuildAt
<1>9. ASSUME NEW n \in Machines, Seed(n) PROVE HostType'
  BY <1>9 DEF Seed
<1>10. ASSUME NEW n \in Machines, ExecOnMachine(n) PROVE HostType'
  BY <1>10 DEF ExecOnMachine
<1>11. ASSUME NEW n \in Machines, MakerFails(n) PROVE HostType'
  BY <1>11 DEF MakerFails
<1>12. ASSUME NEW n \in Machines, NEW ok \in BOOLEAN, Define(n, ok) PROVE HostType'
  BY <1>12 DEF Define
<1>13. ASSUME NEW n \in Machines, NEW ok \in BOOLEAN, StartDomain(n, ok) PROVE HostType'
  BY <1>13 DEF StartDomain
<1>14. ASSUME NEW d \in AllDestroyers, ListDomains(d) PROVE HostType'
  BY <1>14 DEF ListDomains, DestroyAt, MayBegin
<1>15. ASSUME NEW d \in AllDestroyers, ListNets(d) PROVE HostType'
  BY <1>15 DEF ListNets, DestroyAt
<1>16. ASSUME NEW d \in AllDestroyers, ListFails(d) PROVE HostType'
  BY <1>16 DEF ListFails, DestroyAt
<1>17. ASSUME NEW d \in AllDestroyers, RemoveEnds(d) PROVE HostType'
  BY <1>17 DEF RemoveEnds, DestroyAt, NoDomainLeft
<1>18. ASSUME NEW d \in AllDestroyers, StatDir(d) PROVE HostType'
  BY <1>18 DEF StatDir, DestroyAt
<1>19. ASSUME NEW d \in AllDestroyers, RemoveDir(d) PROVE HostType'
  BY <1>19 DEF RemoveDir, DestroyAt
<1>20. ASSUME NEW d \in AllDestroyers, RemoveDirFails(d) PROVE HostType'
  BY <1>20 DEF RemoveDirFails, DestroyAt
<1>21. ASSUME NEW d \in AllDestroyers, NEW n \in Machines, DestroyDomain(d, n) PROVE HostType'
  BY <1>21 DEF DestroyDomain, DestroyAt
<1>22. ASSUME NEW d \in AllDestroyers, NEW n \in Machines, UndefineDomain(d, n) PROVE HostType'
  BY <1>22 DEF UndefineDomain, DestroyAt
<1>23. ASSUME NEW d \in AllDestroyers, NEW n \in Machines, RemoveDomainFails(d, n) PROVE HostType'
  BY <1>23 DEF RemoveDomainFails, DestroyAt
<1>24. ASSUME NEW d \in AllDestroyers, NEW net \in Nets, DestroyNet(d, net) PROVE HostType'
  BY <1>24 DEF DestroyNet, DestroyAt, NoDomainLeft
<1>25. ASSUME NEW d \in AllDestroyers, NEW net \in Nets, DestroyNetFails(d, net) PROVE HostType'
  BY <1>25 DEF DestroyNetFails, DestroyAt, NoDomainLeft
<1> QED BY <1>1, <1>2, <1>3, <1>4, <1>5, <1>6, <1>7, <1>8, <1>9, <1>10, <1>11, <1>12, <1>13, <1>14,
        <1>15, <1>16, <1>17, <1>18, <1>19, <1>20, <1>21, <1>22, <1>23, <1>24, <1>25 DEF NextVM

\* ... of Provision ...
LEMMA BuildTypeStep ==
    ASSUME BuildType, NextVM
    PROVE  BuildType'
<1> USE VMAssumption DEF BuildType
<1>1. CASE MakeDir
  BY <1>1 DEF MakeDir, BuildAt, BuildNext, BuildFails
<1>2. CASE CreateNetwork
  BY <1>2 DEF CreateNetwork, BuildAt, BuildNext, BuildFails
<1>3. CASE JoinNodes
  BY <1>3 DEF JoinNodes, AfterStage, BuildAt, BuildNext, BuildFails
<1>4. CASE RunSetup
  BY <1>4 DEF RunSetup, BuildAt, BuildNext, BuildFails
<1>5. CASE SetupFails
  BY <1>5 DEF SetupFails, BuildAt, BuildNext, BuildFails
<1>6. CASE ProvisionReturns
  BY <1>6 DEF ProvisionReturns, BuildAt
<1>7. ASSUME NEW done \in BOOLEAN, CreateFails(done) PROVE BuildType'
  BY <1>7 DEF CreateFails, BuildAt, BuildNext, BuildFails
<1>8. ASSUME NEW n \in Machines, Overlay(n) PROVE BuildType'
  BY <1>8 DEF Overlay, BuildAt
<1>9. ASSUME NEW n \in Machines, Seed(n) PROVE BuildType'
  BY <1>9 DEF Seed
<1>10. ASSUME NEW n \in Machines, ExecOnMachine(n) PROVE BuildType'
  BY <1>10 DEF ExecOnMachine
<1>11. ASSUME NEW n \in Machines, MakerFails(n) PROVE BuildType'
  BY <1>11 DEF MakerFails
<1>12. ASSUME NEW n \in Machines, NEW ok \in BOOLEAN, Define(n, ok) PROVE BuildType'
  BY <1>12 DEF Define
<1>13. ASSUME NEW n \in Machines, NEW ok \in BOOLEAN, StartDomain(n, ok) PROVE BuildType'
  BY <1>13 DEF StartDomain
<1>14. ASSUME NEW d \in AllDestroyers, ListDomains(d) PROVE BuildType'
  BY <1>14 DEF ListDomains, DestroyAt, MayBegin
<1>15. ASSUME NEW d \in AllDestroyers, ListNets(d) PROVE BuildType'
  BY <1>15 DEF ListNets, DestroyAt
<1>16. ASSUME NEW d \in AllDestroyers, ListFails(d) PROVE BuildType'
  BY <1>16 DEF ListFails, DestroyAt
<1>17. ASSUME NEW d \in AllDestroyers, RemoveEnds(d) PROVE BuildType'
  BY <1>17 DEF RemoveEnds, DestroyAt, NoDomainLeft
<1>18. ASSUME NEW d \in AllDestroyers, StatDir(d) PROVE BuildType'
  BY <1>18 DEF StatDir, DestroyAt
<1>19. ASSUME NEW d \in AllDestroyers, RemoveDir(d) PROVE BuildType'
  BY <1>19 DEF RemoveDir, DestroyAt
<1>20. ASSUME NEW d \in AllDestroyers, RemoveDirFails(d) PROVE BuildType'
  BY <1>20 DEF RemoveDirFails, DestroyAt
<1>21. ASSUME NEW d \in AllDestroyers, NEW n \in Machines, DestroyDomain(d, n) PROVE BuildType'
  BY <1>21 DEF DestroyDomain, DestroyAt
<1>22. ASSUME NEW d \in AllDestroyers, NEW n \in Machines, UndefineDomain(d, n) PROVE BuildType'
  BY <1>22 DEF UndefineDomain, DestroyAt
<1>23. ASSUME NEW d \in AllDestroyers, NEW n \in Machines, RemoveDomainFails(d, n) PROVE BuildType'
  BY <1>23 DEF RemoveDomainFails, DestroyAt
<1>24. ASSUME NEW d \in AllDestroyers, NEW net \in Nets, DestroyNet(d, net) PROVE BuildType'
  BY <1>24 DEF DestroyNet, DestroyAt, NoDomainLeft
<1>25. ASSUME NEW d \in AllDestroyers, NEW net \in Nets, DestroyNetFails(d, net) PROVE BuildType'
  BY <1>25 DEF DestroyNetFails, DestroyAt, NoDomainLeft
<1> QED BY <1>1, <1>2, <1>3, <1>4, <1>5, <1>6, <1>7, <1>8, <1>9, <1>10, <1>11, <1>12, <1>13, <1>14,
        <1>15, <1>16, <1>17, <1>18, <1>19, <1>20, <1>21, <1>22, <1>23, <1>24, <1>25 DEF NextVM

\* ... and of the destroyers, ...
LEMMA DestroyerTypeStep ==
    ASSUME HostType, DestroyerType, NextVM
    PROVE  DestroyerType'
<1> USE DEF DestroyerType
<1>1. CASE MakeDir
  BY <1>1 DEF MakeDir, BuildAt, BuildNext, BuildFails, Destroyer
<1>2. CASE CreateNetwork
  BY <1>2 DEF CreateNetwork, BuildAt, BuildNext, BuildFails, Destroyer
<1>3. CASE JoinNodes
  BY <1>3 DEF JoinNodes, AfterStage, BuildAt, BuildNext, BuildFails, Destroyer
<1>4. CASE RunSetup
  BY <1>4 DEF RunSetup, BuildAt, BuildNext, BuildFails, Destroyer
<1>5. CASE SetupFails
  BY <1>5 DEF SetupFails, BuildAt, BuildNext, BuildFails, Destroyer
<1>6. CASE ProvisionReturns
  BY <1>6 DEF ProvisionReturns, BuildAt, Destroyer
<1>7. ASSUME NEW done \in BOOLEAN, CreateFails(done) PROVE DestroyerType'
  BY <1>7 DEF CreateFails, BuildAt, BuildNext, BuildFails, Destroyer
<1>8. ASSUME NEW n \in Machines, Overlay(n) PROVE DestroyerType'
  BY <1>8 DEF Overlay, BuildAt, Destroyer
<1>9. ASSUME NEW n \in Machines, Seed(n) PROVE DestroyerType'
  BY <1>9 DEF Seed, Destroyer
<1>10. ASSUME NEW n \in Machines, ExecOnMachine(n) PROVE DestroyerType'
  BY <1>10 DEF ExecOnMachine, Destroyer
<1>11. ASSUME NEW n \in Machines, MakerFails(n) PROVE DestroyerType'
  BY <1>11 DEF MakerFails, Destroyer
<1>12. ASSUME NEW n \in Machines, NEW ok \in BOOLEAN, Define(n, ok) PROVE DestroyerType'
  BY <1>12 DEF Define, Destroyer
<1>13. ASSUME NEW n \in Machines, NEW ok \in BOOLEAN, StartDomain(n, ok) PROVE DestroyerType'
  BY <1>13 DEF StartDomain, Destroyer
<1>14. ASSUME NEW d \in AllDestroyers, ListDomains(d) PROVE DestroyerType'
  <2>1. destroyer[d] \in Destroyer
    OBVIOUS
  <2>2. [destroyer[d] EXCEPT !.pc = "nets", !.domains = {n \in Machines : domain[n] # "none"},
                             !.alone = building.pc \in {"ready", "cleanup", "failed"}] \in Destroyer
    <3>1. {n \in Machines : domain[n] # "none"} \in SUBSET Machines
      OBVIOUS
    <3>2. (building.pc \in {"ready", "cleanup", "failed"}) \in BOOLEAN
      OBVIOUS
    <3>3. \A found \in SUBSET Machines, alone \in BOOLEAN :
              [destroyer[d] EXCEPT !.pc = "nets", !.domains = found, !.alone = alone] \in Destroyer
      BY <2>1 DEF Destroyer
    <3> QED BY <3>1, <3>2, <3>3
  <2>3. destroyer' = [destroyer EXCEPT ![d] = [destroyer[d] EXCEPT !.pc = "nets", !.domains = {n \in Machines : domain[n] # "none"},
                             !.alone = building.pc \in {"ready", "cleanup", "failed"}]]
    BY <1>14 DEF ListDomains
  <2> QED BY <2>2, <2>3
<1>15. ASSUME NEW d \in AllDestroyers, ListNets(d) PROVE DestroyerType'
  <2>1. destroyer[d] \in Destroyer
    OBVIOUS
  <2>2. [destroyer[d] EXCEPT !.pc = "remove", !.nets = nets,
         !.empty = destroyer[d].empty /\ nets = {} /\ destroyer[d].domains = {}] \in Destroyer
    BY <2>1 DEF Destroyer, HostType
  <2>3. destroyer' = [destroyer EXCEPT ![d] = [destroyer[d] EXCEPT !.pc = "remove", !.nets = nets,
         !.empty = destroyer[d].empty /\ nets = {} /\ destroyer[d].domains = {}]]
    BY <1>15 DEF ListNets
  <2> QED BY <2>2, <2>3
<1>16. ASSUME NEW d \in AllDestroyers, ListFails(d) PROVE DestroyerType'
  <2>1. destroyer[d] \in Destroyer
    OBVIOUS
  <2>2. [destroyer[d] EXCEPT !.pc = "done", !.failed = TRUE] \in Destroyer
    BY <2>1 DEF Destroyer
  <2>3. destroyer' = [destroyer EXCEPT ![d] = [destroyer[d] EXCEPT !.pc = "done", !.failed = TRUE]]
    BY <1>16 DEF ListFails
  <2> QED BY <2>2, <2>3
<1>17. ASSUME NEW d \in AllDestroyers, RemoveEnds(d) PROVE DestroyerType'
  BY <1>17 DEF RemoveEnds, DestroyAt, NoDomainLeft, Destroyer
<1>18. ASSUME NEW d \in AllDestroyers, StatDir(d) PROVE DestroyerType'
  <2>1. destroyer[d] \in Destroyer
    OBVIOUS
  <2>2. [destroyer[d] EXCEPT !.pc = "dir", !.hadDir = dir] \in Destroyer
    BY <2>1 DEF Destroyer, HostType
  <2>3. destroyer' = [destroyer EXCEPT ![d] = [destroyer[d] EXCEPT !.pc = "dir", !.hadDir = dir]]
    BY <1>18 DEF StatDir
  <2> QED BY <2>2, <2>3
<1>19. ASSUME NEW d \in AllDestroyers, RemoveDir(d) PROVE DestroyerType'
  BY <1>19 DEF RemoveDir, DestroyAt, Destroyer
<1>20. ASSUME NEW d \in AllDestroyers, RemoveDirFails(d) PROVE DestroyerType'
  <2>1. destroyer[d] \in Destroyer
    OBVIOUS
  <2>2. [destroyer[d] EXCEPT !.pc = "done", !.failed = TRUE] \in Destroyer
    BY <2>1 DEF Destroyer
  <2>3. destroyer' = [destroyer EXCEPT ![d] = [destroyer[d] EXCEPT !.pc = "done", !.failed = TRUE]]
    BY <1>20 DEF RemoveDirFails
  <2> QED BY <2>2, <2>3
<1>21. ASSUME NEW d \in AllDestroyers, NEW n \in Machines, DestroyDomain(d, n) PROVE DestroyerType'
  <2>1. destroyer[d] \in Destroyer
    OBVIOUS
  <2>2. [destroyer[d] EXCEPT !.domains = destroyer[d].domains \ {n}, !.undefine = {n}] \in Destroyer
    BY <2>1 DEF Destroyer
  <2>3. destroyer' = [destroyer EXCEPT ![d] = [destroyer[d] EXCEPT !.domains = destroyer[d].domains \ {n}, !.undefine = {n}]]
    BY <1>21 DEF DestroyDomain
  <2> QED BY <2>2, <2>3
<1>22. ASSUME NEW d \in AllDestroyers, NEW n \in Machines, UndefineDomain(d, n) PROVE DestroyerType'
  BY <1>22 DEF UndefineDomain, DestroyAt, Destroyer
<1>23. ASSUME NEW d \in AllDestroyers, NEW n \in Machines, RemoveDomainFails(d, n) PROVE DestroyerType'
  <2>1. destroyer[d] \in Destroyer
    OBVIOUS
  <2>2. [destroyer[d] EXCEPT !.domains = destroyer[d].domains \ {n}, !.undefine = {}, !.failed = TRUE] \in Destroyer
    BY <2>1 DEF Destroyer
  <2>3. destroyer' = [destroyer EXCEPT ![d] = [destroyer[d] EXCEPT !.domains = destroyer[d].domains \ {n}, !.undefine = {}, !.failed = TRUE]]
    BY <1>23 DEF RemoveDomainFails
  <2> QED BY <2>2, <2>3
<1>24. ASSUME NEW d \in AllDestroyers, NEW net \in Nets, DestroyNet(d, net) PROVE DestroyerType'
  BY <1>24 DEF DestroyNet, DestroyAt, NoDomainLeft, Destroyer
<1>25. ASSUME NEW d \in AllDestroyers, NEW net \in Nets, DestroyNetFails(d, net) PROVE DestroyerType'
  <2>1. destroyer[d] \in Destroyer
    OBVIOUS
  <2>2. [destroyer[d] EXCEPT !.nets = destroyer[d].nets \ {net}, !.failed = TRUE] \in Destroyer
    BY <2>1 DEF Destroyer
  <2>3. destroyer' = [destroyer EXCEPT ![d] = [destroyer[d] EXCEPT !.nets = destroyer[d].nets \ {net}, !.failed = TRUE]]
    BY <1>25 DEF DestroyNetFails
  <2> QED BY <2>2, <2>3
<1> QED BY <1>1, <1>2, <1>3, <1>4, <1>5, <1>6, <1>7, <1>8, <1>9, <1>10, <1>11, <1>12, <1>13, <1>14,
        <1>15, <1>16, <1>17, <1>18, <1>19, <1>20, <1>21, <1>22, <1>23, <1>24, <1>25 DEF NextVM

\* ... that stages are joined ...
LEMMA JoinedStep ==
    ASSUME BuildType, Joined, NextVM
    PROVE  Joined'
<1> USE DEF BuildType, Joined
<1>1. CASE MakeDir
  BY <1>1 DEF MakeDir, BuildAt, BuildNext, BuildFails
<1>2. CASE CreateNetwork
  BY <1>2 DEF CreateNetwork, BuildAt, BuildNext, BuildFails
<1>3. CASE JoinNodes
  BY <1>3 DEF JoinNodes, AfterStage, BuildAt, BuildNext, BuildFails
<1>4. CASE RunSetup
  BY <1>4 DEF RunSetup, BuildAt, BuildNext, BuildFails
<1>5. CASE SetupFails
  BY <1>5 DEF SetupFails, BuildAt, BuildNext, BuildFails
<1>6. CASE ProvisionReturns
  BY <1>6 DEF ProvisionReturns, BuildAt
<1>7. ASSUME NEW done \in BOOLEAN, CreateFails(done) PROVE Joined'
  BY <1>7 DEF CreateFails, BuildAt, BuildNext, BuildFails
<1>8. ASSUME NEW n \in Machines, Overlay(n) PROVE Joined'
  BY <1>8 DEF Overlay, BuildAt
<1>9. ASSUME NEW n \in Machines, Seed(n) PROVE Joined'
  BY <1>9 DEF Seed
<1>10. ASSUME NEW n \in Machines, ExecOnMachine(n) PROVE Joined'
  BY <1>10 DEF ExecOnMachine
<1>11. ASSUME NEW n \in Machines, MakerFails(n) PROVE Joined'
  BY <1>11 DEF MakerFails
<1>12. ASSUME NEW n \in Machines, NEW ok \in BOOLEAN, Define(n, ok) PROVE Joined'
  BY <1>12 DEF Define
<1>13. ASSUME NEW n \in Machines, NEW ok \in BOOLEAN, StartDomain(n, ok) PROVE Joined'
  BY <1>13 DEF StartDomain
<1>14. ASSUME NEW d \in AllDestroyers, ListDomains(d) PROVE Joined'
  BY <1>14 DEF ListDomains, DestroyAt, MayBegin
<1>15. ASSUME NEW d \in AllDestroyers, ListNets(d) PROVE Joined'
  BY <1>15 DEF ListNets, DestroyAt
<1>16. ASSUME NEW d \in AllDestroyers, ListFails(d) PROVE Joined'
  BY <1>16 DEF ListFails, DestroyAt
<1>17. ASSUME NEW d \in AllDestroyers, RemoveEnds(d) PROVE Joined'
  BY <1>17 DEF RemoveEnds, DestroyAt, NoDomainLeft
<1>18. ASSUME NEW d \in AllDestroyers, StatDir(d) PROVE Joined'
  BY <1>18 DEF StatDir, DestroyAt
<1>19. ASSUME NEW d \in AllDestroyers, RemoveDir(d) PROVE Joined'
  BY <1>19 DEF RemoveDir, DestroyAt
<1>20. ASSUME NEW d \in AllDestroyers, RemoveDirFails(d) PROVE Joined'
  BY <1>20 DEF RemoveDirFails, DestroyAt
<1>21. ASSUME NEW d \in AllDestroyers, NEW n \in Machines, DestroyDomain(d, n) PROVE Joined'
  BY <1>21 DEF DestroyDomain, DestroyAt
<1>22. ASSUME NEW d \in AllDestroyers, NEW n \in Machines, UndefineDomain(d, n) PROVE Joined'
  BY <1>22 DEF UndefineDomain, DestroyAt
<1>23. ASSUME NEW d \in AllDestroyers, NEW n \in Machines, RemoveDomainFails(d, n) PROVE Joined'
  BY <1>23 DEF RemoveDomainFails, DestroyAt
<1>24. ASSUME NEW d \in AllDestroyers, NEW net \in Nets, DestroyNet(d, net) PROVE Joined'
  BY <1>24 DEF DestroyNet, DestroyAt, NoDomainLeft
<1>25. ASSUME NEW d \in AllDestroyers, NEW net \in Nets, DestroyNetFails(d, net) PROVE Joined'
  BY <1>25 DEF DestroyNetFails, DestroyAt, NoDomainLeft
<1> QED BY <1>1, <1>2, <1>3, <1>4, <1>5, <1>6, <1>7, <1>8, <1>9, <1>10, <1>11, <1>12, <1>13, <1>14,
        <1>15, <1>16, <1>17, <1>18, <1>19, <1>20, <1>21, <1>22, <1>23, <1>24, <1>25 DEF NextVM

\* ... and what destroyers have still to do.
LEMMA DestroyedStep ==
    ASSUME HostType, BuildType, DestroyerType, Joined, Destroyed, NextVM
    PROVE  Destroyed'
<1> USE DEF HostType, BuildType, DestroyerType, Destroyer, Joined, Destroyed
<1>1. CASE MakeDir
  BY <1>1 DEF MakeDir, BuildAt, BuildNext, BuildFails
<1>2. CASE CreateNetwork
  BY <1>2 DEF CreateNetwork, BuildAt, BuildNext, BuildFails
<1>3. CASE JoinNodes
  BY <1>3 DEF JoinNodes, AfterStage, BuildAt, BuildNext, BuildFails
<1>4. CASE RunSetup
  BY <1>4 DEF RunSetup, BuildAt, BuildNext, BuildFails
<1>5. CASE SetupFails
  BY <1>5 DEF SetupFails, BuildAt, BuildNext, BuildFails
<1>6. CASE ProvisionReturns
  BY <1>6 DEF ProvisionReturns, BuildAt
<1>7. ASSUME NEW done \in BOOLEAN, CreateFails(done) PROVE Destroyed'
  BY <1>7 DEF CreateFails, BuildAt, BuildNext, BuildFails
<1>8. ASSUME NEW n \in Machines, Overlay(n) PROVE Destroyed'
  BY <1>8 DEF Overlay, BuildAt
<1>9. ASSUME NEW n \in Machines, Seed(n) PROVE Destroyed'
  BY <1>9 DEF Seed
<1>10. ASSUME NEW n \in Machines, ExecOnMachine(n) PROVE Destroyed'
  BY <1>10 DEF ExecOnMachine
<1>11. ASSUME NEW n \in Machines, MakerFails(n) PROVE Destroyed'
  BY <1>11 DEF MakerFails
<1>12. ASSUME NEW n \in Machines, NEW ok \in BOOLEAN, Define(n, ok) PROVE Destroyed'
  BY <1>12 DEF Define
<1>13. ASSUME NEW n \in Machines, NEW ok \in BOOLEAN, StartDomain(n, ok) PROVE Destroyed'
  BY <1>13 DEF StartDomain
<1>14. ASSUME NEW d \in AllDestroyers, ListDomains(d) PROVE Destroyed'
  BY <1>14 DEF ListDomains, DestroyAt, MayBegin
<1>15. ASSUME NEW d \in AllDestroyers, ListNets(d) PROVE Destroyed'
  BY <1>15 DEF ListNets, DestroyAt
<1>16. ASSUME NEW d \in AllDestroyers, ListFails(d) PROVE Destroyed'
  BY <1>16 DEF ListFails, DestroyAt
<1>17. ASSUME NEW d \in AllDestroyers, RemoveEnds(d) PROVE Destroyed'
  BY <1>17 DEF RemoveEnds, DestroyAt, NoDomainLeft
<1>18. ASSUME NEW d \in AllDestroyers, StatDir(d) PROVE Destroyed'
  BY <1>18 DEF StatDir, DestroyAt
<1>19. ASSUME NEW d \in AllDestroyers, RemoveDir(d) PROVE Destroyed'
  BY <1>19 DEF RemoveDir, DestroyAt
<1>20. ASSUME NEW d \in AllDestroyers, RemoveDirFails(d) PROVE Destroyed'
  BY <1>20 DEF RemoveDirFails, DestroyAt
<1>21. ASSUME NEW d \in AllDestroyers, NEW n \in Machines, DestroyDomain(d, n) PROVE Destroyed'
  BY <1>21 DEF DestroyDomain, DestroyAt
<1>22. ASSUME NEW d \in AllDestroyers, NEW n \in Machines, UndefineDomain(d, n) PROVE Destroyed'
  BY <1>22 DEF UndefineDomain, DestroyAt
<1>23. ASSUME NEW d \in AllDestroyers, NEW n \in Machines, RemoveDomainFails(d, n) PROVE Destroyed'
  BY <1>23 DEF RemoveDomainFails, DestroyAt
<1>24. ASSUME NEW d \in AllDestroyers, NEW net \in Nets, DestroyNet(d, net) PROVE Destroyed'
  BY <1>24 DEF DestroyNet, DestroyAt, NoDomainLeft
<1>25. ASSUME NEW d \in AllDestroyers, NEW net \in Nets, DestroyNetFails(d, net) PROVE Destroyed'
  BY <1>25 DEF DestroyNetFails, DestroyAt, NoDomainLeft
<1> HIDE DEF HostType, BuildType, DestroyerType, Destroyer, Joined, Destroyed
<1> QED BY <1>1, <1>2, <1>3, <1>4, <1>5, <1>6, <1>7, <1>8, <1>9, <1>10, <1>11, <1>12, <1>13, <1>14,
        <1>15, <1>16, <1>17, <1>18, <1>19, <1>20, <1>21, <1>22, <1>23, <1>24, <1>25 DEF NextVM

\* Every step keeps the invariant, which holds before there is a sandbox.
LEMMA StepVM == VMInv /\ [NextVM]_vmVars => VMInv'
<1>1. ASSUME VMInv, NextVM PROVE VMInv'
  BY <1>1, HostTypeStep, BuildTypeStep, DestroyerTypeStep, JoinedStep, DestroyedStep DEF VMInv
<1>2. ASSUME VMInv, UNCHANGED vmVars PROVE VMInv'
  BY <1>2 DEF vmVars, VMInv, HostType, BuildType, DestroyerType, Joined, Destroyed
<1> QED BY <1>1, <1>2

\* Provision begins, and nobody destroys.
LEMMA FirstVM == InitVM => VMInv
<1> SUFFICES ASSUME InitVM PROVE VMInv
  OBVIOUS
<1>1. HostType
  BY DEF InitVM, HostType
<1>2. BuildType /\ Joined
  BY DEF InitVM, BuildType, Joined
<1>3. PICK collectors \in SUBSET Destroyers :
         destroyer = [d \in AllDestroyers |->
          [pc |-> "idle", gc |-> d \in collectors, domains |-> {}, nets |-> {}, undefine |-> {}, empty |-> TRUE,
           hadDir |-> TRUE, failed |-> FALSE, alone |-> FALSE]]
  BY DEF InitVM
<1>4. DestroyerType
  BY <1>3 DEF DestroyerType, Destroyer
<1>5. Destroyed
  BY <1>3 DEF Destroyed
<1> QED BY <1>1, <1>2, <1>4, <1>5 DEF VMInv

\* For any machines and networks, and however many Destroy and GC overlap: one that
\* reports no error, and began when Provision was creating nothing any more, has left
\* no machine, network or directory (Destroy, GC, remove, forEachNode).
THEOREM DestroyedIsGoneHolds == VMSpec => []DestroyedIsGone
<1>1. VMInv => DestroyedIsGone
  BY DEF VMInv, Destroyed, DestroyedIsGone
<1>2. VMSpec => []VMInv
  BY FirstVM, StepVM, PTL DEF VMSpec
<1> QED BY <1>1, <1>2, PTL

-----------------------------------------------------------------------------
(* Accounts: the types.                                                    *)

AccountsSpec == (\E now \in 1..MaxClock : InitAccounts(now)) /\ [][NextAccounts]_accountVars

\* A row as wide as a patch could make it.
Row == [password : Passwords \cup {NoPassword, Keep}, role : Roles \cup {Keep}, disabled : BOOLEAN]
Writes == {"role", "password", "disable", "enable", "purge"}

Login == [pc : {"idle", "lookup", "verify", "create", "done"}, key : Keys \cup {Keep}, name : Names,
          guess : Passwords \cup {NoPassword}, row : Row \cup {Absent}, fresh : BOOLEAN, allowedAt : Nat]

Request == [pc : {"idle", "get", "user", "touch", "served", "patch"}, session : Logins \cup {Keep},
            row : SessionRow, me : Names, role : Roles \cup {Keep, "none"}, target : Names,
            body : PatchBody, writes : Seq(Writes), dead : BOOLEAN, barred : BOOLEAN]

ClockType == clock \in Nat \ {0}
UsersType == users \in [Names -> Row \cup {Absent}]
LoginType == login \in [Logins -> Login]
SessionsType == sessions \in [DOMAIN sessions -> SessionRow]
RequestType == request \in [Requests -> Request]

\* A patch is of another account than the caller's, and of one that is there.
Patched ==
    \A r \in Requests : request[r].pc = "patch" =>
        request[r].target # request[r].me /\ users[request[r].target] # Absent

AccountsType == ClockType /\ UsersType /\ LoginType /\ SessionsType /\ RequestType

\* The records that every handler starts from and a row that is not there.
LEMMA IdleTypes ==
    /\ IdleLogin \in Login /\ DoneLogin \in Login
    /\ IdleRequest \in Request
    /\ Absent \notin Row
<1> USE AccountsAssumption
<1>1. <<>> \in Seq(Writes)
  BY EmptyChannel
<1>2. NoSession \in SessionRow
  BY DEF NoSession, SessionRow
<1>3. NoBody \in PatchBody
  BY DEF NoBody, PatchBody
<1>4. IdleRequest \in Request
  BY <1>1, <1>2, <1>3 DEF IdleRequest, Request
<1>5. IdleLogin \in Login
  BY DEF IdleLogin, Login
<1>6. DoneLogin \in Login
  BY <1>5 DEF DoneLogin, Login
<1>7. Absent \notin Row
  BY DEF Absent, Row, Roles, Keep
<1> QED BY <1>4, <1>5, <1>6, <1>7

\* The writes of a patch are some of those there are.
LEMMA PatchWritesType ==
    ASSUME NEW body \in PatchBody
    PROVE  PatchWrites(body) \in Seq(Writes)
<1> DEFINE a == IF body.role = Keep THEN <<>> ELSE <<"role">>
           b == IF body.password = Keep THEN <<>> ELSE <<"password">>
           c == CASE body.disabled = Keep -> <<>>
                  [] body.disabled = "disable" -> <<"disable", "purge">>
                  [] body.disabled = "enable" -> <<"enable">>
<1>1. <<>> \in Seq(Writes)
  BY EmptyChannel
<1>2. /\ <<"role">> \in Seq(Writes) /\ <<"password">> \in Seq(Writes)
      /\ <<"disable", "purge">> \in Seq(Writes) /\ <<"enable">> \in Seq(Writes)
  BY DEF Writes
<1>3. a \in Seq(Writes) /\ b \in Seq(Writes)
  BY <1>1, <1>2
<1>4. c \in Seq(Writes)
  <2>1. body.disabled \in {"disable", "enable", Keep}
    BY DEF PatchBody
  <2> QED BY <1>1, <1>2, <2>1 DEF Keep
<1>5. PatchWrites(body) = a \o b \o c
  BY DEF PatchWrites
<1> HIDE DEF a, b, c
<1>6. a \o b \in Seq(Writes)
  BY <1>3, ConcatProperties
<1> QED BY <1>4, <1>5, <1>6, ConcatProperties

\* A write of a patch leaves a row, and only one of them enables it.
LEMMA UpdatedRow ==
    ASSUME NEW row \in Row, NEW write \in Writes, NEW body \in PatchBody
    PROVE  /\ Updated(row, write, body) \in Row
           /\ (row.disabled /\ write # "enable") => Updated(row, write, body).disabled
<1>1. CASE write = "role"
  <2>1. Updated(row, write, body) = [row EXCEPT !.role = body.role] /\ body.role \in Roles \cup {Keep}
    BY <1>1 DEF Updated, PatchBody
  <2> QED BY <1>1, <2>1 DEF Row
<1>2. CASE write = "password"
  <2>1. /\ Updated(row, write, body) = [row EXCEPT !.password = body.password]
        /\ body.password \in Passwords \cup {Keep}
    BY <1>2 DEF Updated, PatchBody
  <2> QED BY <1>2, <2>1 DEF Row
<1>3. CASE write = "disable"
  <2>1. Updated(row, write, body) = [row EXCEPT !.disabled = TRUE]
    BY <1>3 DEF Updated
  <2> QED BY <1>3, <2>1 DEF Row
<1>4. CASE write = "enable"
  <2>1. Updated(row, write, body) = [row EXCEPT !.disabled = FALSE]
    BY <1>4 DEF Updated
  <2> QED BY <1>4, <2>1 DEF Row
<1>5. CASE write = "purge"
  <2>1. Updated(row, write, body) = row
    BY <1>5 DEF Updated
  <2> QED BY <1>5, <2>1 DEF Row
<1> QED BY <1>1, <1>2, <1>3, <1>4, <1>5 DEF Writes

\* Every step keeps the types, of the clock ...
LEMMA ClockTypeStep ==
    ASSUME ClockType, NextAccounts
    PROVE  ClockType'
<1> USE DEF ClockType
<1>1. CASE Tick
  BY <1>1 DEF Tick
<1>2. ASSUME NEW l \in Logins, NEW k \in Keys, NEW n \in Names, NEW guess \in Passwords \cup
             {NoPassword}, LoginAllow(l, k, n, guess)
      PROVE  ClockType'
  BY <1>2 DEF LoginAllow
<1>3. ASSUME NEW l \in Logins, LoginLookup(l) PROVE ClockType'
  BY <1>3 DEF LoginLookup
<1>4. ASSUME NEW l \in Logins, LoginInvalid(l) PROVE ClockType'
  BY <1>4 DEF LoginInvalid
<1>5. ASSUME NEW l \in Logins, LoginDisabled(l) PROVE ClockType'
  BY <1>5 DEF LoginDisabled
<1>6. ASSUME NEW l \in Logins, LoginReset(l) PROVE ClockType'
  BY <1>6 DEF LoginReset
<1>7. ASSUME NEW l \in Logins, LoginCreate(l) PROVE ClockType'
  BY <1>7 DEF LoginCreate
<1>8. ASSUME NEW l \in Logins, LoginFails(l) PROVE ClockType'
  BY <1>8 DEF LoginFails
<1>9. ASSUME NEW r \in Requests, NEW s \in Logins, Arrive(r, s) PROVE ClockType'
  BY <1>9 DEF Arrive
<1>10. ASSUME NEW r \in Requests, GetSession(r) PROVE ClockType'
  BY <1>10 DEF GetSession
<1>11. ASSUME NEW r \in Requests, UserByID(r) PROVE ClockType'
  BY <1>11 DEF UserByID
<1>12. ASSUME NEW r \in Requests, Touch(r) PROVE ClockType'
  BY <1>12 DEF Touch
<1>13. ASSUME NEW r \in Requests, Answer(r) PROVE ClockType'
  BY <1>13 DEF Answer
<1>14. ASSUME NEW r \in Requests, Logout(r) PROVE ClockType'
  BY <1>14 DEF Logout
<1>15. ASSUME NEW r \in Requests, NEW n \in Names, NEW password \in Passwords, NEW role \in Roles,
              CreateUser(r, n, password, role)
       PROVE  ClockType'
  BY <1>15 DEF CreateUser, ServedAdmin
<1>16. ASSUME NEW r \in Requests, NEW n \in Names, NEW body \in PatchBodies, PatchUser(r, n, body)
       PROVE  ClockType'
  BY <1>16 DEF PatchUser, ServedAdmin
<1>17. ASSUME NEW r \in Requests, PatchWrite(r) PROVE ClockType'
  BY <1>17 DEF PatchWrite
<1>18. ASSUME NEW n \in Names, NEW password \in Passwords, NEW role \in Roles, CliAdd(n, password,
              role)
       PROVE  ClockType'
  BY <1>18 DEF CliAdd
<1>19. ASSUME NEW n \in Names, NEW password \in Passwords, CliPasswd(n, password) PROVE ClockType'
  BY <1>19 DEF CliPasswd
<1>20. ASSUME NEW n \in Names, NEW disabled \in BOOLEAN, CliSetDisabled(n, disabled) PROVE ClockType'
  BY <1>20 DEF CliSetDisabled
<1> QED BY <1>1, <1>2, <1>3, <1>4, <1>5, <1>6, <1>7, <1>8, <1>9, <1>10, <1>11, <1>12, <1>13, <1>14,
        <1>15, <1>16, <1>17, <1>18, <1>19, <1>20 DEF NextAccounts, NextLogin, NextRequest, NextCli

\* ... of users ...
LEMMA UsersTypeStep ==
    ASSUME UsersType, RequestType, Patched, NextAccounts
    PROVE  UsersType'
<1> USE DEF UsersType
<1>1. CASE Tick
  BY <1>1 DEF Tick
<1>2. ASSUME NEW l \in Logins, NEW k \in Keys, NEW n \in Names, NEW guess \in Passwords \cup
             {NoPassword}, LoginAllow(l, k, n, guess)
      PROVE  UsersType'
  BY <1>2 DEF LoginAllow
<1>3. ASSUME NEW l \in Logins, LoginLookup(l) PROVE UsersType'
  BY <1>3 DEF LoginLookup
<1>4. ASSUME NEW l \in Logins, LoginInvalid(l) PROVE UsersType'
  BY <1>4 DEF LoginInvalid
<1>5. ASSUME NEW l \in Logins, LoginDisabled(l) PROVE UsersType'
  BY <1>5 DEF LoginDisabled
<1>6. ASSUME NEW l \in Logins, LoginReset(l) PROVE UsersType'
  BY <1>6 DEF LoginReset
<1>7. ASSUME NEW l \in Logins, LoginCreate(l) PROVE UsersType'
  BY <1>7 DEF LoginCreate
<1>8. ASSUME NEW l \in Logins, LoginFails(l) PROVE UsersType'
  BY <1>8 DEF LoginFails
<1>9. ASSUME NEW r \in Requests, NEW s \in Logins, Arrive(r, s) PROVE UsersType'
  BY <1>9 DEF Arrive
<1>10. ASSUME NEW r \in Requests, GetSession(r) PROVE UsersType'
  BY <1>10 DEF GetSession
<1>11. ASSUME NEW r \in Requests, UserByID(r) PROVE UsersType'
  BY <1>11 DEF UserByID
<1>12. ASSUME NEW r \in Requests, Touch(r) PROVE UsersType'
  BY <1>12 DEF Touch
<1>13. ASSUME NEW r \in Requests, Answer(r) PROVE UsersType'
  BY <1>13 DEF Answer
<1>14. ASSUME NEW r \in Requests, Logout(r) PROVE UsersType'
  BY <1>14 DEF Logout
<1>15. ASSUME NEW r \in Requests, NEW n \in Names, NEW password \in Passwords, NEW role \in Roles,
              CreateUser(r, n, password, role)
       PROVE  UsersType'
  <2>1. CASE users[n] # Absent
    BY <1>15, <2>1 DEF CreateUser, WithUser, HasAccount
  <2>2. CASE users[n] = Absent
    <3>1. users' = [users EXCEPT ![n] = [password |-> password, role |-> role, disabled |-> FALSE]]
      BY <1>15, <2>2 DEF CreateUser, WithUser, HasAccount
    <3> QED BY <3>1 DEF Row
  <2> QED BY <2>1, <2>2
<1>16. ASSUME NEW r \in Requests, NEW n \in Names, NEW body \in PatchBodies, PatchUser(r, n, body)
       PROVE  UsersType'
  BY <1>16 DEF PatchUser, ServedAdmin
<1>17. ASSUME NEW r \in Requests, PatchWrite(r) PROVE UsersType'
  <2> DEFINE m == request[r].target
             body == request[r].body
             write == Head(request[r].writes)
  <2>1. /\ users' = [users EXCEPT ![m] = Updated(users[m], write, body)]
        /\ m \in Names /\ body \in PatchBody /\ write \in Writes
        /\ users[m] \in Row
    <3>1. request[r] \in Request /\ request[r].writes # <<>> /\ request[r].pc = "patch"
      BY <1>17 DEF PatchWrite, RequestType
    <3>2. m \in Names /\ body \in PatchBody /\ request[r].writes \in Seq(Writes)
      BY <3>1 DEF Request
    <3>3. write \in Writes
      BY <3>1, <3>2
    <3>4. users[m] \in Row
      BY <3>1, <3>2 DEF Patched, UsersType
    <3> QED BY <1>17, <3>2, <3>3, <3>4 DEF PatchWrite
  <2>2. Updated(users[m], write, body) \in Row
    BY <2>1, UpdatedRow
  <2> QED BY <2>1, <2>2
<1>18. ASSUME NEW n \in Names, NEW password \in Passwords, NEW role \in Roles, CliAdd(n, password,
              role)
       PROVE  UsersType'
  <2>1. CASE users[n] # Absent
    BY <1>18, <2>1 DEF CliAdd, WithUser, HasAccount
  <2>2. CASE users[n] = Absent
    <3>1. users' = [users EXCEPT ![n] = [password |-> password, role |-> role, disabled |-> FALSE]]
      BY <1>18, <2>2 DEF CliAdd, WithUser, HasAccount
    <3> QED BY <3>1 DEF Row
  <2> QED BY <2>1, <2>2
<1>19. ASSUME NEW n \in Names, NEW password \in Passwords, CliPasswd(n, password) PROVE UsersType'
  <2>1. users[n] \in Row
    BY <1>19 DEF CliPasswd, HasAccount
  <2>2. users' = [users EXCEPT ![n] = [users[n] EXCEPT !.password = password]]
    BY <1>19 DEF CliPasswd
  <2> QED BY <2>1, <2>2 DEF Row
<1>20. ASSUME NEW n \in Names, NEW disabled \in BOOLEAN, CliSetDisabled(n, disabled) PROVE UsersType'
  <2>1. users[n] \in Row
    BY <1>20 DEF CliSetDisabled, HasAccount
  <2>2. users' = [users EXCEPT ![n] = [users[n] EXCEPT !.disabled = disabled]]
    BY <1>20 DEF CliSetDisabled
  <2> QED BY <2>1, <2>2 DEF Row
<1> QED BY <1>1, <1>2, <1>3, <1>4, <1>5, <1>6, <1>7, <1>8, <1>9, <1>10, <1>11, <1>12, <1>13, <1>14,
        <1>15, <1>16, <1>17, <1>18, <1>19, <1>20 DEF NextAccounts, NextLogin, NextRequest, NextCli

\* ... of logins ...
LEMMA LoginTypeStep ==
    ASSUME ClockType, UsersType, LoginType, NextAccounts
    PROVE  LoginType'
<1> USE IdleTypes DEF LoginType
<1>1. CASE Tick
  BY <1>1 DEF Tick
<1>2. ASSUME NEW l \in Logins, NEW k \in Keys, NEW n \in Names, NEW guess \in Passwords \cup
             {NoPassword}, LoginAllow(l, k, n, guess)
      PROVE  LoginType'
  <2>1. login' = [login EXCEPT ![l] =
            [IdleLogin EXCEPT !.pc = "lookup", !.key = k, !.name = n,
                              !.guess = guess, !.fresh = TRUE, !.allowedAt = clock]]
    BY <1>2 DEF LoginAllow
  <2>2. [IdleLogin EXCEPT !.pc = "lookup", !.key = k, !.name = n,
                          !.guess = guess, !.fresh = TRUE, !.allowedAt = clock] \in Login
    BY DEF Login, ClockType
  <2> QED BY <2>1, <2>2
<1>3. ASSUME NEW l \in Logins, LoginLookup(l) PROVE LoginType'
  <2>1. login[l] \in Login
    OBVIOUS
  <2>2. users[login[l].name] \in Row \cup {Absent}
    BY <2>1 DEF Login, UsersType
  <2>3. login' = [login EXCEPT ![l] = [login[l] EXCEPT !.pc = "verify", !.row = users[login[l].name]]]
    BY <1>3 DEF LoginLookup
  <2>4. \A row \in Row \cup {Absent} : [login[l] EXCEPT !.pc = "verify", !.row = row] \in Login
    BY <2>1 DEF Login
  <2> QED BY <2>2, <2>3, <2>4
<1>4. ASSUME NEW l \in Logins, LoginInvalid(l) PROVE LoginType'
  <2>1. \A m \in Logins : [login[m] EXCEPT !.fresh = FALSE] \in Login
    BY DEF Login
  <2>2. PICK B : login' = [m \in Logins |->
                   IF m = l THEN IdleLogin
                   ELSE IF B /\ login[m].key = login[l].key
                        THEN [login[m] EXCEPT !.fresh = FALSE]
                        ELSE login[m]]
    BY <1>4 DEF LoginInvalid
  <2> QED BY <2>1, <2>2
<1>5. ASSUME NEW l \in Logins, LoginDisabled(l) PROVE LoginType'
  BY <1>5 DEF LoginDisabled
<1>6. ASSUME NEW l \in Logins, LoginReset(l) PROVE LoginType'
  <2>1. login' = [login EXCEPT ![l] = [IdleLogin EXCEPT !.pc = "create", !.name = login[l].name]]
    BY <1>6 DEF LoginReset
  <2>2. \A name \in Names : [IdleLogin EXCEPT !.pc = "create", !.name = name] \in Login
    BY DEF Login
  <2>3. login[l].name \in Names
    BY DEF Login
  <2> QED BY <2>1, <2>2, <2>3
<1>7. ASSUME NEW l \in Logins, LoginCreate(l) PROVE LoginType'
  BY <1>7 DEF LoginCreate
<1>8. ASSUME NEW l \in Logins, LoginFails(l) PROVE LoginType'
  BY <1>8 DEF LoginFails
<1>9. ASSUME NEW r \in Requests, NEW s \in Logins, Arrive(r, s) PROVE LoginType'
  BY <1>9 DEF Arrive
<1>10. ASSUME NEW r \in Requests, GetSession(r) PROVE LoginType'
  BY <1>10 DEF GetSession
<1>11. ASSUME NEW r \in Requests, UserByID(r) PROVE LoginType'
  BY <1>11 DEF UserByID
<1>12. ASSUME NEW r \in Requests, Touch(r) PROVE LoginType'
  BY <1>12 DEF Touch
<1>13. ASSUME NEW r \in Requests, Answer(r) PROVE LoginType'
  BY <1>13 DEF Answer
<1>14. ASSUME NEW r \in Requests, Logout(r) PROVE LoginType'
  BY <1>14 DEF Logout
<1>15. ASSUME NEW r \in Requests, NEW n \in Names, NEW password \in Passwords, NEW role \in Roles,
              CreateUser(r, n, password, role)
       PROVE  LoginType'
  BY <1>15 DEF CreateUser, ServedAdmin
<1>16. ASSUME NEW r \in Requests, NEW n \in Names, NEW body \in PatchBodies, PatchUser(r, n, body)
       PROVE  LoginType'
  BY <1>16 DEF PatchUser, ServedAdmin
<1>17. ASSUME NEW r \in Requests, PatchWrite(r) PROVE LoginType'
  BY <1>17 DEF PatchWrite
<1>18. ASSUME NEW n \in Names, NEW password \in Passwords, NEW role \in Roles, CliAdd(n, password,
              role)
       PROVE  LoginType'
  BY <1>18 DEF CliAdd
<1>19. ASSUME NEW n \in Names, NEW password \in Passwords, CliPasswd(n, password) PROVE LoginType'
  BY <1>19 DEF CliPasswd
<1>20. ASSUME NEW n \in Names, NEW disabled \in BOOLEAN, CliSetDisabled(n, disabled) PROVE LoginType'
  BY <1>20 DEF CliSetDisabled
<1> QED BY <1>1, <1>2, <1>3, <1>4, <1>5, <1>6, <1>7, <1>8, <1>9, <1>10, <1>11, <1>12, <1>13, <1>14,
        <1>15, <1>16, <1>17, <1>18, <1>19, <1>20 DEF NextAccounts, NextLogin, NextRequest, NextCli

\* ... of sessions ...
LEMMA SessionsTypeStep ==
    ASSUME ClockType, LoginType, SessionsType, NextAccounts
    PROVE  SessionsType'
<1> USE AccountsAssumption DEF SessionsType
<1>1. CASE Tick
  BY <1>1 DEF Tick
<1>2. ASSUME NEW l \in Logins, NEW k \in Keys, NEW n \in Names, NEW guess \in Passwords \cup
             {NoPassword}, LoginAllow(l, k, n, guess)
      PROVE  SessionsType'
  BY <1>2 DEF LoginAllow
<1>3. ASSUME NEW l \in Logins, LoginLookup(l) PROVE SessionsType'
  BY <1>3 DEF LoginLookup
<1>4. ASSUME NEW l \in Logins, LoginInvalid(l) PROVE SessionsType'
  BY <1>4 DEF LoginInvalid
<1>5. ASSUME NEW l \in Logins, LoginDisabled(l) PROVE SessionsType'
  BY <1>5 DEF LoginDisabled
<1>6. ASSUME NEW l \in Logins, LoginReset(l) PROVE SessionsType'
  BY <1>6 DEF LoginReset
<1>7. ASSUME NEW l \in Logins, LoginCreate(l) PROVE SessionsType'
  <2>1. sessions' = WithSession(l, login[l].name)
    BY <1>7 DEF LoginCreate
  <2>2. login[l].name \in Names /\ clock \in Nat /\ clock + SessionTTL \in Nat
    BY DEF LoginType, Login, ClockType
  <2>3. [user |-> login[l].name, lastSeen |-> clock, expires |-> clock + SessionTTL] \in SessionRow
    BY <2>2 DEF SessionRow
  <2> QED BY <2>1, <2>3 DEF WithSession
<1>8. ASSUME NEW l \in Logins, LoginFails(l) PROVE SessionsType'
  BY <1>8 DEF LoginFails
<1>9. ASSUME NEW r \in Requests, NEW s \in Logins, Arrive(r, s) PROVE SessionsType'
  BY <1>9 DEF Arrive
<1>10. ASSUME NEW r \in Requests, GetSession(r) PROVE SessionsType'
  BY <1>10 DEF GetSession
<1>11. ASSUME NEW r \in Requests, UserByID(r) PROVE SessionsType'
  BY <1>11 DEF UserByID
<1>12. ASSUME NEW r \in Requests, Touch(r) PROVE SessionsType'
  <2> DEFINE s == request[r].session
  <2>1. CASE s \in DOMAIN sessions
    <3>1. clock \in Nat /\ clock + SessionTTL \in Nat
      BY DEF ClockType
    <3>2. sessions[s] \in SessionRow
      BY <2>1
    <3>3. [sessions[s] EXCEPT !.lastSeen = clock, !.expires = clock + SessionTTL] \in SessionRow
      BY <3>1, <3>2 DEF SessionRow
    <3>4. sessions' = [sessions EXCEPT ![s] =
              [sessions[s] EXCEPT !.lastSeen = clock, !.expires = clock + SessionTTL]]
      BY <1>12, <2>1 DEF Touch, Touched
    <3> QED BY <3>3, <3>4
  <2>2. CASE s \notin DOMAIN sessions
    BY <1>12, <2>2 DEF Touch
  <2> QED BY <2>1, <2>2
<1>13. ASSUME NEW r \in Requests, Answer(r) PROVE SessionsType'
  BY <1>13 DEF Answer
<1>14. ASSUME NEW r \in Requests, Logout(r) PROVE SessionsType'
  BY <1>14 DEF Logout, DeleteSession, Without, Restrict
<1>15. ASSUME NEW r \in Requests, NEW n \in Names, NEW password \in Passwords, NEW role \in Roles,
              CreateUser(r, n, password, role)
       PROVE  SessionsType'
  BY <1>15 DEF CreateUser, ServedAdmin
<1>16. ASSUME NEW r \in Requests, NEW n \in Names, NEW body \in PatchBodies, PatchUser(r, n, body)
       PROVE  SessionsType'
  BY <1>16 DEF PatchUser, ServedAdmin
<1>17. ASSUME NEW r \in Requests, PatchWrite(r) PROVE SessionsType'
  <2>1. sessions' = sessions \/ sessions' = SessionsWithout(request[r].target)
    BY <1>17 DEF PatchWrite
  <2> QED BY <2>1 DEF SessionsWithout, Restrict
<1>18. ASSUME NEW n \in Names, NEW password \in Passwords, NEW role \in Roles, CliAdd(n, password,
              role)
       PROVE  SessionsType'
  BY <1>18 DEF CliAdd
<1>19. ASSUME NEW n \in Names, NEW password \in Passwords, CliPasswd(n, password) PROVE SessionsType'
  BY <1>19 DEF CliPasswd
<1>20. ASSUME NEW n \in Names, NEW disabled \in BOOLEAN, CliSetDisabled(n, disabled) PROVE SessionsType'
  BY <1>20 DEF CliSetDisabled
<1> QED BY <1>1, <1>2, <1>3, <1>4, <1>5, <1>6, <1>7, <1>8, <1>9, <1>10, <1>11, <1>12, <1>13, <1>14,
        <1>15, <1>16, <1>17, <1>18, <1>19, <1>20 DEF NextAccounts, NextLogin, NextRequest, NextCli

\* Released changes barred, and to FALSE only.
LEMMA ReleasedRequests ==
    ASSUME RequestType, NEW n
    PROVE  /\ Released(n) \in [Requests -> Request]
           /\ \A q \in Requests :
                /\ Released(n)[q].barred => request[q].barred
                /\ Released(n)[q].dead = request[q].dead
                /\ Released(n)[q].pc = request[q].pc /\ Released(n)[q].session = request[q].session
                /\ Released(n)[q].me = request[q].me /\ Released(n)[q].target = request[q].target
                /\ Released(n)[q].writes = request[q].writes
                /\ (request[q].pc # "get" /\ request[q].me = n) => ~Released(n)[q].barred
                /\ (request[q].pc = "get" /\ request[q].session \in DOMAIN sessions
                    /\ sessions[request[q].session].user = n) => ~Released(n)[q].barred
<1> DEFINE owner(q) == IF request[q].pc # "get" THEN request[q].me
                       ELSE IF request[q].session \in DOMAIN sessions
                            THEN sessions[request[q].session].user ELSE Keep
<1>1. Released(n) = [q \in Requests |-> [request[q] EXCEPT !.barred = request[q].barred /\ owner(q) # n]]
  BY DEF Released
<1>2. ASSUME NEW q \in Requests
      PROVE  LET x == [request[q] EXCEPT !.barred = request[q].barred /\ owner(q) # n] IN
             /\ x \in Request /\ (x.barred => request[q].barred /\ owner(q) # n) /\ x.dead = request[q].dead
             /\ x.pc = request[q].pc /\ x.session = request[q].session
             /\ x.me = request[q].me /\ x.target = request[q].target /\ x.writes = request[q].writes
  <2> HIDE DEF owner
  <2>1. request[q] \in Request
    BY DEF RequestType
  <2>2. (request[q].barred /\ owner(q) # n) \in BOOLEAN
    OBVIOUS
  <2>3. \A b \in BOOLEAN :
          LET x == [request[q] EXCEPT !.barred = b] IN
             /\ x \in Request /\ x.barred = b /\ x.dead = request[q].dead
             /\ x.pc = request[q].pc /\ x.session = request[q].session
             /\ x.me = request[q].me /\ x.target = request[q].target /\ x.writes = request[q].writes
    BY <2>1 DEF Request
  <2> QED BY <2>2, <2>3
<1>3. Released(n) \in [Requests -> Request]
  BY <1>1, <1>2
<1>4. ASSUME NEW q \in Requests
      PROVE  LET x == Released(n)[q] IN
             /\ (x.barred => request[q].barred /\ owner(q) # n) /\ x.dead = request[q].dead
             /\ x.pc = request[q].pc /\ x.session = request[q].session
             /\ x.me = request[q].me /\ x.target = request[q].target /\ x.writes = request[q].writes
  <2> HIDE DEF owner
  <2>1. Released(n)[q] = [request[q] EXCEPT !.barred = request[q].barred /\ owner(q) # n]
    BY <1>1
  <2> QED BY <1>2, <2>1
<1> QED BY <1>3, <1>4

\* ... and of requests.
LEMMA RequestTypeStep ==
    ASSUME ClockType, UsersType, SessionsType, RequestType, NextAccounts
    PROVE  RequestType'
<1> USE IdleTypes DEF RequestType
<1>1. CASE Tick
  BY <1>1 DEF Tick
<1>2. ASSUME NEW l \in Logins, NEW k \in Keys, NEW n \in Names, NEW guess \in Passwords \cup
             {NoPassword}, LoginAllow(l, k, n, guess)
      PROVE  RequestType'
  BY <1>2 DEF LoginAllow
<1>3. ASSUME NEW l \in Logins, LoginLookup(l) PROVE RequestType'
  BY <1>3 DEF LoginLookup
<1>4. ASSUME NEW l \in Logins, LoginInvalid(l) PROVE RequestType'
  BY <1>4 DEF LoginInvalid
<1>5. ASSUME NEW l \in Logins, LoginDisabled(l) PROVE RequestType'
  BY <1>5 DEF LoginDisabled
<1>6. ASSUME NEW l \in Logins, LoginReset(l) PROVE RequestType'
  BY <1>6 DEF LoginReset
<1>7. ASSUME NEW l \in Logins, LoginCreate(l) PROVE RequestType'
  BY <1>7 DEF LoginCreate
<1>8. ASSUME NEW l \in Logins, LoginFails(l) PROVE RequestType'
  BY <1>8 DEF LoginFails
<1>9. ASSUME NEW r \in Requests, NEW s \in Logins, Arrive(r, s) PROVE RequestType'
  <2>1. \A dead, barred \in BOOLEAN :
            [IdleRequest EXCEPT !.pc = "get", !.session = s, !.dead = dead, !.barred = barred] \in Request
    BY DEF Request
  <2>2. /\ (~LiveSession(s)) \in BOOLEAN
        /\ (s \in DOMAIN sessions /\ users[sessions[s].user].disabled) \in BOOLEAN
    OBVIOUS
  <2>3. request' = [request EXCEPT ![r] =
            [IdleRequest EXCEPT !.pc = "get", !.session = s, !.dead = ~LiveSession(s),
               !.barred = s \in DOMAIN sessions /\ users[sessions[s].user].disabled]]
    BY <1>9 DEF Arrive
  <2> QED BY <2>1, <2>2, <2>3
<1>10. ASSUME NEW r \in Requests, GetSession(r) PROVE RequestType'
  <2> DEFINE s == request[r].session
  <2>0. request[r] \in Request
    OBVIOUS
  <2>1. CASE LiveSession(s)
    <3>1. request' = [request EXCEPT ![r] =
              [request[r] EXCEPT !.pc = "user", !.row = sessions[s], !.me = sessions[s].user]]
      BY <1>10, <2>1 DEF GetSession
    <3>2. sessions[s] \in SessionRow /\ sessions[s].user \in Names
      BY <2>1 DEF LiveSession, SessionsType, SessionRow
    <3>3. \A row \in SessionRow, me \in Names :
              [request[r] EXCEPT !.pc = "user", !.row = row, !.me = me] \in Request
      BY <2>0 DEF Request
    <3> QED BY <3>1, <3>2, <3>3
  <2>2. CASE ~LiveSession(s)
    BY <1>10, <2>2 DEF GetSession
  <2> QED BY <2>1, <2>2
<1>11. ASSUME NEW r \in Requests, UserByID(r) PROVE RequestType'
  <2> DEFINE me == request[r].me
             pc == IF clock - request[r].row.lastSeen >= TouchInterval THEN "touch" ELSE "served"
  <2>0. request[r] \in Request /\ me \in Names
    BY DEF Request
  <2>1. CASE ~HasAccount(me) \/ users[me].disabled
    BY <1>11, <2>1 DEF UserByID
  <2>2. CASE ~(~HasAccount(me) \/ users[me].disabled)
    <3>1. request' = [request EXCEPT ![r] =
              [request[r] EXCEPT !.pc = pc, !.role = users[me].role, !.row = NoSession]]
      BY <1>11, <2>2 DEF UserByID
    <3>2. users[me].role \in Roles \cup {Keep} /\ pc \in {"touch", "served"} /\ NoSession \in SessionRow
      BY <2>0, <2>2, AccountsAssumption DEF UsersType, Row, HasAccount, NoSession, SessionRow
    <3> HIDE DEF pc
    <3>3. \A p \in {"touch", "served"}, role \in Roles \cup {Keep}, row \in SessionRow :
              [request[r] EXCEPT !.pc = p, !.role = role, !.row = row] \in Request
      BY <2>0 DEF Request
    <3> QED BY <3>1, <3>2, <3>3
  <2> QED BY <2>1, <2>2
<1>12. ASSUME NEW r \in Requests, Touch(r) PROVE RequestType'
  <2> DEFINE s == request[r].session
  <2>1. CASE s \in DOMAIN sessions
    <3>1. request' = [q \in Requests |->
              [request[q] EXCEPT !.pc = IF q = r THEN "served" ELSE request[q].pc,
                                 !.dead = request[q].dead /\ request[q].session # s]]
      BY <1>12, <2>1 DEF Touch
    <3>2. ASSUME NEW q \in Requests
          PROVE  [request[q] EXCEPT !.pc = IF q = r THEN "served" ELSE request[q].pc,
                                    !.dead = request[q].dead /\ request[q].session # s] \in Request
      <4> DEFINE pc == IF q = r THEN "served" ELSE request[q].pc
                 dead == request[q].dead /\ request[q].session # s
      <4>1. request[q] \in Request
        OBVIOUS
      <4>2. pc \in {"idle", "get", "user", "touch", "served", "patch"} /\ dead \in BOOLEAN
        BY <4>1 DEF Request
      <4> HIDE DEF pc, dead, s
      <4>3. [request[q] EXCEPT !.pc = pc, !.dead = dead] \in Request
        BY <4>1, <4>2 DEF Request
      <4> QED BY <4>3 DEF pc, dead
    <3> QED BY <3>1, <3>2
  <2>2. CASE s \notin DOMAIN sessions
    BY <1>12, <2>2 DEF Touch
  <2> QED BY <2>1, <2>2
<1>13. ASSUME NEW r \in Requests, Answer(r) PROVE RequestType'
  BY <1>13 DEF Answer
<1>14. ASSUME NEW r \in Requests, Logout(r) PROVE RequestType'
  BY <1>14 DEF Logout
<1>15. ASSUME NEW r \in Requests, NEW n \in Names, NEW password \in Passwords, NEW role \in Roles,
              CreateUser(r, n, password, role)
       PROVE  RequestType'
  BY <1>15 DEF CreateUser, ServedAdmin
<1>16. ASSUME NEW r \in Requests, NEW n \in Names, NEW body \in PatchBodies, PatchUser(r, n, body)
       PROVE  RequestType'
  <2>0. request[r] \in Request /\ body \in PatchBody
    BY PatchAssumption
  <2>1. PatchWrites(body) \in Seq(Writes)
    BY <2>0, PatchWritesType
  <2>2. request' = [request EXCEPT ![r] =
            [request[r] EXCEPT !.pc = "patch", !.target = n, !.body = body, !.writes = PatchWrites(body)]]
    BY <1>16 DEF PatchUser
  <2>3. \A writes \in Seq(Writes) :
            [request[r] EXCEPT !.pc = "patch", !.target = n, !.body = body, !.writes = writes] \in Request
    BY <2>0 DEF Request
  <2> QED BY <2>1, <2>2, <2>3
<1>17. ASSUME NEW r \in Requests, PatchWrite(r) PROVE RequestType'
  <2>1. PICK waiting \in [Requests -> Request] :
            /\ request' = [waiting EXCEPT ![r].writes = Tail(waiting[r].writes)]
            /\ waiting[r].writes = request[r].writes
    BY <1>17, ReleasedRequests DEF PatchWrite
  <2>2. waiting[r] \in Request /\ waiting[r].writes \in Seq(Writes) /\ waiting[r].writes # <<>>
    BY <1>17, <2>1 DEF PatchWrite, Request
  <2>3. Tail(waiting[r].writes) \in Seq(Writes)
    BY <2>2
  <2>4. \A writes \in Seq(Writes) : [waiting[r] EXCEPT !.writes = writes] \in Request
    BY <2>2 DEF Request
  <2>5. request' = [waiting EXCEPT ![r] = [waiting[r] EXCEPT !.writes = Tail(waiting[r].writes)]]
    BY <2>1
  <2> QED BY <2>3, <2>4, <2>5
<1>18. ASSUME NEW n \in Names, NEW password \in Passwords, NEW role \in Roles, CliAdd(n, password,
              role)
       PROVE  RequestType'
  BY <1>18 DEF CliAdd
<1>19. ASSUME NEW n \in Names, NEW password \in Passwords, CliPasswd(n, password) PROVE RequestType'
  BY <1>19 DEF CliPasswd
<1>20. ASSUME NEW n \in Names, NEW disabled \in BOOLEAN, CliSetDisabled(n, disabled) PROVE RequestType'
  <2>1. request' = request \/ request' = Released(n)
    BY <1>20 DEF CliSetDisabled
  <2> QED BY <2>1, ReleasedRequests
<1> QED BY <1>1, <1>2, <1>3, <1>4, <1>5, <1>6, <1>7, <1>8, <1>9, <1>10, <1>11, <1>12, <1>13, <1>14,
        <1>15, <1>16, <1>17, <1>18, <1>19, <1>20 DEF NextAccounts, NextLogin, NextRequest, NextCli

-----------------------------------------------------------------------------
(* Accounts: users and sessions.                                           *)

\* An account does not go, and a row that was found at login is still there.
OwnedLogins ==
    \A l \in Logins :
        /\ (login[l].pc = "verify" /\ login[l].row # Absent) => users[login[l].name] # Absent
        /\ login[l].pc = "create" => users[login[l].name] # Absent
OwnedSessions == \A s \in DOMAIN sessions : users[sessions[s].user] # Absent
OwnedRequests == \A r \in Requests : request[r].pc = "user" => users[request[r].me] # Absent

Owned == OwnedLogins /\ OwnedSessions /\ OwnedRequests

\* A session is made once, so one that was dead when a request came stays dead until
\* it is touched; an account that was barred is disabled until it is released.
Arrived ==
    \A r \in Requests : request[r].pc # "idle" =>
        request[r].session \in Logins /\ login[request[r].session].pc = "done"
DeadStays ==
    \A r \in Requests :
        /\ (request[r].pc = "get" /\ request[r].dead) => ~LiveSession(request[r].session)
        /\ request[r].pc \in {"user", "touch", "served", "patch"} => ~request[r].dead
BarredStays ==
    \A r \in Requests :
        /\ (request[r].pc = "get" /\ request[r].barred /\ request[r].session \in DOMAIN sessions) =>
              users[sessions[request[r].session].user].disabled
        /\ (request[r].pc = "user" /\ request[r].barred) => users[request[r].me].disabled
        /\ request[r].pc \in {"touch", "served", "patch"} => ~request[r].barred

Entitled == Arrived /\ DeadStays /\ BarredStays

SessionsInv == AccountsType /\ Patched /\ Owned /\ Entitled

AccountsStay == \A n \in Names : users[n] # Absent => users'[n] # Absent
StaysDisabled(n) == (users[n] # Absent /\ users[n].disabled) => users'[n].disabled
Enables(n) ==
    \/ \E r \in Requests :
          PatchWrite(r) /\ request[r].target = n /\ Head(request[r].writes) = "enable"
    \/ CliSetDisabled(n, FALSE)
OneEnabled == \E m \in Names : \A n \in Names : StaysDisabled(n) \/ (n = m /\ Enables(m))

\* What every step does to accounts: none goes, and one at most that was disabled is
\* enabled, by those who release its requests.
LEMMA UsersStep ==
    ASSUME UsersType, RequestType, Patched, NextAccounts
    PROVE  AccountsStay /\ OneEnabled
<1> DEFINE Goal == AccountsStay /\ OneEnabled
<1> USE DEF AccountsStay, OneEnabled, StaysDisabled
<1> USE IdleTypes DEF UsersType
<1>0. Root \in Names
  BY AccountsAssumption
<1>1. CASE users' = users
  BY <1>0, <1>1
<1>2. ASSUME NEW n \in Names, NEW password \in Passwords, NEW role \in Roles, users' = WithUser(n, password, role)
      PROVE  Goal
  <2>1. users' = IF users[n] # Absent THEN users
                 ELSE [users EXCEPT ![n] = [password |-> password, role |-> role, disabled |-> FALSE]]
    BY <1>2 DEF WithUser, HasAccount
  <2>2. [password |-> password, role |-> role, disabled |-> FALSE] # Absent
    BY DEF Absent, Roles
  <2>3. \A k \in Names : users[k] # Absent => users'[k] = users[k]
    BY <2>1
  <2> QED BY <2>3
<1>3. ASSUME NEW n \in Names, NEW password \in Passwords, CliPasswd(n, password) PROVE Goal
  <2>1. users[n] \in Row
    BY <1>3 DEF CliPasswd, HasAccount
  <2>2. users' = [users EXCEPT ![n] = [users[n] EXCEPT !.password = password]]
    BY <1>3 DEF CliPasswd
  <2>3. /\ [users[n] EXCEPT !.password = password] \in Row
        /\ [users[n] EXCEPT !.password = password].disabled = users[n].disabled
    BY <2>1 DEF Row
  <2> QED BY <2>2, <2>3
<1>4. ASSUME NEW n \in Names, NEW disabled \in BOOLEAN, CliSetDisabled(n, disabled) PROVE Goal
  <2>1. users[n] \in Row
    BY <1>4 DEF CliSetDisabled, HasAccount
  <2>2. users' = [users EXCEPT ![n] = [users[n] EXCEPT !.disabled = disabled]]
    BY <1>4 DEF CliSetDisabled
  <2>3. /\ [users[n] EXCEPT !.disabled = disabled] \in Row
        /\ [users[n] EXCEPT !.disabled = disabled].disabled = disabled
    BY <2>1 DEF Row
  <2>4. CASE disabled
    BY <2>2, <2>3, <2>4
  <2>5. CASE ~disabled
    <3>1. Enables(n)
      <4>1. CliSetDisabled(n, FALSE)
        BY <1>4, <2>5
      <4> QED BY <4>1 DEF Enables
    <3>2. \A k \in Names : k # n => users'[k] = users[k]
      BY <2>2
    <3>3. users'[n] # Absent
      BY <2>2, <2>3
    <3> QED BY <3>1, <3>2, <3>3
  <2> QED BY <2>4, <2>5
<1>5. ASSUME NEW r \in Requests, PatchWrite(r) PROVE Goal
  <2> DEFINE m == request[r].target
             body == request[r].body
             write == Head(request[r].writes)
             row == Updated(users[m], write, body)
  <2>1. request[r] \in Request /\ request[r].writes # <<>> /\ request[r].pc = "patch"
    BY <1>5 DEF PatchWrite, RequestType
  <2>2. m \in Names /\ body \in PatchBody /\ request[r].writes \in Seq(Writes)
    BY <2>1 DEF Request
  <2>3. write \in Writes
    BY <2>1, <2>2
  <2>4. users[m] \in Row
    BY <2>1, <2>2 DEF Patched
  <2>5. users' = [users EXCEPT ![m] = row]
    BY <1>5 DEF PatchWrite
  <2>6. row \in Row /\ ((users[m].disabled /\ write # "enable") => row.disabled)
    <3> HIDE DEF m, body, write
    <3>1. row = Updated(users[m], write, body)
      OBVIOUS
    <3> HIDE DEF row
    <3> QED BY <2>2, <2>3, <2>4, <3>1, UpdatedRow
  <2>7. write = "enable" => Enables(m)
    BY <1>5 DEF Enables
  <2> HIDE DEF m, body, write, row
  <2>8. CASE write = "enable"
    <3>1. \A k \in Names : k # m => users'[k] = users[k]
      BY <2>5
    <3>2. users'[m] # Absent
      BY <2>2, <2>5, <2>6
    <3> QED BY <2>2, <2>7, <2>8, <3>1, <3>2
  <2>9. CASE write # "enable"
    <3>1. \A k \in Names : (users[k] # Absent /\ users[k].disabled) => users'[k].disabled
      BY <2>2, <2>5, <2>6, <2>9
    <3>2. \A k \in Names : users[k] # Absent => users'[k] # Absent
      BY <2>2, <2>5, <2>6
    <3> QED BY <2>2, <3>1, <3>2
  <2> QED BY <2>8, <2>9
<1> HIDE DEF Goal
<1>6. CASE Tick \/ \E l \in Logins : NextLogin(l)
  <2>1. users' = users
    BY <1>6 DEF Tick, NextLogin, LoginAllow, LoginLookup, LoginInvalid, LoginDisabled, LoginReset,
       LoginCreate, LoginFails
  <2> QED BY <1>1, <2>1 DEF Goal
<1>7. ASSUME NEW r \in Requests, NextRequest(r) PROVE Goal
  <2>1. \/ users' = users
        \/ \E n \in Names, password \in Passwords, role \in Roles : users' = WithUser(n, password, role)
        \/ PatchWrite(r)
    BY <1>7 DEF NextRequest, Arrive, GetSession, UserByID, Touch, Answer, Logout, CreateUser, PatchUser
  <2> QED BY <1>1, <1>2, <1>5, <2>1 DEF Goal
<1>8. CASE NextCli
  <2>1. \/ \E n \in Names, password \in Passwords, role \in Roles : users' = WithUser(n, password, role)
        \/ \E n \in Names, password \in Passwords : CliPasswd(n, password)
        \/ \E n \in Names, disabled \in BOOLEAN : CliSetDisabled(n, disabled)
    BY <1>8 DEF NextCli, CliAdd
  <2>2. CASE \E n \in Names, password \in Passwords, role \in Roles : users' = WithUser(n, password, role)
    BY <1>2, <2>2 DEF Goal
  <2>3. CASE \E n \in Names, password \in Passwords : CliPasswd(n, password)
    BY <1>3, <2>3 DEF Goal
  <2>4. CASE \E n \in Names, disabled \in BOOLEAN : CliSetDisabled(n, disabled)
    BY <1>4, <2>4 DEF Goal
  <2> QED BY <2>1, <2>2, <2>3, <2>4
<1> QED BY <1>6, <1>7, <1>8 DEF NextAccounts, Goal

\* What Touch does to requests: its own is served or refused, and those with its
\* session are not dead.
LEMMA TouchedRequests ==
    ASSUME RequestType, NEW r \in Requests, Touch(r), NEW q \in Requests
    PROVE  \/ request'[q].pc = "idle"
           \/ /\ request'[q].session = request[q].session /\ request'[q].me = request[q].me
              /\ request'[q].target = request[q].target /\ request'[q].barred = request[q].barred
              /\ request'[q].dead => request[q].dead
              /\ (request'[q].dead /\ request[r].session \in DOMAIN sessions) =>
                    request[q].session # request[r].session
              /\ \/ request'[q].pc = request[q].pc
                 \/ q = r /\ request'[q].pc = "served"
<1> DEFINE s == request[r].session
           pc == IF q = r THEN "served" ELSE request[q].pc
           dead == request[q].dead /\ request[q].session # s
<1>0. request[q] \in Request
  BY DEF RequestType
<1>1. CASE s \in DOMAIN sessions
  <2>1. request'[q] = [request[q] EXCEPT !.pc = pc, !.dead = dead]
    BY <1>1 DEF Touch
  <2>2. dead => request[q].dead /\ request[q].session # s
    OBVIOUS
  <2>3. pc = request[q].pc \/ (q = r /\ pc = "served")
    OBVIOUS
  <2> HIDE DEF pc, dead
  <2>4. /\ request'[q].session = request[q].session /\ request'[q].me = request[q].me
        /\ request'[q].target = request[q].target /\ request'[q].barred = request[q].barred
        /\ request'[q].pc = pc /\ request'[q].dead = dead
    BY <1>0, <2>1 DEF Request
  <2> QED BY <2>2, <2>3, <2>4
<1>2. CASE s \notin DOMAIN sessions
  <2>1. request' = [request EXCEPT ![r] = IdleRequest]
    BY <1>2 DEF Touch
  <2>2. IdleRequest.pc = "idle"
    BY DEF IdleRequest
  <2>3. q # r => request'[q] = request[q]
    BY <2>1
  <2>4. q = r => request'[q].pc = "idle"
    BY <2>1, <2>2 DEF RequestType
  <2>5. CASE q # r
    <3>1. request'[q] = request[q]
      BY <2>3, <2>5
    <3> QED BY <1>2, <3>1
  <2> QED BY <2>4, <2>5
<1> QED BY <1>1, <1>2

\* What a write of a patch does to requests: those of an account that is enabled are
\* released.
LEMMA PatchedRequests ==
    ASSUME RequestType, NEW r \in Requests, PatchWrite(r), NEW q \in Requests
    PROVE  /\ request'[q].pc = request[q].pc /\ request'[q].session = request[q].session
           /\ request'[q].me = request[q].me /\ request'[q].target = request[q].target
           /\ request'[q].dead = request[q].dead
           /\ request'[q].barred => request[q].barred
           /\ Head(request[r].writes) = "enable" => request'[q].barred = Released(request[r].target)[q].barred
<1> DEFINE waiting == IF Head(request[r].writes) = "enable" THEN Released(request[r].target) ELSE request
<1>1. request' = [waiting EXCEPT ![r].writes = Tail(waiting[r].writes)]
  BY DEF PatchWrite
<1>2. waiting \in [Requests -> Request]
  BY ReleasedRequests DEF RequestType
<1>3. /\ waiting[q].pc = request[q].pc /\ waiting[q].session = request[q].session
      /\ waiting[q].me = request[q].me /\ waiting[q].target = request[q].target
      /\ waiting[q].dead = request[q].dead
      /\ waiting[q].barred => request[q].barred
  BY ReleasedRequests
<1>4. Head(request[r].writes) = "enable" => waiting = Released(request[r].target)
  OBVIOUS
<1> HIDE DEF waiting
<1>5. /\ request'[q].pc = waiting[q].pc /\ request'[q].session = waiting[q].session
      /\ request'[q].me = waiting[q].me /\ request'[q].target = waiting[q].target
      /\ request'[q].dead = waiting[q].dead /\ request'[q].barred = waiting[q].barred
  BY <1>1, <1>2 DEF Request
<1> QED BY <1>3, <1>4, <1>5

\* Every step keeps that patches are of other accounts that are there ...
LEMMA PatchedStep ==
    ASSUME UsersType, RequestType, Patched, NextAccounts
    PROVE  Patched'
<1> USE DEF RequestType, Patched
<1>0. \A n \in Names : users[n] # Absent => users'[n] # Absent
  BY UsersStep DEF AccountsStay
<1>1. CASE Tick
  BY <1>1, <1>0 DEF Tick
<1>2. ASSUME NEW l \in Logins, NEW k \in Keys, NEW n \in Names, NEW guess \in Passwords \cup
             {NoPassword}, LoginAllow(l, k, n, guess)
      PROVE  Patched'
  BY <1>2, <1>0 DEF LoginAllow
<1>3. ASSUME NEW l \in Logins, LoginLookup(l) PROVE Patched'
  BY <1>3, <1>0 DEF LoginLookup
<1>4. ASSUME NEW l \in Logins, LoginInvalid(l) PROVE Patched'
  BY <1>4, <1>0 DEF LoginInvalid
<1>5. ASSUME NEW l \in Logins, LoginDisabled(l) PROVE Patched'
  BY <1>5, <1>0 DEF LoginDisabled
<1>6. ASSUME NEW l \in Logins, LoginReset(l) PROVE Patched'
  BY <1>6, <1>0 DEF LoginReset
<1>7. ASSUME NEW l \in Logins, LoginCreate(l) PROVE Patched'
  BY <1>7, <1>0 DEF LoginCreate
<1>8. ASSUME NEW l \in Logins, LoginFails(l) PROVE Patched'
  BY <1>8, <1>0 DEF LoginFails
<1>9. ASSUME NEW r \in Requests, NEW s \in Logins, Arrive(r, s) PROVE Patched'
  BY <1>9, <1>0 DEF Arrive, Request, IdleRequest
<1>10. ASSUME NEW r \in Requests, GetSession(r) PROVE Patched'
  BY <1>10, <1>0 DEF GetSession, Request, IdleRequest, LiveSession
<1>11. ASSUME NEW r \in Requests, UserByID(r) PROVE Patched'
  BY <1>11, <1>0 DEF UserByID, Request, IdleRequest, HasAccount
<1>12. ASSUME NEW r \in Requests, Touch(r) PROVE Patched'
  <2>1. \A q \in Requests :
           \/ request'[q].pc = "idle"
           \/ /\ request'[q].me = request[q].me /\ request'[q].target = request[q].target
              /\ request'[q].pc = request[q].pc \/ request'[q].pc = "served"
    BY <1>12, TouchedRequests DEF RequestType
  <2>2. users' = users
    BY <1>12 DEF Touch
  <2> QED BY <2>1, <2>2
<1>13. ASSUME NEW r \in Requests, Answer(r) PROVE Patched'
  BY <1>13, <1>0 DEF Answer, Request, IdleRequest
<1>14. ASSUME NEW r \in Requests, Logout(r) PROVE Patched'
  BY <1>14, <1>0 DEF Logout, Request, IdleRequest
<1>15. ASSUME NEW r \in Requests, NEW n \in Names, NEW password \in Passwords, NEW role \in Roles,
              CreateUser(r, n, password, role)
       PROVE  Patched'
  BY <1>15, <1>0 DEF CreateUser, ServedAdmin, Request, IdleRequest
<1>16. ASSUME NEW r \in Requests, NEW n \in Names, NEW body \in PatchBodies, PatchUser(r, n, body)
       PROVE  Patched'
  BY <1>16, <1>0 DEF PatchUser, ServedAdmin, Request, IdleRequest, HasAccount
<1>17. ASSUME NEW r \in Requests, PatchWrite(r) PROVE Patched'
  <2>2. \A q \in Requests :
            /\ request'[q].pc = request[q].pc
            /\ request'[q].me = request[q].me /\ request'[q].target = request[q].target
    BY <1>17, PatchedRequests DEF RequestType
  <2> QED BY <1>0, <2>2 DEF Request
<1>18. ASSUME NEW n \in Names, NEW password \in Passwords, NEW role \in Roles, CliAdd(n, password,
              role)
       PROVE  Patched'
  BY <1>18, <1>0 DEF CliAdd, Request, IdleRequest
<1>19. ASSUME NEW n \in Names, NEW password \in Passwords, CliPasswd(n, password) PROVE Patched'
  BY <1>19, <1>0 DEF CliPasswd, Request, IdleRequest
<1>20. ASSUME NEW n \in Names, NEW disabled \in BOOLEAN, CliSetDisabled(n, disabled) PROVE Patched'
  <2>1. request' = request \/ request' = Released(n)
    BY <1>20 DEF CliSetDisabled
  <2>2. \A q \in Requests :
            /\ request'[q].pc = request[q].pc /\ request'[q].session = request[q].session
            /\ request'[q].me = request[q].me /\ request'[q].target = request[q].target
    BY <2>1, ReleasedRequests
  <2> QED BY <1>0, <2>2 DEF Request
<1> QED BY <1>1, <1>2, <1>3, <1>4, <1>5, <1>6, <1>7, <1>8, <1>9, <1>10, <1>11, <1>12, <1>13, <1>14,
        <1>15, <1>16, <1>17, <1>18, <1>19, <1>20 DEF NextAccounts, NextLogin, NextRequest, NextCli

\* ... and that accounts stay: those of logins ...
LEMMA OwnedLoginsStep ==
    ASSUME UsersType, LoginType, RequestType, Patched, OwnedLogins, NextAccounts
    PROVE  OwnedLogins'
<1> USE DEF LoginType, OwnedLogins, Login
<1>0. \A n \in Names : users[n] # Absent => users'[n] # Absent
  BY UsersStep DEF AccountsStay
<1>1. CASE Tick
  BY <1>1, <1>0 DEF Tick
<1>2. ASSUME NEW l \in Logins, NEW k \in Keys, NEW n \in Names, NEW guess \in Passwords \cup
             {NoPassword}, LoginAllow(l, k, n, guess)
      PROVE  OwnedLogins'
  BY <1>2, <1>0 DEF LoginAllow, IdleLogin, DoneLogin
<1>3. ASSUME NEW l \in Logins, LoginLookup(l) PROVE OwnedLogins'
  BY <1>3, <1>0 DEF LoginLookup, IdleLogin, DoneLogin
<1>4. ASSUME NEW l \in Logins, LoginInvalid(l) PROVE OwnedLogins'
  BY <1>4, <1>0 DEF LoginInvalid, IdleLogin, DoneLogin
<1>5. ASSUME NEW l \in Logins, LoginDisabled(l) PROVE OwnedLogins'
  BY <1>5, <1>0 DEF LoginDisabled, Matches, Absent, IdleLogin, DoneLogin
<1>6. ASSUME NEW l \in Logins, LoginReset(l) PROVE OwnedLogins'
  BY <1>6, <1>0 DEF LoginReset, Matches, Absent, IdleLogin, DoneLogin
<1>7. ASSUME NEW l \in Logins, LoginCreate(l) PROVE OwnedLogins'
  BY <1>7, <1>0 DEF LoginCreate, IdleLogin, DoneLogin
<1>8. ASSUME NEW l \in Logins, LoginFails(l) PROVE OwnedLogins'
  BY <1>8, <1>0 DEF LoginFails, IdleLogin, DoneLogin
<1>9. ASSUME NEW r \in Requests, NEW s \in Logins, Arrive(r, s) PROVE OwnedLogins'
  BY <1>9, <1>0 DEF Arrive
<1>10. ASSUME NEW r \in Requests, GetSession(r) PROVE OwnedLogins'
  BY <1>10, <1>0 DEF GetSession
<1>11. ASSUME NEW r \in Requests, UserByID(r) PROVE OwnedLogins'
  BY <1>11, <1>0 DEF UserByID
<1>12. ASSUME NEW r \in Requests, Touch(r) PROVE OwnedLogins'
  BY <1>12, <1>0 DEF Touch
<1>13. ASSUME NEW r \in Requests, Answer(r) PROVE OwnedLogins'
  BY <1>13, <1>0 DEF Answer
<1>14. ASSUME NEW r \in Requests, Logout(r) PROVE OwnedLogins'
  BY <1>14, <1>0 DEF Logout
<1>15. ASSUME NEW r \in Requests, NEW n \in Names, NEW password \in Passwords, NEW role \in Roles,
              CreateUser(r, n, password, role)
       PROVE  OwnedLogins'
  BY <1>15, <1>0 DEF CreateUser, ServedAdmin
<1>16. ASSUME NEW r \in Requests, NEW n \in Names, NEW body \in PatchBodies, PatchUser(r, n, body)
       PROVE  OwnedLogins'
  BY <1>16, <1>0 DEF PatchUser, ServedAdmin
<1>17. ASSUME NEW r \in Requests, PatchWrite(r) PROVE OwnedLogins'
  BY <1>17, <1>0 DEF PatchWrite
<1>18. ASSUME NEW n \in Names, NEW password \in Passwords, NEW role \in Roles, CliAdd(n, password,
              role)
       PROVE  OwnedLogins'
  BY <1>18, <1>0 DEF CliAdd
<1>19. ASSUME NEW n \in Names, NEW password \in Passwords, CliPasswd(n, password) PROVE OwnedLogins'
  BY <1>19, <1>0 DEF CliPasswd
<1>20. ASSUME NEW n \in Names, NEW disabled \in BOOLEAN, CliSetDisabled(n, disabled) PROVE OwnedLogins'
  BY <1>20, <1>0 DEF CliSetDisabled
<1> QED BY <1>1, <1>2, <1>3, <1>4, <1>5, <1>6, <1>7, <1>8, <1>9, <1>10, <1>11, <1>12, <1>13, <1>14,
        <1>15, <1>16, <1>17, <1>18, <1>19, <1>20 DEF NextAccounts, NextLogin, NextRequest, NextCli

\* ... of sessions ...
LEMMA OwnedSessionsStep ==
    ASSUME UsersType, LoginType, SessionsType, RequestType, Patched, OwnedLogins, OwnedSessions,
           NextAccounts
    PROVE  OwnedSessions'
<1> USE DEF SessionsType, OwnedSessions, SessionRow
<1>0. \A n \in Names : users[n] # Absent => users'[n] # Absent
  BY UsersStep DEF AccountsStay
<1>1. CASE Tick
  BY <1>1, <1>0 DEF Tick
<1>2. ASSUME NEW l \in Logins, NEW k \in Keys, NEW n \in Names, NEW guess \in Passwords \cup
             {NoPassword}, LoginAllow(l, k, n, guess)
      PROVE  OwnedSessions'
  BY <1>2, <1>0 DEF LoginAllow
<1>3. ASSUME NEW l \in Logins, LoginLookup(l) PROVE OwnedSessions'
  BY <1>3, <1>0 DEF LoginLookup
<1>4. ASSUME NEW l \in Logins, LoginInvalid(l) PROVE OwnedSessions'
  BY <1>4, <1>0 DEF LoginInvalid
<1>5. ASSUME NEW l \in Logins, LoginDisabled(l) PROVE OwnedSessions'
  BY <1>5, <1>0 DEF LoginDisabled
<1>6. ASSUME NEW l \in Logins, LoginReset(l) PROVE OwnedSessions'
  BY <1>6, <1>0 DEF LoginReset
<1>7. ASSUME NEW l \in Logins, LoginCreate(l) PROVE OwnedSessions'
  <2>1. sessions' = WithSession(l, login[l].name)
    BY <1>7 DEF LoginCreate
  <2>2. login[l].name \in Names /\ users[login[l].name] # Absent
    BY <1>7 DEF LoginCreate, LoginType, Login, OwnedLogins
  <2> QED BY <1>0, <2>1, <2>2 DEF WithSession
<1>8. ASSUME NEW l \in Logins, LoginFails(l) PROVE OwnedSessions'
  BY <1>8, <1>0 DEF LoginFails
<1>9. ASSUME NEW r \in Requests, NEW s \in Logins, Arrive(r, s) PROVE OwnedSessions'
  BY <1>9, <1>0 DEF Arrive
<1>10. ASSUME NEW r \in Requests, GetSession(r) PROVE OwnedSessions'
  BY <1>10, <1>0 DEF GetSession
<1>11. ASSUME NEW r \in Requests, UserByID(r) PROVE OwnedSessions'
  BY <1>11, <1>0 DEF UserByID
<1>12. ASSUME NEW r \in Requests, Touch(r) PROVE OwnedSessions'
  <2> DEFINE s == request[r].session
  <2>1. CASE s \in DOMAIN sessions
    <3>1. sessions' = [sessions EXCEPT ![s] =
              [sessions[s] EXCEPT !.lastSeen = clock, !.expires = clock + SessionTTL]]
      BY <1>12, <2>1 DEF Touch, Touched
    <3> QED BY <1>0, <2>1, <3>1
  <2>2. CASE s \notin DOMAIN sessions
    BY <1>12, <1>0, <2>2 DEF Touch
  <2> QED BY <2>1, <2>2
<1>13. ASSUME NEW r \in Requests, Answer(r) PROVE OwnedSessions'
  BY <1>13, <1>0 DEF Answer
<1>14. ASSUME NEW r \in Requests, Logout(r) PROVE OwnedSessions'
  BY <1>14, <1>0 DEF Logout, DeleteSession, Without, Restrict
<1>15. ASSUME NEW r \in Requests, NEW n \in Names, NEW password \in Passwords, NEW role \in Roles,
              CreateUser(r, n, password, role)
       PROVE  OwnedSessions'
  BY <1>15, <1>0 DEF CreateUser, ServedAdmin
<1>16. ASSUME NEW r \in Requests, NEW n \in Names, NEW body \in PatchBodies, PatchUser(r, n, body)
       PROVE  OwnedSessions'
  BY <1>16, <1>0 DEF PatchUser, ServedAdmin
<1>17. ASSUME NEW r \in Requests, PatchWrite(r) PROVE OwnedSessions'
  <2>1. sessions' = sessions \/ sessions' = SessionsWithout(request[r].target)
    BY <1>17 DEF PatchWrite
  <2> QED BY <1>0, <2>1 DEF SessionsWithout, Restrict
<1>18. ASSUME NEW n \in Names, NEW password \in Passwords, NEW role \in Roles, CliAdd(n, password,
              role)
       PROVE  OwnedSessions'
  BY <1>18, <1>0 DEF CliAdd
<1>19. ASSUME NEW n \in Names, NEW password \in Passwords, CliPasswd(n, password) PROVE OwnedSessions'
  BY <1>19, <1>0 DEF CliPasswd
<1>20. ASSUME NEW n \in Names, NEW disabled \in BOOLEAN, CliSetDisabled(n, disabled)
       PROVE  OwnedSessions'
  BY <1>20, <1>0 DEF CliSetDisabled
<1> QED BY <1>1, <1>2, <1>3, <1>4, <1>5, <1>6, <1>7, <1>8, <1>9, <1>10, <1>11, <1>12, <1>13, <1>14,
        <1>15, <1>16, <1>17, <1>18, <1>19, <1>20 DEF NextAccounts, NextLogin, NextRequest, NextCli

\* ... and of requests.
LEMMA OwnedRequestsStep ==
    ASSUME UsersType, SessionsType, RequestType, Patched, OwnedSessions, OwnedRequests, NextAccounts
    PROVE  OwnedRequests'
<1> USE DEF RequestType, OwnedRequests
<1>0. \A n \in Names : users[n] # Absent => users'[n] # Absent
  BY UsersStep DEF AccountsStay
<1>1. CASE Tick
  BY <1>1, <1>0 DEF Tick
<1>2. ASSUME NEW l \in Logins, NEW k \in Keys, NEW n \in Names, NEW guess \in Passwords \cup
             {NoPassword}, LoginAllow(l, k, n, guess)
      PROVE  OwnedRequests'
  BY <1>2, <1>0 DEF LoginAllow
<1>3. ASSUME NEW l \in Logins, LoginLookup(l) PROVE OwnedRequests'
  BY <1>3, <1>0 DEF LoginLookup
<1>4. ASSUME NEW l \in Logins, LoginInvalid(l) PROVE OwnedRequests'
  BY <1>4, <1>0 DEF LoginInvalid
<1>5. ASSUME NEW l \in Logins, LoginDisabled(l) PROVE OwnedRequests'
  BY <1>5, <1>0 DEF LoginDisabled
<1>6. ASSUME NEW l \in Logins, LoginReset(l) PROVE OwnedRequests'
  BY <1>6, <1>0 DEF LoginReset
<1>7. ASSUME NEW l \in Logins, LoginCreate(l) PROVE OwnedRequests'
  BY <1>7, <1>0 DEF LoginCreate
<1>8. ASSUME NEW l \in Logins, LoginFails(l) PROVE OwnedRequests'
  BY <1>8, <1>0 DEF LoginFails
<1>9. ASSUME NEW r \in Requests, NEW s \in Logins, Arrive(r, s) PROVE OwnedRequests'
  BY <1>9, <1>0 DEF Arrive, Request, IdleRequest
<1>10. ASSUME NEW r \in Requests, GetSession(r) PROVE OwnedRequests'
  BY <1>10, <1>0 DEF GetSession, Request, IdleRequest, LiveSession, OwnedSessions, SessionsType,
     SessionRow
<1>11. ASSUME NEW r \in Requests, UserByID(r) PROVE OwnedRequests'
  BY <1>11, <1>0 DEF UserByID, Request, IdleRequest, HasAccount
<1>12. ASSUME NEW r \in Requests, Touch(r) PROVE OwnedRequests'
  <2>1. \A q \in Requests :
           \/ request'[q].pc = "idle"
           \/ /\ request'[q].me = request[q].me /\ request'[q].target = request[q].target
              /\ request'[q].pc = request[q].pc \/ request'[q].pc = "served"
    BY <1>12, TouchedRequests DEF RequestType
  <2>2. users' = users
    BY <1>12 DEF Touch
  <2> QED BY <2>1, <2>2
<1>13. ASSUME NEW r \in Requests, Answer(r) PROVE OwnedRequests'
  BY <1>13, <1>0 DEF Answer, Request, IdleRequest
<1>14. ASSUME NEW r \in Requests, Logout(r) PROVE OwnedRequests'
  BY <1>14, <1>0 DEF Logout, Request, IdleRequest
<1>15. ASSUME NEW r \in Requests, NEW n \in Names, NEW password \in Passwords, NEW role \in Roles,
              CreateUser(r, n, password, role)
       PROVE  OwnedRequests'
  BY <1>15, <1>0 DEF CreateUser, ServedAdmin, Request, IdleRequest
<1>16. ASSUME NEW r \in Requests, NEW n \in Names, NEW body \in PatchBodies, PatchUser(r, n, body)
       PROVE  OwnedRequests'
  BY <1>16, <1>0 DEF PatchUser, ServedAdmin, Request, IdleRequest, HasAccount
<1>17. ASSUME NEW r \in Requests, PatchWrite(r) PROVE OwnedRequests'
  <2>2. \A q \in Requests :
            /\ request'[q].pc = request[q].pc
            /\ request'[q].me = request[q].me /\ request'[q].target = request[q].target
    BY <1>17, PatchedRequests DEF RequestType
  <2> QED BY <1>0, <2>2 DEF Request
<1>18. ASSUME NEW n \in Names, NEW password \in Passwords, NEW role \in Roles, CliAdd(n, password,
              role)
       PROVE  OwnedRequests'
  BY <1>18, <1>0 DEF CliAdd, Request, IdleRequest
<1>19. ASSUME NEW n \in Names, NEW password \in Passwords, CliPasswd(n, password) PROVE OwnedRequests'
  BY <1>19, <1>0 DEF CliPasswd, Request, IdleRequest
<1>20. ASSUME NEW n \in Names, NEW disabled \in BOOLEAN, CliSetDisabled(n, disabled)
       PROVE  OwnedRequests'
  <2>1. request' = request \/ request' = Released(n)
    BY <1>20 DEF CliSetDisabled
  <2>2. \A q \in Requests :
            /\ request'[q].pc = request[q].pc /\ request'[q].session = request[q].session
            /\ request'[q].me = request[q].me /\ request'[q].target = request[q].target
    BY <2>1, ReleasedRequests
  <2> QED BY <1>0, <2>2 DEF Request
<1> QED BY <1>1, <1>2, <1>3, <1>4, <1>5, <1>6, <1>7, <1>8, <1>9, <1>10, <1>11, <1>12, <1>13, <1>14,
        <1>15, <1>16, <1>17, <1>18, <1>19, <1>20 DEF NextAccounts, NextLogin, NextRequest, NextCli

\* What every step does to a session that a login was answered with: it keeps its user,
\* and only Touch makes it last longer.
LEMMA SessionsStep ==
    ASSUME SessionsType, RequestType, NextAccounts, NEW s \in Logins, login[s].pc = "done",
           s \in DOMAIN sessions'
    PROVE  /\ s \in DOMAIN sessions /\ sessions'[s].user = sessions[s].user
           /\ \/ sessions'[s].expires = sessions[s].expires
              \/ \E r \in Requests : Touch(r) /\ request[r].session = s
<1> DEFINE Goal == /\ s \in DOMAIN sessions /\ sessions'[s].user = sessions[s].user
                   /\ \/ sessions'[s].expires = sessions[s].expires
                      \/ \E r \in Requests : Touch(r) /\ request[r].session = s
<1>1. CASE sessions' = sessions
  BY <1>1
<1>2. ASSUME NEW S, S \subseteq DOMAIN sessions, sessions' = Restrict(sessions, S) PROVE Goal
  BY <1>2 DEF Restrict
<1>3. ASSUME NEW l \in Logins, LoginCreate(l) PROVE Goal
  BY <1>3 DEF LoginCreate, WithSession
<1>4. ASSUME NEW r \in Requests, Touch(r) PROVE Goal
  <2>1. CASE request[r].session \in DOMAIN sessions
    <3>1. sessions' = [sessions EXCEPT ![request[r].session] =
              [sessions[request[r].session] EXCEPT !.lastSeen = clock, !.expires = clock + SessionTTL]]
      BY <1>4, <2>1 DEF Touch, Touched
    <3>2. s \in DOMAIN sessions /\ sessions[s] \in SessionRow
      BY <3>1 DEF SessionsType
    <3>3. CASE s = request[r].session
      <4>1. sessions'[s].user = sessions[s].user
        BY <3>1, <3>2, <3>3 DEF SessionRow
      <4> QED BY <1>4, <3>2, <3>3, <4>1
    <3>4. CASE s # request[r].session
      BY <3>1, <3>2, <3>4
    <3> QED BY <3>3, <3>4
  <2>2. CASE request[r].session \notin DOMAIN sessions
    BY <1>1, <1>4, <2>2 DEF Touch
  <2> QED BY <2>1, <2>2
<1>5. ASSUME NEW r \in Requests, Logout(r) PROVE Goal
  <2>1. sessions' = Restrict(sessions, DOMAIN sessions \ {request[r].session})
    BY <1>5 DEF Logout, DeleteSession, Without
  <2> QED BY <1>2, <2>1
<1>6. ASSUME NEW r \in Requests, PatchWrite(r) PROVE Goal
  <2>1. sessions' = sessions \/ sessions' = SessionsWithout(request[r].target)
    BY <1>6 DEF PatchWrite
  <2> QED BY <1>1, <1>2, <2>1 DEF SessionsWithout
<1> HIDE DEF Goal
<1>7. \/ sessions' = sessions \/ \E l \in Logins : LoginCreate(l)
      \/ \E r \in Requests : Touch(r) \/ Logout(r) \/ PatchWrite(r)
  BY ZenonT(40) DEF NextAccounts, NextLogin, NextRequest, NextCli, Tick, LoginAllow, LoginLookup,
     LoginInvalid,
     LoginDisabled, LoginReset, LoginFails, Arrive, GetSession, UserByID, Answer, CreateUser, PatchUser,
     CliAdd, CliPasswd, CliSetDisabled
<1> QED BY <1>1, <1>3, <1>4, <1>5, <1>6, <1>7 DEF Goal

\* A request has the session of a login that was answered, ...
LEMMA ArrivedStep ==
    ASSUME LoginType, RequestType, Arrived, NextAccounts
    PROVE  Arrived'
<1> USE DEF RequestType, Arrived
<1>1. CASE Tick
  BY <1>1 DEF Tick
<1>2. ASSUME NEW l \in Logins, NEW k \in Keys, NEW n \in Names, NEW guess \in Passwords \cup
             {NoPassword}, LoginAllow(l, k, n, guess)
      PROVE  Arrived'
  BY <1>2 DEF LoginAllow, Login, LoginType, IdleLogin, DoneLogin
<1>3. ASSUME NEW l \in Logins, LoginLookup(l) PROVE Arrived'
  BY <1>3 DEF LoginLookup, Login, LoginType, IdleLogin, DoneLogin
<1>4. ASSUME NEW l \in Logins, LoginInvalid(l) PROVE Arrived'
  BY <1>4 DEF LoginInvalid, Login, LoginType, IdleLogin, DoneLogin
<1>5. ASSUME NEW l \in Logins, LoginDisabled(l) PROVE Arrived'
  BY <1>5 DEF LoginDisabled, Login, LoginType, IdleLogin, DoneLogin
<1>6. ASSUME NEW l \in Logins, LoginReset(l) PROVE Arrived'
  BY <1>6 DEF LoginReset, Login, LoginType, IdleLogin, DoneLogin
<1>7. ASSUME NEW l \in Logins, LoginCreate(l) PROVE Arrived'
  BY <1>7 DEF LoginCreate, Login, LoginType, IdleLogin, DoneLogin
<1>8. ASSUME NEW l \in Logins, LoginFails(l) PROVE Arrived'
  BY <1>8 DEF LoginFails, Login, LoginType, IdleLogin, DoneLogin
<1>9. ASSUME NEW r \in Requests, NEW s \in Logins, Arrive(r, s) PROVE Arrived'
  BY <1>9 DEF Arrive, Request, IdleRequest
<1>10. ASSUME NEW r \in Requests, GetSession(r) PROVE Arrived'
  BY <1>10 DEF GetSession, Request, IdleRequest, LiveSession
<1>11. ASSUME NEW r \in Requests, UserByID(r) PROVE Arrived'
  BY <1>11 DEF UserByID, Request, IdleRequest, HasAccount
<1>12. ASSUME NEW r \in Requests, Touch(r) PROVE Arrived'
  <2>1. \A q \in Requests :
           \/ request'[q].pc = "idle"
           \/ /\ request'[q].session = request[q].session /\ request'[q].me = request[q].me
              /\ request'[q].barred = request[q].barred
              /\ request'[q].dead => request[q].dead
              /\ (request'[q].dead /\ request[r].session \in DOMAIN sessions) =>
                    request[q].session # request[r].session
              /\ \/ request'[q].pc = request[q].pc
                 \/ q = r /\ request'[q].pc = "served"
    BY <1>12, TouchedRequests DEF RequestType
  <2>2. users' = users /\ login' = login /\ request[r].pc = "touch"
    BY <1>12 DEF Touch
  <2> QED BY <2>1, <2>2
<1>13. ASSUME NEW r \in Requests, Answer(r) PROVE Arrived'
  BY <1>13 DEF Answer, Request, IdleRequest
<1>14. ASSUME NEW r \in Requests, Logout(r) PROVE Arrived'
  BY <1>14 DEF Logout, Request, IdleRequest
<1>15. ASSUME NEW r \in Requests, NEW n \in Names, NEW password \in Passwords, NEW role \in Roles,
              CreateUser(r, n, password, role)
       PROVE  Arrived'
  BY <1>15 DEF CreateUser, ServedAdmin, Request, IdleRequest
<1>16. ASSUME NEW r \in Requests, NEW n \in Names, NEW body \in PatchBodies, PatchUser(r, n, body)
       PROVE  Arrived'
  BY <1>16 DEF PatchUser, ServedAdmin, Request, IdleRequest, HasAccount
<1>17. ASSUME NEW r \in Requests, PatchWrite(r) PROVE Arrived'
  <2>2. \A q \in Requests :
            /\ request'[q].pc = request[q].pc /\ request'[q].session = request[q].session
            /\ request'[q].me = request[q].me /\ request'[q].dead = request[q].dead
            /\ request'[q].barred => request[q].barred
    BY <1>17, PatchedRequests DEF RequestType
  <2>3. login' = login /\ clock' = clock
    BY <1>17 DEF PatchWrite
  <2> QED BY <2>2, <2>3
<1>18. ASSUME NEW n \in Names, NEW password \in Passwords, NEW role \in Roles, CliAdd(n, password,
              role)
       PROVE  Arrived'
  BY <1>18 DEF CliAdd, Request, IdleRequest
<1>19. ASSUME NEW n \in Names, NEW password \in Passwords, CliPasswd(n, password) PROVE Arrived'
  BY <1>19 DEF CliPasswd, Request, IdleRequest
<1>20. ASSUME NEW n \in Names, NEW disabled \in BOOLEAN, CliSetDisabled(n, disabled) PROVE Arrived'
  <2>1. request' = request \/ request' = Released(n)
    BY <1>20 DEF CliSetDisabled
  <2>2. \A q \in Requests :
            /\ request'[q].pc = request[q].pc /\ request'[q].session = request[q].session
            /\ request'[q].me = request[q].me /\ request'[q].dead = request[q].dead
            /\ request'[q].barred => request[q].barred
    BY <2>1, ReleasedRequests
  <2>3. login' = login /\ clock' = clock /\ sessions' = sessions
    BY <1>20 DEF CliSetDisabled
  <2> QED BY <2>2, <2>3
<1> QED BY <1>1, <1>2, <1>3, <1>4, <1>5, <1>6, <1>7, <1>8, <1>9, <1>10, <1>11, <1>12, <1>13, <1>14,
        <1>15, <1>16, <1>17, <1>18, <1>19, <1>20 DEF NextAccounts, NextLogin, NextRequest, NextCli

\* A dead session stays dead, or no request waits for it as one that is dead.
LEMMA DeadSessionStep ==
    ASSUME ClockType, SessionsType, RequestType, NextAccounts, NEW s \in Logins, login[s].pc = "done",
           ~LiveSession(s)
    PROVE  \/ ~(s \in DOMAIN sessions' /\ sessions'[s].expires > clock')
           \/ \A q \in Requests :
                 request'[q].pc # "idle" /\ request'[q].session = s => ~request'[q].dead
<1>1. SUFFICES ASSUME s \in DOMAIN sessions' PROVE
                   \/ ~(sessions'[s].expires > clock')
                   \/ \A q \in Requests :
                        request'[q].pc # "idle" /\ request'[q].session = s => ~request'[q].dead
  OBVIOUS
<1>2. s \in DOMAIN sessions
  BY <1>1, SessionsStep
<1>3. CASE sessions'[s].expires = sessions[s].expires
  <2>1. sessions[s].expires \in Nat /\ clock \in Nat
    BY <1>2 DEF SessionsType, SessionRow, ClockType
  <2>2. clock' = clock \/ clock' = clock + 1
    BY ZenonT(40) DEF NextAccounts, NextLogin, NextRequest, NextCli, Tick, LoginAllow, LoginLookup,
       LoginInvalid,
       LoginDisabled, LoginReset, LoginCreate, LoginFails, Arrive, GetSession, UserByID, Touch, Answer,
       Logout, CreateUser, PatchUser, PatchWrite, CliAdd, CliPasswd, CliSetDisabled
  <2>3. ~(sessions[s].expires > clock)
    BY <1>2 DEF LiveSession
  <2> QED BY <1>3, <2>1, <2>2, <2>3
<1>4. ASSUME NEW r \in Requests, Touch(r), request[r].session = s
      PROVE  \A q \in Requests :
                request'[q].pc # "idle" /\ request'[q].session = s => ~request'[q].dead
  <2>1. ASSUME NEW q \in Requests, request'[q].pc # "idle", request'[q].session = s, request'[q].dead
        PROVE  FALSE
    <3>1. /\ request'[q].session = request[q].session
          /\ (request'[q].dead /\ request[r].session \in DOMAIN sessions) =>
                request[q].session # request[r].session
      BY <1>4, <2>1, TouchedRequests
    <3> QED BY <1>2, <1>4, <2>1, <3>1
  <2> QED BY <2>1
<1> QED BY <1>1, <1>3, <1>4, SessionsStep

\* ... was not refused though that was dead ...
LEMMA DeadStaysStep ==
    ASSUME ClockType, SessionsType, RequestType, Arrived, DeadStays, NextAccounts
    PROVE  DeadStays'
<1> USE DEF RequestType, Arrived, DeadStays, LiveSession
<1>0. \A s \in Logins : (login[s].pc = "done" /\ ~LiveSession(s)) =>
          \/ ~(s \in DOMAIN sessions' /\ sessions'[s].expires > clock')
          \/ \A q \in Requests :
                request'[q].pc # "idle" /\ request'[q].session = s => ~request'[q].dead
  BY DeadSessionStep
<1>1. CASE Tick
  BY <1>1, <1>0 DEF Tick
<1>2. ASSUME NEW l \in Logins, NEW k \in Keys, NEW n \in Names, NEW guess \in Passwords \cup
             {NoPassword}, LoginAllow(l, k, n, guess)
      PROVE  DeadStays'
  BY <1>2, <1>0 DEF LoginAllow
<1>3. ASSUME NEW l \in Logins, LoginLookup(l) PROVE DeadStays'
  BY <1>3, <1>0 DEF LoginLookup
<1>4. ASSUME NEW l \in Logins, LoginInvalid(l) PROVE DeadStays'
  BY <1>4, <1>0 DEF LoginInvalid
<1>5. ASSUME NEW l \in Logins, LoginDisabled(l) PROVE DeadStays'
  BY <1>5, <1>0 DEF LoginDisabled
<1>6. ASSUME NEW l \in Logins, LoginReset(l) PROVE DeadStays'
  BY <1>6, <1>0 DEF LoginReset
<1>7. ASSUME NEW l \in Logins, LoginCreate(l) PROVE DeadStays'
  BY <1>7, <1>0 DEF LoginCreate
<1>8. ASSUME NEW l \in Logins, LoginFails(l) PROVE DeadStays'
  BY <1>8, <1>0 DEF LoginFails
<1>9. ASSUME NEW r \in Requests, NEW s \in Logins, Arrive(r, s) PROVE DeadStays'
  BY <1>9, <1>0 DEF Arrive, Request, IdleRequest
<1>10. ASSUME NEW r \in Requests, GetSession(r) PROVE DeadStays'
  BY <1>10, <1>0 DEF GetSession, Request, IdleRequest, LiveSession
<1>11. ASSUME NEW r \in Requests, UserByID(r) PROVE DeadStays'
  BY <1>11, <1>0 DEF UserByID, Request, IdleRequest, HasAccount
<1>12. ASSUME NEW r \in Requests, Touch(r) PROVE DeadStays'
  <2>1. \A q \in Requests :
           \/ request'[q].pc = "idle"
           \/ /\ request'[q].session = request[q].session /\ request'[q].me = request[q].me
              /\ request'[q].barred = request[q].barred
              /\ request'[q].dead => request[q].dead
              /\ (request'[q].dead /\ request[r].session \in DOMAIN sessions) =>
                    request[q].session # request[r].session
              /\ \/ request'[q].pc = request[q].pc
                 \/ q = r /\ request'[q].pc = "served"
    BY <1>12, TouchedRequests DEF RequestType
  <2>2. users' = users /\ login' = login /\ request[r].pc = "touch"
    BY <1>12 DEF Touch
  <2> QED BY <1>0, <2>1, <2>2
<1>13. ASSUME NEW r \in Requests, Answer(r) PROVE DeadStays'
  BY <1>13, <1>0 DEF Answer, Request, IdleRequest
<1>14. ASSUME NEW r \in Requests, Logout(r) PROVE DeadStays'
  BY <1>14, <1>0 DEF Logout, Request, IdleRequest
<1>15. ASSUME NEW r \in Requests, NEW n \in Names, NEW password \in Passwords, NEW role \in Roles,
              CreateUser(r, n, password, role)
       PROVE  DeadStays'
  BY <1>15, <1>0 DEF CreateUser, ServedAdmin, Request, IdleRequest
<1>16. ASSUME NEW r \in Requests, NEW n \in Names, NEW body \in PatchBodies, PatchUser(r, n, body)
       PROVE  DeadStays'
  BY <1>16, <1>0 DEF PatchUser, ServedAdmin, Request, IdleRequest, HasAccount
<1>17. ASSUME NEW r \in Requests, PatchWrite(r) PROVE DeadStays'
  <2>2. \A q \in Requests :
            /\ request'[q].pc = request[q].pc /\ request'[q].session = request[q].session
            /\ request'[q].me = request[q].me /\ request'[q].dead = request[q].dead
            /\ request'[q].barred => request[q].barred
    BY <1>17, PatchedRequests DEF RequestType
  <2>3. login' = login /\ clock' = clock
    BY <1>17 DEF PatchWrite
  <2> QED BY <1>0, <2>2, <2>3
<1>18. ASSUME NEW n \in Names, NEW password \in Passwords, NEW role \in Roles, CliAdd(n, password,
              role)
       PROVE  DeadStays'
  BY <1>18, <1>0 DEF CliAdd, Request, IdleRequest
<1>19. ASSUME NEW n \in Names, NEW password \in Passwords, CliPasswd(n, password) PROVE DeadStays'
  BY <1>19, <1>0 DEF CliPasswd, Request, IdleRequest
<1>20. ASSUME NEW n \in Names, NEW disabled \in BOOLEAN, CliSetDisabled(n, disabled) PROVE DeadStays'
  <2>1. request' = request \/ request' = Released(n)
    BY <1>20 DEF CliSetDisabled
  <2>2. \A q \in Requests :
            /\ request'[q].pc = request[q].pc /\ request'[q].session = request[q].session
            /\ request'[q].me = request[q].me /\ request'[q].dead = request[q].dead
            /\ request'[q].barred => request[q].barred
    BY <2>1, ReleasedRequests
  <2>3. login' = login /\ clock' = clock /\ sessions' = sessions
    BY <1>20 DEF CliSetDisabled
  <2> QED BY <2>2, <2>3
<1> QED BY <1>1, <1>2, <1>3, <1>4, <1>5, <1>6, <1>7, <1>8, <1>9, <1>10, <1>11, <1>12, <1>13, <1>14,
        <1>15, <1>16, <1>17, <1>18, <1>19, <1>20 DEF NextAccounts, NextLogin, NextRequest, NextCli

\* Who enables an account releases every request of it.
LEMMA EnablesReleases ==
    ASSUME RequestType, NEW n \in Names, Enables(n), NEW q \in Requests, request'[q].barred
    PROVE  /\ request'[q].pc # "get" => request'[q].me # n
           /\ (request'[q].pc = "get" /\ request'[q].session \in DOMAIN sessions') =>
                 sessions'[request'[q].session].user # n
<1>1. /\ request'[q].pc = request[q].pc /\ request'[q].session = request[q].session
      /\ request'[q].me = request[q].me /\ sessions' = sessions /\ Released(n)[q].barred
  <2>1. ASSUME NEW r \in Requests, PatchWrite(r), request[r].target = n,
               Head(request[r].writes) = "enable"
        PROVE  /\ request'[q].pc = request[q].pc /\ request'[q].session = request[q].session
               /\ request'[q].me = request[q].me /\ sessions' = sessions /\ Released(n)[q].barred
    <3>1. sessions' = sessions
      BY <2>1 DEF PatchWrite
    <3> QED BY <2>1, <3>1, PatchedRequests
  <2>2. ASSUME CliSetDisabled(n, FALSE)
        PROVE  /\ request'[q].pc = request[q].pc /\ request'[q].session = request[q].session
               /\ request'[q].me = request[q].me /\ sessions' = sessions /\ Released(n)[q].barred
    <3>1. sessions' = sessions /\ request' = Released(n)
      BY <2>2 DEF CliSetDisabled
    <3> QED BY <3>1, ReleasedRequests
  <2> QED BY <2>1, <2>2 DEF Enables
<1> QED BY <1>1, ReleasedRequests

\* An account that is disabled stays so, or no request of it waits as one that is
\* barred.
LEMMA BarredAccountStep ==
    ASSUME UsersType, RequestType, Patched, NextAccounts, NEW n \in Names, users[n] # Absent,
           users[n].disabled
    PROVE  \/ users'[n].disabled
           \/ \A q \in Requests : request'[q].barred =>
                 /\ request'[q].pc # "get" => request'[q].me # n
                 /\ (request'[q].pc = "get" /\ request'[q].session \in DOMAIN sessions') =>
                       sessions'[request'[q].session].user # n
<1>1. CASE StaysDisabled(n)
  BY <1>1 DEF StaysDisabled
<1>2. CASE Enables(n)
  BY <1>2, EnablesReleases
<1> QED BY <1>1, <1>2, UsersStep DEF OneEnabled

\* The same by the session, when the request has not read it yet.
LEMMA BarredSessionStep ==
    ASSUME UsersType, SessionsType, RequestType, Patched, OwnedSessions, NextAccounts,
           NEW s \in Logins, login[s].pc = "done", s \in DOMAIN sessions',
           s \in DOMAIN sessions => users[sessions[s].user].disabled
    PROVE  \/ users'[sessions'[s].user].disabled
           \/ \A q \in Requests :
                 request'[q].pc = "get" /\ request'[q].session = s => ~request'[q].barred
<1>1. s \in DOMAIN sessions /\ sessions'[s].user = sessions[s].user
  BY SessionsStep
<1> DEFINE n == sessions[s].user
<1>2. n \in Names /\ users[n] # Absent /\ users[n].disabled
  BY <1>1 DEF OwnedSessions, SessionsType, SessionRow
<1> HIDE DEF n
<1>3. sessions'[s].user = n
  BY <1>1 DEF n
<1> QED BY <1>2, <1>3, BarredAccountStep

\* ... and not though its account was barred.
LEMMA BarredStaysStep ==
    ASSUME UsersType, SessionsType, RequestType, Patched, OwnedSessions, OwnedRequests, Arrived,
           BarredStays, NextAccounts
    PROVE  BarredStays'
<1> USE DEF RequestType, OwnedRequests, Arrived, BarredStays
<1>0. /\ \A n \in Names : (users[n] # Absent /\ users[n].disabled) =>
            \/ users'[n].disabled
            \/ \A q \in Requests : request'[q].barred => (request'[q].pc # "get" => request'[q].me # n)
      /\ \A s \in Logins :
            (/\ login[s].pc = "done" /\ s \in DOMAIN sessions'
             /\ s \in DOMAIN sessions => users[sessions[s].user].disabled) =>
            \/ users'[sessions'[s].user].disabled
            \/ \A q \in Requests :
                  request'[q].pc = "get" /\ request'[q].session = s => ~request'[q].barred
  BY BarredAccountStep, BarredSessionStep
<1>a. \A r \in Requests : request[r].me \in Names
  BY DEF RequestType, Request
<1>1. CASE Tick
  BY <1>1, <1>0, <1>a DEF Tick
<1>2. ASSUME NEW l \in Logins, NEW k \in Keys, NEW n \in Names, NEW guess \in Passwords \cup
             {NoPassword}, LoginAllow(l, k, n, guess)
      PROVE  BarredStays'
  BY <1>2, <1>0, <1>a DEF LoginAllow
<1>3. ASSUME NEW l \in Logins, LoginLookup(l) PROVE BarredStays'
  BY <1>3, <1>0, <1>a DEF LoginLookup
<1>4. ASSUME NEW l \in Logins, LoginInvalid(l) PROVE BarredStays'
  BY <1>4, <1>0, <1>a DEF LoginInvalid
<1>5. ASSUME NEW l \in Logins, LoginDisabled(l) PROVE BarredStays'
  BY <1>5, <1>0, <1>a DEF LoginDisabled
<1>6. ASSUME NEW l \in Logins, LoginReset(l) PROVE BarredStays'
  BY <1>6, <1>0, <1>a DEF LoginReset
<1>7. ASSUME NEW l \in Logins, LoginCreate(l) PROVE BarredStays'
  BY <1>7, <1>0, <1>a DEF LoginCreate
<1>8. ASSUME NEW l \in Logins, LoginFails(l) PROVE BarredStays'
  BY <1>8, <1>0, <1>a DEF LoginFails
<1>9. ASSUME NEW r \in Requests, NEW s \in Logins, Arrive(r, s) PROVE BarredStays'
  BY <1>9, <1>0, <1>a DEF Arrive, Request, IdleRequest
<1>10. ASSUME NEW r \in Requests, GetSession(r) PROVE BarredStays'
  <2> DEFINE s == request[r].session
  <2>1. users' = users /\ sessions' = sessions /\ \A q \in Requests \ {r} : request'[q] = request[q]
    BY <1>10 DEF GetSession
  <2>2. CASE LiveSession(s)
    <3>1. request' = [request EXCEPT ![r] =
              [request[r] EXCEPT !.pc = "user", !.row = sessions[s], !.me = sessions[s].user]]
      BY <1>10, <2>2 DEF GetSession
    <3>2. /\ request'[r].pc = "user" /\ request'[r].me = sessions[s].user
          /\ request'[r].barred = request[r].barred
      BY <3>1 DEF Request
    <3>3. request'[r].barred => users[sessions[s].user].disabled
      BY <1>10, <2>2, <3>2 DEF GetSession, LiveSession
    <3> QED BY <2>1, <3>2, <3>3
  <2>3. CASE ~LiveSession(s)
    <3>1. request'[r].pc = "idle"
      BY <1>10, <2>3 DEF GetSession, IdleRequest
    <3> QED BY <2>1, <3>1
  <2> QED BY <2>2, <2>3
<1>11. ASSUME NEW r \in Requests, UserByID(r) PROVE BarredStays'
  <2> DEFINE me == request[r].me
  <2>1. users' = users /\ sessions' = sessions /\ \A q \in Requests \ {r} : request'[q] = request[q]
    BY <1>11 DEF UserByID
  <2>2. CASE ~HasAccount(me) \/ users[me].disabled
    <3>1. request'[r].pc = "idle"
      BY <1>11, <2>2 DEF UserByID, IdleRequest
    <3> QED BY <2>1, <3>1
  <2>3. CASE ~(~HasAccount(me) \/ users[me].disabled)
    <3>1. request' = [request EXCEPT ![r] =
              [request[r] EXCEPT !.pc = IF clock - request[r].row.lastSeen >= TouchInterval
                                        THEN "touch" ELSE "served",
                                 !.role = users[me].role, !.row = NoSession]]
      BY <1>11, <2>3 DEF UserByID
    <3>2. request'[r].pc \in {"touch", "served"} /\ request'[r].barred = request[r].barred
      BY <3>1 DEF Request
    <3>3. ~request[r].barred
      BY <1>11, <2>3 DEF UserByID
    <3> QED BY <2>1, <3>2, <3>3
  <2> QED BY <2>2, <2>3
<1>12. ASSUME NEW r \in Requests, Touch(r) PROVE BarredStays'
  <2>1. \A q \in Requests :
           \/ request'[q].pc = "idle"
           \/ /\ request'[q].session = request[q].session /\ request'[q].me = request[q].me
              /\ request'[q].barred = request[q].barred
              /\ request'[q].dead => request[q].dead
              /\ (request'[q].dead /\ request[r].session \in DOMAIN sessions) =>
                    request[q].session # request[r].session
              /\ \/ request'[q].pc = request[q].pc
                 \/ q = r /\ request'[q].pc = "served"
    BY <1>12, TouchedRequests DEF RequestType
  <2>2. users' = users /\ login' = login /\ request[r].pc = "touch"
    BY <1>12 DEF Touch
  <2> QED BY <1>0, <1>a, <2>1, <2>2
<1>13. ASSUME NEW r \in Requests, Answer(r) PROVE BarredStays'
  BY <1>13, <1>0, <1>a DEF Answer, Request, IdleRequest
<1>14. ASSUME NEW r \in Requests, Logout(r) PROVE BarredStays'
  BY <1>14, <1>0, <1>a DEF Logout, Request, IdleRequest
<1>15. ASSUME NEW r \in Requests, NEW n \in Names, NEW password \in Passwords, NEW role \in Roles,
              CreateUser(r, n, password, role)
       PROVE  BarredStays'
  BY <1>15, <1>0, <1>a DEF CreateUser, ServedAdmin, Request, IdleRequest
<1>16. ASSUME NEW r \in Requests, NEW n \in Names, NEW body \in PatchBodies, PatchUser(r, n, body)
       PROVE  BarredStays'
  BY <1>16, <1>0, <1>a DEF PatchUser, ServedAdmin, Request, IdleRequest, HasAccount
<1>17. ASSUME NEW r \in Requests, PatchWrite(r) PROVE BarredStays'
  <2>2. \A q \in Requests :
            /\ request'[q].pc = request[q].pc /\ request'[q].session = request[q].session
            /\ request'[q].me = request[q].me /\ request'[q].dead = request[q].dead
            /\ request'[q].barred => request[q].barred
    BY <1>17, PatchedRequests DEF RequestType
  <2>3. login' = login /\ clock' = clock
    BY <1>17 DEF PatchWrite
  <2> QED BY <1>0, <1>a, <2>2, <2>3
<1>18. ASSUME NEW n \in Names, NEW password \in Passwords, NEW role \in Roles, CliAdd(n, password,
              role)
       PROVE  BarredStays'
  BY <1>18, <1>0, <1>a DEF CliAdd, Request, IdleRequest
<1>19. ASSUME NEW n \in Names, NEW password \in Passwords, CliPasswd(n, password) PROVE BarredStays'
  BY <1>19, <1>0, <1>a DEF CliPasswd, Request, IdleRequest
<1>20. ASSUME NEW n \in Names, NEW disabled \in BOOLEAN, CliSetDisabled(n, disabled) PROVE BarredStays'
  <2>1. request' = request \/ request' = Released(n)
    BY <1>20 DEF CliSetDisabled
  <2>2. \A q \in Requests :
            /\ request'[q].pc = request[q].pc /\ request'[q].session = request[q].session
            /\ request'[q].me = request[q].me /\ request'[q].dead = request[q].dead
            /\ request'[q].barred => request[q].barred
    BY <2>1, ReleasedRequests
  <2>3. login' = login /\ clock' = clock /\ sessions' = sessions
    BY <1>20 DEF CliSetDisabled
  <2> QED BY <1>0, <1>a, <2>2, <2>3
<1> QED BY <1>1, <1>2, <1>3, <1>4, <1>5, <1>6, <1>7, <1>8, <1>9, <1>10, <1>11, <1>12, <1>13, <1>14,
        <1>15, <1>16, <1>17, <1>18, <1>19, <1>20 DEF NextAccounts, NextLogin, NextRequest, NextCli

\* All of this holds at the start ...
LEMMA FirstSessions ==
    ASSUME NEW now \in 1..MaxClock, InitAccounts(now)
    PROVE  SessionsInv
<1>1. PICK other \in {Absent, SeededLocal}, p \in Passwords :
          users = [n \in Names |->
                     IF n = Root THEN [password |-> p, role |-> "admin", disabled |-> FALSE] ELSE other]
  BY DEF InitAccounts
<1>2. UsersType
  <2>1. [password |-> p, role |-> "admin", disabled |-> FALSE] \in Row
    BY DEF Row, Roles
  <2>2. SeededLocal \in Row
    BY DEF SeededLocal, Row, Roles
  <2> QED BY <1>1, <2>1, <2>2 DEF UsersType
<1>3. ClockType
  BY AccountsAssumption DEF InitAccounts, ClockType
<1>4. LoginType /\ RequestType
  BY IdleTypes DEF InitAccounts, LoginType, RequestType
<1>5. DOMAIN sessions = {}
  BY DEF InitAccounts
<1>6. SessionsType
  BY <1>5 DEF InitAccounts, SessionsType
<1>7. \A l \in Logins : login[l].pc = "idle"
  BY DEF InitAccounts, IdleLogin
<1>8. \A r \in Requests : request[r].pc = "idle"
  BY DEF InitAccounts, IdleRequest
<1> QED BY <1>2, <1>3, <1>4, <1>5, <1>6, <1>7, <1>8 DEF SessionsInv, AccountsType, Patched, Owned,
        OwnedLogins, OwnedSessions, OwnedRequests, Entitled, Arrived, DeadStays, BarredStays

\* ... and every step keeps it.
LEMMA StepSessions ==
    ASSUME SessionsInv, [NextAccounts]_accountVars
    PROVE  SessionsInv'
<1> USE DEF SessionsInv, AccountsType, Owned, Entitled
<1>1. CASE NextAccounts
  <2>1. AccountsType' /\ Patched'
    BY <1>1, ClockTypeStep, UsersTypeStep, LoginTypeStep, SessionsTypeStep, RequestTypeStep, PatchedStep
  <2>2. Owned'
    BY <1>1, OwnedLoginsStep, OwnedSessionsStep, OwnedRequestsStep
  <2>3. Entitled'
    BY <1>1, ArrivedStep, DeadStaysStep, BarredStaysStep
  <2> QED BY <2>1, <2>2, <2>3
<1>2. CASE UNCHANGED accountVars
  BY <1>2 DEF accountVars, ClockType, UsersType, LoginType, SessionsType, RequestType, Patched,
     OwnedLogins, OwnedSessions, OwnedRequests, Arrived, DeadStays, BarredStays, LiveSession
<1> QED BY <1>1, <1>2

\* The accounts, logins, sessions and requests are always well formed, every session is
\* of an account that is there, and a request that came with a dead session or for a
\* disabled account is still refused (auth.Service, api.authenticate, the users and
\* sessions of the store), however requests, logins, administrators and the command
\* line interleave.
THEOREM SessionsSafe == AccountsSpec => []SessionsInv
<1>1. (\E now \in 1..MaxClock : InitAccounts(now)) => SessionsInv
  BY FirstSessions
<1>2. SessionsInv /\ [NextAccounts]_accountVars => SessionsInv'
  BY StepSessions
<1> QED BY <1>1, <1>2, PTL DEF AccountsSpec

\* A request is served only with a session that was alive, and for an account that was
\* enabled, at some time since it arrived (api.authenticate, auth.Authenticate).
THEOREM ServedIsEntitledHolds == AccountsSpec => []ServedIsEntitled
<1>1. SessionsInv => ServedIsEntitled
  BY DEF SessionsInv, Entitled, DeadStays, BarredStays, ServedIsEntitled
<1> QED BY <1>1, SessionsSafe, PTL

-----------------------------------------------------------------------------
(* Accounts: the login limiter.                                            *)

Strike == [count : Nat, last : Nat, blockedAt : Nat]

LimiterType == limiter \in [DOMAIN limiter -> Entry] /\ strikes \in [Keys -> Strike]

\* A failure that still counts is in the limiter, in an entry that is as young and
\* counts as many; a block is in the limiter until it is over.
KeyLimited(k) ==
    /\ strikes[k].count < MaxFailures
    /\ k \notin DOMAIN limiter =>
          strikes[k].count = 0 \/ clock - strikes[k].last > BlockFor
    /\ k \in DOMAIN limiter =>
          /\ limiter[k].failures < MaxFailures /\ limiter[k].lastFailure <= clock
          /\ \/ strikes[k].count = 0 \/ clock - strikes[k].last > BlockFor
             \/ /\ strikes[k].last <= limiter[k].lastFailure
                /\ strikes[k].count <= limiter[k].failures
          /\ limiter[k].blockedUntil # 0 => strikes[k].count = 0
    /\ strikes[k].blockedAt # 0 =>
          \/ k \in DOMAIN limiter /\ limiter[k].blockedUntil = strikes[k].blockedAt + BlockFor
          \/ clock >= strikes[k].blockedAt + BlockFor

\* A login that was allowed since the last block: its address is not blocked.
LoginLimited(l) ==
    /\ login[l].pc \in {"lookup", "verify"} => login[l].key \in Keys
    /\ login[l].fresh =>
          /\ login[l].key \in Keys
          /\ login[l].key \in DOMAIN limiter => limiter[login[l].key].blockedUntil = 0
          /\ strikes[login[l].key].blockedAt # 0 =>
                login[l].allowedAt >= strikes[login[l].key].blockedAt + BlockFor

GuessesInv ==
    /\ LimiterType
    /\ \A k \in Keys : KeyLimited(k)
    /\ \A l \in Logins : LoginLimited(l)

\* What RateLimiter.Fail leaves: the entry of the address counts one more, and of the
\* others those are gone that are old and not blocked.
LEMMA FailedEntries ==
    ASSUME LimiterType, clock \in Nat, NEW key, NEW entry,
           entry = IF key \in DOMAIN limiter THEN limiter[key] ELSE FreshEntry
    PROVE  LET after == AfterFail(limiter, key, clock) IN
           /\ entry \in Entry /\ after \in [DOMAIN after -> Entry]
           /\ key \in DOMAIN after /\ after[key] = Counted(entry, clock)
           /\ \A k \in DOMAIN after \ {key} : k \in DOMAIN limiter /\ after[k] = limiter[k]
           /\ \A k \in DOMAIN limiter \ DOMAIN after :
                clock - limiter[k].lastFailure > BlockFor /\ clock > limiter[k].blockedUntil
<1> USE LimiterAssumption
<1> DEFINE c == Counted(entry, clock)
           all == [k \in DOMAIN limiter \cup {key} |-> IF k = key THEN c ELSE limiter[k]]
           kept == {k \in DOMAIN all : ~ ( /\ clock - all[k].lastFailure > BlockFor
                                           /\ clock > all[k].blockedUntil )}
           after == AfterFail(limiter, key, clock)
<1>1. entry \in Entry
  BY DEF LimiterType, FreshEntry, Entry
<1>2. c \in Entry /\ c.lastFailure = clock
  BY <1>1 DEF Counted, Entry
<1>3. after = [k \in kept |-> all[k]]
  BY DEF AfterFail, Prune, Restrict
<1> HIDE DEF c, after
<1>4. key \in kept /\ all[key] = c
  BY <1>2
<1>5. \A k \in DOMAIN limiter : limiter[k] \in Entry
  BY DEF LimiterType
<1>6. all \in [DOMAIN limiter \cup {key} -> Entry]
  BY <1>2, <1>5
<1>7. \A k \in DOMAIN limiter : k # key => all[k] = limiter[k]
  OBVIOUS
<1>8. kept \subseteq DOMAIN limiter \cup {key}
  OBVIOUS
<1>9. \A k \in DOMAIN limiter \ kept :
          clock - all[k].lastFailure > BlockFor /\ clock > all[k].blockedUntil
  OBVIOUS
<1> HIDE DEF all, kept
<1>10. DOMAIN after = kept /\ \A k \in kept : after[k] = all[k]
  BY <1>3
<1>11. after \in [DOMAIN after -> Entry]
  BY <1>3, <1>6, <1>8
<1>12. \A k \in DOMAIN limiter \ DOMAIN after :
           clock - limiter[k].lastFailure > BlockFor /\ clock > limiter[k].blockedUntil
  BY <1>4, <1>7, <1>9, <1>10
<1> QED BY <1>1, <1>4, <1>7, <1>8, <1>10, <1>11, <1>12 DEF after, c

\* Steps that leave the limiter alone: the clock may go on, and a login keeps what it
\* was allowed with or gives it up.
LEMMA QuietLimiter ==
    ASSUME LoginType, ClockType, GuessesInv, limiter' = limiter, strikes' = strikes,
           clock' = clock \/ clock' = clock + 1,
           \A m \in Logins :
              /\ login'[m].pc \in {"lookup", "verify"} => login'[m].key \in Keys
              /\ login'[m].fresh => /\ login[m].fresh /\ login'[m].key = login[m].key
                                    /\ login'[m].allowedAt = login[m].allowedAt
    PROVE  GuessesInv'
<1> USE LimiterAssumption DEF GuessesInv
<1>1. LimiterType'
  BY DEF LimiterType
<1>2. ASSUME NEW k \in Keys PROVE KeyLimited(k)'
  <2>1. strikes[k] \in Strike /\ (k \in DOMAIN limiter => limiter[k] \in Entry) /\ clock \in Nat
    BY DEF LimiterType, ClockType
  <2>2. KeyLimited(k)
    OBVIOUS
  <2> QED BY <2>1, <2>2 DEF KeyLimited, Strike, Entry
<1>3. ASSUME NEW l \in Logins PROVE LoginLimited(l)'
  <2>1. LoginLimited(l)
    OBVIOUS
  <2> QED BY <2>1 DEF LoginLimited
<1> QED BY <1>1, <1>2, <1>3

\* RateLimiter.Allow forgets a block that is over.
LEMMA AllowedLimiter ==
    ASSUME LoginType, ClockType, GuessesInv, NEW l \in Logins, NEW key \in Keys, NEW n \in Names,
           NEW guess, LoginAllow(l, key, n, guess)
    PROVE  GuessesInv'
<1> USE LimiterAssumption DEF GuessesInv
<1>0. /\ clock \in Nat /\ clock' = clock /\ strikes' = strikes
      /\ strikes \in [Keys -> Strike] /\ limiter \in [DOMAIN limiter -> Entry]
      /\ ~(key \in DOMAIN limiter /\ clock < limiter[key].blockedUntil)
  BY DEF LoginAllow, ClockType, LimiterType, Blocked
<1>1. /\ limiter' \in [DOMAIN limiter' -> Entry]
      /\ \A k \in DOMAIN limiter' : k \in DOMAIN limiter /\ limiter'[k] = limiter[k]
      /\ \A k \in DOMAIN limiter \ DOMAIN limiter' : k = key /\ limiter[k].blockedUntil # 0
      /\ key \in DOMAIN limiter' => limiter'[key].blockedUntil = 0
  <2>1. limiter' = AfterAllow(limiter, key)
    BY DEF LoginAllow
  <2>2. CASE key \in DOMAIN limiter /\ limiter[key].blockedUntil # 0
    <3>1. limiter' = [k \in DOMAIN limiter \ {key} |-> limiter[k]]
      BY <2>1, <2>2 DEF AfterAllow, Without, Restrict
    <3> QED BY <1>0, <2>2, <3>1
  <2>3. CASE ~(key \in DOMAIN limiter /\ limiter[key].blockedUntil # 0)
    BY <1>0, <2>1, <2>3 DEF AfterAllow
  <2> QED BY <2>2, <2>3
<1>2. LimiterType'
  BY <1>0, <1>1 DEF LimiterType
<1>3. ASSUME NEW k \in Keys PROVE KeyLimited(k)'
  <2>1. strikes[k] \in Strike /\ (k \in DOMAIN limiter => limiter[k] \in Entry)
    BY <1>0
  <2>2. KeyLimited(k)
    OBVIOUS
  <2> QED BY <1>0, <1>1, <2>1, <2>2 DEF KeyLimited, Strike, Entry
<1>4. ASSUME NEW m \in Logins PROVE LoginLimited(m)'
  <2>1. CASE m = l
    <3>1. /\ login'[l].key = key /\ login'[l].allowedAt = clock
      BY DEF LoginAllow, LoginType, IdleLogin
    <3>2. strikes[key] \in Strike /\ KeyLimited(key) /\ (key \in DOMAIN limiter => limiter[key] \in Entry)
      BY <1>0
    <3>3. strikes[key].blockedAt # 0 => clock >= strikes[key].blockedAt + BlockFor
      BY <1>0, <3>2 DEF KeyLimited, Strike, Entry
    <3> QED BY <1>0, <1>1, <2>1, <3>1, <3>3 DEF LoginLimited
  <2>2. CASE m # l
    <3>1. login'[m] = login[m] /\ LoginLimited(m)
      BY <2>2 DEF LoginAllow, LoginType
    <3> QED BY <1>0, <1>1, <3>1 DEF LoginLimited
  <2> QED BY <2>1, <2>2
<1> QED BY <1>2, <1>3, <1>4

\* RateLimiter.Reset forgets the failures of an address, and so does its history.
LEMMA ResetLimiter ==
    ASSUME LoginType, ClockType, GuessesInv, NEW l \in Logins, LoginReset(l)
    PROVE  GuessesInv'
<1> USE LimiterAssumption DEF GuessesInv
<1> DEFINE key == login[l].key
<1>0. /\ clock \in Nat /\ clock' = clock /\ key \in Keys
      /\ strikes \in [Keys -> Strike] /\ limiter \in [DOMAIN limiter -> Entry]
      /\ strikes' = [strikes EXCEPT ![key] = [count |-> 0, last |-> 0, blockedAt |-> 0]]
      /\ limiter' = [k \in DOMAIN limiter \ {key} |-> limiter[k]]
  <2>1. LoginLimited(l)
    OBVIOUS
  <2> QED BY <2>1 DEF LoginReset, ClockType, LimiterType, LoginLimited, AfterReset, Without, Restrict
<1> HIDE DEF key
<1>1. LimiterType'
  BY <1>0 DEF LimiterType, Strike
<1>2. ASSUME NEW k \in Keys PROVE KeyLimited(k)'
  <2>1. strikes[k] \in Strike /\ KeyLimited(k) /\ (k \in DOMAIN limiter => limiter[k] \in Entry)
    BY <1>0
  <2>2. CASE k = key
    BY <1>0, <2>2 DEF KeyLimited
  <2>3. CASE k # key
    <3>1. /\ strikes'[k] = strikes[k] /\ (k \in DOMAIN limiter' <=> k \in DOMAIN limiter)
          /\ k \in DOMAIN limiter => limiter'[k] = limiter[k]
      BY <1>0, <2>3
    <3> QED BY <1>0, <2>1, <3>1 DEF KeyLimited
  <2> QED BY <2>2, <2>3
<1>3. ASSUME NEW m \in Logins PROVE LoginLimited(m)'
  <2>1. CASE m = l
    <3>1. login'[l].pc = "create" /\ ~login'[l].fresh
      BY DEF LoginReset, LoginType, IdleLogin
    <3> QED BY <2>1, <3>1 DEF LoginLimited
  <2>2. CASE m # l
    <3>1. login'[m] = login[m] /\ LoginLimited(m)
      BY <2>2 DEF LoginReset, LoginType
    <3>2. CASE login[m].key = key
      BY <1>0, <3>1, <3>2 DEF LoginLimited
    <3>3. CASE login[m].key # key
      BY <1>0, <3>1, <3>3 DEF LoginLimited
    <3> QED BY <3>2, <3>3
  <2> QED BY <2>1, <2>2
<1> QED BY <1>1, <1>2, <1>3

\* RateLimiter.Fail counts the failure: the history of the address counts no more than
\* its entry, and at the limit the entry becomes a block.
LEMMA CountedStrike ==
    ASSUME clock \in Nat, NEW key \in Keys, strikes[key] \in Strike, NEW entry \in Entry,
           KeyLimited(key), entry = IF key \in DOMAIN limiter THEN limiter[key] ELSE FreshEntry
    PROVE  LET c == Counted(entry, clock)
               s == strikes[key]
               struck == [s EXCEPT !.count = 1 + IF clock - s.last > BlockFor THEN 0 ELSE s.count,
                                   !.last = clock]
           IN  /\ c \in Entry /\ c.failures < MaxFailures /\ c.lastFailure = clock
               /\ c.blockedUntil # clock + BlockFor =>
                     /\ c.blockedUntil = entry.blockedUntil
                     /\ \/ s.count = 0 \/ clock - s.last > BlockFor
                        \/ s.last <= clock /\ s.count <= c.failures
                     /\ struck \in Strike /\ struck.count <= c.failures /\ struck.last = clock
                     /\ struck.blockedAt = s.blockedAt
<1> USE LimiterAssumption
<1> DEFINE c == Counted(entry, clock)
           s == strikes[key]
           count == 1 + IF clock - s.last > BlockFor THEN 0 ELSE s.count
           failures == 1 + IF clock - entry.lastFailure > BlockFor THEN 0 ELSE entry.failures
<1>1. /\ s.count \in Nat /\ s.last \in Nat /\ s.blockedAt \in Nat
      /\ entry.failures \in Nat /\ entry.lastFailure \in Nat /\ entry.blockedUntil \in Nat
  BY DEF Strike, Entry
<1>2. \/ s.count = 0 \/ clock - s.last > BlockFor
      \/ s.last <= entry.lastFailure /\ s.count <= entry.failures /\ entry.lastFailure <= clock
  BY DEF KeyLimited
<1>3. failures \in Nat /\ count \in Nat /\ count <= failures
  BY <1>1, <1>2
<1>4. \/ s.count = 0 \/ clock - s.last > BlockFor
      \/ s.last <= clock /\ s.count <= failures
  BY <1>1, <1>2
<1>5. c = IF failures >= MaxFailures
          THEN [failures |-> 0, lastFailure |-> clock, blockedUntil |-> clock + BlockFor]
          ELSE [failures |-> failures, lastFailure |-> clock, blockedUntil |-> entry.blockedUntil]
  BY DEF Counted
<1> HIDE DEF failures, c
<1>6. /\ c \in Entry /\ c.failures < MaxFailures /\ c.lastFailure = clock
      /\ c.blockedUntil # clock + BlockFor =>
            c.blockedUntil = entry.blockedUntil /\ c.failures = failures
  BY <1>1, <1>3, <1>5 DEF Entry
<1> HIDE DEF count
<1>7. LET struck == [s EXCEPT !.count = count, !.last = clock] IN
      struck \in Strike /\ struck.count = count /\ struck.last = clock /\ struck.blockedAt = s.blockedAt
  BY <1>3 DEF Strike
<1> QED BY <1>3, <1>4, <1>6, <1>7 DEF c, count

\* A failed login keeps the limiter and its history together: its address is counted or
\* blocked, and the entries that Fail prunes count no longer.
LEMMA FailedLimiter ==
    ASSUME LoginType, ClockType, GuessesInv, NEW l \in Logins, LoginInvalid(l)
    PROVE  GuessesInv'
<1> USE LimiterAssumption DEF GuessesInv
<1> DEFINE key == login[l].key
           entry == IF key \in DOMAIN limiter THEN limiter[key] ELSE FreshEntry
           c == Counted(entry, clock)
           s == strikes[key]
           struck == [s EXCEPT !.count = 1 + IF clock - s.last > BlockFor THEN 0 ELSE s.count,
                               !.last = clock]
           blocks == c.blockedUntil = clock + BlockFor
<1>0. /\ clock \in Nat /\ clock' = clock /\ key \in Keys /\ limiter' = AfterFail(limiter, key, clock)
      /\ strikes \in [Keys -> Strike] /\ limiter \in [DOMAIN limiter -> Entry]
      /\ \A m \in Logins : login[m] \in Login
  <2>1. LoginLimited(l)
    OBVIOUS
  <2> QED BY <2>1 DEF LoginInvalid, ClockType, LimiterType, LoginLimited, LoginType
<1>1. /\ entry \in Entry /\ limiter' \in [DOMAIN limiter' -> Entry]
      /\ key \in DOMAIN limiter' /\ limiter'[key] = c
      /\ \A k \in DOMAIN limiter' \ {key} : k \in DOMAIN limiter /\ limiter'[k] = limiter[k]
      /\ \A k \in DOMAIN limiter \ DOMAIN limiter' :
            clock - limiter[k].lastFailure > BlockFor /\ clock > limiter[k].blockedUntil
  <2> HIDE DEF key
  <2> QED BY <1>0, FailedEntries
<1>2. /\ c \in Entry /\ c.failures < MaxFailures /\ c.lastFailure = clock
      /\ ~blocks =>
            /\ c.blockedUntil = entry.blockedUntil
            /\ \/ s.count = 0 \/ clock - s.last > BlockFor
               \/ s.last <= clock /\ s.count <= c.failures
            /\ struck \in Strike /\ struck.count <= c.failures /\ struck.last = clock
            /\ struck.blockedAt = s.blockedAt
  <2>1. KeyLimited(key) /\ strikes[key] \in Strike
    BY <1>0
  <2> HIDE DEF key
  <2> QED BY <1>0, <1>1, <2>1, CountedStrike
<1>3. strikes' = [strikes EXCEPT ![key] =
                    IF blocks THEN [count |-> 0, last |-> clock, blockedAt |-> clock]
                    ELSE IF ~login[l].fresh THEN s ELSE struck]
  BY <1>0, <1>1 DEF LoginInvalid, Struck
<1>4. \A m \in Logins :
          /\ m = l => login'[m] = IdleLogin
          /\ (m # l /\ blocks /\ login[m].key = key) => login'[m] = [login[m] EXCEPT !.fresh = FALSE]
          /\ (m # l /\ ~(blocks /\ login[m].key = key)) => login'[m] = login[m]
  BY <1>0, <1>1 DEF LoginInvalid
<1>5. (key \notin DOMAIN limiter \/ login[l].fresh) => entry.blockedUntil = 0
  <2>1. LoginLimited(l)
    OBVIOUS
  <2> QED BY <2>1 DEF LoginLimited, FreshEntry
<1>6. key \in DOMAIN limiter => entry = limiter[key]
  OBVIOUS
<1> HIDE DEF key, entry, c, blocks, struck
<1>7. [count |-> 0, last |-> clock, blockedAt |-> clock] \in Strike
  BY <1>0 DEF Strike
<1>8. LimiterType'
  BY <1>0, <1>1, <1>2, <1>3, <1>7 DEF LimiterType
<1>9. ASSUME NEW k \in Keys PROVE KeyLimited(k)'
  <2>1. strikes[k] \in Strike /\ KeyLimited(k) /\ (k \in DOMAIN limiter => limiter[k] \in Entry)
    BY <1>0
  <2>2. CASE k # key
    <3>1. strikes'[k] = strikes[k]
      BY <1>0, <1>3, <2>2
    <3> QED BY <1>0, <1>1, <2>1, <2>2, <3>1 DEF KeyLimited, Strike, Entry
  <2>3. CASE k = key /\ blocks
    <3>1. strikes'[k] = [count |-> 0, last |-> clock, blockedAt |-> clock]
      BY <1>0, <1>3, <2>3
    <3> QED BY <1>0, <1>1, <1>2, <2>3, <3>1 DEF KeyLimited, blocks
  <2>4. CASE k = key /\ ~blocks /\ ~login[l].fresh
    <3>1. strikes'[k] = s
      BY <1>0, <1>3, <2>4
    <3> QED BY <1>0, <1>1, <1>2, <1>5, <1>6, <2>1, <2>4, <3>1 DEF KeyLimited, Strike, Entry
  <2>5. CASE k = key /\ ~blocks /\ login[l].fresh
    <3>1. strikes'[k] = struck
      BY <1>0, <1>3, <2>5
    <3> QED BY <1>0, <1>1, <1>2, <1>5, <1>6, <2>1, <2>5, <3>1 DEF KeyLimited, Strike, Entry
  <2> QED BY <2>2, <2>3, <2>4, <2>5
<1>10. ASSUME NEW m \in Logins PROVE LoginLimited(m)'
  <2>1. CASE m = l
    <3>1. login'[m] = IdleLogin
      BY <1>4, <2>1
    <3>2. IdleLogin.pc = "idle" /\ ~IdleLogin.fresh
      BY DEF IdleLogin
    <3>3. login'[m].pc = "idle" /\ ~login'[m].fresh
      BY <3>1, <3>2
    <3> QED BY <3>3 DEF LoginLimited
  <2>2. CASE m # l /\ blocks /\ login[m].key = key
    <3>1. ~login'[m].fresh /\ login'[m].key = key
      BY <1>0, <1>4, <2>2 DEF Login
    <3> QED BY <1>0, <3>1 DEF LoginLimited
  <2>3. CASE m # l /\ ~(blocks /\ login[m].key = key)
    <3>1. login'[m] = login[m] /\ LoginLimited(m)
      BY <1>4, <2>3
    <3>2. CASE login[m].key = key
      <4>1. strikes'[key].blockedAt = strikes[key].blockedAt
        BY <1>0, <1>2, <1>3, <2>3, <3>2
      <4>2. login[m].fresh => c.blockedUntil = 0
        BY <1>2, <1>5, <1>6, <2>3, <3>1, <3>2 DEF LoginLimited
      <4> QED BY <1>1, <3>1, <3>2, <4>1, <4>2 DEF LoginLimited
    <3>3. CASE login[m].key # key
      <4>1. login[m].key \in Keys => strikes'[login[m].key] = strikes[login[m].key]
        BY <1>0, <1>3, <3>3
      <4> QED BY <1>1, <3>1, <3>3, <4>1 DEF LoginLimited
    <3> QED BY <3>2, <3>3
  <2> QED BY <2>1, <2>2, <2>3
<1> QED BY <1>8, <1>9, <1>10

\* Every step keeps the limiter and its history together.
LEMMA StepGuesses ==
    ASSUME SessionsInv, GuessesInv, [NextAccounts]_accountVars
    PROVE  GuessesInv'
<1>0. LoginType /\ ClockType
  BY DEF SessionsInv, AccountsType
<1>a. \A m \in Logins : login[m].pc \in {"lookup", "verify"} => login[m].key \in Keys
  BY DEF GuessesInv, LoginLimited
<1>1. ASSUME limiter' = limiter, strikes' = strikes, login' = login, clock' = clock \/ clock' = clock + 1
      PROVE  GuessesInv'
  BY <1>0, <1>1, <1>a, QuietLimiter
<1>2. ASSUME NEW l \in Logins, LoginLookup(l) \/ LoginDisabled(l) \/ LoginCreate(l) \/ LoginFails(l)
      PROVE  GuessesInv'
  <2>1. limiter' = limiter /\ strikes' = strikes /\ clock' = clock
    BY <1>2 DEF LoginLookup, LoginDisabled, LoginCreate, LoginFails
  <2>2. ASSUME NEW m \in Logins
        PROVE  /\ login'[m].pc \in {"lookup", "verify"} => login'[m].key \in Keys
               /\ login'[m].fresh => /\ login[m].fresh /\ login'[m].key = login[m].key
                                     /\ login'[m].allowedAt = login[m].allowedAt
    <3>1. CASE m # l
      <4>1. login'[m] = login[m]
        BY <1>0, <1>2, <3>1 DEF LoginLookup, LoginDisabled, LoginCreate, LoginFails, LoginType
      <4> QED BY <1>a, <4>1
    <3>2. CASE m = l /\ LoginLookup(l)
      <4>1. login' = [login EXCEPT ![l] = [login[l] EXCEPT !.pc = "verify", !.row = users[login[l].name]]]
        BY <3>2 DEF LoginLookup
      <4>2. login[l] \in Login
        BY <1>0 DEF LoginType
      <4>3. /\ login'[l].key = login[l].key /\ login'[l].fresh = login[l].fresh
            /\ login'[l].allowedAt = login[l].allowedAt
        BY <1>0, <4>1, <4>2 DEF LoginType, Login
      <4>4. login[l].key \in Keys
        BY <1>a, <3>2 DEF LoginLookup
      <4> QED BY <3>2, <4>3, <4>4
    <3>3. CASE m = l /\ ~LoginLookup(l)
      <4>1. login'[l] = IdleLogin \/ login'[l] = DoneLogin
        BY <1>0, <1>2, <3>3 DEF LoginDisabled, LoginCreate, LoginFails, LoginType
      <4> QED BY <3>3, <4>1 DEF IdleLogin, DoneLogin
    <3> QED BY <3>1, <3>2, <3>3
  <2> QED BY <1>0, <2>1, <2>2, QuietLimiter
<1>3. ASSUME NEW l \in Logins, NextLogin(l) PROVE GuessesInv'
  BY <1>0, <1>2, <1>3, AllowedLimiter, FailedLimiter, ResetLimiter DEF NextLogin
<1>4. CASE UNCHANGED accountVars \/ Tick \/ NextCli \/ \E r \in Requests : NextRequest(r)
  <2>1. /\ limiter' = limiter /\ strikes' = strikes /\ login' = login
        /\ clock' = clock \/ clock' = clock + 1
    BY ZenonT(40), <1>4 DEF accountVars, Tick, NextCli, NextRequest, Arrive, GetSession, UserByID,
       Touch, Answer,
       Logout, CreateUser, PatchUser, PatchWrite, CliAdd, CliPasswd, CliSetDisabled
  <2> QED BY <1>1, <2>1
<1> QED BY <1>3, <1>4 DEF NextAccounts

\* However logins from one address interleave, it never has MaxLoginFailures failures
\* without being blocked, and a login under way since the last block was allowed only
\* after LoginBlockFor (RateLimiter.Allow, Fail, Reset and prune).
THEOREM GuessesLimitedHolds == AccountsSpec => []GuessesLimited
<1>1. (\E now \in 1..MaxClock : InitAccounts(now)) => GuessesInv
  <2> SUFFICES ASSUME NEW now \in 1..MaxClock, InitAccounts(now) PROVE GuessesInv
    OBVIOUS
  <2>1. DOMAIN limiter = {} /\ limiter = <<>>
    BY DEF InitAccounts
  <2>2. /\ strikes = [k \in Keys |-> [count |-> 0, last |-> 0, blockedAt |-> 0]]
        /\ \A l \in Logins : login[l] = IdleLogin
    BY DEF InitAccounts
  <2>3. LimiterType
    BY <2>1, <2>2 DEF LimiterType, Strike
  <2>4. ASSUME NEW k \in Keys PROVE KeyLimited(k)
    BY <2>1, <2>2, LimiterAssumption DEF KeyLimited
  <2>5. ASSUME NEW l \in Logins PROVE LoginLimited(l)
    BY <2>2 DEF LoginLimited, IdleLogin
  <2> QED BY <2>3, <2>4, <2>5 DEF GuessesInv
<1>2. SessionsInv /\ GuessesInv /\ [NextAccounts]_accountVars => GuessesInv'
  BY StepGuesses
<1>3. GuessesInv => GuessesLimited
  BY DEF GuessesInv, KeyLimited, LoginLimited, GuessesLimited
<1> QED BY <1>1, <1>2, <1>3, SessionsSafe, PTL DEF AccountsSpec

-----------------------------------------------------------------------------
(* The parameters of a lab.                                                *)

ParamsSpec == InitParams /\ [][NextParams]_paramVars

\* The parameters as they are merged: a name is there once.
Merged(list) ==
    /\ DOMAIN list \subseteq Nat \ {0}
    /\ \A i, j \in DOMAIN list : list[i].name = list[j].name => i = j
    /\ \A i \in DOMAIN list :
          /\ list[i].bits \in Int
          /\ IsTemplate(list[i].from) /\ \A template \in list[i].of : IsTemplate(template)

\* What the templates and the addresses in use are in a given state.
RenderIn(res, t) ==
    IF t.ref = NoName THEN {t.value} ELSE {res[name] : name \in {t.ref} \cap DOMAIN res}
PrefixesIn(res, t) ==
    {Prefix(v.addr - (v.addr % Size(v.bits)), v.bits) :
        v \in {w \in RenderIn(res, t) : w.type = "prefix"}}
UsedIn(dr, s) == IF s \in DOMAIN dr THEN dr[s] ELSE {}

Named(res, t) == t.ref = NoName \/ t.ref \in DOMAIN res

\* The value of a parameter that was drawn in a subnet or out of a network: what it
\* was drawn from is known and stays, and an address is in use.
UsableAddress(res, dr, p, v) ==
    /\ Named(res, p.from) /\ PrefixesIn(res, p.from) # {}
    /\ \A s \in PrefixesIn(res, p.from) :
          /\ v.addr \in Addresses(s) \ {s.addr, s.addr + Size(s.bits) - 1}
          /\ v.addr \in UsedIn(dr, s)
UsableNetwork(res, p, v) ==
    /\ Named(res, p.from)
    /\ \A base \in PrefixesIn(res, p.from) : Addresses(v) \subseteq Addresses(base)
    /\ ~ Overlaps(v, Reserved)
Usable(res, dr, p, v) ==
    /\ IsValue(v)
    /\ p.gen = "ip_in" => UsableAddress(res, dr, p, v)
    /\ p.gen = "cidr" => UsableNetwork(res, p, v)

\* The names resolved are those of parameters that were done.
Done(list, n, res) == \A name \in DOMAIN res : \E j \in DOMAIN list : j < n /\ list[j].name = name

Apart(list, res) ==
    \A i, j \in DOMAIN list :
        ( /\ i # j /\ list[i].name \in DOMAIN res /\ list[j].name \in DOMAIN res
          /\ list[i].gen = "ip_in" /\ list[j].gen = "ip_in"
          /\ PrefixesIn(res, list[i].from) = PrefixesIn(res, list[j].from) ) =>
             res[list[i].name] # res[list[j].name]

ParamsInv ==
    /\ lab \in Labs
    /\ at \in Nat
    /\ Merged(params)
    /\ Done(params, at, resolved)
    /\ \A i \in DOMAIN params : params[i].name \in DOMAIN resolved =>
          Usable(resolved, drawn, params[i], resolved[params[i].name])
    /\ Apart(params, resolved)
    /\ ~ errors => \A i \in DOMAIN params : i < at => params[i].name \in DOMAIN resolved

\* A multiple of the size of a prefix that is within the range has room for the
\* whole prefix: clearing the host bits.
LEMMA MaskedFits ==
    ASSUME NEW a \in Nat, NEW size \in Nat \ {0}, NEW n \in Nat, a < n * size
    PROVE  /\ a - (a % size) \in Nat
           /\ a - (a % size) + size <= n * size
<1> DEFINE q == a \div size
<1>1. q \in Nat /\ a % size \in Nat /\ a = size * q + (a % size)
  OBVIOUS
<1> HIDE DEF q
<1>2. q < n
  <2>1. SUFFICES ASSUME n <= q PROVE FALSE
    BY <1>1
  <2>2. PICK d \in Nat : q = n + d
    BY <1>1, <2>1
  <2>3. size * (n + d) = size * n + size * d /\ size * d \in Nat
    BY <2>2
  <2> QED BY <1>1, <2>2, <2>3
<1>3. PICK d \in Nat : n = q + 1 + d
  BY <1>1, <1>2
<1>4. (q + 1 + d) * size = size * q + size + d * size /\ d * size \in Nat
  BY <1>1, <1>3
<1>5. size * q \in Nat
  BY <1>1
<1>6. a - (a % size) = size * q
  <2> DEFINE r == a % size
  <2>1. r \in Nat /\ a = size * q + r
    BY <1>1
  <2> HIDE DEF r
  <2>2. a - r = size * q
    BY <1>5, <2>1
  <2> QED BY <2>2 DEF r
<1> QED BY <1>1, <1>3, <1>4, <1>5, <1>6

\* The sizes of the prefixes of a length and of the networks in them.
LEMMA SizeLaws ==
    ASSUME NEW bits \in 0 .. Width
    PROVE  /\ Size(bits) \in Nat \ {0}
           /\ 2 ^ bits \in Nat \ {0}
           /\ 2 ^ Width = 2 ^ bits * Size(bits)
           /\ 2 ^ Width \in Nat \ {0}
           /\ \A more \in bits .. Width :
                 /\ 2 ^ (more - bits) \in Nat \ {0}
                 /\ Size(bits) = 2 ^ (more - bits) * Size(more)
<1>1. \A m \in 0 .. Width : 2 ^ m \in Nat \ {0}
  BY ParamsAssumption
<1>2. \A m \in 0 .. Width : \A n \in 0 .. (Width - m) : 2 ^ (m + n) = 2 ^ m * 2 ^ n
  BY ParamsAssumption
<1>3. Width \in Nat /\ Width - bits \in 0 .. Width /\ bits + (Width - bits) = Width
  BY ParamsAssumption
<1>4. 2 ^ (bits + (Width - bits)) = 2 ^ bits * 2 ^ (Width - bits)
  BY <1>2, <1>3
<1>5. ASSUME NEW more \in bits .. Width
      PROVE  /\ 2 ^ (more - bits) \in Nat \ {0}
             /\ Size(bits) = 2 ^ (more - bits) * Size(more)
  <2>1. /\ more - bits \in 0 .. Width /\ Width - more \in 0 .. (Width - (more - bits))
        /\ (more - bits) + (Width - more) = Width - bits
    BY <1>3, <1>5
  <2>2. 2 ^ ((more - bits) + (Width - more)) = 2 ^ (more - bits) * 2 ^ (Width - more)
    BY <1>2, <2>1
  <2> QED BY <1>1, <2>1, <2>2 DEF Size
<1> QED BY <1>1, <1>3, <1>4, <1>5 DEF Size

\* A prefix as it is parsed: its length is one, and it has room below the end.
LEMMA ParsedFits ==
    ASSUME NEW res, NEW t, NEW s \in PrefixesIn(res, t),
           \A v \in RenderIn(res, t) : IsValue(v)
    PROVE  /\ s.bits \in 0 .. Width /\ s.addr \in Nat
           /\ s.addr + Size(s.bits) <= 2 ^ Width
<1>1. PICK v \in RenderIn(res, t) :
          v.type = "prefix" /\ s = Prefix(v.addr - (v.addr % Size(v.bits)), v.bits)
  BY DEF PrefixesIn
<1>2. v.addr \in 0 .. (2 ^ Width - 1) /\ v.bits \in 0 .. Width
  BY <1>1 DEF IsValue
<1> DEFINE size == Size(v.bits)
           n == 2 ^ v.bits
<1>3. size \in Nat \ {0} /\ n \in Nat \ {0} /\ 2 ^ Width = n * size /\ 2 ^ Width \in Nat
  BY <1>2, SizeLaws
<1>4. s.bits = v.bits /\ s.addr = v.addr - (v.addr % size)
  BY <1>1 DEF Prefix
<1> HIDE DEF size, n
<1>5. v.addr \in Nat /\ v.addr < n * size
  BY <1>2, <1>3
<1>6. v.addr - (v.addr % size) \in Nat /\ v.addr - (v.addr % size) + size <= n * size
  BY <1>3, <1>5, MaskedFits
<1>7. s.addr \in Nat /\ s.addr + size <= 2 ^ Width
  BY <1>3, <1>4, <1>6
<1> QED BY <1>2, <1>4, <1>7 DEF size

\* An address below the end stays when it is taken modulo the end.
LEMMA InRangeMod ==
    ASSUME NEW a \in Nat, NEW n \in Nat, a < n
    PROVE  a % n = a
OBVIOUS

\* An address that is drawn in a subnet is one of the subnet's, and neither the
\* first nor the last.
LEMMA AddressIsUsable ==
    ASSUME NEW p, NEW s, NEW a \in AddressesOf(p, s),
           s.bits \in 0 .. Width, s.addr \in Nat, s.addr + Size(s.bits) <= 2 ^ Width
    PROVE  a \in Addresses(s) \ {s.addr, s.addr + Size(s.bits) - 1}
<1>1. Size(s.bits) \in Nat \ {0} /\ 2 ^ Width \in Nat \ {0}
  BY SizeLaws
<1>2. PICK offset \in Offsets(p, s) : a = (s.addr + offset) % 2 ^ Width
  BY DEF AddressesOf
<1>3. offset \in 1 .. (Size(s.bits) - 2)
  BY <1>2 DEF Offsets
<1>4. s.addr + offset \in Nat /\ s.addr + offset < 2 ^ Width
  BY <1>1, <1>3
<1>5. a = s.addr + offset
  BY <1>1, <1>2, <1>4, InRangeMod
<1> QED BY <1>1, <1>3, <1>5 DEF Addresses

\* A network that is cut from a base lies in it, and is a network.
LEMMA NetworkIsInside ==
    ASSUME NEW base, NEW bits \in Int, NEW v \in CIDRs(base, bits),
           base.bits \in 0 .. Width, base.addr \in Nat, base.addr + Size(base.bits) <= 2 ^ Width
    PROVE  IsValue(v) /\ Addresses(v) \subseteq Addresses(base)
<1>1. bits \in base.bits .. Width /\ bits \in 0 .. Width
  BY ParamsAssumption DEF CIDRs
<1> DEFINE n == 2 ^ (bits - base.bits)
           size == Size(bits)
<1>2. PICK k \in 0 .. (n - 1) : v = Prefix((base.addr + k * size) % 2 ^ Width, bits)
  BY DEF CIDRs
<1>3. n \in Nat \ {0} /\ size \in Nat \ {0} /\ Size(base.bits) = n * size /\ 2 ^ Width \in Nat
  BY <1>1, SizeLaws
<1> HIDE DEF n, size
<1>4. PICK d \in Nat : n = k + 1 + d
  BY <1>2, <1>3
<1>5. (k + 1 + d) * size = k * size + size + d * size /\ d * size \in Nat /\ k * size \in Nat
  BY <1>2, <1>3, <1>4
<1>6. base.addr + k * size \in Nat /\ base.addr + k * size + size <= base.addr + Size(base.bits)
  BY <1>3, <1>4, <1>5
<1>7. base.addr + k * size < 2 ^ Width
  BY <1>3, <1>6, SizeLaws
<1>8. v.addr = base.addr + k * size /\ v.bits = bits /\ v.type = "prefix"
  BY <1>2, <1>3, <1>6, <1>7, InRangeMod DEF Prefix
<1>9. IsValue(v)
  BY <1>1, <1>3, <1>6, <1>7, <1>8 DEF IsValue
<1>10. Addresses(v) \subseteq Addresses(base)
  <2> DEFINE x == base.addr + k * size
             all == Size(base.bits)
  <2>1. x \in Nat /\ all \in Nat /\ base.addr <= x /\ x + size <= base.addr + all
    BY <1>3, <1>5, <1>6, SizeLaws
  <2>2. Addresses(v) = x .. (x + size - 1) /\ Addresses(base) = base.addr .. (base.addr + all - 1)
    BY <1>8 DEF Addresses, size
  <2> HIDE DEF x, all
  <2> QED BY <1>3, <2>1, <2>2
<1> QED BY <1>9, <1>10

\* With the parameters of a case a name is still there once.
LEMMA MergedOnce ==
    ASSUME NEW base, NEW overrides, Parsed(base), Parsed(overrides)
    PROVE  Merged(MergeParams(base, overrides))
<1> DEFINE m == MergeParams(base, overrides)
<1>1. Len(base) \in Nat /\ DOMAIN base = 1 .. Len(base) /\ Len(overrides) \in Nat
      /\ DOMAIN overrides = 1 .. Len(overrides)
  BY DEF Parsed
<1> DEFINE n == Len(base)
<1>2. ASSUME NEW i \in DOMAIN m
      PROVE  \/ /\ i \in DOMAIN base /\ m[i] = base[i] /\ IndexOf(overrides, base[i].name) = {}
             \/ /\ i \in DOMAIN base
                /\ \E j \in DOMAIN overrides : m[i] = overrides[j] /\ m[i].name = base[i].name
             \/ /\ i \in Nat /\ i > n /\ i - n \in DOMAIN overrides /\ m[i] = overrides[i - n]
                /\ IndexOf(base, overrides[i - n].name) = {}
  <2> DEFINE added == {j \in DOMAIN overrides : IndexOf(base, overrides[j].name) = {}}
  <2>1. i \in DOMAIN base \cup {n + j : j \in added}
    BY <1>2 DEF MergeParams
  <2>2. m[i] = IF i \notin DOMAIN base THEN overrides[i - n]
               ELSE IF IndexOf(overrides, base[i].name) = {} THEN base[i]
               ELSE overrides[CHOOSE j \in IndexOf(overrides, base[i].name) : TRUE]
    BY <1>2 DEF MergeParams
  <2>3. CASE i \in DOMAIN base /\ IndexOf(overrides, base[i].name) = {}
    BY <2>2, <2>3
  <2>4. CASE i \in DOMAIN base /\ IndexOf(overrides, base[i].name) # {}
    <3> DEFINE j == CHOOSE j \in IndexOf(overrides, base[i].name) : TRUE
    <3>1. j \in IndexOf(overrides, base[i].name)
      BY <2>4
    <3>2. m[i] = overrides[j]
      BY <2>2, <2>4
    <3> HIDE DEF j, m
    <3> QED BY <2>4, <3>1, <3>2 DEF IndexOf
  <2>5. CASE i \notin DOMAIN base
    <3>1. PICK j \in added : i = n + j
      BY <2>1, <2>5
    <3>2. j \in 1 .. Len(overrides)
      BY <1>1
    <3>3. i - n = j /\ i \in Nat /\ i > n
      BY <1>1, <3>1, <3>2
    <3> QED BY <2>2, <2>5, <3>1, <3>3
  <2> QED BY <2>3, <2>4, <2>5
<1> HIDE DEF m
<1>3. DOMAIN m \subseteq Nat \ {0}
  BY <1>1, <1>2
<1>4. ASSUME NEW i \in DOMAIN m, NEW j \in DOMAIN m, m[i].name = m[j].name PROVE i = j
  <2>1. ASSUME NEW a \in DOMAIN m, NEW b \in DOMAIN m, m[a].name = m[b].name,
               a \in DOMAIN base, b \in DOMAIN base
        PROVE  a = b
    <3>1. m[a].name = base[a].name /\ m[b].name = base[b].name
      BY <1>2, <1>1, <2>1
    <3> QED BY <2>1, <3>1 DEF Parsed
  <2>2. ASSUME NEW a \in DOMAIN m, NEW b \in DOMAIN m, m[a].name = m[b].name,
               a \in DOMAIN base, b \notin DOMAIN base
        PROVE  FALSE
    <3>1. m[a].name = base[a].name
      BY <1>2, <1>1, <2>2
    <3>2. IndexOf(base, m[b].name) = {}
      BY <1>2, <1>1, <2>2
    <3> QED BY <2>2, <3>1, <3>2 DEF IndexOf
  <2>3. ASSUME i \notin DOMAIN base, j \notin DOMAIN base PROVE i = j
    <3>1. /\ i - n \in DOMAIN overrides /\ m[i] = overrides[i - n] /\ i \in Nat
          /\ j - n \in DOMAIN overrides /\ m[j] = overrides[j - n] /\ j \in Nat
      BY <1>2, <2>3
    <3>2. i - n = j - n
      BY <1>4, <3>1 DEF Parsed
    <3> QED BY <1>1, <3>1, <3>2
  <2> QED BY <1>4, <2>1, <2>2, <2>3
<1>5. ASSUME NEW i \in DOMAIN m
      PROVE  /\ m[i].bits \in Int
             /\ IsTemplate(m[i].from) /\ \A template \in m[i].of : IsTemplate(template)
  <2>1. \/ i \in DOMAIN base /\ m[i] = base[i]
        \/ \E j \in DOMAIN overrides : m[i] = overrides[j]
    BY <1>2
  <2> QED BY <2>1 DEF Parsed
<1> QED BY <1>3, <1>4, <1>5 DEF Merged, m

\* What a template that is known is stays when more parameters have values.
LEMMA KnownIsKept ==
    ASSUME NEW res, NEW more, NEW t, Named(res, t),
           \A name \in DOMAIN res : name \in DOMAIN more /\ more[name] = res[name]
    PROVE  Named(more, t) /\ PrefixesIn(more, t) = PrefixesIn(res, t)
<1>1. RenderIn(more, t) = RenderIn(res, t)
  BY DEF RenderIn, Named
<1> QED BY <1>1 DEF PrefixesIn, Named

\* The values so far are values, so a template gives one.
LEMMA RenderedIsValue ==
    ASSUME ParamsInv, NEW t, IsTemplate(t)
    PROVE  \A v \in RenderIn(resolved, t) : IsValue(v)
<1>1. \A name \in DOMAIN resolved : IsValue(resolved[name])
  <2> SUFFICES ASSUME NEW name \in DOMAIN resolved PROVE IsValue(resolved[name])
    OBVIOUS
  <2>1. PICK j \in DOMAIN params : params[j].name = name
    BY DEF ParamsInv, Done
  <2>2. Usable(resolved, drawn, params[j], resolved[params[j].name])
    BY <2>1 DEF ParamsInv
  <2> QED BY <2>1, <2>2 DEF Usable
<1> QED BY <1>1 DEF RenderIn, IsTemplate

\* A value that a generator draws is usable where it was drawn.
LEMMA DrawnIsUsable ==
    ASSUME ParamsInv, NEW i \in DOMAIN params, NEW value \in Values(params[i])
    PROVE  Usable(resolved, DrawnAfter(params[i], value), params[i], value)
<1> DEFINE p == params[i]
<1>1. /\ p.bits \in Int /\ IsTemplate(p.from)
      /\ \A template \in p.of : IsTemplate(template)
  BY DEF ParamsInv, Merged
<1>2. value \in Candidates(p) /\ ~ Refused(p, value)
  BY DEF Values
<1>3. /\ \A t : Render(t) = RenderIn(resolved, t)
      /\ \A t : ParsePrefix(t) = PrefixesIn(resolved, t)
  BY DEF Render, RenderIn, ParsePrefix, PrefixesIn
<1>4. \A v \in RenderIn(resolved, p.from) : IsValue(v)
  BY <1>1, RenderedIsValue
<1>5. \A s \in PrefixesIn(resolved, p.from) :
          s.bits \in 0 .. Width /\ s.addr \in Nat /\ s.addr + Size(s.bits) <= 2 ^ Width
  BY <1>4, ParsedFits
<1>6. PrefixesIn(resolved, p.from) # {} => Named(resolved, p.from)
  BY DEF PrefixesIn, RenderIn, Named
<1>7. \A s, b \in PrefixesIn(resolved, p.from) : s = b
  BY DEF PrefixesIn, RenderIn
<1> HIDE DEF p
<1>8. CASE p.gen = "const"
  BY <1>2, <1>3, <1>4, <1>8 DEF Candidates, Usable, p
<1>9. CASE p.gen = "choice"
  <2>1. PICK template \in p.of : value \in RenderIn(resolved, template)
    BY <1>2, <1>3, <1>9 DEF Candidates
  <2>2. IsValue(value)
    BY <1>1, <2>1, RenderedIsValue
  <2> QED BY <1>9, <2>2 DEF Usable, p
<1>10. CASE p.gen = "int"
  BY <1>2, <1>10 DEF Candidates, Usable, IsValue, Text, p
<1>11. CASE p.gen = "cidr"
  <2>1. PICK base \in PrefixesIn(resolved, p.from) : value \in CIDRs(base, p.bits)
    BY <1>2, <1>3, <1>11 DEF Candidates
  <2>2. IsValue(value) /\ Addresses(value) \subseteq Addresses(base)
    BY <1>1, <1>5, <2>1, NetworkIsInside
  <2>3. ~ Overlaps(value, Reserved)
    BY <1>2, <1>11 DEF Refused
  <2>4. UsableNetwork(resolved, p, value)
    BY <1>6, <1>7, <2>1, <2>2, <2>3 DEF UsableNetwork
  <2> QED BY <1>11, <2>2, <2>4 DEF Usable, p
<1>12. CASE p.gen = "ip_in"
  <2>1. PICK s \in PrefixesIn(resolved, p.from) :
            \E a \in AddressesOf(p, s) : value = Address(a)
    BY <1>2, <1>3, <1>12 DEF Candidates
  <2>2. PICK a \in AddressesOf(p, s) : value = Address(a)
    BY <2>1
  <2>3. value.addr = a /\ value.type = "address"
    BY <2>2 DEF Address
  <2>4. value.addr \in Addresses(s) \ {s.addr, s.addr + Size(s.bits) - 1}
    BY <1>5, <2>2, <2>3, AddressIsUsable
  <2>5. value.addr \in UsedIn(DrawnAfter(p, value), s)
    BY <1>3, <1>12, <2>1 DEF UsedIn, DrawnAfter
  <2>6. UsableAddress(resolved, DrawnAfter(p, value), p, value)
    BY <1>6, <1>7, <2>1, <2>4, <2>5 DEF UsableAddress
  <2>7. IsValue(value)
    BY <2>3 DEF IsValue
  <2> QED BY <1>12, <2>6, <2>7 DEF Usable, p
<1> QED BY <1>2, <1>8, <1>9, <1>10, <1>11, <1>12 DEF Candidates

\* A value that is usable stays so when more parameters have values.
LEMMA UsableIsKept ==
    ASSUME NEW res, NEW more, NEW dr, NEW later, NEW p, NEW v,
           \A name \in DOMAIN res : name \in DOMAIN more /\ more[name] = res[name],
           \A s : UsedIn(dr, s) \subseteq UsedIn(later, s),
           Usable(res, dr, p, v)
    PROVE  Usable(more, later, p, v)
<1>1. Named(res, p.from) =>
          Named(more, p.from) /\ PrefixesIn(more, p.from) = PrefixesIn(res, p.from)
  BY KnownIsKept
<1>2. UsableAddress(res, dr, p, v) => UsableAddress(more, later, p, v)
  BY <1>1 DEF UsableAddress
<1>3. UsableNetwork(res, p, v) => UsableNetwork(more, p, v)
  BY <1>1 DEF UsableNetwork
<1> QED BY <1>2, <1>3 DEF Usable

\* A case is picked: nothing has a value yet.
LEMMA PickKeeps ==
    ASSUME ParamsInv, Pick
    PROVE  ParamsInv'
<1>1. Merged(params')
  <2>1. Parsed(lab.params) /\ \A i \in DOMAIN lab.cases : Parsed(lab.cases[i].params)
    BY LabsAssumption DEF ParamsInv
  <2>2. CASE params' = lab.params
    BY <2>1, <2>2 DEF Parsed, Merged
  <2>3. CASE \E i \in DOMAIN lab.cases : params' = MergeParams(lab.params, lab.cases[i].params)
    BY <2>1, <2>3, MergedOnce
  <2> QED BY <2>2, <2>3 DEF Pick, PickCase
<1>2. DOMAIN resolved = {}
  <2>1. at = 0 /\ DOMAIN params \subseteq Nat
    BY DEF ParamsInv, Pick, Merged
  <2>2. \A j \in DOMAIN params : ~ (j < at)
    BY <2>1
  <2>3. \A name \in DOMAIN resolved : FALSE
    BY <2>2 DEF ParamsInv, Done
  <2> QED BY <2>3
<1>3. \A i \in DOMAIN params' : ~ (i < 1)
  BY <1>1 DEF Merged
<1>4. at' = 1 /\ lab' = lab /\ resolved' = resolved /\ drawn' = drawn /\ errors' = errors
  BY DEF Pick
<1>5. Done(params', at', resolved') /\ Apart(params', resolved')
  BY <1>2, <1>4 DEF Done, Apart
<1> QED BY <1>1, <1>2, <1>3, <1>4, <1>5 DEF ParamsInv

\* No case can be picked: the error is kept.
LEMMA PickFailsKeeps ==
    ASSUME ParamsInv, PickFails
    PROVE  ParamsInv'
<1>1. at = 0 /\ at' = 1 /\ errors' = TRUE /\ UNCHANGED <<lab, params, resolved, drawn>>
  BY DEF PickFails
<1>2. DOMAIN params \subseteq Nat \ {0}
  BY DEF ParamsInv, Merged
<1>3. Done(params, at', resolved)
  BY <1>1, <1>2 DEF ParamsInv, Done
<1> QED BY <1>1, <1>3 DEF ParamsInv

\* A parameter whose turn it is has no value, and those before it were done.
LEMMA TurnIsNew ==
    ASSUME ParamsInv, NEW i \in DOMAIN params, Upcoming(i)
    PROVE  /\ i \in Nat /\ params[i].name \notin DOMAIN resolved
           /\ \A j \in DOMAIN params : j < i + 1 => j < at \/ j = i
           /\ \A j \in DOMAIN params : j < at => j < i + 1
<1>1. i \in Nat /\ at \in Nat /\ at <= i /\ DOMAIN params \subseteq Nat
  BY DEF ParamsInv, Merged, Upcoming
<1>2. \A j \in DOMAIN params : j < i + 1 => j < at \/ j = i
  BY <1>1 DEF Upcoming
<1>3. ASSUME params[i].name \in DOMAIN resolved PROVE FALSE
  <2>1. PICK j \in DOMAIN params : j < at /\ params[j].name = params[i].name
    BY <1>3 DEF ParamsInv, Done
  <2>2. j = i
    BY <2>1 DEF ParamsInv, Merged
  <2> QED BY <1>1, <2>1, <2>2
<1> QED BY <1>1, <1>2, <1>3

\* A parameter has a value: it differs from the addresses drawn in its subnet.
LEMMA ResolveKeeps ==
    ASSUME ParamsInv, ResolveParam
    PROVE  ParamsInv'
<1>0. PICK i \in DOMAIN params :
          /\ Upcoming(i)
          /\ \E value \in Values(params[i]) :
                /\ resolved' = [n \in DOMAIN resolved \cup {params[i].name} |->
                                   IF n = params[i].name THEN value ELSE resolved[n]]
                /\ drawn' = DrawnAfter(params[i], value)
          /\ at' = i + 1
          /\ UNCHANGED <<lab, params, errors>>
  BY DEF ResolveParam
<1>1. PICK value \in Values(params[i]) :
          /\ Upcoming(i)
          /\ resolved' = [n \in DOMAIN resolved \cup {params[i].name} |->
                             IF n = params[i].name THEN value ELSE resolved[n]]
          /\ drawn' = DrawnAfter(params[i], value)
          /\ at' = i + 1
          /\ UNCHANGED <<lab, params, errors>>
  BY <1>0
<1> DEFINE p == params[i]
           res == resolved'
<1>2. /\ i \in Nat /\ p.name \notin DOMAIN resolved
      /\ \A j \in DOMAIN params : j < i + 1 => j < at \/ j = i
      /\ \A j \in DOMAIN params : j < at => j < i + 1
  BY <1>1, TurnIsNew
<1>3. \A name \in DOMAIN resolved : name \in DOMAIN res /\ res[name] = resolved[name]
  BY <1>1, <1>2
<1>4. p.name \in DOMAIN res /\ res[p.name] = value
  BY <1>1
<1>5. DOMAIN res = DOMAIN resolved \cup {p.name}
  BY <1>1
<1>6. \A s : UsedIn(drawn, s) \subseteq UsedIn(drawn', s)
  BY <1>1 DEF UsedIn, DrawnAfter, TakenIn
<1>7. Merged(params) /\ \A a, b \in DOMAIN params : params[a].name = params[b].name => a = b
  BY DEF ParamsInv, Merged
<1> HIDE DEF res
<1>8. Usable(res, drawn', p, value)
  <2>1. Usable(resolved, drawn', p, value)
    BY <1>1, DrawnIsUsable
  <2> QED BY <1>3, <2>1, UsableIsKept
<1>9. \A j \in DOMAIN params : params[j].name \in DOMAIN res =>
          Usable(res, drawn', params[j], res[params[j].name])
  <2> SUFFICES ASSUME NEW j \in DOMAIN params, params[j].name \in DOMAIN res
               PROVE  Usable(res, drawn', params[j], res[params[j].name])
    OBVIOUS
  <2>1. CASE params[j].name = p.name
    BY <1>4, <1>7, <1>8, <2>1
  <2>2. CASE params[j].name \in DOMAIN resolved
    <3>1. Usable(resolved, drawn, params[j], resolved[params[j].name])
      BY <2>2 DEF ParamsInv
    <3>2. Usable(res, drawn', params[j], resolved[params[j].name])
      BY <1>3, <1>6, <3>1, UsableIsKept
    <3> QED BY <1>3, <2>2, <3>2
  <2> QED BY <1>5, <2>1, <2>2
<1>10. Done(params, at', res)
  BY <1>1, <1>2, <1>5 DEF Done, ParamsInv
<1>11. ASSUME NEW j \in DOMAIN params, j # i, params[j].name \in DOMAIN res,
              p.gen = "ip_in", params[j].gen = "ip_in",
              PrefixesIn(res, p.from) = PrefixesIn(res, params[j].from)
       PROVE  value # res[params[j].name]
  <2> DEFINE other == res[params[j].name]
  <2>1. params[j].name \in DOMAIN resolved /\ other = resolved[params[j].name]
    BY <1>3, <1>5, <1>7, <1>11
  <2>2. UsableAddress(resolved, drawn, params[j], other)
    BY <1>11, <2>1 DEF ParamsInv, Usable
  <2>3. PrefixesIn(res, params[j].from) = PrefixesIn(resolved, params[j].from)
    BY <1>3, <2>2, KnownIsKept DEF UsableAddress
  <2>4. UsableAddress(resolved, drawn', p, value)
    BY <1>1, <1>11, DrawnIsUsable DEF Usable
  <2>5. PrefixesIn(res, p.from) = PrefixesIn(resolved, p.from)
    BY <1>3, <2>4, KnownIsKept DEF UsableAddress
  <2>6. PICK s \in PrefixesIn(resolved, p.from) : other.addr \in UsedIn(drawn, s)
    BY <1>11, <2>2, <2>3, <2>5 DEF UsableAddress
  <2>7. s \in ParsePrefix(p.from)
    BY <2>6 DEF ParsePrefix, Render, PrefixesIn, RenderIn
  <2>8. value.addr \notin UsedIn(drawn, s)
    BY <1>1, <1>11, <2>7 DEF Values, Refused, TakenIn, UsedIn
  <2> QED BY <2>6, <2>8
<1>12. Apart(params, res)
  <2> SUFFICES ASSUME NEW a \in DOMAIN params, NEW b \in DOMAIN params, a # b,
                      params[a].name \in DOMAIN res, params[b].name \in DOMAIN res,
                      params[a].gen = "ip_in", params[b].gen = "ip_in",
                      PrefixesIn(res, params[a].from) = PrefixesIn(res, params[b].from)
               PROVE  res[params[a].name] # res[params[b].name]
    BY DEF Apart
  <2>1. CASE a = i
    BY <1>4, <1>11, <2>1
  <2>2. CASE b = i
    BY <1>4, <1>11, <2>2
  <2>3. CASE a # i /\ b # i
    <3>1. /\ params[a].name \in DOMAIN resolved /\ res[params[a].name] = resolved[params[a].name]
          /\ params[b].name \in DOMAIN resolved /\ res[params[b].name] = resolved[params[b].name]
      BY <1>3, <1>5, <1>7, <2>3
    <3>2. /\ Usable(resolved, drawn, params[a], resolved[params[a].name])
          /\ Usable(resolved, drawn, params[b], resolved[params[b].name])
      BY <3>1 DEF ParamsInv
    <3>3. Named(resolved, params[a].from) /\ Named(resolved, params[b].from)
      BY <3>2 DEF Usable, UsableAddress
    <3>4. PrefixesIn(resolved, params[a].from) = PrefixesIn(resolved, params[b].from)
      BY <1>3, <3>3, KnownIsKept
    <3> QED BY <3>1, <3>4 DEF ParamsInv, Apart
  <2> QED BY <2>1, <2>2, <2>3
<1>13. ~ errors => \A j \in DOMAIN params : j < at' => params[j].name \in DOMAIN res
  BY <1>1, <1>2, <1>5 DEF ParamsInv
<1>14. lab' \in Labs /\ at' \in Nat
  BY <1>1, <1>2 DEF ParamsInv
<1> QED BY <1>1, <1>7, <1>9, <1>10, <1>12, <1>13, <1>14 DEF ParamsInv, res

\* A parameter that fails is left out, and the error is kept.
LEMMA FailKeeps ==
    ASSUME ParamsInv, ResolveParamFails
    PROVE  ParamsInv'
<1>1. PICK i \in DOMAIN params :
          Upcoming(i) /\ at' = i + 1 /\ errors' = TRUE /\ UNCHANGED <<lab, params, resolved, drawn>>
  BY DEF ResolveParamFails
<1>2. i \in Nat /\ \A j \in DOMAIN params : j < at => j < i + 1
  BY <1>1, TurnIsNew
<1>3. Done(params, at', resolved)
  BY <1>1, <1>2 DEF ParamsInv, Done
<1> QED BY <1>1, <1>2, <1>3 DEF ParamsInv

\* The invariant is inductive.
LEMMA ParamsStep ==
    ASSUME ParamsInv, [NextParams]_paramVars
    PROVE  ParamsInv'
<1>1. CASE UNCHANGED paramVars
  BY <1>1 DEF ParamsInv, paramVars
<1> QED BY <1>1, PickFailsKeeps, PickKeeps, ResolveKeeps, FailKeeps DEF NextParams

\* It holds before the case is picked.
LEMMA ParamsInit ==
    ASSUME InitParams
    PROVE  ParamsInv
<1>1. DOMAIN params = {} /\ DOMAIN resolved = {}
  BY DEF InitParams
<1> QED BY <1>1 DEF InitParams, ParamsInv, Merged, Done, Apart

\* The invariant says what the property says.
LEMMA ParamsUsable ==
    ASSUME ParamsInv
    PROVE  ResolvedIsUsable
<1>1. \A t : ParsePrefix(t) = PrefixesIn(resolved, t)
  BY DEF Render, RenderIn, ParsePrefix, PrefixesIn
<1>2. ASSUME NEW i \in DOMAIN params, Drawn(i)
      PROVE  Usable(resolved, drawn, params[i], resolved[params[i].name])
  BY <1>2 DEF ParamsInv, Drawn
<1>3. \A i \in DOMAIN params : Drawn(i) =>
         /\ params[i].gen = "ip_in" => \A s \in ParsePrefix(params[i].from) :
               resolved[params[i].name].addr \in Addresses(s) \ {s.addr, s.addr + Size(s.bits) - 1}
         /\ params[i].gen = "cidr" =>
               /\ \A base \in ParsePrefix(params[i].from) :
                     Addresses(resolved[params[i].name]) \subseteq Addresses(base)
               /\ ~ Overlaps(resolved[params[i].name], Reserved)
  BY <1>1, <1>2 DEF Usable, UsableAddress, UsableNetwork
<1>4. \A i, j \in DOMAIN params :
         ( /\ i # j /\ Drawn(i) /\ Drawn(j)
           /\ params[i].gen = "ip_in" /\ params[j].gen = "ip_in"
           /\ ParsePrefix(params[i].from) = ParsePrefix(params[j].from) ) =>
              resolved[params[i].name] # resolved[params[j].name]
  BY <1>1 DEF ParamsInv, Apart, Drawn
<1>5. ((\A i \in DOMAIN params : i < at) /\ ~ errors) =>
         \A c \in DOMAIN params : params[c].name \in DOMAIN resolved
  BY DEF ParamsInv
<1> QED BY <1>3, <1>4, <1>5 DEF ResolvedIsUsable

\* Whatever the seed, for every list of parameters and every case: two addresses
\* drawn in one subnet differ, an address is a usable one of its subnet, a network
\* lies in its base and outside of the reserved block, and a lab that resolves
\* without an error has all its parameters (resolveIPIn, resolveCIDR, mergeParams).
THEOREM ResolvedIsUsableHolds == ParamsSpec => []ResolvedIsUsable
<1>1. InitParams => ParamsInv
  BY ParamsInit
<1>2. ParamsInv /\ [NextParams]_paramVars => ParamsInv'
  BY ParamsStep
<1>3. ParamsInv => ResolvedIsUsable
  BY ParamsUsable
<1> QED BY <1>1, <1>2, <1>3, PTL DEF ParamsSpec
=============================================================================
