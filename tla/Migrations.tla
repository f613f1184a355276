----------------------------- MODULE Migrations -----------------------------
(***************************************************************************)
(* store.Open and the migrations of internal/store: the server, "nsl user" *)
(* and "nsl prune" are processes of their own that open the same database, *)
(* and each brings it up to date.                                          *)
(*                                                                         *)
(* SQLite is external: a transaction writes nothing before it commits, one *)
(* process at a time is in a writing transaction, another waits for it or  *)
(* gives up after busy_timeout, and a process that dies is rolled back.  A *)
(* migration that was made once fails when it is made again (CREATE TABLE, *)
(* ALTER TABLE ... ADD COLUMN), as does a second row of one version.       *)
(***************************************************************************)
EXTENDS Naturals

CONSTANTS
    Openers,         \* processes that open the store
    LastVersion,     \* the migrations are 1 .. LastVersion
    Statements,      \* statements of a migration
    MaxCrashes       \* bound on the processes that die

ASSUME MigrationsAssumption == LastVersion \in Nat /\ Statements \in Nat \ {0}

NoOpener == "no-opener"
Versions == 1 .. LastVersion

VARIABLES
    recorded,   \* rows of schema_migrations
    made,       \* for each migration how many of its statements are in the database
    writer,     \* the process in a transaction that writes, or NoOpener
    staged,     \* the statements of that transaction
    opener,     \* where each process is and the versions it found applied
    crashes

migrationVars == <<recorded, made, writer, staged, opener, crashes>>

ClosedStore == [pc |-> "closed", applied |-> {}, version |-> 1]

\* A new database, or one of an earlier release.
InitMigrations ==
    /\ \E v \in 0 .. LastVersion :
         /\ recorded = 1 .. v
         /\ made = [m \in Versions |-> IF m <= v THEN Statements ELSE 0]
    /\ writer = NoOpener
    /\ staged = 0
    /\ opener = [p \in Openers |-> ClosedStore]
    /\ crashes = 0

\* appliedVersions, after CREATE TABLE IF NOT EXISTS.
AppliedVersions(p) ==
    /\ opener[p].pc = "closed"
    /\ opener' = [opener EXCEPT ![p] = [pc |-> "migrate", applied |-> recorded, version |-> 1]]
    /\ UNCHANGED <<recorded, made, writer, staged, crashes>>

\* The loop skips what was applied when it looked, and ends after the last.
NextMigration(p) ==
    /\ opener[p].pc = "migrate"
    /\ opener[p].version \notin Versions \ opener[p].applied
    /\ opener' = [opener EXCEPT ![p] =
          IF @.version > LastVersion THEN [@ EXCEPT !.pc = "open"]
          ELSE [@ EXCEPT !.version = opener[p].version + 1]]
    /\ UNCHANGED <<recorded, made, writer, staged, crashes>>

\* The transaction begins with the first statement, which writes.
BeginTx(p) ==
    /\ opener[p].pc = "migrate"
    /\ opener[p].version \in Versions \ opener[p].applied
    /\ writer = NoOpener
    /\ writer' = p
    /\ opener' = [opener EXCEPT ![p].pc = "exec"]
    /\ UNCHANGED <<recorded, made, staged, crashes>>

\* Mutant: the statements are run outside of the transaction.
ExecAutocommit(p) ==
    LET m == opener[p].version IN
    /\ opener[p].pc = "exec"
    /\ made[m] = staged
    /\ staged' = staged + 1
    /\ made' = [made EXCEPT ![m] = @ + 1]
    /\ opener' = [opener EXCEPT ![p].pc = IF staged' = Statements THEN "record" ELSE "exec"]
    /\ UNCHANGED <<recorded, writer, crashes>>

\* One statement of the migration.  It needs that nobody made it before.
Exec(p) ==
    LET m == opener[p].version IN
    /\ opener[p].pc = "exec"
    /\ made[m] = 0
    /\ staged' = staged + 1
    /\ opener' = [opener EXCEPT ![p].pc = IF staged' = Statements THEN "record" ELSE "exec"]
    /\ UNCHANGED <<recorded, made, writer, crashes>>

\* The row of the version, and the commit.
RecordVersion(p) ==
    LET m == opener[p].version IN
    /\ opener[p].pc = "record"
    /\ m \notin recorded
    /\ recorded' = recorded \cup {m}
    /\ made' = [made EXCEPT ![m] = Statements]
    /\ writer' = NoOpener
    /\ staged' = 0
    /\ opener' = [opener EXCEPT ![p].pc = "migrate", ![p].version = m + 1]
    /\ UNCHANGED crashes

Rollback(p) ==
    /\ writer' = IF writer = p THEN NoOpener ELSE writer
    /\ staged' = IF writer = p THEN 0 ELSE staged
    /\ UNCHANGED <<recorded, made>>

\* A statement fails, at the latest the first one of a migration that is made
\* already, or the lock is not free in time.  Open closes the database.
OpenFails(p) ==
    /\ opener[p].pc \in {"closed", "migrate", "exec", "record"}
    /\ Rollback(p)
    /\ opener' = [opener EXCEPT ![p].pc = "failed"]
    /\ UNCHANGED crashes

\* The process dies at any point and is started again, or a later one is.
Restart(p) ==
    /\ opener[p].pc # "closed"
    /\ crashes < MaxCrashes
    /\ crashes' = crashes + 1
    /\ Rollback(p)
    /\ opener' = [opener EXCEPT ![p] = ClosedStore]

NextMigrations ==
    \E p \in Openers :
        \/ AppliedVersions(p) \/ NextMigration(p) \/ BeginTx(p) \/ Exec(p)
        \/ RecordVersion(p) \/ OpenFails(p) \/ Restart(p)

-----------------------------------------------------------------------------
\* Whichever processes open the database at the same time and wherever they die: it
\* has every statement of the migrations that are recorded and none of the others,
\* they were made in the order of their versions, and who has opened the store finds
\* all of them.  So the next process can always go on (migrate, applyMigration).
SchemaIsVersioned ==
    /\ \A m \in Versions : made[m] = IF m \in recorded THEN Statements ELSE 0
    /\ \E v \in 0 .. LastVersion : recorded = 1 .. v
    /\ \A p \in Openers : opener[p].pc = "open" => recorded = Versions

=============================================================================
