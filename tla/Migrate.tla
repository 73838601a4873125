------------------------------ MODULE Migrate ------------------------------
(***************************************************************************)
(* The migration command, cmd/dbmigrate/main.go: it applies the SQL files  *)
(* of one driver in order, each of them once, and records the ones it has  *)
(* applied.                                                                *)
(*                                                                         *)
(* A file runs in a transaction.  PostgreSQL keeps what it creates to      *)
(* itself until the commit, and an error ends the transaction; MySQL       *)
(* commits every schema statement by itself.  The statements of the files  *)
(* tolerate an object that is there: IF NOT EXISTS, or an error that       *)
(* isIgnorableMigrationError lets pass.  Two commands may run at once, and *)
(* a command may stop between two statements and be run again.             *)
(***************************************************************************)
EXTENDS Naturals, Sequences, FiniteSets

CONSTANTS
  Migrators,  \* runs of the command
  Script,     \* the files, each a sequence of the objects it creates
  Ledger,     \* the table schema_migrations
  MaxStops    \* bound: processes stopped from outside

ASSUME MigrateAssumption ==
  /\ Script \in Seq(Seq(STRING)) /\ MaxStops \in Nat /\ IsFiniteSet(Migrators)

VARIABLES
  driver,    \* normalizeDriver(DB_DRIVER)
  objects,   \* tables and indexes every connection sees
  recorded,  \* the rows of schema_migrations
  mig,       \* per command: where it is and what only it sees
  beside,    \* history: processes that did not start up alone
  stops      \* bound counter

migrateVars == <<driver, objects, recorded, mig>>

Files == 1..Len(Script)
MadeBy(f) == {Script[f][i] : i \in 1..Len(Script[f])}
Objects == {Ledger} \cup UNION {MadeBy(f) : f \in Files}

MigratorStates == {"idle", "ensure", "check", "exec", "wait", "done", "failed"}
Idle == [pc |-> "idle", file |-> 1, stmt |-> 1, own |-> {}]

\* Starting up: neither stopped nor finished.
Migrating(m) == mig[m].pc \in {"ensure", "check", "exec", "wait"}

MigrateInit ==
  /\ driver \in {"postgres", "mysql"}
  /\ objects = {}
  /\ recorded = {}
  /\ mig = [m \in Migrators |-> Idle]

\* An object another transaction has created and not committed.
HeldByOther(m, o) == \E n \in Migrators \ {m} : o \in mig[n].own

\* migrationsDir, openDB: the command starts, or starts again.
StartMigrator(m) ==
  /\ mig[m].pc \in {"idle", "failed"}
  /\ mig' = [mig EXCEPT ![m] = [Idle EXCEPT !.pc = "ensure"]]
  /\ UNCHANGED <<driver, objects, recorded>>

\* ensureSchemaMigrations: CREATE TABLE IF NOT EXISTS.
EnsureSchemaMigrations(m) ==
  /\ mig[m].pc = "ensure"
  /\ objects' = objects \cup {Ledger}
  /\ mig' = [mig EXCEPT ![m].pc = "check"]
  /\ UNCHANGED <<driver, recorded>>

\* Both find the table missing and PostgreSQL refuses the second CREATE.
EnsureCollides(m) ==
  /\ driver = "postgres" /\ Ledger \notin objects
  /\ mig[m].pc = "ensure"
  /\ \E n \in Migrators \ {m} :
       /\ mig[n].pc = "ensure"
       /\ mig' = [mig EXCEPT ![m].pc = "failed", ![n].pc = "check"]
  /\ objects' = objects \cup {Ledger}
  /\ UNCHANGED <<driver, recorded>>

\* migrationApplied, and the end of the loop over the files.
CheckApplied(m) ==
  LET f == mig[m].file IN
  /\ mig[m].pc = "check"
  /\ mig' = [mig EXCEPT ![m] =
       IF f \notin Files THEN [@ EXCEPT !.pc = "done"]
       ELSE IF f \in recorded THEN [@ EXCEPT !.file = f + 1]
       ELSE [@ EXCEPT !.pc = "exec", !.stmt = 1]]
  /\ UNCHANGED <<driver, objects, recorded>>

\* The object the next statement of m creates.
Target(m) == Script[mig[m].file][mig[m].stmt]
Statement(m) == mig[m].stmt <= Len(Script[mig[m].file])

\* An error that is not ignored rolls the file back and ends the command.
FailMigration(m) ==
  /\ mig' = [mig EXCEPT ![m] = [Idle EXCEPT !.pc = "failed"]]
  /\ UNCHANGED <<driver, objects, recorded>>

\* Mistake: an object that exists is not skipped.
SkipNothing(m) ==
  /\ mig[m].pc = "exec" /\ Statement(m)
  /\ Target(m) \in objects \cup mig[m].own
  /\ FailMigration(m)

\* The object is there: no error, or one that is skipped.
SkipExisting(m) ==
  /\ mig[m].pc = "exec" /\ Statement(m)
  /\ Target(m) \in objects \cup mig[m].own
  /\ mig' = [mig EXCEPT ![m].stmt = @ + 1]
  /\ UNCHANGED <<driver, objects, recorded>>

Create(m) ==
  /\ mig' = [mig EXCEPT ![m] =
       [@ EXCEPT !.pc = "exec", !.stmt = mig[m].stmt + 1,
                 !.own = IF driver = "postgres" THEN mig[m].own \cup {Target(m)} ELSE {}]]
  /\ objects' = IF driver = "postgres" THEN objects ELSE objects \cup {Target(m)}
  /\ UNCHANGED <<driver, recorded>>

Exec(m) ==
  /\ mig[m].pc = "exec" /\ Statement(m)
  /\ Target(m) \notin objects \cup mig[m].own
  /\ IF HeldByOther(m, Target(m))
     THEN mig' = [mig EXCEPT ![m].pc = "wait"] /\ UNCHANGED <<driver, objects, recorded>>
     ELSE Create(m)

\* The other transaction has ended.  If it has committed the object, the
\* error "already exists" is skipped, but PostgreSQL has given up the
\* transaction and refuses the next statement.
Resume(m) ==
  /\ mig[m].pc = "wait" /\ ~HeldByOther(m, Target(m))
  /\ IF Target(m) \in objects THEN FailMigration(m) ELSE Create(m)

\* Mistake: the row is written although a statement is still missing.
RecordEarly(m) ==
  /\ mig[m].pc = "exec"
  /\ IF mig[m].file \in recorded
     THEN FailMigration(m)
     ELSE /\ recorded' = recorded \cup {mig[m].file}
          /\ objects' = objects \cup mig[m].own
          /\ mig' = [mig EXCEPT ![m] = [Idle EXCEPT !.pc = "check", !.file = mig[m].file + 1]]
          /\ UNCHANGED driver

\* INSERT INTO schema_migrations and COMMIT; its primary key refuses a
\* second row.
Record(m) ==
  /\ mig[m].pc = "exec" /\ ~Statement(m)
  /\ IF mig[m].file \in recorded
     THEN FailMigration(m)
     ELSE /\ recorded' = recorded \cup {mig[m].file}
          /\ objects' = objects \cup mig[m].own
          /\ mig' = [mig EXCEPT ![m] = [Idle EXCEPT !.pc = "check", !.file = mig[m].file + 1]]
          /\ UNCHANGED driver

\* The command is stopped, or its connection breaks: what was not committed
\* is rolled back.
StopMigrator(m) ==
  /\ Migrating(m)
  /\ mig' = [mig EXCEPT ![m] = Idle]
  /\ UNCHANGED <<driver, objects, recorded>>

MigrateStep(m) ==
  \/ EnsureSchemaMigrations(m) \/ EnsureCollides(m) \/ CheckApplied(m)
  \/ SkipExisting(m) \/ Exec(m) \/ Resume(m) \/ Record(m)

(***************************************************************************)
(* Properties                                                              *)
(***************************************************************************)

\* A file that is recorded is never run again, so all it creates is there,
\* wherever earlier runs stopped and whoever ran beside them: runMigrations.
RecordedIsComplete == \A f \in recorded : MadeBy(f) \subseteq objects

=============================================================================
