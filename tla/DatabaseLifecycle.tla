-------------------------- MODULE DatabaseLifecycle --------------------------
(***************************************************************************)
(* Opening the SQLite file: every API process configures its connection,   *)
(* takes the writer lock, checks the stored schema against the migrations  *)
(* its build carries and applies those that are missing, in one            *)
(* transaction.  Processes of different builds start, crash, stop and      *)
(* start again on one file.                                                *)
(***************************************************************************)
EXTENDS Naturals, Sequences

CONSTANTS
    Processes,    \* API processes that open the file
    Migrations,   \* migrations, told apart by name and checksum
    Plan,         \* process -> the migrations of its build, in order
    Foreign,      \* user_version of other applications' files one may be given
    NoProcess

ASSUME PlanAssumption ==      \* assertMigrationPlan
    /\ Plan \in [Processes -> Seq(Migrations)]
    /\ \A p \in Processes : Len(Plan[p]) > 0

ASSUME ForeignAreNat == Foreign \subseteq Nat

ASSUME NoProcessIsNone == NoProcess \notin Processes

VARIABLES
    file,       \* the committed database
    lock,       \* the process that holds SQLite's writer lock
    draft,      \* the database as that process's transaction sees it
    phase,      \* where each process is
    failure     \* why each process's last start failed

dbVars == <<file, lock, draft, phase, failure>>

\* version is user_version, rows the schema_migrations table in order of
\* version, and applied the migrations whose SQL the file has been through.
EmptyFile == [foreign |-> FALSE, wal |-> FALSE, version |-> 0, rows |-> <<>>, applied |-> <<>>]

ForeignFile(n) == [EmptyFile EXCEPT !.foreign = TRUE, !.version = n]

DbInit ==
    /\ file \in {EmptyFile} \cup {ForeignFile(n) : n \in Foreign}
    /\ lock = NoProcess
    /\ draft = file
    /\ phase = [p \in Processes |-> "stopped"]
    /\ failure = [p \in Processes |-> "NONE"]

-----------------------------------------------------------------------------
Begins(s, t) == Len(s) <= Len(t) /\ \A i \in 1 .. Len(s) : s[i] = t[i]

\* validateCurrentSchema: what is wrong with a database for a build that
\* carries these migrations.  Only a file with a first migration has the table.
SchemaError(db, plan) ==
    CASE db.version > Len(plan)                      -> "DATABASE_SCHEMA_NEWER"
      [] db.version = 0 /\ ~db.foreign               -> "NONE"
      [] db.version = 0 /\ db.foreign                -> "DATABASE_SCHEMA_INVALID"
      [] db.version \in 1 .. Len(plan) /\ Len(db.rows) > Len(plan)
                                                     -> "DATABASE_SCHEMA_NEWER"
      [] OTHER ->
            IF Len(db.rows) = db.version /\ Begins(db.rows, plan)
            THEN "NONE" ELSE "DATABASE_SCHEMA_INVALID"

MoveTo(p, label) == phase' = [phase EXCEPT ![p] = label]

\* The connection is closed, and an open transaction is rolled back.
Release(p) ==
    /\ lock' = IF lock = p THEN NoProcess ELSE lock
    /\ draft' = IF lock = p THEN file ELSE draft

Fail(p, code) ==
    /\ MoveTo(p, "stopped")
    /\ failure' = [failure EXCEPT ![p] = code]
    /\ Release(p)
    /\ UNCHANGED file

\* new Database(filePath).
Open(p) ==
    /\ phase[p] = "stopped"
    /\ MoveTo(p, "configuring")
    /\ failure' = [failure EXCEPT ![p] = "NONE"]
    /\ UNCHANGED <<file, lock, draft>>

\* configureConnection: the journal mode is changed by one process at a time;
\* a file that has it keeps it.
SwitchToWal(p) ==
    /\ phase[p] = "configuring"
    /\ file' = [file EXCEPT !.wal = TRUE]
    /\ draft' = [draft EXCEPT !.wal = TRUE]
    /\ MoveTo(p, "configured")
    /\ UNCHANGED <<lock, failure>>

\* ... and the retries end after five seconds of a competitor's changing it.
WalTimeout(p) ==
    /\ phase[p] = "configuring"
    /\ ~file.wal
    /\ \E q \in Processes \ {p} : phase[q] = "configuring"
    /\ Fail(p, "DATABASE_MIGRATION_FAILED")

-----------------------------------------------------------------------------
(***************************************************************************)
(* applyPendingMigrations.                                                 *)
(***************************************************************************)
\* Mutant: the stored history is not compared with the plan.
BeginImmediate_Unchecked(p) ==
    /\ phase[p] = "configured"
    /\ lock = NoProcess
    /\ file.version <= Len(Plan[p])
    /\ lock' = p
    /\ draft' = file
    /\ MoveTo(p, "migrating")
    /\ UNCHANGED <<file, failure>>

\* BEGIN IMMEDIATE, and the check of the schema it then reads.
BeginImmediate(p) ==
    /\ phase[p] = "configured"
    /\ lock = NoProcess
    /\ SchemaError(file, Plan[p]) = "NONE"
    /\ lock' = p
    /\ draft' = file
    /\ MoveTo(p, "migrating")
    /\ UNCHANGED <<file, failure>>

\* The check fails: the transaction is rolled back and the start given up.
RejectSchema(p) ==
    /\ phase[p] = "configured"
    /\ lock = NoProcess
    /\ SchemaError(file, Plan[p]) # "NONE"
    /\ Fail(p, SchemaError(file, Plan[p]))

\* busy_timeout: the writer lock was not released within five seconds.
BusyTimeout(p) ==
    /\ phase[p] = "configured"
    /\ lock # NoProcess
    /\ Fail(p, "DATABASE_MIGRATION_FAILED")

\* A migration's SQL, its row and the version.
Migrated(db, m) ==
    [db EXCEPT !.version = @ + 1, !.rows = Append(@, m), !.applied = Append(@, m)]

Pending(p) == phase[p] = "migrating" /\ lock = p /\ draft.version < Len(Plan[p])

\* Mutant: every migration commits by itself.
ApplyMigration_AutoCommit(p) ==
    /\ Pending(p)
    /\ file' = [file EXCEPT !.applied = Append(@, Plan[p][draft.version + 1])]
    /\ draft' = Migrated(draft, Plan[p][draft.version + 1])
    /\ UNCHANGED <<lock, phase, failure>>

ApplyMigration(p) ==
    /\ Pending(p)
    /\ draft' = Migrated(draft, Plan[p][draft.version + 1])
    /\ UNCHANGED <<file, lock, phase, failure>>

\* A statement, the second check or the commit fails: everything is rolled back.
RollBack(p) ==
    /\ phase[p] = "migrating"
    /\ Fail(p, "DATABASE_MIGRATION_FAILED")

\* The schema is checked again, now against all of the plan, and committed.
Commit(p) ==
    /\ phase[p] = "migrating"
    /\ lock = p
    /\ draft.version = Len(Plan[p])
    /\ SchemaError(draft, Plan[p]) = "NONE"
    /\ file' = draft
    /\ lock' = NoProcess
    /\ draft' = draft
    /\ MoveTo(p, "open")
    /\ UNCHANGED failure

\* close(), or the death of the process wherever it is: SQLite discards what
\* was not committed when the file is next opened.
Stop(p) ==
    /\ phase[p] # "stopped"
    /\ MoveTo(p, "stopped")
    /\ Release(p)
    /\ UNCHANGED <<file, failure>>

Start(p) ==
    \/ SwitchToWal(p)
    \/ WalTimeout(p)
    \/ BeginImmediate(p)
    \/ RejectSchema(p)
    \/ BusyTimeout(p)
    \/ ApplyMigration(p)
    \/ RollBack(p)
    \/ Commit(p)

DbNext == \E p \in Processes : Open(p) \/ Start(p) \/ Stop(p)

DbSpec == DbInit /\ [][DbNext]_dbVars

\* A process that runs goes on; nothing obliges one to start or to stop.
FairDbSpec == DbSpec /\ \A p \in Processes : WF_dbVars(Start(p))

-----------------------------------------------------------------------------
Database ==
    [foreign : BOOLEAN, wal : BOOLEAN, version : Nat,
     rows : Seq(Migrations), applied : Seq(Migrations)]

\* The state keeps its types, and only the holder of the lock migrates.
DbTypeOK ==
    /\ file \in Database
    /\ draft \in Database
    /\ lock \in Processes \cup {NoProcess}
    /\ phase \in [Processes -> {"stopped", "configuring", "configured", "migrating", "open"}]
    /\ failure \in [Processes ->
           {"NONE", "DATABASE_MIGRATION_FAILED", "DATABASE_SCHEMA_INVALID", "DATABASE_SCHEMA_NEWER"}]
    /\ \A p \in Processes : phase[p] = "migrating" <=> lock = p

\* Through crashes, failures and races, the recorded history is the list of
\* the migrations the file has really been through, each once, and the version
\* is their number; a file of another application is left as it was.
HistoryIsWhatRan ==
    /\ file.rows = file.applied
    /\ IF file.foreign THEN file.rows = <<>> ELSE file.version = Len(file.rows)

\* A process that serves requests has under it every migration its build
\* expects, in order, whatever newer builds have added since it looked.
OpenMeansCurrent ==
    \A p \in Processes : phase[p] = "open" => Begins(Plan[p], file.applied)

\* What is served is what the history tells: through crashes and races, the
\* file has been through the recorded migrations, and every open process has
\* those of its build among them.
OpenMeansMigrated == HistoryIsWhatRan /\ OpenMeansCurrent

\* A refusal for the schema is final: no other process's start can make the
\* file acceptable to a build that has once found it newer or of another plan.
RefusalsStand ==
    \A p \in Processes :
        failure[p] \in {"DATABASE_SCHEMA_NEWER", "DATABASE_SCHEMA_INVALID"} =>
            SchemaError(file, Plan[p]) # "NONE"

\* The file only moves forward: a commit adds migrations after those there, and
\* is never a downgrade (docs/architecture/DATA_AND_MIGRATIONS.md:121).
OnlyForward == [][Begins(file.applied, file'.applied)]_dbVars

\* A start ends: in an open database, in a refusal or in the process's end.
StartsSettle ==
    \A p \in Processes :
        phase[p] \in {"configuring", "configured", "migrating"} ~>
            phase[p] \in {"open", "stopped"}
=============================================================================
