----------------------- MODULE DatabaseLifecycleProofs -----------------------
(***************************************************************************)
(* Proofs about DatabaseLifecycle, for any processes, any plans and any    *)
(* foreign file, and about DemoWorkspace, which is composed of it, for any *)
(* bounds.  The first invariant says what the transaction of the holder of *)
(* the lock has done so far: it has extended the committed history along   *)
(* its own plan.  The second says what an operation of the demo has behind *)
(* it wherever it is, so wherever the process may die.                     *)
(***************************************************************************)
EXTENDS DemoWorkspace, TLAPS

Phases == {"stopped", "configuring", "configured", "migrating", "open"}

Codes == {"NONE", "DATABASE_MIGRATION_FAILED", "DATABASE_SCHEMA_INVALID", "DATABASE_SCHEMA_NEWER"}

\* What holds of a database whatever was done to it.
Sound(db) ==
    /\ db.rows = db.applied
    /\ IF db.foreign THEN db.rows = <<>> ELSE db.version = Len(db.rows)

\* The transaction of the lock's holder: past the check, and on its plan.
DraftOK ==
    IF lock = NoProcess THEN draft = file
    ELSE /\ ~ file.foreign
         /\ ~ draft.foreign
         /\ Begins(draft.rows, Plan[lock])
         /\ Begins(file.rows, draft.rows)

\* A build refuses a file that is foreign or not on its plan.
Refuses(db, plan) == db.foreign \/ ~ Begins(db.rows, plan)

Rejected ==
    \A p \in Processes :
        failure[p] \in {"DATABASE_SCHEMA_NEWER", "DATABASE_SCHEMA_INVALID"} =>
            Refuses(file, Plan[p])

DbInv ==
    /\ DbTypeOK
    /\ Sound(file)
    /\ Sound(draft)
    /\ DraftOK
    /\ OpenMeansCurrent
    /\ Rejected

-----------------------------------------------------------------------------
\* A build accepts a sound database exactly when its history begins the plan.
LEMMA SchemaErrorMeans ==
    ASSUME NEW db \in Database, NEW plan \in Seq(Migrations), Len(plan) > 0, Sound(db)
    PROVE  /\ SchemaError(db, plan) # "NONE" <=> Refuses(db, plan)
           /\ SchemaError(db, plan) \in
                 {"NONE", "DATABASE_SCHEMA_NEWER", "DATABASE_SCHEMA_INVALID"}
  <1>1. /\ db.version \in Nat
        /\ db.rows \in Seq(Migrations)
        /\ db.foreign \in BOOLEAN
        /\ Len(db.rows) \in Nat
        /\ Len(plan) \in Nat
    BY DEF Database
  <1>2. SchemaError(db, plan) \in
           {"NONE", "DATABASE_SCHEMA_NEWER", "DATABASE_SCHEMA_INVALID"}
    BY <1>1 DEF SchemaError
  <1>3. CASE db.foreign
    <2>1. Len(db.rows) = 0
      BY <1>3 DEF Sound
    <2>2. SchemaError(db, plan) # "NONE"
      BY <1>1, <1>3, <2>1 DEF SchemaError
    <2> QED
      BY <1>2, <1>3, <2>2 DEF Refuses
  <1>4. CASE ~ db.foreign
    <2>1. db.version = Len(db.rows)
      BY <1>4 DEF Sound
    <2>2. CASE db.version > Len(plan)
      BY <1>1, <1>2, <1>4, <2>1, <2>2 DEF SchemaError, Refuses, Begins
    <2>3. CASE db.version = 0
      BY <1>1, <1>2, <1>4, <2>1, <2>3 DEF SchemaError, Refuses, Begins
    <2>4. CASE db.version \in 1 .. Len(plan)
      BY <1>1, <1>2, <1>4, <2>1, <2>4 DEF SchemaError, Refuses
    <2> QED
      BY <1>1, <2>2, <2>3, <2>4
  <1> QED
    BY <1>3, <1>4

\* Begins is reflexive and transitive.
LEMMA BeginsReflexive == ASSUME NEW s \in Seq(Migrations) PROVE Begins(s, s)
  BY DEF Begins

LEMMA BeginsTransitive ==
    ASSUME NEW s \in Seq(Migrations), NEW t \in Seq(Migrations), NEW u \in Seq(Migrations),
           Begins(s, t), Begins(t, u)
    PROVE  Begins(s, u)
  BY DEF Begins

\* A migration of the plan keeps the draft sound and on the plan.
LEMMA MigratedSound ==
    ASSUME NEW db \in Database, NEW plan \in Seq(Migrations), Sound(db), ~ db.foreign,
           Begins(db.rows, plan), db.version < Len(plan),
           NEW next, next = Migrated(db, plan[db.version + 1])
    PROVE  /\ next \in Database
           /\ Sound(next)
           /\ ~ next.foreign
           /\ Begins(next.rows, plan)
           /\ Begins(db.rows, next.rows)
  <1> DEFINE m == plan[db.version + 1]
  <1>1. /\ db.version \in Nat
        /\ db.rows \in Seq(Migrations)
        /\ db.applied \in Seq(Migrations)
        /\ db.version = Len(db.rows)
        /\ db.rows = db.applied
    BY DEF Database, Sound
  <1>2. m \in Migrations
    BY <1>1
  <1> HIDE DEF m
  <1>3. next = [foreign |-> db.foreign, wal |-> db.wal, version |-> db.version + 1,
                rows |-> Append(db.rows, m), applied |-> Append(db.applied, m)]
    BY DEF Migrated, Database, m
  <1>4. next \in Database
    <2>1. Append(db.rows, m) \in Seq(Migrations) /\ Append(db.applied, m) \in Seq(Migrations)
      BY <1>1, <1>2
    <2>2. db.version + 1 \in Nat /\ db.foreign \in BOOLEAN /\ db.wal \in BOOLEAN
      BY <1>1 DEF Database
    <2> QED
      BY <1>3, <2>1, <2>2 DEF Database
  <1>5. /\ Append(db.rows, m) \in Seq(Migrations)
        /\ Len(Append(db.rows, m)) = Len(db.rows) + 1
        /\ \A i \in 1 .. Len(db.rows) : Append(db.rows, m)[i] = db.rows[i]
        /\ Append(db.rows, m)[Len(db.rows) + 1] = m
    BY <1>1, <1>2
  <1>6. /\ next.rows = Append(db.rows, m)
        /\ next.applied = next.rows
        /\ next.version = db.version + 1
        /\ ~ next.foreign
    <2> DEFINE rows2 == Append(db.rows, m)
    <2>1. Append(db.applied, m) = rows2
      BY <1>1
    <2> HIDE DEF rows2
    <2>2. next = [foreign |-> db.foreign, wal |-> db.wal, version |-> db.version + 1,
                  rows |-> rows2, applied |-> rows2]
      BY <1>3, <2>1 DEF rows2
    <2> QED
      BY <2>2 DEF rows2
  <1>7. Sound(next)
    BY <1>1, <1>5, <1>6 DEF Sound
  <1>8. Begins(db.rows, next.rows)
    BY <1>1, <1>5, <1>6 DEF Begins
  <1>9. Begins(next.rows, plan)
    <2>1. Len(next.rows) <= Len(plan)
      BY <1>1, <1>5, <1>6
    <2>2. ASSUME NEW i \in 1 .. Len(next.rows) PROVE next.rows[i] = plan[i]
      <3>1. CASE i \in 1 .. Len(db.rows)
        BY <1>5, <1>6, <3>1 DEF Begins
      <3>2. CASE i = Len(db.rows) + 1
        BY <1>1, <1>5, <1>6, <3>2 DEF m
      <3> QED
        BY <1>1, <1>5, <1>6, <2>2, <3>1, <3>2
    <2> QED
      BY <2>1, <2>2 DEF Begins
  <1> QED
    BY <1>4, <1>6, <1>7, <1>8, <1>9

\* The journal mode is of no account for the schema.
LEMMA WalIsNoSchema ==
    ASSUME NEW db \in Database, NEW next, next = [db EXCEPT !.wal = TRUE]
    PROVE  /\ next \in Database
           /\ next.foreign = db.foreign
           /\ next.version = db.version
           /\ next.rows = db.rows
           /\ next.applied = db.applied
           /\ Sound(db) => Sound(next)
  <1>1. next = [foreign |-> db.foreign, wal |-> TRUE, version |-> db.version,
                rows |-> db.rows, applied |-> db.applied]
    BY DEF Database
  <1>2. next \in Database
    BY <1>1 DEF Database
  <1> QED
    BY <1>1, <1>2 DEF Sound

-----------------------------------------------------------------------------
LEMMA DbInvInit == DbInit => DbInv
  <1> SUFFICES ASSUME DbInit PROVE DbInv
    OBVIOUS
  <1>1. /\ file \in Database
        /\ Sound(file)
    <2>1. CASE file = EmptyFile
      BY <2>1 DEF EmptyFile, Database, Sound
    <2>2. ASSUME NEW n \in Foreign, file = ForeignFile(n) PROVE file \in Database /\ Sound(file)
      <3>1. n \in Nat
        BY ForeignAreNat
      <3>2. file = [foreign |-> TRUE, wal |-> FALSE, version |-> n, rows |-> <<>>, applied |-> <<>>]
        BY <2>2 DEF ForeignFile, EmptyFile
      <3> QED
        BY <3>1, <3>2 DEF Database, Sound
    <2> QED
      BY <2>1, <2>2 DEF DbInit
  <1>2. DbTypeOK
    BY <1>1, NoProcessIsNone DEF DbInit, DbTypeOK
  <1> QED
    BY <1>1, <1>2 DEF DbInit, DbInv, DraftOK, OpenMeansCurrent, Rejected

\* What the steps of a process share: its plan is a plan.
LEMMA Plans ==
    ASSUME NEW p \in Processes
    PROVE  Plan[p] \in Seq(Migrations) /\ Len(Plan[p]) > 0 /\ Len(Plan[p]) \in Nat
  BY PlanAssumption

\* Moves that leave the file and the transaction alone.
LEMMA MoveKeepsInv ==
    ASSUME DbInv, NEW p \in Processes, NEW label \in Phases \ {"migrating", "open"},
           MoveTo(p, label), phase[p] # "migrating",
           NEW code \in Codes, failure' = [failure EXCEPT ![p] = code],
           code \in {"DATABASE_SCHEMA_NEWER", "DATABASE_SCHEMA_INVALID"}
               => Refuses(file, Plan[p]),
           UNCHANGED <<file, lock, draft>>
    PROVE  DbInv'
  <1>1. /\ phase \in [Processes -> Phases]
        /\ failure \in [Processes -> Codes]
    BY DEF DbInv, DbTypeOK, Phases, Codes
  <1>2. /\ phase' = [phase EXCEPT ![p] = label]
        /\ phase' \in [Processes -> Phases]
        /\ failure' \in [Processes -> Codes]
    BY <1>1 DEF MoveTo
  <1>3. lock # p
    BY NoProcessIsNone DEF DbInv, DbTypeOK
  <1>4. \A q \in Processes : phase'[q] = "migrating" <=> lock' = q
    BY <1>1, <1>2, <1>3 DEF DbInv, DbTypeOK
  <1>5. DbTypeOK'
    BY <1>2, <1>4 DEF DbInv, DbTypeOK, Phases, Codes
  <1>6. Sound(file)' /\ Sound(draft)' /\ DraftOK'
    BY DEF DbInv, Sound, DraftOK
  <1>7. OpenMeansCurrent'
    BY <1>1, <1>2 DEF DbInv, OpenMeansCurrent
  <1>8. Rejected'
    BY <1>1 DEF DbInv, Rejected
  <1> QED
    BY <1>5, <1>6, <1>7, <1>8 DEF DbInv

\* The end of a connection, wherever it is.
LEMMA ReleaseKeepsInv ==
    ASSUME DbInv, NEW p \in Processes, MoveTo(p, "stopped"), Release(p), UNCHANGED file,
           NEW code \in Codes, failure' = [failure EXCEPT ![p] = code],
           code \in {"DATABASE_SCHEMA_NEWER", "DATABASE_SCHEMA_INVALID"}
               => Refuses(file, Plan[p])
    PROVE  DbInv'
  <1>1. /\ phase \in [Processes -> Phases]
        /\ failure \in [Processes -> Codes]
        /\ \A q \in Processes : phase[q] = "migrating" <=> lock = q
        /\ lock \in Processes \cup {NoProcess}
    BY DEF DbInv, DbTypeOK, Phases, Codes
  <1>2. /\ phase' = [phase EXCEPT ![p] = "stopped"]
        /\ phase' \in [Processes -> Phases]
        /\ failure' \in [Processes -> Codes]
    BY <1>1 DEF MoveTo, Phases
  <1>3. /\ lock' \in Processes \cup {NoProcess}
        /\ lock' # p
        /\ lock # p => lock' = lock /\ draft' = draft
        /\ lock = p => lock' = NoProcess /\ draft' = file
    BY <1>1, NoProcessIsNone DEF Release
  <1>4. \A q \in Processes : phase'[q] = "migrating" <=> lock' = q
    BY <1>1, <1>2, <1>3, NoProcessIsNone
  <1>5. draft' \in Database /\ Sound(draft)'
    BY <1>3 DEF DbInv, DbTypeOK, Sound
  <1>6. DbTypeOK'
    BY <1>2, <1>3, <1>4, <1>5 DEF DbInv, DbTypeOK, Phases, Codes
  <1>7. Sound(file)'
    BY DEF DbInv, Sound
  <1>8. DraftOK'
    BY <1>3 DEF DbInv, DraftOK
  <1>9. OpenMeansCurrent'
    BY <1>1, <1>2 DEF DbInv, OpenMeansCurrent
  <1>10. Rejected'
    BY <1>1 DEF DbInv, Rejected
  <1> QED
    BY <1>5, <1>6, <1>7, <1>8, <1>9, <1>10 DEF DbInv

LEMMA SwitchKeepsInv ==
    ASSUME DbInv, NEW p \in Processes, SwitchToWal(p)
    PROVE  DbInv'
  <1>1. /\ phase \in [Processes -> Phases]
        /\ \A q \in Processes : phase[q] = "migrating" <=> lock = q
        /\ file \in Database
        /\ draft \in Database
    BY DEF DbInv, DbTypeOK, Phases
  <1>2. /\ phase' = [phase EXCEPT ![p] = "configured"]
        /\ phase' \in [Processes -> Phases]
        /\ phase[p] = "configuring"
    BY <1>1 DEF SwitchToWal, MoveTo, Phases
  <1>3. /\ file' = [file EXCEPT !.wal = TRUE]
        /\ draft' = [draft EXCEPT !.wal = TRUE]
        /\ lock' = lock
        /\ failure' = failure
    BY DEF SwitchToWal
  <1>4. /\ file' \in Database
        /\ file'.foreign = file.foreign
        /\ file'.rows = file.rows
        /\ file'.applied = file.applied
        /\ Sound(file)'
    BY <1>1, <1>3, WalIsNoSchema DEF DbInv
  <1>5. /\ draft' \in Database
        /\ draft'.foreign = draft.foreign
        /\ draft'.rows = draft.rows
        /\ draft'.applied = draft.applied
        /\ Sound(draft)'
    BY <1>1, <1>3, WalIsNoSchema DEF DbInv
  <1>6. \A q \in Processes : phase'[q] = "migrating" <=> lock' = q
    BY <1>1, <1>2, <1>3
  <1>7. DbTypeOK'
    BY <1>2, <1>3, <1>4, <1>5, <1>6 DEF DbInv, DbTypeOK, Phases
  <1>8. DraftOK'
    BY <1>3, <1>4, <1>5 DEF DbInv, DraftOK
  <1>9. OpenMeansCurrent'
    BY <1>1, <1>2, <1>4 DEF DbInv, OpenMeansCurrent
  <1>10. Rejected'
    BY <1>3, <1>4 DEF DbInv, Rejected, Refuses
  <1> QED
    BY <1>4, <1>5, <1>7, <1>8, <1>9, <1>10 DEF DbInv

LEMMA BeginKeepsInv ==
    ASSUME DbInv, NEW p \in Processes, BeginImmediate(p)
    PROVE  DbInv'
  <1>1. /\ phase \in [Processes -> Phases]
        /\ \A q \in Processes : phase[q] = "migrating" <=> lock = q
        /\ file \in Database
        /\ Sound(file)
    BY DEF DbInv, DbTypeOK, Phases
  <1>2. /\ phase' = [phase EXCEPT ![p] = "migrating"]
        /\ phase' \in [Processes -> Phases]
    BY <1>1 DEF BeginImmediate, MoveTo, Phases
  <1>3. /\ lock = NoProcess
        /\ lock' = p
        /\ draft' = file
        /\ file' = file
        /\ failure' = failure
        /\ SchemaError(file, Plan[p]) = "NONE"
    BY DEF BeginImmediate
  <1>4. \A q \in Processes : phase'[q] = "migrating" <=> lock' = q
    BY <1>1, <1>2, <1>3, NoProcessIsNone
  <1>5. DbTypeOK'
    BY <1>1, <1>2, <1>3, <1>4 DEF DbInv, DbTypeOK, Phases
  <1>6. ~ file.foreign /\ Begins(file.rows, Plan[p])
    BY <1>1, <1>3, Plans, SchemaErrorMeans DEF Refuses
  <1>7. DraftOK'
    <2>1. file.rows \in Seq(Migrations)
      BY <1>1 DEF Database
    <2>2. Begins(file.rows, file.rows)
      BY <2>1, BeginsReflexive
    <2> QED
      BY <1>3, <1>6, <2>2, NoProcessIsNone DEF DraftOK
  <1>8. Sound(file)' /\ Sound(draft)'
    BY <1>1, <1>3 DEF Sound
  <1>9. OpenMeansCurrent' /\ Rejected'
    BY <1>1, <1>2, <1>3 DEF DbInv, OpenMeansCurrent, Rejected
  <1> QED
    BY <1>5, <1>7, <1>8, <1>9 DEF DbInv

LEMMA ApplyKeepsInv ==
    ASSUME DbInv, NEW p \in Processes, ApplyMigration(p)
    PROVE  DbInv'
  <1>1. /\ file \in Database
        /\ draft \in Database
        /\ lock = p
        /\ lock # NoProcess
        /\ draft.version < Len(Plan[p])
    BY NoProcessIsNone DEF DbInv, DbTypeOK, ApplyMigration, Pending
  <1>2. /\ Sound(draft)
        /\ ~ draft.foreign
        /\ ~ file.foreign
        /\ Begins(draft.rows, Plan[p])
        /\ Begins(file.rows, draft.rows)
    BY <1>1 DEF DbInv, DraftOK
  <1>3. /\ draft' = Migrated(draft, Plan[p][draft.version + 1])
        /\ UNCHANGED <<file, lock, phase, failure>>
    BY DEF ApplyMigration
  <1>4. /\ draft' \in Database
        /\ Sound(draft')
        /\ ~ draft'.foreign
        /\ Begins(draft'.rows, Plan[p])
        /\ Begins(draft.rows, draft'.rows)
    BY <1>1, <1>2, <1>3, Plans, MigratedSound
  <1>5. Begins(file.rows, draft'.rows)
    <2>1. /\ file.rows \in Seq(Migrations)
          /\ draft.rows \in Seq(Migrations)
          /\ draft'.rows \in Seq(Migrations)
      BY <1>1, <1>4 DEF Database
    <2> QED
      BY <1>2, <1>4, <2>1, BeginsTransitive
  <1>6. DbTypeOK'
    BY <1>3, <1>4 DEF DbInv, DbTypeOK
  <1>7. DraftOK'
    BY <1>1, <1>2, <1>3, <1>4, <1>5 DEF DraftOK
  <1>8. Sound(file)' /\ Sound(draft)'
    BY <1>3, <1>4 DEF DbInv, Sound
  <1>9. OpenMeansCurrent' /\ Rejected'
    BY <1>3 DEF DbInv, OpenMeansCurrent, Rejected
  <1> QED
    BY <1>6, <1>7, <1>8, <1>9 DEF DbInv

LEMMA CommitKeepsInv ==
    ASSUME DbInv, NEW p \in Processes, Commit(p)
    PROVE  DbInv' /\ Begins(file.applied, file'.applied)
  <1>1. /\ phase \in [Processes -> Phases]
        /\ \A q \in Processes : phase[q] = "migrating" <=> lock = q
        /\ file \in Database
        /\ draft \in Database
        /\ lock = p
        /\ lock # NoProcess
    BY NoProcessIsNone DEF DbInv, DbTypeOK, Phases, Commit
  <1>2. /\ Sound(draft)
        /\ Sound(file)
        /\ ~ draft.foreign
        /\ ~ file.foreign
        /\ Begins(draft.rows, Plan[p])
        /\ Begins(file.rows, draft.rows)
    BY <1>1 DEF DbInv, DraftOK
  <1>3. /\ file' = draft
        /\ draft' = draft
        /\ lock' = NoProcess
        /\ failure' = failure
        /\ draft.version = Len(Plan[p])
    BY DEF Commit
  <1>4. /\ phase' = [phase EXCEPT ![p] = "open"]
        /\ phase' \in [Processes -> Phases]
    BY <1>1 DEF Commit, MoveTo, Phases
  <1>5. \A q \in Processes : phase'[q] = "migrating" <=> lock' = q
    BY <1>1, <1>3, <1>4, NoProcessIsNone
  <1>6. DbTypeOK'
    BY <1>1, <1>3, <1>4, <1>5 DEF DbInv, DbTypeOK, Phases
  <1>7. DraftOK' /\ Sound(file)' /\ Sound(draft)'
    BY <1>2, <1>3 DEF DraftOK, Sound
  <1>8. /\ draft.rows = draft.applied
        /\ file.rows = file.applied
        /\ draft.version = Len(draft.rows)
    BY <1>2 DEF Sound
  <1>9. Begins(file.applied, file'.applied)
    BY <1>2, <1>3, <1>8
  <1>10. /\ file.rows \in Seq(Migrations)
         /\ draft.rows \in Seq(Migrations)
         /\ \A q \in Processes : Plan[q] \in Seq(Migrations)
    BY <1>1, Plans DEF Database
  <1>11. Begins(Plan[p], draft.rows)
    BY <1>2, <1>3, <1>8, <1>10 DEF Begins
  <1>12. OpenMeansCurrent'
    <2> SUFFICES ASSUME NEW q \in Processes, phase'[q] = "open"
                 PROVE  Begins(Plan[q], draft.applied)
      BY <1>3 DEF OpenMeansCurrent
    <2>1. CASE q = p
      BY <1>8, <1>11, <2>1
    <2>2. CASE q # p
      <3>1. Begins(Plan[q], file.rows)
        BY <1>1, <1>4, <1>8, <2>2 DEF DbInv, OpenMeansCurrent
      <3> QED
        BY <1>2, <1>8, <1>10, <3>1, BeginsTransitive
    <2> QED
      BY <2>1, <2>2
  <1>13. Rejected'
    <2> SUFFICES ASSUME NEW q \in Processes,
                        failure[q] \in {"DATABASE_SCHEMA_NEWER", "DATABASE_SCHEMA_INVALID"}
                 PROVE  ~ Begins(draft.rows, Plan[q])
      BY <1>3 DEF Rejected, Refuses
    <2>1. ~ Begins(file.rows, Plan[q])
      BY <1>2 DEF DbInv, Rejected, Refuses
    <2> QED
      BY <1>2, <1>10, <2>1, BeginsTransitive
  <1> QED
    BY <1>6, <1>7, <1>9, <1>12, <1>13 DEF DbInv

-----------------------------------------------------------------------------
\* Every step keeps the invariant and adds to the history at most.
LEMMA DbInvStep == DbInv /\ [DbNext]_dbVars => DbInv' /\ Begins(file.applied, file'.applied)
  <1> SUFFICES ASSUME DbInv, [DbNext]_dbVars
               PROVE  DbInv' /\ Begins(file.applied, file'.applied)
    OBVIOUS
  <1>1. /\ file.applied \in Seq(Migrations)
        /\ file \in Database
        /\ Sound(file)
        /\ Begins(file.applied, file.applied)
    BY BeginsReflexive DEF DbInv, DbTypeOK, Database
  <1>2. CASE UNCHANGED dbVars
    <2>1. DbInv'
      BY <1>2 DEF dbVars, DbInv, DbTypeOK, Sound, DraftOK, OpenMeansCurrent, Rejected
    <2> QED
      BY <1>1, <1>2, <2>1 DEF dbVars
  <1>3. ASSUME NEW p \in Processes, Open(p)
        PROVE  DbInv' /\ Begins(file.applied, file'.applied)
    BY <1>1, <1>3, MoveKeepsInv DEF Open, Phases, Codes
  <1>4. ASSUME NEW p \in Processes, SwitchToWal(p)
        PROVE  DbInv' /\ Begins(file.applied, file'.applied)
    <2>1. file'.applied = file.applied
      BY <1>1, <1>4, WalIsNoSchema DEF SwitchToWal
    <2> QED
      BY <1>1, <1>4, <2>1, SwitchKeepsInv
  <1>5. ASSUME NEW p \in Processes, NEW code \in Codes, Fail(p, code),
               code \in {"DATABASE_SCHEMA_NEWER", "DATABASE_SCHEMA_INVALID"}
                   => Refuses(file, Plan[p])
        PROVE  DbInv' /\ Begins(file.applied, file'.applied)
    <2>1. DbInv'
      BY <1>5, ReleaseKeepsInv DEF Fail
    <2> QED
      BY <1>1, <1>5, <2>1 DEF Fail
  <1>6. ASSUME NEW p \in Processes, WalTimeout(p) \/ BusyTimeout(p) \/ RollBack(p)
        PROVE  DbInv' /\ Begins(file.applied, file'.applied)
    BY <1>5, <1>6 DEF WalTimeout, BusyTimeout, RollBack, Codes
  <1>7. ASSUME NEW p \in Processes, BeginImmediate(p)
        PROVE  DbInv' /\ Begins(file.applied, file'.applied)
    BY <1>1, <1>7, BeginKeepsInv DEF BeginImmediate
  <1>8. ASSUME NEW p \in Processes, RejectSchema(p)
        PROVE  DbInv' /\ Begins(file.applied, file'.applied)
    <2>1. /\ SchemaError(file, Plan[p]) \in Codes
          /\ Refuses(file, Plan[p])
      BY <1>1, <1>8, Plans, SchemaErrorMeans DEF RejectSchema, Codes
    <2> QED
      BY <1>5, <1>8, <2>1 DEF RejectSchema
  <1>9. ASSUME NEW p \in Processes, ApplyMigration(p)
        PROVE  DbInv' /\ Begins(file.applied, file'.applied)
    BY <1>1, <1>9, ApplyKeepsInv DEF ApplyMigration
  <1>10. ASSUME NEW p \in Processes, Commit(p)
         PROVE  DbInv' /\ Begins(file.applied, file'.applied)
    BY <1>10, CommitKeepsInv
  <1>11. ASSUME NEW p \in Processes, Stop(p)
         PROVE  DbInv' /\ Begins(file.applied, file'.applied)
    <2>1. /\ failure \in [Processes -> Codes]
          /\ failure' = [failure EXCEPT ![p] = failure[p]]
      BY <1>11 DEF Stop, DbInv, DbTypeOK, Codes
    <2>2. failure[p] \in {"DATABASE_SCHEMA_NEWER", "DATABASE_SCHEMA_INVALID"}
              => Refuses(file, Plan[p])
      BY DEF DbInv, Rejected
    <2>3. failure[p] \in Codes
      BY <2>1
    <2>4. DbInv'
      BY <1>11, <2>1, <2>2, <2>3, ReleaseKeepsInv DEF Stop
    <2> QED
      BY <1>1, <1>11, <2>4 DEF Stop
  <1> QED
    BY <1>2, <1>3, <1>4, <1>6, <1>7, <1>8, <1>9, <1>10, <1>11 DEF DbNext, Start

\* DbInv is an invariant of the specification.
LEMMA DbInvariant == DbSpec => []DbInv
  <1>1. DbInv /\ [DbNext]_dbVars => DbInv'
    BY DbInvStep
  <1> QED
    BY <1>1, DbInvInit, PTL DEF DbSpec

\* The state keeps its types, and only the holder of the lock migrates.
THEOREM DbTypeCorrect == DbSpec => []DbTypeOK
  <1>1. DbInv => DbTypeOK
    BY DEF DbInv
  <1> QED
    BY <1>1, DbInvariant, PTL

\* Whatever crashes and whoever races, the stored history is what ran.
THEOREM HistoryCorrect == DbSpec => []HistoryIsWhatRan
  <1>1. DbInv => HistoryIsWhatRan
    BY DEF DbInv, Sound, HistoryIsWhatRan
  <1> QED
    BY <1>1, DbInvariant, PTL

\* An open process has all of its build's migrations under it.
THEOREM OpenCorrect == DbSpec => []OpenMeansCurrent
  <1>1. DbInv => OpenMeansCurrent
    BY DEF DbInv
  <1> QED
    BY <1>1, DbInvariant, PTL

\* Every open process serves a file that has been through its migrations.
THEOREM MigratedCorrect == DbSpec => []OpenMeansMigrated
  <1>1. HistoryIsWhatRan /\ OpenMeansCurrent => OpenMeansMigrated
    BY DEF OpenMeansMigrated
  <1> QED
    BY <1>1, HistoryCorrect, OpenCorrect, PTL

\* A file that a build has refused for its schema stays refused.
THEOREM RefusalCorrect == DbSpec => []RefusalsStand
  <1>1. DbInv => RefusalsStand
    <2> SUFFICES ASSUME DbInv, NEW p \in Processes,
                        failure[p] \in {"DATABASE_SCHEMA_NEWER", "DATABASE_SCHEMA_INVALID"}
                 PROVE  SchemaError(file, Plan[p]) # "NONE"
      BY DEF RefusalsStand
    <2>1. file \in Database /\ Sound(file) /\ Refuses(file, Plan[p])
      BY DEF DbInv, DbTypeOK, Rejected
    <2> QED
      BY <2>1, Plans, SchemaErrorMeans
  <1> QED
    BY <1>1, DbInvariant, PTL

\* No step takes a migration back or puts another in its place.
THEOREM ForwardCorrect == DbSpec => OnlyForward
  <1>1. DbInv /\ [DbNext]_dbVars => [Begins(file.applied, file'.applied)]_dbVars
    BY DbInvStep
  <1> QED
    BY <1>1, DbInvariant, PTL DEF DbSpec, OnlyForward

-----------------------------------------------------------------------------
(***************************************************************************)
(* The demo's workspace.                                                   *)
(***************************************************************************)
Changed == {"correction", "stale"}

Owned == row.status \in {"LOADING", "READY"}

\* What the rows of Projects and Missions must be for the demo to find its own
\* among them again.
TablesOK ==
    /\ DOMAIN projects \subseteq Projects
    /\ DOMAIN missions \subseteq Missions
    /\ missions \in [DOMAIN missions -> MissionHead]

\* Without a directory there is no commit.
DiskOK ==
    /\ disk \in [root : BOOLEAN, marker : BOOLEAN, git : BOOLEAN,
                 head : (SUBSET Changed) \cup {Unborn}, work : SUBSET Changed]
    /\ ~disk.root => disk.head = Unborn

\* The row, by how far the setup came.
RowOK ==
    \/ row = NoRow
    \/ row \in [status : {"MATERIALIZED"}, created : Times]
    \/ row \in [status : {"LOADING"}, created : Times, project : Projects]
    \/ row \in [status : {"LOADING"}, created : Times, project : Projects, mission : Missions]
    \/ row \in [status : {"READY"}, created : Times, project : Projects, mission : Missions,
                stage : {"INITIAL_BLOCKED", "CORRECTED_READY", "READY_STALE"},
                initial : SUBSET Changed, corrected : SUBSET Changed]

\* The Project and Mission that the row names are there, and the one is the
\* other's.
ScopeThere ==
    /\ row.project \in DOMAIN projects
    /\ row.mission \in DOMAIN missions
    /\ missions[row.mission].project = row.project

RootTaken ==
    /\ row.project \in DOMAIN repositories
    /\ repositories[row.project] = DemoRoot

\* What an operation has behind it where it is.
PlaceOK ==
    /\ cont \in {"materialize", "idle"}
    /\ pc \in {"remove", "removing", "materialize", "mkdir", "marker", "init", "commit", "insert"}
          => row = NoRow
    /\ pc \in {"removing", "marker", "init", "commit"} => disk.root
    /\ pc \in {"init", "commit"} => disk.marker
    /\ pc = "commit" => disk.git
    /\ pc = "project" => row.status = "MATERIALIZED"
    /\ pc \in {"insert", "project", "mission", "register", "capture", "finish"} => Materialized
    /\ pc \in {"mission", "register", "capture", "finish"} => row.status = "LOADING"
    /\ pc \in {"register", "capture", "finish"} => "mission" \in DOMAIN row /\ ScopeThere
    /\ pc \in {"capture", "finish"} => RootTaken
    /\ pc = "finish" => disk.head # Unborn
    /\ pc \in {"finish", "finishfix"} => seen = disk.head
    /\ pc \in Transitions => row.status = "READY"
    /\ pc \in {"edit", "stage", "recapture", "finishfix"} => row.stage = "INITIAL_BLOCKED"
    /\ pc = "stage" => "correction" \in disk.work
    /\ pc \in {"recapture", "finishfix"} => disk.head # Unborn /\ "correction" \in disk.head
    /\ pc = "recheck" => row.stage = "CORRECTED_READY" /\ "stale" \in disk.work

\* A commit that is there before the workspace is READY is the initial one.
HeadOK == row.status # "READY" => torn \/ disk.head \in {Unborn, {}}

\* A READY row, as ReadyIsWhole has it.
WholeOK ==
    row.status = "READY" =>
        /\ ScopeThere /\ RootTaken
        /\ Materialized /\ disk.head # Unborn
        /\ row.stage = "INITIAL_BLOCKED" => torn \/ row.initial = {}
        /\ row.stage # "INITIAL_BLOCKED" => "correction" \in row.corrected /\ row.corrected = disk.head
        /\ row.stage = "READY_STALE" => "stale" \in disk.work

\* What the demo made is what its row owns.
OwnsOK == made = (IF Owned THEN {row.project} ELSE {})

WorkspaceInv == TablesOK /\ DiskOK /\ RowOK /\ PlaceOK /\ HeadOK /\ WholeOK /\ OwnsOK

\* Strings, and the trees of commits, are told apart.
LEMMA UnbornIsNoTree ==
    /\ {} # Unborn
    /\ \A tree \in SUBSET Changed : tree # Unborn
  BY DEF Unborn, Changed

\* What a row's status says of the row.
LEMMA RowShape ==
    ASSUME RowOK
    PROVE  /\ row.status \in {"NONE", "MATERIALIZED", "LOADING", "READY"}
           /\ row.status = "NONE" <=> row = NoRow
           /\ row # NoRow => row.created \in Times
           /\ row.status = "MATERIALIZED" => row \in [status : {"MATERIALIZED"}, created : Times]
           /\ Owned => row.project \in Projects
           /\ row.status = "LOADING" /\ "mission" \in DOMAIN row =>
                 row \in [status : {"LOADING"}, created : Times, project : Projects,
                          mission : Missions]
           /\ row.status = "READY" =>
                 row \in [status : {"READY"}, created : Times, project : Projects,
                          mission : Missions,
                          stage : {"INITIAL_BLOCKED", "CORRECTED_READY", "READY_STALE"},
                          initial : SUBSET Changed, corrected : SUBSET Changed]
  BY DEF RowOK, NoRow, Owned

\* A step on the directory leaves what is said of the tables.
LEMMA TablesStay ==
    ASSUME TablesOK, RowOK, OwnsOK, NoTables
    PROVE  TablesOK' /\ RowOK' /\ OwnsOK'
  BY DEF TablesOK, RowOK, OwnsOK, Owned, NoTables, lifecycleVars

LEMMA NoDiskIsDisk ==
    /\ NoDisk \in [root : BOOLEAN, marker : BOOLEAN, git : BOOLEAN,
                   head : (SUBSET Changed) \cup {Unborn}, work : SUBSET Changed]
    /\ NoDisk.head = Unborn
  BY DEF NoDisk

LEMMA WorkspaceInvInit == WorkspaceInit => WorkspaceInv
  <1> SUFFICES ASSUME WorkspaceInit PROVE WorkspaceInv
    OBVIOUS
  <1> USE DEF WorkspaceInit, LifecycleInit, DemoInit, WorkspaceInv
  <1>1. TablesOK
    BY DEF TablesOK
  <1>2. DiskOK
    BY NoDiskIsDisk DEF DiskOK
  <1>3. row = NoRow /\ row.status = "NONE"
    BY DEF NoRow
  <1>4. RowOK /\ WholeOK /\ OwnsOK
    BY <1>3 DEF RowOK, WholeOK, OwnsOK, Owned
  <1>5. HeadOK
    BY NoDiskIsDisk DEF HeadOK
  <1>6. PlaceOK
    BY DEF PlaceOK, Transitions
  <1> QED
    BY <1>1, <1>2, <1>4, <1>5, <1>6

-----------------------------------------------------------------------------
\* The steps of a removal.
LEMMA ClearRowsKeeps ==
    ASSUME WorkspaceInv, NEW then \in {"materialize", "idle"}, ClearRows(then)
    PROVE  WorkspaceInv'
  <1> USE DEF WorkspaceInv
  <1>1. TablesOK'
    BY DEF TablesOK, ClearRows, DeleteScope, Without, missionsForProject, lifecycleVars
  <1>2. DiskOK'
    BY DEF ClearRows, DiskOK
  <1>3. row' = NoRow /\ pc' = "remove" /\ cont' = then
    BY DEF ClearRows, Goto
  <1>4. RowOK' /\ WholeOK'
    BY <1>3 DEF RowOK, WholeOK, NoRow
  <1>5. PlaceOK'
    BY <1>3 DEF PlaceOK, Transitions
  <1>6. HeadOK'
    BY DEF ClearRows, HeadOK, DiskOK
  <1>7. OwnsOK'
    <2>1. CASE row = NoRow \/ row.status = "MATERIALIZED"
      BY <2>1, <1>3, RowShape DEF OwnsOK, Owned, ClearRows, NoRow
    <2>2. CASE ~(row = NoRow \/ row.status = "MATERIALIZED")
      <3>1. made = {row.project}
        BY <2>2, RowShape DEF OwnsOK, Owned
      <3>2. row.project \notin DOMAIN projects'
        BY <2>2 DEF ClearRows, DeleteScope, Without
      <3> QED
        BY <1>3, <3>1, <3>2 DEF OwnsOK, Owned, ClearRows, NoRow
    <2> QED
      BY <2>1, <2>2
  <1> QED
    BY <1>1, <1>2, <1>4, <1>5, <1>6, <1>7

\* A step that touches neither the tables nor the directory.
LEMMA QuietKeeps ==
    ASSUME WorkspaceInv, NoTables, UNCHANGED <<disk, torn>>, PlaceOK'
    PROVE  WorkspaceInv'
  <1> USE DEF WorkspaceInv
  <1>1. TablesOK' /\ RowOK' /\ OwnsOK'
    BY TablesStay
  <1>2. DiskOK' /\ HeadOK' /\ WholeOK'
    BY DEF DiskOK, HeadOK, WholeOK, NoTables, lifecycleVars, ScopeThere, RootTaken, Materialized
  <1> QED
    BY <1>1, <1>2

LEMMA CheckOwnerKeeps == WorkspaceInv /\ CheckOwner => WorkspaceInv'
  <1> SUFFICES ASSUME WorkspaceInv, CheckOwner PROVE WorkspaceInv'
    OBVIOUS
  <1>1. PlaceOK'
    BY DEF WorkspaceInv, CheckOwner, PlaceOK, Transitions, Goto, NoTables
  <1> QED
    BY <1>1, QuietKeeps DEF CheckOwner

LEMMA RemovalKeeps == WorkspaceInv /\ (RemoveSome \/ RemoveAll) => WorkspaceInv'
  <1> SUFFICES ASSUME WorkspaceInv, RemoveSome \/ RemoveAll PROVE WorkspaceInv'
    OBVIOUS
  <1> USE DEF WorkspaceInv
  <1>1. TablesOK' /\ RowOK' /\ OwnsOK'
    BY TablesStay DEF RemoveSome, RemoveAll
  <1>2. row = NoRow /\ row' = NoRow
    BY DEF RemoveSome, RemoveAll, PlaceOK, NoTables
  <1>3. WholeOK'
    BY <1>2 DEF WholeOK, NoRow
  <1>4. DiskOK' /\ disk'.head \in {disk.head, Unborn} /\ (torn' = torn \/ disk'.head = Unborn)
    <2>1. CASE RemoveAll
      BY <2>1, NoDiskIsDisk DEF DiskOK, RemoveAll
    <2>2. CASE RemoveSome
      <3>1. /\ disk'.root = disk.root
            /\ disk'.head \in {disk.head, Unborn}
            /\ disk' \in [root : BOOLEAN, marker : BOOLEAN, git : BOOLEAN,
                          head : (SUBSET Changed) \cup {Unborn}, work : SUBSET Changed]
        BY <2>2 DEF RemoveSome, DiskOK
      <3> QED
        BY <2>2, <3>1 DEF DiskOK, RemoveSome
    <2> QED
      BY <2>1, <2>2
  <1>5. HeadOK'
    BY <1>2, <1>4 DEF HeadOK, NoRow
  <1>6. CASE RemoveSome
    <2>1. disk'.root = disk.root /\ pc' = "removing" /\ cont' = cont
      BY <1>6 DEF RemoveSome, DiskOK, local
    <2> QED
      BY <1>1, <1>2, <1>3, <1>4, <1>5, <2>1, <1>6 DEF PlaceOK, Transitions, RemoveSome
  <1>7. CASE RemoveAll
    <2>1. PlaceOK'
      BY <1>7, <1>2 DEF PlaceOK, Transitions, RemoveAll, Goto
    <2> QED
      BY <1>1, <1>3, <1>4, <1>5, <2>1
  <1> QED
    BY <1>6, <1>7

-----------------------------------------------------------------------------
\* The tables of a Project only grow by the operations of their services.
TablesGrow ==
    /\ DOMAIN projects \subseteq DOMAIN projects'
    /\ \A m \in DOMAIN missions :
          m \in DOMAIN missions' /\ missions'[m].project = missions[m].project
    /\ \A p \in DOMAIN repositories :
          p \in DOMAIN repositories' /\ repositories'[p] = repositories[p]

\* A Mission's row, with another put into the table.
LEMMA PutMission ==
    ASSUME TablesOK, NEW m \in Missions, NEW head \in MissionHead,
           m \in DOMAIN missions => head.project = missions[m].project,
           missions' = PutRow(missions, m, head), projects' = projects
    PROVE  /\ TablesOK'
           /\ \A k \in DOMAIN missions :
                 k \in DOMAIN missions' /\ missions'[k].project = missions[k].project
           /\ m \in DOMAIN missions'
           /\ missions'[m] = head
  <1>1. /\ DOMAIN missions' = DOMAIN missions \cup {m}
        /\ missions'[m] = head
        /\ \A x \in DOMAIN missions \ {m} : missions'[x] = missions[x]
    BY DEF PutRow
  <1>2. missions' \in [DOMAIN missions' -> MissionHead]
    BY <1>1 DEF TablesOK, PutRow
  <1> QED
    BY <1>1, <1>2 DEF TablesOK

LEMMA CreateProjectGrows ==
    ASSUME TablesOK, NEW p \in Projects, NEW t \in Times, createProject(p, t)
    PROVE  TablesOK' /\ TablesGrow /\ p \in DOMAIN projects'
  BY DEF PutRow, TablesOK, TablesGrow, createProject, SaveProject

LEMMA ArchiveProjectGrows ==
    ASSUME TablesOK, NEW p \in Projects, NEW t \in Times, archiveProject(p, t)
    PROVE  TablesOK' /\ TablesGrow
  BY DEF PutRow, TablesOK, TablesGrow, archiveProject, SaveProject

LEMMA CreateMissionGrows ==
    ASSUME TablesOK, NEW p \in Projects, NEW m \in Missions, NEW t \in Times,
           createMission(p, m, t)
    PROVE  /\ TablesOK' /\ TablesGrow
           /\ p \in DOMAIN projects'
           /\ m \in DOMAIN missions' /\ missions'[m].project = p
  <1>1. NewMission(p, t) \in MissionHead /\ NewMission(p, t).project = p
    BY DEF NewMission, MissionHead
  <1>2. m \notin DOMAIN missions /\ p \in DOMAIN projects
    BY DEF createMission
  <1>3. missions' = PutRow(missions, m, NewMission(p, t)) /\ projects' = projects
        /\ repositories' = repositories
    BY DEF createMission, SaveMission
  <1> QED
    BY <1>1, <1>2, <1>3, PutMission DEF TablesGrow

LEMMA ArchiveMissionGrows ==
    ASSUME TablesOK, NEW p \in Projects, NEW m \in Missions, NEW t \in Times,
           archiveMission(p, m, t)
    PROVE  TablesOK' /\ TablesGrow
  <1>1. m \in DOMAIN missions /\ missions[m] \in MissionHead
    BY DEF archiveMission, Hydrates, TablesOK
  <1>2. Archived(missions[m], t).project = missions[m].project
    BY <1>1 DEF Archived, MissionHead
  <1>3. Archived(missions[m], t) \in MissionHead
    <2>1. missions[m].revision + 1 \in Nat
      BY <1>1 DEF MissionHead
    <2> QED
      BY <1>1, <2>1 DEF Archived, MissionHead
  <1>4. missions' = PutRow(missions, m, Archived(missions[m], t)) /\ projects' = projects
        /\ repositories' = repositories
    BY DEF archiveMission, SaveMission
  <1> QED
    BY <1>1, <1>2, <1>3, <1>4, PutMission DEF TablesGrow

LEMMA RegisterGrows ==
    ASSUME TablesOK, NEW p \in Projects, NEW root \in Roots, register(p, root)
    PROVE  /\ TablesOK' /\ TablesGrow
           /\ p \in DOMAIN repositories' /\ repositories'[p] = root
  BY DEF PutRow, TablesOK, TablesGrow, register

LEMMA LifecycleGrows == TablesOK /\ LifecycleNext => TablesOK' /\ TablesGrow
  BY CreateProjectGrows, ArchiveProjectGrows, CreateMissionGrows, ArchiveMissionGrows,
     RegisterGrows DEF LifecycleNext

\* What the row names is still there when the tables have grown.
LEMMA ScopeStays ==
    ASSUME TablesGrow, row'.project = row.project
    PROVE  /\ ScopeThere /\ row'.mission = row.mission => ScopeThere'
           /\ RootTaken => RootTaken'
  BY DEF TablesGrow, ScopeThere, RootTaken

-----------------------------------------------------------------------------
\* The steps of setup.
LEMMA BeginSetupKeeps == WorkspaceInv /\ BeginSetup => WorkspaceInv'
  <1> SUFFICES ASSUME WorkspaceInv, BeginSetup PROVE WorkspaceInv'
    OBVIOUS
  <1>1. CASE row # NoRow
    BY <1>1, ClearRowsKeeps DEF BeginSetup
  <1>2. CASE row = NoRow
    <2>1. /\ pc' = "materialize"
          /\ NoTables
          /\ UNCHANGED <<disk, cont, torn>>
      BY <1>2 DEF BeginSetup, Goto
    <2>2. PlaceOK'
      BY <1>2, <2>1 DEF WorkspaceInv, PlaceOK, Transitions, NoTables
    <2> QED
      BY <2>1, <2>2, QuietKeeps
  <1> QED
    BY <1>1, <1>2

LEMMA MaterializeKeeps == WorkspaceInv /\ Materialize => WorkspaceInv'
  <1> SUFFICES ASSUME WorkspaceInv, Materialize PROVE WorkspaceInv'
    OBVIOUS
  <1>1. PlaceOK'
    BY DEF WorkspaceInv, Materialize, PlaceOK, Transitions, Goto, NoTables, Materialized
  <1> QED
    BY <1>1, QuietKeeps DEF Materialize

\* A step that makes the directory, its marker, its repository or its first commit.
LEMMA MakingKeeps ==
    WorkspaceInv /\ (MakeDirectory \/ WriteMarker \/ InitGit \/ CommitInitial) => WorkspaceInv'
  <1> SUFFICES ASSUME WorkspaceInv, MakeDirectory \/ WriteMarker \/ InitGit \/ CommitInitial
               PROVE  WorkspaceInv'
    OBVIOUS
  <1> USE DEF WorkspaceInv
  <1>1. /\ row = NoRow
        /\ NoTables
        /\ UNCHANGED <<torn, cont>>
    BY DEF MakeDirectory, WriteMarker, InitGit, CommitInitial, DiskStep, PlaceOK
  <1>2. TablesOK' /\ RowOK' /\ OwnsOK' /\ row' = NoRow /\ row.status = "NONE"
    BY <1>1, TablesStay DEF NoTables, NoRow
  <1>3. WholeOK'
    BY <1>2 DEF WholeOK, NoRow
  <1>4. disk \in [root : BOOLEAN, marker : BOOLEAN, git : BOOLEAN,
                  head : (SUBSET Changed) \cup {Unborn}, work : SUBSET Changed]
    BY DEF DiskOK
  <1>5. CASE MakeDirectory
    <2>1. /\ pc' = "marker"
          /\ disk' = [disk EXCEPT !.root = TRUE]
      BY <1>5 DEF MakeDirectory, DiskStep, Goto
    <2>2. DiskOK' /\ HeadOK'
      BY <1>1, <1>2, <1>4, <2>1 DEF DiskOK, HeadOK
    <2>3. PlaceOK'
      BY <1>1, <1>2, <1>4, <2>1 DEF PlaceOK, Transitions
    <2> QED
      BY <1>2, <1>3, <2>2, <2>3
  <1>6. CASE WriteMarker
    <2>1. /\ pc = "marker" /\ pc' = "init"
          /\ disk' = [disk EXCEPT !.marker = TRUE]
      BY <1>6 DEF WriteMarker, DiskStep, Goto
    <2>2. DiskOK' /\ HeadOK'
      BY <1>1, <1>2, <1>4, <2>1 DEF DiskOK, HeadOK
    <2>3. PlaceOK'
      BY <1>1, <1>2, <1>4, <2>1 DEF PlaceOK, Transitions
    <2> QED
      BY <1>2, <1>3, <2>2, <2>3
  <1>7. CASE InitGit
    <2>1. /\ pc = "init" /\ pc' = "commit"
          /\ disk' = [disk EXCEPT !.git = TRUE]
      BY <1>7 DEF InitGit, DiskStep, Goto
    <2>2. DiskOK' /\ HeadOK'
      BY <1>1, <1>2, <1>4, <2>1 DEF DiskOK, HeadOK
    <2>3. PlaceOK'
      BY <1>1, <1>2, <1>4, <2>1 DEF PlaceOK, Transitions
    <2> QED
      BY <1>2, <1>3, <2>2, <2>3
  <1>8. CASE CommitInitial
    <2>1. /\ pc = "commit" /\ pc' = "insert"
          /\ disk' = [disk EXCEPT !.head = {}]
      BY <1>8 DEF CommitInitial, DiskStep, Goto
    <2>2. disk.root
      BY <2>1 DEF PlaceOK
    <2>3. DiskOK' /\ HeadOK'
      BY <1>1, <1>2, <1>4, <2>1, <2>2 DEF DiskOK, HeadOK
    <2>4. PlaceOK'
      BY <1>1, <1>2, <1>4, <2>1 DEF PlaceOK, Transitions, Materialized
    <2> QED
      BY <1>2, <1>3, <2>3, <2>4
  <1> QED
    BY <1>5, <1>6, <1>7, <1>8

LEMMA InsertRowKeeps ==
    ASSUME WorkspaceInv, NEW t \in Times, InsertRow(t)
    PROVE  WorkspaceInv'
  <1> USE DEF WorkspaceInv
  <1>1. /\ pc = "insert" /\ pc' = "project"
        /\ row' = [status |-> "MATERIALIZED", created |-> t]
        /\ UNCHANGED <<disk, made, cont, seen, torn, lifecycleVars>>
    BY DEF InsertRow, Goto
  <1>2. row = NoRow /\ Materialized
    BY <1>1 DEF PlaceOK
  <1>3. row.status = "NONE" /\ row'.status = "MATERIALIZED"
    BY <1>1, <1>2 DEF NoRow
  <1>4. TablesOK' /\ DiskOK'
    BY <1>1 DEF TablesOK, DiskOK, lifecycleVars
  <1>5. RowOK'
    BY <1>1 DEF RowOK
  <1>6. HeadOK' /\ WholeOK' /\ OwnsOK'
    BY <1>1, <1>3 DEF HeadOK, WholeOK, OwnsOK, Owned
  <1>7. PlaceOK'
    BY <1>1, <1>2, <1>3 DEF PlaceOK, Transitions, Materialized
  <1> QED
    BY <1>4, <1>5, <1>6, <1>7

LEMMA CreateDemoProjectKeeps ==
    ASSUME WorkspaceInv, NEW t \in Times, NEW u \in Times, CreateDemoProject(t, u)
    PROVE  WorkspaceInv' /\ TablesGrow
  <1> USE DEF WorkspaceInv
  <1> DEFINE p == Fresh(Projects, DOMAIN projects)
  <1>1. /\ pc = "project" /\ pc' = "mission"
        /\ DOMAIN projects # Projects
        /\ createProject(p, t)
        /\ row' = [status |-> "LOADING", created |-> row.created, project |-> p]
        /\ made' = made \cup {p}
        /\ UNCHANGED <<disk, cont, seen, torn>>
    BY DEF CreateDemoProject, Goto
  <1>2. p \in Projects
    BY <1>1 DEF Fresh, TablesOK
  <1> HIDE DEF p
  <1>3. row.status = "MATERIALIZED" /\ Materialized
    BY <1>1 DEF PlaceOK
  <1>4. row.created \in Times /\ made = {}
    BY <1>3, RowShape DEF OwnsOK, Owned
  <1>5. TablesOK' /\ TablesGrow
    BY <1>1, <1>2, CreateProjectGrows
  <1>6. DiskOK'
    BY <1>1 DEF DiskOK
  <1>7. RowOK'
    BY <1>1, <1>2, <1>4 DEF RowOK
  <1>8. row'.status = "LOADING" /\ row'.project = p
    BY <1>1
  <1>9. HeadOK' /\ WholeOK' /\ OwnsOK'
    BY <1>1, <1>3, <1>4, <1>8 DEF HeadOK, WholeOK, OwnsOK, Owned
  <1>10. PlaceOK'
    BY <1>1, <1>3, <1>8 DEF PlaceOK, Transitions, Materialized
  <1> QED
    BY <1>5, <1>6, <1>7, <1>9, <1>10

LEMMA CreateDemoMissionKeeps ==
    ASSUME WorkspaceInv, NEW t \in Times, NEW u \in Times, CreateDemoMission(t, u)
    PROVE  WorkspaceInv' /\ TablesGrow
  <1> USE DEF WorkspaceInv
  <1> DEFINE m == Fresh(Missions, DOMAIN missions)
  <1>1. /\ pc = "mission" /\ pc' = "register"
        /\ DOMAIN missions # Missions
        /\ createMission(row.project, m, t)
        /\ row' = [status |-> "LOADING", created |-> row.created, project |-> row.project,
                   mission |-> m]
        /\ UNCHANGED <<disk, made, cont, seen, torn>>
    BY DEF CreateDemoMission, Goto
  <1>2. m \in Missions
    BY <1>1 DEF Fresh, TablesOK
  <1> HIDE DEF m
  <1>3. row.status = "LOADING" /\ Materialized
    BY <1>1 DEF PlaceOK
  <1>4. row.created \in Times /\ made = {row.project} /\ row.project \in Projects
    BY <1>3, RowShape DEF OwnsOK, Owned, NoRow
  <1>5. /\ TablesOK' /\ TablesGrow
        /\ row.project \in DOMAIN projects'
        /\ m \in DOMAIN missions' /\ missions'[m].project = row.project
    BY <1>1, <1>2, <1>4, CreateMissionGrows
  <1>6. DiskOK'
    BY <1>1 DEF DiskOK
  <1>7. RowOK'
    BY <1>1, <1>2, <1>4 DEF RowOK
  <1>8. /\ row'.status = "LOADING" /\ row'.project = row.project /\ row'.mission = m
        /\ "mission" \in DOMAIN row'
    BY <1>1
  <1>9. HeadOK' /\ WholeOK' /\ OwnsOK'
    BY <1>1, <1>3, <1>4, <1>8 DEF HeadOK, WholeOK, OwnsOK, Owned
  <1>10. ScopeThere'
    BY <1>5, <1>8 DEF ScopeThere
  <1>11. PlaceOK'
    BY <1>1, <1>3, <1>8, <1>10 DEF PlaceOK, Transitions, Materialized
  <1> QED
    BY <1>5, <1>6, <1>7, <1>9, <1>11

LEMMA RegisterDemoRootKeeps ==
    ASSUME WorkspaceInv, RegisterDemoRoot
    PROVE  WorkspaceInv' /\ TablesGrow
  <1> USE DEF WorkspaceInv
  <1>1. /\ pc = "register" /\ pc' = "capture"
        /\ register(row.project, DemoRoot)
        /\ UNCHANGED <<disk, row, made, cont, seen, torn>>
    BY DEF RegisterDemoRoot, Goto
  <1>2. row.status = "LOADING" /\ Materialized /\ "mission" \in DOMAIN row /\ ScopeThere
    BY <1>1 DEF PlaceOK
  <1>3. row.project \in Projects
    BY <1>2, RowShape DEF Owned
  <1>4. TablesOK' /\ TablesGrow /\ RootTaken'
    BY <1>1, <1>3, RegisterGrows, ServerAndRoot DEF RootTaken
  <1>5. ScopeThere'
    BY <1>1, <1>2, <1>4, ScopeStays
  <1>6. DiskOK' /\ RowOK' /\ HeadOK' /\ OwnsOK' /\ WholeOK'
    BY <1>1, <1>2 DEF DiskOK, RowOK, HeadOK, OwnsOK, Owned, WholeOK
  <1>7. PlaceOK'
    BY <1>1, <1>2, <1>4, <1>5 DEF PlaceOK, Transitions, Materialized
  <1> QED
    BY <1>4, <1>6, <1>7

\* The commit that was captured, or found at the capture, is a tree.
LEMMA SeenIsTree ==
    ASSUME WorkspaceInv, disk.head # Unborn
    PROVE  disk.head \in SUBSET Changed
  BY DEF WorkspaceInv, DiskOK

LEMMA CapturesKeep == WorkspaceInv /\ Captures => WorkspaceInv'
  <1> SUFFICES ASSUME WorkspaceInv, Captures PROVE WorkspaceInv'
    OBVIOUS
  <1>1. /\ \/ pc = "capture" /\ pc' = "finish"
           \/ pc = "recapture" /\ pc' = "finishfix"
        /\ disk.head # Unborn
        /\ seen' = disk.head
        /\ NoTables
        /\ UNCHANGED <<disk, cont, torn>>
    BY DEF Captures, CaptureHead, Goto
  <1>2. PlaceOK'
    BY <1>1 DEF WorkspaceInv, PlaceOK, Transitions, NoTables, lifecycleVars, Materialized,
                ScopeThere, RootTaken
  <1> QED
    BY <1>1, <1>2, QuietKeeps

LEMMA FinishSetupKeeps ==
    ASSUME WorkspaceInv, NEW t \in Times, FinishSetup(t)
    PROVE  WorkspaceInv'
  <1> USE DEF WorkspaceInv
  <1>1. /\ pc = "finish" /\ pc' = "idle"
        /\ row' = [status |-> "READY", created |-> row.created, project |-> row.project,
                   mission |-> row.mission, stage |-> "INITIAL_BLOCKED",
                   initial |-> seen, corrected |-> {}]
        /\ UNCHANGED <<disk, made, cont, torn, lifecycleVars>>
    BY DEF FinishSetup, Advance, Goto
  <1>2. /\ row.status = "LOADING" /\ "mission" \in DOMAIN row
        /\ ScopeThere /\ RootTaken /\ Materialized
        /\ disk.head # Unborn /\ seen = disk.head
    BY <1>1 DEF PlaceOK
  <1>3. /\ row.created \in Times /\ row.project \in Projects /\ row.mission \in Missions
        /\ made = {row.project}
    BY <1>2, RowShape DEF OwnsOK, Owned
  <1>4. seen \in SUBSET Changed /\ (torn \/ seen = {})
    BY <1>2, SeenIsTree DEF HeadOK
  <1>5. /\ row'.status = "READY" /\ row'.project = row.project /\ row'.mission = row.mission
        /\ row'.stage = "INITIAL_BLOCKED" /\ row'.initial = seen
    BY <1>1
  <1>6. RowOK'
    BY <1>1, <1>3, <1>4 DEF RowOK
  <1>7. TablesOK' /\ DiskOK' /\ HeadOK'
    BY <1>1, <1>5 DEF TablesOK, DiskOK, HeadOK, lifecycleVars
  <1>8. OwnsOK'
    BY <1>1, <1>3, <1>5 DEF OwnsOK, Owned
  <1>9. WholeOK'
    BY <1>1, <1>2, <1>4, <1>5 DEF WholeOK, ScopeThere, RootTaken, Materialized, lifecycleVars
  <1>10. PlaceOK'
    BY <1>1 DEF PlaceOK, Transitions
  <1> QED
    BY <1>6, <1>7, <1>8, <1>9, <1>10

-----------------------------------------------------------------------------
\* The steps of the correction and of the demonstration of staleness.
LEMMA BeginCorrectionKeeps == WorkspaceInv /\ BeginCorrection => WorkspaceInv'
  <1> SUFFICES ASSUME WorkspaceInv, BeginCorrection PROVE WorkspaceInv'
    OBVIOUS
  <1>1. PlaceOK'
    BY DEF WorkspaceInv, BeginCorrection, PlaceOK, Transitions, Goto, NoTables
  <1> QED
    BY <1>1, QuietKeeps DEF BeginCorrection

\* A step of a READY workspace that adds to the files, or commits them.
LEMMA EditKeeps ==
    ASSUME WorkspaceInv, row.status = "READY", NoTables, UNCHANGED torn,
           disk' \in [root : BOOLEAN, marker : BOOLEAN, git : BOOLEAN,
                      head : (SUBSET Changed) \cup {Unborn}, work : SUBSET Changed],
           disk'.root = disk.root, disk'.marker = disk.marker, disk'.git = disk.git,
           disk.work \subseteq disk'.work,
           disk'.head = disk.head \/ (row.stage = "INITIAL_BLOCKED" /\ disk'.head # Unborn),
           PlaceOK'
    PROVE  WorkspaceInv'
  <1> USE DEF WorkspaceInv
  <1>1. TablesOK' /\ RowOK' /\ OwnsOK' /\ row' = row
    BY TablesStay DEF NoTables
  <1>2. Materialized /\ ScopeThere /\ RootTaken /\ disk.head # Unborn
    BY DEF WholeOK
  <1>3. DiskOK' /\ HeadOK'
    BY <1>1, <1>2 DEF DiskOK, HeadOK, Materialized
  <1>4. WholeOK'
    BY <1>1, <1>2 DEF WholeOK, NoTables, lifecycleVars, ScopeThere, RootTaken, Materialized
  <1> QED
    BY <1>1, <1>3, <1>4

LEMMA WriteCorrectionKeeps == WorkspaceInv /\ WriteCorrection => WorkspaceInv'
  <1> SUFFICES ASSUME WorkspaceInv, WriteCorrection PROVE WorkspaceInv'
    OBVIOUS
  <1>1. /\ pc = "edit" /\ pc' = "stage"
        /\ disk' = [disk EXCEPT !.work = @ \cup {"correction"}]
        /\ NoTables
        /\ UNCHANGED <<cont, torn>>
    BY DEF WriteCorrection, DiskStep, Goto
  <1>2. row.status = "READY" /\ row.stage = "INITIAL_BLOCKED"
    BY <1>1 DEF WorkspaceInv, PlaceOK, Transitions
  <1>3. disk \in [root : BOOLEAN, marker : BOOLEAN, git : BOOLEAN,
                  head : (SUBSET Changed) \cup {Unborn}, work : SUBSET Changed]
    BY DEF WorkspaceInv, DiskOK
  <1>4. "correction" \in Changed
    BY DEF Changed
  <1>5. /\ disk' \in [root : BOOLEAN, marker : BOOLEAN, git : BOOLEAN,
                      head : (SUBSET Changed) \cup {Unborn}, work : SUBSET Changed]
        /\ disk'.root = disk.root /\ disk'.marker = disk.marker /\ disk'.git = disk.git
        /\ disk'.work = disk.work \cup {"correction"}
        /\ disk'.head = disk.head
    BY <1>1, <1>3, <1>4
  <1>6. PlaceOK'
    BY <1>1, <1>2, <1>5 DEF WorkspaceInv, PlaceOK, Transitions, NoTables
  <1> QED
    BY <1>1, <1>2, <1>5, <1>6, EditKeeps

LEMMA CommitCorrectionKeeps == WorkspaceInv /\ CommitCorrection => WorkspaceInv'
  <1> SUFFICES ASSUME WorkspaceInv, CommitCorrection PROVE WorkspaceInv'
    OBVIOUS
  <1>1. /\ pc = "stage" /\ pc' = "recapture"
        /\ disk' = [disk EXCEPT !.head = disk.work]
        /\ NoTables
        /\ UNCHANGED <<cont, torn>>
    BY DEF CommitCorrection, DiskStep, Goto
  <1>2. row.status = "READY" /\ row.stage = "INITIAL_BLOCKED" /\ "correction" \in disk.work
    BY <1>1 DEF WorkspaceInv, PlaceOK, Transitions
  <1>3. disk \in [root : BOOLEAN, marker : BOOLEAN, git : BOOLEAN,
                  head : (SUBSET Changed) \cup {Unborn}, work : SUBSET Changed]
    BY DEF WorkspaceInv, DiskOK
  <1>4. disk.work # Unborn
    BY <1>3, UnbornIsNoTree
  <1>5. /\ disk' \in [root : BOOLEAN, marker : BOOLEAN, git : BOOLEAN,
                      head : (SUBSET Changed) \cup {Unborn}, work : SUBSET Changed]
        /\ disk'.root = disk.root /\ disk'.marker = disk.marker /\ disk'.git = disk.git
        /\ disk'.work = disk.work
        /\ disk'.head = disk.work
    BY <1>1, <1>3
  <1>6. PlaceOK'
    BY <1>1, <1>2, <1>4, <1>5 DEF WorkspaceInv, PlaceOK, Transitions, NoTables
  <1> QED
    BY <1>1, <1>2, <1>4, <1>5, <1>6, EditKeeps

LEMMA BeginStalenessKeeps == WorkspaceInv /\ BeginStaleness => WorkspaceInv'
  <1> SUFFICES ASSUME WorkspaceInv, BeginStaleness PROVE WorkspaceInv'
    OBVIOUS
  <1>1. /\ pc' = "recheck"
        /\ row.status = "READY" /\ row.stage = "CORRECTED_READY"
        /\ disk' = [disk EXCEPT !.work = @ \cup {"stale"}]
        /\ NoTables
        /\ UNCHANGED <<cont, torn>>
    BY DEF BeginStaleness, Goto
  <1>2. disk \in [root : BOOLEAN, marker : BOOLEAN, git : BOOLEAN,
                  head : (SUBSET Changed) \cup {Unborn}, work : SUBSET Changed]
    BY DEF WorkspaceInv, DiskOK
  <1>3. "stale" \in Changed
    BY DEF Changed
  <1>4. /\ disk' \in [root : BOOLEAN, marker : BOOLEAN, git : BOOLEAN,
                      head : (SUBSET Changed) \cup {Unborn}, work : SUBSET Changed]
        /\ disk'.root = disk.root /\ disk'.marker = disk.marker /\ disk'.git = disk.git
        /\ disk'.work = disk.work \cup {"stale"}
        /\ disk'.head = disk.head
    BY <1>1, <1>2, <1>3
  <1>5. PlaceOK'
    BY <1>1, <1>4 DEF WorkspaceInv, PlaceOK, Transitions, NoTables
  <1> QED
    BY <1>1, <1>4, <1>5, EditKeeps

LEMMA FinishCorrectionKeeps ==
    ASSUME WorkspaceInv, NEW t \in Times, FinishCorrection(t)
    PROVE  WorkspaceInv'
  <1> USE DEF WorkspaceInv
  <1>1. /\ pc = "finishfix" /\ pc' = "idle"
        /\ row' = [row EXCEPT !.stage = "CORRECTED_READY", !.corrected = seen]
        /\ UNCHANGED <<disk, made, cont, torn, lifecycleVars>>
    BY DEF FinishCorrection, Advance, Goto
  <1>2. /\ row.status = "READY"
        /\ disk.head # Unborn /\ "correction" \in disk.head /\ seen = disk.head
    BY <1>1 DEF PlaceOK, Transitions
  <1>3. seen \in SUBSET Changed
    BY <1>2, SeenIsTree
  <1>4. row \in [status : {"READY"}, created : Times, project : Projects, mission : Missions,
                 stage : {"INITIAL_BLOCKED", "CORRECTED_READY", "READY_STALE"},
                 initial : SUBSET Changed, corrected : SUBSET Changed]
    BY <1>2, RowShape
  <1>5. /\ row' \in [status : {"READY"}, created : Times, project : Projects, mission : Missions,
                     stage : {"INITIAL_BLOCKED", "CORRECTED_READY", "READY_STALE"},
                     initial : SUBSET Changed, corrected : SUBSET Changed]
        /\ row'.status = "READY" /\ row'.project = row.project /\ row'.mission = row.mission
        /\ row'.stage = "CORRECTED_READY" /\ row'.corrected = seen
    BY <1>1, <1>3, <1>4
  <1>6. RowOK'
    BY <1>5 DEF RowOK
  <1>7. TablesOK' /\ DiskOK' /\ HeadOK' /\ OwnsOK'
    BY <1>1, <1>2, <1>5 DEF TablesOK, DiskOK, HeadOK, lifecycleVars, OwnsOK, Owned
  <1>8. WholeOK'
    BY <1>1, <1>2, <1>5 DEF WholeOK, ScopeThere, RootTaken, Materialized, lifecycleVars
  <1>9. PlaceOK'
    BY <1>1 DEF PlaceOK, Transitions
  <1> QED
    BY <1>6, <1>7, <1>8, <1>9

LEMMA FinishStalenessKeeps ==
    ASSUME WorkspaceInv, NEW t \in Times, FinishStaleness(t)
    PROVE  WorkspaceInv'
  <1> USE DEF WorkspaceInv
  <1>1. /\ pc = "recheck" /\ pc' = "idle"
        /\ row' = [row EXCEPT !.stage = "READY_STALE"]
        /\ UNCHANGED <<disk, made, cont, torn, lifecycleVars>>
    BY DEF FinishStaleness, Advance, Goto
  <1>2. /\ row.status = "READY" /\ row.stage = "CORRECTED_READY" /\ "stale" \in disk.work
    BY <1>1 DEF PlaceOK, Transitions
  <1>3. row \in [status : {"READY"}, created : Times, project : Projects, mission : Missions,
                 stage : {"INITIAL_BLOCKED", "CORRECTED_READY", "READY_STALE"},
                 initial : SUBSET Changed, corrected : SUBSET Changed]
    BY <1>2, RowShape
  <1>4. /\ row' \in [status : {"READY"}, created : Times, project : Projects, mission : Missions,
                     stage : {"INITIAL_BLOCKED", "CORRECTED_READY", "READY_STALE"},
                     initial : SUBSET Changed, corrected : SUBSET Changed]
        /\ row'.status = "READY" /\ row'.project = row.project /\ row'.mission = row.mission
        /\ row'.stage = "READY_STALE" /\ row'.corrected = row.corrected
    BY <1>1, <1>3
  <1>5. RowOK'
    BY <1>4 DEF RowOK
  <1>6. TablesOK' /\ DiskOK' /\ HeadOK' /\ OwnsOK'
    BY <1>1, <1>2, <1>4 DEF TablesOK, DiskOK, HeadOK, lifecycleVars, OwnsOK, Owned
  <1>7. WholeOK'
    BY <1>1, <1>2, <1>4 DEF WholeOK, ScopeThere, RootTaken, Materialized, lifecycleVars
  <1>8. PlaceOK'
    BY <1>1 DEF PlaceOK, Transitions
  <1> QED
    BY <1>5, <1>6, <1>7, <1>8

-----------------------------------------------------------------------------
\* Failures, users, and what happens to the processes.
LEMMA FailuresKeep == WorkspaceInv /\ (StepFails \/ RemovalFails) => WorkspaceInv'
  <1> SUFFICES ASSUME WorkspaceInv, StepFails \/ RemovalFails PROVE WorkspaceInv'
    OBVIOUS
  <1>1. /\ pc' \in {"undo", "idle"}
        /\ NoTables
        /\ UNCHANGED <<disk, cont, torn>>
    BY DEF StepFails, RemovalFails, Goto
  <1>2. PlaceOK'
    BY <1>1 DEF WorkspaceInv, PlaceOK, Transitions
  <1> QED
    BY <1>1, <1>2, QuietKeeps

LEMMA UserStepKeeps == WorkspaceInv /\ UserStep => WorkspaceInv' /\ TablesGrow
  <1> SUFFICES ASSUME WorkspaceInv, UserStep PROVE WorkspaceInv' /\ TablesGrow
    OBVIOUS
  <1> USE DEF WorkspaceInv
  <1>1. /\ LifecycleNext
        /\ UNCHANGED <<disk, row, made, pc, cont, seen, torn>>
    BY DEF UserStep, demoVars, local
  <1>2. TablesOK' /\ TablesGrow
    BY <1>1, LifecycleGrows
  <1>3. (ScopeThere => ScopeThere') /\ (RootTaken => RootTaken')
    BY <1>1, <1>2, ScopeStays
  <1>4. DiskOK' /\ RowOK' /\ HeadOK' /\ OwnsOK'
    BY <1>1 DEF DiskOK, RowOK, HeadOK, OwnsOK, Owned
  <1>5. WholeOK'
    BY <1>1, <1>3 DEF WholeOK, Materialized
  <1>6. PlaceOK'
    BY <1>1, <1>3 DEF PlaceOK, Materialized
  <1> QED
    BY <1>2, <1>4, <1>5, <1>6

LEMMA DatabaseStepKeeps == WorkspaceInv /\ DatabaseStep => WorkspaceInv'
  <1> SUFFICES ASSUME WorkspaceInv, DatabaseStep PROVE WorkspaceInv'
    OBVIOUS
  <1>1. /\ NoTables
        /\ UNCHANGED <<disk, torn>>
        /\ \/ UNCHANGED local
           \/ pc' = "idle" /\ cont' = "idle"
    BY DEF DatabaseStep, ServerStops, Goto, NoTables
  <1>2. PlaceOK'
    <2>1. CASE UNCHANGED local
      BY <1>1, <2>1 DEF WorkspaceInv, PlaceOK, local, NoTables, lifecycleVars, Materialized,
                        ScopeThere, RootTaken
    <2>2. CASE pc' = "idle" /\ cont' = "idle"
      BY <2>2 DEF PlaceOK, Transitions
    <2> QED
      BY <1>1, <2>1, <2>2
  <1> QED
    BY <1>1, <1>2, QuietKeeps

-----------------------------------------------------------------------------
\* What OthersSurvive says of a step.
Survive ==
    \A p \in DOMAIN projects \ made :
        /\ p \in DOMAIN projects'
        /\ missionsForProject(p) \subseteq DOMAIN missions'
        /\ p \in DOMAIN repositories => p \in DOMAIN repositories'

LEMMA GrowthSurvives == TablesGrow \/ UNCHANGED lifecycleVars => Survive
  BY DEF Survive, TablesGrow, lifecycleVars, missionsForProject

LEMMA ClearRowsSpares ==
    ASSUME WorkspaceInv, NEW then, ClearRows(then)
    PROVE  Survive
  <1>1. CASE row = NoRow \/ row.status = "MATERIALIZED"
    BY <1>1, GrowthSurvives DEF ClearRows
  <1>2. CASE ~(row = NoRow \/ row.status = "MATERIALIZED")
    <2>1. made = {row.project}
      BY <1>2, RowShape DEF WorkspaceInv, OwnsOK, Owned
    <2>2. DeleteScope(row.project)
      BY <1>2 DEF ClearRows
    <2> QED
      BY <2>1, <2>2 DEF Survive, DeleteScope, Without, missionsForProject
  <1> QED
    BY <1>1, <1>2

LEMMA DemoStepKeeps == WorkspaceInv /\ (DemoCall \/ DemoStep) => WorkspaceInv' /\ Survive
  <1> SUFFICES ASSUME WorkspaceInv, DemoCall \/ DemoStep PROVE WorkspaceInv' /\ Survive
    OBVIOUS
  <1>1. CASE BeginSetup
    <2>1. Survive
      BY <1>1, ClearRowsSpares, GrowthSurvives DEF BeginSetup, NoTables
    <2> QED
      BY <1>1, <2>1, BeginSetupKeeps
  <1>2. CASE BeginReset \/ Undo
    BY <1>2, ClearRowsKeeps, ClearRowsSpares DEF BeginReset, Undo
  <1>3. CASE BeginCorrection \/ BeginStaleness
    BY <1>3, BeginCorrectionKeeps, BeginStalenessKeeps, GrowthSurvives
       DEF BeginCorrection, BeginStaleness, NoTables
  <1>4. CASE CheckOwner \/ RemoveSome \/ RemoveAll
    BY <1>4, CheckOwnerKeeps, RemovalKeeps, GrowthSurvives
       DEF CheckOwner, RemoveSome, RemoveAll, NoTables
  <1>5. CASE Materialize \/ MakeDirectory \/ WriteMarker \/ InitGit \/ CommitInitial
    BY <1>5, MaterializeKeeps, MakingKeeps, GrowthSurvives
       DEF Materialize, MakeDirectory, WriteMarker, InitGit, CommitInitial, DiskStep, NoTables
  <1>6. CASE \E t \in Times : InsertRow(t) \/ FinishSetup(t) \/ FinishCorrection(t)
                                 \/ FinishStaleness(t)
    BY <1>6, InsertRowKeeps, FinishSetupKeeps, FinishCorrectionKeeps, FinishStalenessKeeps,
       GrowthSurvives
       DEF InsertRow, FinishSetup, FinishCorrection, FinishStaleness, Advance
  <1>7. CASE \E t, u \in Times : CreateDemoProject(t, u) \/ CreateDemoMission(t, u)
    BY <1>7, CreateDemoProjectKeeps, CreateDemoMissionKeeps, GrowthSurvives
  <1>8. CASE RegisterDemoRoot
    BY <1>8, RegisterDemoRootKeeps, GrowthSurvives
  <1>9. CASE Captures
    BY <1>9, CapturesKeep, GrowthSurvives DEF Captures, CaptureHead, NoTables
  <1>10. CASE WriteCorrection \/ CommitCorrection
    BY <1>10, WriteCorrectionKeeps, CommitCorrectionKeeps, GrowthSurvives
       DEF WriteCorrection, CommitCorrection, DiskStep, NoTables
  <1>11. CASE StepFails \/ RemovalFails
    BY <1>11, FailuresKeep, GrowthSurvives DEF StepFails, RemovalFails, NoTables
  <1> QED
    BY <1>1, <1>2, <1>3, <1>4, <1>5, <1>6, <1>7, <1>8, <1>9, <1>10, <1>11
       DEF DemoCall, DemoStep

LEMMA WorkspaceStep ==
    WorkspaceInv /\ [WorkspaceNext]_workspaceVars =>
        WorkspaceInv' /\ Survive /\ [DbNext]_dbVars
  <1> SUFFICES ASSUME WorkspaceInv, [WorkspaceNext]_workspaceVars
               PROVE  WorkspaceInv' /\ Survive /\ [DbNext]_dbVars
    OBVIOUS
  <1>1. CASE Running /\ (DemoCall \/ DemoStep) /\ UNCHANGED <<dbVars, calls>>
    BY <1>1, DemoStepKeeps
  <1>2. CASE Running /\ UserStep /\ UNCHANGED dbVars
    BY <1>2, UserStepKeeps, GrowthSurvives
  <1>3. CASE DatabaseStep
    <2>1. DbNext
      BY <1>3, ServerAndRoot DEF DatabaseStep, ServerStops, DbNext
    <2>2. UNCHANGED lifecycleVars
      BY <1>3 DEF DatabaseStep
    <2> QED
      BY <1>3, <2>1, <2>2, DatabaseStepKeeps, GrowthSurvives
  <1>4. CASE UNCHANGED workspaceVars
    <2>1. /\ NoTables
          /\ UNCHANGED <<disk, torn, pc, cont, seen, dbVars, lifecycleVars>>
      BY <1>4 DEF workspaceVars, demoVars, local, NoTables
    <2>2. PlaceOK'
      BY <2>1 DEF WorkspaceInv, PlaceOK, NoTables, lifecycleVars, Materialized, ScopeThere,
                  RootTaken
    <2> QED
      BY <2>1, <2>2, QuietKeeps, GrowthSurvives
  <1> QED
    BY <1>1, <1>2, <1>3, <1>4 DEF WorkspaceNext

LEMMA WorkspaceInvariant == WorkspaceSpec => []WorkspaceInv
  <1>1. WorkspaceInv /\ [WorkspaceNext]_workspaceVars => WorkspaceInv'
    BY WorkspaceStep
  <1> QED
    BY <1>1, WorkspaceInvInit, PTL DEF WorkspaceSpec

\* Wherever the process dies and whatever users do meanwhile, a READY workspace
\* has its Project, its Mission, its repository and the commit it was assessed
\* on, and what the demo made is never without the row that can delete it
\* (setup, resetInternal).
THEOREM SetupCorrect == WorkspaceSpec => []SetupIsWhole
  <1>1. WorkspaceInv => SetupIsWhole
    <2> SUFFICES ASSUME WorkspaceInv PROVE SetupIsWhole
      OBVIOUS
    <2>1. ReadyIsWhole
      BY DEF WorkspaceInv, WholeOK, ReadyIsWhole, ScopeThere, RootTaken, missionsForProject
    <2>2. NoOrphanProject
      BY DEF WorkspaceInv, OwnsOK, Owned, NoOrphanProject
    <2> QED
      BY <2>1, <2>2 DEF SetupIsWhole
  <1> QED
    BY <1>1, WorkspaceInvariant, PTL

\* No step of the demo, not its reset nor what a failed setup undoes, takes a
\* Project, a Mission or a registration of a user away (resetInternal).
THEOREM OthersAreSpared == WorkspaceSpec => OthersSurvive
  <1>1. WorkspaceInv /\ [WorkspaceNext]_workspaceVars => [Survive]_workspaceVars
    BY WorkspaceStep
  <1>2. OthersSurvive <=> [][Survive]_workspaceVars
    BY DEF OthersSurvive, Survive
  <1> QED
    BY <1>1, <1>2, WorkspaceInvariant, PTL DEF WorkspaceSpec

\* The demo and its crashes leave the opening of the database what it is, so
\* that all that is proved of it holds under them: what is served has been
\* migrated, and refusals for the schema stand (openDatabase, DemoWorkspaceService).
THEOREM WorkspaceImplementsDatabase == WorkspaceSpec => DbSpec
  <1>1. WorkspaceInit => DbInit
    BY DEF WorkspaceInit
  <1>2. WorkspaceInv /\ [WorkspaceNext]_workspaceVars => [DbNext]_dbVars
    BY WorkspaceStep
  <1> QED
    BY <1>1, <1>2, WorkspaceInvariant, PTL DEF WorkspaceSpec, DbSpec
=============================================================================
