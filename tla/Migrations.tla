----------------------------- MODULE Migrations -----------------------------
(***************************************************************************)
(* Opening the database (internal/database): every migration newer than    *)
(* PRAGMA user_version is executed in a transaction of its own, together   *)
(* with the version it leads to.  The process may die between any two      *)
(* statements; a dead process is started again and opens the database      *)
(* anew.  Executing a migration twice fails: its tables are there.         *)
(***************************************************************************)
EXTENDS Integers

CONSTANTS
    AvailableMigrations,  \* versions of the migrations this program has
    OldVersions,          \* versions the database may have when the program is installed
    MaxFaults             \* bound: crashes and failing statements

ASSUME MigrationsAssumption ==
    /\ AvailableMigrations \subseteq Nat \ {0} /\ OldVersions \subseteq Nat /\ MaxFaults \in Nat
    /\ \E n \in AvailableMigrations : \A m \in AvailableMigrations : m <= n

VARIABLES
    userVersion,     \* PRAGMA user_version, as committed
    schema,          \* the migrations whose statements are committed
    txn,             \* what the open transaction has done so far
    currentVersion,  \* currentVersion of applyMigrations
    at,              \* where Open stands
    faults           \* faults left

mgVars == <<userVersion, schema, txn, currentVersion, at, faults>>

NoTxn == [exec |-> {}, version |-> 0]
Positions == {"down", "loop", "exec", "record", "commit", "ready", "refused"}

SupportedVersion == CHOOSE n \in AvailableMigrations : \A m \in AvailableMigrations : m <= n

MigrationsInit ==
    /\ userVersion \in OldVersions
    /\ schema = 1..userVersion
    /\ txn = NoTxn /\ currentVersion = 0 /\ at = "down"
    /\ faults = MaxFaults

-----------------------------------------------------------------------------

\* Open: connect and read the version.  A newer database is left alone.
OpenDatabase ==
    /\ at = "down"
    /\ currentVersion' = userVersion
    /\ at' = IF userVersion > SupportedVersion THEN "refused" ELSE "loop"
    /\ UNCHANGED <<userVersion, schema, txn, faults>>

\* The next migration of the list that is newer than currentVersion.
NextMigration(n) == n \in AvailableMigrations /\ n > currentVersion /\
                    \A m \in AvailableMigrations : m > currentVersion => n <= m

\* Versions must be consecutive; without a newer migration Open is done.
BeginMigration ==
    /\ at = "loop"
    /\ at' = IF \A n \in AvailableMigrations : n <= currentVersion THEN "ready"
             ELSE IF NextMigration(currentVersion + 1) THEN "exec" ELSE "refused"
    /\ UNCHANGED <<userVersion, schema, txn, currentVersion, faults>>

\* tx.Exec(migration.sql), which fails on a schema that already has it.
ExecMigration ==
    /\ at = "exec" /\ currentVersion + 1 \notin schema
    /\ txn' = [txn EXCEPT !.exec = {currentVersion + 1}]
    /\ at' = "record"
    /\ UNCHANGED <<userVersion, schema, currentVersion, faults>>

\* A faulty variant: the version is recorded outside the transaction.
RecordAtOnce ==
    /\ userVersion' = currentVersion + 1
    /\ txn' = [txn EXCEPT !.version = currentVersion + 1]
\* PRAGMA user_version = n, inside the transaction.
Record ==
    /\ txn' = [txn EXCEPT !.version = currentVersion + 1]
    /\ UNCHANGED userVersion

RecordVersion ==
    /\ at = "record"
    /\ Record
    /\ at' = "commit"
    /\ UNCHANGED <<schema, currentVersion, faults>>

\* A faulty variant: the loop goes on with the version it read at first.
StaleVersion == currentVersion
\* currentVersion = migration.version
NewVersion == currentVersion + 1

CommitMigration ==
    /\ at = "commit"
    /\ schema' = schema \cup txn.exec /\ userVersion' = txn.version
    /\ txn' = NoTxn
    /\ currentVersion' = NewVersion
    /\ at' = "loop"
    /\ UNCHANGED faults

\* The statement that runs fails, the COMMIT too: rollback, Open returns an error
\* and the process ends; or the process dies.  SQLite drops the open transaction.
OpenEnds ==
    /\ at \notin {"down", "refused"} /\ faults > 0 /\ faults' = faults - 1
    /\ at' = "down" /\ txn' = NoTxn /\ currentVersion' = 0
    /\ UNCHANGED <<userVersion, schema>>

MigrationStep ==
    \/ OpenDatabase \/ BeginMigration \/ ExecMigration \/ RecordVersion \/ CommitMigration

MigrationsNext == MigrationStep \/ OpenEnds

MigrationsSpec == MigrationsInit /\ [][MigrationsNext]_mgVars

-----------------------------------------------------------------------------
(***************************************************************************)
(* Properties.                                                             *)
(***************************************************************************)

MigrationsTypeOK ==
    /\ userVersion \in Nat /\ schema \subseteq Nat
    /\ txn \in [exec : SUBSET Nat, version : Nat]
    /\ currentVersion \in Nat /\ at \in Positions /\ faults \in 0..MaxFaults

\* At every moment, also after a crash between two statements, the database holds
\* exactly the migrations its recorded version stands for: the next start neither
\* skips nor repeats one.
SchemaMatchesVersion == schema = 1..userVersion
=============================================================================
