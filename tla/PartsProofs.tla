---------------------------- MODULE PartsProofs -----------------------------
(***************************************************************************)
(* The parts together, and the two parts whose proofs are short: opening   *)
(* the database and the probe.                                             *)
(***************************************************************************)
EXTENDS Parts, WorkspaceProofs, AsyncLoggerProofs, TranscriptionProofs, EnsureTagProofs

-----------------------------------------------------------------------------
(***************************************************************************)
(* The database and its recorded version agree, for every list of          *)
(* migrations, every version found and any number of crashes.              *)
(***************************************************************************)

\* While Open works, the version it counts is the one committed, and the open
\* transaction holds the next migration, then its version too.
InStep ==
    /\ at \in {"loop", "exec", "record", "commit"} => currentVersion = userVersion
    /\ at \in {"record", "commit"} => txn.exec = {currentVersion + 1}
    /\ at = "commit" => txn.version = currentVersion + 1

\* The inductive invariant of opening the database.
MigrationsInv == MigrationsTypeOK /\ SchemaMatchesVersion /\ InStep

\* The invariant holds of the database found.
LEMMA MigrationsInitially == MigrationsInit => MigrationsInv
  BY MigrationsAssumption
  DEF MigrationsInit, MigrationsInv, MigrationsTypeOK, SchemaMatchesVersion, InStep, NoTxn, Positions

\* Every statement of Open, and every end of it, keeps the invariant.
LEMMA MigrationsPreserved == MigrationsInv /\ [MigrationsNext]_mgVars => MigrationsInv'
<1> SUFFICES ASSUME MigrationsInv, [MigrationsNext]_mgVars PROVE MigrationsInv'
  OBVIOUS
<1> USE MigrationsAssumption
    DEF MigrationsInv, MigrationsTypeOK, SchemaMatchesVersion, InStep, Positions
<1>1. CASE OpenDatabase
  BY <1>1 DEF OpenDatabase
<1>2. CASE BeginMigration
  BY <1>2 DEF BeginMigration
<1>3. CASE ExecMigration
  BY <1>3 DEF ExecMigration
<1>4. CASE RecordVersion
  BY <1>4 DEF RecordVersion, Record
<1>5. CASE CommitMigration
  BY <1>5 DEF CommitMigration, NewVersion, NoTxn
<1>6. CASE OpenEnds
  BY <1>6 DEF OpenEnds, NoTxn
<1>7. CASE UNCHANGED mgVars
  BY <1>7 DEF mgVars
<1> QED
  BY <1>1, <1>2, <1>3, <1>4, <1>5, <1>6, <1>7 DEF MigrationsNext, MigrationStep

\* Whatever migrations the program has and wherever a start is cut off, the
\* database holds exactly the migrations its user_version stands for: applying a
\* migration and recording it are one transaction.
THEOREM SchemaIsVersion == MigrationsSpec => []SchemaMatchesVersion
<1>1. MigrationsInv => SchemaMatchesVersion
  BY DEF MigrationsInv
<1> QED
  BY <1>1, MigrationsInitially, MigrationsPreserved, PTL DEF MigrationsSpec

-----------------------------------------------------------------------------
(***************************************************************************)
(* The single-flight probe, for any number of concurrent calls.            *)
(***************************************************************************)

Flying == {"direct", "images", "landing"}

\* A call leads the flight exactly while it flies, has not landed before, and what
\* it asks and finds follows the order of the transports.
FlightInv ==
    /\ \A c \in Calls : call[c] \in Flying <=> flight = c
    /\ \A c \in Calls : landed[c] # "no" => call[c] = "returned"
    /\ \A c \in Calls : call[c] = "images" => supports # "direct"
    /\ \A c \in Calls : call[c] = "waiting" => joined[c] \in Calls
    /\ \A c \in Calls : landed[c] \in {"no", "error", supports}

ProbeInv == ProbeTypeOK /\ ProbeTruthful /\ FlightInv

\* The invariant holds before the first call.
LEMMA ProbeInitially == ProbeInit => ProbeInv
  BY ProbeAssumption
  DEF ProbeInit, ProbeInv, ProbeTypeOK, ProbeTruthful, FlightInv, Flying, Answers

\* Every step of a call keeps it.
LEMMA ProbePreserved == ProbeInv /\ [ProbeNext]_pbVars => ProbeInv'
<1> SUFFICES ASSUME ProbeInv, [ProbeNext]_pbVars PROVE ProbeInv'
  OBVIOUS
<1> USE ProbeAssumption
    DEF ProbeInv, ProbeTypeOK, ProbeTruthful, FlightInv, Flying, Answers
<1>1. ASSUME NEW c \in Calls, BeginCall(c) PROVE ProbeInv'
  <2>1. CASE cached # "no"
    BY <1>1, <2>1 DEF BeginCall
  <2>2. CASE cached = "no" /\ flight # Nobody
    BY <1>1, <2>2 DEF BeginCall
  <2>3. CASE cached = "no" /\ flight = Nobody
    BY <1>1, <2>3 DEF BeginCall
  <2> QED
    BY <2>1, <2>2, <2>3
<1>2. ASSUME NEW c \in Calls, Attachment(c) PROVE ProbeInv'
  BY <1>2 DEF Attachment, AfterAttachment
<1>3. ASSUME NEW c \in Calls, AttachmentFails(c) PROVE ProbeInv'
  BY <1>3 DEF AttachmentFails
<1>4. ASSUME NEW c \in Calls, Land(c) PROVE ProbeInv'
  BY <1>4 DEF Land, ClearFlight
<1>5. ASSUME NEW c \in Calls, Follow(c) PROVE ProbeInv'
  BY <1>5 DEF Follow
<1>6. ASSUME NEW c \in Calls, CancelCall(c) PROVE ProbeInv'
  BY <1>6 DEF CancelCall
<1>7. CASE UNCHANGED pbVars
  BY <1>7 DEF pbVars
<1> QED
  BY <1>1, <1>2, <1>3, <1>4, <1>5, <1>6, <1>7 DEF ProbeNext, ProbeStep

\* However many calls arrive and are cancelled, there is one flight at most and a
\* new call never joins one that has landed: the failure of a leader reaches only
\* the calls that already waited.
THEOREM SingleFlight == ProbeSpec => []OneFlight
<1>1. ProbeInv => OneFlight
  BY ProbeAssumption DEF ProbeInv, FlightInv, Flying, OneFlight, ProbeTypeOK
<1> QED
  BY <1>1, ProbeInitially, ProbePreserved, PTL DEF ProbeSpec

\* No call and no cache entry ever claims a transport the model does not accept.
THEOREM ProbeIsTruthful == ProbeSpec => []ProbeTruthful
<1>1. ProbeInv => ProbeTruthful
  BY DEF ProbeInv
<1> QED
  BY <1>1, ProbeInitially, ProbePreserved, PTL DEF ProbeSpec

-----------------------------------------------------------------------------
(***************************************************************************)
(* The parts together.                                                     *)
(***************************************************************************)

\* Moving one part at a time, every part behaves as its own specification says, so
\* each theorem about a part holds of the parts together.
THEOREM PartsBehave ==
    PartsSpec => /\ WorkspaceSpec /\ MigrationsSpec /\ LoggerSpec /\ ProbeSpec
                 /\ TranscriptionSpec /\ EnsureTagSpec
<1>1. PartsInit => /\ WorkspaceInit /\ MigrationsInit /\ LoggerInit /\ ProbeInit
                   /\ TranscriptionInit /\ EnsureTagInit
  BY DEF PartsInit
<1> DEFINE Moves == /\ [WorkspaceNext]_wsVars /\ [MigrationsNext]_mgVars /\ [LoggerNext]_lgVars
                    /\ [ProbeNext]_pbVars /\ [TranscriptionNext]_trVars /\ [EnsureTagNext]_etVars
<1>2. ASSUME [PartsNext]_partVars
      PROVE  Moves
  <2>1. CASE MoveWorkspace
    BY <2>1 DEF MoveWorkspace, Only
  <2>2. CASE MoveDatabase \/ DatabaseFault
    BY <2>2 DEF MoveDatabase, DatabaseFault, Only, MigrationsNext
  <2>3. CASE MoveLogger
    BY <2>3 DEF MoveLogger, Only
  <2>4. CASE MoveProbe
    BY <2>4 DEF MoveProbe, Only
  <2>5. CASE MoveTranscription \/ InterruptTranscription
    BY <2>5 DEF MoveTranscription, InterruptTranscription, Only, TranscriptionNext
  <2>6. CASE MoveTag
    BY <2>6 DEF MoveTag, Only
  <2>7. CASE UNCHANGED partVars
    BY <2>7 DEF partVars
  <2> QED
    BY <1>2, <2>1, <2>2, <2>3, <2>4, <2>5, <2>6, <2>7 DEF PartsNext
<1>3. [PartsNext]_partVars => Moves
  BY <1>2
<1> QED
  BY <1>1, <1>3, PTL DEF PartsSpec, WorkspaceSpec, MigrationsSpec, LoggerSpec, ProbeSpec,
     TranscriptionSpec, EnsureTagSpec

\* Every part keeps its types: no reservation of a workspace is negative, and no
\* range is asked for more than ModelAttempts times.
THEOREM PartsTypes == PartsSpec => []PartsTypeOK
<1>1. MigrationsSpec => []MigrationsInv
  BY MigrationsInitially, MigrationsPreserved, PTL DEF MigrationsSpec
<1>2. LoggerSpec => []LoggerInv
  BY LoggerInitially, LoggerPreserved, PTL DEF LoggerSpec
<1>3. ProbeSpec => []ProbeInv
  BY ProbeInitially, ProbePreserved, PTL DEF ProbeSpec
<1>4. EnsureTagSpec => []EnsureTagInv
  BY EnsureTagInitially, EnsureTagPreserved, PTL DEF EnsureTagSpec
<1>5. /\ WorkspaceTypeOK /\ MigrationsInv /\ LoggerInv /\ ProbeInv /\ TranscriptionInv /\ EnsureTagInv
      => PartsTypeOK
  BY DEF PartsTypeOK, MigrationsInv, LoggerInv, ProbeInv, TranscriptionInv, EnsureTagInv
<1> QED
  BY PartsBehave, WorkspaceTypes, TranscriptionSafety, <1>1, <1>2, <1>3, <1>4, <1>5, PTL
=============================================================================
