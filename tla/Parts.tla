------------------------------- MODULE Parts --------------------------------
(***************************************************************************)
(* The parts of the program that share no state with each other or with    *)
(* the job in hand: opening the database, the capability probe, the        *)
(* transcription of a document, the workspace of a job, the creation of a  *)
(* tag and the logger.                                                     *)
(* Since no step of one reads or writes what another keeps, a behaviour of *)
(* all is a shuffle of behaviours of each, and a property about one part   *)
(* holds of it if it holds of the behaviours in which that part moves      *)
(* alone.  `part` says which one does.                                     *)
(***************************************************************************)
EXTENDS Workspace, Migrations, AsyncLogger, Probe, Transcription, EnsureTag

CONSTANT Moving   \* the parts of which one moves

VARIABLE part

PartNames == {"workspace", "database", "logger", "probe", "transcription", "tag"}

ASSUME MovingAssumption == Moving \subseteq PartNames

partVars == <<part, wsVars, mgVars, lgVars, pbVars, trVars, etVars>>

\* The parts that stand still stand at one of their initial states; which one is
\* of no interest.
PartsInit ==
    /\ part \in Moving
    /\ WorkspaceInit /\ LoggerInit
    /\ MigrationsInit /\ (part # "database" => \A v \in OldVersions : userVersion <= v)
    /\ ProbeInit /\ (part # "probe" => supports = "direct")
    /\ TranscriptionInit
    /\ (part # "transcription" => ~doc.direct /\ \A n \in PageCounts : doc.pages <= n)
    /\ EnsureTagInit
    /\ (part # "tag" => \A c \in Asks : client[c] = CHOOSE p \in Processes : TRUE)

Only(name, next, others) == part = name /\ next /\ UNCHANGED <<part, others>>

MoveWorkspace ==
    Only("workspace", WorkspaceNext, <<mgVars, lgVars, pbVars, trVars, etVars>>)
MoveDatabase ==
    Only("database", MigrationStep, <<wsVars, lgVars, pbVars, trVars, etVars>>)
DatabaseFault ==
    Only("database", OpenEnds, <<wsVars, lgVars, pbVars, trVars, etVars>>)
MoveLogger ==
    Only("logger", LoggerNext, <<wsVars, mgVars, pbVars, trVars, etVars>>)
MoveProbe ==
    Only("probe", ProbeNext, <<wsVars, mgVars, lgVars, trVars, etVars>>)
MoveTranscription ==
    Only("transcription", TranscriptionStep, <<wsVars, mgVars, lgVars, pbVars, etVars>>)
InterruptTranscription ==
    Only("transcription", Interrupt, <<wsVars, mgVars, lgVars, pbVars, etVars>>)
MoveTag ==
    Only("tag", EnsureTagNext, <<wsVars, mgVars, lgVars, pbVars, trVars>>)

PartsNext ==
    \/ MoveWorkspace \/ MoveDatabase \/ DatabaseFault \/ MoveLogger \/ MoveProbe
    \/ MoveTranscription \/ InterruptTranscription \/ MoveTag

\* Open runs on unless it fails or the process dies; a claimed job is processed.
PartsSpec ==
    /\ PartsInit /\ [][PartsNext]_partVars
    /\ WF_partVars(MoveDatabase) /\ WF_partVars(MoveTranscription)

-----------------------------------------------------------------------------

\* Every part keeps its types; in particular no reservation of the workspace holds
\* a negative number of bytes, and no range is asked for more than ModelAttempts times.
PartsTypeOK ==
    /\ WorkspaceTypeOK /\ MigrationsTypeOK /\ LoggerTypeOK /\ ProbeTypeOK
    /\ TranscriptionTypeOK /\ EnsureTagTypeOK

(***************************************************************************)
(* Progress.                                                               *)
(***************************************************************************)

\* A start that meets a database it supports ends with all migrations applied,
\* however often an earlier start was cut off between two statements.
DatabaseOpens ==
    part = "database" /\ at = "down" /\ userVersion <= SupportedVersion
        ~> at = "ready" /\ AvailableMigrations \subseteq schema

\* However the provider answers, process ends: the attempts are counted, a PDF
\* the provider cannot serve in time is replaced by images, and a plan that is
\* cut off is taken up again.
TranscriptionEnds ==
    part = "transcription" /\ step = "claimed" ~> step \in {"done", "failed", "unsettled"}
=============================================================================
