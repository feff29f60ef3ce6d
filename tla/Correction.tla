----------------------------- MODULE Correction -----------------------------
(***************************************************************************)
(* What the service promises for a job, without the queue, the worker, the *)
(* finalizer, leases, crashes and retries: the text of a document is       *)
(* corrected, Paperless AI then runs on it once, and only then is the job  *)
(* completed; or the job fails.  A job whose OCR failure is decided        *)
(* (condemned) corrects nothing any more and runs nothing.                 *)
(***************************************************************************)
EXTENDS Naturals

CONSTANT Jobs

VARIABLES
    phase,  \* how far the job is
    runs    \* how often Paperless AI ran for it

jobVars == <<phase, runs>>

Open == {"accepted", "corrected", "dispatched", "condemned"}
Phases == {"unknown", "completed", "failed"} \cup Open

CorrectionInit ==
    /\ phase = [i \in Jobs |-> "unknown"]
    /\ runs = [i \in Jobs |-> 0]

Move(i, from, to) ==
    /\ phase[i] \in from
    /\ phase' = [phase EXCEPT ![i] = to]

Accept(i) == Move(i, {"unknown"}, "accepted") /\ UNCHANGED runs
Correct(i) == Move(i, {"accepted"}, "corrected") /\ UNCHANGED runs
Condemn(i) == Move(i, {"accepted"}, "condemned") /\ UNCHANGED runs
Dispatch(i) ==
    /\ Move(i, {"corrected"}, "dispatched")
    /\ runs' = [runs EXCEPT ![i] = @ + 1]
CompleteCorrection(i) == Move(i, {"dispatched"}, "completed") /\ UNCHANGED runs
FailCorrection(i) == Move(i, Open, "failed") /\ UNCHANGED runs

CorrectionNext ==
    \E i \in Jobs :
        \/ Accept(i) \/ Correct(i) \/ Condemn(i) \/ Dispatch(i)
        \/ CompleteCorrection(i) \/ FailCorrection(i)

CorrectionSpec == CorrectionInit /\ [][CorrectionNext]_jobVars
=============================================================================
