------------------------------- MODULE Worker -------------------------------
(***************************************************************************)
(* Worker.Process (internal/worker/worker.go): from a claimed job to an    *)
(* OCR result in its checkpoints, or to a recorded terminal failure.       *)
(*                                                                         *)
(* The renewals between the calls are the Heartbeat of Service: a renewal  *)
(* only moves the lease's expiry.  A transcription leaves nothing behind   *)
(* until it is checkpointed, so it is one step with the store call that    *)
(* follows it.                                                             *)
(***************************************************************************)
EXTENDS Claimed

\* worker.process runs on: its context is alive and the lease is its own.
Working(p) == pc = p /\ ~stopping /\ Holds

\* A faulty variant: checkpoints that are still pending are joined.
CheckpointsCompleteAny(i) == DOMAIN batches[i] # {}
\* reconstructResult: a plan exists and every batch of it is completed.
CheckpointsComplete(i) == DOMAIN batches[i] # {} /\ AllCompleted(i)

\* A started success finalization is resumed from its checkpoints.
Resumes(i) == SuccessFinalizationStarted(i)

\* The checks before any call: contract, recorded failure, started finalization.
SameContract == src[job].contract = contract
ContractChanged ==
    /\ pc = "check" /\ ~SameContract
    /\ Goto("record")
    /\ UNCHANGED <<vars, docVars, localVars, budget>>

FailureAlreadyRecorded ==
    /\ Working("check") /\ SameContract
    /\ TerminalFailure(job)
    /\ Goto("record")
    /\ UNCHANGED <<vars, docVars, localVars, budget>>

\* reconstructResult; incomplete checkpoints end the call without a transition.
ReconstructResult ==
    /\ Working("check") /\ SameContract
    /\ ~TerminalFailure(job) /\ Resumes(job)
    /\ Goto(IF CheckpointsComplete(job) THEN "acquire" ELSE "outcome")
    /\ UNCHANGED <<vars, docVars, localVars, budget>>

StartOcr ==
    /\ Working("check") /\ SameContract
    /\ ~TerminalFailure(job) /\ ~Resumes(job)
    /\ Goto("fetch")
    /\ UNCHANGED <<vars, docVars, localVars, budget>>

\* GetDocument: the checksum must still be the one the job was made for.
Fetch ==
    /\ Working("fetch")
    /\ Goto(IF source[Doc] = src[job].sum THEN "download" ELSE "record")
    /\ UNCHANGED <<vars, docVars, localVars, budget>>

\* DownloadOriginal and Inspect; the probe's capability picks the transport.
Download ==
    /\ Working("download")
    /\ seen' = source[Doc]
    /\ Goto(IF capability = "direct" THEN "transcribe" ELSE "plan")
    /\ UNCHANGED <<vars, docVars, seenTags, budget>>

\* EnsureBatchesContext: stores the plan, or checks it against the stored one.
EnsurePlan(plan, next) ==
    \/ /\ EnsureBatches(job, att, up, plan)
       /\ Goto(next)
    \/ /\ HasPlan /\ Goto(IF SameBatchPlan(job, plan) THEN next ELSE "record")
       /\ UNCHANGED vars

\* A direct transcription that succeeded, then its plan of one range.
TranscribeDirect ==
    /\ Working("transcribe")
    /\ EnsurePlan(DirectPlan, "direct")
    /\ UNCHANGED <<docVars, localVars, budget>>

\* CheckpointBatchContext for the direct result.  A completed checkpoint with
\* another text refuses it, which is a terminal failure.
CheckpointDirect ==
    /\ Working("direct")
    /\ \E r \in DirectPlan, k \in Takes :
          LET text == [sum |-> seen, take |-> k] IN
          \/ /\ CheckpointBatch(job, att, up, r, text)
             /\ Goto("acquire")
          \/ /\ batches[job][r] # None
             /\ Goto(IF batches[job][r] = text THEN "acquire" ELSE "record")
             /\ UNCHANGED vars
    /\ UNCHANGED <<docVars, localVars, budget>>

\* Unsupported input or a provider timeout: fall back to page images.
FallBackToImages ==
    /\ Working("transcribe") /\ Spend("error")
    /\ Goto("plan")
    /\ UNCHANGED <<vars, docVars, localVars>>

PlanImages ==
    /\ Working("plan")
    /\ EnsurePlan(ImagePlan, "batch")
    /\ UNCHANGED <<docVars, localVars, budget>>

\* The first range without a completed checkpoint.
FirstPending(r) ==
    /\ r \in DOMAIN batches[job] /\ batches[job][r] = None
    /\ \A s \in DOMAIN batches[job] : batches[job][s] = None => r[1] <= s[1]

\* renderTranscribeAndCheckpoint for the next range.
TranscribeBatch ==
    /\ Working("batch")
    /\ \E r \in ImagePlan, k \in Takes :
          /\ FirstPending(r)
          /\ CheckpointBatch(job, att, up, r, [sum |-> seen, take |-> k])
    /\ Goto("batch")
    /\ UNCHANGED <<docVars, localVars, budget>>

\* Join of the validated batches, completed ones reused.
JoinBatches ==
    /\ Working("batch") /\ CheckpointsComplete(job)
    /\ Goto("acquire")
    /\ UNCHANGED <<vars, docVars, localVars, budget>>

\* Any other error of Paperless, the renderer or the provider is terminal.
WorkerCallFails ==
    /\ \E p \in {"fetch", "download", "transcribe", "batch"} : Working(p)
    /\ Spend("error")
    /\ Goto("record")
    /\ UNCHANGED <<vars, docVars, localVars>>

\* How a cancelled or expired context surfaces: as such (a retry is scheduled),
\* inside a renewal as a lost lease (no transition), and inside a renewal of the
\* render callback as a rendering error, because callbackFailure hides the lost
\* lease (a terminal failure).
InterruptedAt(p) ==
    {"reschedule", "outcome"} \cup (IF p = "batch" THEN {"record"} ELSE {})

\* The contract is compared before the context is used.
Interruptible == pc \in WorkerPcs /\ (pc = "check" => SameContract)

\* The store call of process at its place: an interrupted COMMIT reports an
\* error and may have committed.
WorkerStoreCall ==
    \/ pc = "transcribe" /\ EnsureBatches(job, att, up, DirectPlan)
    \/ pc = "plan" /\ EnsureBatches(job, att, up, ImagePlan)
    \/ /\ pc \in {"direct", "batch"}
       /\ \E r \in DOMAIN batches[job], k \in Takes :
             /\ FirstPending(r)
             /\ CheckpointBatch(job, att, up, r, [sum |-> seen, take |-> k])

DocumentDeadline ==
    /\ Interruptible /\ Working(pc)
    /\ Spend("error")
    /\ \E p \in InterruptedAt(pc) : Goto(p)
    /\ WorkerStoreCall \/ UNCHANGED vars
    /\ UNCHANGED <<docVars, localVars>>

\* A store call fails in a process that runs on: a renewal ends the call as a lost
\* lease (no transition), listing the checkpoints does too; any other call, and a
\* renewal of the render callback, is a terminal failure.
FailedStoreCallAt(p) ==
    {"outcome"} \cup (IF p \in {"fetch", "download"} THEN {} ELSE {"record"})
WorkerStoreFails ==
    /\ Interruptible /\ Working(pc)
    /\ Spend("store")
    /\ \E p \in FailedStoreCallAt(pc) : Goto(p)
    /\ WorkerStoreCall \/ UNCHANGED vars
    /\ UNCHANGED <<docVars, localVars>>

\* A transition made with a context of its own.
TransitionCall ==
    \/ pc = "reschedule" /\ ScheduleRetry(job, att, up, MaxDelay)
    \/ pc = "record" /\ RecordTerminalFailure(job, att, up)
    \/ pc = "complete" /\ Complete(job, att, up)
    \/ pc = "fail" /\ Fail(job, att, up)

\* The last step of FailOCR, and not the failure of a success finalization.
EndsFailOCR == pc = "fail" /\ fin[job] = "failure_tag_added"

\* Where an error of the transition leads: the finalizer schedules a retry when the
\* last step of Process or FailOCR failed, and gives up when it was to fail the job.
AfterFailedTransition(p) ==
    IF p = "record" THEN "classify"
    ELSE IF p = "complete" \/ EndsFailOCR THEN "reschedule" ELSE "outcome"
TransitionFails ==
    /\ pc \in {"reschedule", "record", "complete", "fail"}
    /\ Spend("store")
    /\ Goto(AfterFailedTransition(pc))
    /\ TransitionCall \/ UNCHANGED vars
    /\ UNCHANGED <<docVars, localVars>>

\* scheduleRetry of the worker and retry of the finalizer.
Reschedule ==
    /\ pc = "reschedule"
    /\ IF Holds THEN ScheduleRetry(job, att, up, MaxDelay) ELSE UNCHANGED vars
    /\ Goto("outcome")
    /\ UNCHANGED <<docVars, localVars, budget>>

\* recordTerminalFailure; a refusal surfaces as an error of Process.
RecordFailure ==
    /\ pc = "record"
    /\ IF Holds /\ MayRecordFailure(job) THEN RecordTerminalFailure(job, att, up)
       ELSE UNCHANGED vars
    /\ Goto("classify")
    /\ UNCHANGED <<docVars, localVars, budget>>

WorkerStep ==
    \/ ContractChanged \/ FailureAlreadyRecorded \/ ReconstructResult \/ StartOcr
    \/ Fetch \/ Download \/ TranscribeDirect \/ CheckpointDirect
    \/ PlanImages \/ TranscribeBatch \/ JoinBatches
    \/ Reschedule \/ RecordFailure

WorkerFault ==
    \/ FallBackToImages \/ WorkerCallFails \/ DocumentDeadline
    \/ WorkerStoreFails \/ TransitionFails
=============================================================================
