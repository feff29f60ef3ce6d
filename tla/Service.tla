------------------------------ MODULE Service -------------------------------
(***************************************************************************)
(* The service (internal/app/app.go): starts, the worker loop around       *)
(* Worker and Finalizer, cancellation, shutdown and crashes, over the      *)
(* durable queue.                                                          *)
(***************************************************************************)
EXTENDS Finalizer

CONSTANT PromptRestart  \* a dead process may be replaced before its lease expires

ASSUME RestartAssumption == PromptRestart \in BOOLEAN

ServiceInit == Init /\ ClaimedInit

-----------------------------------------------------------------------------
(***************************************************************************)
(* Life of a process.                                                      *)
(***************************************************************************)

\* A new process: a fresh owner, and what the probe will find.  The choice among unused owners is immaterial.
Start ==
    /\ pc = "down" /\ born # Owners
    /\ PromptRestart \/ \A i \in JobIds : leaseLeft[i] = 0
    /\ LET o == CHOOSE x \in Owners \ born : TRUE IN up' = o /\ born' = born \cup {o}
    /\ capability' \in Capabilities
    /\ stopping' = FALSE
    /\ pc' = "start"
    /\ UNCHANGED <<vars, docVars, contract, claimVars, localVars, budget>>

\* The next process starts with another model or prompt.
Reconfigure ==
    /\ pc = "down" /\ Spend("config")
    /\ contract' \in Contracts \ {contract}
    /\ UNCHANGED <<vars, docVars, up, born, capability, stopping, pc, claimVars, localVars>>

\* A faulty variant: startup skips the recovery.
SkipRecovery == UNCHANGED vars
\* Recover, the first step of initialize.
Recover == RecoverExpiredLeases \/ (UNCHANGED vars /\ \A i \in JobIds : ~Expired(i))

\* initialize, the first reconciliation, and the loops start.
Initialize ==
    /\ pc = "start" /\ ~stopping
    /\ Recover
    /\ Goto("idle")
    /\ UNCHANGED <<docVars, localVars, budget>>

\* The ping, the probe or the reconciliation fails after the recovery.
StartupFails ==
    /\ pc = "start" /\ Spend("error")
    /\ Recover
    /\ Goto("exit")
    /\ UNCHANGED <<docVars, localVars>>

\* The recovery itself fails, its COMMIT applied or not.
RecoveryFails ==
    /\ pc = "start" /\ Spend("handover")
    /\ Recover \/ UNCHANGED vars
    /\ Goto("exit")
    /\ UNCHANGED <<docVars, localVars>>

Running == pc \notin {"down", "start", "exit"} /\ ~stopping

\* Webhook candidates and the archive scan enqueue the document's current version.
Intake(d, p) ==
    /\ Running
    /\ EnqueueNew(d, source[d], contract, p) \/ EnqueueExisting(d, source[d], p)
    /\ UNCHANGED <<docVars, procVars, pc, claimVars, localVars, budget>>

\* The claim of workerLoop.
ClaimJob ==
    /\ pc = "idle" /\ ~stopping
    /\ \E i \in JobIds : Claim(i, up) /\ job' = i /\ att' = NextAttempt(attempts[i])
    /\ pc' = "check"
    /\ UNCHANGED <<docVars, procVars, localVars, budget>>

\* The claim fails, its COMMIT applied or not: the service stops without a claim to
\* settle.
ClaimFails ==
    /\ pc = "idle" /\ ~stopping /\ Spend("handover")
    /\ (\E i \in JobIds : Claim(i, up)) \/ UNCHANGED vars
    /\ pc' = "exit" /\ stopping' = TRUE
    /\ UNCHANGED <<docVars, up, born, contract, capability, claimVars, localVars>>

\* Runtime.Terminal after an error of Process: a recorded failure under a live
\* lease is finalized; a cancelled context finds none.
Classify ==
    /\ pc = "classify"
    /\ Goto(IF ~stopping /\ Holds /\ TerminalFailure(job) THEN "acquireFailure" ELSE "outcome")
    /\ UNCHANGED <<vars, docVars, localVars, budget>>

\* State: a claim that left processing is settled; any other stops the service.
Settled == attempts[job] = att /\ state[job] \in {"retry", "completed", "failed"}
Outcome ==
    /\ pc = "outcome"
    /\ IF Settled
       THEN pc' = "idle" /\ job' = 0 /\ att' = 0 /\ UNCHANGED stopping
       ELSE pc' = "exit" /\ stopping' = TRUE /\ UNCHANGED claimVars
    /\ seen' = None /\ seenTags' = {}
    /\ UNCHANGED <<vars, docVars, up, born, contract, capability, budget>>

\* Either lookup fails: a recorded failure is not found, or the claim counts as
\* unsettled.  QueueDepth, asked after each job, stops the service in the same way.
LookupFails ==
    /\ Spend("store")
    /\ \/ pc = "classify" /\ Goto("outcome") /\ UNCHANGED localVars
       \/ /\ pc = "outcome"
          /\ pc' = "exit" /\ stopping' = TRUE
          /\ seen' = None /\ seenTags' = {}
          /\ UNCHANGED <<up, born, contract, capability, claimVars>>
    /\ UNCHANGED <<vars, docVars>>

\* A faulty variant: the loop does not look at the context.
LoopRunsOn ==
    /\ pc = "idle" /\ stopping
    /\ Goto("idle")
    /\ UNCHANGED <<vars, docVars, localVars, budget>>

\* The loop ends when the context is cancelled.
LoopEnds ==
    /\ pc = "idle" /\ stopping
    /\ Goto("exit")
    /\ UNCHANGED <<vars, docVars, localVars, budget>>

\* A faulty variant: the claim is left to expire.
LeaveClaim == UNCHANGED vars
\* settleShutdownClaim: a claim still processing is released.
SettleShutdownClaim ==
    IF job # 0 /\ Holds THEN Release(job, att, up) ELSE UNCHANGED vars

\* The process is gone, and its context with it.
ProcessEnds ==
    /\ pc' = "down" /\ up' = None /\ job' = 0 /\ att' = 0
    /\ capability' = "unknown" /\ stopping' = FALSE
    /\ UNCHANGED <<docVars, born, contract>>

Exit ==
    /\ pc = "exit"
    /\ SettleShutdownClaim
    /\ ProcessEnds
    /\ UNCHANGED <<localVars, budget>>

\* State or Release fails, the release applied or not: the process ends all the same.
SettlementFails ==
    /\ pc = "exit" /\ Spend("handover")
    /\ (job # 0 /\ Release(job, att, up)) \/ UNCHANGED vars
    /\ ProcessEnds
    /\ UNCHANGED localVars

\* SIGTERM, or a failure of the server or the reconciler: the context is cancelled.
Stop ==
    /\ Running /\ Spend("stop")
    /\ stopping' = TRUE
    /\ UNCHANGED <<vars, docVars, up, born, contract, capability, pc, claimVars, localVars>>

\* The loop notices the cancellation in its next call.  A call in flight may
\* have taken effect, a store call too; a dispatch that was sent is ambiguous; a
\* renewal under way, of the heartbeat too, reports a lost lease.
Cancelled ==
    /\ stopping
    /\ \/ Interruptible /\ (\E p \in InterruptedAt(pc) : Goto(p)) /\ UNCHANGED docVars
       \/ FinalizerAtWork /\ Goto("reschedule") /\ (pc = "send" => UNCHANGED docVars) /\ WriteUnderWay
       \/ FinalizerAtWork /\ Goto("outcome") /\ WriteUnderWay
       \/ pc = "send" /\ Goto(AfterAmbiguousDispatch) /\ WriteUnderWay
    /\ WorkerStoreCall \/ FinalizerStoreCall \/ UNCHANGED vars
    /\ UNCHANGED <<localVars, budget>>

\* A call finds the lease or the admission gone, and changes nothing.  A renewal
\* reports a lost lease; a refused checkpoint of the finalizer asks for a retry.
LeaseLost ==
    /\ ~stopping
    /\ \/ pc \in WorkerPcs \cup FinalizerPcs /\ ~Holds
       \/ pc \in FinalizerPcs \ {"acquire", "acquireFailure"} /\ ~Admitted(job, att, up, Token)
    /\ \/ Goto("outcome")
       \/ pc \in {"advance", "reserve", "confirm", "reset"} /\ Goto("reschedule")
    /\ UNCHANGED <<vars, docVars, localVars, budget>>

\* The process dies, or its shutdown times out: nothing is released.
Crash ==
    /\ pc # "down" /\ Spend("crash")
    /\ ProcessEnds
    /\ seen' = None /\ seenTags' = {}
    /\ UNCHANGED vars

\* Another version of the original is stored; Paperless writes its own text.
ReplaceOriginal(d) ==
    /\ Spend("change")
    /\ \E c \in Checksums \ {source[d]} : source' = [source EXCEPT ![d] = c]
    /\ content' = [content EXCEPT ![d] = Native]
    /\ UNCHANGED <<vars, tags, admitted, procVars, pc, claimVars, localVars>>

\* Somebody else tags the document.
AddTag(d) ==
    /\ Spend("change")
    /\ tags' = [tags EXCEPT ![d] = @ \cup {"other"}]
    /\ UNCHANGED <<vars, source, content, admitted, procVars, pc, claimVars, localVars>>

-----------------------------------------------------------------------------
(***************************************************************************)
(* Time.  Heartbeats run at a third of the lease duration, so a lease that *)
(* a live process holds expires only when the process stalls.              *)
(***************************************************************************)

Beating == pc \in WorkerPcs \cup FinalizerPcs
serviceRest == <<docVars, procVars, pc, claimVars, localVars>>

\* heartbeat of the worker and of the finalizer, and the renewals between calls.
Heartbeat ==
    /\ Beating /\ leaseLeft[job] < LeaseDuration
    /\ RenewLease(job, att, up)
    /\ UNCHANGED <<serviceRest, budget>>

HeartbeatAdmission ==
    /\ pc \in FinalizerPcs /\ admissionLeft[job] < LeaseDuration
    /\ RenewFinalization(job, att, up, Token)
    /\ UNCHANGED <<serviceRest, budget>>

\* A timer the running process keeps alive would run out.
RunsOut ==
    /\ job # 0 /\ Holds
    /\ \/ leaseLeft[job] = 1
       \/ pc \in FinalizerPcs /\ admissionLeft[job] = 1 /\ Admitted(job, att, up, Token)

ServiceTick == ~RunsOut /\ Tick /\ UNCHANGED <<serviceRest, budget>>

\* The process stalls past the heartbeats it owes.
Stall == RunsOut /\ Spend("stall") /\ Tick /\ UNCHANGED serviceRest

-----------------------------------------------------------------------------

ProcessStep ==
    \/ Initialize \/ ClaimJob \/ Classify \/ Outcome \/ LoopEnds \/ Exit
    \/ Cancelled \/ LeaseLost
    \/ WorkerStep \/ FinalizerStep

Beat == Heartbeat \/ HeartbeatAdmission

Fault ==
    \/ StartupFails \/ Stop \/ Crash \/ Stall \/ WorkerFault \/ FinalizerFault
    \/ RecoveryFails \/ ClaimFails \/ LookupFails \/ SettlementFails \/ Reconfigure
    \/ \E d \in Docs : ReplaceOriginal(d) \/ AddTag(d)

ServiceNext ==
    \/ ProcessStep \/ Beat \/ Start \/ ServiceTick \/ Fault
    \/ \E d \in Docs, p \in Priorities : Intake(d, p)

\* A process that runs takes its steps and beats, time passes, and a process
\* that ended is started again (restart: unless-stopped in compose.example.yaml).
Fairness ==
    /\ WF_allVars(ProcessStep) /\ WF_allVars(Beat)
    /\ WF_allVars(Start) /\ WF_allVars(ServiceTick)

ServiceSpec == ServiceInit /\ [][ServiceNext]_allVars /\ Fairness

-----------------------------------------------------------------------------
(***************************************************************************)
(* Properties.                                                             *)
(***************************************************************************)

\* The process, its claim and the other systems keep their types, and a claim is
\* held exactly between ClaimJob and Outcome or Exit.
ServiceTypeOK ==
    /\ TypeOK /\ ClaimedTypeOK
    /\ (up = None) <=> (pc = "down")
    /\ pc \in WorkerPcs \cup FinalizerPcs \cup SettlingPcs => job # 0

\* Paperless AI never runs twice for a job, whatever crashes, cancellations and
\* retries happen around the reserved dispatch.
AtMostOneDispatch == \A i \in JobIds : admitted[i] <= 1

\* document.content is Paperless's own text or a whole OCR result: every batch of
\* one job's plan, never a part of it or a mixture of two jobs; and, while at most
\* one change was made to Paperless (an original may be changed back by a second),
\* transcribed from the version the job is for, although the download is never
\* compared with the checksum.
ContentIsWholeResult ==
    \A d \in Docs : content[d] # Native =>
        \E i \in JobIds :
            /\ src[i].doc = d /\ content[d] = batches[i] /\ AllCompleted(i)
            /\ budget["change"] >= Budget["change"] - 1 =>
                  \A r \in DOMAIN batches[i] : batches[i][r].sum = src[i].sum

\* Only a job whose failure is recorded puts ai-ocr-failed on its document.
FailedTagHasCause ==
    \A d \in Docs : "failed" \in tags[d] => \E i \in JobIds : src[i].doc = d /\ TerminalFailure(i)

\* A tag of somebody else disappears only in a write computed from a list that was
\* read before the tag was added: mutateTag hands on what it read.
OthersTagsKept ==
    [][\A d \in Docs : "other" \in tags[d] \ tags'[d] => "other" \notin seenTags]_allVars

\* Paperless AI runs on the corrected text: when a run is admitted the content is
\* the job's result and the complete tag is on, the failed tag off, unless the
\* original was replaced meanwhile.
DispatchSeesResult ==
    [][\A i \in JobIds : admitted'[i] > admitted[i] /\ budget["change"] = Budget["change"] =>
          /\ content[src[i].doc] = batches[i]
          /\ "complete" \in tags[src[i].doc] /\ "failed" \notin tags[src[i].doc]]_allVars

\* A process leaves a job processing behind only if it crashed or stalled, or if the
\* claim, the recovery or the settlement at shutdown is what failed: any other call
\* may fail, a renewal under a live lease or a transition among them, and the
\* shutdown still gives the job back.
CleanExitLeavesNoClaim ==
    pc = "down" /\ (\A kind \in {"crash", "stall", "handover"} : budget[kind] = Budget[kind])
        => NoActiveJob

\* How far a job is, read off its rows and off what Paperless AI admitted.
OpenPhase(i) ==
    IF TerminalFailure(i) THEN "condemned"
    ELSE IF admitted[i] > 0 THEN "dispatched"
    ELSE IF SuccessFinalizationStarted(i) THEN "corrected" ELSE "accepted"
JobPhase ==
    [i \in JobIds |->
        IF state[i] = "absent" THEN "unknown"
        ELSE IF state[i] \in TerminalStates THEN state[i] ELSE OpenPhase(i)]
Promise == INSTANCE Correction WITH Jobs <- JobIds, phase <- JobPhase, runs <- admitted
\* The service implements Correction: whatever crashes, stalls, cancellations, lost
\* answers and retries happen, a job is corrected, dispatched once and completed,
\* in this order, or fails, and an OCR failure decided once stays decided.
ImplementsCorrection == Promise!CorrectionSpec

\* A process is past its recovery and a job is processing that is not its own.
OrphanedClaim ==
    /\ pc \notin {"down", "start", "exit"}
    /\ \E i \in JobIds : state[i] = "processing" /\ owner[i] # up

\* Recovery at startup is enough where a restart waits for the lease of the process
\* it replaces: nothing is left processing beside the claim of a process that runs on,
\* so that Claim, which gives out nothing beside a processing row, is never blocked
\* for good; not even by a claim or a settlement that failed.
NoOrphanedClaim == ~PromptRestart => ~OrphanedClaim

\* A result is written over a replaced original only if it was replaced while the
\* PATCH was on its way: the loop never turns to the PATCH of a job whose version it
\* could have seen replaced, and writes a text nowhere else.
StaleOnlyByRace ==
    [][/\ \A d \in Docs : content'[d] # content[d] /\ content'[d] # Native => pc = "content" /\ d = Doc
       /\ (pc = "content" /\ source[Doc] # src[job].sum)' =>
             /\ pc = "content" /\ job' = job
             /\ source[Doc] # src[job].sum \/ ReplaceOriginal(Doc)]_allVars

\* The configured model or prompt is not the one of a job in its finalization.
FinalizationRefused ==
    \E i \in JobIds :
        /\ state[i] \in CurrentStates /\ SuccessFinalizationStarted(i)
        /\ src[i].contract # contract


\* A cancelled process ends.
ShutdownEnds == stopping ~> pc = "down"

-----------------------------------------------------------------------------
(***************************************************************************)
(* What the documentation says and the code does not keep.                 *)
(***************************************************************************)

\* docs/plans/2026-08-29-paperless-ai-ocr-design.md: "restart resumes an incomplete
\* long document without repeating completed batches": a job that a process left
\* processing when it ended is processed again.
InterruptedJobResumes ==
    \A i \in JobIds : pc = "down" /\ state[i] = "processing" ~> state[i] # "processing"

\* docs/architecture.md: "Completed batch checkpoints are reused."
CompletedCheckpointsReused == pc = "transcribe" => ~CheckpointsComplete(job)

\* docs/operations.md: ai-ocr-failed means that "OCR reached its terminal failure
\* path before successful content replacement; native OCR remains unchanged".
FailureLeavesNativeText ==
    \A i \in JobIds : TerminalFailure(i) /\ CheckpointsComplete(i) => content[src[i].doc] # batches[i]

\* docs/architecture.md: "A source checksum change prevents stale OCR from being written."
StaleResultNotWritten ==
    [][\A d \in Docs : content'[d] # content[d] /\ content'[d] # Native =>
          source[d] = src[job].sum]_allVars

\* docs/architecture.md: "cancellation, document deadlines, shutdown release, and
\* finalization interruptions before a terminal decision move the job to `retry`".
CancellationIsNotFailure ==
    (\A kind \in {"error", "change", "store", "config"} : budget[kind] = Budget[kind])
        => \A i \in JobIds : ~TerminalFailure(i)
=============================================================================
