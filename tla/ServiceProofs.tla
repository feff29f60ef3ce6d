--------------------------- MODULE ServiceProofs ----------------------------
(***************************************************************************)
(* Proofs about Service, for every value of its constants.                 *)
(***************************************************************************)
EXTENDS Service, JobQueueProofs

\* Where the loop knows its claim to be open, and where it has downloaded a document.
OwnPcs == WorkerPcs \cup FinalizerPcs \cup (SettlingPcs \ {"outcome", "reschedule"})
FetchedPcs == {"transcribe", "direct", "plan", "batch"}

(***************************************************************************)
(* The inductive invariant, by what its parts are about.                   *)
(***************************************************************************)

\* What the process knows has been set where it is used.
LocalInv ==
    /\ pc \in {"down", "start", "idle"} => job = 0
    /\ job # 0 => att \in 1..MaxAttempts
    /\ pc \in FetchedPcs => seen \in Checksums
    /\ \A k \in Bounded : budget[k] <= Budget[k]

\* Nobody takes the claim away from a running process: its row changes only by its
\* own steps, even after its lease has expired.
ClaimInv ==
    /\ pc \in OwnPcs => state[job] = "processing"
    /\ job # 0 => /\ state[job] # "absent"
                  /\ attempts[job] = att
                  /\ state[job] = "processing" => owner[job] = up

\* A row is in use only once it was inserted.
RowInv ==
    \A i \in JobIds :
        IF state[i] = "absent"
        THEN fin[i] = "absent" /\ batches[i] = NoBatches /\ ~failure[i]
        ELSE src[i] \in Sources

\* The stages after the tags are written, and those that write tags.
Recorded == {"failed_tag_removed", "metadata_dispatched"}
TagStages == {"content_updated", "complete_tag_added", "failure_pending"}

\* The stage, the dispatch state and what Paperless AI admitted agree, for a row.
DispatchInv ==
    \A i \in JobIds :
        /\ fin[i] \in FailureStages => failure[i]
        /\ dispatch[i] # "none" => fin[i] \in Recorded
        /\ fin[i] = "metadata_dispatched" => dispatch[i] = "confirmed"
        /\ admitted[i] \in {0, 1}
        /\ dispatch[i] = "none" => admitted[i] = 0
        /\ dispatch[i] = "confirmed" => admitted[i] = 1

\* They agree with where the finalizer stands.
FinalizerInv ==
    /\ pc = "acquireFailure" => failure[job]
    /\ pc = "verify" => fin[job] # "absent" /\ dispatch[job] # "reserved"
    /\ pc = "content" => fin[job] = "pending"
    /\ pc \in {"readTags", "writeTags"} => fin[job] \in TagStages
    /\ pc = "advance" => \/ fin[job] \in TagStages \cup {"pending"}
                         \/ fin[job] = "failed_tag_removed" /\ dispatch[job] = "confirmed"
    /\ pc = "reserve" => fin[job] = "failed_tag_removed" /\ dispatch[job] # "reserved"
    /\ pc \in {"send", "reset", "confirm"} => dispatch[job] = "reserved"
    /\ pc \in {"send", "reset", "confirm"} => fin[job] = "failed_tag_removed"
    /\ pc \in {"send", "reset"} => admitted[job] = 0
    /\ pc = "confirm" => admitted[job] = 1
    /\ pc = "complete" => fin[job] = "metadata_dispatched"

\* A finalization that writes has a whole result behind it.
ResultInv ==
    /\ \A i \in JobIds : fin[i] \in SuccessStages => CheckpointsComplete(i)
    /\ pc \in {"acquire", "verify", "content"} => CheckpointsComplete(job)
    /\ pc = "advance" /\ fin[job] = "pending" => CheckpointsComplete(job)
    /\ pc = "direct" => DOMAIN batches[job] = DirectPlan

\* While nothing crashed or stalled, and no claim, recovery or settlement failed, the
\* running process holds every claim, live.
NoFault == \A kind \in {"crash", "stall", "handover"} : budget[kind] = Budget[kind]
NoFaultInv ==
    NoFault => \A i \in JobIds : state[i] = "processing" => i = job /\ leaseLeft[i] > 0

\* A failed tag, on a document or in a list that was read, has its cause.
Cause(d) == \E i \in JobIds : src[i].doc = d /\ failure[i]
TagInv ==
    /\ \A d \in Docs : "failed" \in tags[d] => Cause(d)
    /\ pc = "writeTags" /\ "failed" \in seenTags => Cause(Doc)

\* While nobody else changed Paperless, the stages tell what is there.
NoChangeInv ==
    budget["change"] = Budget["change"] =>
        /\ \A i \in JobIds :
              /\ state[i] # "absent" => src[i].sum = source[src[i].doc]
              /\ fin[i] \in SuccessStages => content[src[i].doc] = batches[i]
              /\ fin[i] \in Recorded \cup {"complete_tag_added"} => "complete" \in tags[src[i].doc]
              /\ fin[i] \in Recorded => "failed" \notin tags[src[i].doc]
        /\ pc = "advance" =>
              /\ fin[job] = "pending" => content[Doc] = batches[job]
              /\ fin[job] = "content_updated" => "complete" \in tags[Doc]
              /\ fin[job] = "complete_tag_added" => "failed" \notin tags[Doc]
        /\ pc = "writeTags" => seenTags = tags[Doc]

\* While at most one change was made: a text of another version than the job's was
\* downloaded after the change, which the finalizer therefore still sees.
Unchanged1 == budget["change"] >= Budget["change"] - 1
RightVersion(i) == \A r \in DOMAIN batches[i] : batches[i][r] # None => batches[i][r].sum = src[i].sum
VersionInv ==
    Unchanged1 =>
        /\ \A i \in JobIds : state[i] # "absent" /\ source[src[i].doc] = src[i].sum => RightVersion(i)
        /\ pc \in FetchedPcs /\ source[Doc] = src[job].sum => seen = src[job].sum
        /\ pc = "content" => RightVersion(job)

\* The inductive invariant of the service.
ServiceInv ==
    /\ SafeInv /\ ServiceTypeOK
    /\ LocalInv /\ ClaimInv /\ RowInv /\ DispatchInv /\ FinalizerInv
    /\ ResultInv /\ NoFaultInv /\ TagInv /\ NoChangeInv /\ VersionInv
    /\ ContentIsWholeResult

-----------------------------------------------------------------------------
(***************************************************************************)
(* Every step of the service is a call the queue allows, or none.          *)
(***************************************************************************)

\* Between ClaimJob and Outcome the loop names a job, an attempt and an owner.
LEMMA ClaimHeld ==
    ASSUME ServiceTypeOK, LocalInv, pc \in WorkerPcs \cup FinalizerPcs \cup SettlingPcs
    PROVE  job \in JobIds /\ att \in 1..MaxAttempts /\ up \in Owners
<1>1. pc # "down"
  BY DEF WorkerPcs, FinalizerPcs, SettlingPcs
<1>2. QED
  BY <1>1 DEF ServiceTypeOK, ClaimedTypeOK, LocalInv

\* An admission that is granted names a token.
LEMMA TokenHeld ==
    ASSUME TypeOK, job \in JobIds, att \in 1..MaxAttempts, Admitted(job, att, up, Token)
    PROVE  Token \in Tokens
<1>1. admission[job] \in Admissions \cup {NoAdmission}
  BY DEF TypeOK
<1>2. admission[job].attempt = att
  BY DEF Admitted
<1>3. admission[job] # NoAdmission
  BY <1>2, BoundAssumption DEF NoAdmission
<1>4. QED
  BY <1>1, <1>3 DEF Admissions, Token

\* Where the finalizer advances, NextStage is a stage.
LEMMA AdvanceStages ==
    ASSUME FinalizerInv, pc = "advance"
    PROVE  fin[job] \in Stages /\ NextStage(fin[job]) \in Stages
BY DEF FinalizerInv, NextStage, TagStages, Stages, SuccessStages, FailureStages

\* A store call of the worker or the finalizer is a method call of the queue.
LEMMA StoreCallIsQueueStep ==
    ASSUME ServiceTypeOK, LocalInv, FinalizerInv, WorkerStoreCall \/ FinalizerStoreCall
    PROVE  Next
<1>0. pc \in WorkerPcs \cup FinalizerPcs
  BY DEF WorkerStoreCall, FinalizerStoreCall, WorkerPcs, FinalizerPcs
<1>1. job \in JobIds /\ att \in 1..MaxAttempts /\ up \in Owners
  BY <1>0, ClaimHeld
<1>2. DirectPlan \in Plans /\ ImagePlan \in Plans
  BY PlansAssumption
<1>3. CASE WorkerStoreCall /\ pc \in {"transcribe", "plan"}
  BY <1>1, <1>2, <1>3 DEF WorkerStoreCall, WorkMethod, Next
<1>4. CASE WorkerStoreCall /\ pc \in {"direct", "batch"}
  <2>1. PICK r \in DOMAIN batches[job], k \in Takes :
           CheckpointBatch(job, att, up, r, [sum |-> seen, take |-> k])
    BY <1>4 DEF WorkerStoreCall
  <2>2. r \in UNION Plans
    <3>1. batches[job] \in Results
      BY <1>1 DEF ServiceTypeOK, TypeOK
    <3>2. PICK p \in Plans \cup {{}} : batches[job] \in [p -> Texts \cup {None}]
      BY <3>1 DEF Results
    <3>3. QED
      BY <3>2
  <2>3. [sum |-> seen, take |-> k] \in Texts
    <3>1. seen \in Checksums
      BY <1>4 DEF LocalInv, FetchedPcs
    <3>2. QED
      BY <3>1, TextAssumption
  <2>4. QED
    BY <1>1, <2>1, <2>2, <2>3 DEF WorkMethod, Next
<1>5. CASE FinalizerStoreCall /\ pc \in {"acquire", "acquireFailure"}
  BY <1>1, <1>5 DEF FinalizerStoreCall, FinalizeMethod, Next
<1>6. CASE FinalizerStoreCall /\ pc = "advance"
  <2>1. AdvanceFinalization(job, att, up, Token, fin[job], NextStage(fin[job]))
    BY <1>6 DEF FinalizerStoreCall
  <2>2. Token \in Tokens
    BY <1>1, <2>1, TokenHeld DEF AdvanceFinalization, ServiceTypeOK
  <2>3. QED
    BY <1>1, <1>6, <2>1, <2>2, AdvanceStages DEF FinalizeMethod, Next
<1>7. CASE FinalizerStoreCall /\ pc \in {"reserve", "confirm", "reset"}
  <2>1. PICK from \in DispatchStates, to \in DispatchStates :
           SetDispatchState(job, att, up, Token, from, to)
    BY <1>7 DEF FinalizerStoreCall, DispatchStates
  <2>2. Token \in Tokens
    BY <1>1, <2>1, TokenHeld DEF SetDispatchState, ServiceTypeOK
  <2>3. QED
    BY <1>1, <2>1, <2>2 DEF FinalizeMethod, Next
<1>8. QED
  BY <1>3, <1>4, <1>5, <1>6, <1>7 DEF WorkerStoreCall, FinalizerStoreCall

\* A failed transition may have ended the claim, or recorded the failure, all the same.
LEMMA FailedTransition ==
    ASSUME TransitionFails
    PROVE  /\ pc \in {"reschedule", "record", "complete", "fail"}
           /\ pc' \in {"classify", "reschedule", "outcome"}
           /\ pc' = "classify" => pc = "record"
           /\ UNCHANGED <<docVars, procVars, claimVars, localVars>>
           /\ \/ UNCHANGED vars
              \/ pc = "record" /\ RecordTerminalFailure(job, att, up)
              \/ /\ pc # "record"
                 /\ \/ ScheduleRetry(job, att, up, MaxDelay)
                    \/ pc = "complete" /\ Complete(job, att, up)
                    \/ pc = "fail" /\ Fail(job, att, up)
<1>1. /\ pc \in {"reschedule", "record", "complete", "fail"}
      /\ Goto(AfterFailedTransition(pc)) /\ UNCHANGED <<docVars, localVars>>
      /\ TransitionCall \/ UNCHANGED vars
  BY DEF TransitionFails
<1>2. /\ AfterFailedTransition(pc) \in {"classify", "reschedule", "outcome"}
      /\ AfterFailedTransition(pc) = "classify" => pc = "record"
  BY <1>1 DEF AfterFailedTransition
<1>3. QED
  BY <1>1, <1>2 DEF Goto, TransitionCall

\* A failed store call of the finalizer, and what may take effect beside it.
LEMMA FailedFinalizerCall ==
    ASSUME FinalizerStoreFails
    PROVE  /\ pc \in FinalizerPcs \cup {"complete", "fail"} /\ pc' \in {"reschedule", "outcome"}
           /\ pc' = "reschedule" => pc \in {"advance", "reserve", "confirm", "reset"}
           /\ UNCHANGED <<procVars, claimVars, localVars>> /\ WriteUnderWay
           /\ FinalizerStoreCall \/ UNCHANGED vars
BY DEF FinalizerStoreFails, FinalizerAtWork, EndsFailOCR, FailedCheckpointAt, Goto

\* The store calls inside EnsurePlan.
LEMMA EnsurePlanIsQueueStep ==
    ASSUME ServiceTypeOK, LocalInv, pc \in WorkerPcs,
           NEW plan \in {DirectPlan, ImagePlan}, NEW next, EnsurePlan(plan, next)
    PROVE  [Next]_vars
<1>1. job \in JobIds /\ att \in 1..MaxAttempts /\ up \in Owners /\ plan \in Plans
  BY ClaimHeld, PlansAssumption
<1>2. QED
  BY <1>1 DEF EnsurePlan, WorkMethod, Next

\* Checkpointing a text of the downloaded version.
LEMMA CheckpointIsQueueStep ==
    ASSUME ServiceTypeOK, LocalInv, pc \in FetchedPcs, NEW r \in DirectPlan \cup ImagePlan,
           NEW k \in Takes, CheckpointBatch(job, att, up, r, [sum |-> seen, take |-> k])
    PROVE  Next
<1>1. job \in JobIds /\ att \in 1..MaxAttempts /\ up \in Owners
  BY ClaimHeld DEF FetchedPcs, WorkerPcs
<1>2. r \in UNION Plans /\ [sum |-> seen, take |-> k] \in Texts
  BY PlansAssumption, TextAssumption DEF LocalInv
<1>3. QED
  BY <1>1, <1>2 DEF WorkMethod, Next

\* The worker calls the queue as its specification allows.
LEMMA WorkerIsQueueStep ==
    ASSUME ServiceTypeOK, LocalInv, FinalizerInv, WorkerStep \/ WorkerFault
    PROVE  [Next]_vars
<1>1. CASE TranscribeDirect \/ PlanImages
  BY <1>1, EnsurePlanIsQueueStep DEF TranscribeDirect, PlanImages, Working, WorkerPcs
<1>2. CASE CheckpointDirect \/ TranscribeBatch
  BY <1>2, CheckpointIsQueueStep DEF CheckpointDirect, TranscribeBatch, Working, FetchedPcs
<1>3. CASE Reschedule
  <2>1. job \in JobIds /\ att \in 1..MaxAttempts /\ up \in Owners
    BY <1>3, ClaimHeld DEF Reschedule, SettlingPcs
  <2>2. MaxDelay \in 1..MaxDelay
    BY BoundAssumption
  <2>3. QED
    BY <1>3, <2>1, <2>2 DEF Reschedule, LeaseMethod, Next
<1>4. CASE RecordFailure
  <2>1. job \in JobIds /\ att \in 1..MaxAttempts /\ up \in Owners
    BY <1>4, ClaimHeld DEF RecordFailure, SettlingPcs
  <2>2. QED
    BY <1>4, <2>1 DEF RecordFailure, WorkMethod, Next
<1>5. CASE DocumentDeadline \/ WorkerStoreFails
  BY <1>5, StoreCallIsQueueStep DEF DocumentDeadline, WorkerStoreFails
<1>6. CASE \/ ContractChanged \/ FailureAlreadyRecorded \/ ReconstructResult \/ StartOcr
           \/ Fetch \/ Download \/ JoinBatches
           \/ FallBackToImages \/ WorkerCallFails
  BY <1>6 DEF ContractChanged, FailureAlreadyRecorded, ReconstructResult, StartOcr, Fetch,
              Download, JoinBatches, FallBackToImages, WorkerCallFails
<1>7. CASE TransitionFails
  <2>1. job \in JobIds /\ att \in 1..MaxAttempts /\ up \in Owners
    BY <1>7, ClaimHeld DEF TransitionFails, SettlingPcs
  <2>2. MaxDelay \in 1..MaxDelay
    BY BoundAssumption
  <2>3. QED
    BY <1>7, <2>1, <2>2, FailedTransition DEF LeaseMethod, WorkMethod, Next
<1>8. QED
  BY <1>1, <1>2, <1>3, <1>4, <1>5, <1>6, <1>7 DEF WorkerStep, WorkerFault

\* So does the finalizer.
LEMMA FinalizerIsQueueStep ==
    ASSUME ServiceTypeOK, LocalInv, FinalizerInv, FinalizerStep \/ FinalizerFault
    PROVE  [Next]_vars
<1>1. CASE AcquireSuccess \/ AcquireFailure
  <2>1. FinalizerStoreCall
    BY <1>1 DEF AcquireSuccess, AcquireFailure, Finalizing, FinalizerStoreCall
  <2>2. QED
    BY <2>1, StoreCallIsQueueStep
<1>2. CASE Advance
  <2>1. FinalizerStoreCall
    BY <1>2 DEF Advance, FinalizingAdmitted, FinalizerStoreCall
  <2>2. QED
    BY <2>1, StoreCallIsQueueStep
<1>3. CASE ReserveDispatch \/ ConfirmDispatch \/ ResetDispatch
  <2>1. FinalizerStoreCall \/ UNCHANGED vars
    BY <1>3 DEF ReserveDispatch, ConfirmDispatch, ResetDispatch, FinalizingAdmitted,
                FinalizerStoreCall
  <2>2. QED
    BY <2>1, StoreCallIsQueueStep
<1>4. CASE CompleteJob \/ FailJob
  <2>1. job \in JobIds /\ att \in 1..MaxAttempts /\ up \in Owners
    BY <1>4, ClaimHeld DEF CompleteJob, FailJob, SettlingPcs
  <2>2. QED
    BY <1>4, <2>1 DEF CompleteJob, FailJob, LeaseMethod, Next
<1>5. CASE \/ Verify \/ UpdateContent \/ ReadTags \/ UpdateTags \/ DispatchAccepted
           \/ DispatchRefused \/ DispatchAmbiguous \/ FinalizerCallFails
  BY <1>5 DEF Verify, UpdateContent, ReadTags, UpdateTags, DispatchAccepted, DispatchRefused,
              DispatchAmbiguous, FinalizerCallFails
<1>6. CASE FinalizerStoreFails
  BY <1>6, FailedFinalizerCall, StoreCallIsQueueStep
<1>7. QED
  BY <1>1, <1>2, <1>3, <1>4, <1>5, <1>6 DEF FinalizerStep, FinalizerFault

\* Every step of the service is a step of the queue's specification, or leaves the
\* queue alone.
LEMMA ServiceIsQueueStep ==
    ASSUME ServiceTypeOK, LocalInv, FinalizerInv, [ServiceNext]_allVars
    PROVE  [Next]_vars
<1>1. CASE Initialize \/ StartupFails \/ RecoveryFails
  BY <1>1 DEF Initialize, StartupFails, RecoveryFails, Recover, Next
<1>2. CASE ClaimJob \/ ClaimFails
  <2>1. up \in Owners
    BY <1>2 DEF ClaimJob, ClaimFails, ServiceTypeOK, ClaimedTypeOK
  <2>2. QED
    BY <1>2, <2>1 DEF ClaimJob, ClaimFails, Next
<1>3. CASE Exit \/ SettlementFails
  <2>1. up \in Owners /\ (job # 0 => job \in JobIds /\ att \in 1..MaxAttempts)
    BY <1>3 DEF Exit, SettlementFails, ServiceTypeOK, ClaimedTypeOK, LocalInv
  <2>2. QED
    BY <1>3, <2>1 DEF Exit, SettlementFails, SettleShutdownClaim, LeaseMethod, Next
<1>4. CASE Cancelled
  BY <1>4, StoreCallIsQueueStep DEF Cancelled
<1>5. CASE Heartbeat
  <2>1. job \in JobIds /\ att \in 1..MaxAttempts /\ up \in Owners
    BY <1>5, ClaimHeld DEF Heartbeat, Beating
  <2>2. QED
    BY <1>5, <2>1 DEF Heartbeat, LeaseMethod, Next
<1>6. CASE HeartbeatAdmission
  <2>1. job \in JobIds /\ att \in 1..MaxAttempts /\ up \in Owners
    BY <1>6, ClaimHeld DEF HeartbeatAdmission
  <2>2. Token \in Tokens
    BY <1>6, <2>1, TokenHeld DEF HeartbeatAdmission, RenewFinalization, ServiceTypeOK
  <2>3. QED
    BY <1>6, <2>1, <2>2 DEF HeartbeatAdmission, FinalizeMethod, Next
<1>7. ASSUME NEW d \in Docs, NEW p \in Priorities, Intake(d, p)
      PROVE  [Next]_vars
  <2>1. contract \in Contracts /\ source[d] \in Checksums
    BY <1>7 DEF Intake, Running, LocalInv, ServiceTypeOK, ClaimedTypeOK
  <2>2. QED
    BY <1>7, <2>1 DEF Intake, Next
<1>8. CASE ServiceTick \/ Stall
  BY <1>8 DEF ServiceTick, Stall, Next
<1>9. CASE \/ Classify \/ Outcome \/ LoopEnds \/ LeaseLost \/ Start \/ Stop \/ Crash
           \/ LookupFails \/ Reconfigure
           \/ \E d \in Docs : ReplaceOriginal(d) \/ AddTag(d)
           \/ UNCHANGED allVars
  BY <1>9 DEF Classify, Outcome, LoopEnds, LeaseLost, Start, Stop, Crash, LookupFails, Reconfigure,
              ReplaceOriginal, AddTag, allVars
<1>10. QED
  BY <1>1, <1>2, <1>3, <1>4, <1>5, <1>6, <1>7, <1>8, <1>9,
     WorkerIsQueueStep, FinalizerIsQueueStep
     DEF ServiceNext, ProcessStep, Beat, Fault

-----------------------------------------------------------------------------
(***************************************************************************)
(* The tables of the finalizer, row by row.                                *)
(***************************************************************************)

\* Where the finalizer goes on at each stored stage.
LEMMA StageEntryIs ==
    /\ StageEntry("pending") = "content"
    /\ StageEntry("content_updated") = "readTags"
    /\ StageEntry("complete_tag_added") = "readTags"
    /\ StageEntry("failure_pending") = "readTags"
    /\ StageEntry("failed_tag_removed") = "reserve"
    /\ StageEntry("metadata_dispatched") = "complete"
    /\ StageEntry("failure_tag_added") = "fail"
BY DEF StageEntry

\* The stage recorded after each side effect.
LEMMA NextStageIs ==
    /\ NextStage("pending") = "content_updated"
    /\ NextStage("content_updated") = "complete_tag_added"
    /\ NextStage("complete_tag_added") = "failed_tag_removed"
    /\ NextStage("failed_tag_removed") = "metadata_dispatched"
    /\ NextStage("failure_pending") = "failure_tag_added"
BY DEF NextStage

\* The tags each stage writes, over the list it has read.
LEMMA WantedTagsIs ==
    ASSUME NEW list
    PROVE  /\ WantedTags("content_updated", list) = list \cup {"complete"}
           /\ WantedTags("complete_tag_added", list) = list \ {"failed"}
           /\ WantedTags("failure_pending", list) = list \cup {"failed"}
BY DEF WantedTags

\* Where Verify leads.
LEMMA VerifyLeads ==
    ASSUME Verify
    PROVE  \/ pc' = "fail"
           \/ fin[job] = "pending" /\ content[Doc] = batches[job] /\ pc' = "advance"
           \/ pc' = StageEntry(fin[job]) /\ source[Doc] = src[job].sum
BY DEF Verify, Goto, SourceChanged, ContentIsResult

-----------------------------------------------------------------------------
(***************************************************************************)
(* What a step may do to Paperless and to Paperless AI.                    *)
(***************************************************************************)

\* The service writes its result, writes tags or has a run admitted, each at its
\* place; everything else is done by others and counted.
DocStep ==
    \/ UNCHANGED docVars
    \/ pc = "content" /\ WriteContent /\ UNCHANGED <<source, tags, admitted>>
    \/ pc = "writeTags" /\ WriteTags /\ UNCHANGED <<source, content, admitted>>
    \/ pc = "send" /\ Admit /\ UNCHANGED <<source, content, tags>>
    \/ \E d \in Docs : ReplaceOriginal(d) \/ AddTag(d)

\* Only these steps change a document, its content or its tags.
LEMMA ServiceDocStep ==
    ASSUME [ServiceNext]_allVars
    PROVE  DocStep
<1> USE DEF DocStep
<1>1. CASE WorkerStep \/ WorkerFault
  BY <1>1 DEF WorkerStep, WorkerFault, ContractChanged, FailureAlreadyRecorded,
              ReconstructResult, StartOcr, Fetch, Download, TranscribeDirect, CheckpointDirect,
              PlanImages, TranscribeBatch, JoinBatches, Reschedule, RecordFailure,
              FallBackToImages, WorkerCallFails, DocumentDeadline, WorkerStoreFails, TransitionFails
<1>2. CASE FinalizerStep
  <2>1. CASE UpdateContent \/ UpdateTags \/ DispatchAccepted
    BY <2>1 DEF UpdateContent, UpdateTags, DispatchAccepted, FinalizingAdmitted
  <2>2. QED
    BY <1>2, <2>1 DEF FinalizerStep, AcquireSuccess, Verify, ReadTags, Advance,
              ReserveDispatch, ConfirmDispatch, ResetDispatch, CompleteJob, FailJob,
              AcquireFailure
<1>3. CASE FinalizerFault
  BY <1>3 DEF FinalizerFault, DispatchRefused, DispatchAmbiguous, FinalizerCallFails,
              FinalizerStoreFails, WriteUnderWay
<1>4. CASE Cancelled
  BY <1>4 DEF Cancelled, WriteUnderWay
<1>5. CASE \/ Initialize \/ ClaimJob \/ Classify \/ Outcome \/ LoopEnds \/ Exit \/ LeaseLost
           \/ Beat \/ Start \/ ServiceTick \/ StartupFails \/ Stop \/ Crash \/ Stall
           \/ RecoveryFails \/ ClaimFails \/ LookupFails \/ SettlementFails \/ Reconfigure
           \/ \E d \in Docs, p \in Priorities : Intake(d, p)
           \/ UNCHANGED allVars
  BY <1>5 DEF Initialize, ClaimJob, Classify, Outcome, LoopEnds, Exit, LeaseLost, Beat,
              Heartbeat, HeartbeatAdmission, Start, ServiceTick, StartupFails, Stop, Crash,
              Stall, RecoveryFails, ClaimFails, LookupFails, SettlementFails, Reconfigure,
              ProcessEnds, Intake, allVars, serviceRest
<1>6. QED
  BY <1>1, <1>2, <1>3, <1>4, <1>5 DEF ServiceNext, ProcessStep, Fault

\* The text Paperless extracted itself has the type of a result.
LEMMA NativeTyped == Native \in Results
BY DEF Native, NoBatches, Results

\* A finalizer writes known tags only.
LEMMA WantedTyped ==
    ASSUME NEW stage \in TagStages, NEW list \in SUBSET Tags
    PROVE  WantedTags(stage, list) \subseteq Tags
<1>1. CASE stage = "content_updated"
  BY <1>1, WantedTagsIs DEF Tags
<1>2. CASE stage = "complete_tag_added"
  BY <1>2, WantedTagsIs DEF Tags
<1>3. CASE stage = "failure_pending"
  BY <1>3, WantedTagsIs DEF Tags
<1>4. QED
  BY <1>1, <1>2, <1>3 DEF TagStages

\* Their types.
LEMMA DocTypes ==
    ASSUME ServiceTypeOK, LocalInv, FinalizerInv, RowInv, ClaimInv, DispatchInv, DocStep
    PROVE  /\ source' \in [Docs -> Checksums] /\ content' \in [Docs -> Results]
           /\ tags' \in [Docs -> SUBSET Tags] /\ admitted' \in [JobIds -> Nat]
<1> USE DEF ServiceTypeOK, ClaimedTypeOK, TypeOK
<1>1. CASE UNCHANGED docVars
  BY <1>1 DEF docVars
<1>2. CASE pc = "content" /\ WriteContent /\ UNCHANGED <<source, tags, admitted>>
  BY <1>2, ClaimHeld DEF WriteContent, FinalizerPcs
<1>3. CASE pc = "writeTags" /\ WriteTags /\ UNCHANGED <<source, content, admitted>>
  <2>1. WantedTags(fin[job], seenTags) \subseteq Tags
    BY <1>3, WantedTyped DEF FinalizerInv
  <2>2. QED
    BY <1>3, <2>1 DEF WriteTags
<1>4. CASE pc = "send" /\ Admit /\ UNCHANGED <<source, content, tags>>
  <2>1. job \in JobIds
    BY <1>4, ClaimHeld DEF FinalizerPcs
  <2>2. admitted[job] + 1 \in Nat
    BY <2>1
  <2>3. QED
    BY <1>4, <2>2 DEF Admit
<1>5. ASSUME NEW d \in Docs, ReplaceOriginal(d) \/ AddTag(d)
      PROVE  /\ source' \in [Docs -> Checksums] /\ content' \in [Docs -> Results]
             /\ tags' \in [Docs -> SUBSET Tags] /\ admitted' \in [JobIds -> Nat]
  BY <1>5, NativeTyped DEF ReplaceOriginal, AddTag, Tags
<1>6. QED
  BY <1>1, <1>2, <1>3, <1>4, <1>5 DEF DocStep

-----------------------------------------------------------------------------
(***************************************************************************)
(* The process and its claim.                                              *)
(***************************************************************************)

\* Faults are only ever used up.
LEMMA BudgetNext ==
    ASSUME ServiceTypeOK, LocalInv, [ServiceNext]_allVars
    PROVE  budget' \in [Bounded -> Nat] /\ \A k \in Bounded : budget'[k] <= budget[k]
<1>1. UNCHANGED budget \/ \E k \in FaultKinds : Spend(k)
  <2>1. CASE WorkerStep \/ WorkerFault
    BY <2>1 DEF WorkerStep, WorkerFault, ContractChanged, FailureAlreadyRecorded,
                ReconstructResult, StartOcr, Fetch, Download, TranscribeDirect,
                CheckpointDirect, PlanImages, TranscribeBatch, JoinBatches, Reschedule,
                RecordFailure, FallBackToImages, WorkerCallFails, DocumentDeadline,
                WorkerStoreFails, TransitionFails, FaultKinds
  <2>2. CASE FinalizerStep
    BY <2>2 DEF FinalizerStep, AcquireSuccess, Verify, UpdateContent, ReadTags, UpdateTags,
                Advance, ReserveDispatch, DispatchAccepted, ConfirmDispatch, ResetDispatch,
                CompleteJob, FailJob, AcquireFailure
  <2>3. CASE FinalizerFault
    BY <2>3 DEF FinalizerFault, DispatchRefused, DispatchAmbiguous, FinalizerCallFails,
                FinalizerStoreFails, FaultKinds
  <2>4. CASE \/ Initialize \/ ClaimJob \/ Classify \/ Outcome \/ LoopEnds \/ Exit
             \/ Cancelled \/ LeaseLost \/ Beat \/ Start \/ ServiceTick
             \/ \E d \in Docs, p \in Priorities : Intake(d, p)
             \/ UNCHANGED allVars
    BY <2>4 DEF Initialize, ClaimJob, Classify, Outcome, LoopEnds, Exit, Cancelled, LeaseLost,
                Beat, Heartbeat, HeartbeatAdmission, Start, ServiceTick, Intake, allVars
  <2>5. CASE \/ StartupFails \/ Stop \/ Crash \/ Stall
             \/ RecoveryFails \/ ClaimFails \/ LookupFails \/ SettlementFails \/ Reconfigure
             \/ \E d \in Docs : ReplaceOriginal(d) \/ AddTag(d)
    BY <2>5 DEF StartupFails, Stop, Crash, Stall, RecoveryFails, ClaimFails, LookupFails,
                SettlementFails, Reconfigure, ReplaceOriginal, AddTag, FaultKinds
  <2>6. QED
    BY <2>1, <2>2, <2>3, <2>4, <2>5 DEF ServiceNext, ProcessStep, Fault
<1>2. budget \in [Bounded -> Nat] /\ "any" \in Bounded /\ FaultKinds \subseteq Bounded
  BY DEF ServiceTypeOK, ClaimedTypeOK, Bounded
<1>3. ASSUME NEW k \in FaultKinds, Spend(k)
      PROVE  budget' \in [Bounded -> Nat] /\ \A l \in Bounded : budget'[l] <= budget[l]
  <2>1. k # "any"
    BY DEF FaultKinds
  <2>2. budget[k] - 1 \in Nat /\ budget["any"] - 1 \in Nat
    BY <1>2, <1>3 DEF Spend
  <2>3. budget' = [budget EXCEPT ![k] = budget[k] - 1, !["any"] = budget["any"] - 1]
    BY <1>3 DEF Spend
  <2>4. \A l \in Bounded : budget'[l] = IF l = k \/ l = "any" THEN budget[l] - 1 ELSE budget[l]
    BY <1>2, <2>1, <2>3
  <2>5. QED
    BY <1>2, <2>2, <2>3, <2>4
<1>4. QED
  BY <1>1, <1>2, <1>3

\* What a step leaves of the loop's own state, given where it goes.
Control ==
    /\ up \in Owners \cup {None} /\ born \subseteq Owners
    /\ contract \in Contracts
    /\ capability \in {"direct", "images", "unknown"}
    /\ stopping \in BOOLEAN
    /\ pc \in Pcs
    /\ job \in JobIds \cup {0} /\ att \in 0..MaxAttempts
    /\ seen \in Checksums \cup {None} /\ seenTags \subseteq Tags
    /\ (up = None) <=> (pc = "down")
    /\ pc \in WorkerPcs \cup FinalizerPcs \cup SettlingPcs => job # 0
    /\ pc \in {"down", "start", "idle"} => job = 0
    /\ job # 0 => att \in 1..MaxAttempts
    /\ pc \in FetchedPcs => seen \in Checksums

\* A step of process or of the finalizer moves on within the two, or to a transition.
LEMMA GotoControl ==
    ASSUME Control, NEW p \in WorkerPcs \cup FinalizerPcs \cup SettlingPcs, Goto(p),
           pc \in WorkerPcs \cup FinalizerPcs \cup SettlingPcs,
           seen' \in Checksums \cup {None}, seenTags' \subseteq Tags,
           p \in FetchedPcs => seen' \in Checksums
    PROVE  Control'
<1>1. pc' \in Pcs \ {"down", "start", "idle"}
  BY DEF Goto, Pcs, WorkerPcs, FinalizerPcs, SettlingPcs
<1>2. up # None
  BY DEF Control, WorkerPcs, FinalizerPcs, SettlingPcs
<1>3. QED
  BY <1>1, <1>2 DEF Control, Goto, procVars, claimVars

\* The worker's moves.
LEMMA WorkerControl ==
    ASSUME ServiceTypeOK, LocalInv, Control, source \in [Docs -> Checksums], RowInv, ClaimInv,
           WorkerStep \/ WorkerFault
    PROVE  Control'
<1> USE DEF localVars
<1>0. seen \in Checksums \cup {None} /\ seenTags \subseteq Tags
  BY DEF Control
<1>1. CASE ContractChanged \/ FailureAlreadyRecorded \/ ReconstructResult \/ StartOcr
           \/ Fetch \/ JoinBatches
  BY <1>0, <1>1, GotoControl
     DEF ContractChanged, FailureAlreadyRecorded, ReconstructResult, StartOcr, Fetch, JoinBatches,
         Working, WorkerPcs, FinalizerPcs, SettlingPcs, FetchedPcs
<1>2. CASE Download
  <2>1. job \in JobIds /\ state[job] # "absent"
    BY <1>2 DEF Download, Working, Control, ClaimInv, WorkerPcs
  <2>2. source[Doc] \in Checksums
    BY <2>1 DEF RowInv, Sources, Doc
  <2>3. QED
    BY <1>0, <1>2, <2>2, GotoControl DEF Download, Working, WorkerPcs
<1>3. CASE TranscribeDirect \/ PlanImages \/ CheckpointDirect \/ TranscribeBatch
  <2>1. pc \in FetchedPcs /\ seen \in Checksums /\ UNCHANGED localVars
    BY <1>3 DEF TranscribeDirect, PlanImages, CheckpointDirect, TranscribeBatch, Working,
                Control, FetchedPcs
  <2>2. \E p \in {"direct", "batch", "acquire", "record"} : Goto(p)
    BY <1>3 DEF TranscribeDirect, PlanImages, CheckpointDirect, TranscribeBatch, EnsurePlan
  <2>3. QED
    BY <1>0, <2>1, <2>2, GotoControl DEF FetchedPcs, WorkerPcs, FinalizerPcs, SettlingPcs
<1>4. CASE Reschedule \/ RecordFailure \/ WorkerCallFails
  BY <1>0, <1>4, GotoControl DEF Reschedule, RecordFailure, WorkerCallFails, Working,
     WorkerPcs, SettlingPcs, FetchedPcs
<1>5. CASE FallBackToImages
  <2>1. pc = "transcribe" /\ seen \in Checksums /\ UNCHANGED localVars /\ Goto("plan")
    BY <1>5 DEF FallBackToImages, Working, Control, FetchedPcs
  <2>2. QED
    BY <1>0, <2>1, GotoControl DEF WorkerPcs
<1>6. CASE DocumentDeadline \/ WorkerStoreFails
  <2>1. pc \in WorkerPcs /\ UNCHANGED localVars
    BY <1>6 DEF DocumentDeadline, WorkerStoreFails, Interruptible
  <2>2. \E p \in {"reschedule", "outcome", "record"} : Goto(p)
    BY <1>6 DEF DocumentDeadline, WorkerStoreFails, InterruptedAt, FailedStoreCallAt
  <2>3. QED
    BY <1>0, <2>1, <2>2, GotoControl DEF SettlingPcs, FetchedPcs
<1>7. CASE TransitionFails
  <2>1. pc \in SettlingPcs /\ UNCHANGED localVars
    BY <1>7 DEF TransitionFails, SettlingPcs
  <2>2. \E p \in {"classify", "reschedule", "outcome"} : Goto(p)
    BY <1>7 DEF TransitionFails, AfterFailedTransition
  <2>3. QED
    BY <1>0, <2>1, <2>2, GotoControl DEF SettlingPcs, FetchedPcs
<1>8. QED
  BY <1>1, <1>2, <1>3, <1>4, <1>5, <1>6, <1>7 DEF WorkerStep, WorkerFault

\* Every stage the finalizer may be at has an entry.
LEMMA StageEntryPc ==
    ASSUME NEW stage \in Stages
    PROVE  StageEntry(stage) \in {"content", "readTags", "reserve", "complete", "fail"}
BY StageEntryIs DEF Stages, SuccessStages, FailureStages

\* The finalizer's moves.
LEMMA FinalizerControl ==
    ASSUME Control, TypeOK, tags \in [Docs -> SUBSET Tags], FailureExcludesSuccess,
           RowInv, ClaimInv, FinalizerInv, FinalizerStep \/ FinalizerFault
    PROVE  Control'
<1> DEFINE Ends == {"content", "readTags", "reserve", "complete", "fail"}
<1>0. seen \in Checksums \cup {None} /\ seenTags \subseteq Tags
  BY DEF Control
<1>a. ASSUME pc \in WorkerPcs \cup FinalizerPcs \cup SettlingPcs, UNCHANGED localVars,
             \E p \in FinalizerPcs \cup SettlingPcs : Goto(p)
      PROVE  Control'
  BY <1>0, <1>a, GotoControl DEF localVars, FetchedPcs, FinalizerPcs, SettlingPcs
<1>1. CASE AcquireSuccess
  BY <1>1, <1>a DEF AcquireSuccess, Finalizing, FinalizerPcs, SettlingPcs
<1>2. CASE Verify
  <2>1. pc = "verify" /\ fin[job] # "absent" /\ job \in JobIds
    BY <1>2 DEF Verify, FinalizingAdmitted, FinalizerInv, Control, FinalizerPcs
  <2>2. StageEntry(fin[job]) \in Ends
    BY <2>1, StageEntryPc DEF TypeOK
  <2>3. pc' \in Ends \cup {"advance"}
    BY <1>2, <2>2, VerifyLeads
  <2>4. UNCHANGED localVars /\ Goto(pc')
    BY <1>2 DEF Verify, Goto
  <2>5. QED
    BY <1>a, <2>1, <2>3, <2>4 DEF FinalizerPcs, SettlingPcs
<1>3. CASE UpdateContent \/ UpdateTags \/ ReserveDispatch \/ DispatchAccepted
           \/ ConfirmDispatch \/ ResetDispatch
  BY <1>3, <1>a DEF UpdateContent, UpdateTags, ReserveDispatch, DispatchAccepted,
     ConfirmDispatch, ResetDispatch, FinalizingAdmitted, FinalizerPcs, SettlingPcs
<1>4. CASE ReadTags
  <2>1. pc = "readTags" /\ job \in JobIds /\ state[job] # "absent"
    BY <1>4 DEF ReadTags, FinalizingAdmitted, Control, ClaimInv, FinalizerPcs
  <2>2. tags[Doc] \subseteq Tags
    BY <2>1 DEF RowInv, Sources, Doc
  <2>3. QED
    BY <1>0, <1>4, <2>1, <2>2, GotoControl DEF ReadTags, FinalizerPcs, FetchedPcs
<1>5. CASE Advance
  <2>1. pc = "advance" /\ UNCHANGED localVars /\ Goto(StageEntry(NextStage(fin[job])))
    BY <1>5 DEF Advance, FinalizingAdmitted
  <2>2. StageEntry(NextStage(fin[job])) \in Ends
    BY <2>1, AdvanceStages, StageEntryPc
  <2>3. QED
    BY <1>a, <2>1, <2>2 DEF FinalizerPcs, SettlingPcs
<1>6. CASE AcquireFailure
  <2>1. pc = "acquireFailure" /\ UNCHANGED localVars /\ Goto(StageEntry(fin[job]))
    BY <1>6 DEF AcquireFailure, Finalizing
  <2>2. job \in JobIds /\ failure[job]
    BY <2>1 DEF FinalizerInv, Control, FinalizerPcs
  <2>3. fin[job] \in Stages
    BY <2>2 DEF FailureExcludesSuccess, TerminalFailure, Stages
  <2>4. QED
    BY <1>a, <2>1, <2>3, StageEntryPc DEF FinalizerPcs, SettlingPcs
<1>7. CASE CompleteJob \/ FailJob
  BY <1>7, <1>a DEF CompleteJob, FailJob, SettlingPcs
<1>8. CASE FinalizerFault
  <2>1. CASE FinalizerStoreFails
    BY <1>a, <2>1 DEF FinalizerStoreFails, FinalizerAtWork, EndsFailOCR, FailedCheckpointAt, SettlingPcs
  <2>2. CASE DispatchRefused \/ DispatchAmbiguous \/ FinalizerCallFails
    BY <1>a, <2>2 DEF DispatchRefused, DispatchAmbiguous, AfterAmbiguousDispatch,
       FinalizerCallFails, FinalizingAdmitted, FinalizerPcs, SettlingPcs
  <2>3. QED
    BY <1>8, <2>1, <2>2 DEF FinalizerFault
<1>9. QED
  BY <1>1, <1>2, <1>3, <1>4, <1>5, <1>6, <1>7, <1>8 DEF FinalizerStep

\* The moves of the service loop and of its process.
LEMMA ServiceControl ==
    ASSUME ServiceTypeOK, LocalInv, FailureExcludesSuccess, RowInv, ClaimInv, FinalizerInv,
           [ServiceNext]_allVars
    PROVE  Control'
<1>0. Control /\ source \in [Docs -> Checksums] /\ tags \in [Docs -> SUBSET Tags] /\ TypeOK
  BY DEF ServiceTypeOK, ClaimedTypeOK, LocalInv, Control
<1>z. 0 \in 0..MaxAttempts
  BY BoundAssumption
<1>1. CASE WorkerStep \/ WorkerFault
  BY <1>0, <1>1, WorkerControl
<1>2. CASE FinalizerStep \/ FinalizerFault
  BY <1>0, <1>2, FinalizerControl
<1>3. CASE Initialize \/ StartupFails \/ RecoveryFails \/ LoopEnds
  BY <1>0, <1>3 DEF Initialize, StartupFails, RecoveryFails, LoopEnds, Goto, Control, procVars, claimVars,
     localVars, Pcs, WorkerPcs, FinalizerPcs, SettlingPcs, FetchedPcs
<1>4. CASE ClaimJob
  <2>1. PICK i \in JobIds : Claim(i, up) /\ job' = i /\ att' = NextAttempt(attempts[i])
    BY <1>4 DEF ClaimJob
  <2>2. att' \in 1..MaxAttempts /\ job' \in JobIds /\ job' # 0
    <3>1. attempts[i] \in 0..MaxAttempts /\ attempts[i] < MaxAttempts
      BY <1>0, <2>1 DEF Claim, TypeOK
    <3>2. att' = attempts[i] + 1 /\ job' = i
      BY <2>1 DEF NextAttempt
    <3>3. QED
      BY <3>1, <3>2, BoundAssumption DEF JobIds
  <2>3. pc = "idle" /\ pc' = "check" /\ UNCHANGED <<procVars, localVars>>
    BY <1>4 DEF ClaimJob
  <2>4. QED
    BY <1>0, <2>2, <2>3 DEF Control, procVars, localVars, Pcs, WorkerPcs, FetchedPcs
<1>5. CASE Classify \/ LeaseLost \/ (LookupFails /\ pc = "classify")
  <2>1. /\ pc \in WorkerPcs \cup FinalizerPcs \cup SettlingPcs /\ UNCHANGED localVars
        /\ \E p \in {"acquireFailure", "outcome", "reschedule"} : Goto(p)
    BY <1>5 DEF Classify, LeaseLost, LookupFails, SettlingPcs
  <2>2. QED
    BY <1>0, <2>1, GotoControl DEF Control, localVars, FinalizerPcs, SettlingPcs, FetchedPcs
<1>6. CASE Outcome \/ (LookupFails /\ pc = "outcome")
  <2>1. /\ pc = "outcome" /\ seen' = None /\ seenTags' = {}
        /\ UNCHANGED <<up, born, contract, capability>>
        /\ \/ pc' = "idle" /\ job' = 0 /\ att' = 0 /\ stopping' = stopping
           \/ pc' = "exit" /\ stopping' = TRUE /\ job' = job /\ att' = att
    BY <1>6 DEF Outcome, LookupFails, claimVars
  <2>2. QED
    BY <1>0, <2>1, <1>z DEF Control, Pcs, WorkerPcs, FinalizerPcs, SettlingPcs, FetchedPcs
<1>7. CASE Exit \/ SettlementFails \/ Crash
  <2>1. /\ pc' = "down" /\ up' = None /\ job' = 0 /\ att' = 0 /\ contract' = contract
        /\ capability' = "unknown" /\ stopping' = FALSE /\ born' = born
    BY <1>7 DEF Exit, SettlementFails, Crash, ProcessEnds
  <2>2. seen' \in Checksums \cup {None} /\ seenTags' \subseteq Tags
    BY <1>0, <1>7 DEF Exit, SettlementFails, Crash, Control, localVars
  <2>3. QED
    BY <1>0, <2>1, <2>2, <1>z DEF Control, Pcs, WorkerPcs, FinalizerPcs, SettlingPcs, FetchedPcs
<1>9. CASE Cancelled
  <2>1. /\ pc \in WorkerPcs \cup FinalizerPcs \cup SettlingPcs /\ UNCHANGED localVars
        /\ \E p \in {"reschedule", "outcome", "record", "fail"} : Goto(p)
    BY <1>9 DEF Cancelled, Interruptible, InterruptedAt, AfterAmbiguousDispatch, FinalizerAtWork,
       EndsFailOCR, FinalizerPcs, SettlingPcs
  <2>2. QED
    BY <1>0, <2>1, GotoControl DEF Control, localVars, SettlingPcs, FetchedPcs
<1>10. CASE Start
  <2>1. PICK o \in Owners \ born : up' = o /\ born' = born \cup {o}
    <3>1. \E x \in Owners \ born : TRUE
      BY <1>0, <1>10 DEF Start, Control
    <3>2. QED
      BY <1>10, <3>1 DEF Start
  <2>2. /\ contract' = contract /\ capability' \in {"direct", "images"} /\ stopping' = FALSE
        /\ pc = "down" /\ pc' = "start" /\ UNCHANGED <<claimVars, localVars>>
    BY <1>10, CapabilityAssumption DEF Start
  <2>3. QED
    BY <1>0, <2>1, <2>2, NoneAssumption DEF Control, claimVars, localVars, Pcs, WorkerPcs, FinalizerPcs,
       SettlingPcs, FetchedPcs
<1>11. CASE Stop
  BY <1>0, <1>11 DEF Stop, Control, claimVars, localVars
<1>12. CASE \/ Beat \/ ServiceTick \/ Stall
            \/ \E d \in Docs : ReplaceOriginal(d) \/ AddTag(d)
            \/ \E d \in Docs, p \in Priorities : Intake(d, p)
            \/ UNCHANGED allVars
  <2>1. UNCHANGED <<procVars, pc, claimVars, localVars>>
    BY <1>12 DEF Beat, Heartbeat, HeartbeatAdmission, ServiceTick, Stall, ReplaceOriginal, AddTag,
       Intake, allVars, serviceRest
  <2>2. QED
    BY <1>0, <2>1 DEF Control, procVars, claimVars, localVars
<1>13. CASE ClaimFails
  <2>1. pc = "idle" /\ pc' = "exit" /\ stopping' = TRUE
        /\ UNCHANGED <<up, born, contract, capability, claimVars, localVars>>
    BY <1>13 DEF ClaimFails
  <2>2. QED
    BY <1>0, <2>1 DEF Control, claimVars, localVars, Pcs, WorkerPcs, FinalizerPcs, SettlingPcs, FetchedPcs
<1>14. CASE Reconfigure
  BY <1>0, <1>14 DEF Reconfigure, Control, claimVars, localVars
<1>15. LookupFails => pc \in {"classify", "outcome"}
  BY DEF LookupFails
<1>16. QED
  BY <1>1, <1>2, <1>3, <1>4, <1>5, <1>6, <1>7, <1>9, <1>10, <1>11, <1>12, <1>13, <1>14, <1>15
     DEF ServiceNext, ProcessStep, Fault

\* Together: the types of the service.
LEMMA ServiceTypeNext ==
    ASSUME ServiceTypeOK, LocalInv, FailureExcludesSuccess, RowInv, ClaimInv, DispatchInv,
           FinalizerInv, [ServiceNext]_allVars
    PROVE  ServiceTypeOK' /\ LocalInv'
<1>1. TypeOK'
  BY ServiceIsQueueStep, TypeNext DEF ServiceTypeOK
<1>2. /\ source' \in [Docs -> Checksums] /\ content' \in [Docs -> Results]
      /\ tags' \in [Docs -> SUBSET Tags] /\ admitted' \in [JobIds -> Nat]
  BY ServiceDocStep, DocTypes
<1>3. Control'
  BY ServiceControl
<1>4. budget' \in [Bounded -> Nat] /\ \A k \in Bounded : budget'[k] <= Budget[k]
  <2>1. budget \in [Bounded -> Nat] /\ Budget \in [Bounded -> Nat]
    BY BudgetAssumption DEF ServiceTypeOK, ClaimedTypeOK
  <2>2. QED
    BY <2>1, BudgetNext DEF LocalInv
<1>5. QED
  BY <1>1, <1>2, <1>3, <1>4 DEF ServiceTypeOK, ClaimedTypeOK, LocalInv, Control

-----------------------------------------------------------------------------
(***************************************************************************)
(* Rows are inserted once and keep their source.                           *)
(***************************************************************************)

\* What a step of the queue may do to a row as a whole.
RowStep ==
    \A i \in JobIds :
        /\ state[i] # "absent" => state'[i] # "absent" /\ src'[i] = src[i]
        /\ state[i] = "absent" /\ state'[i] # "absent" => src'[i] \in Sources
        /\ failure[i] => failure'[i]

\* The queue inserts a row whole, and never takes back its source or its failure.
LEMMA RowStepNext ==
    ASSUME SafeInv, [Next]_vars
    PROVE  RowStep
<1> USE DEF jobRow, finRow, timers, RowStep
<1>1. ASSUME NEW d \in Docs, NEW c \in Checksums, NEW k \in Contracts, NEW p \in Priorities,
             EnqueueExisting(d, c, p) \/ EnqueueNew(d, c, k, p)
      PROVE  RowStep
  <2>1. [doc |-> d, sum |-> c, contract |-> k] \in Sources
    BY DEF Sources
  <2>2. QED
    BY <1>1, <2>1 DEF SafeInv, TypeOK, EnqueueExisting, EnqueueNew
<1>2. ASSUME NEW i \in JobIds, NEW o \in Owners, Claim(i, o)
      PROVE  RowStep
  BY <1>2 DEF SafeInv, TypeOK, Claim, ClaimNext, Due
<1>3. ASSUME NEW i \in JobIds, NEW a \in 1..MaxAttempts, NEW o \in Owners,
             LeaseMethod(i, a, o)
      PROVE  RowStep
  BY <1>3 DEF SafeInv, TypeOK, LeaseMethod, RenewLease, ScheduleRetry, Release, Complete, Fail,
              EndClaim, MayEnd, ActiveLease
<1>4. ASSUME NEW i \in JobIds, NEW a \in 1..MaxAttempts, NEW o \in Owners,
             WorkMethod(i, a, o) \/ \E t \in Tokens : FinalizeMethod(i, a, o, t)
      PROVE  RowStep
  <2>1. UNCHANGED jobRow
    BY <1>4 DEF WorkMethod, EnsureBatches, CheckpointBatch, RecordTerminalFailure,
                FinalizeMethod, AcquireFinalization, RenewFinalization, AdvanceFinalization,
                SetDispatchState
  <2>2. UNCHANGED failure \/ failure' = [failure EXCEPT ![i] = TRUE]
    BY <1>4 DEF WorkMethod, EnsureBatches, CheckpointBatch, RecordTerminalFailure,
                FinalizeMethod, AcquireFinalization, RenewFinalization, AdvanceFinalization,
                SetDispatchState
  <2>3. QED
    BY <2>1, <2>2 DEF SafeInv, TypeOK
<1>5. ASSUME NEW i \in JobIds, NEW d \in 1..MaxDelay, RetryFailed(i, d)
      PROVE  RowStep
  BY <1>5 DEF SafeInv, TypeOK, RetryFailed
<1>6. CASE RecoverExpiredLeases
  BY <1>6 DEF SafeInv, TypeOK, RecoverExpiredLeases, Expired
<1>7. CASE Tick \/ UNCHANGED vars
  BY <1>7 DEF Tick, vars
<1>8. QED
  BY <1>1, <1>2, <1>3, <1>4, <1>5, <1>6, <1>7 DEF Next

\* No step of the queue uses a row that was not inserted.
LEMMA RowInvNext ==
    ASSUME SafeInv, RowInv, [Next]_vars
    PROVE  RowInv'
<1>1. RowStep /\ FencedStep
  BY RowStepNext, FencedNext DEF SafeInv
<1>2. \A i \in JobIds : state[i] = "absent" => leaseLeft[i] = 0
  BY DEF SafeInv, TypeOK, LeaseIffProcessing
<1>3. QED
  BY <1>1, <1>2 DEF RowInv, RowStep, FencedStep

-----------------------------------------------------------------------------
(***************************************************************************)
(* The claim of the running process.                                       *)
(***************************************************************************)

\* Steps that touch neither the row nor the claim keep the claim.
LEMMA ClaimUntouched ==
    ASSUME ClaimInv, UNCHANGED <<state, attempts, owner, up, job, att>>,
           pc' \in OwnPcs => pc \in OwnPcs
    PROVE  ClaimInv'
BY DEF ClaimInv

\* The transitions end the claim or leave the row as it is.
LEMMA ClaimEnds ==
    ASSUME ServiceTypeOK, ClaimInv, job # 0, pc' \in {"outcome", "reschedule"}, UNCHANGED <<up, job, att>>,
           NEW s \in {"retry", "completed", "failed"}, NEW d, EndClaim(job, att, up, s, d)
    PROVE  ClaimInv'
<1>1. job \in JobIds
  BY DEF ServiceTypeOK, ClaimedTypeOK
<1>2. QED
  BY <1>1 DEF ServiceTypeOK, TypeOK, ClaimInv, EndClaim, OwnPcs, WorkerPcs, FinalizerPcs, SettlingPcs

\* The store calls of the worker and of the finalizer leave the jobs table alone.
LEMMA StoreCallKeepsJobs ==
    ASSUME WorkerStoreCall \/ FinalizerStoreCall
    PROVE  UNCHANGED <<jobRow, timers>> \/ UNCHANGED <<jobRow, leaseLeft, delayLeft>>
BY DEF WorkerStoreCall, FinalizerStoreCall, EnsureBatches, CheckpointBatch,
       AcquireFinalization, AdvanceFinalization, SetDispatchState

\* Every step leaves a running process its claim, or takes it off the claim.
LEMMA ClaimInvNext ==
    ASSUME SafeInv, ServiceTypeOK, LocalInv, ClaimInv, [ServiceNext]_allVars
    PROVE  ClaimInv'
<1> USE DEF jobRow, procVars, claimVars
<1>0. pc \in WorkerPcs \cup FinalizerPcs \cup SettlingPcs => job \in JobIds /\ job # 0
  BY DEF ServiceTypeOK, ClaimedTypeOK
<1>1. CASE \/ ContractChanged \/ FailureAlreadyRecorded \/ ReconstructResult \/ StartOcr
           \/ Fetch \/ Download \/ TranscribeDirect \/ CheckpointDirect \/ PlanImages
           \/ TranscribeBatch \/ JoinBatches \/ RecordFailure \/ (WorkerFault /\ ~TransitionFails)
  <2>1. pc \in OwnPcs
    BY <1>1 DEF ContractChanged, FailureAlreadyRecorded, ReconstructResult, StartOcr, Fetch, Download,
       TranscribeDirect, CheckpointDirect, PlanImages, TranscribeBatch, JoinBatches, RecordFailure,
       WorkerFault, FallBackToImages, WorkerCallFails, DocumentDeadline, WorkerStoreFails,
       Interruptible, Working, OwnPcs, WorkerPcs, SettlingPcs
  <2>2. UNCHANGED <<up, job, att>>
    BY <1>1 DEF ContractChanged, FailureAlreadyRecorded, ReconstructResult, StartOcr, Fetch, Download,
       TranscribeDirect, CheckpointDirect, PlanImages, TranscribeBatch, JoinBatches, RecordFailure,
       WorkerFault, FallBackToImages, WorkerCallFails, DocumentDeadline, WorkerStoreFails,
       EnsurePlan, Goto
  <2>3. UNCHANGED jobRow
    BY <1>1, StoreCallKeepsJobs
       DEF ContractChanged, FailureAlreadyRecorded, ReconstructResult, StartOcr, Fetch, Download,
       TranscribeDirect, CheckpointDirect, PlanImages, TranscribeBatch, JoinBatches, RecordFailure,
       WorkerFault, FallBackToImages, WorkerCallFails, DocumentDeadline, WorkerStoreFails,
       EnsurePlan, EnsureBatches, CheckpointBatch, RecordTerminalFailure, vars
  <2>4. QED
    BY <2>1, <2>2, <2>3, ClaimUntouched
<1>2. CASE Reschedule \/ CompleteJob \/ FailJob
  <2>1. job # 0 /\ pc' = "outcome" /\ UNCHANGED <<up, job, att>>
    BY <1>0, <1>2 DEF Reschedule, CompleteJob, FailJob, Goto, SettlingPcs
  <2>2. CASE UNCHANGED vars
    BY <2>1, <2>2, ClaimUntouched DEF vars, OwnPcs, WorkerPcs, FinalizerPcs, SettlingPcs
  <2>3. CASE \E s \in {"retry", "completed", "failed"}, d \in 0..MaxDelay : EndClaim(job, att, up, s, d)
    BY <2>1, <2>3, ClaimEnds
  <2>4. QED
    <3>1. delayLeft[job] \in 0..MaxDelay /\ MaxDelay \in 0..MaxDelay
      BY <1>0, <1>2, BoundAssumption DEF ServiceTypeOK, TypeOK, Reschedule, CompleteJob, FailJob, SettlingPcs
    <3>2. QED
      BY <1>2, <2>2, <2>3, <3>1 DEF Reschedule, CompleteJob, FailJob, ScheduleRetry, Complete, Fail
<1>3. CASE \/ AcquireSuccess \/ Verify \/ UpdateContent \/ ReadTags \/ UpdateTags \/ Advance
           \/ ReserveDispatch \/ DispatchAccepted \/ ConfirmDispatch \/ ResetDispatch
           \/ AcquireFailure \/ (FinalizerFault /\ ~FinalizerStoreFails)
  <2>1. pc \in OwnPcs
    BY <1>3 DEF AcquireSuccess, Verify, UpdateContent, ReadTags, UpdateTags, Advance, ReserveDispatch,
       DispatchAccepted, ConfirmDispatch, ResetDispatch, AcquireFailure, FinalizerFault,
       DispatchRefused, DispatchAmbiguous, FinalizerCallFails, Finalizing, FinalizingAdmitted, OwnPcs,
       FinalizerPcs
  <2>2. UNCHANGED <<up, job, att>>
    BY <1>3 DEF AcquireSuccess, Verify, UpdateContent, ReadTags, UpdateTags, Advance, ReserveDispatch,
       DispatchAccepted, ConfirmDispatch, ResetDispatch, AcquireFailure, FinalizerFault,
       DispatchRefused, DispatchAmbiguous, FinalizerCallFails, Goto
  <2>3. UNCHANGED jobRow
    BY <1>3 DEF AcquireSuccess, Verify, UpdateContent, ReadTags, UpdateTags, Advance, ReserveDispatch,
       DispatchAccepted, ConfirmDispatch, ResetDispatch, AcquireFailure, FinalizerFault,
       DispatchRefused, DispatchAmbiguous, FinalizerCallFails, AcquireFinalization,
       AdvanceFinalization, SetDispatchState, vars
  <2>4. QED
    BY <2>1, <2>2, <2>3, ClaimUntouched
<1>4. CASE Cancelled \/ FinalizerStoreFails
  <2>1. pc \in OwnPcs
    BY <1>4, FailedFinalizerCall DEF Cancelled, Interruptible, FinalizerAtWork, EndsFailOCR,
       OwnPcs, WorkerPcs, FinalizerPcs, SettlingPcs
  <2>2. UNCHANGED <<up, job, att>>
    BY <1>4, FailedFinalizerCall DEF Cancelled, Goto
  <2>3. UNCHANGED jobRow
    BY <1>4, StoreCallKeepsJobs, FailedFinalizerCall DEF Cancelled, vars
  <2>4. QED
    BY <2>1, <2>2, <2>3, ClaimUntouched
<1>5. CASE Classify \/ LeaseLost \/ LookupFails
  BY <1>5, ClaimUntouched DEF Classify, LeaseLost, LookupFails, Goto, vars, OwnPcs, WorkerPcs,
     FinalizerPcs, SettlingPcs
<1>6. CASE Initialize \/ StartupFails \/ RecoveryFails \/ LoopEnds \/ Start \/ Reconfigure
  BY <1>6 DEF Initialize, StartupFails, RecoveryFails, LoopEnds, Start, Reconfigure, Goto, LocalInv,
     ClaimInv, OwnPcs, WorkerPcs, FinalizerPcs, SettlingPcs
<1>7. CASE Exit \/ SettlementFails \/ Crash
  BY <1>7 DEF Exit, SettlementFails, Crash, ProcessEnds, ClaimInv, OwnPcs, WorkerPcs, FinalizerPcs, SettlingPcs
<1>8. CASE Outcome
  BY <1>8 DEF Outcome, ClaimInv, vars, OwnPcs, WorkerPcs, FinalizerPcs, SettlingPcs
<1>9. CASE ClaimJob
  BY <1>9 DEF ClaimJob, Claim, ServiceTypeOK, TypeOK, ClaimInv
<1>10. ASSUME NEW d \in Docs, NEW p \in Priorities, Intake(d, p)
       PROVE  ClaimInv'
  <2>1. UNCHANGED <<up, job, att, pc, attempts, owner>>
    BY <1>10 DEF Intake, EnqueueNew, EnqueueExisting
  <2>2. job # 0 => state'[job] = state[job]
    BY <1>10 DEF Intake, EnqueueNew, EnqueueExisting, ClaimInv, ServiceTypeOK, ClaimedTypeOK, TypeOK
  <2>3. pc \in OwnPcs => job # 0
    BY <1>0 DEF OwnPcs
  <2>4. QED
    BY <2>1, <2>2, <2>3 DEF ClaimInv
<1>11. CASE \/ Beat \/ ServiceTick \/ Stall \/ Stop
            \/ \E d \in Docs : ReplaceOriginal(d) \/ AddTag(d)
            \/ UNCHANGED allVars
  BY <1>11, ClaimUntouched DEF Beat, Heartbeat, HeartbeatAdmission, RenewLease, RenewFinalization,
     ServiceTick, Stall, Tick, Stop, ReplaceOriginal, AddTag, allVars, vars, serviceRest
<1>12. CASE ClaimFails
  BY <1>12 DEF ClaimFails, LocalInv, ClaimInv, OwnPcs, WorkerPcs, FinalizerPcs, SettlingPcs
<1>13. CASE TransitionFails
  <2>1. /\ job \in JobIds /\ job # 0 /\ UNCHANGED <<up, job, att>>
        /\ pc' \in {"classify", "reschedule", "outcome"} /\ (pc' = "classify" => pc = "record")
    BY <1>0, <1>13, FailedTransition DEF SettlingPcs
  <2>2. CASE UNCHANGED vars \/ (pc = "record" /\ RecordTerminalFailure(job, att, up))
    BY <2>1, <2>2, ClaimUntouched DEF RecordTerminalFailure, vars, OwnPcs, WorkerPcs, FinalizerPcs, SettlingPcs
  <2>3. CASE pc # "record" /\ \E s \in {"retry", "completed", "failed"}, d \in 0..MaxDelay : EndClaim(job, att, up, s, d)
    BY <2>1, <2>3, ClaimEnds
  <2>4. QED
    <3>1. delayLeft[job] \in 0..MaxDelay /\ MaxDelay \in 0..MaxDelay
      BY <2>1, BoundAssumption DEF ServiceTypeOK, TypeOK
    <3>2. QED
      BY <1>13, <2>2, <2>3, <3>1, FailedTransition DEF ScheduleRetry, Complete, Fail
<1>14. QED
  BY <1>1, <1>2, <1>3, <1>4, <1>5, <1>6, <1>7, <1>8, <1>9, <1>10, <1>11, <1>12, <1>13
     DEF ServiceNext, ProcessStep, Fault, WorkerStep, FinalizerStep

-----------------------------------------------------------------------------
(***************************************************************************)
(* Stage, dispatch state and admitted runs.                                *)
(***************************************************************************)

\* How a step may change them.
FinStep ==
    \/ UNCHANGED <<fin, dispatch, failure, admitted>>
    \/ pc = "send" /\ Admit /\ UNCHANGED <<fin, dispatch, failure>>
    \/ /\ UNCHANGED admitted
       /\ \/ pc = "record" /\ RecordTerminalFailure(job, att, up)
          \/ FinalizerStoreCall

\* Only these steps change stages, dispatch states, failures and admissions.
LEMMA ServiceFinStep ==
    ASSUME [ServiceNext]_allVars
    PROVE  FinStep
<1> USE DEF FinStep, finRow
<1>1. CASE WorkerStep
  BY <1>1 DEF WorkerStep, ContractChanged, FailureAlreadyRecorded,
              ReconstructResult, StartOcr, Fetch, Download, TranscribeDirect, CheckpointDirect,
              PlanImages, TranscribeBatch, JoinBatches, Reschedule, RecordFailure,
              EnsurePlan, EnsureBatches, CheckpointBatch, ScheduleRetry, EndClaim, vars, docVars
<1>2. CASE WorkerFault
  BY <1>2 DEF WorkerFault, FallBackToImages, WorkerCallFails, DocumentDeadline, WorkerStoreFails,
              TransitionFails, TransitionCall, ScheduleRetry, Complete, Fail, EndClaim,
              WorkerStoreCall, EnsureBatches, CheckpointBatch, vars, docVars
<1>3. CASE FinalizerStep
  <2>1. CASE AcquireSuccess \/ Advance \/ ConfirmDispatch \/ ResetDispatch \/ AcquireFailure
    BY <2>1 DEF AcquireSuccess, Advance, ConfirmDispatch, ResetDispatch, AcquireFailure,
                Finalizing, FinalizingAdmitted, FinalizerStoreCall, docVars
  <2>2. CASE ReserveDispatch
    BY <2>2 DEF ReserveDispatch, FinalizingAdmitted, FinalizerStoreCall, vars, docVars
  <2>3. CASE DispatchAccepted
    BY <2>3 DEF DispatchAccepted, FinalizingAdmitted, vars
  <2>4. CASE CompleteJob \/ FailJob
    BY <2>4 DEF CompleteJob, FailJob, Complete, Fail, EndClaim, vars, docVars
  <2>5. CASE Verify \/ UpdateContent \/ ReadTags \/ UpdateTags
    BY <2>5 DEF Verify, UpdateContent, ReadTags, UpdateTags, vars, docVars
  <2>6. QED
    BY <1>3, <2>1, <2>2, <2>3, <2>4, <2>5 DEF FinalizerStep
<1>4. CASE FinalizerFault
  <2>1. CASE DispatchRefused \/ DispatchAmbiguous \/ FinalizerCallFails
    BY <2>1 DEF DispatchRefused, DispatchAmbiguous, FinalizerCallFails, WriteUnderWay, vars, docVars
  <2>2. CASE FinalizerStoreFails
    <3>1. UNCHANGED admitted \/ (pc = "send" /\ Admit)
      BY <2>2 DEF FinalizerStoreFails, WriteUnderWay, docVars
    <3>2. UNCHANGED <<fin, dispatch, failure>> \/ FinalizerStoreCall
      BY <2>2 DEF FinalizerStoreFails, vars
    <3>3. pc = "send" => ~FinalizerStoreCall
      BY DEF FinalizerStoreCall
    <3>4. QED
      BY <3>1, <3>2, <3>3
  <2>3. QED
    BY <1>4, <2>1, <2>2 DEF FinalizerFault
<1>5. CASE Cancelled
  <2>1. UNCHANGED admitted \/ (pc = "send" /\ Admit)
    BY <1>5 DEF Cancelled, WriteUnderWay, docVars
  <2>2. UNCHANGED <<fin, dispatch, failure>> \/ FinalizerStoreCall
    BY <1>5 DEF Cancelled, WorkerStoreCall, EnsureBatches, CheckpointBatch, vars
  <2>3. pc = "send" => ~FinalizerStoreCall
    BY DEF FinalizerStoreCall
  <2>4. QED
    BY <2>1, <2>2, <2>3
<1>6. CASE Exit \/ SettlementFails
  BY <1>6 DEF Exit, SettlementFails, SettleShutdownClaim, Release, EndClaim, ProcessEnds, vars, docVars
<1>7. CASE \/ Initialize \/ StartupFails \/ RecoveryFails \/ ClaimJob \/ ClaimFails
           \/ Beat \/ ServiceTick \/ Stall
           \/ \E d \in Docs, p \in Priorities : Intake(d, p)
  BY <1>7 DEF Initialize, StartupFails, RecoveryFails, Recover, RecoverExpiredLeases, ClaimJob,
              ClaimFails, Claim, Beat, Heartbeat, HeartbeatAdmission, RenewLease, RenewFinalization,
              ServiceTick, Stall, Tick, Intake, EnqueueNew, EnqueueExisting, serviceRest, vars, docVars
<1>8. CASE \/ Classify \/ Outcome \/ LoopEnds \/ LeaseLost \/ Start \/ Stop \/ Crash
           \/ LookupFails \/ Reconfigure
           \/ \E d \in Docs : ReplaceOriginal(d) \/ AddTag(d)
           \/ UNCHANGED allVars
  BY <1>8 DEF Classify, Outcome, LoopEnds, LeaseLost, Start, Stop, Crash, LookupFails, Reconfigure,
              ProcessEnds, ReplaceOriginal, AddTag, allVars, vars, docVars
<1>9. QED
  BY <1>1, <1>2, <1>3, <1>4, <1>5, <1>6, <1>7, <1>8 DEF ServiceNext, ProcessStep, Fault

\* The stages a store call of the finalizer moves between.
LEMMA AdvanceMoves ==
    ASSUME FinalizerInv, pc = "advance"
    PROVE  \/ fin[job] = "pending" /\ NextStage(fin[job]) = "content_updated"
           \/ fin[job] = "content_updated" /\ NextStage(fin[job]) = "complete_tag_added"
           \/ fin[job] = "complete_tag_added" /\ NextStage(fin[job]) = "failed_tag_removed"
           \/ fin[job] = "failure_pending" /\ NextStage(fin[job]) = "failure_tag_added"
           \/ /\ fin[job] = "failed_tag_removed" /\ NextStage(fin[job]) = "metadata_dispatched"
              /\ dispatch[job] = "confirmed"
BY NextStageIs DEF FinalizerInv, TagStages

\* Those steps keep the stage, the dispatch state and the admissions in agreement.
LEMMA DispatchInvNext ==
    ASSUME SafeInv, ServiceTypeOK, LocalInv, DispatchInv, FinalizerInv, FinStep
    PROVE  DispatchInv'
<1> USE DEF DispatchInv, SafeInv, TypeOK, ServiceTypeOK, ClaimedTypeOK, finRow
<1>1. CASE UNCHANGED <<fin, dispatch, failure, admitted>>
  BY <1>1
<1>2. CASE pc = "send" /\ Admit /\ UNCHANGED <<fin, dispatch, failure>>
  <2>1. job \in JobIds /\ dispatch[job] = "reserved" /\ admitted[job] = 0
    BY <1>2, ClaimHeld DEF FinalizerInv, FinalizerPcs
  <2>2. QED
    BY <1>2, <2>1 DEF Admit
<1>3. CASE pc = "record" /\ RecordTerminalFailure(job, att, up) /\ UNCHANGED admitted
  <2>1. job \in JobIds
    BY <1>3, ClaimHeld DEF SettlingPcs
  <2>2. QED
    BY <1>3, <2>1 DEF RecordTerminalFailure, MayRecordFailure, FailureStages, Recorded
<1>4. CASE FinalizerStoreCall /\ UNCHANGED admitted
  <2>1. job \in JobIds
    BY <1>4, ClaimHeld DEF FinalizerStoreCall, FinalizerPcs
  <2>2. CASE \E t \in Tokens : AcquireFinalization(job, att, up, t)
    BY <1>4, <2>1, <2>2 DEF AcquireFinalization, FailureStages, Recorded
  <2>3. CASE pc = "advance" /\ AdvanceFinalization(job, att, up, Token, fin[job], NextStage(fin[job]))
    <3>1. /\ fin' = [fin EXCEPT ![job] = NextStage(fin[job])]
          /\ UNCHANGED <<dispatch, failure, admitted>>
      BY <1>4, <2>3 DEF AdvanceFinalization
    <3>2. QED
      BY <2>1, <2>3, <3>1, AdvanceMoves DEF FailureStages, Recorded
  <2>4. CASE pc = "reserve" /\ SetDispatchState(job, att, up, Token, "none", "reserved")
    BY <1>4, <2>1, <2>4 DEF SetDispatchState, FinalizerInv, Recorded
  <2>5. CASE pc = "confirm" /\ SetDispatchState(job, att, up, Token, "reserved", "confirmed")
    BY <1>4, <2>1, <2>5 DEF SetDispatchState, FinalizerInv, Recorded
  <2>6. CASE pc = "reset" /\ SetDispatchState(job, att, up, Token, "reserved", "none")
    BY <1>4, <2>1, <2>6 DEF SetDispatchState, FinalizerInv, Recorded
  <2>7. QED
    BY <1>4, <2>2, <2>3, <2>4, <2>5, <2>6 DEF FinalizerStoreCall
<1>5. QED
  BY <1>1, <1>2, <1>3, <1>4 DEF FinStep

\* Where FinalizerInv says something.
StagePcs == {"acquireFailure", "verify", "content", "readTags", "writeTags", "advance",
             "reserve", "send", "confirm", "reset", "complete"}

\* Outside the stages there is nothing to agree with.
LEMMA FinalizerElsewhere ==
    ASSUME pc' \notin StagePcs
    PROVE  FinalizerInv'
BY DEF StagePcs, FinalizerInv

\* Steps that leave the finalizer and its row alone keep their agreement.
LEMMA FinalizerUntouched ==
    ASSUME FinalizerInv, UNCHANGED <<fin, dispatch, failure, admitted, job, pc>>
    PROVE  FinalizerInv'
BY DEF FinalizerInv

\* Going on at the stage that is stored, with no dispatch left open.
LEMMA EntersStage ==
    ASSUME NEW stage \in Stages, fin'[job'] = stage, pc' = StageEntry(stage),
           stage \in Recorded => dispatch'[job'] # "reserved"
    PROVE  FinalizerInv'
<1>1. /\ pc' \in {"content", "readTags", "reserve", "complete", "fail"}
      /\ pc' = "content" => stage = "pending"
      /\ pc' = "readTags" => stage \in TagStages
      /\ pc' = "reserve" => stage = "failed_tag_removed"
      /\ pc' = "complete" => stage = "metadata_dispatched"
  BY StageEntryIs DEF Stages, SuccessStages, FailureStages, TagStages
<1>2. QED
  BY <1>1 DEF FinalizerInv, Recorded

\* Every step keeps the finalizer in agreement with its row.
LEMMA FinalizerInvNext ==
    ASSUME SafeInv, ServiceTypeOK, LocalInv, DispatchInv, FinalizerInv, [ServiceNext]_allVars
    PROVE  FinalizerInv'
<1> USE DEF Goto, claimVars
<1>0. pc \in WorkerPcs \cup FinalizerPcs \cup SettlingPcs => job \in JobIds
  BY ClaimHeld
<1>t. /\ fin \in [JobIds -> {"absent"} \cup Stages] /\ dispatch \in [JobIds -> DispatchStates]
      /\ failure \in [JobIds -> BOOLEAN] /\ admitted \in [JobIds -> Nat]
  BY DEF ServiceTypeOK, ClaimedTypeOK, TypeOK
<1>1. CASE WorkerStep \/ WorkerFault
  <2>1. pc' \in {"record", "acquire", "outcome", "fetch", "download", "transcribe", "plan",
                 "direct", "batch", "classify", "reschedule"}
    BY <1>1 DEF WorkerStep, WorkerFault, ContractChanged, FailureAlreadyRecorded, ReconstructResult,
       StartOcr, Fetch, Download, TranscribeDirect, CheckpointDirect, PlanImages, TranscribeBatch,
       JoinBatches, Reschedule, RecordFailure, FallBackToImages, WorkerCallFails, DocumentDeadline,
       WorkerStoreFails, InterruptedAt, FailedStoreCallAt, TransitionFails, AfterFailedTransition,
       EnsurePlan
  <2>2. QED
    BY <2>1, FinalizerElsewhere DEF StagePcs
<1>2. CASE AcquireSuccess
  <2>1. pc = "acquire" /\ job' = job
    BY <1>2 DEF AcquireSuccess, Finalizing
  <2>2. PICK t \in Tokens : AcquireFinalization(job, att, up, t)
    BY <1>2 DEF AcquireSuccess
  <2>3. fin'[job] # "absent" /\ dispatch' = dispatch
    BY <1>0, <1>t, <2>1, <2>2 DEF AcquireFinalization, FinalizerPcs
  <2>4. pc' = "fail" \/ (pc' = "verify" /\ dispatch[job] # "reserved")
    BY <1>2 DEF AcquireSuccess, DispatchUnknown
  <2>5. QED
    BY <2>1, <2>3, <2>4 DEF FinalizerInv
<1>3. CASE Verify
  <2>1. pc = "verify" /\ job \in JobIds /\ UNCHANGED <<fin, dispatch, failure, admitted, job>>
    BY <1>0, <1>3 DEF Verify, FinalizingAdmitted, vars, finRow, docVars, FinalizerPcs
  <2>2. CASE pc' = "fail"
    BY <2>2, FinalizerElsewhere DEF StagePcs
  <2>3. CASE pc' = "advance" /\ fin[job] = "pending"
    BY <2>1, <2>3 DEF FinalizerInv
  <2>4. CASE pc' = StageEntry(fin[job])
    <3>1. fin[job] \in Stages /\ dispatch[job] # "reserved"
      BY <1>t, <2>1 DEF FinalizerInv
    <3>2. QED
      BY <2>1, <2>4, <3>1, EntersStage
  <2>5. QED
    BY <1>3, <2>2, <2>3, <2>4, VerifyLeads
<1>4. CASE UpdateContent \/ UpdateTags
  <2>1. pc \in {"content", "writeTags"} /\ pc' = "advance" /\ UNCHANGED <<fin, dispatch, job>>
    BY <1>4 DEF UpdateContent, UpdateTags, FinalizingAdmitted, vars, finRow
  <2>2. QED
    BY <2>1 DEF FinalizerInv
<1>5. CASE ReadTags
  <2>1. pc = "readTags" /\ pc' \in {"advance", "writeTags"} /\ UNCHANGED <<fin, dispatch, job>>
    BY <1>5 DEF ReadTags, FinalizingAdmitted, vars, finRow
  <2>2. QED
    BY <2>1 DEF FinalizerInv
<1>6. CASE Advance
  <2>1. pc = "advance" /\ job' = job /\ pc' = StageEntry(NextStage(fin[job])) /\ job \in JobIds
    BY <1>0, <1>6 DEF Advance, FinalizingAdmitted, FinalizerPcs
  <2>2. fin' = [fin EXCEPT ![job] = NextStage(fin[job])] /\ dispatch' = dispatch
    BY <1>6 DEF Advance, AdvanceFinalization
  <2>3. fin'[job] = NextStage(fin[job])
    BY <1>t, <2>1, <2>2
  <2>4. NextStage(fin[job]) \in Recorded => dispatch[job] # "reserved"
    BY <2>1, AdvanceMoves DEF DispatchInv, Recorded
  <2>5. QED
    BY <2>1, <2>2, <2>3, <2>4, AdvanceStages, EntersStage
<1>7. CASE ReserveDispatch
  <2>1. pc = "reserve" /\ job' = job /\ job \in JobIds /\ admitted' = admitted
    BY <1>0, <1>7 DEF ReserveDispatch, FinalizingAdmitted, FinalizerPcs, docVars
  <2>2. CASE dispatch[job] = "none"
    <3>1. pc' = "send" /\ fin' = fin /\ dispatch' = [dispatch EXCEPT ![job] = "reserved"]
      BY <1>7, <2>2 DEF ReserveDispatch, SetDispatchState
    <3>2. QED
      BY <1>t, <2>1, <2>2, <3>1 DEF FinalizerInv, DispatchInv
  <2>3. CASE dispatch[job] # "none"
    <3>1. pc' = "advance" /\ UNCHANGED <<fin, dispatch>>
      BY <1>7, <2>3 DEF ReserveDispatch, vars, finRow
    <3>2. QED
      BY <1>t, <2>1, <2>3, <3>1 DEF FinalizerInv, DispatchStates
  <2>4. QED
    BY <2>2, <2>3
<1>8. CASE DispatchAccepted
  <2>1. pc = "send" /\ pc' = "confirm" /\ UNCHANGED <<job, fin, dispatch>> /\ job \in JobIds
    BY <1>0, <1>8 DEF DispatchAccepted, FinalizingAdmitted, FinalizerPcs, vars, finRow
  <2>2. admitted'[job] = 1
    BY <1>t, <1>8, <2>1 DEF DispatchAccepted, Admit, FinalizerInv
  <2>3. QED
    BY <2>1, <2>2 DEF FinalizerInv
<1>9. CASE ConfirmDispatch
  <2>1. pc = "confirm" /\ pc' = "advance" /\ job' = job /\ job \in JobIds
    BY <1>0, <1>9 DEF ConfirmDispatch, FinalizingAdmitted, FinalizerPcs
  <2>2. fin' = fin /\ dispatch' = [dispatch EXCEPT ![job] = "confirmed"]
    BY <1>9 DEF ConfirmDispatch, SetDispatchState
  <2>3. QED
    BY <1>t, <2>1, <2>2 DEF FinalizerInv
<1>10. CASE DispatchRefused
  <2>1. pc = "send" /\ pc' = "reset" /\ UNCHANGED <<job, fin, dispatch, admitted>>
    BY <1>10 DEF DispatchRefused, FinalizingAdmitted, vars, finRow, docVars
  <2>2. QED
    BY <2>1 DEF FinalizerInv
<1>11. CASE AcquireFailure
  <2>1. pc = "acquireFailure" /\ job' = job /\ pc' = StageEntry(fin[job]) /\ job \in JobIds
    BY <1>0, <1>11 DEF AcquireFailure, Finalizing, FinalizerPcs
  <2>2. fin[job] \in FailureStages
    BY <2>1 DEF FinalizerInv, SafeInv, FailureExcludesSuccess, TerminalFailure
  <2>3. fin' = fin
    BY <1>t, <1>11, <2>1, <2>2 DEF AcquireFailure, AcquireFinalization, FailureStages
  <2>4. QED
    BY <2>1, <2>2, <2>3, EntersStage DEF FailureStages, Stages, Recorded
<1>12. CASE Classify
  <2>1. pc = "classify" /\ UNCHANGED <<job, failure>>
    BY <1>12 DEF Classify, vars, finRow
  <2>2. pc' = "outcome" \/ (pc' = "acquireFailure" /\ failure[job])
    BY <1>12 DEF Classify, TerminalFailure
  <2>3. QED
    BY <2>1, <2>2 DEF FinalizerInv
<1>13. CASE \/ ResetDispatch \/ DispatchAmbiguous \/ FinalizerCallFails \/ CompleteJob \/ FailJob
            \/ Cancelled \/ LeaseLost \/ Initialize \/ StartupFails \/ LoopEnds \/ Start
            \/ Exit \/ Crash \/ Outcome \/ ClaimJob
            \/ FinalizerStoreFails \/ RecoveryFails \/ ClaimFails \/ LookupFails
            \/ SettlementFails \/ Reconfigure
  <2>1. pc' \in {"reschedule", "outcome", "record", "fail", "idle", "exit", "down", "start", "check"}
    BY <1>13, FailedFinalizerCall DEF ResetDispatch, DispatchAmbiguous, AfterAmbiguousDispatch, FinalizerCallFails,
       CompleteJob, FailJob, Cancelled, InterruptedAt, LeaseLost, Initialize,
       StartupFails, LoopEnds, Start, Exit, Crash, Outcome, ClaimJob, RecoveryFails, ClaimFails,
       LookupFails, SettlementFails, Reconfigure, ProcessEnds
  <2>2. QED
    BY <2>1, FinalizerElsewhere DEF StagePcs
<1>14. CASE \/ Beat \/ ServiceTick \/ Stall \/ Stop
            \/ \E d \in Docs : ReplaceOriginal(d) \/ AddTag(d)
            \/ \E d \in Docs, p \in Priorities : Intake(d, p)
            \/ UNCHANGED allVars
  <2>1. UNCHANGED <<fin, dispatch, failure, admitted, job, pc>>
    BY <1>14 DEF Beat, Heartbeat, HeartbeatAdmission, RenewLease, RenewFinalization,
       ServiceTick, Stall, Tick, Stop, ReplaceOriginal, AddTag, Intake, EnqueueNew, EnqueueExisting,
       allVars, vars, finRow, docVars, serviceRest
  <2>2. QED
    BY <2>1, FinalizerUntouched
<1>15. QED
  BY <1>1, <1>2, <1>3, <1>4, <1>5, <1>6, <1>7, <1>8, <1>9, <1>10, <1>11, <1>12, <1>13, <1>14
     DEF ServiceNext, ProcessStep, Fault, FinalizerStep, FinalizerFault

-----------------------------------------------------------------------------
(***************************************************************************)
(* Whole results.                                                          *)
(***************************************************************************)

\* A complete set of checkpoints stays what it is.
LEMMA CompleteStays ==
    ASSUME TypeOK, TypeOK', CheckpointStep, NEW i \in JobIds, CheckpointsComplete(i)
    PROVE  batches'[i] = batches[i]
<1>1. PICK p \in Plans \cup {{}} : batches[i] \in [p -> Texts \cup {None}]
  BY DEF TypeOK, Results
<1>2. PICK q \in Plans \cup {{}} : batches'[i] \in [q -> Texts \cup {None}]
  BY DEF TypeOK, Results
<1>3. p = q /\ \A r \in p : batches'[i][r] = batches[i][r]
  BY <1>1, <1>2 DEF CheckpointStep, CheckpointsComplete, AllCompleted
<1>4. QED
  BY <1>1, <1>2, <1>3

\* Complete checkpoints that do not change stay complete.
LEMMA CompletePrimed ==
    ASSUME NEW i \in JobIds, CheckpointsComplete(i), batches'[i] = batches[i]
    PROVE  CheckpointsComplete(i)'
BY DEF CheckpointsComplete, AllCompleted

\* Only the finalizer of a whole result starts the success stages.
LEMMA SuccessStarts ==
    ASSUME SafeInv, ServiceTypeOK, LocalInv, FinalizerInv, FinStep,
           NEW i \in JobIds, fin'[i] \in SuccessStages, fin[i] \notin SuccessStages
    PROVE  i = job /\ pc = "advance" /\ fin[job] = "pending"
<1>t. fin \in [JobIds -> {"absent"} \cup Stages]
  BY DEF ServiceTypeOK, TypeOK
<1>1. CASE RecordTerminalFailure(job, att, up)
  BY <1>1, <1>t DEF RecordTerminalFailure, SuccessStages
<1>2. CASE FinalizerStoreCall
  <2>1. CASE \E t \in Tokens : AcquireFinalization(job, att, up, t)
    BY <2>1, <1>t DEF AcquireFinalization, SuccessStages
  <2>2. CASE pc = "advance" /\ AdvanceFinalization(job, att, up, Token, fin[job], NextStage(fin[job]))
    <3>1. fin' = [fin EXCEPT ![job] = NextStage(fin[job])]
      BY <2>2 DEF AdvanceFinalization
    <3>2. QED
      BY <1>t, <2>2, <3>1, AdvanceMoves DEF SuccessStages
  <2>3. QED
    BY <1>2, <2>1, <2>2 DEF FinalizerStoreCall, SetDispatchState
<1>3. QED
  BY <1>1, <1>2 DEF FinStep

\* Where ResultInv says something.
ResultPcs == {"acquire", "verify", "content", "advance", "direct"}

\* Every step keeps a whole result behind a finalization that writes.
LEMMA ResultInvNext ==
    ASSUME SafeInv, ServiceTypeOK, LocalInv, FinalizerInv, ResultInv, [ServiceNext]_allVars
    PROVE  ResultInv'
<1> USE DEF Goto, claimVars
<1>0. pc \in WorkerPcs \cup FinalizerPcs \cup SettlingPcs => job \in JobIds
  BY ClaimHeld
<1>n. [Next]_vars
  BY ServiceIsQueueStep
<1>t. TypeOK /\ TypeOK' /\ CheckpointStep /\ FinStep
  BY <1>n, TypeNext, CheckpointNext, ServiceFinStep DEF ServiceTypeOK
<1>s. ASSUME NEW i \in JobIds, CheckpointsComplete(i)
      PROVE  CheckpointsComplete(i)'
  BY <1>t, <1>s, CompleteStays, CompletePrimed
<1>g. \A i \in JobIds : fin'[i] \in SuccessStages => CheckpointsComplete(i)'
  <2> SUFFICES ASSUME NEW i \in JobIds, fin'[i] \in SuccessStages
               PROVE  CheckpointsComplete(i)'
    OBVIOUS
  <2>1. CheckpointsComplete(i)
    BY <1>t, SuccessStarts DEF ResultInv
  <2>2. QED
    BY <1>s, <2>1
<1>e. ASSUME pc' \notin ResultPcs
      PROVE  ResultInv'
  BY <1>e, <1>g DEF ResultInv, ResultPcs
<1>c. ASSUME pc' \in ResultPcs \ {"direct"}, CheckpointsComplete(job), job \in JobIds, job' = job
      PROVE  ResultInv'
  <2>1. CheckpointsComplete(job)'
    BY <1>c, <1>s
  <2>2. QED
    BY <1>c, <1>g, <2>1 DEF ResultInv, ResultPcs
<1>1. CASE ReconstructResult \/ JoinBatches
  <2>1. CheckpointsComplete(job) \/ pc' = "outcome"
    BY <1>1 DEF ReconstructResult, JoinBatches
  <2>2. pc' \in {"acquire", "outcome"} /\ job' = job /\ job \in JobIds
    BY <1>0, <1>1 DEF ReconstructResult, JoinBatches, Working, WorkerPcs
  <2>3. QED
    BY <1>c, <1>e, <2>1, <2>2 DEF ResultPcs
<1>2. CASE TranscribeDirect
  <2>1. job' = job /\ job \in JobIds /\ pc' \in {"direct", "record"}
    BY <1>0, <1>2 DEF TranscribeDirect, EnsurePlan, Working, WorkerPcs
  <2>2. pc' = "direct" => DOMAIN batches'[job] = DirectPlan
    <3>1. CASE EnsureBatches(job, att, up, DirectPlan)
      BY <1>t, <2>1, <3>1 DEF EnsureBatches, TypeOK
    <3>2. CASE UNCHANGED vars /\ pc' = (IF SameBatchPlan(job, DirectPlan) THEN "direct" ELSE "record")
      BY <3>2 DEF SameBatchPlan, vars
    <3>3. QED
      BY <1>2, <3>1, <3>2 DEF TranscribeDirect, EnsurePlan
  <2>3. QED
    BY <1>g, <2>1, <2>2 DEF ResultInv
<1>3. CASE CheckpointDirect
  <2>1. job' = job /\ job \in JobIds /\ pc = "direct" /\ pc' \in {"acquire", "record"}
    BY <1>0, <1>3 DEF CheckpointDirect, Working, WorkerPcs
  <2>2. DOMAIN batches[job] = DirectPlan
    BY <2>1 DEF ResultInv
  <2>3. PICK s : DirectPlan = {s}
    BY PlansAssumption
  <2>4. pc' = "acquire" => CheckpointsComplete(job)'
    <3>1. PICK r \in DirectPlan, k \in Takes :
             \/ CheckpointBatch(job, att, up, r, [sum |-> seen, take |-> k])
             \/ batches[job][r] # None /\ UNCHANGED vars
      BY <1>3 DEF CheckpointDirect
    <3>2. CASE CheckpointBatch(job, att, up, r, [sum |-> seen, take |-> k])
      <4>1. [sum |-> seen, take |-> k] \in Texts
        BY <2>1, TextAssumption DEF LocalInv, FetchedPcs
      <4>2. batches'[job] = [batches[job] EXCEPT ![r] = [sum |-> seen, take |-> k]]
        BY <1>t, <2>1, <3>2 DEF CheckpointBatch, TypeOK
      <4>3. DOMAIN batches'[job] = {s} /\ batches'[job][s] # None
        BY <2>2, <2>3, <4>1, <4>2, NoneAssumption
      <4>4. QED
        BY <2>1, <4>3 DEF CheckpointsComplete, AllCompleted
    <3>3. CASE batches[job][r] # None /\ UNCHANGED vars
      BY <2>1, <2>2, <2>3, <3>3 DEF CheckpointsComplete, AllCompleted, vars
    <3>4. QED
      BY <3>1, <3>2, <3>3
  <2>5. QED
    BY <1>g, <2>1, <2>4 DEF ResultInv
<1>4. CASE AcquireSuccess
  BY <1>0, <1>4, <1>c, <1>e DEF AcquireSuccess, Finalizing, ResultInv, ResultPcs, FinalizerPcs
<1>5. CASE Verify
  <2>1. pc = "verify" /\ job' = job /\ job \in JobIds
    BY <1>0, <1>5 DEF Verify, FinalizingAdmitted, FinalizerPcs
  <2>2. pc' # "direct"
    <3>1. StageEntry(fin[job]) \in {"content", "readTags", "reserve", "complete", "fail"}
      BY <1>t, <2>1, StageEntryPc DEF FinalizerInv, TypeOK
    <3>2. QED
      BY <1>5, <3>1, VerifyLeads
  <2>3. QED
    BY <1>c, <1>e, <2>1, <2>2 DEF ResultInv, ResultPcs
<1>6. CASE UpdateContent
  BY <1>0, <1>6, <1>c DEF UpdateContent, FinalizingAdmitted, ResultInv, ResultPcs, FinalizerPcs
<1>7. CASE ReadTags \/ UpdateTags \/ ReserveDispatch \/ ConfirmDispatch
  <2>1. pc' # "direct" /\ pc' \notin {"acquire", "verify", "content"} /\ job' = job /\ job \in JobIds
    BY <1>0, <1>7 DEF ReadTags, UpdateTags, ReserveDispatch, ConfirmDispatch, FinalizingAdmitted, FinalizerPcs
  <2>2. fin' = fin
    BY <1>7 DEF ReadTags, UpdateTags, ReserveDispatch, ConfirmDispatch, SetDispatchState, vars, finRow
  <2>3. fin[job] # "pending"
    BY <1>7 DEF ReadTags, UpdateTags, ReserveDispatch, ConfirmDispatch, FinalizingAdmitted, FinalizerInv, TagStages
  <2>4. QED
    BY <1>g, <2>1, <2>2, <2>3 DEF ResultInv
<1>8. CASE Advance
  <2>1. pc = "advance" /\ pc' = StageEntry(NextStage(fin[job]))
    BY <1>8 DEF Advance, FinalizingAdmitted
  <2>2. pc' \notin ResultPcs
    BY <2>1, AdvanceMoves, StageEntryIs DEF ResultPcs
  <2>3. QED
    BY <1>e, <2>2
<1>9. CASE AcquireFailure
  <2>1. pc = "acquireFailure" /\ pc' = StageEntry(fin[job]) /\ job \in JobIds
    BY <1>0, <1>9 DEF AcquireFailure, Finalizing, FinalizerPcs
  <2>2. fin[job] \in FailureStages
    BY <2>1 DEF FinalizerInv, SafeInv, FailureExcludesSuccess, TerminalFailure
  <2>3. pc' \notin ResultPcs
    BY <2>1, <2>2, StageEntryIs DEF FailureStages, ResultPcs
  <2>4. QED
    BY <1>e, <2>3
<1>10. CASE \/ ContractChanged \/ FailureAlreadyRecorded \/ StartOcr \/ Fetch \/ Download \/ PlanImages
            \/ TranscribeBatch \/ Reschedule \/ RecordFailure \/ WorkerFault
  <2>1. pc' \notin ResultPcs
    BY <1>10 DEF ContractChanged, FailureAlreadyRecorded, StartOcr, Fetch, Download, PlanImages, EnsurePlan,
       TranscribeBatch, Reschedule, RecordFailure, WorkerFault, FallBackToImages, WorkerCallFails,
       DocumentDeadline, InterruptedAt, WorkerStoreFails, FailedStoreCallAt, TransitionFails,
       AfterFailedTransition, ResultPcs
  <2>2. QED
    BY <1>e, <2>1
<1>11. CASE \/ DispatchAccepted \/ DispatchRefused
            \/ ResetDispatch \/ DispatchAmbiguous \/ FinalizerCallFails \/ CompleteJob \/ FailJob
            \/ Cancelled \/ LeaseLost \/ Initialize \/ StartupFails \/ LoopEnds \/ Start
            \/ Exit \/ Crash \/ Outcome \/ ClaimJob \/ Classify
            \/ FinalizerStoreFails \/ RecoveryFails \/ ClaimFails \/ LookupFails
            \/ SettlementFails \/ Reconfigure
  <2>1. pc' \notin ResultPcs
    BY <1>11, FailedFinalizerCall DEF DispatchAccepted, DispatchRefused, ResetDispatch, DispatchAmbiguous,
       AfterAmbiguousDispatch, FinalizerCallFails, CompleteJob, FailJob, Cancelled, InterruptedAt,
       LeaseLost, Initialize, StartupFails, LoopEnds, Start, Exit, Crash, Outcome, ClaimJob, Classify,
       RecoveryFails, ClaimFails, LookupFails, SettlementFails, Reconfigure, ProcessEnds, ResultPcs
  <2>2. QED
    BY <1>e, <2>1
<1>12. CASE \/ Beat \/ ServiceTick \/ Stall \/ Stop
            \/ \E d \in Docs : ReplaceOriginal(d) \/ AddTag(d)
            \/ \E d \in Docs, p \in Priorities : Intake(d, p)
            \/ UNCHANGED allVars
  <2>1. UNCHANGED <<fin, batches, job, pc>>
    BY <1>12 DEF Beat, Heartbeat, HeartbeatAdmission, RenewLease, RenewFinalization,
       ServiceTick, Stall, Tick, Stop, ReplaceOriginal, AddTag, Intake, EnqueueNew, EnqueueExisting,
       allVars, vars, finRow, serviceRest
  <2>2. QED
    BY <2>1 DEF ResultInv, CheckpointsComplete, AllCompleted
<1>13. QED
  BY <1>1, <1>2, <1>3, <1>4, <1>5, <1>6, <1>7, <1>8, <1>9, <1>10, <1>11, <1>12
     DEF ServiceNext, ProcessStep, Fault, WorkerStep, FinalizerStep, FinalizerFault

-----------------------------------------------------------------------------
(***************************************************************************)
(* While nothing crashed or stalled, and every handover succeeded.         *)
(***************************************************************************)

\* Without those faults, every step leaves all claims with the process, live.
LEMMA NoFaultInvNext ==
    ASSUME SafeInv, ServiceTypeOK, LocalInv, ClaimInv, NoFaultInv, [ServiceNext]_allVars
    PROVE  NoFaultInv'
<1> USE DEF jobRow, timers, procVars, claimVars, Goto
<1>b. /\ budget \in [Bounded -> Nat] /\ Budget \in [Bounded -> Nat] /\ budget' \in [Bounded -> Nat]
      /\ \A k \in Bounded : budget[k] <= Budget[k] /\ budget'[k] <= budget[k]
      /\ {"crash", "stall", "handover"} \subseteq Bounded \ {"any"}
  BY BudgetNext, BudgetAssumption DEF ServiceTypeOK, ClaimedTypeOK, LocalInv, Bounded, FaultKinds
<1> SUFFICES ASSUME NoFault', NEW i \in JobIds, state'[i] = "processing"
             PROVE  i = job' /\ leaseLeft'[i] > 0
  BY DEF NoFaultInv
<1>f. \A kind \in {"crash", "stall", "handover"} : budget'[kind] = budget[kind] /\ budget[kind] = Budget[kind]
  <2>1. ASSUME NEW kind \in {"crash", "stall", "handover"}
        PROVE  budget'[kind] = budget[kind] /\ budget[kind] = Budget[kind]
    <3>1. /\ budget'[kind] = Budget[kind] /\ budget'[kind] <= budget[kind] /\ budget[kind] <= Budget[kind]
          /\ budget[kind] \in Nat /\ budget'[kind] \in Nat
      BY <1>b DEF NoFault
    <3>2. QED
      BY <3>1
  <2>2. QED
    BY <2>1
<1>h. \A j \in JobIds : state[j] = "processing" => j = job /\ leaseLeft[j] > 0
  BY <1>f DEF NoFaultInv, NoFault
<1>0. pc \in WorkerPcs \cup FinalizerPcs \cup SettlingPcs => job \in JobIds /\ job # 0
  BY DEF ServiceTypeOK, ClaimedTypeOK
<1>t. TypeOK
  BY DEF ServiceTypeOK
<1>1. CASE UNCHANGED <<state, leaseLeft, job>>
  BY <1>1, <1>h
<1>2. CASE \/ ContractChanged \/ FailureAlreadyRecorded \/ ReconstructResult \/ StartOcr
           \/ Fetch \/ Download \/ TranscribeDirect \/ CheckpointDirect \/ PlanImages
           \/ TranscribeBatch \/ JoinBatches \/ RecordFailure \/ (WorkerFault /\ ~TransitionFails)
  <2>1. UNCHANGED <<state, leaseLeft, job>>
    BY <1>2, StoreCallKeepsJobs
       DEF ContractChanged, FailureAlreadyRecorded, ReconstructResult, StartOcr, Fetch, Download,
       TranscribeDirect, CheckpointDirect, PlanImages, TranscribeBatch, JoinBatches, RecordFailure,
       WorkerFault, FallBackToImages, WorkerCallFails, DocumentDeadline, WorkerStoreFails,
       EnsurePlan, EnsureBatches, CheckpointBatch, RecordTerminalFailure, vars
  <2>2. QED
    BY <1>1, <2>1
<1>3. CASE \/ AcquireSuccess \/ Verify \/ UpdateContent \/ ReadTags \/ UpdateTags \/ Advance
           \/ ReserveDispatch \/ DispatchAccepted \/ ConfirmDispatch \/ ResetDispatch
           \/ AcquireFailure \/ (FinalizerFault /\ ~FinalizerStoreFails)
  <2>1. UNCHANGED <<state, leaseLeft, job>>
    BY <1>3 DEF AcquireSuccess, Verify, UpdateContent, ReadTags, UpdateTags, Advance, ReserveDispatch,
       DispatchAccepted, ConfirmDispatch, ResetDispatch, AcquireFailure, FinalizerFault,
       DispatchRefused, DispatchAmbiguous, FinalizerCallFails, AcquireFinalization,
       AdvanceFinalization, SetDispatchState, vars
  <2>2. QED
    BY <1>1, <2>1
<1>4. CASE Cancelled \/ FinalizerStoreFails
  <2>1. UNCHANGED <<state, leaseLeft, job>>
    BY <1>4, StoreCallKeepsJobs, FailedFinalizerCall DEF Cancelled, vars
  <2>2. QED
    BY <1>1, <2>1
<1>5. CASE Reschedule \/ CompleteJob \/ FailJob \/ TransitionFails
  <2>1. job' = job /\ job \in JobIds
    BY <1>0, <1>5, FailedTransition DEF Reschedule, CompleteJob, FailJob, SettlingPcs
  <2>2. \/ UNCHANGED <<state, leaseLeft>>
        \/ \E s \in {"retry", "completed", "failed"} :
              /\ state' = [state EXCEPT ![job] = s]
              /\ leaseLeft' = [leaseLeft EXCEPT ![job] = 0]
    BY <1>5, FailedTransition DEF Reschedule, CompleteJob, FailJob, ScheduleRetry, Complete, Fail,
       RecordTerminalFailure, EndClaim, vars
  <2>3. QED
    BY <1>t, <1>h, <2>1, <2>2 DEF TypeOK
<1>6. CASE Exit
  <2>1. CASE job # 0 /\ Holds
    <3>1. job \in JobIds /\ state' = [state EXCEPT ![job] = "retry"]
      BY <1>6, <2>1 DEF Exit, SettleShutdownClaim, Release, EndClaim, ServiceTypeOK, ClaimedTypeOK
    <3>2. QED
      BY <1>t, <1>h, <3>1 DEF TypeOK
  <2>2. CASE ~(job # 0 /\ Holds)
    <3>1. state' = state
      BY <1>6, <2>2 DEF Exit, SettleShutdownClaim, vars
    <3>2. i = job /\ leaseLeft[i] > 0 /\ job # 0
      BY <1>h, <3>1 DEF JobIds
    <3>3. Holds
      BY <3>1, <3>2 DEF ClaimInv, Holds, ActiveLease
    <3>4. QED
      BY <2>2, <3>2, <3>3
  <2>3. QED
    BY <2>1, <2>2
<1>7. CASE Outcome \/ LookupFails
  <2>1. UNCHANGED <<state, leaseLeft>> /\ (job' = job \/ state[job] # "processing")
    BY <1>7 DEF Outcome, Settled, LookupFails, vars
  <2>2. QED
    BY <1>h, <2>1
<1>8. CASE ClaimJob
  <2>1. PICK j \in JobIds : Claim(j, up) /\ job' = j
    BY <1>8 DEF ClaimJob
  <2>2. QED
    BY <1>t, <2>1, BoundAssumption DEF Claim, NoActiveJob, TypeOK
<1>9. CASE Initialize \/ StartupFails \/ Start \/ LoopEnds \/ Reconfigure
  <2>1. job = 0
    BY <1>9 DEF Initialize, StartupFails, Start, LoopEnds, Reconfigure, LocalInv
  <2>2. state[i] = "processing"
    BY <1>t, <1>9 DEF Initialize, StartupFails, Start, LoopEnds, Reconfigure, Recover,
       RecoverExpiredLeases, vars, TypeOK
  <2>3. QED
    BY <1>h, <2>1, <2>2 DEF JobIds
<1>10. CASE ServiceTick
  <2>1. state' = state /\ job' = job /\ leaseLeft'[i] = Elapse(leaseLeft[i])
    BY <1>10 DEF ServiceTick, Tick, serviceRest
  <2>2. i = job /\ leaseLeft[i] > 0 /\ job # 0
    BY <1>h, <2>1 DEF JobIds
  <2>3. Holds
    BY <2>1, <2>2 DEF ClaimInv, Holds, ActiveLease
  <2>4. leaseLeft[i] # 1
    BY <1>10, <2>2, <2>3 DEF ServiceTick, RunsOut
  <2>5. leaseLeft[i] \in Nat
    BY <1>t, BoundAssumption DEF TypeOK
  <2>6. QED
    BY <2>1, <2>2, <2>4, <2>5 DEF Elapse
<1>11. CASE Heartbeat
  <2>1. state' = state /\ job' = job /\ leaseLeft' = [leaseLeft EXCEPT ![job] = LeaseDuration]
    BY <1>11 DEF Heartbeat, RenewLease, serviceRest
  <2>2. QED
    BY <1>t, <1>h, <2>1, BoundAssumption DEF TypeOK
<1>12. ASSUME NEW d \in Docs, NEW p \in Priorities, Intake(d, p)
       PROVE  i = job' /\ leaseLeft'[i] > 0
  <2>1. job' = job /\ leaseLeft' = leaseLeft
    BY <1>12 DEF Intake, EnqueueNew, EnqueueExisting
  <2>2. state[i] = "processing"
    BY <1>t, <1>12 DEF Intake, EnqueueNew, EnqueueExisting, TypeOK
  <2>3. QED
    BY <1>h, <2>1, <2>2
<1>13. CASE \/ Classify \/ LeaseLost \/ HeartbeatAdmission \/ Stop
            \/ \E d \in Docs : ReplaceOriginal(d) \/ AddTag(d)
            \/ UNCHANGED allVars
  <2>1. UNCHANGED <<state, leaseLeft, job>>
    BY <1>13 DEF Classify, LeaseLost, HeartbeatAdmission, RenewFinalization, Stop, ReplaceOriginal, AddTag,
       allVars, vars, serviceRest
  <2>2. QED
    BY <1>1, <2>1
<1>14. CASE Crash \/ Stall \/ RecoveryFails \/ ClaimFails \/ SettlementFails
  <2>1. PICK k \in {"crash", "stall", "handover"} : Spend(k)
    BY <1>14 DEF Crash, Stall, RecoveryFails, ClaimFails, SettlementFails
  <2>2. k # "any" /\ budget[k] \in Nat /\ k \in Bounded
    BY <1>b
  <2>3. budget'[k] = budget[k] - 1
    BY <1>b, <2>1, <2>2 DEF Spend
  <2>4. QED
    BY <1>f, <2>2, <2>3
<1>15. QED
  BY <1>2, <1>3, <1>4, <1>5, <1>6, <1>7, <1>8, <1>9, <1>10, <1>11, <1>12, <1>13, <1>14
     DEF ServiceNext, ProcessStep, Fault, Beat, WorkerStep, FinalizerStep

-----------------------------------------------------------------------------
(***************************************************************************)
(* What a step may do to the batches and to the list of rows, and where    *)
(* the loop comes from.                                                    *)
(***************************************************************************)

\* A step during which the loop stays where it is.
Stays ==
    \/ Beat \/ ServiceTick \/ Stall \/ Stop
    \/ \E d \in Docs : ReplaceOriginal(d) \/ AddTag(d)
    \/ \E d \in Docs, p \in Priorities : Intake(d, p)
    \/ UNCHANGED allVars

\* What the steps beside the loop leave alone.
LEMMA StaysPut ==
    ASSUME Stays
    PROVE  /\ UNCHANGED <<pc, job, att, up, seen, seenTags, batches, fin, failure, tags>>
              \/ \E d \in Docs : AddTag(d)
           /\ UNCHANGED <<pc, job, att, up, seen, seenTags, batches, fin, failure>>
BY DEF Stays, Beat, Heartbeat, HeartbeatAdmission, RenewLease, RenewFinalization, ServiceTick, Stall, Tick,
       Stop, ReplaceOriginal, AddTag, Intake, EnqueueNew, EnqueueExisting, allVars, vars, finRow,
       serviceRest, docVars, procVars, claimVars, localVars

\* How the loop gets where VersionInv, TagInv and NoChangeInv speak of it.
LEMMA ComesFrom ==
    ASSUME SafeInv, ServiceTypeOK, LocalInv, FinalizerInv, [ServiceNext]_allVars
    PROVE  /\ pc' = "writeTags" => ReadTags \/ Stays
           /\ pc' = "advance" => \/ Verify \/ UpdateContent \/ ReadTags \/ UpdateTags
                                 \/ ReserveDispatch \/ ConfirmDispatch \/ Stays
           /\ pc' = "content" => Verify \/ Stays
           /\ pc' \in FetchedPcs => \/ Download \/ Stays
                                    \/ pc \in FetchedPcs /\ UNCHANGED <<source, seen, job>>
<1> USE DEF Goto, FetchedPcs
<1>1. CASE WorkerStep
  <2>1. pc' \notin {"writeTags", "advance", "content"}
    BY <1>1 DEF WorkerStep, ContractChanged, FailureAlreadyRecorded, ReconstructResult, StartOcr, Fetch,
       Download, TranscribeDirect, CheckpointDirect, PlanImages, TranscribeBatch, JoinBatches,
       Reschedule, RecordFailure, EnsurePlan
  <2>2. pc' \in FetchedPcs => Download \/ (pc \in FetchedPcs /\ UNCHANGED <<source, seen, job>>)
    BY <1>1 DEF WorkerStep, ContractChanged, FailureAlreadyRecorded, ReconstructResult, StartOcr, Fetch,
       TranscribeDirect, CheckpointDirect, PlanImages, TranscribeBatch, JoinBatches, Working,
       Reschedule, RecordFailure, EnsurePlan, docVars, localVars, claimVars
  <2>3. QED
    BY <2>1, <2>2
<1>2. CASE WorkerFault
  <2>1. pc' \notin {"writeTags", "advance", "content"}
    BY <1>2 DEF WorkerFault, FallBackToImages, WorkerCallFails, DocumentDeadline, InterruptedAt,
       WorkerStoreFails, FailedStoreCallAt, TransitionFails, AfterFailedTransition
  <2>2. pc' \in FetchedPcs => pc \in FetchedPcs /\ UNCHANGED <<source, seen, job>>
    BY <1>2 DEF WorkerFault, FallBackToImages, WorkerCallFails, DocumentDeadline, InterruptedAt,
       WorkerStoreFails, FailedStoreCallAt, TransitionFails, AfterFailedTransition, Working,
       docVars, localVars, claimVars
  <2>3. QED
    BY <2>1, <2>2
<1>3. CASE Advance \/ AcquireFailure
  <2>1. pc' \in {"readTags", "reserve", "complete", "fail"}
    <3>1. CASE Advance
      <4>1. pc = "advance" /\ pc' = StageEntry(NextStage(fin[job]))
        BY <3>1 DEF Advance, FinalizingAdmitted
      <4>2. QED
        BY <4>1, AdvanceMoves, StageEntryIs
    <3>2. CASE AcquireFailure
      <4>1. pc = "acquireFailure" /\ pc' = StageEntry(fin[job])
        BY <3>2 DEF AcquireFailure, Finalizing
      <4>2. job \in JobIds
        BY <4>1, ClaimHeld DEF FinalizerPcs
      <4>3. fin[job] \in FailureStages
        BY <4>1, <4>2 DEF FinalizerInv, SafeInv, FailureExcludesSuccess, TerminalFailure
      <4>4. QED
        BY <4>1, <4>3, StageEntryIs DEF FailureStages
    <3>3. QED
      BY <1>3, <3>1, <3>2
  <2>2. QED
    BY <2>1
<1>4. CASE Verify
  <2>1. pc = "verify" /\ job \in JobIds
    BY <1>4, ClaimHeld DEF Verify, FinalizingAdmitted, FinalizerPcs
  <2>2. StageEntry(fin[job]) \in {"content", "readTags", "reserve", "complete", "fail"}
    BY <2>1, StageEntryPc DEF FinalizerInv, ServiceTypeOK, TypeOK
  <2>3. QED
    BY <1>4, <2>2, VerifyLeads
<1>5. CASE \/ AcquireSuccess \/ UpdateContent \/ ReadTags \/ UpdateTags \/ ReserveDispatch
           \/ DispatchAccepted \/ ConfirmDispatch \/ ResetDispatch \/ CompleteJob \/ FailJob
           \/ FinalizerFault
  BY <1>5, FailedFinalizerCall DEF AcquireSuccess, UpdateContent, ReadTags, UpdateTags, ReserveDispatch,
     DispatchAccepted, ConfirmDispatch, ResetDispatch, CompleteJob, FailJob, FinalizerFault,
     DispatchRefused, DispatchAmbiguous, AfterAmbiguousDispatch, FinalizerCallFails
<1>6. CASE \/ Cancelled \/ LeaseLost \/ Initialize \/ StartupFails \/ LoopEnds \/ Start
           \/ Exit \/ Crash \/ Outcome \/ ClaimJob \/ Classify
           \/ RecoveryFails \/ ClaimFails \/ LookupFails \/ SettlementFails \/ Reconfigure
  BY <1>6 DEF Cancelled, InterruptedAt, AfterAmbiguousDispatch, LeaseLost, Initialize, StartupFails,
     LoopEnds, Start, Exit, Crash, Outcome, ClaimJob, Classify, RecoveryFails, ClaimFails,
     LookupFails, SettlementFails, Reconfigure, ProcessEnds
<1>7. QED
  BY <1>1, <1>2, <1>3, <1>4, <1>5, <1>6
     DEF ServiceNext, ProcessStep, Fault, FinalizerStep, Stays

\* Only intake inserts a row, for the version the document has.
LEMMA InsertStep ==
    ASSUME SafeInv, ServiceTypeOK, LocalInv, ClaimInv, FinalizerInv, [ServiceNext]_allVars,
           NEW i \in JobIds, state[i] = "absent", state'[i] # "absent"
    PROVE  src'[i].sum = source[src'[i].doc] /\ UNCHANGED docVars
<1> USE DEF jobRow
<1>t. TypeOK
  BY DEF ServiceTypeOK
<1>0. pc \in WorkerPcs \cup FinalizerPcs \cup SettlingPcs => job \in JobIds /\ state[job] # "absent"
  BY ClaimHeld, BoundAssumption DEF ClaimInv, JobIds
<1>1. CASE WorkerStep \/ WorkerFault
  <2>1. \/ state' = state
        \/ /\ pc \in {"reschedule", "complete", "fail"}
           /\ \E s \in {"retry", "completed", "failed"} : state' = [state EXCEPT ![job] = s]
    BY <1>1, StoreCallKeepsJobs DEF WorkerStep, WorkerFault, ContractChanged, FailureAlreadyRecorded,
       ReconstructResult, StartOcr, Fetch, Download, TranscribeDirect, CheckpointDirect, PlanImages,
       TranscribeBatch, JoinBatches, Reschedule, RecordFailure, FallBackToImages, WorkerCallFails,
       DocumentDeadline, WorkerStoreFails, TransitionFails, TransitionCall, EnsurePlan, EnsureBatches,
       CheckpointBatch, RecordTerminalFailure, ScheduleRetry, Complete, Fail, EndClaim, vars
  <2>2. QED
    BY <1>0, <1>t, <2>1 DEF TypeOK, SettlingPcs
<1>2. CASE FinalizerStep \/ FinalizerFault
  <2>1. \/ state' = state
        \/ /\ pc \in {"complete", "fail"}
           /\ state' = [state EXCEPT ![job] = "completed"] \/ state' = [state EXCEPT ![job] = "failed"]
    BY <1>2 DEF FinalizerStep, AcquireSuccess, Verify, UpdateContent, ReadTags, UpdateTags, Advance,
       ReserveDispatch, DispatchAccepted, ConfirmDispatch, ResetDispatch, CompleteJob, FailJob,
       AcquireFailure, FinalizerFault, FinalizerStoreFails, FinalizerStoreCall, DispatchRefused,
       DispatchAmbiguous, FinalizerCallFails,
       AcquireFinalization, AdvanceFinalization, SetDispatchState, Complete, Fail, EndClaim, vars
  <2>2. QED
    BY <1>0, <1>t, <2>1 DEF TypeOK, SettlingPcs
<1>3. CASE Cancelled
  BY <1>3, StoreCallKeepsJobs DEF Cancelled, vars
<1>4. CASE Exit \/ SettlementFails
  <2>1. state' = state \/ (job # 0 /\ state' = [state EXCEPT ![job] = "retry"])
    BY <1>4 DEF Exit, SettlementFails, SettleShutdownClaim, Release, EndClaim, vars
  <2>2. QED
    BY <1>t, <2>1 DEF TypeOK, ClaimInv
<1>5. CASE ClaimJob \/ ClaimFails
  BY <1>t, <1>5 DEF ClaimJob, ClaimFails, Claim, ClaimNext, Due, TypeOK, vars
<1>6. CASE Initialize \/ StartupFails \/ RecoveryFails
  BY <1>t, <1>6 DEF Initialize, StartupFails, RecoveryFails, Recover, RecoverExpiredLeases, Expired, TypeOK, vars
<1>7. ASSUME NEW d \in Docs, NEW p \in Priorities, Intake(d, p)
      PROVE  src'[i].sum = source[src'[i].doc] /\ UNCHANGED docVars
  BY <1>t, <1>7 DEF Intake, EnqueueNew, EnqueueExisting, TypeOK
<1>8. CASE \/ Classify \/ Outcome \/ LoopEnds \/ LeaseLost \/ Start \/ Stop \/ Crash
           \/ LookupFails \/ Reconfigure \/ Beat \/ ServiceTick \/ Stall
           \/ \E d \in Docs : ReplaceOriginal(d) \/ AddTag(d)
           \/ UNCHANGED allVars
  BY <1>8 DEF Classify, Outcome, LoopEnds, LeaseLost, Start, Stop, Crash, LookupFails, Reconfigure,
     Beat, Heartbeat, HeartbeatAdmission,
     RenewLease, RenewFinalization, ServiceTick, Stall, Tick, ReplaceOriginal, AddTag, allVars, vars
<1>9. QED
  BY <1>1, <1>2, <1>3, <1>4, <1>5, <1>6, <1>7, <1>8 DEF ServiceNext, ProcessStep, Fault

\* Only the worker writes batches: a plan, or a text of the version it downloaded.
BatchStep ==
    \/ UNCHANGED batches
    \/ /\ pc \in FetchedPcs /\ UNCHANGED <<source, src>>
       /\ \/ \E p \in {DirectPlan, ImagePlan} : EnsureBatches(job, att, up, p)
          \/ \E r \in DOMAIN batches[job], k \in Takes :
                CheckpointBatch(job, att, up, r, [sum |-> seen, take |-> k])

\* Only the worker writes checkpoints, with texts of the version it downloaded.
LEMMA ServiceBatchStep ==
    ASSUME [ServiceNext]_allVars
    PROVE  BatchStep
<1> USE DEF BatchStep
<1>s. ASSUME WorkerStoreCall, UNCHANGED source
      PROVE  BatchStep
  BY <1>s DEF WorkerStoreCall, FetchedPcs, EnsureBatches, CheckpointBatch, jobRow
<1>1. CASE TranscribeDirect \/ PlanImages
  BY <1>1 DEF TranscribeDirect, PlanImages, Working, EnsurePlan, EnsureBatches, FetchedPcs, vars, jobRow, docVars
<1>2. CASE CheckpointDirect \/ TranscribeBatch
  BY <1>2 DEF CheckpointDirect, TranscribeBatch, Working, CheckpointBatch, CheckpointPending, FetchedPcs,
     vars, jobRow, docVars
<1>3. CASE DocumentDeadline \/ WorkerStoreFails
  BY <1>3, <1>s DEF DocumentDeadline, WorkerStoreFails, vars, docVars
<1>4. CASE Cancelled
  <2>1. WorkerStoreCall => UNCHANGED source
    BY <1>4 DEF Cancelled, WriteUnderWay, WorkerStoreCall, docVars
  <2>2. FinalizerStoreCall => UNCHANGED batches
    BY DEF FinalizerStoreCall, AcquireFinalization, AdvanceFinalization, SetDispatchState
  <2>3. QED
    BY <1>4, <1>s, <2>1, <2>2 DEF Cancelled, vars
<1>5. CASE \/ ContractChanged \/ FailureAlreadyRecorded \/ ReconstructResult \/ StartOcr \/ Fetch
           \/ Download \/ JoinBatches \/ Reschedule \/ RecordFailure
           \/ FallBackToImages \/ WorkerCallFails \/ TransitionFails
  BY <1>5 DEF ContractChanged, FailureAlreadyRecorded, ReconstructResult, StartOcr, Fetch, Download,
     JoinBatches, Reschedule, RecordFailure, FallBackToImages, WorkerCallFails, TransitionFails,
     TransitionCall, Complete, Fail, ScheduleRetry, EndClaim, RecordTerminalFailure, vars
<1>6. CASE FinalizerStep \/ FinalizerFault
  BY <1>6 DEF FinalizerStep, AcquireSuccess, Verify, UpdateContent, ReadTags, UpdateTags, Advance,
     ReserveDispatch, DispatchAccepted, ConfirmDispatch, ResetDispatch, CompleteJob, FailJob,
     AcquireFailure, FinalizerFault, DispatchRefused, DispatchAmbiguous, FinalizerCallFails,
     FinalizerStoreFails, FinalizerStoreCall,
     AcquireFinalization, AdvanceFinalization, SetDispatchState, Complete, Fail, EndClaim, vars
<1>7. CASE Exit \/ SettlementFails \/ Initialize \/ StartupFails \/ RecoveryFails \/ ClaimJob \/ ClaimFails
  BY <1>7 DEF Exit, SettlementFails, SettleShutdownClaim, Release, EndClaim, Initialize, StartupFails,
     RecoveryFails, Recover, RecoverExpiredLeases, ClaimJob, ClaimFails, Claim, vars
<1>8. CASE Stays
  BY <1>8, StaysPut
<1>9. CASE Classify \/ Outcome \/ LoopEnds \/ LeaseLost \/ Start \/ Crash \/ LookupFails \/ Reconfigure
  BY <1>9 DEF Classify, Outcome, LoopEnds, LeaseLost, Start, Crash, LookupFails, Reconfigure, vars
<1>10. QED
  BY <1>1, <1>2, <1>3, <1>4, <1>5, <1>6, <1>7, <1>8, <1>9
     DEF ServiceNext, ProcessStep, Fault, Stays, WorkerStep, WorkerFault

-----------------------------------------------------------------------------
(***************************************************************************)
(* Tags.                                                                   *)
(***************************************************************************)

\* A recorded failure, and the document it is about, stay.
LEMMA CauseStays ==
    ASSUME RowInv, RowStep, NEW d \in Docs, Cause(d)
    PROVE  Cause(d)'
<1>1. PICK i \in JobIds : src[i].doc = d /\ failure[i]
  BY DEF Cause
<1>2. state[i] # "absent"
  BY <1>1 DEF RowInv
<1>3. src'[i].doc = d /\ failure'[i]
  BY <1>1, <1>2 DEF RowStep
<1>4. QED
  BY <1>3 DEF Cause

\* The claimed job has a row, of a document Paperless has.
LEMMA DocOfClaim ==
    ASSUME ServiceTypeOK, LocalInv, ClaimInv, RowInv,
           pc \in WorkerPcs \cup FinalizerPcs \cup SettlingPcs
    PROVE  /\ job \in JobIds /\ state[job] # "absent"
           /\ src[job] \in Sources /\ Doc \in Docs
<1>1. job \in JobIds /\ job # 0
  BY DEF ServiceTypeOK, ClaimedTypeOK
<1>2. QED
  BY <1>1 DEF ClaimInv, RowInv, Doc, Sources

\* Every step keeps a cause for each failed tag.
LEMMA TagInvNext ==
    ASSUME SafeInv, ServiceTypeOK, LocalInv, ClaimInv, RowInv, DispatchInv, FinalizerInv, TagInv,
           [ServiceNext]_allVars
    PROVE  TagInv'
<1>r. RowStep /\ DocStep
  BY ServiceIsQueueStep, RowStepNext, ServiceDocStep
<1>t. tags \in [Docs -> SUBSET Tags]
  BY DEF ServiceTypeOK, ClaimedTypeOK
<1>1. ASSUME NEW d \in Docs, "failed" \in tags'[d]
      PROVE  Cause(d)
  <2>1. CASE "failed" \in tags[d]
    BY <2>1 DEF TagInv
  <2>2. CASE "failed" \notin tags[d]
    <3>1. pc = "writeTags" /\ WriteTags
      <4>1. ASSUME NEW e \in Docs, ReplaceOriginal(e) \/ AddTag(e)
            PROVE  FALSE
        BY <1>1, <1>t, <2>2, <4>1 DEF ReplaceOriginal, AddTag
      <4>2. QED
        BY <1>1, <1>r, <2>2, <4>1 DEF DocStep, docVars
    <3>2. job \in JobIds /\ Doc \in Docs
      BY <3>1, DocOfClaim DEF FinalizerPcs
    <3>3. d = Doc /\ "failed" \in WantedTags(fin[job], seenTags)
      BY <1>1, <1>t, <2>2, <3>1, <3>2 DEF WriteTags
    <3>4. fin[job] \in TagStages
      BY <3>1 DEF FinalizerInv
    <3>5. "failed" \in seenTags \/ fin[job] = "failure_pending"
      BY <3>3, <3>4, WantedTagsIs DEF TagStages
    <3>6. CASE "failed" \in seenTags
      BY <3>1, <3>3, <3>6 DEF TagInv
    <3>7. CASE fin[job] = "failure_pending"
      <4>1. failure[job]
        BY <3>2, <3>7 DEF DispatchInv, FailureStages
      <4>2. QED
        BY <3>2, <3>3, <4>1 DEF Cause, Doc
    <3>8. QED
      BY <3>5, <3>6, <3>7
  <2>3. QED
    BY <2>1, <2>2
<1>2. ASSUME pc' = "writeTags", "failed" \in seenTags'
      PROVE  Cause(Doc) /\ Doc \in Docs /\ Doc' = Doc
  <2>1. pc \in FinalizerPcs /\ job' = job
    BY <1>2, ComesFrom, StaysPut DEF ReadTags, FinalizingAdmitted, Goto, claimVars, FinalizerPcs
  <2>2. job \in JobIds /\ state[job] # "absent" /\ Doc \in Docs
    BY <2>1, DocOfClaim
  <2>3. Doc' = Doc
    BY <1>r, <2>1, <2>2 DEF RowStep, Doc
  <2>4. CASE ReadTags
    BY <1>2, <2>2, <2>3, <2>4 DEF ReadTags, TagInv
  <2>5. CASE Stays
    BY <1>2, <2>2, <2>3, <2>5, StaysPut DEF TagInv
  <2>6. QED
    BY <1>2, <2>4, <2>5, ComesFrom
<1>3. \A d \in Docs : "failed" \in tags'[d] => Cause(d)'
  BY <1>1, <1>r, CauseStays
<1>4. pc' = "writeTags" /\ "failed" \in seenTags' => Cause(Doc)'
  <2> SUFFICES ASSUME pc' = "writeTags", "failed" \in seenTags'
               PROVE  Cause(Doc)'
    OBVIOUS
  <2>1. PICK i \in JobIds : src[i].doc = Doc /\ failure[i]
    BY <1>2 DEF Cause
  <2>2. state[i] # "absent"
    BY <2>1 DEF RowInv
  <2>3. src'[i].doc = Doc' /\ failure'[i]
    BY <1>2, <1>r, <2>1, <2>2 DEF RowStep
  <2>4. QED
    BY <2>3 DEF Cause
<1>5. QED
  BY <1>3, <1>4 DEF TagInv

-----------------------------------------------------------------------------
(***************************************************************************)
(* While nobody else changed Paperless.                                    *)
(***************************************************************************)

\* A budget that is unspent was unspent, and a change spends it.
LEMMA ChangeSpends ==
    ASSUME ServiceTypeOK, LocalInv, [ServiceNext]_allVars
    PROVE  /\ budget["change"] \in Nat /\ budget'["change"] \in Nat /\ Budget["change"] \in Nat
           /\ budget'["change"] <= budget["change"] /\ budget["change"] <= Budget["change"]
           /\ (\E d \in Docs : ReplaceOriginal(d) \/ AddTag(d)) =>
                 budget'["change"] = budget["change"] - 1
<1>0. "change" \in Bounded /\ "any" \in Bounded
  BY DEF Bounded, FaultKinds
<1>1. budget \in [Bounded -> Nat] /\ Budget \in [Bounded -> Nat]
  BY BudgetAssumption DEF ServiceTypeOK, ClaimedTypeOK
<1>2. /\ budget'["change"] <= budget["change"] /\ budget["change"] <= Budget["change"]
      /\ budget'["change"] \in Nat
  BY <1>0, BudgetNext DEF LocalInv
<1>3. (\E d \in Docs : ReplaceOriginal(d) \/ AddTag(d)) => budget'["change"] = budget["change"] - 1
  BY <1>0, <1>1 DEF ReplaceOriginal, AddTag, Spend
<1>4. QED
  BY <1>0, <1>1, <1>2, <1>3

\* A row other than the claimed one is of another document.
LEMMA OtherDocument ==
    ASSUME SafeInv, NEW j \in JobIds, state[j] # "absent",
           NEW i \in JobIds, state[i] # "absent", i # j,
           src[i].sum = source[src[i].doc], src[j].sum = source[src[j].doc]
    PROVE  src[i].doc # src[j].doc
BY DEF SafeInv, OneJobPerSource

\* What the service may do to Paperless in such a step.
OwnDocStep ==
    \/ UNCHANGED <<source, content, tags>>
    \/ pc = "content" /\ WriteContent /\ UNCHANGED <<source, tags>>
    \/ pc = "writeTags" /\ WriteTags /\ UNCHANGED <<source, content>>

\* The stage a row has reached in a step.
LEMMA StageReached ==
    ASSUME SafeInv, ServiceTypeOK, LocalInv, FinalizerInv, FinStep, NEW i \in JobIds, fin'[i] # fin[i],
           fin'[i] \in SuccessStages
    PROVE  /\ i = job /\ pc = "advance"
           /\ \/ fin[i] = "pending" /\ fin'[i] = "content_updated"
              \/ fin[i] = "content_updated" /\ fin'[i] = "complete_tag_added"
              \/ fin[i] = "complete_tag_added" /\ fin'[i] = "failed_tag_removed"
              \/ fin[i] = "failed_tag_removed" /\ fin'[i] = "metadata_dispatched"
<1>t. fin \in [JobIds -> {"absent"} \cup Stages]
  BY DEF ServiceTypeOK, TypeOK
<1>1. CASE RecordTerminalFailure(job, att, up)
  BY <1>1, <1>t DEF RecordTerminalFailure, SuccessStages
<1>2. CASE FinalizerStoreCall
  <2>1. CASE \E t \in Tokens : AcquireFinalization(job, att, up, t)
    BY <2>1, <1>t DEF AcquireFinalization, SuccessStages
  <2>2. CASE pc = "advance" /\ AdvanceFinalization(job, att, up, Token, fin[job], NextStage(fin[job]))
    <3>1. fin' = [fin EXCEPT ![job] = NextStage(fin[job])]
      BY <2>2 DEF AdvanceFinalization
    <3>2. i = job /\ fin'[i] = NextStage(fin[job])
      BY <1>t, <3>1
    <3>3. QED
      BY <2>2, <3>2, AdvanceMoves DEF SuccessStages
  <2>3. QED
    BY <1>2, <2>1, <2>2 DEF FinalizerStoreCall, SetDispatchState
<1>3. QED
  BY <1>1, <1>2 DEF FinStep

\* While nobody else changed Paperless, every step keeps the stages true.
LEMMA NoChangeInvNext ==
    ASSUME SafeInv, ServiceTypeOK, LocalInv, ClaimInv, RowInv, FinalizerInv, ResultInv, NoChangeInv,
           [ServiceNext]_allVars
    PROVE  NoChangeInv'
<1> SUFFICES ASSUME budget'["change"] = Budget["change"]
             PROVE  NoChangeInv'
  BY DEF NoChangeInv
<1>n. [Next]_vars
  BY ServiceIsQueueStep
<1>r. RowStep /\ FinStep /\ CheckpointStep /\ TypeOK /\ TypeOK'
  BY <1>n, RowStepNext, ServiceFinStep, CheckpointNext, TypeNext DEF ServiceTypeOK
<1>t. /\ tags \in [Docs -> SUBSET Tags] /\ content \in [Docs -> Results]
      /\ fin \in [JobIds -> {"absent"} \cup Stages]
  BY DEF ServiceTypeOK, ClaimedTypeOK, TypeOK
<1>b. budget["change"] = Budget["change"] /\ ~\E d \in Docs : ReplaceOriginal(d) \/ AddTag(d)
  BY ChangeSpends
<1>h. /\ \A i \in JobIds :
            /\ state[i] # "absent" => src[i].sum = source[src[i].doc]
            /\ fin[i] \in SuccessStages => content[src[i].doc] = batches[i]
            /\ fin[i] \in Recorded \cup {"complete_tag_added"} => "complete" \in tags[src[i].doc]
            /\ fin[i] \in Recorded => "failed" \notin tags[src[i].doc]
      /\ pc = "advance" =>
            /\ fin[job] = "pending" => content[Doc] = batches[job]
            /\ fin[job] = "content_updated" => "complete" \in tags[Doc]
            /\ fin[job] = "complete_tag_added" => "failed" \notin tags[Doc]
      /\ pc = "writeTags" => seenTags = tags[Doc]
  BY <1>b DEF NoChangeInv
<1>d. OwnDocStep
  BY <1>b, ServiceDocStep DEF DocStep, OwnDocStep, docVars
<1>o. source' = source
  BY <1>d DEF OwnDocStep
<1>c. pc \in FinalizerPcs => job \in JobIds /\ state[job] # "absent" /\ Doc \in Docs /\ src[job] \in Sources
  BY DocOfClaim
<1>1. ASSUME NEW i \in JobIds, state'[i] # "absent"
      PROVE  src'[i].sum = source'[src'[i].doc]
  <2>1. CASE state[i] = "absent"
    BY <1>1, <1>o, <2>1, InsertStep
  <2>2. CASE state[i] # "absent"
    BY <1>h, <1>o, <1>r, <2>2 DEF RowStep
  <2>3. QED
    BY <2>1, <2>2
\* A finalized row keeps its document, and its document is written for it alone.
<1>k. ASSUME NEW i \in JobIds, fin'[i] \in SuccessStages
      PROVE  /\ state[i] # "absent" /\ src'[i] = src[i] /\ src[i].doc \in Docs
             /\ fin[i] \in SuccessStages \/ (i = job /\ pc = "advance" /\ fin[i] = "pending")
             /\ pc \in {"content", "writeTags"} /\ i # job => src[i].doc # Doc
  <2>1. fin[i] \in SuccessStages \/ (i = job /\ pc = "advance" /\ fin[i] = "pending")
    BY <1>k, <1>r, SuccessStarts
  <2>2. state[i] # "absent" /\ src[i] \in Sources
    BY <2>1 DEF RowInv, SuccessStages
  <2>3. pc \in {"content", "writeTags"} /\ i # job => src[i].doc # Doc
    BY <1>c, <1>h, <2>2, OtherDocument DEF FinalizerPcs, Doc
  <2>4. QED
    BY <1>r, <2>1, <2>2, <2>3 DEF RowStep, Sources
<1>2. ASSUME NEW i \in JobIds, fin'[i] \in SuccessStages
      PROVE  content'[src'[i].doc] = batches'[i]
  <2>1. CheckpointsComplete(i) /\ content[src[i].doc] = batches[i]
    BY <1>2, <1>k, <1>h DEF ResultInv, Doc
  <2>2. batches'[i] = batches[i]
    BY <1>r, <2>1, CompleteStays
  <2>3. content'[src[i].doc] = content[src[i].doc]
    <3>1. CASE pc = "content" /\ WriteContent
      <4>1. i # job
        BY <1>2, <1>k, <3>1 DEF FinalizerInv, SuccessStages
      <4>2. QED
        BY <1>2, <1>k, <1>t, <3>1, <4>1 DEF WriteContent
    <3>2. QED
      BY <1>d, <3>1 DEF OwnDocStep
  <2>4. QED
    BY <1>2, <1>k, <2>1, <2>2, <2>3
\* The tag list of a finalized row's document changes only by its own mutateTag.
<1>w. ASSUME NEW i \in JobIds, fin'[i] \in SuccessStages, tags'[src[i].doc] # tags[src[i].doc]
      PROVE  /\ i = job /\ pc = "writeTags" /\ fin[i] \in TagStages
             /\ tags'[src[i].doc] = WantedTags(fin[i], tags[src[i].doc])
  <2>1. pc = "writeTags" /\ WriteTags
    BY <1>d, <1>w DEF OwnDocStep
  <2>2. i = job
    BY <1>k, <1>t, <1>w, <2>1 DEF WriteTags
  <2>3. QED
    BY <1>c, <1>h, <1>k, <1>t, <1>w, <2>1, <2>2 DEF WriteTags, FinalizerInv, Doc, FinalizerPcs
<1>3. ASSUME NEW i \in JobIds, fin'[i] \in Recorded \cup {"complete_tag_added"}
      PROVE  "complete" \in tags'[src'[i].doc]
  <2>0. fin'[i] \in SuccessStages
    BY <1>3 DEF Recorded, SuccessStages
  <2>1. "complete" \in tags[src[i].doc]
    <3>1. CASE fin'[i] = fin[i]
      BY <1>3, <1>h, <3>1
    <3>2. CASE fin'[i] # fin[i]
      BY <1>3, <1>h, <1>r, <2>0, <3>2, StageReached DEF Recorded, Doc
    <3>3. QED
      BY <3>1, <3>2
  <2>2. CASE tags'[src[i].doc] = tags[src[i].doc]
    BY <1>k, <2>0, <2>1, <2>2
  <2>3. CASE tags'[src[i].doc] # tags[src[i].doc]
    <3>1. fin[i] \in TagStages /\ tags'[src[i].doc] = WantedTags(fin[i], tags[src[i].doc])
      BY <1>w, <2>0, <2>3
    <3>2. "complete" \in WantedTags(fin[i], tags[src[i].doc])
      BY <2>1, <3>1, WantedTagsIs DEF TagStages
    <3>3. QED
      BY <1>k, <2>0, <3>1, <3>2
  <2>4. QED
    BY <2>2, <2>3
<1>4. ASSUME NEW i \in JobIds, fin'[i] \in Recorded
      PROVE  "failed" \notin tags'[src'[i].doc]
  <2>0. fin'[i] \in SuccessStages
    BY <1>4 DEF Recorded, SuccessStages
  <2>1. "failed" \notin tags[src[i].doc] /\ (fin[i] \in Recorded \/ pc = "advance")
    <3>1. CASE fin'[i] = fin[i]
      BY <1>4, <1>h, <3>1
    <3>2. CASE fin'[i] # fin[i]
      BY <1>4, <1>h, <1>r, <2>0, <3>2, StageReached DEF Recorded, Doc
    <3>3. QED
      BY <3>1, <3>2
  <2>2. tags'[src[i].doc] = tags[src[i].doc]
    BY <1>w, <2>0, <2>1 DEF TagStages, Recorded
  <2>3. QED
    BY <1>k, <2>0, <2>1, <2>2
<1>5. ASSUME pc' = "writeTags"
      PROVE  seenTags' = tags'[Doc']
  <2>1. pc \in FinalizerPcs /\ job' = job
    BY <1>5, ComesFrom, StaysPut DEF ReadTags, FinalizingAdmitted, Goto, claimVars, FinalizerPcs
  <2>2. Doc' = Doc
    BY <1>c, <1>r, <2>1 DEF RowStep, Doc
  <2>3. CASE ReadTags
    BY <2>2, <2>3 DEF ReadTags, docVars
  <2>4. CASE Stays
    <3>1. UNCHANGED <<pc, seenTags, tags>>
      BY <1>b, <2>4, StaysPut
    <3>2. QED
      BY <1>5, <1>h, <2>2, <3>1
  <2>5. QED
    BY <1>5, <2>3, <2>4, ComesFrom
<1>6. ASSUME pc' = "advance"
      PROVE  /\ fin'[job'] = "pending" => content'[Doc'] = batches'[job']
             /\ fin'[job'] = "content_updated" => "complete" \in tags'[Doc']
             /\ fin'[job'] = "complete_tag_added" => "failed" \notin tags'[Doc']
  <2>0. \/ Verify \/ UpdateContent \/ ReadTags \/ UpdateTags
        \/ ReserveDispatch \/ ConfirmDispatch \/ Stays
    BY <1>6, ComesFrom
  <2>1. pc \in FinalizerPcs /\ job' = job
    BY <1>6, <2>0, StaysPut DEF Verify, UpdateContent, ReadTags, UpdateTags, ReserveDispatch, ConfirmDispatch,
       FinalizingAdmitted, Goto, claimVars, FinalizerPcs
  <2>2. Doc' = Doc /\ Doc \in Docs /\ job \in JobIds
    BY <1>c, <1>r, <2>1 DEF RowStep, Doc
  <2>3. CASE Verify
    <3>1. UNCHANGED <<fin, batches, content>> /\ pc = "verify"
      BY <2>3 DEF Verify, vars, finRow, docVars, FinalizingAdmitted
    <3>2. fin[job] \in Stages
      BY <1>t, <2>2, <3>1 DEF FinalizerInv
    <3>3. StageEntry(fin[job]) # "advance"
      BY <3>2, StageEntryPc
    <3>4. QED
      BY <1>6, <2>1, <2>2, <2>3, <3>1, <3>3, VerifyLeads
  <2>4. CASE UpdateContent
    <3>1. UNCHANGED <<fin, batches>> /\ pc = "content" /\ content'[Doc] = batches[job]
      BY <1>t, <2>2, <2>4 DEF UpdateContent, WriteContent, vars, finRow, FinalizingAdmitted
    <3>2. QED
      BY <2>1, <2>2, <3>1 DEF FinalizerInv
  <2>5. CASE ReadTags
    <3>1. /\ UNCHANGED <<fin, tags>> /\ pc = "readTags"
          /\ WantedTags(fin[job], tags[Doc]) = tags[Doc]
      BY <1>6, <2>5 DEF ReadTags, vars, finRow, docVars, FinalizingAdmitted, Goto
    <3>2. fin[job] \in TagStages
      BY <3>1 DEF FinalizerInv
    <3>3. QED
      BY <2>1, <2>2, <3>1, <3>2, WantedTagsIs DEF TagStages
  <2>6. CASE UpdateTags
    <3>1. UNCHANGED fin /\ pc = "writeTags" /\ tags'[Doc] = WantedTags(fin[job], seenTags)
      BY <1>t, <2>2, <2>6 DEF UpdateTags, WriteTags, vars, finRow, FinalizingAdmitted
    <3>2. fin[job] \in TagStages
      BY <3>1 DEF FinalizerInv
    <3>3. QED
      BY <2>1, <2>2, <3>1, <3>2, WantedTagsIs DEF TagStages
  <2>7. CASE ReserveDispatch \/ ConfirmDispatch
    <3>1. UNCHANGED fin /\ pc \in {"reserve", "confirm"}
      BY <2>7 DEF ReserveDispatch, ConfirmDispatch, SetDispatchState, vars, finRow, FinalizingAdmitted
    <3>2. QED
      BY <2>1, <3>1 DEF FinalizerInv
  <2>8. CASE Stays
    <3>1. UNCHANGED <<pc, fin, batches, tags>>
      BY <1>b, <2>8, StaysPut
    <3>2. content' = content
      BY <1>6, <1>d, <3>1 DEF OwnDocStep
    <3>3. QED
      BY <1>6, <1>h, <2>1, <2>2, <3>1, <3>2
  <2>9. QED
    BY <2>0, <2>3, <2>4, <2>5, <2>6, <2>7, <2>8
<1>7. QED
  BY <1>1, <1>2, <1>3, <1>4, <1>5, <1>6 DEF NoChangeInv

-----------------------------------------------------------------------------
(***************************************************************************)
(* While at most one change was made.                                      *)
(***************************************************************************)

\* A change to the original that leaves Unchanged1 is the first: every row is then
\* of the version its document had until now.
LEMMA VersionAtChange ==
    ASSUME SafeInv, ServiceTypeOK, LocalInv, ClaimInv, RowInv, NoChangeInv, VersionInv,
           [ServiceNext]_allVars, Unchanged1', NEW d \in Docs, ReplaceOriginal(d)
    PROVE  VersionInv'
<1>1. budget["change"] = Budget["change"] /\ Unchanged1
  BY ChangeSpends DEF Unchanged1
<1>2. UNCHANGED <<state, src, batches, pc, job, seen>>
  BY DEF ReplaceOriginal, vars, jobRow, claimVars, localVars
<1>3. \A i \in JobIds : state[i] # "absent" => RightVersion(i)
  BY <1>1 DEF NoChangeInv, VersionInv
<1>4. \A i \in JobIds : RightVersion(i)' <=> RightVersion(i)
  BY <1>2 DEF RightVersion
<1>5. ASSUME pc \in FetchedPcs
      PROVE  seen = src[job].sum
  <2>1. job \in JobIds /\ state[job] # "absent"
    BY <1>5, DocOfClaim DEF FetchedPcs, WorkerPcs
  <2>2. QED
    BY <1>1, <1>5, <2>1 DEF NoChangeInv, VersionInv, Doc
<1>6. ASSUME pc = "content"
      PROVE  RightVersion(job)' <=> RightVersion(job)
  BY <1>2 DEF RightVersion
<1>7. QED
  BY <1>1, <1>2, <1>3, <1>4, <1>5, <1>6 DEF VersionInv, Doc

\* The texts the worker stores are of the version it downloaded.
LEMMA RightVersionStays ==
    ASSUME SafeInv, ServiceTypeOK, LocalInv, ClaimInv, RowInv, BatchStep, RowStep,
           NEW i \in JobIds, state[i] # "absent", RightVersion(i),
           pc \in FetchedPcs /\ i = job => seen = src[job].sum
    PROVE  RightVersion(i)'
<1>1. src'[i] = src[i]
  BY DEF RowStep
<1>2. CASE UNCHANGED batches
  BY <1>1, <1>2 DEF RightVersion
<1>3. CASE i # job /\ batches'[i] = batches[i]
  BY <1>1, <1>3 DEF RightVersion
<1>t. batches \in [JobIds -> Results]
  BY DEF ServiceTypeOK, TypeOK
<1>4. ASSUME NEW p \in {DirectPlan, ImagePlan}, EnsureBatches(job, att, up, p)
      PROVE  RightVersion(i)'
  <2>1. CASE i = job
    <3>1. batches'[i] = [r \in p |-> None]
      BY <1>4, <1>t, <2>1 DEF EnsureBatches
    <3>2. QED
      BY <3>1 DEF RightVersion
  <2>2. CASE i # job
    BY <1>3, <1>4, <1>t, <2>2 DEF EnsureBatches
  <2>3. QED
    BY <2>1, <2>2
<1>5. ASSUME NEW r \in DOMAIN batches[job], NEW k \in Takes, pc \in FetchedPcs,
             CheckpointBatch(job, att, up, r, [sum |-> seen, take |-> k])
      PROVE  RightVersion(i)'
  <2>1. CASE i = job
    <3>1. batches'[i] = [batches[i] EXCEPT ![r] = [sum |-> seen, take |-> k]]
      BY <1>5, <1>t, <2>1 DEF CheckpointBatch
    <3>2. seen = src'[i].sum
      BY <1>1, <1>5, <2>1
    <3>3. ASSUME NEW s \in DOMAIN batches'[i], batches'[i][s] # None
          PROVE  batches'[i][s].sum = src'[i].sum
      <4>1. s \in DOMAIN batches[i]
        BY <3>1
      <4>2. CASE s = r
        BY <3>1, <3>2, <4>1, <4>2
      <4>3. CASE s # r
        BY <1>1, <3>1, <3>3, <4>1, <4>3 DEF RightVersion
      <4>4. QED
        BY <4>2, <4>3
    <3>4. QED
      BY <3>3 DEF RightVersion
  <2>2. CASE i # job
    BY <1>3, <1>5, <1>t, <2>2 DEF CheckpointBatch
  <2>3. QED
    BY <2>1, <2>2
<1>6. QED
  BY <1>2, <1>4, <1>5 DEF BatchStep

\* A stale text is written only by a process that downloaded it after the change.
LEMMA VersionInvNext ==
    ASSUME SafeInv, ServiceTypeOK, LocalInv, ClaimInv, RowInv, FinalizerInv, NoChangeInv, VersionInv,
           [ServiceNext]_allVars
    PROVE  VersionInv'
<1> SUFFICES ASSUME Unchanged1', ~\E d \in Docs : ReplaceOriginal(d)
             PROVE  VersionInv'
  BY VersionAtChange DEF VersionInv
<1>n. [Next]_vars
  BY ServiceIsQueueStep
<1>r. RowStep /\ FencedStep /\ BatchStep
  BY <1>n, RowStepNext, FencedNext, ServiceBatchStep DEF SafeInv
<1>u. Unchanged1
  BY ChangeSpends DEF Unchanged1
<1>o. source' = source
  BY ServiceDocStep DEF DocStep, docVars, AddTag
<1>c. pc \in WorkerPcs \cup FinalizerPcs => job \in JobIds /\ state[job] # "absent"
  BY DocOfClaim
<1>1. ASSUME NEW i \in JobIds, state'[i] # "absent", source'[src'[i].doc] = src'[i].sum
      PROVE  RightVersion(i)'
  <2>1. CASE state[i] = "absent"
    <3>1. leaseLeft[i] = 0 /\ batches[i] = NoBatches
      BY <2>1 DEF SafeInv, TypeOK, LeaseIffProcessing, RowInv
    <3>2. batches'[i] = NoBatches
      BY <1>r, <3>1 DEF FencedStep
    <3>3. QED
      BY <3>2 DEF RightVersion, NoBatches
  <2>2. CASE state[i] # "absent"
    <3>1. source[src[i].doc] = src[i].sum
      BY <1>1, <1>o, <1>r, <2>2 DEF RowStep
    <3>2. RightVersion(i)
      BY <1>u, <2>2, <3>1 DEF VersionInv
    <3>3. pc \in FetchedPcs /\ i = job => seen = src[job].sum
      BY <1>u, <3>1 DEF VersionInv, Doc
    <3>4. QED
      BY <1>r, <2>2, <3>2, <3>3, RightVersionStays
  <2>3. QED
    BY <2>1, <2>2
<1>2. ASSUME pc' \in FetchedPcs, source'[Doc'] = src'[job'].sum
      PROVE  seen' = src'[job'].sum
  <2>1. pc \in WorkerPcs /\ job' = job
    BY <1>2, ComesFrom, StaysPut DEF Download, Working, Goto, claimVars, FetchedPcs, WorkerPcs
  <2>2. src'[job] = src[job]
    BY <1>c, <1>r, <2>1 DEF RowStep
  <2>3. CASE Download
    BY <1>2, <1>o, <2>1, <2>2, <2>3 DEF Download, Doc
  <2>4. CASE pc \in FetchedPcs /\ seen' = seen
    BY <1>2, <1>o, <1>u, <2>1, <2>2, <2>4 DEF VersionInv, Doc
  <2>5. QED
    BY <1>2, <2>3, <2>4, ComesFrom, StaysPut
<1>3. ASSUME pc' = "content"
      PROVE  RightVersion(job)'
  <2>1. pc \in FinalizerPcs /\ job' = job /\ UNCHANGED batches
    BY <1>3, ComesFrom, StaysPut DEF Verify, FinalizingAdmitted, Goto, claimVars, FinalizerPcs, vars
  <2>2. src'[job] = src[job]
    BY <1>c, <1>r, <2>1 DEF RowStep
  <2>3. RightVersion(job)
    <3>1. CASE Verify
      <4>1. source[Doc] = src[job].sum
        BY <1>3, <3>1, VerifyLeads
      <4>2. QED
        BY <1>c, <1>u, <2>1, <4>1 DEF VersionInv, Doc
    <3>2. CASE Stays
      BY <1>3, <1>u, <3>2, StaysPut DEF VersionInv
    <3>3. QED
      BY <1>3, <3>1, <3>2, ComesFrom
  <2>4. QED
    BY <2>1, <2>2, <2>3 DEF RightVersion
<1>4. QED
  BY <1>1, <1>2, <1>3 DEF VersionInv

-----------------------------------------------------------------------------
(***************************************************************************)
(* The text of a document.                                                 *)
(***************************************************************************)

\* What ContentIsWholeResult says of the text c of document d and the job i.
ResultOf(c, d, i) ==
    /\ src[i].doc = d /\ c = batches[i] /\ AllCompleted(i)
    /\ Unchanged1 => \A r \in DOMAIN batches[i] : batches[i][r].sum = src[i].sum

\* A text that is a whole result stays one: its checkpoints and its row are kept.
LEMMA ResultOfStays ==
    ASSUME SafeInv, ServiceTypeOK, LocalInv, FinalizerInv, RowInv, [ServiceNext]_allVars,
           NEW c, c # Native, NEW d \in Docs, NEW i \in JobIds, ResultOf(c, d, i)
    PROVE  ResultOf(c, d, i)'
<1>1. [Next]_vars
  BY ServiceIsQueueStep
<1>2. RowStep /\ CheckpointStep /\ TypeOK /\ TypeOK'
  BY <1>1, RowStepNext, CheckpointNext, TypeNext DEF ServiceTypeOK
<1>3. state[i] # "absent"
  BY DEF ResultOf, RowInv, Native
<1>4. DOMAIN batches[i] # {}
  <2>1. PICK p \in Plans \cup {{}} : batches[i] \in [p -> Texts \cup {None}]
    BY <1>2 DEF TypeOK, Results
  <2>2. p # {}
    BY <2>1 DEF ResultOf, Native, NoBatches
  <2>3. QED
    BY <2>1, <2>2
<1>5. batches'[i] = batches[i]
  BY <1>2, <1>4, CompleteStays DEF ResultOf, CheckpointsComplete
<1>6. src'[i] = src[i]
  BY <1>2, <1>3 DEF RowStep
<1>7. Unchanged1' => Unchanged1
  BY ChangeSpends DEF Unchanged1
<1>8. QED
  BY <1>5, <1>6, <1>7 DEF ResultOf, AllCompleted

\* The finalizer writes the whole result of its job, of the right version.
LEMMA ContentNext ==
    ASSUME SafeInv, ServiceTypeOK, LocalInv, ClaimInv, RowInv, FinalizerInv, ResultInv, VersionInv,
           ContentIsWholeResult, [ServiceNext]_allVars
    PROVE  ContentIsWholeResult'
<1>d. DocStep
  BY ServiceDocStep
<1>t. content \in [Docs -> Results]
  BY DEF ServiceTypeOK, ClaimedTypeOK
<1>1. ASSUME NEW d \in Docs, content'[d] # Native
      PROVE  \E i \in JobIds : ResultOf(content'[d], d, i)
  <2>1. CASE pc = "content" /\ WriteContent /\ d = Doc
    <3>1. job \in JobIds /\ content'[d] = batches[job]
      BY <1>1, <1>t, <2>1, DocOfClaim DEF WriteContent, FinalizerPcs
    <3>2. AllCompleted(job) /\ (Unchanged1 => RightVersion(job))
      BY <2>1 DEF ResultInv, CheckpointsComplete, VersionInv
    <3>3. QED
      BY <2>1, <3>1, <3>2 DEF ResultOf, RightVersion, AllCompleted, Doc
  <2>2. CASE content'[d] = content[d]
    <3>1. PICK i \in JobIds : ResultOf(content[d], d, i)
      BY <1>1, <2>2 DEF ContentIsWholeResult, ResultOf, Unchanged1
    <3>2. QED
      BY <2>2, <3>1
  <2>3. content'[d] = content[d] \/ (pc = "content" /\ WriteContent /\ d = Doc)
    <3>1. ASSUME NEW e \in Docs, ReplaceOriginal(e) \/ AddTag(e)
          PROVE  content'[d] = content[d]
      BY <1>1, <1>t, <3>1 DEF ReplaceOriginal, AddTag
    <3>2. CASE pc = "content" /\ WriteContent
      BY <1>t, <3>2 DEF WriteContent
    <3>3. QED
      BY <1>d, <3>1, <3>2 DEF DocStep, docVars
  <2>4. QED
    BY <2>1, <2>2, <2>3
<1>2. ASSUME NEW d \in Docs, content'[d] # Native
      PROVE  \E i \in JobIds : ResultOf(content[d], d, i)'
  <2>1. PICK c : c = content'[d]
    OBVIOUS
  <2>2. PICK i \in JobIds : ResultOf(c, d, i)
    BY <1>1, <1>2, <2>1
  <2>3. ResultOf(c, d, i)'
    BY <1>2, <2>1, <2>2, ResultOfStays
  <2>4. QED
    BY <2>1, <2>3 DEF ResultOf
<1>3. QED
  BY <1>2 DEF ContentIsWholeResult, ResultOf, Unchanged1

-----------------------------------------------------------------------------
(***************************************************************************)
(* The invariant, and what it shows.                                       *)
(***************************************************************************)

\* An empty queue, no process and untouched documents.
LEMMA ServiceInvInit == ServiceInit => ServiceInv
<1> SUFFICES ASSUME ServiceInit
             PROVE  ServiceInv
  OBVIOUS
<1> USE DEF ServiceInit, ClaimedInit
<1>1. Init /\ SafeInv /\ TypeOK
  BY SafeInit, TypeInit
<1>2. 0 \notin JobIds
  BY BoundAssumption DEF JobIds
<1>3. ServiceTypeOK
  <2>1. content \in [Docs -> Results]
    BY NativeTyped
  <2>2. budget \in [Bounded -> Nat]
    BY BudgetAssumption
  <2>3. /\ up \in Owners \cup {None} /\ born \subseteq Owners /\ contract \in Contracts
        /\ capability \in {"direct", "images", "unknown"}
        /\ pc \in Pcs /\ job \in JobIds \cup {0}
        /\ seen \in Checksums \cup {None} /\ seenTags \subseteq Tags
    BY DEF Pcs
  <2>6. att \in 0..MaxAttempts
    BY BoundAssumption
  <2>7. stopping \in BOOLEAN
    OBVIOUS
  <2>4. tags \in [Docs -> SUBSET Tags] /\ admitted \in [JobIds -> Nat] /\ source \in [Docs -> Checksums]
    OBVIOUS
  <2>5. pc \notin WorkerPcs \cup FinalizerPcs \cup SettlingPcs
    BY DEF WorkerPcs, FinalizerPcs, SettlingPcs
  <2>8. QED
    BY <1>1, <2>1, <2>2, <2>3, <2>4, <2>5, <2>6, <2>7 DEF ServiceTypeOK, ClaimedTypeOK
<1>4. LocalInv
  BY BudgetAssumption DEF LocalInv, FetchedPcs
<1>5. ClaimInv
  BY DEF ClaimInv, OwnPcs, WorkerPcs, FinalizerPcs, SettlingPcs
<1>6. RowInv /\ DispatchInv /\ NoFaultInv
  BY <1>1 DEF Init, RowInv, DispatchInv, NoFaultInv, FailureStages, Recorded
<1>7. FinalizerInv /\ ResultInv /\ TagInv
  BY <1>1 DEF Init, FinalizerInv, ResultInv, TagInv, SuccessStages
<1>8. NoChangeInv /\ VersionInv
  BY <1>1 DEF Init, NoChangeInv, VersionInv, FetchedPcs, SuccessStages, Recorded
<1>9. ContentIsWholeResult
  BY DEF ContentIsWholeResult
<1>10. QED
  BY <1>1, <1>3, <1>4, <1>5, <1>6, <1>7, <1>8, <1>9 DEF ServiceInv

\* Every step of the service keeps the invariant, part by part.
LEMMA ServiceInvNext == ServiceInv /\ [ServiceNext]_allVars => ServiceInv'
<1> SUFFICES ASSUME ServiceInv, [ServiceNext]_allVars
             PROVE  ServiceInv'
  OBVIOUS
<1> USE DEF ServiceInv
<1>1. [Next]_vars
  BY ServiceIsQueueStep
<1>2. SafeInv'
  BY <1>1, SafeNext
<1>3. ServiceTypeOK' /\ LocalInv'
  BY ServiceTypeNext DEF SafeInv
<1>4. RowInv' /\ ClaimInv'
  BY <1>1, RowInvNext, ClaimInvNext
<1>5. DispatchInv' /\ FinalizerInv'
  BY ServiceFinStep, DispatchInvNext, FinalizerInvNext
<1>6. ResultInv' /\ NoFaultInv'
  BY ResultInvNext, NoFaultInvNext
<1>7. TagInv' /\ NoChangeInv'
  BY TagInvNext, NoChangeInvNext
<1>8. VersionInv' /\ ContentIsWholeResult'
  BY VersionInvNext, ContentNext
<1>9. QED
  BY <1>2, <1>3, <1>4, <1>5, <1>6, <1>7, <1>8

\* The invariant holds in every state of the service.
THEOREM ServiceSafety == ServiceSpec => []ServiceInv
BY ServiceInvInit, ServiceInvNext, PTL DEF ServiceSpec

\* The process, its claim and the other systems keep their types, whatever the
\* number of documents, jobs, attempts and faults.
THEOREM ServiceTypes == ServiceSpec => []ServiceTypeOK
<1>1. ServiceInv => ServiceTypeOK
  BY DEF ServiceInv
<1>2. QED
  BY ServiceSafety, <1>1, PTL

\* The reservation stored before the request keeps Paperless AI from running twice
\* for a job, across any number of crashes, stalls, cancellations and retries.
THEOREM DispatchedOnce == ServiceSpec => []AtMostOneDispatch
<1>1. ServiceInv => AtMostOneDispatch
  BY DEF ServiceInv, DispatchInv, AtMostOneDispatch
<1>2. QED
  BY ServiceSafety, <1>1, PTL

\* settleShutdownClaim releases what the process claimed, unless it is the call that
\* fails; a failed call anywhere else leaves the claim to it.
THEOREM CleanExit == ServiceSpec => []CleanExitLeavesNoClaim
<1>1. ServiceInv => CleanExitLeavesNoClaim
  <2>1. 0 \notin JobIds
    BY BoundAssumption DEF JobIds
  <2>2. QED
    BY <2>1 DEF ServiceInv, LocalInv, NoFaultInv, NoFault, CleanExitLeavesNoClaim, NoActiveJob
<1>2. QED
  BY ServiceSafety, <1>1, PTL

\* What the finalizer writes into a document is one job's whole result.
THEOREM ContentWhole == ServiceSpec => []ContentIsWholeResult
<1>1. ServiceInv => ContentIsWholeResult
  BY DEF ServiceInv
<1>2. QED
  BY ServiceSafety, <1>1, PTL

\* ai-ocr-failed is on a document only if a failure of a job for it is recorded.
THEOREM FailedTagCaused == ServiceSpec => []FailedTagHasCause
<1>1. ServiceInv => FailedTagHasCause
  BY DEF ServiceInv, TagInv, Cause, FailedTagHasCause, TerminalFailure
<1>2. QED
  BY ServiceSafety, <1>1, PTL

\* The service is a client the queue's specification allows, so that what is proved
\* of the queue for any caller holds of the queue of the service.
THEOREM ServiceUsesQueue == ServiceSpec => Spec
<1>1. ServiceInit => Init
  BY DEF ServiceInit
<1>2. ServiceInv /\ [ServiceNext]_allVars => [Next]_vars
  BY ServiceIsQueueStep DEF ServiceInv
<1>3. QED
  BY ServiceSafety, <1>1, <1>2, PTL DEF ServiceSpec, Spec

\* A step that takes a tag of somebody else off a document did not read it.
LEMMA OthersTagStep ==
    ASSUME ServiceInv, [ServiceNext]_allVars, NEW d \in Docs, "other" \in tags[d] \ tags'[d]
    PROVE  "other" \notin seenTags
<1>t. tags \in [Docs -> SUBSET Tags]
  BY DEF ServiceInv, ServiceTypeOK, ClaimedTypeOK
<1>1. pc = "writeTags" /\ WriteTags
  <2>1. ASSUME NEW e \in Docs, ReplaceOriginal(e) \/ AddTag(e)
        PROVE  FALSE
    BY <1>t, <2>1 DEF ReplaceOriginal, AddTag
  <2>2. QED
    BY <2>1, ServiceDocStep DEF DocStep, docVars
<1>2. "other" \notin WantedTags(fin[job], seenTags)
  BY <1>t, <1>1 DEF WriteTags
<1>3. fin[job] \in TagStages
  BY <1>1 DEF ServiceInv, FinalizerInv
<1>4. QED
  BY <1>2, <1>3, WantedTagsIs DEF TagStages

\* mutateTag hands on every tag it read.
THEOREM OthersTagsSurvive == ServiceSpec => OthersTagsKept
<1>1. ServiceInv /\ [ServiceNext]_allVars =>
         [\A d \in Docs : "other" \in tags[d] \ tags'[d] => "other" \notin seenTags]_allVars
  BY OthersTagStep
<1>2. QED
  BY ServiceSafety, <1>1, PTL DEF ServiceSpec, OthersTagsKept

\* A run is admitted at "send", for the claimed job, whose effects are all recorded.
LEMMA DispatchStep ==
    ASSUME ServiceInv, [ServiceNext]_allVars, NEW i \in JobIds, admitted'[i] > admitted[i]
    PROVE  /\ i = job /\ pc = "send" /\ Admit /\ fin[i] = "failed_tag_removed"
<1>t. admitted \in [JobIds -> Nat]
  BY DEF ServiceInv, ServiceTypeOK, ClaimedTypeOK
<1>1. pc = "send" /\ Admit
  BY <1>t, ServiceDocStep DEF DocStep, docVars, ReplaceOriginal, AddTag
<1>2. i = job
  BY <1>t, <1>1 DEF Admit
<1>3. fin[i] = "failed_tag_removed"
  BY <1>1, <1>2 DEF ServiceInv, FinalizerInv
<1>4. QED
  BY <1>1, <1>2, <1>3

\* The dispatch comes after the effects it depends on.
THEOREM DispatchOnResult == ServiceSpec => DispatchSeesResult
<1>1. ASSUME ServiceInv, [ServiceNext]_allVars, NEW i \in JobIds, admitted'[i] > admitted[i],
             budget["change"] = Budget["change"]
      PROVE  /\ content[src[i].doc] = batches[i]
             /\ "complete" \in tags[src[i].doc] /\ "failed" \notin tags[src[i].doc]
  BY <1>1, DispatchStep DEF ServiceInv, NoChangeInv, SuccessStages, Recorded
<1>2. ServiceInv /\ [ServiceNext]_allVars =>
        [\A i \in JobIds : admitted'[i] > admitted[i] /\ budget["change"] = Budget["change"] =>
          /\ content[src[i].doc] = batches[i]
          /\ "complete" \in tags[src[i].doc] /\ "failed" \notin tags[src[i].doc]]_allVars
  BY <1>1
<1>3. QED
  BY ServiceSafety, <1>2, PTL DEF ServiceSpec, DispatchSeesResult

-----------------------------------------------------------------------------
(***************************************************************************)
(* The service implements Correction.                                      *)
(***************************************************************************)

\* What a step may do to the rows: end the claim at "complete" or "fail", insert a
\* row, or move rows among the states of current work; and then nothing else of what
\* JobPhase reads changes.
PhaseStep ==
    \/ UNCHANGED state
    \/ /\ UNCHANGED <<fin, failure, admitted>>
       /\ \/ \A i \in JobIds : \/ state'[i] = state[i]
                               \/ state[i] \in CurrentStates /\ state'[i] \in CurrentStates
          \/ pc = "complete" /\ Holds /\ state' = [state EXCEPT ![job] = "completed"]
          \/ pc = "fail" /\ Holds /\ state' = [state EXCEPT ![job] = "failed"]
          \/ \E i \in JobIds : state[i] = "absent" /\ state' = [state EXCEPT ![i] = "pending"]

\* Every step of the service is such a step.
LEMMA ServicePhaseStep ==
    ASSUME ServiceTypeOK, [ServiceNext]_allVars
    PROVE  PhaseStep
<1> USE DEF PhaseStep, jobRow, finRow, docVars, CurrentStates
<1>t. state \in [JobIds -> States]
  BY DEF ServiceTypeOK, TypeOK
<1>1. CASE Reschedule
  BY <1>t, <1>1 DEF Reschedule, Holds, ScheduleRetry, EndClaim, MayEnd, ActiveLease, vars
<1>2. CASE (WorkerStep /\ ~Reschedule) \/ (WorkerFault /\ ~TransitionFails)
  BY <1>2, StoreCallKeepsJobs DEF WorkerStep, WorkerFault, ContractChanged, FailureAlreadyRecorded,
     ReconstructResult, StartOcr, Fetch, Download, TranscribeDirect, CheckpointDirect, PlanImages,
     TranscribeBatch, JoinBatches, RecordFailure, FallBackToImages, WorkerCallFails,
     DocumentDeadline, WorkerStoreFails, EnsurePlan, EnsureBatches, CheckpointBatch,
     RecordTerminalFailure, vars
<1>12. CASE TransitionFails
  <2>1. CASE UNCHANGED vars \/ RecordTerminalFailure(job, att, up)
    BY <2>1 DEF RecordTerminalFailure, vars
  <2>2. CASE ScheduleRetry(job, att, up, MaxDelay)
    BY <1>t, <1>12, <2>2, FailedTransition DEF ScheduleRetry, EndClaim, MayEnd, ActiveLease
  <2>3. CASE pc = "complete" /\ Complete(job, att, up)
    BY <1>12, <2>3, FailedTransition DEF Complete, EndClaim, MayEnd, Holds
  <2>4. CASE pc = "fail" /\ Fail(job, att, up)
    BY <1>12, <2>4, FailedTransition DEF Fail, EndClaim, MayEnd, Holds
  <2>5. QED
    BY <1>12, <2>1, <2>2, <2>3, <2>4, FailedTransition
<1>3. CASE CompleteJob \/ FailJob
  BY <1>3 DEF CompleteJob, FailJob, Complete, Fail, EndClaim, vars
<1>4. CASE (FinalizerStep /\ ~CompleteJob /\ ~FailJob) \/ (FinalizerFault /\ ~FinalizerStoreFails)
  BY <1>4 DEF FinalizerStep, AcquireSuccess, Verify, UpdateContent, ReadTags, UpdateTags, Advance,
     ReserveDispatch, DispatchAccepted, ConfirmDispatch, ResetDispatch,
     AcquireFailure, FinalizerFault, DispatchRefused, DispatchAmbiguous, FinalizerCallFails,
     AcquireFinalization, AdvanceFinalization, SetDispatchState, vars
<1>5. CASE Cancelled \/ FinalizerStoreFails
  BY <1>5, StoreCallKeepsJobs DEF Cancelled, FinalizerStoreFails, vars
<1>6. CASE Exit \/ SettlementFails
  <2>1. UNCHANGED <<vars, docVars>> \/ (Release(job, att, up) /\ UNCHANGED docVars)
    BY <1>6 DEF Exit, SettlementFails, SettleShutdownClaim, ProcessEnds
  <2>2. QED
    BY <1>t, <2>1 DEF Release, EndClaim, MayEnd, ActiveLease, vars
<1>7. CASE ClaimJob \/ ClaimFails
  <2>1. UNCHANGED docVars /\ (UNCHANGED vars \/ \E i \in JobIds : Claim(i, up))
    BY <1>7 DEF ClaimJob, ClaimFails
  <2>2. QED
    BY <1>t, <2>1 DEF Claim, ClaimNext, Due, vars
<1>8. CASE Initialize \/ StartupFails \/ RecoveryFails
  BY <1>t, <1>8 DEF Initialize, StartupFails, RecoveryFails, Recover, RecoverExpiredLeases, Expired, vars
<1>9. ASSUME NEW d \in Docs, NEW p \in Priorities, Intake(d, p)
      PROVE  PhaseStep
  BY <1>9 DEF Intake, EnqueueNew, EnqueueExisting
<1>10. CASE \/ Classify \/ Outcome \/ LoopEnds \/ LeaseLost \/ Start \/ Stop \/ Crash
            \/ Beat \/ ServiceTick \/ Stall \/ LookupFails \/ Reconfigure
            \/ \E d \in Docs : ReplaceOriginal(d) \/ AddTag(d)
            \/ UNCHANGED allVars
  BY <1>10 DEF Classify, Outcome, LoopEnds, LeaseLost, Start, Stop, Crash, LookupFails, Reconfigure,
     Beat, Heartbeat, HeartbeatAdmission,
     RenewLease, RenewFinalization, ServiceTick, Stall, Tick, ReplaceOriginal, AddTag, allVars, vars
<1>11. QED
  BY <1>1, <1>2, <1>3, <1>4, <1>5, <1>6, <1>7, <1>8, <1>9, <1>10, <1>12
     DEF ServiceNext, ProcessStep, Fault

\* A row whose stage, failure and admitted runs do not change its phase keeps it.
LEMMA PhaseKept ==
    ASSUME NEW i \in JobIds, state'[i] = state[i] \/ {state[i], state'[i]} \subseteq CurrentStates,
           failure'[i] <=> failure[i], admitted'[i] = admitted[i],
           failure[i] \/ (fin'[i] \in SuccessStages <=> fin[i] \in SuccessStages)
    PROVE  JobPhase'[i] = JobPhase[i]
BY DEF JobPhase, OpenPhase, TerminalFailure, SuccessFinalizationStarted, CurrentStates, TerminalStates

\* A failure, a success stage and an admitted run agree.
LEMMA PhasesAgree ==
    ASSUME ServiceInv, NEW i \in JobIds
    PROVE  /\ failure[i] => fin[i] \in FailureStages /\ admitted[i] = 0
           /\ fin[i] \notin Recorded => admitted[i] = 0
           /\ fin[i] = "metadata_dispatched" => admitted[i] = 1 /\ ~failure[i]
BY DEF ServiceInv, DispatchInv, SafeInv, FailureExcludesSuccess, TerminalFailure, FailureStages, Recorded

\* One row moves to another phase, and the others keep theirs.
LEMMA PhaseMoves ==
    ASSUME NEW i \in JobIds, NEW from, NEW to, JobPhase[i] \in from, JobPhase'[i] = to,
           \A j \in JobIds \ {i} : JobPhase'[j] = JobPhase[j]
    PROVE  Promise!Move(i, from, to)
<1>1. JobPhase' = [JobPhase EXCEPT ![i] = to]
  <2>1. JobPhase = [j \in JobIds |-> JobPhase[j]] /\ JobPhase' = [j \in JobIds |-> JobPhase'[j]]
    BY DEF JobPhase
  <2>2. QED
    BY <2>1
<1>2. QED
  BY <1>1 DEF Promise!Move

\* If no row changes its phase and nothing is admitted, Correction stutters.
LEMMA PhasesKept ==
    ASSUME \A j \in JobIds : JobPhase'[j] = JobPhase[j], UNCHANGED admitted
    PROVE  UNCHANGED Promise!jobVars
<1>1. JobPhase = [j \in JobIds |-> JobPhase[j]] /\ JobPhase' = [j \in JobIds |-> JobPhase'[j]]
  BY DEF JobPhase
<1>2. JobPhase' = JobPhase
  BY <1>1
<1>3. QED
  BY <1>2 DEF Promise!jobVars

\* A step that leaves the states alone: an effect is recorded, a failure is
\* recorded, or a run is admitted.
LEMMA RecordingStep ==
    ASSUME ServiceInv, FinStep, UNCHANGED state
    PROVE  [Promise!CorrectionNext]_(Promise!jobVars)
<1> USE DEF finRow
<1>t. /\ fin \in [JobIds -> {"absent"} \cup Stages] /\ failure \in [JobIds -> BOOLEAN]
      /\ admitted \in [JobIds -> Nat] /\ dispatch \in [JobIds -> DispatchStates]
  BY DEF ServiceInv, ServiceTypeOK, ClaimedTypeOK, TypeOK
<1>j. pc \in FinalizerPcs \cup SettlingPcs => job \in JobIds
  BY ClaimHeld DEF ServiceInv
<1>1. CASE UNCHANGED <<fin, dispatch, failure, admitted>>
  BY <1>1, PhaseKept, PhasesKept
<1>2. CASE pc = "send" /\ Admit /\ UNCHANGED <<fin, dispatch, failure>>
  <2>1. /\ job \in JobIds /\ state[job] = "processing" /\ fin[job] = "failed_tag_removed"
        /\ admitted[job] = 0
    BY <1>2, <1>j DEF ServiceInv, ClaimInv, OwnPcs, FinalizerInv, FinalizerPcs
  <2>2. ~failure[job]
    BY <2>1, PhasesAgree DEF FailureStages
  <2>3. JobPhase[job] = "corrected"
    BY <2>1, <2>2 DEF JobPhase, OpenPhase, TerminalFailure, SuccessFinalizationStarted, TerminalStates,
                      SuccessStages
  <2>4. admitted' = [admitted EXCEPT ![job] = @ + 1] /\ admitted'[job] = 1
    BY <1>2, <1>t, <2>1 DEF Admit
  <2>5. JobPhase'[job] = "dispatched"
    BY <1>2, <2>1, <2>2, <2>4 DEF JobPhase, OpenPhase, TerminalFailure, TerminalStates
  <2>6. \A j \in JobIds \ {job} : JobPhase'[j] = JobPhase[j]
    BY <1>2, <1>t, <2>4, PhaseKept
  <2>7. Promise!Dispatch(job)
    BY <2>1, <2>3, <2>4, <2>5, <2>6, PhaseMoves DEF Promise!Dispatch
  <2>8. QED
    BY <2>1, <2>7 DEF Promise!CorrectionNext
<1>3. CASE pc = "record" /\ RecordTerminalFailure(job, att, up) /\ UNCHANGED admitted
  <2>1. job \in JobIds /\ state[job] = "processing" /\ fin[job] \notin SuccessStages
    BY <1>3, <1>j DEF RecordTerminalFailure, ActiveLease, MayRecordFailure, SuccessStages, SettlingPcs
  <2>2. failure' = [failure EXCEPT ![job] = TRUE] /\ \A j \in JobIds \ {job} : fin'[j] = fin[j]
    BY <1>3, <1>t DEF RecordTerminalFailure
  <2>3. \A j \in JobIds \ {job} : JobPhase'[j] = JobPhase[j]
    BY <1>3, <1>t, <2>2, PhaseKept
  <2>4. CASE failure[job]
    <3>1. JobPhase'[job] = JobPhase[job]
      BY <1>3, <1>t, <2>1, <2>2, <2>4, PhaseKept
    <3>2. QED
      BY <1>3, <2>3, <3>1, PhasesKept
  <2>5. CASE ~failure[job]
    <3>1. admitted[job] = 0
      BY <2>1, PhasesAgree DEF Recorded, SuccessStages
    <3>2. JobPhase[job] = "accepted"
      BY <2>1, <2>5, <3>1 DEF JobPhase, OpenPhase, TerminalFailure, SuccessFinalizationStarted,
                              TerminalStates
    <3>3. JobPhase'[job] = "condemned"
      BY <1>t, <2>1, <2>2 DEF JobPhase, OpenPhase, TerminalFailure, TerminalStates
    <3>4. Promise!Condemn(job)
      BY <1>3, <2>1, <2>3, <3>2, <3>3, PhaseMoves DEF Promise!Condemn
    <3>5. QED
      BY <2>1, <3>4 DEF Promise!CorrectionNext
  <2>6. QED
    BY <2>4, <2>5
<1>4. CASE FinalizerStoreCall /\ UNCHANGED admitted
  <2>0. job \in JobIds
    BY <1>4, <1>j DEF FinalizerStoreCall, FinalizerPcs
  <2>1. CASE \E t \in Tokens : AcquireFinalization(job, att, up, t)
    <3>1. \A j \in JobIds : failure'[j] = failure[j] /\ (fin'[j] \in SuccessStages <=> fin[j] \in SuccessStages)
      BY <1>t, <2>0, <2>1 DEF AcquireFinalization, SuccessStages
    <3>2. QED
      BY <1>4, <3>1, PhaseKept, PhasesKept
  <2>2. CASE pc = "advance" /\ AdvanceFinalization(job, att, up, Token, fin[job], NextStage(fin[job]))
    <3>1. /\ fin' = [fin EXCEPT ![job] = NextStage(fin[job])] /\ UNCHANGED failure
          /\ state[job] = "processing"
      BY <2>2 DEF AdvanceFinalization, Admitted, ActiveLease
    <3>2. \A j \in JobIds \ {job} : JobPhase'[j] = JobPhase[j]
      BY <1>4, <1>t, <3>1, PhaseKept
    <3>3. CASE fin[job] = "pending"
      <4>1. admitted[job] = 0 /\ ~failure[job]
        BY <2>0, <3>3, PhasesAgree DEF Recorded, FailureStages
      <4>2. fin'[job] = "content_updated"
        BY <1>t, <2>0, <3>1, <3>3, NextStageIs
      <4>3. JobPhase[job] = "accepted" /\ JobPhase'[job] = "corrected"
        BY <1>4, <2>0, <3>1, <3>3, <4>1, <4>2 DEF JobPhase, OpenPhase, TerminalFailure, TerminalStates,
           SuccessFinalizationStarted, SuccessStages
      <4>4. Promise!Correct(job)
        BY <1>4, <2>0, <3>2, <4>3, PhaseMoves DEF Promise!Correct
      <4>5. QED
        BY <2>0, <4>4 DEF Promise!CorrectionNext
    <3>4. CASE fin[job] # "pending"
      <4>1. \/ fin[job] \in SuccessStages /\ fin'[job] \in SuccessStages
            \/ fin[job] = "failure_pending" /\ fin'[job] = "failure_tag_added"
        BY <1>t, <2>0, <2>2, <3>1, <3>4, AdvanceMoves DEF ServiceInv, SuccessStages
      <4>2. JobPhase'[job] = JobPhase[job]
        BY <1>4, <2>0, <3>1, <4>1, PhaseKept DEF SuccessStages
      <4>3. QED
        BY <1>4, <3>2, <4>2, PhasesKept
    <3>5. QED
      BY <3>3, <3>4
  <2>3. CASE UNCHANGED <<fin, failure>>
    BY <1>4, <2>3, PhaseKept, PhasesKept
  <2>4. QED
    BY <1>4, <2>1, <2>2, <2>3 DEF FinalizerStoreCall, SetDispatchState
<1>5. QED
  BY <1>1, <1>2, <1>3, <1>4 DEF FinStep

\* Every step of the service is a step of Correction, or none.
LEMMA CorrectionStep ==
    ASSUME ServiceInv, [ServiceNext]_allVars
    PROVE  [Promise!CorrectionNext]_(Promise!jobVars)
<1>t. state \in [JobIds -> States]
  BY DEF ServiceInv, ServiceTypeOK, TypeOK
<1>1. CASE UNCHANGED state
  BY <1>1, ServiceFinStep, RecordingStep
<1>2. CASE /\ UNCHANGED <<fin, failure, admitted>>
           /\ \A i \in JobIds : \/ state'[i] = state[i]
                                \/ state[i] \in CurrentStates /\ state'[i] \in CurrentStates
  BY <1>2, PhaseKept, PhasesKept
<1>3. CASE /\ pc = "complete" /\ Holds /\ state' = [state EXCEPT ![job] = "completed"]
           /\ UNCHANGED <<fin, failure, admitted>>
  <2>1. job \in JobIds /\ state[job] = "processing" /\ fin[job] = "metadata_dispatched"
    BY <1>3, ClaimHeld DEF ServiceInv, FinalizerInv, Holds, ActiveLease, SettlingPcs
  <2>2. admitted[job] = 1 /\ ~failure[job]
    BY <2>1, PhasesAgree
  <2>3. JobPhase[job] = "dispatched" /\ JobPhase'[job] = "completed"
    BY <1>3, <1>t, <2>1, <2>2 DEF JobPhase, OpenPhase, TerminalFailure, TerminalStates
  <2>4. \A j \in JobIds \ {job} : JobPhase'[j] = JobPhase[j]
    BY <1>3, <1>t, PhaseKept
  <2>5. Promise!CompleteCorrection(job)
    BY <1>3, <2>1, <2>3, <2>4, PhaseMoves DEF Promise!CompleteCorrection
  <2>6. QED
    BY <2>1, <2>5 DEF Promise!CorrectionNext
<1>4. CASE /\ pc = "fail" /\ Holds /\ state' = [state EXCEPT ![job] = "failed"]
           /\ UNCHANGED <<fin, failure, admitted>>
  <2>1. job \in JobIds /\ state[job] = "processing"
    BY <1>4, ClaimHeld DEF ServiceInv, Holds, ActiveLease, SettlingPcs
  <2>2. JobPhase[job] \in Promise!Open /\ JobPhase'[job] = "failed"
    BY <1>4, <1>t, <2>1 DEF JobPhase, OpenPhase, TerminalStates, Promise!Open
  <2>3. \A j \in JobIds \ {job} : JobPhase'[j] = JobPhase[j]
    BY <1>4, <1>t, PhaseKept
  <2>4. Promise!FailCorrection(job)
    BY <1>4, <2>1, <2>2, <2>3, PhaseMoves DEF Promise!FailCorrection
  <2>5. QED
    BY <2>1, <2>4 DEF Promise!CorrectionNext
<1>5. ASSUME NEW i \in JobIds, state[i] = "absent", state' = [state EXCEPT ![i] = "pending"],
             UNCHANGED <<fin, failure, admitted>>
      PROVE  Promise!CorrectionNext
  <2>1. fin[i] = "absent" /\ ~failure[i]
    BY <1>5 DEF ServiceInv, RowInv
  <2>2. admitted[i] = 0
    BY <2>1, PhasesAgree DEF Recorded
  <2>3. JobPhase[i] = "unknown" /\ JobPhase'[i] = "accepted"
    BY <1>5, <1>t, <2>1, <2>2 DEF JobPhase, OpenPhase, TerminalFailure, TerminalStates,
       SuccessFinalizationStarted, SuccessStages
  <2>4. \A j \in JobIds \ {i} : JobPhase'[j] = JobPhase[j]
    BY <1>5, <1>t, PhaseKept
  <2>5. Promise!Accept(i)
    BY <1>5, <2>3, <2>4, PhaseMoves DEF Promise!Accept
  <2>6. QED
    BY <2>5 DEF Promise!CorrectionNext
<1>6. QED
  BY <1>1, <1>2, <1>3, <1>4, <1>5, ServicePhaseStep DEF PhaseStep, ServiceInv

\* The service implements Correction: a job is corrected, dispatched once and
\* completed, in this order, or fails, for any number of jobs and faults.
THEOREM ServiceCorrects == ServiceSpec => ImplementsCorrection
<1>1. ServiceInit => Promise!CorrectionInit
  BY DEF ServiceInit, ClaimedInit, Init, JobPhase, Promise!CorrectionInit
<1>2. ServiceInv /\ [ServiceNext]_allVars => [Promise!CorrectionNext]_(Promise!jobVars)
  BY CorrectionStep
<1>3. QED
  BY ServiceSafety, <1>1, <1>2, PTL DEF ServiceSpec, ImplementsCorrection, Promise!CorrectionSpec
-----------------------------------------------------------------------------
(***************************************************************************)
(* How far the findings go: what the code does keep of the sentences that  *)
(* the failing runs contradict.                                            *)
(***************************************************************************)

\* Before the recovery of a process that waited, no lease is live; after it, and until
\* the process ends, no row is processing but the one its loop names.
OrphanInv ==
    ~PromptRestart =>
        /\ pc = "start" => \A i \in JobIds : leaseLeft[i] = 0
        /\ pc \notin {"down", "start", "exit"} => \A i \in JobIds : state[i] = "processing" => i = job

\* Every step keeps the running process the only holder of a claim.
LEMMA OrphanNext ==
    ASSUME ServiceInv, OrphanInv, [ServiceNext]_allVars
    PROVE  OrphanInv'
<1> USE DEF jobRow, timers, procVars, claimVars, Goto
<1>t. TypeOK
  BY DEF ServiceInv, ServiceTypeOK
<1>0. /\ pc \in WorkerPcs \cup FinalizerPcs \cup SettlingPcs => job \in JobIds /\ job # 0
      /\ pc = "start" => job = 0
  BY DEF ServiceInv, ServiceTypeOK, ClaimedTypeOK, LocalInv
<1> SUFFICES ASSUME ~PromptRestart
             PROVE  /\ pc' = "start" => \A i \in JobIds : leaseLeft'[i] = 0
                    /\ pc' \notin {"down", "start", "exit"} =>
                          \A i \in JobIds : state'[i] = "processing" => i = job'
  BY DEF OrphanInv
<1>h. /\ pc = "start" => \A i \in JobIds : leaseLeft[i] = 0
      /\ pc \notin {"down", "start", "exit"} => \A i \in JobIds : state[i] = "processing" => i = job
  BY DEF OrphanInv
<1>1. CASE WorkerStep \/ (WorkerFault /\ ~TransitionFails)
  <2>1. pc \in WorkerPcs \cup SettlingPcs /\ pc' # "start" /\ job' = job
    BY <1>1 DEF WorkerStep, WorkerFault, ContractChanged, FailureAlreadyRecorded,
       ReconstructResult, StartOcr, Fetch, Download, TranscribeDirect, CheckpointDirect, PlanImages,
       TranscribeBatch, JoinBatches, Reschedule, RecordFailure, FallBackToImages, WorkerCallFails,
       DocumentDeadline, WorkerStoreFails, Interruptible, InterruptedAt, FailedStoreCallAt, EnsurePlan,
       Working, WorkerPcs, SettlingPcs
  <2>2. state' = state \/ state' = [state EXCEPT ![job] = "retry"]
    BY <1>1, StoreCallKeepsJobs DEF WorkerStep, WorkerFault, ContractChanged, FailureAlreadyRecorded,
       ReconstructResult, StartOcr, Fetch, Download, TranscribeDirect, CheckpointDirect, PlanImages,
       TranscribeBatch, JoinBatches, Reschedule, RecordFailure, FallBackToImages, WorkerCallFails,
       DocumentDeadline, WorkerStoreFails, EnsurePlan, EnsureBatches, CheckpointBatch,
       RecordTerminalFailure, ScheduleRetry, EndClaim, vars
  <2>3. QED
    BY <1>t, <1>h, <2>1, <2>2 DEF TypeOK, WorkerPcs, SettlingPcs
<1>13. CASE TransitionFails
  <2>1. /\ pc \in SettlingPcs /\ pc' # "start" /\ job' = job
        /\ UNCHANGED state \/ \E s \in {"retry", "completed", "failed"} : state' = [state EXCEPT ![job] = s]
    BY <1>13, FailedTransition DEF RecordTerminalFailure, ScheduleRetry, Complete, Fail, EndClaim,
       SettlingPcs, vars
  <2>2. QED
    BY <1>t, <1>h, <2>1 DEF TypeOK, SettlingPcs
<1>2. CASE FinalizerStep \/ FinalizerFault \/ Cancelled \/ LeaseLost \/ Classify
  <2>1. pc \in WorkerPcs \cup FinalizerPcs \cup SettlingPcs /\ job' = job
    <3>1. CASE FinalizerStep \/ FinalizerFault
      BY <3>1, FailedFinalizerCall
         DEF FinalizerStep, AcquireSuccess, Verify, UpdateContent, ReadTags, UpdateTags, Advance,
         ReserveDispatch, DispatchAccepted, ConfirmDispatch, ResetDispatch, CompleteJob, FailJob,
         AcquireFailure, FinalizerFault, DispatchRefused, DispatchAmbiguous, FinalizerCallFails,
         Finalizing, FinalizingAdmitted, FinalizerPcs, SettlingPcs
    <3>2. QED
      BY <1>2, <3>1 DEF Cancelled, Interruptible, FinalizerAtWork, EndsFailOCR, LeaseLost, Classify,
         FinalizerPcs, SettlingPcs
  <2>2. \A i \in JobIds : state'[i] = "processing" => state[i] = "processing"
    <3>1. CASE FinalizerStep \/ FinalizerFault
      <4>1. \/ state' = state
            \/ state' = [state EXCEPT ![job] = "completed"] \/ state' = [state EXCEPT ![job] = "failed"]
        BY <3>1, FailedFinalizerCall, StoreCallKeepsJobs
           DEF FinalizerStep, AcquireSuccess, Verify, UpdateContent, ReadTags, UpdateTags, Advance,
           ReserveDispatch, DispatchAccepted, ConfirmDispatch, ResetDispatch, CompleteJob, FailJob,
           AcquireFailure, FinalizerFault, DispatchRefused, DispatchAmbiguous, FinalizerCallFails,
           AcquireFinalization, AdvanceFinalization, SetDispatchState, Complete, Fail, EndClaim, vars
      <4>2. QED
        BY <1>t, <4>1 DEF TypeOK
    <3>2. QED
      BY <1>2, <3>1, StoreCallKeepsJobs DEF Cancelled, LeaseLost, Classify, vars
  <2>3. pc' # "start"
    <3>1. CASE FinalizerStep \/ FinalizerFault
      <4>1. Control'
        BY ServiceControl DEF ServiceInv, SafeInv
      <4>2. job # 0 /\ job' # 0
        BY <1>0, <2>1
      <4>3. QED
        BY <4>1, <4>2 DEF Control
    <3>2. QED
      BY <1>2, <3>1 DEF Cancelled, InterruptedAt, AfterAmbiguousDispatch, LeaseLost, Classify
  <2>4. QED
    BY <1>h, <2>1, <2>2, <2>3 DEF WorkerPcs, FinalizerPcs, SettlingPcs
<1>3. CASE Initialize \/ StartupFails
  <2>1. pc = "start" /\ pc' # "start"
    BY <1>3 DEF Initialize, StartupFails
  <2>2. \A i \in JobIds : state'[i] # "processing"
    BY <1>3, <1>t, <1>h, <2>1 DEF Initialize, StartupFails, Recover, RecoverExpiredLeases, Expired, vars, TypeOK
  <2>3. QED
    BY <2>1, <2>2
<1>4. CASE Start
  BY <1>4 DEF Start, vars
<1>5. CASE ClaimJob
  <2>1. PICK j \in JobIds : Claim(j, up) /\ job' = j
    BY <1>5 DEF ClaimJob
  <2>2. QED
    BY <1>5, <1>t, <2>1 DEF ClaimJob, Claim, NoActiveJob, TypeOK
<1>6. CASE Outcome \/ LoopEnds
  BY <1>6, <1>h DEF Outcome, Settled, LoopEnds, vars
<1>7. CASE Exit \/ Crash \/ SettlementFails \/ RecoveryFails \/ ClaimFails \/ Reconfigure
  BY <1>7 DEF Exit, Crash, SettlementFails, RecoveryFails, ClaimFails, Reconfigure, ProcessEnds
<1>14. CASE LookupFails
  BY <1>14, <1>h DEF LookupFails, vars
<1>8. CASE ServiceTick \/ Stall
  BY <1>8, <1>h DEF ServiceTick, Stall, Tick, Elapse, serviceRest
<1>9. CASE Beat
  BY <1>9, <1>h, <1>0 DEF Beat, Heartbeat, HeartbeatAdmission, Beating, RenewLease, RenewFinalization,
     serviceRest, WorkerPcs, FinalizerPcs
<1>10. ASSUME NEW d \in Docs, NEW p \in Priorities, Intake(d, p)
       PROVE  /\ pc' = "start" => \A i \in JobIds : leaseLeft'[i] = 0
              /\ pc' \notin {"down", "start", "exit"} =>
                    \A i \in JobIds : state'[i] = "processing" => i = job'
  BY <1>10, <1>t, <1>h DEF Intake, EnqueueNew, EnqueueExisting, TypeOK
<1>11. CASE Stop \/ (\E d \in Docs : ReplaceOriginal(d) \/ AddTag(d)) \/ UNCHANGED allVars
  BY <1>11, <1>h DEF Stop, ReplaceOriginal, AddTag, allVars, vars
<1>12. QED
  BY <1>1, <1>2, <1>3, <1>4, <1>5, <1>6, <1>7, <1>8, <1>9, <1>10, <1>11, <1>13, <1>14
     DEF ServiceNext, ProcessStep, Fault

\* A process that waited for its predecessor's lease finds no job orphaned.
THEOREM WaitingLeavesNoOrphan == ServiceSpec => []NoOrphanedClaim
<1>1. ServiceInit => OrphanInv
  BY DEF ServiceInit, ClaimedInit, OrphanInv
<1>2. ServiceInv /\ OrphanInv => NoOrphanedClaim
  <2>1. 0 \notin JobIds
    BY BoundAssumption DEF JobIds
  <2>2. QED
    BY <2>1 DEF ServiceInv, ClaimInv, OrphanInv, NoOrphanedClaim, OrphanedClaim
<1>3. QED
  BY ServiceSafety, OrphanNext, <1>1, <1>2, PTL DEF ServiceSpec

\* The two halves of StaleOnlyByRace, for a step.
LEMMA StaleStep ==
    ASSUME ServiceInv, [ServiceNext]_allVars
    PROVE  /\ \A d \in Docs : content'[d] # content[d] /\ content'[d] # Native => pc = "content" /\ d = Doc
           /\ (pc = "content" /\ source[Doc] # src[job].sum)' =>
                 /\ pc = "content" /\ job' = job
                 /\ source[Doc] # src[job].sum \/ ReplaceOriginal(Doc)
<1>t. source \in [Docs -> Checksums] /\ content \in [Docs -> Results]
  BY DEF ServiceInv, ServiceTypeOK, ClaimedTypeOK
<1>1. ASSUME NEW d \in Docs, content'[d] # content[d], content'[d] # Native
      PROVE  pc = "content" /\ d = Doc
  <2>1. ASSUME NEW e \in Docs, ReplaceOriginal(e) \/ AddTag(e)
        PROVE  FALSE
    BY <1>t, <1>1, <2>1 DEF ReplaceOriginal, AddTag
  <2>2. pc = "content" /\ WriteContent
    BY <1>1, <2>1, ServiceDocStep DEF DocStep, docVars
  <2>3. QED
    BY <1>t, <1>1, <2>2 DEF WriteContent
<1>2. ASSUME pc' = "content", source'[src'[job'].doc] # src'[job'].sum
      PROVE  /\ pc = "content" /\ job' = job
             /\ source[Doc] # src[job].sum \/ ReplaceOriginal(Doc)
  <2>1. Verify \/ Stays
    BY <1>2, ComesFrom DEF ServiceInv
  <2>2. CASE Verify
    <3>1. UNCHANGED <<source, src, job>>
      BY <2>2 DEF Verify, Goto, vars, jobRow, docVars, claimVars
    <3>2. source[Doc] = src[job].sum
      BY <1>2, <2>2, VerifyLeads DEF Verify, Goto
    <3>3. QED
      BY <1>2, <3>1, <3>2 DEF Doc
  <2>3. CASE Stays
    <3>1. UNCHANGED <<pc, job>>
      BY <2>3, StaysPut
    <3>2. job \in JobIds /\ state[job] # "absent" /\ Doc \in Docs
      BY <1>2, <3>1, DocOfClaim DEF ServiceInv, FinalizerPcs
    <3>3. src'[job] = src[job]
      BY <3>2, ServiceIsQueueStep, RowStepNext DEF ServiceInv, RowStep
    <3>4. CASE \E d \in Docs : ReplaceOriginal(d)
      <4>1. PICK d \in Docs : ReplaceOriginal(d)
        BY <3>4
      <4>2. d # Doc => source'[Doc] = source[Doc]
        BY <1>t, <3>2, <4>1 DEF ReplaceOriginal
      <4>3. QED
        BY <1>2, <3>1, <3>3, <4>1, <4>2 DEF Doc
    <3>5. CASE source' = source
      BY <1>2, <3>1, <3>3, <3>5 DEF Doc
    <3>6. source' = source \/ \E d \in Docs : ReplaceOriginal(d)
      BY <2>3 DEF Stays, Beat, Heartbeat, HeartbeatAdmission, ServiceTick, Stall, Stop, AddTag, Intake,
         allVars, serviceRest, docVars
    <3>7. QED
      BY <3>4, <3>5, <3>6
  <2>4. QED
    BY <2>1, <2>2, <2>3
<1>3. QED
  BY <1>1, <1>2 DEF Doc

\* What is left of "A source checksum change prevents stale OCR from being written".
THEOREM StaleWriteNeedsRace == ServiceSpec => StaleOnlyByRace
<1>1. ServiceInv /\ [ServiceNext]_allVars =>
        [/\ \A d \in Docs : content'[d] # content[d] /\ content'[d] # Native => pc = "content" /\ d = Doc
         /\ (pc = "content" /\ source[Doc] # src[job].sum)' =>
               /\ pc = "content" /\ job' = job
               /\ source[Doc] # src[job].sum \/ ReplaceOriginal(Doc)]_allVars
  BY StaleStep
<1>2. QED
  BY ServiceSafety, <1>1, PTL DEF ServiceSpec, StaleOnlyByRace

\* A job that fails under its first claim leaves Paperless's own text, as long as
\* nobody else changes the document: what the finalizer wrote is never failed over by
\* the attempt that wrote it.
FirstFailureLeavesText ==
    budget["change"] = Budget["change"] =>
        \A i \in JobIds : TerminalFailure(i) /\ attempts[i] = 1 => content[src[i].doc] = Native

\* Where a terminal failure may still be decided.
DecidingPcs == WorkerPcs \cup {"record"}
\* A finalization begins under a claim, after the worker; a text is written within one.
FirstInv ==
    /\ \A i \in JobIds : attempts[i] = 0 => fin[i] = "absent"
    /\ pc \in DecidingPcs /\ att = 1 => fin[job] = "absent"
    /\ budget["change"] = Budget["change"] =>
          \A i \in JobIds : state[i] # "absent" /\ fin[i] = "absent" => content[src[i].doc] = Native

\* Attempts are only counted up.
LEMMA ClaimCounts ==
    ASSUME [ServiceNext]_allVars
    PROVE  attempts' = attempts \/ \E j \in JobIds : attempts' = [attempts EXCEPT ![j] = @ + 1]
<1> USE DEF jobRow, finRow
<1>1. CASE WorkerStep \/ WorkerFault
  BY <1>1, StoreCallKeepsJobs, FailedTransition
     DEF WorkerStep, WorkerFault, ContractChanged, FailureAlreadyRecorded,
     ReconstructResult, StartOcr, Fetch, Download, TranscribeDirect, CheckpointDirect, PlanImages,
     TranscribeBatch, JoinBatches, Reschedule, RecordFailure, FallBackToImages, WorkerCallFails,
     DocumentDeadline, WorkerStoreFails, EnsurePlan, EnsureBatches, CheckpointBatch,
     RecordTerminalFailure, ScheduleRetry, Complete, Fail, EndClaim, vars
<1>2. CASE FinalizerStep \/ FinalizerFault
  BY <1>2, StoreCallKeepsJobs, FailedFinalizerCall
     DEF FinalizerStep, AcquireSuccess, Verify, UpdateContent, ReadTags, UpdateTags, Advance,
     ReserveDispatch, DispatchAccepted, ConfirmDispatch, ResetDispatch, CompleteJob, FailJob,
     AcquireFailure, FinalizerFault, DispatchRefused, DispatchAmbiguous, FinalizerCallFails,
     AcquireFinalization, AdvanceFinalization, SetDispatchState, Complete, Fail, EndClaim, vars
<1>3. CASE Cancelled \/ Exit \/ SettlementFails
  BY <1>3, StoreCallKeepsJobs
     DEF Cancelled, Exit, SettlementFails, SettleShutdownClaim, Release, EndClaim, vars
<1>4. CASE ClaimJob \/ ClaimFails
  BY <1>4 DEF ClaimJob, ClaimFails, Claim, NextAttempt, vars
<1>5. CASE Initialize \/ StartupFails \/ RecoveryFails \/ \E d \in Docs, p \in Priorities : Intake(d, p)
  BY <1>5 DEF Initialize, StartupFails, RecoveryFails, Recover, RecoverExpiredLeases, Intake, EnqueueNew, EnqueueExisting, vars
<1>6. CASE \/ Classify \/ Outcome \/ LoopEnds \/ LeaseLost \/ Start \/ Stop \/ Crash
           \/ Beat \/ ServiceTick \/ Stall \/ LookupFails \/ Reconfigure
           \/ \E d \in Docs : ReplaceOriginal(d) \/ AddTag(d)
           \/ UNCHANGED allVars
  BY <1>6 DEF Classify, Outcome, LoopEnds, LeaseLost, Start, Stop, Crash, LookupFails, Reconfigure,
     Beat, Heartbeat, HeartbeatAdmission,
     RenewLease, RenewFinalization, ServiceTick, Stall, Tick, ReplaceOriginal, AddTag, allVars, vars
<1>7. QED
  BY <1>1, <1>2, <1>3, <1>4, <1>5, <1>6 DEF ServiceNext, ProcessStep, Fault

\* The worker's places are reached by a claim, or from one another, and the stage is
\* not touched on the way.
LEMMA StillDeciding ==
    ASSUME ServiceInv, [ServiceNext]_allVars, pc' \in DecidingPcs
    PROVE  ClaimJob \/ (pc \in DecidingPcs /\ UNCHANGED <<job, att, fin>>)
<1> USE DEF Goto, claimVars, finRow
<1>1. CASE WorkerStep
  <2>1. pc \in DecidingPcs \/ pc' = "outcome"
    BY <1>1 DEF WorkerStep, ContractChanged, FailureAlreadyRecorded, ReconstructResult, StartOcr, Fetch,
       Download, TranscribeDirect, CheckpointDirect, PlanImages, TranscribeBatch, JoinBatches,
       Reschedule, RecordFailure, Working, DecidingPcs, WorkerPcs
  <2>2. UNCHANGED <<job, att>> /\ (UNCHANGED fin \/ pc' = "classify" \/ pc' = "outcome")
    BY <1>1 DEF WorkerStep, ContractChanged, FailureAlreadyRecorded, ReconstructResult, StartOcr, Fetch,
       Download, TranscribeDirect, CheckpointDirect, PlanImages, TranscribeBatch, JoinBatches,
       Reschedule, RecordFailure, EnsurePlan, EnsureBatches, CheckpointBatch, vars
  <2>3. QED
    BY <2>1, <2>2 DEF DecidingPcs, WorkerPcs
<1>2. CASE WorkerFault
  <2>0. ~TransitionFails
    BY FailedTransition DEF DecidingPcs, WorkerPcs
  <2>1. pc \in DecidingPcs
    BY <1>2, <2>0 DEF WorkerFault, FallBackToImages, WorkerCallFails, DocumentDeadline, WorkerStoreFails,
       Interruptible, Working, DecidingPcs, WorkerPcs
  <2>2. UNCHANGED <<job, att, fin>>
    BY <1>2, <2>0 DEF WorkerFault, FallBackToImages, WorkerCallFails, DocumentDeadline, WorkerStoreFails,
       WorkerStoreCall, EnsureBatches, CheckpointBatch, vars
  <2>3. QED
    BY <2>1, <2>2
<1>3. CASE FinalizerStep \/ FinalizerFault
  <2>1. pc' \in FinalizerPcs \cup (SettlingPcs \ {"record"})
    <3>1. CASE Advance
      <4>1. pc = "advance" /\ pc' = StageEntry(NextStage(fin[job]))
        BY <3>1 DEF Advance, FinalizingAdmitted
      <4>2. QED
        BY <4>1, AdvanceMoves, StageEntryIs DEF ServiceInv, FinalizerPcs, SettlingPcs
    <3>2. CASE AcquireFailure
      <4>1. pc = "acquireFailure" /\ pc' = StageEntry(fin[job])
        BY <3>2 DEF AcquireFailure, Finalizing
      <4>2. job \in JobIds
        BY <4>1, ClaimHeld DEF ServiceInv, FinalizerPcs
      <4>3. fin[job] \in FailureStages
        BY <4>1, <4>2 DEF ServiceInv, FinalizerInv, SafeInv, FailureExcludesSuccess, TerminalFailure
      <4>4. QED
        BY <4>1, <4>3, StageEntryIs DEF FailureStages, FinalizerPcs, SettlingPcs
    <3>3. CASE Verify
      <4>1. pc = "verify" /\ job \in JobIds
        BY <3>3, ClaimHeld DEF ServiceInv, Verify, FinalizingAdmitted, FinalizerPcs
      <4>2. StageEntry(fin[job]) \in {"content", "readTags", "reserve", "complete", "fail"}
        BY <4>1, StageEntryPc DEF ServiceInv, FinalizerInv, ServiceTypeOK, TypeOK
      <4>3. QED
        BY <3>3, <4>2, VerifyLeads DEF FinalizerPcs, SettlingPcs
    <3>4. QED
      BY <1>3, <3>1, <3>2, <3>3, FailedFinalizerCall
         DEF FinalizerStep, AcquireSuccess, UpdateContent, ReadTags, UpdateTags, ReserveDispatch,
         DispatchAccepted, ConfirmDispatch, ResetDispatch, CompleteJob, FailJob, FinalizerFault,
         DispatchRefused, DispatchAmbiguous, AfterAmbiguousDispatch, FinalizerCallFails, FinalizerPcs,
         SettlingPcs
  <2>2. QED
    BY <2>1 DEF DecidingPcs, WorkerPcs, FinalizerPcs, SettlingPcs
<1>4. CASE Cancelled
  <2>1. pc \in DecidingPcs
    BY <1>4 DEF Cancelled, Interruptible, InterruptedAt, AfterAmbiguousDispatch, DecidingPcs, WorkerPcs
  <2>2. ~FinalizerStoreCall
    BY <2>1 DEF FinalizerStoreCall, DecidingPcs, WorkerPcs
  <2>3. QED
    BY <1>4, <2>1, <2>2 DEF Cancelled, WorkerStoreCall, EnsureBatches, CheckpointBatch, vars
<1>5. CASE Stays
  BY <1>5, StaysPut
<1>6. CASE \/ LeaseLost \/ Initialize \/ StartupFails \/ LoopEnds \/ Start \/ Exit \/ Crash
           \/ Outcome \/ Classify
           \/ RecoveryFails \/ ClaimFails \/ LookupFails \/ SettlementFails \/ Reconfigure
  BY <1>6 DEF LeaseLost, Initialize, StartupFails, LoopEnds, Start, Exit, Crash, Outcome, Classify,
     RecoveryFails, ClaimFails, LookupFails, SettlementFails, Reconfigure, ProcessEnds,
     DecidingPcs, WorkerPcs
<1>7. QED
  BY <1>1, <1>2, <1>3, <1>4, <1>5, <1>6 DEF ServiceNext, ProcessStep, Fault, Stays

\* A step changes the stage of the claimed row only, and forgets none.
LEMMA StageChange ==
    ASSUME ServiceInv, [ServiceNext]_allVars, NEW i \in JobIds, fin'[i] # fin[i]
    PROVE  /\ i = job /\ attempts[i] = att /\ att \in 1..MaxAttempts
           /\ fin'[i] # "absent"
<1>t. fin \in [JobIds -> {"absent"} \cup Stages]
  BY DEF ServiceInv, ServiceTypeOK, TypeOK
<1>s. "absent" \notin Stages
  BY DEF Stages, SuccessStages, FailureStages
<1>1. CASE pc = "record" /\ RecordTerminalFailure(job, att, up)
  BY <1>1, <1>t, ClaimHeld DEF ServiceInv, RecordTerminalFailure, ActiveLease, SettlingPcs
<1>2. CASE FinalizerStoreCall
  <2>1. pc \in FinalizerPcs
    BY <1>2 DEF FinalizerStoreCall, FinalizerPcs
  <2>2. job \in JobIds /\ att \in 1..MaxAttempts /\ attempts[job] = att
    BY <2>1, ClaimHeld DEF ServiceInv, ClaimInv, FinalizerPcs, JobIds
  <2>3. CASE \E t \in Tokens : AcquireFinalization(job, att, up, t)
    BY <1>t, <2>2, <2>3 DEF AcquireFinalization
  <2>4. CASE pc = "advance" /\ AdvanceFinalization(job, att, up, Token, fin[job], NextStage(fin[job]))
    <3>1. fin' = [fin EXCEPT ![job] = NextStage(fin[job])]
      BY <2>4 DEF AdvanceFinalization
    <3>2. NextStage(fin[job]) # "absent"
      BY <2>4, AdvanceMoves DEF ServiceInv
    <3>3. QED
      BY <1>t, <2>2, <3>1, <3>2
  <2>5. QED
    BY <1>2, <2>2, <2>3, <2>4 DEF FinalizerStoreCall, SetDispatchState
<1>3. QED
  BY <1>1, <1>2, ServiceFinStep DEF FinStep

\* Every step keeps what is known of a first claim.
LEMMA FirstNext ==
    ASSUME ServiceInv, FirstInv, [ServiceNext]_allVars
    PROVE  FirstInv'
<1>i. ServiceInv'
  BY ServiceInvNext
<1>t. attempts \in [JobIds -> 0..MaxAttempts] /\ MaxAttempts \in Nat
  BY BoundAssumption DEF ServiceInv, ServiceTypeOK, TypeOK
<1>1. ASSUME NEW i \in JobIds, attempts'[i] = 0
      PROVE  fin'[i] = "absent"
  <2>1. attempts[i] = 0
    BY <1>1, <1>t, ClaimCounts
  <2>2. QED
    BY <2>1, StageChange DEF FirstInv
<1>2. ASSUME pc' \in DecidingPcs, att' = 1
      PROVE  fin'[job'] = "absent"
  <2>1. CASE ClaimJob
    <3>1. PICK j \in JobIds : Claim(j, up) /\ job' = j /\ att' = NextAttempt(attempts[j])
      BY <2>1 DEF ClaimJob
    <3>2. attempts[j] = 0 /\ fin' = fin
      BY <1>2, <1>t, <3>1 DEF Claim, NextAttempt, finRow
    <3>3. QED
      BY <3>1, <3>2 DEF FirstInv
  <2>2. CASE pc \in DecidingPcs /\ UNCHANGED <<job, att, fin>>
    BY <1>2, <2>2 DEF FirstInv
  <2>3. QED
    BY <1>2, <2>1, <2>2, StillDeciding
<1>3. ASSUME budget'["change"] = Budget["change"], NEW i \in JobIds, state'[i] # "absent", fin'[i] = "absent",
             content'[src'[i].doc] # Native
      PROVE  FALSE
  <2>b. budget["change"] = Budget["change"] /\ ~\E d \in Docs : ReplaceOriginal(d) \/ AddTag(d)
    BY <1>3, ChangeSpends DEF ServiceInv
  <2>2. fin[i] = "absent"
    BY <1>3, StageChange
  <2>3. CASE state[i] = "absent"
    <3>1. src'[i].sum = source[src'[i].doc] /\ content' = content
      BY <1>3, <2>3, InsertStep DEF ServiceInv, docVars
    <3>2. src'[i].doc \in Docs
      BY <1>i, <1>3 DEF ServiceInv, RowInv, Sources
    <3>3. PICK j \in JobIds : src[j].doc = src'[i].doc /\ content[src'[i].doc] = batches[j]
      BY <1>3, <3>1, <3>2 DEF ServiceInv, ContentIsWholeResult
    <3>4. state[j] # "absent"
      BY <1>3, <3>1, <3>3 DEF ServiceInv, RowInv, Native
    <3>5. src[j].sum = source[src[j].doc] /\ src'[j] = src[j] /\ state'[j] # "absent"
      BY <2>b, <3>4, ServiceIsQueueStep, RowStepNext DEF ServiceInv, NoChangeInv, RowStep
    <3>6. i = j
      BY <1>i, <1>3, <3>1, <3>3, <3>5 DEF ServiceInv, SafeInv, OneJobPerSource
    <3>7. QED
      BY <2>3, <3>4, <3>6
  <2>4. CASE state[i] # "absent"
    <3>1. src'[i] = src[i] /\ src[i].doc \in Docs
      BY <2>4, ServiceIsQueueStep, RowStepNext DEF ServiceInv, RowStep, RowInv, Sources
    <3>2. content[src[i].doc] = Native
      BY <2>b, <2>2, <2>4 DEF FirstInv
    <3>3. pc = "content" /\ src[i].doc = Doc
      BY <1>3, <3>1, <3>2, StaleStep
    <3>4. job \in JobIds /\ state[job] # "absent" /\ fin[job] = "pending"
      BY <3>3, DocOfClaim DEF ServiceInv, FinalizerInv, FinalizerPcs
    <3>5. i = job
      BY <2>b, <2>4, <3>3, <3>4, OtherDocument DEF ServiceInv, NoChangeInv, Doc
    <3>6. QED
      BY <2>2, <3>4, <3>5
  <2>5. QED
    BY <2>3, <2>4
<1>4. QED
  BY <1>1, <1>2, <1>3 DEF FirstInv

\* Every step keeps the text of a job that failed under its first claim.
LEMMA FirstFailureNext ==
    ASSUME ServiceInv, FirstInv, FirstFailureLeavesText, [ServiceNext]_allVars
    PROVE  FirstFailureLeavesText'
<1> SUFFICES ASSUME budget'["change"] = Budget["change"], NEW i \in JobIds, failure'[i], attempts'[i] = 1
             PROVE  content'[src'[i].doc] = Native
  BY DEF FirstFailureLeavesText, TerminalFailure
<1>i. ServiceInv'
  BY ServiceInvNext
<1>b. budget["change"] = Budget["change"]
  BY ChangeSpends DEF ServiceInv
<1>t. /\ attempts \in [JobIds -> 0..MaxAttempts] /\ MaxAttempts \in Nat
      /\ failure \in [JobIds -> BOOLEAN]
  BY BoundAssumption DEF ServiceInv, ServiceTypeOK, TypeOK
<1>1. CASE failure[i]
  <2>1. state[i] # "absent" /\ src[i].doc \in Docs /\ fin[i] \in FailureStages
    BY <1>1 DEF ServiceInv, RowInv, Sources, SafeInv, FailureExcludesSuccess, TerminalFailure
  <2>2. src'[i] = src[i]
    BY <2>1, ServiceIsQueueStep, RowStepNext DEF ServiceInv, RowStep
  <2>3. attempts[i] # 0
    BY <2>1 DEF FirstInv, FailureStages
  <2>4. attempts[i] = 1
    BY <1>t, <2>3, ClaimCounts
  <2>5. content[src[i].doc] = Native
    BY <1>1, <1>b, <2>4 DEF FirstFailureLeavesText, TerminalFailure
  <2>6. ASSUME pc = "content", src[i].doc = Doc
        PROVE  FALSE
    <3>1. job \in JobIds /\ state[job] # "absent" /\ fin[job] = "pending"
      BY <2>6, DocOfClaim DEF ServiceInv, FinalizerInv, FinalizerPcs
    <3>2. i = job
      BY <1>b, <2>1, <2>6, <3>1, OtherDocument DEF ServiceInv, NoChangeInv, Doc
    <3>3. QED
      BY <2>1, <3>1, <3>2 DEF FailureStages
  <2>7. QED
    BY <2>1, <2>2, <2>5, <2>6, StaleStep
<1>2. CASE ~failure[i]
  <2>1. pc = "record" /\ RecordTerminalFailure(job, att, up) /\ i = job
    <3>1. ~FinalizerStoreCall
      BY <1>2 DEF FinalizerStoreCall, AcquireFinalization, AdvanceFinalization, SetDispatchState
    <3>2. pc = "record" /\ RecordTerminalFailure(job, att, up)
      BY <1>2, <3>1, ServiceFinStep DEF FinStep
    <3>3. failure' = [failure EXCEPT ![job] = TRUE]
      BY <3>2 DEF RecordTerminalFailure
    <3>4. QED
      BY <1>2, <1>t, <3>2, <3>3
  <2>2. attempts' = attempts /\ attempts[i] = att /\ src' = src
    BY <2>1 DEF RecordTerminalFailure, ActiveLease, jobRow
  <2>3. state[i] # "absent" /\ src[i].doc \in Docs
    BY <2>1, DocOfClaim DEF ServiceInv, SettlingPcs, Doc
  <2>4. fin[i] = "absent"
    BY <2>1, <2>2 DEF FirstInv, DecidingPcs
  <2>5. content[src[i].doc] = Native
    BY <1>b, <2>3, <2>4 DEF FirstInv
  <2>6. content'[src[i].doc] = Native
    BY <2>1, <2>3, <2>5, StaleStep
  <2>7. QED
    BY <2>2, <2>6
<1>3. QED
  BY <1>1, <1>2

\* What is left of "native OCR remains unchanged" under ai-ocr-failed.
THEOREM FirstFailureIsClean == ServiceSpec => []FirstFailureLeavesText
<1>1. ServiceInit => FirstInv /\ FirstFailureLeavesText
  BY DEF ServiceInit, ClaimedInit, Init, FirstInv, FirstFailureLeavesText, TerminalFailure, DecidingPcs, WorkerPcs
<1>2. QED
  BY ServiceSafety, FirstNext, FirstFailureNext, <1>1, PTL DEF ServiceSpec
=============================================================================
