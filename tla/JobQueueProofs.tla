--------------------------- MODULE JobQueueProofs ---------------------------
(***************************************************************************)
(* Proofs about JobQueue, for every value of its constants.                *)
(***************************************************************************)
EXTENDS JobQueue, WellFoundedInduction, TLAPS

\* The columns keep their types.
LEMMA TypeNext ==
    ASSUME TypeOK, [Next]_vars
    PROVE  TypeOK'
<1> USE BoundAssumption, PriorityAssumption
<1> USE DEF jobRow, finRow, timers
<1>1. ASSUME NEW d \in Docs, NEW c \in Checksums, NEW p \in Priorities,
             EnqueueExisting(d, c, p)
      PROVE  TypeOK'
  BY <1>1 DEF TypeOK, EnqueueExisting
<1>2. ASSUME NEW d \in Docs, NEW c \in Checksums, NEW k \in Contracts, NEW p \in Priorities,
             EnqueueNew(d, c, k, p)
      PROVE  TypeOK'
  <2>1. [doc |-> d, sum |-> c, contract |-> k] \in Sources
    BY DEF Sources
  <2>2. QED
    BY <1>2, <2>1 DEF TypeOK, EnqueueNew, States, CurrentStates
<1>3. ASSUME NEW i \in JobIds, NEW o \in Owners, Claim(i, o)
      PROVE  TypeOK'
  BY <1>3 DEF TypeOK, Claim, NextAttempt, States, CurrentStates
<1>4. ASSUME NEW i \in JobIds, NEW a \in 1..MaxAttempts, NEW o \in Owners,
             LeaseMethod(i, a, o)
      PROVE  TypeOK'
  <2>1. ASSUME NEW s \in States, NEW d \in 0..MaxDelay, EndClaim(i, a, o, s, d)
        PROVE  TypeOK'
    BY <2>1 DEF TypeOK, EndClaim, DropOwner
  <2>2. CASE RenewLease(i, a, o)
    BY <2>2 DEF TypeOK, RenewLease
  <2>3. ASSUME NEW d \in 1..MaxDelay, ScheduleRetry(i, a, o, d)
        PROVE  TypeOK'
    BY <2>1, <2>3 DEF ScheduleRetry, States, CurrentStates
  <2>4. CASE Release(i, a, o)
    BY <2>1, <2>4 DEF Release, States, CurrentStates
  <2>5. CASE Complete(i, a, o) \/ Fail(i, a, o)
    <3>1. delayLeft[i] \in 0..MaxDelay
      BY DEF TypeOK
    <3>2. QED
      BY <2>1, <2>5, <3>1 DEF Complete, Fail, States, TerminalStates
  <2>6. QED
    BY <1>4, <2>2, <2>3, <2>4, <2>5 DEF LeaseMethod
<1>5. ASSUME NEW i \in JobIds, NEW a \in 1..MaxAttempts, NEW o \in Owners,
             WorkMethod(i, a, o)
      PROVE  TypeOK'
  <2>1. CASE RecordTerminalFailure(i, a, o)
    BY <2>1 DEF TypeOK, RecordTerminalFailure, Stages, FailureStages
  <2>2. ASSUME NEW p \in Plans, EnsureBatches(i, a, o, p)
        PROVE  TypeOK'
    <3>1. [r \in p |-> None] \in Results
      BY DEF Results
    <3>2. QED
      BY <2>2, <3>1 DEF TypeOK, EnsureBatches
  <2>3. ASSUME NEW r \in UNION Plans, NEW text \in Texts, CheckpointBatch(i, a, o, r, text)
        PROVE  TypeOK'
    <3>1. PICK p \in Plans \cup {{}} : batches[i] \in [p -> Texts \cup {None}]
      BY DEF TypeOK, Results
    <3>2. [batches[i] EXCEPT ![r] = text] \in [p -> Texts \cup {None}]
      BY <3>1
    <3>3. [batches[i] EXCEPT ![r] = text] \in Results
      BY <3>2 DEF Results
    <3>4. QED
      BY <2>3, <3>3 DEF TypeOK, CheckpointBatch
  <2>4. QED
    BY <1>5, <2>1, <2>2, <2>3 DEF WorkMethod
<1>6. ASSUME NEW i \in JobIds, NEW a \in 1..MaxAttempts, NEW o \in Owners, NEW t \in Tokens,
             FinalizeMethod(i, a, o, t)
      PROVE  TypeOK'
  <2>1. CASE AcquireFinalization(i, a, o, t)
    <3>1. [token |-> t, attempt |-> a, owner |-> o] \in Admissions
      BY DEF Admissions
    <3>2. QED
      BY <2>1, <3>1 DEF TypeOK, AcquireFinalization, Stages
  <2>2. CASE RenewFinalization(i, a, o, t)
    BY <2>2 DEF TypeOK, RenewFinalization
  <2>3. ASSUME NEW from \in Stages, NEW to \in Stages, AdvanceFinalization(i, a, o, t, from, to)
        PROVE  TypeOK'
    BY <2>3 DEF TypeOK, AdvanceFinalization
  <2>4. ASSUME NEW from \in DispatchStates, NEW to \in DispatchStates,
               SetDispatchState(i, a, o, t, from, to)
        PROVE  TypeOK'
    BY <2>4 DEF TypeOK, SetDispatchState
  <2>5. QED
    BY <1>6, <2>1, <2>2, <2>3, <2>4 DEF FinalizeMethod
<1>7. ASSUME NEW i \in JobIds, NEW d \in 1..MaxDelay, RetryFailed(i, d)
      PROVE  TypeOK'
  BY <1>7 DEF TypeOK, RetryFailed, States, CurrentStates
<1>8. CASE RecoverExpiredLeases
  BY <1>8 DEF TypeOK, RecoverExpiredLeases, States, CurrentStates
<1>9. CASE Tick
  BY <1>9 DEF TypeOK, Tick, Elapse
<1>10. CASE UNCHANGED vars
  BY <1>10 DEF TypeOK, vars
<1>11. QED
  BY <1>1, <1>2, <1>3, <1>4, <1>5, <1>6, <1>7, <1>8, <1>9, <1>10 DEF Next

\* The empty tables are well typed.
LEMMA TypeInit == Init => TypeOK
<1>1. NoBatches \in Results
  BY DEF NoBatches, Results
<1>2. QED
  BY <1>1, BoundAssumption, PriorityAssumption DEF Init, TypeOK, States, DispatchStates

\* Every reachable state of the four tables is well typed.
THEOREM TypeCorrect == Spec => []TypeOK
<1>1. TypeOK /\ [Next]_vars => TypeOK'
  BY TypeNext
<1>2. QED
  BY TypeInit, <1>1, PTL DEF Spec

-----------------------------------------------------------------------------
(***************************************************************************)
(* Safety.  The four invariants are inductive together with TypeOK:        *)
(* recovery and RetryFailed rely on LeaseIffProcessing to know that a row  *)
(* which is not processing has no owner.                                   *)
(***************************************************************************)

SafeInv ==
    /\ TypeOK
    /\ SingleActiveJob
    /\ OneJobPerSource
    /\ LeaseIffProcessing
    /\ FailureExcludesSuccess

\* A step that leaves src, state, attempts, owner and leaseLeft alone keeps the
\* three invariants of the jobs table.
LEMMA JobsUntouched ==
    ASSUME SafeInv, UNCHANGED <<src, state, attempts, owner, leaseLeft>>
    PROVE  SingleActiveJob' /\ OneJobPerSource' /\ LeaseIffProcessing'
BY DEF SafeInv, SingleActiveJob, OneJobPerSource, LeaseIffProcessing

\* Ending a claim keeps the safety invariants.
LEMMA EndClaimSafe ==
    ASSUME SafeInv, NEW i \in JobIds, NEW a, NEW o, NEW d,
           NEW s \in {"retry", "completed", "failed"}, EndClaim(i, a, o, s, d)
    PROVE  SingleActiveJob' /\ OneJobPerSource' /\ LeaseIffProcessing' /\ FailureExcludesSuccess'
<1> USE DEF EndClaim, DropOwner, MayEnd, ActiveLease, finRow, SafeInv, TypeOK
<1>1. SingleActiveJob'
  BY DEF SingleActiveJob
<1>2. OneJobPerSource'
  BY DEF OneJobPerSource
<1>3. LeaseIffProcessing'
  BY DEF LeaseIffProcessing
<1>4. FailureExcludesSuccess'
  BY DEF FailureExcludesSuccess, TerminalFailure
<1>5. QED
  BY <1>1, <1>2, <1>3, <1>4

\* Every method keeps the safety invariants.
LEMMA SafeNext ==
    ASSUME SafeInv, [Next]_vars
    PROVE  SafeInv'
<1> DEFINE Safe == SingleActiveJob /\ OneJobPerSource /\ LeaseIffProcessing
                   /\ FailureExcludesSuccess
<1> USE BoundAssumption, PriorityAssumption, NoneAssumption
<1> USE DEF jobRow, finRow, timers
<1>0. TypeOK'
  BY TypeNext DEF SafeInv
<1> SUFFICES Safe'
  BY <1>0 DEF SafeInv
<1>1. ASSUME NEW d \in Docs, NEW c \in Checksums, NEW p \in Priorities,
             EnqueueExisting(d, c, p)
      PROVE  Safe'
  BY <1>1, JobsUntouched DEF SafeInv, EnqueueExisting, FailureExcludesSuccess, TerminalFailure
<1>2. ASSUME NEW d \in Docs, NEW c \in Checksums, NEW k \in Contracts, NEW p \in Priorities,
             EnqueueNew(d, c, k, p)
      PROVE  Safe'
  <2>1. SingleActiveJob'
    BY <1>2 DEF SafeInv, TypeOK, EnqueueNew, SingleActiveJob
  <2>2. OneJobPerSource'
    BY <1>2 DEF SafeInv, TypeOK, EnqueueNew, OneJobPerSource, Matches
  <2>3. LeaseIffProcessing'
    BY <1>2 DEF SafeInv, TypeOK, EnqueueNew, LeaseIffProcessing
  <2>4. FailureExcludesSuccess'
    BY <1>2 DEF SafeInv, EnqueueNew, FailureExcludesSuccess, TerminalFailure
  <2>5. QED
    BY <2>1, <2>2, <2>3, <2>4
<1>3. ASSUME NEW i \in JobIds, NEW o \in Owners, Claim(i, o)
      PROVE  Safe'
  <2>1. SingleActiveJob'
    BY <1>3 DEF SafeInv, TypeOK, Claim, NoActiveJob, SingleActiveJob
  <2>2. OneJobPerSource'
    BY <1>3 DEF SafeInv, TypeOK, Claim, ClaimNext, Due, OneJobPerSource
  <2>3. LeaseIffProcessing'
    BY <1>3 DEF SafeInv, TypeOK, Claim, NextAttempt, LeaseIffProcessing
  <2>4. FailureExcludesSuccess'
    BY <1>3 DEF SafeInv, Claim, FailureExcludesSuccess, TerminalFailure
  <2>5. QED
    BY <2>1, <2>2, <2>3, <2>4
<1>4. ASSUME NEW i \in JobIds, NEW a \in 1..MaxAttempts, NEW o \in Owners,
             LeaseMethod(i, a, o)
      PROVE  Safe'
  <2>1. CASE RenewLease(i, a, o)
    <3>1. SingleActiveJob' /\ OneJobPerSource' /\ FailureExcludesSuccess'
      BY <2>1 DEF SafeInv, RenewLease, SingleActiveJob, OneJobPerSource,
                  FailureExcludesSuccess, TerminalFailure
    <3>2. LeaseIffProcessing'
      BY <2>1 DEF SafeInv, TypeOK, RenewLease, ActiveLease, LeaseIffProcessing
    <3>3. QED
      BY <3>1, <3>2
  <2>2. ASSUME NEW d \in 1..MaxDelay, ScheduleRetry(i, a, o, d)
        PROVE  Safe'
    BY <2>2, EndClaimSafe DEF ScheduleRetry
  <2>3. CASE Release(i, a, o)
    BY <2>3, EndClaimSafe DEF Release
  <2>4. CASE Complete(i, a, o)
    BY <2>4, EndClaimSafe DEF Complete
  <2>5. CASE Fail(i, a, o)
    BY <2>5, EndClaimSafe DEF Fail
  <2>6. QED
    BY <1>4, <2>1, <2>2, <2>3, <2>4, <2>5 DEF LeaseMethod
<1>5. ASSUME NEW i \in JobIds, NEW a \in 1..MaxAttempts, NEW o \in Owners,
             WorkMethod(i, a, o)
      PROVE  Safe'
  <2>1. UNCHANGED <<src, state, attempts, owner, leaseLeft>>
    BY <1>5 DEF WorkMethod, EnsureBatches, CheckpointBatch, RecordTerminalFailure
  <2>2. CASE RecordTerminalFailure(i, a, o)
    <3>1. FailureExcludesSuccess'
      BY <2>2 DEF SafeInv, TypeOK, RecordTerminalFailure, MayRecordFailure,
                  FailureExcludesSuccess, TerminalFailure, FailureStages
    <3>2. QED
      BY <2>1, <3>1, JobsUntouched
  <2>3. CASE UNCHANGED finRow
    BY <2>1, <2>3, JobsUntouched DEF SafeInv, FailureExcludesSuccess, TerminalFailure
  <2>4. QED
    BY <1>5, <2>2, <2>3 DEF WorkMethod, EnsureBatches, CheckpointBatch
<1>6. ASSUME NEW i \in JobIds, NEW a \in 1..MaxAttempts, NEW o \in Owners, NEW t \in Tokens,
             FinalizeMethod(i, a, o, t)
      PROVE  Safe'
  <2>1. UNCHANGED <<src, state, attempts, owner, leaseLeft>>
    BY <1>6 DEF FinalizeMethod, AcquireFinalization, RenewFinalization,
                AdvanceFinalization, SetDispatchState
  <2>2. CASE AcquireFinalization(i, a, o, t)
    BY <2>1, <2>2, JobsUntouched
       DEF SafeInv, TypeOK, AcquireFinalization, FailureExcludesSuccess, TerminalFailure,
           FailureStages
  <2>3. ASSUME NEW from \in Stages, NEW to \in Stages,
               AdvanceFinalization(i, a, o, t, from, to)
        PROVE  Safe'
    <3>1. FailureExcludesSuccess'
      BY <2>3 DEF SafeInv, TypeOK, AdvanceFinalization, FinalizationTransitions, StageIs,
                  FailureExcludesSuccess, TerminalFailure, FailureStages
    <3>2. QED
      BY <2>1, <3>1, JobsUntouched
  <2>4. CASE UNCHANGED <<fin, failure>>
    BY <2>1, <2>4, JobsUntouched DEF SafeInv, FailureExcludesSuccess, TerminalFailure
  <2>5. QED
    BY <1>6, <2>2, <2>3, <2>4 DEF FinalizeMethod, RenewFinalization, SetDispatchState
<1>7. ASSUME NEW i \in JobIds, NEW d \in 1..MaxDelay, RetryFailed(i, d)
      PROVE  Safe'
  <2>1. SingleActiveJob' /\ OneJobPerSource'
    BY <1>7 DEF SafeInv, TypeOK, RetryFailed, SingleActiveJob, OneJobPerSource
  <2>2. LeaseIffProcessing'
    BY <1>7 DEF SafeInv, TypeOK, RetryFailed, LeaseIffProcessing
  <2>3. FailureExcludesSuccess'
    BY <1>7 DEF SafeInv, RetryFailed, FailureExcludesSuccess, TerminalFailure
  <2>4. QED
    BY <2>1, <2>2, <2>3
<1>8. CASE RecoverExpiredLeases
  <2>1. SingleActiveJob' /\ OneJobPerSource'
    BY <1>8 DEF SafeInv, TypeOK, RecoverExpiredLeases, Expired, SingleActiveJob,
                OneJobPerSource
  <2>2. LeaseIffProcessing'
    BY <1>8 DEF SafeInv, TypeOK, RecoverExpiredLeases, Expired, LeaseIffProcessing
  <2>3. FailureExcludesSuccess'
    BY <1>8 DEF SafeInv, RecoverExpiredLeases, FailureExcludesSuccess, TerminalFailure
  <2>4. QED
    BY <2>1, <2>2, <2>3
<1>9. CASE Tick
  <2>1. LeaseIffProcessing'
    BY <1>9 DEF SafeInv, TypeOK, Tick, Elapse, LeaseIffProcessing
  <2>2. SingleActiveJob' /\ OneJobPerSource' /\ FailureExcludesSuccess'
    BY <1>9 DEF SafeInv, Tick, SingleActiveJob, OneJobPerSource, FailureExcludesSuccess,
                TerminalFailure
  <2>3. QED
    BY <2>1, <2>2
<1>10. CASE UNCHANGED vars
  BY <1>10, JobsUntouched DEF vars, SafeInv, FailureExcludesSuccess, TerminalFailure
<1>11. QED
  BY <1>1, <1>2, <1>3, <1>4, <1>5, <1>6, <1>7, <1>8, <1>9, <1>10 DEF Next

\* The empty tables are safe.
LEMMA SafeInit == Init => SafeInv
BY TypeInit DEF Init, SafeInv, SingleActiveJob, OneJobPerSource, LeaseIffProcessing,
                FailureExcludesSuccess, TerminalFailure

\* Together, inductively: the safety invariants hold in every reachable state.
THEOREM Safety == Spec => []SafeInv
<1>1. SafeInv /\ [Next]_vars => SafeInv'
  BY SafeNext
<1>2. QED
  BY SafeInit, <1>1, PTL DEF Spec

\* At most one row is ever processing, for any number of documents, owners and attempts.
THEOREM SingleActive == Spec => []SingleActiveJob
<1>1. SafeInv => SingleActiveJob
  BY DEF SafeInv
<1>2. QED
  BY Safety, <1>1, PTL

\* A document version never gets a second row.
THEOREM SourceUnique == Spec => []OneJobPerSource
<1>1. SafeInv => OneJobPerSource
  BY DEF SafeInv
<1>2. QED
  BY Safety, <1>1, PTL

\* A lease is on a row exactly while the row is processing.
THEOREM LeaseExact == Spec => []LeaseIffProcessing
<1>1. SafeInv => LeaseIffProcessing
  BY DEF SafeInv
<1>2. QED
  BY Safety, <1>1, PTL

\* A job with a recorded terminal failure never has a success stage.
THEOREM FailureOrSuccess == Spec => []FailureExcludesSuccess
<1>1. SafeInv => FailureExcludesSuccess
  BY DEF SafeInv
<1>2. QED
  BY Safety, <1>1, PTL
-----------------------------------------------------------------------------
(***************************************************************************)
(* Action properties.                                                      *)
(***************************************************************************)

\* A step of any method under the live lease (i, a, o) leaves the checkpoints of
\* every other row, and of row i when its lease is not live, as they are.
LEMMA FencedNext ==
    ASSUME TypeOK, [Next]_vars
    PROVE  FencedStep
<1> USE DEF jobRow, finRow, timers
<1>1. ASSUME NEW d \in Docs, NEW c \in Checksums, NEW k \in Contracts, NEW p \in Priorities,
             EnqueueExisting(d, c, p) \/ EnqueueNew(d, c, k, p)
      PROVE  FencedStep
  BY <1>1 DEF TypeOK, EnqueueExisting, EnqueueNew, FencedStep
<1>2. ASSUME NEW i \in JobIds, NEW o \in Owners, Claim(i, o)
      PROVE  FencedStep
  BY <1>2 DEF TypeOK, Claim, FencedStep
<1>3. ASSUME NEW i \in JobIds, NEW a \in 1..MaxAttempts, NEW o \in Owners,
             LeaseMethod(i, a, o)
      PROVE  FencedStep
  BY <1>3 DEF TypeOK, LeaseMethod, RenewLease, ScheduleRetry, Release, Complete, Fail,
              EndClaim, MayEnd, ActiveLease, FencedStep
<1>4. ASSUME NEW i \in JobIds, NEW a \in 1..MaxAttempts, NEW o \in Owners,
             WorkMethod(i, a, o)
      PROVE  FencedStep
  BY <1>4 DEF TypeOK, WorkMethod, EnsureBatches, CheckpointBatch, RecordTerminalFailure,
              ActiveLease, FencedStep
<1>5. ASSUME NEW i \in JobIds, NEW a \in 1..MaxAttempts, NEW o \in Owners, NEW t \in Tokens,
             FinalizeMethod(i, a, o, t)
      PROVE  FencedStep
  <2>1. leaseLeft[i] > 0 /\ UNCHANGED <<jobRow, batches>>
    BY <1>5 DEF FinalizeMethod, AcquireFinalization, RenewFinalization,
                AdvanceFinalization, SetDispatchState, Admitted, ActiveLease
  <2>2. \A j \in JobIds \ {i} : /\ fin'[j] = fin[j] /\ dispatch'[j] = dispatch[j]
                              /\ failure'[j] = failure[j] /\ admission'[j] = admission[j]
    BY <1>5 DEF TypeOK, FinalizeMethod, AcquireFinalization, RenewFinalization,
                AdvanceFinalization, SetDispatchState
  <2>3. QED
    BY <2>1, <2>2 DEF FencedStep
<1>6. ASSUME NEW i \in JobIds, NEW d \in 1..MaxDelay, RetryFailed(i, d)
      PROVE  FencedStep
  BY <1>6 DEF TypeOK, RetryFailed, FencedStep
<1>7. CASE RecoverExpiredLeases
  BY <1>7 DEF TypeOK, RecoverExpiredLeases, FencedStep
<1>8. CASE Tick \/ UNCHANGED vars
  BY <1>8 DEF TypeOK, Tick, vars, FencedStep
<1>9. QED
  BY <1>1, <1>2, <1>3, <1>4, <1>5, <1>6, <1>7, <1>8 DEF Next

\* A claim whose lease has expired changes no checkpoint and ends only by recovery.
THEOREM ExpiryIsFinal == Spec => ExpiredClaimIsFenced
<1>1. TypeOK /\ [Next]_vars => [FencedStep]_vars
  BY FencedNext
<1>2. QED
  BY TypeCorrect, <1>1, PTL DEF Spec, ExpiredClaimIsFenced

\* Only Claim makes a row processing, and it raises attempts.
LEMMA GenerationNext ==
    ASSUME TypeOK, [Next]_vars
    PROVE  GenerationStep
<1> USE DEF jobRow, finRow, timers
<1>1. ASSUME NEW d \in Docs, NEW c \in Checksums, NEW k \in Contracts, NEW p \in Priorities,
             EnqueueExisting(d, c, p) \/ EnqueueNew(d, c, k, p)
      PROVE  GenerationStep
  BY <1>1 DEF TypeOK, EnqueueExisting, EnqueueNew, GenerationStep
<1>2. ASSUME NEW i \in JobIds, NEW o \in Owners, Claim(i, o)
      PROVE  GenerationStep
  BY <1>2 DEF TypeOK, Claim, ClaimNext, Due, NextAttempt, GenerationStep
<1>3. ASSUME NEW i \in JobIds, NEW a \in 1..MaxAttempts, NEW o \in Owners,
             LeaseMethod(i, a, o)
      PROVE  GenerationStep
  BY <1>3 DEF TypeOK, LeaseMethod, RenewLease, ScheduleRetry, Release, Complete, Fail,
              EndClaim, DropOwner, GenerationStep
<1>4. ASSUME NEW i \in JobIds, NEW d \in 1..MaxDelay, RetryFailed(i, d)
      PROVE  GenerationStep
  BY <1>4 DEF TypeOK, RetryFailed, GenerationStep
<1>5. CASE RecoverExpiredLeases
  BY <1>5 DEF TypeOK, RecoverExpiredLeases, GenerationStep
<1>6. CASE UNCHANGED jobRow
  BY <1>6 DEF GenerationStep
<1>7. ASSUME NEW i \in JobIds, NEW a \in 1..MaxAttempts, NEW o \in Owners,
             WorkMethod(i, a, o) \/ \E t \in Tokens : FinalizeMethod(i, a, o, t)
      PROVE  UNCHANGED jobRow
  BY <1>7 DEF WorkMethod, EnsureBatches, CheckpointBatch, RecordTerminalFailure,
              FinalizeMethod, AcquireFinalization, RenewFinalization, AdvanceFinalization,
              SetDispatchState
<1>8. CASE Tick \/ UNCHANGED vars
  BY <1>6, <1>8 DEF Tick, vars
<1>9. QED
  BY <1>1, <1>2, <1>3, <1>4, <1>5, <1>6, <1>7, <1>8 DEF Next

\* A claim generation (job, attempts) is issued at most once.
THEOREM GenerationUnique == Spec => GenerationIssuedOnce
<1>1. TypeOK /\ [Next]_vars => [GenerationStep]_vars
  BY GenerationNext
<1>2. QED
  BY TypeCorrect, <1>1, PTL DEF Spec, GenerationIssuedOnce

\* Enqueueing, leases, recovery and time leave the checkpoints alone.
LEMMA CheckpointsUntouched ==
    ASSUME \/ \E d \in Docs, c \in Checksums, k \in Contracts, p \in Priorities :
                 EnqueueExisting(d, c, p) \/ EnqueueNew(d, c, k, p)
           \/ \E i \in JobIds, o \in Owners : Claim(i, o)
           \/ \E i \in JobIds, a \in 1..MaxAttempts, o \in Owners : LeaseMethod(i, a, o)
           \/ \E i \in JobIds, d \in 1..MaxDelay : RetryFailed(i, d)
           \/ RecoverExpiredLeases
           \/ Tick
           \/ UNCHANGED vars
    PROVE  UNCHANGED <<batches, fin>>
<1> USE DEF finRow
<1>1. CASE \E i \in JobIds, a \in 1..MaxAttempts, o \in Owners : LeaseMethod(i, a, o)
  BY <1>1 DEF LeaseMethod, RenewLease, ScheduleRetry, Release, Complete, Fail, EndClaim
<1>2. QED
  BY <1>1 DEF EnqueueExisting, EnqueueNew, Claim, RetryFailed, RecoverExpiredLeases, Tick, vars

\* Only two methods write the batches table.
LEMMA CheckpointNext ==
    ASSUME TypeOK, [Next]_vars
    PROVE  CheckpointStep
<1> USE DEF jobRow, finRow, timers
<1>1. ASSUME NEW i \in JobIds, NEW a \in 1..MaxAttempts, NEW o \in Owners, NEW p \in Plans,
             EnsureBatches(i, a, o, p)
      PROVE  CheckpointStep
  BY <1>1 DEF TypeOK, EnsureBatches, CheckpointStep
<1>2. ASSUME NEW i \in JobIds, NEW a \in 1..MaxAttempts, NEW o \in Owners,
             NEW r \in UNION Plans, NEW text \in Texts, CheckpointBatch(i, a, o, r, text)
      PROVE  CheckpointStep
  BY <1>2 DEF TypeOK, CheckpointBatch, CheckpointPending, CheckpointStep
<1>3. CASE UNCHANGED batches
  BY <1>3 DEF CheckpointStep
<1>4. ASSUME NEW i \in JobIds, NEW a \in 1..MaxAttempts, NEW o \in Owners, NEW t \in Tokens,
             FinalizeMethod(i, a, o, t)
      PROVE  UNCHANGED batches
  BY <1>4 DEF FinalizeMethod, AcquireFinalization, RenewFinalization, AdvanceFinalization,
              SetDispatchState
<1>5. ASSUME NEW i \in JobIds, NEW a \in 1..MaxAttempts, NEW o \in Owners,
             WorkMethod(i, a, o)
      PROVE  CheckpointStep
  BY <1>1, <1>2, <1>3, <1>5 DEF WorkMethod, RecordTerminalFailure
<1>6. QED
  BY <1>3, <1>4, <1>5, CheckpointsUntouched DEF Next

\* A completed checkpoint and a stored plan are never changed.
THEOREM CheckpointsDurable == Spec => CheckpointsImmutable
<1>1. TypeOK /\ [Next]_vars => [CheckpointStep]_vars
  BY CheckpointNext
<1>2. QED
  BY TypeCorrect, <1>1, PTL DEF Spec, CheckpointsImmutable

\* Three methods write the stage, each along one edge of the stage order.
LEMMA StageNext ==
    ASSUME TypeOK, [Next]_vars
    PROVE  StageStep
<1> USE DEF jobRow, finRow, timers
<1>1. ASSUME NEW i \in JobIds, NEW a \in 1..MaxAttempts, NEW o \in Owners, NEW t \in Tokens,
             AcquireFinalization(i, a, o, t)
      PROVE  StageStep
  BY <1>1 DEF TypeOK, AcquireFinalization, StageStep
<1>2. ASSUME NEW i \in JobIds, NEW a \in 1..MaxAttempts, NEW o \in Owners, NEW t \in Tokens,
             NEW from \in Stages, NEW to \in Stages, AdvanceFinalization(i, a, o, t, from, to)
      PROVE  StageStep
  BY <1>2 DEF TypeOK, AdvanceFinalization, StageIs, StageStep
<1>3. ASSUME NEW i \in JobIds, NEW a \in 1..MaxAttempts, NEW o \in Owners,
             RecordTerminalFailure(i, a, o)
      PROVE  StageStep
  BY <1>3 DEF TypeOK, RecordTerminalFailure, MayRecordFailure, FinalizationTransitions,
              StageStep
<1>4. CASE UNCHANGED fin
  BY <1>4 DEF StageStep
<1>5. ASSUME NEW i \in JobIds, NEW a \in 1..MaxAttempts, NEW o \in Owners,
             WorkMethod(i, a, o)
      PROVE  StageStep
  BY <1>3, <1>4, <1>5 DEF WorkMethod, EnsureBatches, CheckpointBatch
<1>6. ASSUME NEW i \in JobIds, NEW a \in 1..MaxAttempts, NEW o \in Owners, NEW t \in Tokens,
             FinalizeMethod(i, a, o, t)
      PROVE  StageStep
  BY <1>1, <1>2, <1>4, <1>6 DEF FinalizeMethod, RenewFinalization, SetDispatchState
<1>7. QED
  BY <1>4, <1>5, <1>6, CheckpointsUntouched DEF Next

\* Finalization stages advance one confirmed side effect at a time.
THEOREM StagesAdvance == Spec => StagesInOrder
<1>1. TypeOK /\ [Next]_vars => [StageStep]_vars
  BY StageNext
<1>2. QED
  BY TypeCorrect, <1>1, PTL DEF Spec, StagesInOrder

\* Under a live admission AcquireFinalization is open only to its own token, and no
\* other method writes the admission.
LEMMA AdmissionNext ==
    ASSUME TypeOK, [Next]_vars
    PROVE  AdmissionStep
<1> USE DEF jobRow, finRow, timers
<1>1. ASSUME NEW i \in JobIds, NEW a \in 1..MaxAttempts, NEW o \in Owners, NEW t \in Tokens,
             AcquireFinalization(i, a, o, t)
      PROVE  AdmissionStep
  <2> SUFFICES ASSUME NEW j \in JobIds, admission[j] # NoAdmission, admissionLeft[j] > 0,
                      ActiveLease(j, admission[j].attempt, admission[j].owner)
               PROVE  admission'[j] = admission[j]
    BY DEF AdmissionStep
  <2>1. CASE j # i
    BY <1>1, <2>1 DEF AcquireFinalization, TypeOK
  <2>2. CASE j = i
    <3>1. admission[i] \in Admissions
      BY <2>2 DEF TypeOK
    <3>2. admission[i].attempt = a /\ admission[i].owner = o
      BY <1>1, <2>2 DEF AcquireFinalization, ActiveLease
    <3>3. admission[i].token = t
      BY <1>1, <2>2, <3>2 DEF AcquireFinalization, AdmissionFree
    <3>4. admission[i] = [token |-> t, attempt |-> a, owner |-> o]
      BY <3>1, <3>2, <3>3 DEF Admissions
    <3>5. QED
      BY <1>1, <2>2, <3>4 DEF AcquireFinalization, TypeOK
  <2>3. QED
    BY <2>1, <2>2
<1>2. CASE UNCHANGED admission
  BY <1>2 DEF AdmissionStep
<1>3. ASSUME NEW i \in JobIds, NEW a \in 1..MaxAttempts, NEW o \in Owners,
             WorkMethod(i, a, o) \/ LeaseMethod(i, a, o)
      PROVE  UNCHANGED admission
  BY <1>3 DEF WorkMethod, EnsureBatches, CheckpointBatch, RecordTerminalFailure,
              LeaseMethod, RenewLease, ScheduleRetry, Release, Complete, Fail, EndClaim
<1>4. ASSUME NEW i \in JobIds, NEW a \in 1..MaxAttempts, NEW o \in Owners, NEW t \in Tokens,
             FinalizeMethod(i, a, o, t)
      PROVE  AdmissionStep
  BY <1>1, <1>2, <1>4 DEF FinalizeMethod, RenewFinalization, AdvanceFinalization,
                          SetDispatchState
<1>5. ASSUME \/ \E d \in Docs, c \in Checksums, k \in Contracts, p \in Priorities :
                   EnqueueExisting(d, c, p) \/ EnqueueNew(d, c, k, p)
             \/ \E i \in JobIds, o \in Owners : Claim(i, o)
             \/ \E i \in JobIds, d \in 1..MaxDelay : RetryFailed(i, d)
             \/ RecoverExpiredLeases \/ Tick \/ UNCHANGED vars
      PROVE  UNCHANGED admission
  BY <1>5 DEF EnqueueExisting, EnqueueNew, Claim, RetryFailed, RecoverExpiredLeases, Tick, vars
<1>6. QED
  BY <1>2, <1>3, <1>4, <1>5 DEF Next

\* While a finalizer is admitted under a live claim no other one is, for any number
\* of finalizers that ask (AcquireFinalizationContext).
THEOREM OneFinalizer == Spec => OneFinalizerPerClaim
<1>1. TypeOK /\ [Next]_vars => [AdmissionStep]_vars
  BY AdmissionNext
<1>2. QED
  BY TypeCorrect, <1>1, PTL DEF Spec, OneFinalizerPerClaim

-----------------------------------------------------------------------------
(***************************************************************************)
(* Batch plans.                                                            *)
(***************************************************************************)

\* A set of numbers that is not empty has a least one.
LEMMA LeastNumber ==
    ASSUME NEW T, T \subseteq Nat, T # {}
    PROVE  \E x \in T : \A y \in T : x <= y
<1>1. \E x \in T : \A y \in T : ~(<<y, x>> \in OpToRel(<, Nat))
  BY NatLessThanWellFounded, WFMin
<1>2. \A x, y \in Nat : y < x => <<y, x>> \in OpToRel(<, Nat)
  BY DEF OpToRel
<1>3. PICK x \in T : \A y \in T : ~(<<y, x>> \in OpToRel(<, Nat))
  BY <1>1
<1>4. \A y \in T : ~(y < x)
  BY <1>2, <1>3
<1>5. QED
  BY <1>4

\* A page up to the end of some range is in a range: of the ranges that reach that
\* far the one that starts first starts at the page or before, because its
\* predecessor would reach as far.
LEMMA RangesCover ==
    ASSUME NEW p \in Plans, ValidBatchRanges(p), NEW r \in p, NEW page \in 1..r[2]
    PROVE  \E s \in p : page \in s[1]..s[2]
<1>t. \A s \in p : s[1] \in Nat \ {0} /\ s[2] \in Nat /\ s[1] <= s[2]
  BY PlanAssumption DEF ValidBatchRanges, ValidBatchRange
<1> DEFINE Starts == {s[1] : s \in {u \in p : u[2] >= page}}
<1>1. Starts \subseteq Nat /\ r[1] \in Starts
  BY <1>t
<1>2. PICK x \in Starts : \A y \in Starts : x <= y
  BY <1>1, LeastNumber
<1>3. PICK s \in p : s[2] >= page /\ x = s[1]
  OBVIOUS
<1>4. ASSUME s[1] > page
      PROVE  FALSE
  <2>1. PICK u \in p : s[1] = u[2] + 1
    BY <1>4, <1>t DEF ValidBatchRanges
  <2>2. u[2] >= page /\ u[1] < s[1]
    BY <1>4, <1>t, <2>1
  <2>3. u[1] \in Starts
    BY <2>2
  <2>4. x <= u[1]
    <3> HIDE DEF Starts
    <3>1. QED
      BY <1>2, <2>3
  <2>5. QED
    BY <1>t, <1>3, <2>2, <2>4
<1>5. page \in s[1]..s[2]
  BY <1>3, <1>4, <1>t
<1>6. QED
  BY <1>5

\* No range starts inside another one: of those that do, consider the one that
\* starts first; its predecessor starts inside the other range or contains its start.
LEMMA RangesApart ==
    ASSUME NEW p \in Plans, ValidBatchRanges(p), NEW r \in p, NEW q \in p, r[1] < q[1]
    PROVE  r[2] < q[1]
<1>t. \A s \in p : s[1] \in Nat \ {0} /\ s[2] \in Nat /\ s[1] <= s[2]
  BY PlanAssumption DEF ValidBatchRanges, ValidBatchRange
<1> DEFINE Inside(s, u) == s[1] < u[1] /\ u[1] <= s[2]
           Starts == {u[1] : u \in {v \in p : \E s \in p : Inside(s, v)}}
<1>1. ASSUME Starts # {}
      PROVE  FALSE
  <2>1. Starts \subseteq Nat
    BY <1>t
  <2>2. PICK x \in Starts : \A y \in Starts : x <= y
    BY <1>1, <2>1, LeastNumber
  <2>3. PICK u \in p, s \in p : x = u[1] /\ Inside(s, u)
    OBVIOUS
  <2>4. PICK v \in p : u[1] = v[2] + 1
    BY <1>t, <2>3 DEF ValidBatchRanges
  <2>5. v[1] # s[1]
    BY <1>t, <2>3, <2>4 DEF ValidBatchRanges
  <2>6. CASE s[1] < v[1]
    <3>1. Inside(s, v) /\ v[1] < u[1]
      BY <1>t, <2>3, <2>4, <2>6
    <3>2. v[1] \in Starts
      BY <3>1
    <3>3. x <= v[1]
      <4> HIDE DEF Starts
      <4>1. QED
        BY <2>2, <3>2
    <3>4. QED
      BY <1>t, <2>3, <3>1, <3>3
  <2>7. CASE v[1] < s[1]
    <3>1. Inside(v, s) /\ s[1] < u[1]
      BY <1>t, <2>3, <2>4, <2>7
    <3>2. s[1] \in Starts
      BY <3>1
    <3>3. x <= s[1]
      <4> HIDE DEF Starts
      <4>1. QED
        BY <2>2, <3>2
    <3>4. QED
      BY <1>t, <2>3, <3>1, <3>3
  <2>8. QED
    BY <1>t, <2>5, <2>6, <2>7
<1>2. ~Inside(r, q)
  BY <1>1
<1>3. QED
  BY <1>t, <1>2

\* Together: the ranges of a valid plan partition the pages.
LEMMA RangesPartition ==
    ASSUME NEW p \in Plans, ValidBatchRanges(p), NEW r \in p, NEW page \in 1..r[2]
    PROVE  \E s \in p : page \in s[1]..s[2] /\ \A u \in p : page \in u[1]..u[2] => u = s
<1>t. \A s \in p : s[1] \in Nat \ {0} /\ s[2] \in Nat /\ s[1] <= s[2]
  BY PlanAssumption DEF ValidBatchRanges, ValidBatchRange
<1>1. PICK s \in p : page \in s[1]..s[2]
  BY RangesCover
<1>2. ASSUME NEW u \in p, page \in u[1]..u[2]
      PROVE  u = s
  <2>1. ~(u[1] < s[1]) /\ ~(s[1] < u[1])
    BY <1>1, <1>2, <1>t, RangesApart
  <2>2. u[1] = s[1]
    BY <1>t, <2>1
  <2>3. QED
    BY <2>2 DEF ValidBatchRanges
<1>3. QED
  BY <1>1, <1>2

\* Only validated plans are stored: batches[i] is empty or one of them.
PlansValid == \A i \in JobIds : DOMAIN batches[i] = {} \/ ValidBatchRanges(DOMAIN batches[i])

\* Every method keeps the stored plans valid.
LEMMA PlansValidNext ==
    ASSUME TypeOK, PlansValid, [Next]_vars
    PROVE  PlansValid'
<1>1. ASSUME NEW i \in JobIds, NEW a \in 1..MaxAttempts, NEW o \in Owners, WorkMethod(i, a, o)
      PROVE  PlansValid'
  <2>1. ASSUME NEW p \in Plans, EnsureBatches(i, a, o, p)
        PROVE  PlansValid'
    BY <2>1 DEF EnsureBatches, PlansValid, TypeOK
  <2>2. ASSUME NEW r \in UNION Plans, NEW text \in Texts, CheckpointBatch(i, a, o, r, text)
        PROVE  PlansValid'
    <3>1. \A j \in JobIds : DOMAIN batches'[j] = DOMAIN batches[j]
      BY <2>2 DEF CheckpointBatch, TypeOK
    <3>2. QED
      BY <3>1 DEF PlansValid
  <2>3. CASE RecordTerminalFailure(i, a, o)
    BY <2>3 DEF RecordTerminalFailure, PlansValid
  <2>4. QED
    BY <1>1, <2>1, <2>2, <2>3 DEF WorkMethod
<1>2. CASE UNCHANGED batches
  BY <1>2 DEF PlansValid
<1>3. ASSUME NEW i \in JobIds, NEW a \in 1..MaxAttempts, NEW o \in Owners, NEW t \in Tokens,
             FinalizeMethod(i, a, o, t)
      PROVE  UNCHANGED batches
  BY <1>3 DEF FinalizeMethod, AcquireFinalization, RenewFinalization, AdvanceFinalization,
              SetDispatchState
<1>4. QED
  BY <1>1, <1>2, <1>3, CheckpointsUntouched DEF Next

\* Every stored plan cuts the pages into ranges: each page is in exactly one, for
\* plans of any length.
THEOREM PlansPartition == Spec => []PlanPartitionsPages
<1>1. Init => PlansValid
  BY DEF Init, PlansValid, NoBatches
<1>2. TypeOK /\ PlansValid /\ [Next]_vars => PlansValid'
  BY PlansValidNext
<1>3. ASSUME TypeOK, PlansValid
      PROVE  PlanPartitionsPages
  <2>1. ASSUME NEW i \in JobIds, NEW r \in DOMAIN batches[i], NEW page \in 1..r[2]
        PROVE  \E s \in DOMAIN batches[i] :
                  page \in s[1]..s[2] /\ \A u \in DOMAIN batches[i] : page \in u[1]..u[2] => u = s
    <3>1. PICK p \in Plans \cup {{}} : batches[i] \in [p -> Texts \cup {None}]
      BY <1>3 DEF TypeOK, Results
    <3>2. DOMAIN batches[i] = p /\ p \in Plans /\ ValidBatchRanges(p)
      BY <1>3, <3>1 DEF PlansValid
    <3>3. QED
      BY <3>2, RangesPartition
  <2>2. QED
    BY <2>1 DEF PlanPartitionsPages
<1>4. QED
  BY TypeCorrect, <1>1, <1>2, <1>3, PTL DEF Spec
=============================================================================
