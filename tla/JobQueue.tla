------------------------------ MODULE JobQueue ------------------------------
(***************************************************************************)
(* The durable job queue (internal/queue/queue.go) over its SQLite tables: *)
(* jobs, batches, finalizations and finalization_controls.                 *)
(*                                                                         *)
(* Every method of Queue runs in one BEGIN IMMEDIATE transaction on the    *)
(* only connection of the pool, so every method is one action.  A method   *)
(* that returns an error rolls back: the action is then not enabled, and   *)
(* its guard is the condition under which the method commits.              *)
(*                                                                         *)
(* Instants are kept as the time left until them: lease_expires_at > now   *)
(* is leaseLeft[i] > 0, available_at <= now is delayLeft[i] = 0.  The       *)
(* timestamps are fixed-width UTC strings, whose text order is time order. *)
(* Rows are inserted in id order, so ORDER BY created_at, id is id order.  *)
(* Diagnostics (error_category, error_message) are left out: no guard of   *)
(* the queue reads them, except that a failure was recorded (failure).     *)
(***************************************************************************)
EXTENDS Integers

CONSTANTS
    Docs,           \* Paperless document ids
    Checksums,      \* source checksums
    Contracts,      \* (model, prompt version) pairs stored with a job
    Priorities,     \* PriorityBackfill < PriorityWebhook, as numbers
    Owners,         \* lease owners, one per process start (randomOwner)
    Tokens,         \* finalization admission tokens (randomToken)
    Plans,          \* batch plans: sets of ranges <<first, last, dpi>>
    Texts,          \* canonical batch results
    None,           \* SQL NULL
    MaxJobs,        \* bound: rows of the jobs table
    MaxAttempts,    \* bound: claims of one job
    LeaseDuration,  \* lifetime of a lease and of an admission
    MaxDelay        \* bound: longest retry delay

ASSUME PriorityAssumption == Priorities \subseteq Nat /\ 0 \in Priorities
ASSUME BoundAssumption ==
    /\ MaxJobs \in Nat /\ MaxAttempts \in Nat
    /\ LeaseDuration \in Nat \ {0} /\ MaxDelay \in Nat \ {0}
ASSUME NoneAssumption ==
    None \notin Docs \cup Checksums \cup Contracts \cup Owners \cup Tokens \cup Texts
\* A plan names its render settings with its page ranges.
ASSUME PlanAssumption ==
    \A p \in Plans : \A r \in p : r = <<r[1], r[2], r[3]>> /\ r[1] \in Int /\ r[2] \in Int

VARIABLES
    src,            \* jobs: document_id, source_checksum, model and prompt_version
    prio,           \* jobs: priority
    state,          \* jobs: state, "absent" where the id has no row
    attempts,       \* jobs: attempts
    owner,          \* jobs: lease_owner
    leaseLeft,      \* jobs: time left until lease_expires_at
    delayLeft,      \* jobs: time left until available_at
    batches,        \* table batches: planned range -> result (None: pending)
    fin,            \* table finalizations: the stage, "absent" without a row
    dispatch,       \* finalization_controls: dispatch_state
    admission,      \* finalization_controls: who holds the admission
    admissionLeft,  \* finalization_controls: time left until admission_expires_at
    failure         \* finalization_controls: a terminal failure is recorded

jobRow == <<src, prio, state, attempts, owner>>
finRow == <<fin, dispatch, admission, failure>>
timers == <<leaseLeft, delayLeft, admissionLeft>>
vars == <<jobRow, timers, batches, finRow>>

JobIds == 1..MaxJobs

CurrentStates == {"pending", "processing", "retry"}
TerminalStates == {"completed", "failed"}
States == {"absent"} \cup CurrentStates \cup TerminalStates
SuccessStages == {"content_updated", "complete_tag_added", "failed_tag_removed",
                  "metadata_dispatched"}
FailureStages == {"failure_pending", "failure_tag_added"}
Stages == {"pending"} \cup SuccessStages \cup FailureStages
DispatchStates == {"none", "reserved", "confirmed"}

Sources == [doc : Docs, sum : Checksums, contract : Contracts]
NoSource == [doc |-> None, sum |-> None, contract |-> None]
Admissions == [token : Tokens, attempt : 1..MaxAttempts, owner : Owners]
NoAdmission == [token |-> None, attempt |-> 0, owner |-> None]
Results == UNION {[p -> Texts \cup {None}] : p \in Plans \cup {{}}}
NoBatches == [r \in {} |-> None]

\* Every column holds a value of its type.
TypeOK ==
    /\ src \in [JobIds -> Sources \cup {NoSource}]
    /\ prio \in [JobIds -> Priorities]
    /\ state \in [JobIds -> States]
    /\ attempts \in [JobIds -> 0..MaxAttempts]
    /\ owner \in [JobIds -> Owners \cup {None}]
    /\ leaseLeft \in [JobIds -> 0..LeaseDuration]
    /\ delayLeft \in [JobIds -> 0..MaxDelay]
    /\ batches \in [JobIds -> Results]
    /\ fin \in [JobIds -> {"absent"} \cup Stages]
    /\ dispatch \in [JobIds -> DispatchStates]
    /\ admission \in [JobIds -> Admissions \cup {NoAdmission}]
    /\ admissionLeft \in [JobIds -> 0..LeaseDuration]
    /\ failure \in [JobIds -> BOOLEAN]

Init ==
    /\ src = [i \in JobIds |-> NoSource]
    /\ prio = [i \in JobIds |-> 0]
    /\ state = [i \in JobIds |-> "absent"]
    /\ attempts = [i \in JobIds |-> 0]
    /\ owner = [i \in JobIds |-> None]
    /\ leaseLeft = [i \in JobIds |-> 0]
    /\ delayLeft = [i \in JobIds |-> 0]
    /\ batches = [i \in JobIds |-> NoBatches]
    /\ fin = [i \in JobIds |-> "absent"]
    /\ dispatch = [i \in JobIds |-> "none"]
    /\ admission = [i \in JobIds |-> NoAdmission]
    /\ admissionLeft = [i \in JobIds |-> 0]
    /\ failure = [i \in JobIds |-> FALSE]

-----------------------------------------------------------------------------
(***************************************************************************)
(* Conditions the methods share.                                           *)
(***************************************************************************)

\* requireActiveLease, and the WHERE clause of every fenced UPDATE.
ActiveLease(i, a, o) ==
    /\ state[i] = "processing"
    /\ attempts[i] = a
    /\ owner[i] = o
    /\ leaseLeft[i] > 0

\* requireFinalizationAdmission.
Admitted(i, a, o, t) ==
    /\ ActiveLease(i, a, o)
    /\ admission[i] = [token |-> t, attempt |-> a, owner |-> o]
    /\ admissionLeft[i] > 0

\* SuccessFinalizationStartedContext and TerminalFailureContext, read under the lease.
SuccessFinalizationStarted(i) == fin[i] \in SuccessStages
TerminalFailure(i) == failure[i]

ValidBatchRange(r) == r[1] > 0 /\ r[2] >= r[1] /\ r[2] - r[1] < 5
\* A faulty variant: overlaps and gaps between ranges are let through.
ValidBatchRangesUnordered(p) == p # {} /\ \A r \in p : ValidBatchRange(r)
\* validBatchRanges: the ranges start at page 1 and each follows its predecessor.
ValidBatchRanges(p) ==
    /\ \E r \in p : r[1] = 1
    /\ \A r \in p : /\ ValidBatchRange(r)
                    /\ r[1] # 1 => \E s \in p : r[1] = s[2] + 1
                    /\ \A s \in p : s # r => s[1] # r[1]

-----------------------------------------------------------------------------
(***************************************************************************)
(* Enqueueing (EnqueueContext and the enqueue of ResolveCandidate).        *)
(***************************************************************************)

\* A faulty variant: a terminal row no longer stands for its source.
CurrentMatches(d, c) ==
    {i \in JobIds : src[i].doc = d /\ src[i].sum = c /\ state[i] \in CurrentStates}
\* The rows the SELECT of enqueue finds.
Matches(d, c) == {i \in JobIds : src[i].doc = d /\ src[i].sum = c}

StateRank(s) == CASE s \in CurrentStates -> 0 [] s = "completed" -> 1 [] OTHER -> 2

\* The row it returns: current work first, then completed, then the newest.
Preferred(i, d, c) ==
    /\ i \in Matches(d, c)
    /\ \A j \in Matches(d, c) :
          \/ StateRank(state[i]) < StateRank(state[j])
          \/ StateRank(state[i]) = StateRank(state[j]) /\ j <= i

\* An existing row is reused; queued work takes a higher priority.
EnqueueExisting(d, c, p) ==
    /\ \E i \in JobIds :
          /\ Preferred(i, d, c)
          /\ state[i] \in {"pending", "retry"} /\ p > prio[i]
          /\ prio' = [prio EXCEPT ![i] = p]
    /\ UNCHANGED <<src, state, attempts, owner, timers, batches, finRow>>

\* The first row for the source, available at once.
EnqueueNew(d, c, k, p) ==
    /\ Matches(d, c) = {}
    /\ \E i \in JobIds :
          /\ state[i] = "absent"
          /\ \A j \in JobIds : state[j] = "absent" => i <= j
          /\ src' = [src EXCEPT ![i] = [doc |-> d, sum |-> c, contract |-> k]]
          /\ prio' = [prio EXCEPT ![i] = p]
          /\ state' = [state EXCEPT ![i] = "pending"]
    /\ UNCHANGED <<attempts, owner, timers, batches, finRow>>

-----------------------------------------------------------------------------
(***************************************************************************)
(* Leases.                                                                 *)
(***************************************************************************)

Due(i) == state[i] \in {"pending", "retry"} /\ delayLeft[i] = 0

\* The head of ORDER BY priority DESC, created_at, id among the due rows.
ClaimNext(i) ==
    /\ Due(i)
    /\ \A j \in JobIds : Due(j) =>
          \/ prio[i] > prio[j]
          \/ prio[i] = prio[j] /\ i <= j

\* Faulty variants of Claim's guard and of its generation.
DueJobExists == \E i \in JobIds : Due(i)
FirstAttempt(n) == IF n = 0 THEN 1 ELSE n

\* SELECT count(*) FROM jobs WHERE state = 'processing' is zero.
NoActiveJob == \A j \in JobIds : state[j] # "processing"
NextAttempt(n) == n + 1

Claim(i, o) ==
    /\ NoActiveJob
    /\ ClaimNext(i)
    /\ attempts[i] < MaxAttempts
    /\ state' = [state EXCEPT ![i] = "processing"]
    /\ attempts' = [attempts EXCEPT ![i] = NextAttempt(@)]
    /\ owner' = [owner EXCEPT ![i] = o]
    /\ leaseLeft' = [leaseLeft EXCEPT ![i] = LeaseDuration]
    /\ UNCHANGED <<src, prio, delayLeft, admissionLeft, batches, finRow>>

RenewLease(i, a, o) ==
    /\ ActiveLease(i, a, o)
    /\ leaseLeft' = [leaseLeft EXCEPT ![i] = LeaseDuration]
    /\ UNCHANGED <<jobRow, delayLeft, admissionLeft, batches, finRow>>

\* A faulty variant: the owner stays on the row.
KeepOwner(i) == owner
\* lease_owner = NULL
DropOwner(i) == [owner EXCEPT ![i] = None]

\* A faulty variant of the fence: the expiry of the lease is not looked at.
LeaseNamed(i, a, o) == state[i] = "processing" /\ attempts[i] = a /\ owner[i] = o
\* The WHERE clause of the UPDATE that ends a claim.
MayEnd(i, a, o) == ActiveLease(i, a, o)

\* transitionProcessingContext: the claim ends with the row in state s, its
\* lease dropped and its next availability d from now.
EndClaim(i, a, o, s, d) ==
    /\ MayEnd(i, a, o)
    /\ state' = [state EXCEPT ![i] = s]
    /\ owner' = DropOwner(i)
    /\ leaseLeft' = [leaseLeft EXCEPT ![i] = 0]
    /\ delayLeft' = [delayLeft EXCEPT ![i] = d]
    /\ UNCHANGED <<src, prio, attempts, admissionLeft, batches, finRow>>

\* availableAt must be after now.
ScheduleRetry(i, a, o, d) == d > 0 /\ EndClaim(i, a, o, "retry", d)

\* ReleaseContext: an immediate retry, on shutdown.
Release(i, a, o) == EndClaim(i, a, o, "retry", 0)

\* A terminal row keeps its available_at, which is past since it was claimed.
Complete(i, a, o) == EndClaim(i, a, o, "completed", delayLeft[i])
Fail(i, a, o) == EndClaim(i, a, o, "failed", delayLeft[i])

\* RetryFailed: only without current work for the same source.
RetryFailed(i, d) ==
    /\ state[i] = "failed" /\ d > 0
    /\ \A j \in Matches(src[i].doc, src[i].sum) \ {i} : state[j] \notin CurrentStates
    /\ state' = [state EXCEPT ![i] = "retry"]
    /\ delayLeft' = [delayLeft EXCEPT ![i] = d]
    /\ UNCHANGED <<src, prio, attempts, owner, leaseLeft, admissionLeft, batches, finRow>>

\* lease_expires_at <= now
Expired(i) == state[i] = "processing" /\ leaseLeft[i] = 0

\* RecoverExpiredLeases: every expired lease at once, for immediate retry.
RecoverExpiredLeases ==
    /\ \E i \in JobIds : Expired(i)
    /\ state' = [i \in JobIds |-> IF Expired(i) THEN "retry" ELSE state[i]]
    /\ owner' = [i \in JobIds |-> IF Expired(i) THEN None ELSE owner[i]]
    /\ delayLeft' = [i \in JobIds |-> IF Expired(i) THEN 0 ELSE delayLeft[i]]
    /\ UNCHANGED <<src, prio, attempts, leaseLeft, admissionLeft, batches, finRow>>

-----------------------------------------------------------------------------
(***************************************************************************)
(* Batch checkpoints.                                                      *)
(***************************************************************************)

\* EnsureBatchesContext on a job with batches changes nothing, and fails
\* unless the plan is the stored one.
SameBatchPlan(i, p) == DOMAIN batches[i] = p

EnsureBatches(i, a, o, p) ==
    /\ ActiveLease(i, a, o)
    /\ ValidBatchRanges(p)
    /\ DOMAIN batches[i] = {}
    /\ batches' = [batches EXCEPT ![i] = [r \in p |-> None]]
    /\ UNCHANGED <<jobRow, timers, finRow>>

\* A faulty variant: a completed checkpoint is overwritten.
CheckpointAny(i, r) == r \in DOMAIN batches[i]
\* Only a pending batch takes a result; storing the same result again is a no-op.
CheckpointPending(i, r) == r \in DOMAIN batches[i] /\ batches[i][r] = None

CheckpointBatch(i, a, o, r, text) ==
    /\ ActiveLease(i, a, o)
    /\ CheckpointPending(i, r)
    /\ batches' = [batches EXCEPT ![i] = [@ EXCEPT ![r] = text]]
    /\ UNCHANGED <<jobRow, timers, finRow>>

-----------------------------------------------------------------------------
(***************************************************************************)
(* Finalization checkpoints.                                               *)
(***************************************************************************)

\* A faulty variant: any finalizer under the lease is admitted.
AdmissionAny(i, a, o, t) == TRUE
\* The WHERE clause of the admission UPDATE.
AdmissionFree(i, a, o, t) ==
    \/ admission[i] = NoAdmission \/ admissionLeft[i] = 0
    \/ admission[i].attempt # a \/ admission[i].owner # o \/ admission[i].token = t

AcquireFinalization(i, a, o, t) ==
    /\ ActiveLease(i, a, o)
    /\ AdmissionFree(i, a, o, t)
    /\ fin' = [fin EXCEPT ![i] = IF @ = "absent" THEN "pending" ELSE @]
    /\ admission' = [admission EXCEPT ![i] = [token |-> t, attempt |-> a, owner |-> o]]
    /\ admissionLeft' = [admissionLeft EXCEPT ![i] = LeaseDuration]
    /\ UNCHANGED <<jobRow, leaseLeft, delayLeft, batches, dispatch, failure>>

RenewFinalization(i, a, o, t) ==
    /\ Admitted(i, a, o, t)
    /\ admissionLeft' = [admissionLeft EXCEPT ![i] = LeaseDuration]
    /\ UNCHANGED <<jobRow, leaseLeft, delayLeft, batches, finRow>>

\* validFinalizationTransition
FinalizationTransitions ==
    {<<"pending", "content_updated">>, <<"pending", "failure_pending">>,
     <<"content_updated", "complete_tag_added">>,
     <<"complete_tag_added", "failed_tag_removed">>,
     <<"failed_tag_removed", "metadata_dispatched">>,
     <<"failure_pending", "failure_tag_added">>}

\* A faulty variant: the stage on disk is not compared with the expected one.
StageAny(i, from) == fin[i] # "absent"
StageIs(i, from) == fin[i] = from

AdvanceFinalization(i, a, o, t, from, to) ==
    /\ <<from, to>> \in FinalizationTransitions
    /\ Admitted(i, a, o, t)
    /\ StageIs(i, from)
    /\ fin' = [fin EXCEPT ![i] = to]
    /\ UNCHANGED <<jobRow, timers, batches, dispatch, admission, failure>>

SetDispatchState(i, a, o, t, from, to) ==
    /\ <<from, to>> \in {<<"none", "reserved">>, <<"reserved", "none">>,
                         <<"reserved", "confirmed">>}
    /\ Admitted(i, a, o, t)
    /\ dispatch[i] = from
    /\ dispatch' = [dispatch EXCEPT ![i] = to]
    /\ UNCHANGED <<jobRow, timers, batches, fin, admission, failure>>

\* A faulty variant: the failure intent is stored whatever the stage is.
MayRecordAlways(i) == TRUE
\* Terminal failure is refused once a success stage, or the failed tag, is recorded.
MayRecordFailure(i) == fin[i] \in {"absent", "pending", "failure_pending"}

RecordTerminalFailure(i, a, o) ==
    /\ ActiveLease(i, a, o)
    /\ MayRecordFailure(i)
    /\ fin' = [fin EXCEPT ![i] = IF @ \in {"absent", "pending"} THEN "failure_pending" ELSE @]
    /\ failure' = [failure EXCEPT ![i] = TRUE]
    /\ UNCHANGED <<jobRow, timers, batches, dispatch, admission>>

-----------------------------------------------------------------------------

\* Time passes: every running timer loses a unit.
Elapse(n) == IF n = 0 THEN 0 ELSE n - 1
Tick ==
    /\ leaseLeft' = [i \in JobIds |-> Elapse(leaseLeft[i])]
    /\ delayLeft' = [i \in JobIds |-> Elapse(delayLeft[i])]
    /\ admissionLeft' = [i \in JobIds |-> Elapse(admissionLeft[i])]
    /\ UNCHANGED <<jobRow, batches, finRow>>

\* Every method, called with any arguments: callers may hold stale claims.
LeaseMethod(i, a, o) ==
    \/ RenewLease(i, a, o)
    \/ \E d \in 1..MaxDelay : ScheduleRetry(i, a, o, d)
    \/ Release(i, a, o)
    \/ Complete(i, a, o)
    \/ Fail(i, a, o)

WorkMethod(i, a, o) ==
    \/ \E p \in Plans : EnsureBatches(i, a, o, p)
    \/ \E r \in UNION Plans, text \in Texts : CheckpointBatch(i, a, o, r, text)
    \/ RecordTerminalFailure(i, a, o)

FinalizeMethod(i, a, o, t) ==
    \/ AcquireFinalization(i, a, o, t)
    \/ RenewFinalization(i, a, o, t)
    \/ \E from, to \in Stages : AdvanceFinalization(i, a, o, t, from, to)
    \/ \E from, to \in DispatchStates : SetDispatchState(i, a, o, t, from, to)

Next ==
    \/ \E d \in Docs, c \in Checksums, k \in Contracts, p \in Priorities :
          EnqueueExisting(d, c, p) \/ EnqueueNew(d, c, k, p)
    \/ \E i \in JobIds, o \in Owners : Claim(i, o)
    \/ \E i \in JobIds, a \in 1..MaxAttempts, o \in Owners :
          \/ LeaseMethod(i, a, o)
          \/ WorkMethod(i, a, o)
          \/ \E t \in Tokens : FinalizeMethod(i, a, o, t)
    \/ \E i \in JobIds, d \in 1..MaxDelay : RetryFailed(i, d)
    \/ RecoverExpiredLeases
    \/ Tick

Spec == Init /\ [][Next]_vars

-----------------------------------------------------------------------------
(***************************************************************************)
(* Properties.                                                             *)
(***************************************************************************)

\* The queue is "single-active-worker" (package comment): whatever mixture of
\* claims, expiries, recoveries and stale calls, two rows are never processing.
SingleActiveJob ==
    \A i, j \in JobIds : state[i] = "processing" /\ state[j] = "processing" => i = j

\* Jobs are identified by document and checksum: enqueue reuses a terminal row
\* as well as a current one, so a source never gets a second row, and neither the
\* unique index nor the conflict check of RetryFailed ever has to reject one.
OneJobPerSource ==
    \A i, j \in JobIds :
        /\ state[i] # "absent" /\ state[j] # "absent"
        /\ src[i].doc = src[j].doc /\ src[i].sum = src[j].sum
        => i = j

\* A row carries a lease owner exactly while it is processing, and then it has
\* been claimed: no transition out of processing leaves a lease behind that a
\* later fenced UPDATE could match.
LeaseIffProcessing ==
    \A i \in JobIds :
        /\ state[i] = "processing" <=> owner[i] # None
        /\ state[i] = "processing" => attempts[i] > 0
        /\ leaseLeft[i] > 0 => state[i] = "processing"

\* A recorded terminal OCR failure and a success stage exclude each other for
\* ever: RecordTerminalFailureContext and AdvanceFinalizationContext guard the
\* same stage column from two sides.
FailureExcludesSuccess ==
    \A i \in JobIds : TerminalFailure(i) => fin[i] \in FailureStages

\* A stored batch plan cuts pages 1..last into ranges: every page is in exactly
\* one of them, so joined results neither lose nor repeat a page.
PlanPartitionsPages ==
    \A i \in JobIds :
        LET plan == DOMAIN batches[i] IN
        \A r \in plan : \A page \in 1..r[2] :
            \E s \in plan : /\ page \in s[1]..s[2]
                            /\ \A u \in plan : page \in u[1]..u[2] => u = s

\* A row that is or becomes processing.
GenerationStep ==
    \A i \in JobIds : state'[i] = "processing" =>
       \/ state[i] = "processing" /\ attempts'[i] = attempts[i] /\ owner'[i] = owner[i]
       \/ state[i] # "processing" /\ attempts'[i] > attempts[i]
\* A claim generation (id, attempts) is issued once: a row that becomes
\* processing has a new attempts value, and while it is processing its owner
\* stays, so a stale holder's arguments never match again.
GenerationIssuedOnce == [][GenerationStep]_vars

\* What may happen to a row whose lease is not live.
FencedStep ==
    \A i \in JobIds : leaseLeft[i] = 0 =>
       /\ state[i] = "processing" => state'[i] \in {"processing", "retry"}
       /\ batches'[i] = batches[i] /\ fin'[i] = fin[i]
       /\ dispatch'[i] = dispatch[i] /\ failure'[i] = failure[i]
       /\ admission'[i] = admission[i]
\* Expiry is final for the holder: a claim whose lease ran out only goes back to
\* retry (by recovery), and no checkpoint of the job changes without a live lease.
ExpiredClaimIsFenced == [][FencedStep]_vars

\* What may happen to the checkpoints of a row.
CheckpointStep ==
    \A i \in JobIds :
       /\ DOMAIN batches[i] # {} => DOMAIN batches'[i] = DOMAIN batches[i]
       /\ \A r \in DOMAIN batches[i] :
             batches[i][r] # None => batches'[i][r] = batches[i][r]
\* Checkpoints are durable: a completed result is never replaced and a plan is
\* never changed, across retries and claims.
CheckpointsImmutable == [][CheckpointStep]_vars

\* What may happen to the stage of a row.
StageStep ==
    \A i \in JobIds : fin'[i] # fin[i] =>
       \/ fin[i] = "absent" /\ fin'[i] \in {"pending", "failure_pending"}
       \/ <<fin[i], fin'[i]>> \in FinalizationTransitions
\* The stage of a finalization only moves along the confirmed side effects, one
\* at a time; in particular it never goes back and never leaves its branch.
StagesInOrder == [][StageStep]_vars

\* What may happen to a live admission.
AdmissionStep ==
    \A i \in JobIds :
       /\ admission[i] # NoAdmission /\ admissionLeft[i] > 0
       /\ ActiveLease(i, admission[i].attempt, admission[i].owner)
       => admission'[i] = admission[i]
\* While a finalizer is admitted under a live claim, no other finalizer is
\* admitted under that claim.
OneFinalizerPerClaim == [][AdmissionStep]_vars
=============================================================================
