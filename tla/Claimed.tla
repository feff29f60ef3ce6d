------------------------------ MODULE Claimed -------------------------------
(***************************************************************************)
(* The state around one claimed job that the worker, the finalizer and the *)
(* service loop share: the process that is running (internal/app), where   *)
(* its worker loop stands, and the systems it talks to.                    *)
(*                                                                         *)
(* One process runs at a time (docs/operations.md forbids replicas); each  *)
(* start draws a fresh owner.  A process has one worker loop, so one       *)
(* program counter.  Calls to Paperless, the AI gateway and Paperless AI   *)
(* are steps of their own; the store calls are the actions of JobQueue.    *)
(***************************************************************************)
EXTENDS JobQueue, FiniteSets

CONSTANTS
    Takes,         \* what distinguishes two transcriptions of one document version
    DirectPlan,    \* the one range of a directly transcribed PDF
    ImagePlan,     \* planRanges for rendered page images
    Capabilities,  \* outcomes of the startup probe: "direct", "images"
    Budget         \* bounds: how often each kind of fault happens, and all of them

\* The process dies; it stalls past its heartbeats; its context is cancelled;
\* somebody else changes Paperless; a call to another system fails; a store call of
\* the job in flight fails; the claim, the recovery or the release of a claim fails;
\* the configuration is changed.  "any" counts the faults of all kinds together.
FaultKinds == {"crash", "stall", "stop", "change", "error", "store", "handover", "config"}
Bounded == FaultKinds \cup {"any"}

ASSUME BudgetAssumption == Budget \in [Bounded -> Nat]
ASSUME TextAssumption == Texts = [sum : Checksums, take : Takes]
ASSUME CapabilityAssumption == Capabilities \subseteq {"direct", "images"}
ASSUME PlansAssumption ==
    /\ {DirectPlan, ImagePlan} \subseteq Plans
    /\ ValidBatchRanges(DirectPlan) /\ ValidBatchRanges(ImagePlan)
    /\ \E r \in UNION Plans : DirectPlan = {r}

VARIABLES
    source,      \* Paperless: checksum of the original, per document
    content,     \* Paperless: document.content, as the batch results it joins
    tags,        \* Paperless: the document's tags, the service's and another
    admitted,    \* Paperless AI: runs admitted per job
    up,          \* the owner of the running process, None when none runs
    born,        \* owners already drawn
    contract,    \* the configured model and prompt version
    capability,  \* what the startup probe found
    stopping,    \* the context of the process is cancelled
    pc,          \* where the worker loop stands
    job, att,    \* the claim it holds: job id (0: none) and attempt
    seen,        \* the document version the worker downloaded
    seenTags,    \* the tag list mutateTag read
    budget       \* faults left

docVars == <<source, content, tags, admitted>>
procVars == <<up, born, contract, capability, stopping>>
claimVars == <<job, att>>
localVars == <<seen, seenTags>>
allVars == <<vars, docVars, procVars, pc, claimVars, localVars, budget>>

\* The points between two calls of worker.process and of the finalizer.
WorkerPcs == {"check", "fetch", "download", "transcribe", "direct", "plan", "batch"}
FinalizerPcs == {"acquire", "verify", "content", "readTags", "writeTags", "advance",
                 "reserve", "send", "confirm", "reset", "acquireFailure"}
\* Transitions made with a context of their own, which a cancellation does not reach.
SettlingPcs == {"record", "classify", "reschedule", "complete", "fail", "outcome"}
Pcs == {"down", "start", "idle", "exit"} \cup WorkerPcs \cup FinalizerPcs \cup SettlingPcs

\* Paperless's own OCR text.
Native == NoBatches
Tags == {"complete", "failed", "other"}

\* The process, its claim and the other systems keep their types.
ClaimedTypeOK ==
    /\ source \in [Docs -> Checksums]
    /\ content \in [Docs -> Results]
    /\ tags \in [Docs -> SUBSET Tags]
    /\ admitted \in [JobIds -> Nat]
    /\ up \in Owners \cup {None} /\ born \subseteq Owners
    /\ contract \in Contracts
    /\ capability \in {"direct", "images", "unknown"}
    /\ stopping \in BOOLEAN
    /\ pc \in Pcs
    /\ job \in JobIds \cup {0} /\ att \in 0..MaxAttempts
    /\ seen \in Checksums \cup {None} /\ seenTags \subseteq Tags
    /\ budget \in [Bounded -> Nat]

ClaimedInit ==
    /\ source \in [Docs -> Checksums]
    /\ content = [d \in Docs |-> Native]
    /\ tags = [d \in Docs |-> {}]
    /\ admitted = [i \in JobIds |-> 0]
    /\ up = None /\ born = {} /\ contract \in Contracts /\ capability = "unknown"
    /\ stopping = FALSE
    /\ pc = "down" /\ job = 0 /\ att = 0
    /\ seen = None /\ seenTags = {}
    /\ budget = Budget

-----------------------------------------------------------------------------

\* The document of the claimed job, and its completed OCR result.
Doc == src[job].doc
HasPlan == DOMAIN batches[job] # {}
AllCompleted(i) == \A r \in DOMAIN batches[i] : batches[i][r] # None

\* The lease of the claim the loop holds is live.
Holds == ActiveLease(job, att, up)

Spend(kind) ==
    /\ budget[kind] > 0 /\ budget["any"] > 0
    /\ budget' = [budget EXCEPT ![kind] = @ - 1, !["any"] = @ - 1]

\* A step of the loop that touches neither the store nor another system.
Goto(p) == pc' = p /\ UNCHANGED <<procVars, claimVars>>
=============================================================================
