------------------------------- MODULE Intake -------------------------------
(***************************************************************************)
(* How documents become jobs: the webhook handler (internal/server), the   *)
(* candidates table (internal/queue) and the reconciler (internal/         *)
(* reconcile), which resolves candidates and then scans archive pages.     *)
(*                                                                         *)
(* A process runs one reconciliation at a time; the webhook handler runs   *)
(* beside it.  Calls to Paperless and to the store are steps of their own, *)
(* so a webhook, a new version or a crash may fall between any two.  An    *)
(* error of RunOnce stops the process, which is then started again.        *)
(***************************************************************************)
EXTENDS JobQueue, Sequences, SequencesExt

CONSTANTS
    First,                   \* the empty cursor: the first archive page
    Cursors,                 \* the URLs Paperless hands out as next pages
    Aliases,                 \* those of them that spell out the first page
    Archives,                \* archives: documents and next cursor per page
    MaxCandidatesPerPass,
    MaxArchivePagesPerPass,
    MaxArchivePagesPerScan,
    IntakeBudget             \* bound: how often each event below happens

Events == {"webhook", "change", "fault"}
Pages == Cursors \cup {First}
Blank == 0
Missing == -1
PriorityBackfill == 0
PriorityWebhook == 100

ASSUME PageAssumption ==
    /\ First \notin Cursors /\ None \notin Pages /\ Aliases \subseteq Cursors
    /\ \A a \in Archives :
          /\ a \in [list : [Pages -> SUBSET Docs], next : [Pages -> Cursors \cup {None}]]
          /\ \A c \in Aliases : a.list[c] = a.list[First] /\ a.next[c] = a.next[First]
ASSUME LimitAssumption ==
    /\ {MaxCandidatesPerPass, MaxArchivePagesPerPass, MaxArchivePagesPerScan} \subseteq Nat \ {0}
    /\ IntakeBudget \in [Events -> Nat]
\* Later versions of an original have larger checksums.
ASSUME VersionAssumption ==
    Checksums \subseteq Nat \ {0} /\ Priorities = {PriorityBackfill, PriorityWebhook}

VARIABLES
    version,     \* Paperless: a document's checksum, Blank or Missing
    archive,     \* Paperless: what the listing serves
    candidates,  \* table candidates, in created_at order
    saved,       \* table settings: the archive checkpoint, NoScan without a row
    at,          \* where the reconciler stands
    left,        \* candidates this pass may still take
    picked,      \* the candidate it resolves: document and generation
    got,         \* the checksum GetDocument returned
    scan,        \* the checkpoint of the pass
    pages,       \* archive pages this pass may still take
    todo,        \* listed documents not enqueued yet
    wanted,      \* history: the version a document had at its last webhook
    events       \* events left

passVars == <<left, picked, got, scan, pages, todo>>
worldVars == <<version, archive, wanted>>
intakeVars == <<vars, worldVars, candidates, saved, at, passVars, events>>

NoScan == [next |-> First, visited |-> <<>>, pages |-> 0]
NoCandidate == [doc |-> None, gen |-> 0]

PassReset ==
    /\ left' = 0 /\ picked' = NoCandidate /\ got' = Missing
    /\ scan' = NoScan /\ pages' = 0 /\ todo' = {}

IntakeInit ==
    /\ Init
    /\ version \in [Docs -> {Blank} \cup Checksums] /\ archive \in Archives
    /\ candidates = <<>> /\ saved = NoScan /\ at = "down"
    /\ left = 0 /\ picked = NoCandidate /\ got = Missing
    /\ scan = NoScan /\ pages = 0 /\ todo = {}
    /\ wanted = [d \in Docs |-> Blank] /\ events = IntakeBudget

Spend(e) == events[e] > 0 /\ events' = [events EXCEPT ![e] = @ - 1]
Goto(p) == at' = p /\ UNCHANGED events
\* RunOnce returned an error: background cancels the service.
Stops == Goto("down") /\ PassReset

-----------------------------------------------------------------------------
(***************************************************************************)
(* The candidates table.                                                   *)
(***************************************************************************)

RowOf(d) == {n \in DOMAIN candidates : candidates[n].doc = d}

\* A webhook refreshes its document's row or adds one.
EnqueueCandidate(d, p) ==
    IF RowOf(d) = {}
    THEN candidates' = Append(candidates, [doc |-> d, prio |-> p, gen |-> 1])
    ELSE candidates' = [n \in DOMAIN candidates |->
            IF n \in RowOf(d)
            THEN [doc |-> d, gen |-> candidates[n].gen + 1,
                  prio |-> IF p > candidates[n].prio THEN p ELSE candidates[n].prio]
            ELSE candidates[n]]

\* ORDER BY priority DESC, created_at
NextCandidate(n) ==
    /\ n \in DOMAIN candidates
    /\ \A m \in DOMAIN candidates :
          \/ candidates[n].prio > candidates[m].prio
          \/ candidates[n].prio = candidates[m].prio /\ n <= m

\* A faulty variant: the generation is not compared.
UnfencedRow(n, c) == candidates[n].doc = c.doc
\* WHERE document_id = ? AND generation = ?
SameGeneration(n, c) == candidates[n].doc = c.doc /\ candidates[n].gen = c.gen

\* enqueue: a new row, a promoted one, or an existing one left as it is.
Enqueue(d, c, p) ==
    \/ \E k \in Contracts : EnqueueNew(d, c, k, p)
    \/ EnqueueExisting(d, c, p)
    \/ /\ \E i \in JobIds : Preferred(i, d, c)
                            /\ ~(state[i] \in {"pending", "retry"} /\ p > prio[i])
       /\ UNCHANGED vars

\* The webhook handler: any document id, while the server is up.
Webhook(d) ==
    /\ at # "down" /\ Spend("webhook")
    /\ EnqueueCandidate(d, PriorityWebhook)
    /\ wanted' = [wanted EXCEPT ![d] = IF version[d] = Missing THEN Blank ELSE version[d]]
    /\ UNCHANGED <<vars, version, archive, saved, at, passVars>>

-----------------------------------------------------------------------------
(***************************************************************************)
(* RunOnce: candidates.                                                    *)
(***************************************************************************)

\* Faulty variants: one candidate fewer or more than configured.
OneFewer == MaxCandidatesPerPass - 1
OneMore == MaxCandidatesPerPass + 1
CandidateQuota == MaxCandidatesPerPass

\* The first pass of a process, and the passes of reconcileLoop.
BeginPass ==
    /\ at \in {"down", "wait"}
    /\ left' = CandidateQuota
    /\ Goto("next")
    /\ UNCHANGED <<vars, worldVars, candidates, saved, picked, got, scan, pages, todo>>

Pick ==
    /\ at = "next" /\ left > 0
    /\ \E n \in DOMAIN candidates :
          NextCandidate(n) /\ picked' = [doc |-> candidates[n].doc, gen |-> candidates[n].gen]
    /\ left' = left - 1
    /\ Goto("get")
    /\ UNCHANGED <<vars, worldVars, candidates, saved, got, scan, pages, todo>>

\* The quota is used up or no candidate is left.
PickNone ==
    /\ at = "next" /\ (left = 0 \/ candidates = <<>>)
    /\ Goto("recheck")
    /\ UNCHANGED <<vars, worldVars, candidates, saved, passVars>>

Get ==
    /\ at = "get"
    /\ got' = version[picked.doc]
    /\ Goto("settle")
    /\ UNCHANGED <<vars, worldVars, candidates, saved, left, picked, scan, pages, todo>>

\* DiscardCandidate without a checksum, ResolveCandidate with one; a candidate
\* refreshed since it was picked stays.
Settle ==
    /\ at = "settle"
    /\ \/ \E n \in DOMAIN candidates :
             /\ SameGeneration(n, picked)
             /\ candidates' = RemoveAt(candidates, n)
             /\ IF got \in {Blank, Missing} THEN UNCHANGED vars
                ELSE Enqueue(picked.doc, got, candidates[n].prio)
       \/ /\ ~\E n \in DOMAIN candidates : SameGeneration(n, picked)
          /\ UNCHANGED <<vars, candidates>>
    /\ picked' = NoCandidate /\ got' = Missing
    /\ Goto("next")
    /\ UNCHANGED <<worldVars, saved, left, scan, pages, todo>>

\* Remaining candidates end the pass; otherwise the archive is scanned on.
Recheck ==
    /\ at = "recheck"
    /\ IF candidates # <<>>
       THEN PassReset /\ Goto("wait")
       ELSE /\ scan' = saved /\ pages' = MaxArchivePagesPerPass
            /\ UNCHANGED <<left, picked, got, todo>>
            /\ Goto("list")
    /\ UNCHANGED <<vars, worldVars, candidates, saved>>

-----------------------------------------------------------------------------
(***************************************************************************)
(* RunOnce: archive pages.                                                 *)
(***************************************************************************)

\* A faulty variant: the first page under another name is another page.
RawCursor(c) == c
\* fingerprintCursor
Fingerprint(c) == IF c \in Aliases THEN First ELSE c

LoopsBack(s) == \E n \in DOMAIN s.visited : s.visited[n] = Fingerprint(s.next)
Blocked(s) == LoopsBack(s) \/ s.pages >= MaxArchivePagesPerScan

\* ListDocumentsPage; a loop or the page limit is an error before it.
List ==
    /\ at = "list"
    /\ IF Blocked(scan) THEN Stops
       ELSE /\ todo' = {<<d, version[d]>> :
                          d \in {e \in archive.list[scan.next] : version[e] # Missing}}
            /\ UNCHANGED <<left, picked, got, scan, pages>>
            /\ Goto("page")
    /\ UNCHANGED <<vars, worldVars, candidates, saved>>

\* The next document of the page; a blank checksum is an error.
EnqueueListed ==
    /\ at = "page"
    /\ \E entry \in todo :
          IF entry[2] = Blank THEN Stops /\ UNCHANGED vars
          ELSE /\ Enqueue(entry[1], entry[2], PriorityBackfill)
               /\ todo' = todo \ {entry}
               /\ UNCHANGED <<left, picked, got, scan, pages>>
               /\ Goto("page")
    /\ UNCHANGED <<worldVars, candidates, saved>>

\* A faulty variant: progress is saved while documents are still to be enqueued.
AnyTime == TRUE
PageDone == todo = {}

\* A faulty variant: the cursor is not moved on.
SamePage(s) ==
    [next |-> s.next, visited |-> Append(s.visited, Fingerprint(s.next)), pages |-> s.pages + 1]
\* The checkpoint after a page.
NextPage(s) ==
    [next |-> archive.next[s.next], visited |-> Append(s.visited, Fingerprint(s.next)),
     pages |-> s.pages + 1]

\* setCheckpoint, or clearCheckpoint after the last page.
SavePage ==
    /\ at = "page" /\ PageDone
    /\ LET s == NextPage(scan) IN
       \/ /\ s.next = None
          /\ saved' = NoScan
          /\ PassReset /\ Goto("wait")
       \/ /\ s.next # None
          /\ saved' = s
          /\ \/ Blocked(s) /\ Stops
             \/ ~Blocked(s) /\ pages = 1 /\ PassReset /\ Goto("wait")
             \/ /\ ~Blocked(s) /\ pages > 1
                /\ scan' = s /\ pages' = pages - 1 /\ todo' = {}
                /\ UNCHANGED <<left, picked, got>>
                /\ Goto("list")
    /\ UNCHANGED <<vars, worldVars, candidates>>

-----------------------------------------------------------------------------

\* The process dies, or is stopped.
CrashIntake ==
    /\ at # "down" /\ Spend("fault")
    /\ at' = "down" /\ PassReset
    /\ UNCHANGED <<vars, worldVars, candidates, saved>>

\* GetDocument or ListDocumentsPage fails.
CallFails ==
    /\ at \in {"get", "list"} /\ Spend("fault")
    /\ at' = "down" /\ PassReset
    /\ UNCHANGED <<vars, worldVars, candidates, saved>>

\* A document gets a checksum or a new original, or is deleted.
ChangeDocument(d) ==
    /\ version[d] # Missing /\ Spend("change")
    /\ \E c \in {Missing} \cup {x \in Checksums : x > version[d]} :
          version' = [version EXCEPT ![d] = c]
    /\ UNCHANGED <<vars, archive, wanted, candidates, saved, at, passVars>>

Reconcile ==
    BeginPass \/ Pick \/ PickNone \/ Get \/ Settle \/ Recheck \/ List \/ EnqueueListed \/ SavePage

IntakeNext ==
    \/ Reconcile \/ CrashIntake \/ CallFails
    \/ \E d \in Docs : Webhook(d) \/ ChangeDocument(d)

\* Passes are repeated every POLL_INTERVAL and by every restart.
IntakeSpec == IntakeInit /\ [][IntakeNext]_intakeVars /\ WF_intakeVars(Reconcile)

-----------------------------------------------------------------------------
(***************************************************************************)
(* Properties.                                                             *)
(***************************************************************************)

Versions == Checksums \cup {Blank, Missing}
Checkpoints == [next : Pages, visited : Seq(Pages), pages : Nat]

\* The reconciler's state and the tables it keeps have their types.
IntakeTypeOK ==
    /\ TypeOK
    /\ version \in [Docs -> Versions] /\ wanted \in [Docs -> Versions \ {Missing}]
    /\ candidates \in Seq([doc : Docs, prio : Priorities, gen : Nat \ {0}])
    /\ saved \in Checkpoints /\ scan \in Checkpoints
    /\ at \in {"down", "wait", "next", "get", "settle", "recheck", "list", "page"}
    /\ left \in 0..MaxCandidatesPerPass /\ pages \in 0..MaxArchivePagesPerPass
    /\ picked \in [doc : Docs, gen : Nat] \cup {NoCandidate} /\ got \in Versions
    /\ todo \subseteq Docs \X (Versions \ {Missing})
    /\ events \in [Events -> Nat]

\* A job row for version c of d or a later one.
JobSince(d, c) == \E i \in JobIds : state[i] # "absent" /\ src[i].doc = d /\ src[i].sum >= c

\* An accepted webhook is not lost: while its document exists, there is a
\* candidate, or a job for the version the document had then or a later one.  A
\* webhook that arrives while its document is being resolved or discarded keeps
\* the candidate, because its generation moved on.
AcceptedWebhookKept ==
    \A d \in Docs : wanted[d] # Blank /\ version[d] # Missing =>
        RowOf(d) # {} \/ JobSince(d, wanted[d])

\* The archive checkpoint never runs ahead of the work: every document of a page
\* it records as visited has a job, wherever a pass was interrupted.
CheckpointBehindWork ==
    \A c \in Pages, n \in DOMAIN saved.visited : saved.visited[n] = Fingerprint(c) =>
        \A d \in archive.list[c] : version[d] = Missing \/ JobSince(d, Blank)

\* However Paperless links its pages, the stored checkpoint passes the validation
\* of checkpoint(), stays within the page limit, and holds no page twice, the
\* first page under another name included.
CheckpointWellFormed ==
    /\ saved = NoScan \/ (saved.next # First /\ saved.pages > 0)
    /\ Len(saved.visited) = saved.pages /\ saved.pages <= MaxArchivePagesPerScan
    /\ \A m, n \in DOMAIN saved.visited : m # n =>
          /\ saved.visited[m] # saved.visited[n]
          /\ ~(saved.visited[m] = First /\ saved.visited[n] \in Aliases)

\* An accepted webhook is served, even where the archive scan stops every pass.
WebhookServed ==
    \A d \in Docs, c \in Checksums : wanted[d] = c ~> JobSince(d, c) \/ version[d] = Missing

\* What a scan from the first page reaches within the page limit: the pages, and
\* None when the listing ends.
Reached ==
    LET within[n \in 0..MaxArchivePagesPerScan] ==
            IF n = 0 THEN {First}
            ELSE within[n - 1] \cup {archive.next[c] : c \in within[n - 1] \ {None}}
    IN  within[MaxArchivePagesPerScan]

\* A document nobody announced is found: while the listing ends within the page
\* limit and every document has a checksum, every listed document gets a job.
ArchiveBackfilled ==
    \A d \in Docs :
        /\ None \in Reached /\ \E c \in Reached \ {None} : d \in archive.list[c]
        /\ \A e \in Docs : version[e] # Blank
        ~> JobSince(d, Blank) \/ version[d] = Missing
=============================================================================
