---------------------------- MODULE IntakeProofs ----------------------------
(***************************************************************************)
(* Proofs about Intake: what the candidates table, the reconciler and its  *)
(* archive checkpoint keep, for any archive, any limits and any number of  *)
(* documents, webhooks, changes and faults.                                *)
(***************************************************************************)
EXTENDS Intake, JobQueueProofs, SequenceTheorems

\* The rows of the candidates table.
Candidate == [doc : Docs, prio : Priorities, gen : Nat \ {0}]

-----------------------------------------------------------------------------
(***************************************************************************)
(* The inductive invariant.                                                *)
(***************************************************************************)

\* A job id without a row names no document.
RowsFilled == \A i \in JobIds : state[i] = "absent" => src[i] = NoSource

\* A document has at most one row in the candidates table.
OneRowPerDocument ==
    \A m, n \in DOMAIN candidates : candidates[m].doc = candidates[n].doc => m = n

\* While a candidate is resolved its row stays, at the generation picked or a later one.
PickedRow ==
    at \in {"get", "settle"} =>
        /\ picked.doc \in Docs
        /\ \E n \in DOMAIN candidates :
              candidates[n].doc = picked.doc /\ picked.gen <= candidates[n].gen

\* Documents only move on from the version a webhook saw.
WantedSeen == \A d \in Docs : wanted[d] # Blank =>
    version[d] = Missing \/ version[d] >= wanted[d]

\* An answer that may still be applied is not older than the last webhook.
AnswerServes(d) ==
    wanted[d] = Blank \/ version[d] = Missing \/ (got \in Checksums /\ got >= wanted[d])
AnswerFresh ==
    at = "settle" /\ (\E n \in DOMAIN candidates : SameGeneration(n, picked))
        => AnswerServes(picked.doc)

\* A checkpoint as the reconciler writes them: visited holds fingerprints, each once.
GoodScan(s) ==
    /\ s = NoScan \/ (s.next # First /\ s.pages > 0)
    /\ Len(s.visited) = s.pages /\ s.pages <= MaxArchivePagesPerScan
    /\ \A n \in DOMAIN s.visited : s.visited[n] \notin Aliases
    /\ \A m, n \in DOMAIN s.visited : m # n => s.visited[m] # s.visited[n]

\* A document that exists has a job.
Enqueued(d) == version[d] = Missing \/ JobSince(d, Blank)
\* The documents of the pages a checkpoint calls visited are enqueued.
WorkDone(s) ==
    \A c \in Pages, n \in DOMAIN s.visited : s.visited[n] = Fingerprint(c) =>
        \A d \in archive.list[c] : Enqueued(d)

\* A page is listed only where the scan may go on, and its documents are
\* enqueued or still to be enqueued.
PageListed ==
    at = "page" =>
        /\ ~Blocked(scan)
        /\ \A d \in archive.list[scan.next] : Enqueued(d) \/ \E e \in todo : e[1] = d

\* The inductive invariant of intake.
IntakeInv ==
    /\ IntakeTypeOK /\ RowsFilled /\ archive \in Archives
    /\ OneRowPerDocument /\ PickedRow /\ WantedSeen /\ AnswerFresh /\ AcceptedWebhookKept
    /\ GoodScan(saved) /\ GoodScan(scan) /\ WorkDone(saved) /\ WorkDone(scan) /\ PageListed

-----------------------------------------------------------------------------
(***************************************************************************)
(* Sequences: rows are taken out of the candidates table one at a time.    *)
(***************************************************************************)

\* RemoveAt closes the gap: the positions before n stay, the later ones move up.
LEMMA Removed ==
    ASSUME NEW S, NEW s \in Seq(S), NEW n \in DOMAIN s
    PROVE  /\ RemoveAt(s, n) \in Seq(S)
           /\ DOMAIN RemoveAt(s, n) = 1..(Len(s) - 1)
           /\ \A k \in 1..(Len(s) - 1) : RemoveAt(s, n)[k] = IF k < n THEN s[k] ELSE s[k + 1]
<1> DEFINE a == SubSeq(s, 1, n - 1)
           b == SubSeq(s, n + 1, Len(s))
<1>1. Len(s) \in Nat /\ DOMAIN s = 1..Len(s) /\ n \in 1..Len(s) /\ \A k \in 1..Len(s) : s[k] \in S
  BY LenProperties, ElementOfSeq
<1>2. /\ a \in Seq(S) /\ Len(a) = n - 1
      /\ \A k \in 1..(n - 1) : a[k] = s[k]
  <2>1. \A k \in 1..(n - 1) : s[k] \in S
    BY <1>1
  <2>2. /\ a \in Seq(S) /\ Len(a) = IF 1 <= n - 1 THEN (n - 1) - 1 + 1 ELSE 0
        /\ \A k \in 1..((n - 1) - 1 + 1) : a[k] = s[1 + k - 1]
    BY <1>1, <2>1, SubSeqProperties
  <2>3. QED
    BY <1>1, <2>2
<1>3. /\ b \in Seq(S) /\ Len(b) = Len(s) - n
      /\ \A k \in 1..(Len(s) - n) : b[k] = s[n + k]
  <2>1. \A k \in (n + 1)..Len(s) : s[k] \in S
    BY <1>1
  <2>2. /\ b \in Seq(S) /\ Len(b) = IF n + 1 <= Len(s) THEN Len(s) - (n + 1) + 1 ELSE 0
        /\ \A k \in 1..(Len(s) - (n + 1) + 1) : b[k] = s[(n + 1) + k - 1]
    BY <1>1, <2>1, SubSeqProperties
  <2> HIDE DEF b
  <2>3. Len(b) = Len(s) - n /\ Len(s) - (n + 1) + 1 = Len(s) - n
    BY <1>1, <2>2
  <2>4. ASSUME NEW k \in 1..(Len(s) - n)
        PROVE  b[k] = s[n + k]
    <3>1. b[k] = s[(n + 1) + k - 1] /\ (n + 1) + k - 1 = n + k
      BY <1>1, <2>2, <2>3
    <3>2. QED
      BY <3>1
  <2>5. QED
    BY <2>2, <2>3, <2>4
<1> HIDE DEF a, b
<1>4. /\ a \o b \in Seq(S) /\ Len(a \o b) = Len(a) + Len(b)
      /\ \A k \in 1..(Len(a) + Len(b)) : (a \o b)[k] = IF k <= Len(a) THEN a[k] ELSE b[k - Len(a)]
  BY <1>2, <1>3, ConcatProperties
<1>5. DOMAIN (a \o b) = 1..(Len(s) - 1)
  <2>1. Len(a \o b) = Len(s) - 1
    BY <1>1, <1>2, <1>3, <1>4
  <2>2. DOMAIN (a \o b) = 1..Len(a \o b)
    BY <1>4, LenProperties
  <2>3. QED
    BY <2>1, <2>2
<1>6. ASSUME NEW k \in 1..(Len(s) - 1)
      PROVE  (a \o b)[k] = IF k < n THEN s[k] ELSE s[k + 1]
  <2>1. CASE k < n
    BY <2>1, <1>1, <1>2, <1>3, <1>4
  <2>2. CASE ~(k < n)
    <3>1. k - (n - 1) \in 1..(Len(s) - n) /\ n + (k - (n - 1)) = k + 1 /\ ~(k <= n - 1)
      BY <2>2, <1>1
    <3>2. b[k - (n - 1)] = s[k + 1]
      BY <3>1, <1>3
    <3>3. (a \o b)[k] = b[k - Len(a)]
      <4>1. k \in 1..(Len(a) + Len(b)) /\ ~(k <= Len(a))
        BY <3>1, <1>1, <1>2, <1>3
      <4>2. QED
        BY <4>1, <1>4
    <3>4. QED
      BY <2>2, <3>2, <3>3, <1>2
  <2>3. QED
    BY <2>1, <2>2
<1>7. RemoveAt(s, n) = a \o b
  BY DEF RemoveAt, a, b
<1>8. QED
  BY <1>4, <1>5, <1>6, <1>7

-----------------------------------------------------------------------------
(***************************************************************************)
(* The jobs table: intake only enqueues.                                   *)
(***************************************************************************)

\* Rows that exist stay and keep their source.
RowsKept == \A i \in JobIds : state[i] # "absent" => state'[i] # "absent" /\ src'[i] = src[i]

\* Whichever way enqueue goes, afterwards there is a row for the source.
LEMMA EnqueueServes ==
    ASSUME TypeOK, RowsFilled, NEW d \in Docs, NEW c \in Checksums, NEW p \in Priorities,
           Enqueue(d, c, p)
    PROVE  /\ [Next]_vars /\ RowsKept /\ RowsFilled'
           /\ \E i \in JobIds : state'[i] # "absent" /\ src'[i].doc = d /\ src'[i].sum = c
<1>1. CASE \E k \in Contracts : EnqueueNew(d, c, k, p)
  <2>1. PICK k \in Contracts : EnqueueNew(d, c, k, p)
    BY <1>1
  <2>2. Next
    BY <2>1 DEF Next
  <2>3. QED
    BY <2>1, <2>2 DEF EnqueueNew, TypeOK, RowsKept, RowsFilled
<1>2. CASE EnqueueExisting(d, c, p)
  <2>1. Contracts # {}
    <3>1. PICK i \in JobIds : Preferred(i, d, c)
      BY <1>2 DEF EnqueueExisting
    <3>2. src[i] # NoSource
      BY <3>1, NoneAssumption DEF Preferred, Matches, NoSource
    <3>3. QED
      BY <3>2 DEF TypeOK, Sources
  <2>2. Next
    BY <1>2, <2>1 DEF Next
  <2>3. \E i \in JobIds : state[i] # "absent" /\ src[i].doc = d /\ src[i].sum = c
    BY <1>2, NoneAssumption DEF EnqueueExisting, Preferred, Matches, RowsFilled, NoSource
  <2>4. QED
    BY <1>2, <2>2, <2>3 DEF EnqueueExisting, RowsKept, RowsFilled
<1>3. CASE (\E i \in JobIds : Preferred(i, d, c)) /\ UNCHANGED vars
  <2>1. \E i \in JobIds : state[i] # "absent" /\ src[i].doc = d /\ src[i].sum = c
    BY <1>3, NoneAssumption DEF Preferred, Matches, RowsFilled, NoSource
  <2>2. QED
    BY <1>3, <2>1 DEF vars, jobRow, RowsKept, RowsFilled
<1>4. QED
  BY <1>1, <1>2, <1>3 DEF Enqueue

\* A step that leaves the queue alone.
LEMMA QueueUntouched ==
    ASSUME RowsFilled, UNCHANGED vars
    PROVE  [Next]_vars /\ RowsKept /\ RowsFilled'
BY DEF vars, jobRow, RowsKept, RowsFilled

\* Every position of the candidates table holds such a row.
LEMMA CandidateRow ==
    ASSUME IntakeTypeOK
    PROVE  /\ candidates \in Seq(Candidate)
           /\ Len(candidates) \in Nat /\ DOMAIN candidates = 1..Len(candidates)
           /\ \A n \in DOMAIN candidates : candidates[n] \in Candidate
<1>1. candidates \in Seq(Candidate)
  BY DEF IntakeTypeOK, Candidate
<1>2. QED
  BY <1>1, ElementOfSeq, LenProperties

\* Settling a candidate is a call of the queue, or none; applied to a row of the
\* picked generation, an answer with a checksum leaves a job for it.
LEMMA SettleStep ==
    ASSUME IntakeInv, Settle, NEW d, NEW c, d = picked.doc, c = got
    PROVE  /\ [Next]_vars /\ RowsKept /\ RowsFilled'
           /\ c \in Checksums /\ (\E n \in DOMAIN candidates : SameGeneration(n, picked))
                 => JobSince(d, c)'
<1> USE DEF IntakeInv, IntakeTypeOK
<1>1. ASSUME NEW n \in DOMAIN candidates, SameGeneration(n, picked), got \notin {Blank, Missing},
             Enqueue(picked.doc, got, candidates[n].prio)
      PROVE  /\ [Next]_vars /\ RowsKept /\ RowsFilled'
             /\ JobSince(d, c)'
  <2>1. d \in Docs
    BY DEF Settle, PickedRow
  <2>2. c \in Checksums
    BY <1>1 DEF Versions
  <2>3. PICK q \in Priorities : q = candidates[n].prio
    BY <1>1, CandidateRow DEF Candidate
  <2>4. Enqueue(d, c, q)
    <3> HIDE DEF IntakeInv, IntakeTypeOK
    <3>1. d = picked.doc /\ c = got /\ Enqueue(picked.doc, got, candidates[n].prio)
      BY <1>1
    <3>2. QED
      BY <2>3, <3>1 DEF Enqueue, EnqueueNew, EnqueueExisting, Preferred, Matches
  <2>5. /\ [Next]_vars /\ RowsKept /\ RowsFilled'
        /\ \E i \in JobIds : state'[i] # "absent" /\ src'[i].doc = d /\ src'[i].sum = c
    BY <2>1, <2>2, <2>4, EnqueueServes
  <2>6. PICK i \in JobIds : state'[i] # "absent" /\ src'[i].doc = d /\ src'[i].sum = c
    BY <2>5
  <2>7. src'[i].sum >= c
    BY <2>2, <2>6, VersionAssumption
  <2>8. QED
    BY <2>5, <2>6, <2>7 DEF JobSince
<1>2. CASE UNCHANGED vars /\ \A n \in DOMAIN candidates :
              SameGeneration(n, picked) => got \in {Blank, Missing}
  <2>1. got \in {Blank, Missing} => got \notin Checksums
    BY VersionAssumption DEF Blank, Missing
  <2>2. QED
    BY <1>2, <2>1, QueueUntouched
<1>3. CASE ~\E n \in DOMAIN candidates : SameGeneration(n, picked)
  BY <1>2, <1>3 DEF Settle
<1>4. ASSUME NEW n \in DOMAIN candidates, SameGeneration(n, picked)
      PROVE  /\ [Next]_vars /\ RowsKept /\ RowsFilled'
             /\ c \in Checksums => JobSince(d, c)'
  <2>1. \/ UNCHANGED vars /\ got \in {Blank, Missing}
        \/ \E m \in DOMAIN candidates : /\ SameGeneration(m, picked) /\ got \notin {Blank, Missing}
                                        /\ Enqueue(picked.doc, got, candidates[m].prio)
    BY <1>4 DEF Settle
  <2>2. QED
    <3>1. CASE UNCHANGED vars /\ got \in {Blank, Missing}
      BY <3>1, <1>2, <1>4, Zenon
    <3>2. CASE \E m \in DOMAIN candidates :
                  /\ SameGeneration(m, picked) /\ got \notin {Blank, Missing}
                  /\ Enqueue(picked.doc, got, candidates[m].prio)
      BY <3>2, <1>1
    <3>3. QED
      BY <2>1, <3>1, <3>2
<1>5. QED
  BY <1>3, <1>4

\* Enqueueing a listed document, or stopping at one without a checksum.
LEMMA ListedStep ==
    ASSUME IntakeInv, NEW entry \in todo, entry[2] # Blank,
           Enqueue(entry[1], entry[2], PriorityBackfill)
    PROVE  /\ [Next]_vars /\ RowsKept /\ RowsFilled'
           /\ JobSince(entry[1], Blank)'
<1>1. entry[1] \in Docs /\ entry[2] \in Checksums
  BY DEF Versions, IntakeInv, IntakeTypeOK
<1>2. TypeOK /\ RowsFilled /\ PriorityBackfill \in Priorities
  BY VersionAssumption DEF IntakeInv, IntakeTypeOK
<1>3. /\ [Next]_vars /\ RowsKept /\ RowsFilled'
      /\ \E i \in JobIds : state'[i] # "absent" /\ src'[i].doc = entry[1] /\ src'[i].sum = entry[2]
  BY <1>1, <1>2, EnqueueServes
<1>4. entry[2] >= Blank
  <2>1. entry[2] \in Nat
    BY <1>1, VersionAssumption
  <2>2. QED
    BY <2>1 DEF Blank
<1>5. QED
  BY <1>3, <1>4 DEF JobSince

\* Intake changes the job tables only by enqueueing: each of its steps is one of
\* the queue or leaves the queue alone.
LEMMA QueueStep ==
    ASSUME IntakeInv, [IntakeNext]_intakeVars
    PROVE  [Next]_vars /\ RowsKept /\ RowsFilled'
<1>1. CASE Settle
  BY <1>1, SettleStep
<1>2. CASE EnqueueListed
  <2>1. PICK entry \in todo :
           \/ UNCHANGED vars
           \/ entry[2] # Blank /\ Enqueue(entry[1], entry[2], PriorityBackfill)
    BY <1>2 DEF EnqueueListed
  <2>2. QED
    BY <2>1, ListedStep, QueueUntouched DEF IntakeInv
<1>3. CASE UNCHANGED vars
  BY <1>3, QueueUntouched DEF IntakeInv
<1>4. QED
  BY <1>1, <1>2, <1>3 DEF IntakeNext, Reconcile, BeginPass, Pick, PickNone, Get, Recheck, List,
     SavePage, CrashIntake, CallFails, Webhook, ChangeDocument, intakeVars

\* Jobs stay: a job for a version or a later one is never taken back.
LEMMA JobsStay ==
    ASSUME RowsKept, NEW d, NEW c, JobSince(d, c)
    PROVE  JobSince(d, c)'
BY DEF RowsKept, JobSince

\* Paperless moves documents on or deletes them, and a deleted one stays deleted.
VersionMoves ==
    \A d \in Docs :
        \/ version'[d] = version[d] \/ version'[d] = Missing
        \/ version[d] # Missing /\ version'[d] \in Checksums /\ version'[d] > version[d]

\* Only ChangeDocument changes a version, and nothing changes the listing.
LEMMA WorldStep ==
    ASSUME IntakeInv, [IntakeNext]_intakeVars
    PROVE  VersionMoves /\ archive' = archive
<1>1. ASSUME NEW d \in Docs, ChangeDocument(d)
      PROVE  VersionMoves /\ archive' = archive
  BY <1>1 DEF ChangeDocument, VersionMoves, IntakeInv, IntakeTypeOK
<1>2. CASE UNCHANGED <<version, archive>>
  BY <1>2 DEF VersionMoves
<1>3. QED
  BY <1>1, <1>2 DEF IntakeNext, Reconcile, BeginPass, Pick, PickNone, Get, Settle, Recheck, List,
     EnqueueListed, SavePage, CrashIntake, CallFails, Webhook, intakeVars, worldVars

\* A document once enqueued, or deleted, stays so.
LEMMA EnqueuedStays ==
    ASSUME RowsKept, VersionMoves, NEW d \in Docs, Enqueued(d)
    PROVE  Enqueued(d)'
BY JobsStay DEF Enqueued, VersionMoves

-----------------------------------------------------------------------------
(***************************************************************************)
(* Types.                                                                  *)
(***************************************************************************)

\* The initial checkpoint, and what a reset leaves of a pass.
LEMMA ResetTypes ==
    /\ NoScan \in Checkpoints
    /\ PassReset => /\ scan' \in Checkpoints /\ left' \in 0..MaxCandidatesPerPass
                    /\ pages' \in 0..MaxArchivePagesPerPass /\ todo' = {}
                    /\ picked' \in [doc : Docs, gen : Nat] \cup {NoCandidate} /\ got' \in Versions
<1>1. NoScan \in Checkpoints
  BY EmptySeq DEF NoScan, Checkpoints, Pages
<1>2. QED
  BY <1>1, LimitAssumption DEF PassReset, Versions

\* An event is spent only where one is left.
LEMMA SpendTypes ==
    ASSUME events \in [Events -> Nat], NEW e \in Events, Spend(e)
    PROVE  events' \in [Events -> Nat]
BY DEF Spend

\* Listing serves pages it links, from every page.
LEMMA ArchiveTypes ==
    ASSUME archive \in Archives
    PROVE  /\ archive.list \in [Pages -> SUBSET Docs]
           /\ archive.next \in [Pages -> Cursors \cup {None}]
           /\ \A c \in Aliases : archive.list[c] = archive.list[First]
<1>1. archive \in [list : [Pages -> SUBSET Docs], next : [Pages -> Cursors \cup {None}]]
  BY PageAssumption
<1>2. QED
  BY <1>1, PageAssumption

\* The checkpoint after a page, unless the listing ends there.
LEMMA NextPageTypes ==
    ASSUME archive \in Archives, NEW s \in Checkpoints, NextPage(s).next # None
    PROVE  /\ NextPage(s) \in Checkpoints
           /\ NextPage(s).next \in Cursors
<1>1. s.next \in Pages /\ s.visited \in Seq(Pages) /\ s.pages \in Nat
  BY DEF Checkpoints
<1>2. archive.next[s.next] \in Cursors
  BY <1>1, ArchiveTypes DEF NextPage
<1>3. Fingerprint(s.next) \in Pages
  BY <1>1 DEF Fingerprint, Pages
<1>4. Append(s.visited, Fingerprint(s.next)) \in Seq(Pages)
  BY <1>1, <1>3, AppendProperties
<1>5. QED
  BY <1>1, <1>2, <1>4 DEF NextPage, Checkpoints, Pages

\* A webhook leaves a table of candidates.
LEMMA EnqueueCandidateTypes ==
    ASSUME IntakeTypeOK, NEW d \in Docs, EnqueueCandidate(d, PriorityWebhook)
    PROVE  candidates' \in Seq(Candidate)
<1>1. /\ candidates \in Seq(Candidate)
      /\ Len(candidates) \in Nat /\ DOMAIN candidates = 1..Len(candidates)
      /\ \A n \in DOMAIN candidates : candidates[n] \in Candidate
  BY CandidateRow
<1>2. PriorityWebhook \in Priorities
  BY VersionAssumption
<1>3. CASE RowOf(d) = {}
  <2>1. [doc |-> d, prio |-> PriorityWebhook, gen |-> 1] \in Candidate
    BY <1>2 DEF Candidate
  <2>2. QED
    BY <1>1, <1>3, <2>1, AppendProperties DEF EnqueueCandidate
<1>4. CASE RowOf(d) # {}
  <2> DEFINE row(n) ==
               IF n \in RowOf(d)
               THEN [doc |-> d, gen |-> candidates[n].gen + 1,
                     prio |-> IF PriorityWebhook > candidates[n].prio THEN PriorityWebhook
                              ELSE candidates[n].prio]
               ELSE candidates[n]
  <2>1. candidates' = [n \in 1..Len(candidates) |-> row(n)]
    BY <1>1, <1>4 DEF EnqueueCandidate
  <2>2. \A n \in 1..Len(candidates) : row(n) \in Candidate
    BY <1>1, <1>2 DEF Candidate
  <2> HIDE DEF row
  <2>3. candidates' \in [1..Len(candidates) -> Candidate]
    BY <2>1, <2>2
  <2>4. QED
    BY <1>1, <2>3, SeqDef
<1>5. QED
  BY <1>3, <1>4

\* Every step of intake keeps the types.
LEMMA IntakeTypesNext ==
    ASSUME IntakeInv, [IntakeNext]_intakeVars
    PROVE  IntakeTypeOK'
<1> DEFINE CandidateTypes == candidates \in Seq(Candidate)
           WorldTypes == version \in [Docs -> Versions] /\ wanted \in [Docs -> Versions \ {Missing}]
           ScanTypes == saved \in Checkpoints /\ scan \in Checkpoints
           PassTypes ==
             /\ left \in 0..MaxCandidatesPerPass /\ pages \in 0..MaxArchivePagesPerPass
             /\ picked \in [doc : Docs, gen : Nat] \cup {NoCandidate} /\ got \in Versions
             /\ todo \subseteq Docs \X (Versions \ {Missing})
           RestTypes ==
             /\ at \in {"down", "wait", "next", "get", "settle", "recheck", "list", "page"}
             /\ events \in [Events -> Nat]
           Typed == CandidateTypes /\ WorldTypes /\ ScanTypes /\ PassTypes /\ RestTypes
<1>0. Typed /\ archive \in Archives
  BY DEF IntakeInv, IntakeTypeOK, Candidate
<1>1. TypeOK'
  BY QueueStep, TypeNext DEF IntakeInv, IntakeTypeOK
<1>2. ASSUME NEW d \in Docs, Webhook(d)
      PROVE  Typed'
  <2>1. CandidateTypes'
    BY <1>2, EnqueueCandidateTypes DEF Webhook, IntakeInv
  <2>2. RestTypes'
    BY <1>0, <1>2, SpendTypes DEF Webhook, Events
  <2>3. WorldTypes' /\ ScanTypes'
    BY <1>0, <1>2 DEF Webhook, passVars, Versions, Blank, Missing
  <2>4. PassTypes'
    BY <1>0, <1>2 DEF Webhook, passVars
  <2>5. QED
    BY <2>1, <2>2, <2>3, <2>4
<1>3. ASSUME NEW d \in Docs, ChangeDocument(d)
      PROVE  Typed'
  <2>1. RestTypes'
    BY <1>0, <1>3, SpendTypes DEF ChangeDocument, Events
  <2>2. WorldTypes'
    BY <1>0, <1>3 DEF ChangeDocument, Versions
  <2>3. QED
    BY <1>0, <1>3, <2>1, <2>2 DEF ChangeDocument, passVars
<1>4. ASSUME CrashIntake \/ CallFails
      PROVE  Typed'
  <2>1. PassReset /\ Spend("fault") /\ at' = "down" /\ UNCHANGED <<worldVars, candidates, saved>>
    BY <1>4 DEF CrashIntake, CallFails
  <2>2. RestTypes'
    BY <1>0, <2>1, SpendTypes DEF Events
  <2>3. QED
    BY <1>0, <2>1, <2>2, ResetTypes DEF worldVars
<1>5. ASSUME BeginPass
      PROVE  Typed'
  BY <1>0, <1>5, LimitAssumption DEF BeginPass, CandidateQuota, Goto, worldVars
<1>6. ASSUME Pick
      PROVE  Typed'
  <2>1. picked' \in [doc : Docs, gen : Nat]
    BY <1>6, CandidateRow DEF Pick, Candidate, IntakeInv
  <2>2. left' \in 0..MaxCandidatesPerPass
    BY <1>0, <1>6, LimitAssumption DEF Pick
  <2>3. QED
    BY <1>0, <1>6, <2>1, <2>2 DEF Pick, Goto, worldVars
<1>7. ASSUME PickNone
      PROVE  Typed'
  BY <1>0, <1>7 DEF PickNone, Goto, worldVars, passVars
<1>8. ASSUME Get
      PROVE  Typed'
  <2>1. got' \in Versions
    BY <1>0, <1>8 DEF Get, IntakeInv, PickedRow
  <2>2. QED
    BY <1>0, <1>8, <2>1 DEF Get, Goto, worldVars
<1>9. ASSUME Settle
      PROVE  Typed'
  <2>1. CandidateTypes'
    BY <1>0, <1>9, Removed DEF Settle
  <2>2. QED
    BY <1>0, <1>9, <2>1 DEF Settle, Goto, worldVars, Versions
<1>10. ASSUME Recheck
      PROVE  Typed'
  <2>1. CASE candidates # <<>>
    BY <1>0, <1>10, <2>1, ResetTypes DEF Recheck, Goto, worldVars
  <2>2. CASE candidates = <<>>
    BY <1>0, <1>10, <2>2, LimitAssumption DEF Recheck, Goto, worldVars
  <2>3. QED
    BY <2>1, <2>2
<1>11. ASSUME List
      PROVE  Typed'
  <2>1. CASE Blocked(scan)
    BY <1>0, <1>11, <2>1, ResetTypes DEF List, Stops, Goto, worldVars
  <2>2. CASE ~Blocked(scan)
    <3>1. todo' \subseteq Docs \X (Versions \ {Missing})
      <4>1. scan.next \in Pages
        BY <1>0 DEF Checkpoints
      <4>2. archive.list[scan.next] \subseteq Docs
        BY <1>0, <4>1, ArchiveTypes
      <4>3. QED
        BY <1>0, <1>11, <2>2, <4>2 DEF List
    <3>2. QED
      BY <1>0, <1>11, <2>2, <3>1 DEF List, Goto, worldVars
  <2>3. QED
    BY <2>1, <2>2
<1>12. ASSUME EnqueueListed
      PROVE  Typed'
  <2>1. PICK entry \in todo :
           \/ Stops
           \/ todo' = todo \ {entry} /\ UNCHANGED <<left, picked, got, scan, pages>> /\ Goto("page")
    BY <1>12 DEF EnqueueListed
  <2>2. UNCHANGED <<worldVars, candidates, saved>>
    BY <1>12 DEF EnqueueListed
  <2>3. QED
    BY <1>0, <2>1, <2>2, ResetTypes DEF Stops, Goto, worldVars
<1>13. ASSUME SavePage
      PROVE  Typed'
  <2>1. UNCHANGED <<worldVars, candidates>>
    BY <1>13 DEF SavePage
  <2>2. CASE NextPage(scan).next = None
    BY <1>0, <1>13, <2>1, <2>2, ResetTypes DEF SavePage, Goto, worldVars
  <2>3. CASE NextPage(scan).next # None
    <3>1. NextPage(scan) \in Checkpoints
      BY <1>0, <2>3, NextPageTypes
    <3>2. CASE PassReset
      BY <1>0, <1>13, <2>1, <2>3, <3>1, <3>2, ResetTypes DEF SavePage, Stops, Goto, worldVars
    <3>3. CASE /\ pages > 1 /\ scan' = NextPage(scan) /\ pages' = pages - 1 /\ todo' = {}
               /\ UNCHANGED <<left, picked, got>> /\ Goto("list")
      BY <1>0, <1>13, <2>1, <2>3, <3>1, <3>3, LimitAssumption DEF SavePage, Goto, worldVars
    <3>4. QED
      BY <1>13, <2>3, <3>2, <3>3 DEF SavePage, Stops
  <2>4. QED
    BY <2>2, <2>3
<1>14. ASSUME UNCHANGED intakeVars
      PROVE  Typed'
  BY <1>0, <1>14 DEF intakeVars, worldVars, passVars
<1>15. Typed'
  BY <1>2, <1>3, <1>4, <1>5, <1>6, <1>7, <1>8, <1>9, <1>10, <1>11, <1>12, <1>13, <1>14
     DEF IntakeNext, Reconcile
<1>16. QED
  BY <1>1, <1>15 DEF IntakeTypeOK, Candidate

-----------------------------------------------------------------------------
(***************************************************************************)
(* Candidates.                                                             *)
(***************************************************************************)

\* A webhook moves the generation of its document's row on, or adds that row last.
LEMMA WebhookRows ==
    ASSUME IntakeTypeOK, NEW d \in Docs, EnqueueCandidate(d, PriorityWebhook)
    PROVE  /\ \A n \in DOMAIN candidates :
                 /\ n \in DOMAIN candidates' /\ candidates'[n].doc = candidates[n].doc
                 /\ candidates'[n].gen = IF candidates[n].doc = d THEN candidates[n].gen + 1
                                         ELSE candidates[n].gen
           /\ \A n \in DOMAIN candidates' \ DOMAIN candidates :
                 RowOf(d) = {} /\ n = Len(candidates) + 1 /\ candidates'[n].doc = d
           /\ RowOf(d)' # {}
<1>1. /\ candidates \in Seq(Candidate)
      /\ Len(candidates) \in Nat /\ DOMAIN candidates = 1..Len(candidates)
      /\ \A n \in DOMAIN candidates : candidates[n] \in Candidate
  BY CandidateRow
<1>2. CASE RowOf(d) = {}
  <2> DEFINE row == [doc |-> d, prio |-> PriorityWebhook, gen |-> 1]
  <2>1. row \in Candidate
    BY VersionAssumption DEF Candidate
  <2>2. candidates' = Append(candidates, row)
    BY <1>2 DEF EnqueueCandidate
  <2>3. row.doc = d
    OBVIOUS
  <2> HIDE DEF row
  <2>4. /\ candidates' \in Seq(Candidate) /\ Len(candidates') = Len(candidates) + 1
        /\ \A n \in 1..Len(candidates) : candidates'[n] = candidates[n]
        /\ candidates'[Len(candidates) + 1] = row
    BY <1>1, <2>1, <2>2, AppendProperties
  <2>5. DOMAIN candidates' = 1..(Len(candidates) + 1)
    BY <2>4, LenProperties
  <2>6. \A n \in DOMAIN candidates : candidates[n].doc # d
    BY <1>2 DEF RowOf
  <2>7. QED
    BY <1>1, <1>2, <2>3, <2>4, <2>5, <2>6 DEF RowOf
<1>3. CASE RowOf(d) # {}
  <2>1. /\ DOMAIN candidates' = DOMAIN candidates
        /\ \A n \in DOMAIN candidates : candidates'[n] =
             IF n \in RowOf(d)
             THEN [doc |-> d, gen |-> candidates[n].gen + 1,
                   prio |-> IF PriorityWebhook > candidates[n].prio THEN PriorityWebhook
                            ELSE candidates[n].prio]
             ELSE candidates[n]
    BY <1>3 DEF EnqueueCandidate
  <2>2. \A n \in DOMAIN candidates :
           /\ candidates'[n].doc = candidates[n].doc
           /\ candidates'[n].gen = IF candidates[n].doc = d THEN candidates[n].gen + 1
                                   ELSE candidates[n].gen
    BY <2>1 DEF RowOf
  <2>3. RowOf(d)' # {}
    BY <1>3, <2>1, <2>2 DEF RowOf
  <2>4. QED
    BY <2>1, <2>2, <2>3
<1>4. QED
  BY <1>2, <1>3

\* Settling takes out at most the row of the picked generation; the others stay rows,
\* each at a position of its own.
LEMMA SettleRows ==
    ASSUME IntakeTypeOK, NEW n \in DOMAIN candidates, candidates' = RemoveAt(candidates, n)
    PROVE  /\ \A m \in DOMAIN candidates : m # n =>
                 \E k \in DOMAIN candidates' : candidates'[k] = candidates[m]
           /\ \A k, l \in DOMAIN candidates' : k # l =>
                 \E a, b \in DOMAIN candidates : /\ a # b /\ candidates'[k] = candidates[a]
                                                 /\ candidates'[l] = candidates[b]
<1>1. /\ candidates \in Seq(Candidate)
      /\ Len(candidates) \in Nat /\ DOMAIN candidates = 1..Len(candidates)
  BY CandidateRow
<1>2. /\ DOMAIN candidates' = 1..(Len(candidates) - 1)
      /\ \A k \in 1..(Len(candidates) - 1) :
            candidates'[k] = IF k < n THEN candidates[k] ELSE candidates[k + 1]
  BY <1>1, Removed
<1>3. ASSUME NEW m \in DOMAIN candidates, m # n
      PROVE  \E k \in DOMAIN candidates' : candidates'[k] = candidates[m]
  <2>1. CASE m < n
    <3>1. m \in DOMAIN candidates'
      BY <1>1, <1>2, <2>1
    <3>2. QED
      BY <1>2, <2>1, <3>1
  <2>2. CASE m > n
    <3>1. m - 1 \in DOMAIN candidates' /\ ~(m - 1 < n) /\ (m - 1) + 1 = m
      BY <1>1, <1>2, <2>2
    <3>2. QED
      BY <1>2, <3>1
  <2>3. QED
    BY <1>1, <1>3, <2>1, <2>2
<1>4. ASSUME NEW k \in DOMAIN candidates', NEW l \in DOMAIN candidates', k # l
      PROVE  \E a, b \in DOMAIN candidates : /\ a # b /\ candidates'[k] = candidates[a]
                                             /\ candidates'[l] = candidates[b]
  <2> DEFINE old(x) == IF x < n THEN x ELSE x + 1
  <2>1. old(k) \in DOMAIN candidates /\ old(l) \in DOMAIN candidates /\ old(k) # old(l)
    BY <1>1, <1>2, <1>4
  <2>2. candidates'[k] = candidates[old(k)] /\ candidates'[l] = candidates[old(l)]
    BY <1>2
  <2>3. QED
    BY <2>1, <2>2
<1>5. QED
  BY <1>3, <1>4

\* The part of the invariant that is about candidates and webhooks.
CandidateInv == OneRowPerDocument /\ PickedRow /\ WantedSeen /\ AnswerFresh /\ AcceptedWebhookKept

\* A webhook: its document's row takes a generation no answer under way has, so
\* a pending answer for that document is dropped.
LEMMA CandidatesWebhook ==
    ASSUME IntakeInv, RowsKept, NEW d \in Docs, Webhook(d)
    PROVE  CandidateInv'
<1> USE DEF IntakeInv
<1>t. version \in [Docs -> Versions] /\ wanted \in [Docs -> Versions \ {Missing}]
  BY DEF IntakeTypeOK
<1>v. \A c \in Checksums : c \in Nat /\ c > 0
  BY VersionAssumption
<1>1. /\ \A n \in DOMAIN candidates :
            /\ n \in DOMAIN candidates' /\ candidates'[n].doc = candidates[n].doc
            /\ candidates'[n].gen = IF candidates[n].doc = d THEN candidates[n].gen + 1
                                    ELSE candidates[n].gen
      /\ \A n \in DOMAIN candidates' \ DOMAIN candidates :
            RowOf(d) = {} /\ n = Len(candidates) + 1 /\ candidates'[n].doc = d
      /\ RowOf(d)' # {}
  BY WebhookRows DEF Webhook
<1>2. /\ at' = at /\ version' = version /\ picked' = picked /\ got' = got
      /\ wanted' = [wanted EXCEPT ![d] = IF version[d] = Missing THEN Blank ELSE version[d]]
  BY DEF Webhook, passVars
<1>3. \A n \in DOMAIN candidates : candidates[n].gen \in Nat
  BY CandidateRow DEF Candidate
<1>4. OneRowPerDocument'
  <2>1. SUFFICES ASSUME NEW m \in DOMAIN candidates', NEW n \in DOMAIN candidates',
                        candidates'[m].doc = candidates'[n].doc
                 PROVE  m = n
    BY DEF OneRowPerDocument
  <2>2. CASE m \in DOMAIN candidates /\ n \in DOMAIN candidates
    BY <1>1, <2>1, <2>2 DEF OneRowPerDocument
  <2>3. CASE m \in DOMAIN candidates /\ n \notin DOMAIN candidates
    BY <1>1, <2>1, <2>3 DEF RowOf
  <2>4. CASE m \notin DOMAIN candidates /\ n \in DOMAIN candidates
    BY <1>1, <2>1, <2>4 DEF RowOf
  <2>5. CASE m \notin DOMAIN candidates /\ n \notin DOMAIN candidates
    BY <1>1, <2>1, <2>5
  <2>6. QED
    BY <2>2, <2>3, <2>4, <2>5
<1>5. picked \in [doc : Docs, gen : Nat] \cup {NoCandidate}
  BY DEF IntakeTypeOK
<1>6. at \in {"get", "settle"} => picked.gen \in Nat
  BY <1>5 DEF NoCandidate
<1>7. PickedRow'
  <2>1. SUFFICES ASSUME at \in {"get", "settle"}
                 PROVE  /\ picked.doc \in Docs
                        /\ \E n \in DOMAIN candidates' :
                              candidates'[n].doc = picked.doc /\ picked.gen <= candidates'[n].gen
    BY <1>2 DEF PickedRow
  <2>2. PICK n \in DOMAIN candidates : candidates[n].doc = picked.doc /\ picked.gen <= candidates[n].gen
    BY <2>1 DEF PickedRow
  <2>3. picked.gen <= candidates'[n].gen
    BY <1>1, <1>3, <1>6, <2>1, <2>2
  <2>4. QED
    BY <1>1, <2>1, <2>2, <2>3 DEF PickedRow
<1>8. WantedSeen'
  BY <1>2, <1>t, <1>v DEF WantedSeen, Blank, Missing, Versions
<1>9. AnswerFresh'
  <2>1. SUFFICES ASSUME at = "settle", NEW k \in DOMAIN candidates',
                        candidates'[k].doc = picked.doc, candidates'[k].gen = picked.gen
                 PROVE  /\ picked.doc # d
                        /\ \E n \in DOMAIN candidates : SameGeneration(n, picked)
    BY <1>2, <1>t DEF AnswerFresh, AnswerServes, SameGeneration, PickedRow
  <2>2. PICK n \in DOMAIN candidates : candidates[n].doc = picked.doc /\ picked.gen <= candidates[n].gen
    BY <2>1 DEF PickedRow
  <2>3. k \in DOMAIN candidates
    BY <1>1, <2>1, <2>2 DEF RowOf
  <2>4. k = n
    BY <1>1, <2>1, <2>2, <2>3 DEF OneRowPerDocument
  <2>5. picked.doc # d
    BY <1>1, <1>3, <1>6, <2>1, <2>2, <2>4
  <2>6. QED
    BY <1>1, <2>1, <2>3, <2>5 DEF SameGeneration
<1>10. AcceptedWebhookKept'
  <2>1. SUFFICES ASSUME NEW e \in Docs, NEW w, w = wanted'[e], w # Blank, version[e] # Missing
                 PROVE  RowOf(e)' # {} \/ JobSince(e, w)'
    BY <1>2 DEF AcceptedWebhookKept, JobSince
  <2>2. CASE e = d
    BY <1>1, <2>2
  <2>3. CASE e # d
    <3>1. wanted[e] = w
      BY <1>2, <1>t, <2>1, <2>3
    <3>2. RowOf(e) # {} \/ JobSince(e, w)
      BY <2>1, <3>1 DEF AcceptedWebhookKept, JobSince
    <3>3. RowOf(e) # {} => RowOf(e)' # {}
      BY <1>1 DEF RowOf
    <3>4. QED
      BY <3>2, <3>3, JobsStay
  <2>4. QED
    BY <2>2, <2>3
<1>11. QED
  BY <1>4, <1>7, <1>8, <1>9, <1>10 DEF CandidateInv

\* Versions are numbers, and checksums positive ones.
LEMMA VersionsAreNumbers ==
    /\ \A v \in Versions : v \in Int
    /\ \A c \in Checksums : c \in Int /\ c > 0
BY VersionAssumption DEF Versions, Blank, Missing

\* Where neither a row nor a webhook comes or goes, what was promised stays kept.
LEMMA CandidatesUntouched ==
    ASSUME IntakeInv, RowsKept, VersionMoves, UNCHANGED <<candidates, wanted>>
    PROVE  OneRowPerDocument' /\ WantedSeen' /\ AcceptedWebhookKept'
<1> USE DEF IntakeInv
<1>1. OneRowPerDocument'
  BY DEF OneRowPerDocument
<1>2. WantedSeen'
  <2>1. SUFFICES ASSUME NEW d \in Docs, wanted[d] # Blank, version'[d] # Missing
                 PROVE  version'[d] >= wanted[d]
    BY DEF WantedSeen
  <2>2. version[d] # Missing
    BY <2>1 DEF VersionMoves
  <2>3. version[d] >= wanted[d]
    BY <2>1, <2>2 DEF WantedSeen
  <2>4. version[d] \in Int /\ wanted[d] \in Int /\ (version'[d] \in Checksums => version'[d] \in Int)
    <3>1. version[d] \in Versions /\ wanted[d] \in Versions
      BY DEF IntakeTypeOK
    <3>2. QED
      BY <3>1, VersionsAreNumbers
  <2>5. QED
    BY <2>1, <2>3, <2>4 DEF VersionMoves
<1>3. AcceptedWebhookKept'
  <2>1. SUFFICES ASSUME NEW d \in Docs, NEW w, w = wanted[d], w # Blank, version'[d] # Missing
                 PROVE  RowOf(d)' # {} \/ JobSince(d, w)'
    BY DEF AcceptedWebhookKept, JobSince
  <2>2. version[d] # Missing
    BY <2>1 DEF VersionMoves
  <2>3. RowOf(d) # {} \/ JobSince(d, w)
    BY <2>1, <2>2 DEF AcceptedWebhookKept, JobSince
  <2>4. RowOf(d)' = RowOf(d)
    BY DEF RowOf
  <2>5. QED
    BY <2>3, <2>4, JobsStay
<1>4. QED
  BY <1>1, <1>2, <1>3

\* Settling: a row goes only after a job for what its webhooks saw, or without need of one.
LEMMA CandidatesSettle ==
    ASSUME IntakeInv, RowsKept, VersionMoves, Settle
    PROVE  CandidateInv'
<1> USE DEF IntakeInv
<1>1. CASE ~\E n \in DOMAIN candidates : SameGeneration(n, picked)
  <2>1. UNCHANGED <<candidates, wanted>> /\ at' = "next"
    BY <1>1 DEF Settle, Goto, worldVars
  <2>2. QED
    BY <2>1, CandidatesUntouched DEF CandidateInv, PickedRow, AnswerFresh
<1>2. ASSUME NEW n \in DOMAIN candidates, SameGeneration(n, picked),
             candidates' = RemoveAt(candidates, n)
      PROVE  CandidateInv'
  <2>1. /\ \A m \in DOMAIN candidates : m # n =>
              \E k \in DOMAIN candidates' : candidates'[k] = candidates[m]
        /\ \A k, l \in DOMAIN candidates' : k # l =>
              \E a, b \in DOMAIN candidates : /\ a # b /\ candidates'[k] = candidates[a]
                                              /\ candidates'[l] = candidates[b]
    BY <1>2, SettleRows
  <2>2. OneRowPerDocument'
    BY <2>1 DEF OneRowPerDocument
  <2>3. UNCHANGED <<wanted, version>> /\ at' = "next"
    BY DEF Settle, Goto, worldVars
  <2>4. WantedSeen' /\ PickedRow' /\ AnswerFresh'
    BY <2>3 DEF WantedSeen, PickedRow, AnswerFresh
  <2>5. AcceptedWebhookKept'
    <3>1. SUFFICES ASSUME NEW d \in Docs, NEW w, w = wanted[d], w # Blank, version[d] # Missing
                   PROVE  RowOf(d)' # {} \/ JobSince(d, w)'
      BY <2>3 DEF AcceptedWebhookKept, JobSince
    <3>2. CASE d = picked.doc
      <4>1. PICK c : c = got
        OBVIOUS
      <4>2. c \in Checksums /\ c >= w
        BY <1>2, <3>1, <3>2, <4>1 DEF AnswerFresh, AnswerServes, Settle
      <4>3. JobSince(d, c)'
        BY <1>2, <3>2, <4>1, <4>2, SettleStep
      <4>4. PICK i \in JobIds : state'[i] # "absent" /\ src'[i].doc = d /\ src'[i].sum >= c
        BY <4>3 DEF JobSince
      <4>5. src'[i].sum \in Int
        <5>1. src'[i] \in Sources
          <6>1. src' \in [JobIds -> Sources \cup {NoSource}]
            BY QueueStep, TypeNext DEF IntakeNext, Reconcile, IntakeTypeOK, TypeOK
          <6>2. src'[i] # NoSource
            BY <3>1, <4>4, NoneAssumption DEF NoSource
          <6>3. QED
            BY <6>1, <6>2
        <5>2. src'[i].sum \in Checksums
          BY <5>1 DEF Sources
        <5>3. QED
          BY <5>2, VersionsAreNumbers
      <4>6. w \in Int /\ c \in Int
        BY <3>1, <4>2, VersionAssumption DEF IntakeTypeOK, Versions, Blank
      <4>7. src'[i].sum >= w
        BY <4>2, <4>4, <4>5, <4>6
      <4>8. QED
        BY <4>4, <4>7 DEF JobSince
    <3>3. CASE d # picked.doc
      <4>1. RowOf(d) # {} => RowOf(d)' # {}
        BY <1>2, <2>1, <3>3 DEF RowOf, SameGeneration
      <4>2. RowOf(d) # {} \/ JobSince(d, w)
        BY <3>1 DEF AcceptedWebhookKept, JobSince
      <4>3. QED
        BY <4>1, <4>2, JobsStay
    <3>4. QED
      BY <3>2, <3>3
  <2>6. QED
    BY <2>2, <2>4, <2>5 DEF CandidateInv
<1>3. QED
  BY <1>1, <1>2 DEF Settle

\* Every step keeps the candidates' part of the invariant.
LEMMA CandidatesNext ==
    ASSUME IntakeInv, [IntakeNext]_intakeVars
    PROVE  CandidateInv'
<1> USE DEF IntakeInv
<1>1. RowsKept /\ VersionMoves
  BY QueueStep, WorldStep
<1>2. ASSUME NEW d \in Docs, Webhook(d)
      PROVE  CandidateInv'
  BY <1>1, <1>2, CandidatesWebhook
<1>3. CASE Settle
  BY <1>1, <1>3, CandidatesSettle
<1>4. ASSUME NEW d \in Docs, ChangeDocument(d)
      PROVE  CandidateInv'
  <2>1. UNCHANGED <<candidates, wanted, at, picked, got>>
    BY <1>4 DEF ChangeDocument, passVars
  <2>2. OneRowPerDocument' /\ WantedSeen' /\ AcceptedWebhookKept'
    BY <1>1, <2>1, CandidatesUntouched
  <2>3. PickedRow'
    BY <2>1 DEF PickedRow
  <2>4. AnswerFresh'
    BY <1>1, <2>1 DEF AnswerFresh, AnswerServes, SameGeneration, VersionMoves, PickedRow
  <2>5. QED
    BY <2>2, <2>3, <2>4 DEF CandidateInv
<1>5. CASE Pick
  <2>1. UNCHANGED <<candidates, wanted>> /\ at' = "get"
    BY <1>5 DEF Pick, Goto, worldVars
  <2>2. OneRowPerDocument' /\ WantedSeen' /\ AcceptedWebhookKept'
    BY <1>1, <2>1, CandidatesUntouched
  <2>3. PICK n \in DOMAIN candidates : picked' = [doc |-> candidates[n].doc, gen |-> candidates[n].gen]
    BY <1>5 DEF Pick
  <2>4. candidates[n].doc \in Docs /\ candidates[n].gen \in Nat
    BY CandidateRow DEF Candidate
  <2>5. PickedRow' /\ AnswerFresh'
    BY <2>1, <2>3, <2>4 DEF PickedRow, AnswerFresh
  <2>6. QED
    BY <2>2, <2>5 DEF CandidateInv
<1>6. CASE Get
  <2>1. UNCHANGED <<candidates, wanted, version, picked>> /\ got' = version[picked.doc] /\ at = "get"
    BY <1>6 DEF Get, worldVars
  <2>2. OneRowPerDocument' /\ WantedSeen' /\ AcceptedWebhookKept'
    BY <1>1, <2>1, CandidatesUntouched
  <2>3. PickedRow'
    BY <2>1 DEF PickedRow
  <2>4. AnswerServes(picked.doc)'
    <3>1. picked.doc \in Docs
      BY <2>1 DEF PickedRow
    <3>2. version[picked.doc] \in Versions /\ wanted[picked.doc] \in Versions \ {Missing}
      BY <3>1 DEF IntakeTypeOK
    <3>3. wanted[picked.doc] # Blank /\ version[picked.doc] # Missing =>
             version[picked.doc] \in Checksums /\ version[picked.doc] >= wanted[picked.doc]
      <4>1. SUFFICES ASSUME wanted[picked.doc] # Blank, version[picked.doc] # Missing
                     PROVE  version[picked.doc] \in Checksums /\ version[picked.doc] >= wanted[picked.doc]
        OBVIOUS
      <4>2. version[picked.doc] >= wanted[picked.doc]
        BY <3>1, <4>1 DEF WantedSeen
      <4>3. wanted[picked.doc] \in Checksums
        BY <3>2, <4>1 DEF Versions
      <4>4. wanted[picked.doc] > 0 /\ wanted[picked.doc] \in Int /\ version[picked.doc] \in Int
        BY <3>2, <4>3, VersionsAreNumbers
      <4>5. version[picked.doc] # Blank
        BY <4>2, <4>4 DEF Blank
      <4>6. QED
        BY <3>2, <4>1, <4>2, <4>5 DEF Versions
    <3>4. QED
      BY <2>1, <3>3 DEF AnswerServes
  <2>5. QED
    BY <2>2, <2>3, <2>4 DEF CandidateInv, AnswerFresh
<1>7. CASE \/ BeginPass \/ PickNone \/ Recheck \/ List \/ EnqueueListed \/ SavePage
           \/ CrashIntake \/ CallFails
  <2>1. UNCHANGED <<candidates, wanted>> /\ at' \notin {"get", "settle"}
    BY <1>7 DEF BeginPass, PickNone, Recheck, List, EnqueueListed, SavePage, CrashIntake,
       CallFails, Stops, Goto, worldVars
  <2>2. QED
    BY <1>1, <2>1, CandidatesUntouched DEF CandidateInv, PickedRow, AnswerFresh
<1>8. CASE UNCHANGED intakeVars
  <2>1. UNCHANGED <<candidates, wanted, version, at, picked, got>>
    BY <1>8 DEF intakeVars, worldVars, passVars
  <2>2. OneRowPerDocument' /\ WantedSeen' /\ AcceptedWebhookKept'
    BY <1>1, <2>1, CandidatesUntouched
  <2>3. PickedRow' /\ AnswerFresh'
    BY <2>1 DEF PickedRow, AnswerFresh, AnswerServes, SameGeneration
  <2>4. QED
    BY <2>2, <2>3 DEF CandidateInv
<1>9. QED
  BY <1>2, <1>3, <1>4, <1>5, <1>6, <1>7, <1>8 DEF IntakeNext, Reconcile

-----------------------------------------------------------------------------
(***************************************************************************)
(* The archive scan.                                                       *)
(***************************************************************************)

\* Where the listing and the jobs table only grow, done work stays done.
LEMMA WorkStays ==
    ASSUME archive \in Archives, archive' = archive, RowsKept, VersionMoves,
           NEW s, WorkDone(s)
    PROVE  WorkDone(s)'
<1>1. \A c \in Pages : archive.list[c] \subseteq Docs
  BY ArchiveTypes
<1>2. QED
  BY <1>1, EnqueuedStays DEF WorkDone

\* No page is visited before a scan begins.
LEMMA FreshScan == GoodScan(NoScan) /\ WorkDone(NoScan)
<1>1. NoScan.visited = <<>> /\ NoScan.pages = 0
  BY DEF NoScan
<1>2. QED
  BY <1>1, LimitAssumption DEF GoodScan, WorkDone

\* A finished page goes onto the checkpoint once, under its fingerprint, and only
\* with its documents enqueued.
LEMMA NextPageGood ==
    ASSUME archive \in Archives, NEW s \in Checkpoints, GoodScan(s), WorkDone(s), ~Blocked(s),
           \A d \in archive.list[s.next] : Enqueued(d), NextPage(s).next # None
    PROVE  GoodScan(NextPage(s)) /\ WorkDone(NextPage(s))
<1> DEFINE f == Fingerprint(s.next)
           t == NextPage(s)
<1>1. /\ s.next \in Pages /\ s.visited \in Seq(Pages) /\ s.pages \in Nat
      /\ Len(s.visited) \in Nat /\ DOMAIN s.visited = 1..Len(s.visited)
  <2>1. s.next \in Pages /\ s.visited \in Seq(Pages) /\ s.pages \in Nat
    BY DEF Checkpoints
  <2>2. QED
    BY <2>1, LenProperties
<1>2. f \in Pages /\ f \notin Aliases
  BY <1>1, PageAssumption DEF Fingerprint, Pages
<1>3. t.next \in Cursors /\ t.next # First
  BY NextPageTypes, PageAssumption
<1>4. t.visited = Append(s.visited, f) /\ t.pages = s.pages + 1
  BY DEF NextPage
<1>5. /\ t.visited \in Seq(Pages) /\ Len(t.visited) = Len(s.visited) + 1
      /\ \A n \in 1..Len(s.visited) : t.visited[n] = s.visited[n]
      /\ t.visited[Len(s.visited) + 1] = f
  BY <1>1, <1>2, <1>4, AppendProperties
<1>6. DOMAIN t.visited = 1..(Len(s.visited) + 1)
  BY <1>5, LenProperties
<1>7. s.pages < MaxArchivePagesPerScan /\ \A n \in DOMAIN s.visited : s.visited[n] # f
  BY <1>1, LimitAssumption DEF Blocked, LoopsBack
<1> HIDE DEF f, t
<1>8. GoodScan(t)
  <2>1. Len(t.visited) = t.pages /\ t.pages > 0 /\ t.pages <= MaxArchivePagesPerScan
    BY <1>1, <1>4, <1>5, <1>7, LimitAssumption DEF GoodScan
  <2>2. \A n \in DOMAIN t.visited : t.visited[n] \notin Aliases
    <3>1. \A n \in 1..Len(s.visited) : s.visited[n] \notin Aliases
      BY <1>1 DEF GoodScan
    <3>2. \A n \in DOMAIN t.visited : n \in 1..Len(s.visited) \/ n = Len(s.visited) + 1
      BY <1>1, <1>6
    <3>3. QED
      BY <1>2, <1>5, <3>1, <3>2
  <2>3. \A m, n \in DOMAIN t.visited : m # n => t.visited[m] # t.visited[n]
    <3>1. \A m, n \in 1..Len(s.visited) : m # n => s.visited[m] # s.visited[n]
      BY <1>1 DEF GoodScan
    <3>2. \A n \in DOMAIN t.visited : n \in 1..Len(s.visited) \/ n = Len(s.visited) + 1
      BY <1>1, <1>6
    <3>3. \A n \in 1..Len(s.visited) : t.visited[n] = s.visited[n] /\ s.visited[n] # f
      BY <1>1, <1>5, <1>7
    <3>4. SUFFICES ASSUME NEW m \in DOMAIN t.visited, NEW n \in DOMAIN t.visited, m # n
                   PROVE  t.visited[m] # t.visited[n]
      OBVIOUS
    <3>5. CASE m \in 1..Len(s.visited) /\ n \in 1..Len(s.visited)
      BY <3>1, <3>3, <3>4, <3>5
    <3>6. CASE m = Len(s.visited) + 1 \/ n = Len(s.visited) + 1
      BY <1>5, <3>2, <3>3, <3>4, <3>6
    <3>7. QED
      BY <3>2, <3>5, <3>6
  <2>4. QED
    BY <1>3, <2>1, <2>2, <2>3 DEF GoodScan
<1>9. WorkDone(t)
  <2>1. SUFFICES ASSUME NEW c \in Pages, NEW n \in DOMAIN t.visited, t.visited[n] = Fingerprint(c)
                 PROVE  \A d \in archive.list[c] : Enqueued(d)
    BY DEF WorkDone
  <2>2. CASE n \in DOMAIN s.visited
    BY <1>1, <1>5, <2>1, <2>2 DEF WorkDone
  <2>3. CASE n = Len(s.visited) + 1
    <3>1. Fingerprint(c) = Fingerprint(s.next)
      BY <1>5, <2>1, <2>3 DEF f
    <3>2. archive.list[c] = archive.list[s.next]
      BY <1>1, <3>1, ArchiveTypes DEF Fingerprint
    <3>3. QED
      BY <3>2
  <2>4. QED
    BY <1>1, <1>6, <2>1, <2>2, <2>3
<1>10. QED
  BY <1>8, <1>9 DEF t

\* The part of the invariant that is about the archive scan.
ScanInv ==
    GoodScan(saved) /\ GoodScan(scan) /\ WorkDone(saved) /\ WorkDone(scan) /\ PageListed

\* Every step keeps the archive scan's part of the invariant.
LEMMA ScanNext ==
    ASSUME IntakeInv, [IntakeNext]_intakeVars
    PROVE  ScanInv'
<1> USE DEF IntakeInv
<1>1. RowsKept /\ VersionMoves /\ archive' = archive
  BY QueueStep, WorldStep
<1>2. \A s : WorkDone(s) => WorkDone(s)'
  BY <1>1, WorkStays
<1>3. ASSUME NEW s, WorkDone(s), saved' = s, GoodScan(s)
      PROVE  GoodScan(saved)' /\ WorkDone(saved)'
  BY <1>2, <1>3 DEF GoodScan, WorkDone
<1>4. ASSUME NEW s, WorkDone(s), scan' = s, GoodScan(s)
      PROVE  GoodScan(scan)' /\ WorkDone(scan)'
  BY <1>2, <1>4 DEF GoodScan, WorkDone
<1>5. saved' = saved => GoodScan(saved)' /\ WorkDone(saved)'
  BY <1>3
<1>6. scan' = scan => GoodScan(scan)' /\ WorkDone(scan)'
  BY <1>4
<1>7. PassReset => GoodScan(scan)' /\ WorkDone(scan)'
  BY <1>4, FreshScan DEF PassReset
<1>8. archive.list[scan.next] \subseteq Docs
  BY ArchiveTypes DEF IntakeTypeOK, Checkpoints
<1>9. CASE UNCHANGED <<saved, scan, at, todo>>
  <2>1. PageListed'
    BY <1>1, <1>8, <1>9, EnqueuedStays DEF PageListed, Blocked, LoopsBack
  <2>2. QED
    BY <1>5, <1>6, <1>9, <2>1 DEF ScanInv
<1>10. CASE saved' = saved /\ (scan' = scan \/ PassReset) /\ at' # "page"
  BY <1>5, <1>6, <1>7, <1>10 DEF ScanInv, PageListed
<1>11. CASE Recheck
  <2>1. CASE scan' = saved
    BY <1>3, <1>4, <1>11, <2>1 DEF Recheck, Goto, ScanInv, PageListed
  <2>2. CASE PassReset
    BY <1>10, <1>11, <2>2 DEF Recheck, Goto
  <2>3. QED
    BY <1>11, <2>1, <2>2 DEF Recheck
<1>12. CASE List
  <2>1. CASE Blocked(scan)
    BY <1>10, <1>12, <2>1 DEF List, Stops, Goto
  <2>2. CASE ~Blocked(scan)
    <3>1. UNCHANGED <<saved, scan, version>> /\ at' = "page"
      BY <1>12, <2>2 DEF List, Goto, worldVars
    <3>2. \A d \in archive.list[scan.next] : version'[d] = Missing \/ \E e \in todo' : e[1] = d
      <4>1. SUFFICES ASSUME NEW d \in archive.list[scan.next], version[d] # Missing
                     PROVE  \E e \in todo' : e[1] = d
        BY <3>1
      <4>2. <<d, version[d]>> \in todo'
        BY <1>12, <2>2, <4>1 DEF List
      <4>3. QED
        BY <4>2
    <3>3. PageListed'
      BY <1>1, <2>2, <3>1, <3>2 DEF PageListed, Blocked, LoopsBack, Enqueued
    <3>4. QED
      BY <1>5, <1>6, <3>1, <3>3 DEF ScanInv
  <2>3. QED
    BY <2>1, <2>2
<1>13. CASE EnqueueListed
  <2>1. PICK entry \in todo :
           \/ Stops
           \/ /\ entry[2] # Blank /\ Enqueue(entry[1], entry[2], PriorityBackfill)
              /\ todo' = todo \ {entry} /\ scan' = scan
    BY <1>13 DEF EnqueueListed
  <2>2. saved' = saved /\ at = "page"
    BY <1>13 DEF EnqueueListed
  <2>3. CASE Stops
    BY <1>10, <2>2, <2>3 DEF Stops, Goto
  <2>4. CASE /\ entry[2] # Blank /\ Enqueue(entry[1], entry[2], PriorityBackfill)
             /\ todo' = todo \ {entry} /\ scan' = scan
    <3>1. PICK x : x = entry[1]
      OBVIOUS
    <3>2. Enqueued(x)'
      BY <2>4, <3>1, ListedStep DEF Enqueued
    <3>3. \A d \in archive.list[scan.next] : Enqueued(d)' \/ \E e \in todo' : e[1] = d
      <4>1. SUFFICES ASSUME NEW d \in archive.list[scan.next], d # x
                     PROVE  Enqueued(d)' \/ \E e \in todo' : e[1] = d
        BY <3>2
      <4>2. Enqueued(d) \/ \E e \in todo : e[1] = d
        BY <2>2 DEF PageListed
      <4>3. (\E e \in todo : e[1] = d) => \E e \in todo' : e[1] = d
        BY <2>4, <3>1, <4>1
      <4>4. QED
        BY <1>1, <1>8, <4>1, <4>2, <4>3, EnqueuedStays
    <3>4. PageListed'
      BY <1>1, <2>2, <2>4, <3>3 DEF PageListed, Blocked, LoopsBack
    <3>5. QED
      BY <1>5, <1>6, <2>2, <2>4, <3>4 DEF ScanInv
  <2>5. QED
    BY <2>1, <2>3, <2>4
<1>14. CASE SavePage
  <2>1. at' # "page"
    BY <1>14 DEF SavePage, Stops, Goto
  <2>2. CASE NextPage(scan).next = None
    BY <1>3, <1>7, <1>14, <2>1, <2>2, FreshScan DEF SavePage, ScanInv, PageListed
  <2>3. CASE NextPage(scan).next # None
    <3>1. PICK s : s = NextPage(scan)
      OBVIOUS
    <3>2. GoodScan(s) /\ WorkDone(s)
      <4>1. \A d \in archive.list[scan.next] : Enqueued(d)
        BY <1>14 DEF SavePage, PageDone, PageListed
      <4>2. ~Blocked(scan) /\ scan \in Checkpoints
        BY <1>14 DEF SavePage, PageListed, IntakeTypeOK
      <4>3. QED
        BY <2>3, <3>1, <4>1, <4>2, NextPageGood
    <3>3. saved' = s /\ (PassReset \/ scan' = s)
      BY <1>14, <2>3, <3>1 DEF SavePage, Stops
    <3>4. QED
      BY <1>3, <1>4, <1>7, <2>1, <3>2, <3>3 DEF ScanInv, PageListed
  <2>4. QED
    BY <2>2, <2>3
<1>15. CASE BeginPass \/ Pick \/ PickNone \/ Get \/ Settle
  BY <1>10, <1>15 DEF BeginPass, Pick, PickNone, Get, Settle, Goto, passVars
<1>16. CASE CrashIntake \/ CallFails
  BY <1>10, <1>16 DEF CrashIntake, CallFails
<1>17. CASE UNCHANGED intakeVars
  BY <1>9, <1>17 DEF intakeVars, passVars
<1>18. ASSUME NEW d \in Docs, Webhook(d) \/ ChangeDocument(d)
       PROVE  ScanInv'
  BY <1>9, <1>18 DEF Webhook, ChangeDocument, passVars
<1>19. QED
  BY <1>11, <1>12, <1>13, <1>14, <1>15, <1>16, <1>17, <1>18 DEF IntakeNext, Reconcile

-----------------------------------------------------------------------------
(***************************************************************************)
(* What follows for the specification.                                     *)
(***************************************************************************)

\* The invariant holds when the first process of a fresh database starts.
LEMMA IntakeInvInit == IntakeInit => IntakeInv
<1> SUFFICES ASSUME IntakeInit
             PROVE  IntakeInv
  OBVIOUS
<1>1. TypeOK /\ RowsFilled
  BY TypeInit DEF IntakeInit, Init, RowsFilled
<1>2. candidates = <<>> /\ candidates \in Seq(Candidate) /\ DOMAIN candidates = {}
  BY EmptySeq DEF IntakeInit
<1>3. IntakeTypeOK
  <2>1. version \in [Docs -> Versions] /\ wanted \in [Docs -> Versions \ {Missing}]
    BY DEF IntakeInit, Versions, Blank, Missing
  <2>2. NoScan \in Checkpoints
    BY ResetTypes
  <2>3. QED
    BY <1>1, <1>2, <2>1, <2>2, LimitAssumption DEF IntakeInit, IntakeTypeOK, Candidate, Versions
<1>4. OneRowPerDocument /\ PickedRow /\ WantedSeen /\ AnswerFresh /\ AcceptedWebhookKept
  BY <1>2 DEF IntakeInit, OneRowPerDocument, PickedRow, WantedSeen, AnswerFresh, AcceptedWebhookKept
<1>5. GoodScan(saved) /\ GoodScan(scan) /\ WorkDone(saved) /\ WorkDone(scan) /\ PageListed
  BY FreshScan DEF IntakeInit, PageListed
<1>6. QED
  BY <1>1, <1>3, <1>4, <1>5 DEF IntakeInv, IntakeInit

\* Every step keeps it.
LEMMA IntakeInvNext ==
    ASSUME IntakeInv, [IntakeNext]_intakeVars
    PROVE  IntakeInv'
<1>1. IntakeTypeOK' /\ RowsFilled' /\ archive' \in Archives
  BY IntakeTypesNext, QueueStep, WorldStep DEF IntakeInv
<1>2. CandidateInv' /\ ScanInv'
  BY CandidatesNext, ScanNext
<1>3. QED
  BY <1>1, <1>2 DEF IntakeInv, CandidateInv, ScanInv

\* The invariant holds in every reachable state, for any archive, any limits and
\* any number of documents, webhooks, changes and faults.
THEOREM IntakeSafety == IntakeSpec => []IntakeInv
<1>1. IntakeInv /\ [IntakeNext]_intakeVars => IntakeInv'
  BY IntakeInvNext
<1>2. QED
  BY IntakeInvInit, <1>1, PTL DEF IntakeSpec

\* The reconciler's state and the tables it keeps have their types.
THEOREM IntakeTypes == IntakeSpec => []IntakeTypeOK
<1>1. IntakeInv => IntakeTypeOK
  BY DEF IntakeInv
<1>2. QED
  BY IntakeSafety, <1>1, PTL

\* An accepted webhook is never lost: until its document has a job for the version
\* it had then or a later one, or is deleted, its candidate stays.
THEOREM WebhooksKept == IntakeSpec => []AcceptedWebhookKept
<1>1. IntakeInv => AcceptedWebhookKept
  BY DEF IntakeInv
<1>2. QED
  BY IntakeSafety, <1>1, PTL

\* The stored checkpoint never runs ahead of the work, wherever a pass is interrupted.
THEOREM CheckpointTrails == IntakeSpec => []CheckpointBehindWork
<1>1. IntakeInv => CheckpointBehindWork
  BY DEF IntakeInv, CheckpointBehindWork, WorkDone, Enqueued
<1>2. QED
  BY IntakeSafety, <1>1, PTL

\* The stored checkpoint always passes its own validation: however Paperless links
\* its pages, it stays within the limit and names no page twice.
THEOREM CheckpointsGood == IntakeSpec => []CheckpointWellFormed
<1>1. IntakeInv => CheckpointWellFormed
  BY DEF IntakeInv, CheckpointWellFormed, GoodScan
<1>2. QED
  BY IntakeSafety, <1>1, PTL

\* Intake drives the job queue only through its methods: every behaviour of intake
\* is one of the queue, so what JobQueueProofs shows of the queue holds here too.
THEOREM IntakeUsesQueue == IntakeSpec => Spec
<1>1. IntakeInit => Init
  BY DEF IntakeInit
<1>2. IntakeInv /\ [IntakeNext]_intakeVars => [Next]_vars
  BY QueueStep
<1>3. QED
  BY IntakeSafety, <1>1, <1>2, PTL DEF IntakeSpec, Spec
=============================================================================
