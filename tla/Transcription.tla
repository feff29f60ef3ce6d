--------------------------- MODULE Transcription ----------------------------
(***************************************************************************)
(* From the page images or the PDF to the text of a document: the part of  *)
(* worker.process that plans ranges, asks the model for each (worker.go,   *)
(* aigate/transcribe.go), validates and stores the answers and joins them  *)
(* (ocr/validate.go).  The lease is Service's business; here a run of      *)
(* process ends at its deadline and is taken up again with the stored      *)
(* checkpoints.                                                            *)
(*                                                                         *)
(* A text is a sequence of tokens, each counting one byte; what JSON makes *)
(* of a token is counted by Width.  A token <<"header", n, b>> is the line *)
(* "----- PAGE n; BYTES b -----", which a transcription may contain too.   *)
(***************************************************************************)
EXTENDS Integers, Sequences, FiniteSetsExt

CONSTANTS
    PageCounts,        \* page counts of the documents
    MaxDocumentPages,  \* maxDocumentPages
    DirectPages,       \* most pages of a direct request
    BatchSize,
    ModelAttempts,
    PageTexts,         \* what the model may read on a page
    MaxRawBytes,       \* maxRawBatchBytes
    MaxPageBytes,      \* maxPageTextBytes
    MaxBatchBytes,     \* maxBatchTextBytes
    MaxJoinedBytes,    \* maxJoinedContentBytes
    MaxRuns            \* bound: interrupted runs of process

ASSUME TranscriptionAssumption ==
    /\ PageCounts \subseteq Nat /\ {BatchSize, ModelAttempts} \subseteq Nat \ {0}
    /\ {MaxDocumentPages, DirectPages, MaxRawBytes, MaxPageBytes, MaxBatchBytes,
        MaxJoinedBytes, MaxRuns} \subseteq Nat
    /\ \A t \in PageTexts : t \in Seq({t[i] : i \in DOMAIN t})

VARIABLES
    doc,        \* the document: page count, and whether a direct request may carry it
    step,       \* where process stands
    direct,     \* stopOnTimeout: the request under way carries the PDF
    range,      \* the range it asks for
    attempt,    \* attempt of transcribe
    reply,      \* the canonical answer in hand
    stored,     \* the checkpoints: range -> canonical answer, Pending before
    validated,  \* the batches to be joined
    content,    \* the joined text, <<>> before
    begun,      \* the success finalization of the job is recorded
    runs        \* interrupted runs so far

trVars == <<doc, step, direct, range, attempt, reply, stored, validated, content, begun, runs>>
requestVars == <<direct, range, attempt, reply>>

NewLine == <<"newline">>
Escaped == <<"&">>      \* stands for < > & too: json.Marshal escapes them
Header(n, b) == <<"header", n, b>>
Pending == [text |-> <<>>, html |-> FALSE, defect |-> "pending"]
NoRange == <<0, 0>>

\* What may be wrong with an answer: its JSON, its envelope, the encoding of its strings,
\* its fields, a refused page, words about the transcription in place of it,
\* another page number.
Defects == {"json", "envelope", "encoding", "fields", "refused", "meta", "page"}

TranscriptionInit ==
    /\ doc \in [pages : PageCounts, direct : BOOLEAN]
    /\ step = "claimed" /\ direct = FALSE /\ range = NoRange /\ attempt = 1
    /\ reply = Pending /\ stored = [r \in {} |-> Pending] /\ validated = <<>>
    /\ content = <<>> /\ begun = FALSE /\ runs = 0

-----------------------------------------------------------------------------
(***************************************************************************)
(* Validation of an answer.                                                *)
(***************************************************************************)

\* Bytes of a token in JSON; html: written by json.Marshal.
Width(token, html) ==
    IF token = NewLine THEN 2 ELSE IF token = Escaped /\ html THEN 6 ELSE 1
TextWidth(text, html) == MapThenSumSet(LAMBDA i : Width(text[i], html), DOMAIN text)
RawBytes(raw) == MapThenSumSet(LAMBDA n : TextWidth(raw.text[n], raw.html), DOMAIN raw.text)

SingleJSON(raw) == raw.defect # "json"
CompletedOutput(raw) == SingleJSON(raw) /\ raw.defect # "envelope"
ValidEncoding(raw) == raw.defect # "encoding"
StrictFields(raw) == raw.defect # "fields"
NotMeta(raw) == raw.defect # "meta"

ValidRange(r) == 0 < r[1] /\ r[1] <= r[2] /\ r[2] - r[1] < MaxRawBytes

Blank(text) == \A i \in DOMAIN text : text[i] = NewLine
\* The texts of a batch: none blank, none too long, not too long together.
ValidTexts(texts) ==
    /\ \A n \in DOMAIN texts : ~Blank(texts[n]) /\ Len(texts[n]) <= MaxPageBytes
    /\ MapThenSumSet(LAMBDA n : Len(texts[n]), DOMAIN texts) <= MaxBatchBytes

\* Validate: exactly the pages of the range, in order.
Valid(raw, r) ==
    /\ ValidRange(r) /\ RawBytes(raw) <= MaxRawBytes
    /\ ValidEncoding(raw) /\ StrictFields(raw)
    /\ raw.defect \notin {"refused", "page", "pending"} /\ NotMeta(raw)
    /\ DOMAIN raw.text = r[1]..r[2]
    /\ ValidTexts(raw.text)

\* ValidateCanonical: what json.Marshal writes for a valid answer.
Canonical(raw) == [text |-> raw.text, html |-> TRUE, defect |-> "none"]

-----------------------------------------------------------------------------
(***************************************************************************)
(* Joining.                                                                *)
(***************************************************************************)

EndsWith(text, suffix) ==
    /\ Len(text) >= Len(suffix)
    /\ SubSeq(text, Len(text) - Len(suffix) + 1, Len(text)) = suffix

BlankLine == <<NewLine, NewLine>>

\* A faulty variant: a line end is taken for a blank line.
LineEndPadding(previous) ==
    IF EndsWith(previous, <<NewLine>>) THEN <<>> ELSE BlankLine
blankLinePadding(previous) ==
    CASE EndsWith(previous, BlankLine) -> <<>>
      [] EndsWith(previous, <<NewLine>>) /\ ~EndsWith(previous, BlankLine) -> <<NewLine>>
      [] OTHER -> BlankLine

pageSeparator(n, text) == <<Header(n, Len(text))>> \o BlankLine

\* The batches follow each other from page 1, each valid.
ValidBatches(batches) ==
    /\ batches # <<>>
    /\ \A i \in DOMAIN batches :
          /\ ValidRange(batches[i].range)
          /\ batches[i].range[1] = IF i = 1 THEN 1 ELSE batches[i - 1].range[2] + 1
          /\ DOMAIN batches[i].text = batches[i].range[1]..batches[i].range[2]
          /\ ValidTexts(batches[i].text)

\* The pages of consecutive batches.
Text(batches, n) ==
    (CHOOSE b \in {batches[i] : i \in DOMAIN batches} : n \in DOMAIN b.text).text[n]

\* The pages one after the other, a header before each.
Join(batches) ==
    LET page(n) == Text(batches, n)
        padding(n) == IF n = 1 THEN <<>> ELSE blankLinePadding(page(n - 1))
        upTo[n \in 0..batches[Len(batches)].range[2]] ==
            IF n = 0 THEN <<>>
            ELSE upTo[n - 1] \o padding(n) \o pageSeparator(n, page(n)) \o page(n)
    IN upTo[batches[Len(batches)].range[2]]

\* Join refuses what is invalid or too long: the run ends as given.
JoinAndEnd(batches, refused) ==
    IF ValidBatches(batches) /\ Len(Join(batches)) <= MaxJoinedBytes
    THEN content' = Join(batches) /\ step' = "done"
    ELSE UNCHANGED content /\ step' = refused

-----------------------------------------------------------------------------
(***************************************************************************)
(* The run of process.                                                     *)
(***************************************************************************)

\* DirectPDFEligible
DirectEligible == doc.direct /\ 0 < doc.pages /\ doc.pages <= DirectPages

DirectRange == <<1, doc.pages>>
\* planRanges
Lesser(a, b) == IF a <= b THEN a ELSE b
ImageRanges ==
    {<<f, Lesser(f + BatchSize - 1, doc.pages)>> :
        f \in {n \in 1..doc.pages : (n - 1) % BatchSize = 0}}

Ask(r, withPdf) ==
    /\ range' = r /\ direct' = withPdf /\ attempt' = 1 /\ reply' = Pending
    /\ step' = "request"

\* A claimed job: a started finalization is resumed from the checkpoints, and a
\* document that fits is sent as a PDF.
BeginRun ==
    /\ step = "claimed" /\ validated' = <<>>
    /\ IF DirectEligible /\ ~begun THEN Ask(DirectRange, TRUE)
       ELSE step' = (IF begun THEN "reconstruct" ELSE "plan") /\ UNCHANGED requestVars
    /\ UNCHANGED <<doc, stored, content, begun, runs>>

\* EnsureBatchesContext
EnsurePlanned(plan, next) ==
    IF stored = [r \in {} |-> Pending]
    THEN stored' = [r \in plan |-> Pending] /\ step' = next
    ELSE step' = (IF DOMAIN stored = plan THEN next ELSE "failed") /\ UNCHANGED stored

Plan ==
    /\ step = "plan"
    /\ IF 0 < doc.pages /\ doc.pages <= MaxDocumentPages
       THEN EnsurePlanned(ImageRanges, "batch")
       ELSE step' = "failed" /\ UNCHANGED stored
    /\ UNCHANGED <<doc, requestVars, validated, content, begun, runs>>

NextPage == IF validated = <<>> THEN 1 ELSE validated[Len(validated)].range[2] + 1
Checked(r, raw) == [range |-> r, text |-> raw.text]

\* The next range: a completed checkpoint is validated again, a pending one asked for.
NextBatch ==
    /\ step = "batch"
    /\ \E r \in DOMAIN stored :
          /\ r[1] = NextPage
          /\ IF stored[r] = Pending
             THEN Ask(r, FALSE) /\ UNCHANGED validated
             ELSE /\ IF Valid(stored[r], r)
                     THEN validated' = Append(validated, Checked(r, stored[r])) /\ UNCHANGED step
                     ELSE step' = "failed" /\ UNCHANGED validated
                  /\ UNCHANGED requestVars
    /\ UNCHANGED <<doc, stored, content, begun, runs>>

JoinAll ==
    /\ step = "batch" /\ \A r \in DOMAIN stored : r[1] # NextPage
    /\ JoinAndEnd(validated, "failed")
    /\ UNCHANGED <<doc, requestVars, stored, validated, begun, runs>>

\* The outcomes of a request.
requestDone == <<doc, stored, validated, content, begun, runs>>

ModelAnswers ==
    /\ step = "request"
    /\ \E defect \in Defects \cup {"none"}, text \in [range[1]..range[2] -> PageTexts] :
          LET raw == [text |-> text, html |-> FALSE, defect |-> defect] IN
          IF CompletedOutput(raw) /\ Valid(raw, range)
          THEN reply' = Canonical(raw) /\ step' = "store"
          ELSE step' = "failed" /\ UNCHANGED reply
    /\ UNCHANGED <<requestDone, direct, range, attempt>>

\* A structured rejection of the attachment: only a PDF can be replaced.
AfterUnsupported == IF direct THEN "plan" ELSE "failed"
Unsupported ==
    /\ step = "request"
    /\ step' = AfterUnsupported
    /\ UNCHANGED <<requestDone, requestVars>>

\* A retryable failure: wait for the backoff or Retry-After, unless this was the
\* last attempt.
AfterRetryable == IF attempt < ModelAttempts THEN "wait" ELSE "failed"
\* 429, 409, 5xx
Busy ==
    /\ step = "request"
    /\ step' = AfterRetryable
    /\ UNCHANGED <<requestDone, requestVars>>

\* A faulty variant: stopOnTimeout is forgotten.
TimeoutRetried == AfterRetryable
\* The request's own deadline, 408, 524, a broken connection: a PDF is not sent again.
AfterTimeout == IF direct THEN "plan" ELSE AfterRetryable
ProviderTimeout ==
    /\ step = "request"
    /\ step' = AfterTimeout
    /\ UNCHANGED <<requestDone, requestVars>>

\* Any other rejection, or the renderer fails.
Rejected ==
    /\ step = "request"
    /\ step' = "failed"
    /\ UNCHANGED <<requestDone, requestVars>>

\* A faulty variant: the loop does not count.
SameAttempt(n) == n
FollowingAttempt(n) == n + 1

WaitEnds ==
    /\ step = "wait"
    /\ attempt' = FollowingAttempt(attempt) /\ step' = "request"
    /\ UNCHANGED <<requestDone, direct, range, reply>>

\* The plan of a direct answer is stored once the answer is there.
StoreDirectPlan ==
    /\ step = "store" /\ direct /\ EnsurePlanned({range}, "checkpoint")
    /\ UNCHANGED <<doc, requestVars, validated, content, begun, runs>>

\* CheckpointBatchContext: a completed checkpoint accepts only the same text.
StoreAnswer(r) ==
    IF stored[r] \in {Pending, reply}
    THEN stored' = [stored EXCEPT ![r] = reply] /\ validated' = Append(validated, Checked(r, reply))
    ELSE UNCHANGED <<stored, validated>>

Checkpoint ==
    /\ step = (IF direct THEN "checkpoint" ELSE "store")
    /\ StoreAnswer(range)
    /\ IF stored[range] \notin {Pending, reply} THEN step' = "failed" /\ UNCHANGED content
       ELSE IF direct THEN JoinAndEnd(<<Checked(range, reply)>>, "failed")
       ELSE step' = "batch" /\ UNCHANGED content
    /\ UNCHANGED <<doc, requestVars, begun, runs>>

\* reconstructResult: the stored checkpoints alone, in page order.  A finalization
\* that cannot be resumed is neither a success nor a failure of the job.
InOrder == CHOOSE s \in [1..Cardinality(DOMAIN stored) -> DOMAIN stored] :
              \A i, j \in DOMAIN s : i < j => s[i][1] < s[j][1]
Reconstructed == [i \in DOMAIN InOrder |-> Checked(InOrder[i], stored[InOrder[i]])]
Reconstruct ==
    /\ step = "reconstruct"
    /\ IF \A r \in DOMAIN stored : Valid(stored[r], r)
       THEN JoinAndEnd(Reconstructed, "unsettled")
       ELSE step' = "unsettled" /\ UNCHANGED content
    /\ UNCHANGED <<doc, requestVars, stored, validated, begun, runs>>

\* The document deadline, a cancellation or a crash: the job is claimed again.  A
\* finished run is cut off before or after its finalization is recorded.
Interrupt ==
    /\ step \notin {"claimed", "failed", "unsettled"} /\ runs < MaxRuns
    /\ runs' = runs + 1 /\ step' = "claimed"
    /\ begun' \in (IF step = "done" THEN {begun, TRUE} ELSE {begun})
    /\ UNCHANGED <<doc, requestVars, stored, validated, content>>

TranscriptionStep ==
    \/ BeginRun \/ Plan \/ NextBatch \/ JoinAll
    \/ ModelAnswers \/ Unsupported \/ Busy \/ ProviderTimeout \/ Rejected
    \/ WaitEnds \/ StoreDirectPlan \/ Checkpoint \/ Reconstruct

TranscriptionNext == TranscriptionStep \/ Interrupt

TranscriptionSpec == TranscriptionInit /\ [][TranscriptionNext]_trVars

-----------------------------------------------------------------------------
(***************************************************************************)
(* Properties.                                                             *)
(***************************************************************************)

TranscriptionTypeOK ==
    /\ doc \in [pages : PageCounts, direct : BOOLEAN] /\ direct \in BOOLEAN
    /\ step \in {"claimed", "plan", "batch", "request", "wait", "store", "checkpoint",
                 "reconstruct", "done", "failed", "unsettled"}
    /\ range \in Nat \X Nat /\ attempt \in 1..ModelAttempts /\ runs \in 0..MaxRuns

\* Where a reader who trusts the byte counts of the headers finds header n.
HeaderAt(n) ==
    LET at[k \in 1..n] ==
            IF k = 1 THEN 1
            ELSE LET end == at[k - 1] + 3 + content[at[k - 1]][3]
                 IN CHOOSE i \in end..Len(content) :
                        content[i] # NewLine /\ \A j \in end..(i - 1) : content[j] = NewLine
    IN at[n]

StoredText(n) ==
    LET r == CHOOSE r \in DOMAIN stored : n \in r[1]..r[2] IN stored[r].text[n]

\* "Each page starts with an ASCII numbered header separated from adjacent content
\* by at least one blank line; page transcription bytes are otherwise unchanged":
\* whatever the pages end with, and although a page may itself contain a header
\* line, the content of a run, of a later run and of a reconstruction gives back
\* every stored page once and in order.
JoinReadable ==
    content # <<>> =>
        \A n \in 1..doc.pages :
            LET h == HeaderAt(n)
                text == StoredText(n)
            IN /\ content[h] = Header(n, Len(text))
               /\ SubSeq(content, h + 1, h + 2) = BlankLine
               /\ SubSeq(content, h + 3, h + 2 + Len(text)) = text
               /\ n > 1 => SubSeq(content, h - 2, h - 1) = BlankLine
               /\ n = doc.pages => Len(content) = h + 2 + Len(text)

\* A run falls back to page images from its PDF only, at the first timeout, and for
\* good: an image request that times out or is rejected never plans anew, and once
\* images are planned the PDF is not sent again before the job is claimed again.
FallbackIsFinal ==
    [][/\ ProviderTimeout /\ direct => step' = "plan"
       /\ step' = "plan" => step = "claimed" \/ (step = "request" /\ direct)
       /\ step' = "request" /\ direct' => step = "claimed" \/ (step = "wait" /\ direct)]_trVars

\* "Completed batch checkpoints are reused": what was stored is accepted when it
\* is read again.
CheckpointsReusable ==
    \A r \in DOMAIN stored : stored[r] # Pending => Valid(stored[r], r)
=============================================================================
