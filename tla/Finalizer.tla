----------------------------- MODULE Finalizer ------------------------------
(***************************************************************************)
(* Finalizer.Process and Finalizer.FailOCR (internal/finalize): the        *)
(* externally visible effects of a job, each confirmed by a checkpoint     *)
(* before the next one starts.                                             *)
(*                                                                         *)
(* The finalizer keeps the stage it read at admission and every stage it   *)
(* stored since; under its admission that is the stored stage, fin[job].   *)
(***************************************************************************)
EXTENDS Worker

Token == admission[job].token

\* The finalizer runs on: context alive, lease and admission its own.
Finalizing(p) == pc = p /\ ~stopping /\ Holds
FinalizingAdmitted(p) == pc = p /\ ~stopping /\ Admitted(job, att, up, Token)

\* A faulty variant: the dispatch comes before the effects it depends on.
DispatchFirst(stage) == IF stage = "metadata_dispatched" THEN "complete" ELSE "reserve"
\* Where the finalizer goes on at a stage.
StageEntry(stage) ==
    CASE stage = "pending" -> "content"
      [] stage \in {"content_updated", "complete_tag_added", "failure_pending"} -> "readTags"
      [] stage = "failed_tag_removed" -> "reserve"
      [] stage = "metadata_dispatched" -> "complete"
      [] stage = "failure_tag_added" -> "fail"

NextStage(stage) ==
    CASE stage = "pending" -> "content_updated"
      [] stage = "content_updated" -> "complete_tag_added"
      [] stage = "complete_tag_added" -> "failed_tag_removed"
      [] stage = "failed_tag_removed" -> "metadata_dispatched"
      [] stage = "failure_pending" -> "failure_tag_added"

\* Faulty variants: the tags of others are dropped; the two names are mixed up.
OwnTagsOnly(stage, list) ==
    IF stage = "content_updated" THEN {"complete"}
    ELSE IF stage = "failure_pending" THEN {"failed"} ELSE list \ {"failed"}
SwappedTags(stage, list) ==
    list \cup {IF stage = "content_updated" THEN "failed" ELSE "complete"}
\* The tag list mutateTag wants at a stage, given the list it read.
WantedTags(stage, list) ==
    CASE stage = "content_updated" -> list \cup {"complete"}
      [] stage = "complete_tag_added" -> list \ {"failed"}
      [] stage = "failure_pending" -> list \cup {"failed"}

-----------------------------------------------------------------------------

\* An earlier attempt reserved the dispatch and never learnt what became of it.
DispatchUnknown(i) == dispatch[i] = "reserved"

AcquireSuccess ==
    /\ Finalizing("acquire")
    /\ \E t \in Tokens : AcquireFinalization(job, att, up, t)
    /\ Goto(IF DispatchUnknown(job) THEN "fail" ELSE "verify")
    /\ UNCHANGED <<docVars, localVars, budget>>

\* A faulty variant: the text is taken to be there.
ContentAssumed == TRUE
ContentIsResult == content[Doc] = batches[job]

\* A faulty variant: the checksum is not compared again.
NeverChanged == FALSE
SourceChanged == source[Doc] # src[job].sum

\* GetDocument: a changed source fails the job; otherwise go on at the stage.
\* Content that is already the result is not written again.
Verify ==
    /\ FinalizingAdmitted("verify")
    /\ Goto(CASE SourceChanged -> "fail"
              [] fin[job] = "pending" /\ ContentIsResult -> "advance"
              [] OTHER -> StageEntry(fin[job]))
    /\ UNCHANGED <<vars, docVars, localVars, budget>>

\* UpdateContent with the joined result.
WriteContent == content' = [content EXCEPT ![Doc] = batches[job]]
UpdateContent ==
    /\ FinalizingAdmitted("content")
    /\ WriteContent
    /\ Goto("advance")
    /\ UNCHANGED <<vars, source, tags, admitted, localVars, budget>>

\* mutateTag: EnsureTag and GetDocument; nothing to write when the list fits.
ReadTags ==
    /\ FinalizingAdmitted("readTags")
    /\ seenTags' = tags[Doc]
    /\ Goto(IF WantedTags(fin[job], tags[Doc]) = tags[Doc] THEN "advance" ELSE "writeTags")
    /\ UNCHANGED <<vars, docVars, seen, budget>>

\* UpdateTags replaces the whole list by the one computed from what was read.
WriteTags == tags' = [tags EXCEPT ![Doc] = WantedTags(fin[job], seenTags)]
UpdateTags ==
    /\ FinalizingAdmitted("writeTags")
    /\ WriteTags
    /\ Goto("advance")
    /\ UNCHANGED <<vars, source, content, admitted, localVars, budget>>

\* AdvanceFinalizationContext after a confirmed effect.
Advance ==
    /\ FinalizingAdmitted("advance")
    /\ AdvanceFinalization(job, att, up, Token, fin[job], NextStage(fin[job]))
    /\ Goto(StageEntry(NextStage(fin[job])))
    /\ UNCHANGED <<docVars, localVars, budget>>

\* The dispatch is reserved before the request; a confirmed one is not repeated.
ReserveDispatch ==
    /\ FinalizingAdmitted("reserve")
    /\ IF dispatch[job] = "none"
       THEN SetDispatchState(job, att, up, Token, "none", "reserved") /\ Goto("send")
       ELSE UNCHANGED vars /\ Goto("advance")
    /\ UNCHANGED <<docVars, localVars, budget>>

\* Dispatch answered 202: Paperless AI admitted the run.
Admit == admitted' = [admitted EXCEPT ![job] = @ + 1]
DispatchAccepted ==
    /\ FinalizingAdmitted("send")
    /\ Admit
    /\ Goto("confirm")
    /\ UNCHANGED <<vars, source, content, tags, localVars, budget>>

ConfirmDispatch ==
    /\ FinalizingAdmitted("confirm")
    /\ SetDispatchState(job, att, up, Token, "reserved", "confirmed")
    /\ Goto("advance")
    /\ UNCHANGED <<docVars, localVars, budget>>

\* 503, the only retry-safe answer: nothing was admitted, undo the reservation.
DispatchRefused ==
    /\ FinalizingAdmitted("send") /\ Spend("error")
    /\ Goto("reset")
    /\ UNCHANGED <<vars, docVars, localVars>>

ResetDispatch ==
    /\ FinalizingAdmitted("reset")
    /\ SetDispatchState(job, att, up, Token, "reserved", "none")
    /\ Goto("reschedule")
    /\ UNCHANGED <<docVars, localVars, budget>>

\* A write or a dispatch under way when the finalizer gives up may take effect.
WriteUnderWay ==
    \/ UNCHANGED docVars
    \/ pc = "content" /\ WriteContent /\ UNCHANGED <<source, tags, admitted>>
    \/ pc = "writeTags" /\ WriteTags /\ UNCHANGED <<source, content, admitted>>
    \/ pc = "send" /\ Admit /\ UNCHANGED <<source, content, tags>>

\* A faulty variant: every failed dispatch is retried.
RetryAnyDispatch == "reset"
\* Every other failed dispatch may have been admitted: never send it again.
AfterAmbiguousDispatch == "fail"
DispatchAmbiguous ==
    /\ FinalizingAdmitted("send") /\ Spend("error")
    /\ WriteUnderWay
    /\ Goto(AfterAmbiguousDispatch)
    /\ UNCHANGED <<vars, localVars>>

\* The store call of the finalizer at its place, as above.
FinalizerStoreCall ==
    \/ pc \in {"acquire", "acquireFailure"} /\ \E t \in Tokens : AcquireFinalization(job, att, up, t)
    \/ /\ pc = "advance"
       /\ AdvanceFinalization(job, att, up, Token, fin[job], NextStage(fin[job]))
    \/ pc = "reserve" /\ SetDispatchState(job, att, up, Token, "none", "reserved")
    \/ pc = "confirm" /\ SetDispatchState(job, att, up, Token, "reserved", "confirmed")
    \/ pc = "reset" /\ SetDispatchState(job, att, up, Token, "reserved", "none")

\* A Paperless call fails; a write may have been applied all the same.
FinalizerCallFails ==
    /\ \E p \in {"verify", "content", "readTags", "writeTags"} : FinalizingAdmitted(p)
    /\ Spend("error")
    /\ WriteUnderWay
    /\ Goto("reschedule")
    /\ UNCHANGED <<vars, localVars>>

\* Process or FailOCR is under way: up to its last renewal.
FinalizerAtWork == pc \in FinalizerPcs \cup {"complete"} \/ EndsFailOCR

\* A store call fails in a process that runs on.  A renewal, also one of the
\* heartbeat beside a write, ends as a lost lease and a refused admission as it is:
\* no transition.  Any other call asks for a retry.
FailedCheckpointAt(p) ==
    {"outcome"} \cup
    (IF p \in {"advance", "reserve", "confirm", "reset"} THEN {"reschedule"} ELSE {})
FinalizerStoreFails ==
    /\ FinalizerAtWork /\ Finalizing(pc)
    /\ pc \notin {"acquire", "acquireFailure"} => Admitted(job, att, up, Token)
    /\ Spend("store")
    /\ \E p \in FailedCheckpointAt(pc) : Goto(p)
    /\ WriteUnderWay
    /\ FinalizerStoreCall \/ UNCHANGED vars
    /\ UNCHANGED localVars

\* The last renewal, the heartbeat stopped, CompleteContext.
CompleteJob ==
    /\ pc = "complete"
    /\ IF Holds THEN Complete(job, att, up) ELSE UNCHANGED vars
    /\ Goto("outcome")
    /\ UNCHANGED <<docVars, localVars, budget>>

\* FailContext: changed source, ambiguous dispatch, or the end of FailOCR.
FailJob ==
    /\ pc = "fail"
    /\ IF Holds THEN Fail(job, att, up) ELSE UNCHANGED vars
    /\ Goto("outcome")
    /\ UNCHANGED <<docVars, localVars, budget>>

\* FailOCR: admission, then the failed tag unless it is already recorded.
AcquireFailure ==
    /\ Finalizing("acquireFailure")
    /\ \E t \in Tokens : AcquireFinalization(job, att, up, t)
    /\ Goto(StageEntry(fin[job]))
    /\ UNCHANGED <<docVars, localVars, budget>>

FinalizerStep ==
    \/ AcquireSuccess \/ Verify \/ UpdateContent \/ ReadTags \/ UpdateTags \/ Advance
    \/ ReserveDispatch \/ DispatchAccepted \/ ConfirmDispatch \/ ResetDispatch
    \/ CompleteJob \/ FailJob \/ AcquireFailure

FinalizerFault ==
    \/ DispatchRefused \/ DispatchAmbiguous \/ FinalizerCallFails
    \/ FinalizerStoreFails
=============================================================================
