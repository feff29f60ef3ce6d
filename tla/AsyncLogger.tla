---------------------------- MODULE AsyncLogger -----------------------------
(***************************************************************************)
(* The asynchronous logger (internal/securelog/logger.go): event methods   *)
(* put entries on a bounded channel without waiting, one goroutine writes  *)
(* them to the sink, Close stops the acceptance and waits for the rest.    *)
(* async.mu makes an event method, the clean-up after a sink failure and   *)
(* the beginning of Close one step each.  Entries are numbered in the      *)
(* order of the calls; a rejected call uses up its number.                 *)
(***************************************************************************)
EXTENDS Integers, Sequences

CONSTANTS
    Capacity,     \* capacity of the channel
    MaxEntries,   \* bound: calls of event methods
    Closers       \* calls of Close

ASSUME LoggerAssumption == Capacity \in Nat \ {0} /\ MaxEntries \in Nat

VARIABLES
    issued,       \* calls of event methods so far
    entries,      \* the channel
    writing,      \* the entry runAsync holds, 0: none
    sinkFailed,   \* the write of that entry failed
    written,      \* entries in the sink
    dropped,      \* async.dropped
    closing,      \* async.closed: the channel is closed
    failed,       \* async.failed
    done,         \* async.done is closed: runAsync returned
    close         \* what each Close is doing

lgVars == <<issued, entries, writing, sinkFailed, written, dropped, closing, failed, done, close>>

LoggerInit ==
    /\ issued = 0 /\ entries = <<>> /\ writing = 0 /\ sinkFailed = FALSE
    /\ written = <<>> /\ dropped = 0
    /\ closing = FALSE /\ failed = FALSE /\ done = FALSE
    /\ close = [c \in Closers |-> "idle"]

-----------------------------------------------------------------------------

\* write: an entry is accepted while there is room, and counted as dropped
\* otherwise or once the logger is closed or its sink failed.
Accepts == ~closing /\ ~failed /\ Len(entries) < Capacity
LogEvent ==
    /\ issued < MaxEntries /\ issued' = issued + 1
    /\ IF Accepts
       THEN entries' = Append(entries, issued + 1) /\ UNCHANGED dropped
       ELSE dropped' = dropped + 1 /\ UNCHANGED entries
    /\ UNCHANGED <<writing, sinkFailed, written, closing, failed, done, close>>

\* runAsync takes the next entry.
TakeEntry ==
    /\ ~done /\ writing = 0 /\ entries # <<>>
    /\ writing' = Head(entries) /\ entries' = Tail(entries)
    /\ UNCHANGED <<issued, sinkFailed, written, dropped, closing, failed, done, close>>

WriteEntry ==
    /\ writing # 0 /\ ~sinkFailed
    /\ written' = Append(written, writing) /\ writing' = 0
    /\ UNCHANGED <<issued, entries, sinkFailed, dropped, closing, failed, done, close>>

\* The sink errs or panics; entries are still accepted until the mutex is taken.
SinkFails ==
    /\ writing # 0 /\ ~sinkFailed
    /\ sinkFailed' = TRUE
    /\ UNCHANGED <<issued, entries, writing, written, dropped, closing, failed, done, close>>

\* A faulty variant: the entry in hand is not counted.
QueuedOnly == Len(entries)
\* The entry in hand and everything queued behind it.
Lost == 1 + Len(entries)

DropQueued ==
    /\ sinkFailed /\ ~done
    /\ failed' = TRUE /\ dropped' = dropped + Lost
    /\ entries' = <<>> /\ writing' = 0
    /\ done' = TRUE
    /\ UNCHANGED <<issued, sinkFailed, written, closing, close>>

\* range ends when the channel is closed and empty.
ChannelDrained == closing /\ entries = <<>>

RunAsyncEnds ==
    /\ ~done /\ writing = 0 /\ ChannelDrained
    /\ done' = TRUE
    /\ UNCHANGED <<issued, entries, writing, sinkFailed, written, dropped, closing, failed, close>>

\* Close begins: the first call closes the channel.
BeginClose(c) ==
    /\ close[c] = "idle"
    /\ closing' = TRUE
    /\ close' = [close EXCEPT ![c] = "waiting"]
    /\ UNCHANGED <<issued, entries, writing, sinkFailed, written, dropped, failed, done>>

\* It returns nil when runAsync returned, an error when its context ends first.
CloseReturns(c) ==
    /\ close[c] = "waiting"
    /\ \/ done /\ close' = [close EXCEPT ![c] = "nil"]
       \/ close' = [close EXCEPT ![c] = "error"]
    /\ UNCHANGED <<issued, entries, writing, sinkFailed, written, dropped, closing, failed, done>>

RunAsync == TakeEntry \/ WriteEntry \/ DropQueued \/ RunAsyncEnds

LoggerNext ==
    \/ LogEvent \/ RunAsync \/ SinkFails
    \/ \E c \in Closers : BeginClose(c) \/ CloseReturns(c)

LoggerSpec == LoggerInit /\ [][LoggerNext]_lgVars

-----------------------------------------------------------------------------
(***************************************************************************)
(* Properties.                                                             *)
(***************************************************************************)

LoggerTypeOK ==
    /\ issued \in 0..MaxEntries /\ entries \in Seq(1..MaxEntries)
    /\ writing \in 0..MaxEntries /\ written \in Seq(1..MaxEntries) /\ dropped \in Nat
    /\ sinkFailed \in BOOLEAN /\ closing \in BOOLEAN /\ failed \in BOOLEAN /\ done \in BOOLEAN
    /\ close \in [Closers -> {"idle", "waiting", "nil", "error"}]

InHand == IF writing = 0 THEN 0 ELSE 1
\* Dropped "returns rejected entries plus accepted entries lost after sink failure":
\* every call is written, queued, being written or counted, exactly once, however
\* a full channel, a failing sink and Close meet; when Close returned nil nothing
\* is left on the way; and the sink keeps the order of the calls.
EntriesAccounted ==
    /\ issued = Len(written) + Len(entries) + InHand + dropped
    /\ \A c \in Closers : close[c] = "nil" => Len(written) + dropped = issued
    /\ \A i, j \in 1..Len(written) : i < j => written[i] < written[j]
=============================================================================
