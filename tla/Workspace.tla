----------------------------- MODULE Workspace ------------------------------
(***************************************************************************)
(* The byte accounting of one job's temporary directory (internal/pdf/     *)
(* workspace.go): files and render batches hold reservations against the   *)
(* budget.  The mutex makes each reservation method one action; the file   *)
(* operations around them are steps of their own, so reservations of the   *)
(* same workspace interleave.  Available is what statfs may answer.        *)
(***************************************************************************)
EXTENDS Integers, FiniteSets

CONSTANTS
    TemporaryByteBudget,
    MinimumFreeBytes,
    Available,      \* free bytes of the file system
    Reservations,   \* bound: reservations made during the job
    Sizes           \* sizes of writes and of rendered output

ASSUME WorkspaceAssumption ==
    /\ TemporaryByteBudget \in Nat \ {0} /\ MinimumFreeBytes \in Nat
    /\ Available \subseteq Int /\ Sizes \subseteq Nat /\ IsFiniteSet(Reservations)

VARIABLES
    reserved,  \* Workspace.reserved
    active,    \* Workspace.active
    closed,    \* Workspace.closed
    stage,     \* what became of each reservation
    bytes,     \* reservation.bytes
    pending,   \* bytes of a Write that is under way
    disk       \* bytes in the directory: of the file, or of the rendered pages

wsVars == <<reserved, active, closed, stage, bytes, pending, disk>>

\* The renderer runs under a reservation of no size yet, and leaves its output.
Unmeasured == {"render", "rendered"}
\* Reservations that count as active: an open file, one whose write failed, a batch
\* whose output is not measured yet and one whose pages are visited.
Held == {"file", "aborting", "visit"} \cup Unmeasured
\* Released while the bytes may still be there: about to be removed, or not removable.
Uncharged == {"removing", "stray"}
ReservationStages == {"unused", "retained", "released"} \cup Held \cup Uncharged

WorkspaceInit ==
    /\ reserved = 0 /\ active = 0 /\ closed = FALSE
    /\ stage = [r \in Reservations |-> "unused"]
    /\ bytes = [r \in Reservations |-> 0]
    /\ pending = [r \in Reservations |-> 0]
    /\ disk = [r \in Reservations |-> 0]

-----------------------------------------------------------------------------
(***************************************************************************)
(* The methods of a reservation.                                           *)
(***************************************************************************)

\* A faulty variant: only what is asked for is compared with the budget.
FitsAlone(n) == n <= TemporaryByteBudget
\* The budget check of reserve and grow.
FitsBudget(n) == reserved + n <= TemporaryByteBudget
\* The storage check of reserve, reserveRemaining and grow.
EnoughStorage(n) == \E a \in Available : a >= n + MinimumFreeBytes

\* reserve and reserveRemaining hand out n bytes.
Reserve(r, n, s) ==
    /\ stage[r] = "unused" /\ ~closed /\ EnoughStorage(n)
    /\ reserved' = reserved + n /\ active' = active + 1
    /\ stage' = [stage EXCEPT ![r] = s]
    /\ bytes' = [bytes EXCEPT ![r] = n]
    /\ UNCHANGED closed

AtLeastZero(n) == IF n < 0 THEN 0 ELSE n

\* A faulty variant: the bytes stay charged.
KeepBytes(r) == reserved
\* release returns the bytes to the budget.
ReturnBytes(r) == AtLeastZero(reserved - bytes[r])

Release(r, s) ==
    /\ reserved' = ReturnBytes(r) /\ active' = AtLeastZero(active - 1)
    /\ stage' = [stage EXCEPT ![r] = s]
    /\ UNCHANGED <<closed, bytes>>

\* retain keeps the bytes charged until the workspace is removed.
Retain(r) ==
    /\ active' = AtLeastZero(active - 1)
    /\ stage' = [stage EXCEPT ![r] = "retained"]
    /\ UNCHANGED <<reserved, closed, bytes>>

-----------------------------------------------------------------------------
(***************************************************************************)
(* Files.                                                                  *)
(***************************************************************************)

\* Create; a file that cannot be opened gives its empty reservation back.
Create(r) ==
    /\ FitsBudget(0) /\ Reserve(r, 0, "file")
    /\ UNCHANGED <<pending, disk>>

\* The file is open and no Write of it is under way.
Open(r) == stage[r] = "file" /\ pending[r] = 0

\* Write reserves before it writes.
Grow(r, n) ==
    /\ Open(r) /\ ~closed /\ n > 0
    /\ FitsBudget(n) /\ EnoughStorage(n)
    /\ reserved' = reserved + n
    /\ bytes' = [bytes EXCEPT ![r] = @ + n]
    /\ pending' = [pending EXCEPT ![r] = n]
    /\ UNCHANGED <<active, closed, stage, disk>>

Written(r) ==
    /\ stage[r] = "file" /\ pending[r] > 0
    /\ disk' = [disk EXCEPT ![r] = @ + pending[r]]
    /\ pending' = [pending EXCEPT ![r] = 0]
    /\ UNCHANGED <<reserved, active, closed, stage, bytes>>

\* A faulty variant: the whole of a short write is taken back.
WholeWrite(r, w) == pending[r]
\* What shrink takes back after a write of w bytes.
Unwritten(r, w) == pending[r] - w

\* A short or failed write shrinks the reservation; Abort follows.
ShortWrite(r, w) ==
    /\ stage[r] = "file" /\ w < pending[r]
    /\ disk' = [disk EXCEPT ![r] = @ + w]
    /\ bytes' = [bytes EXCEPT ![r] = @ - Unwritten(r, w)]
    /\ reserved' = reserved - Unwritten(r, w)
    /\ pending' = [pending EXCEPT ![r] = 0]
    /\ stage' = [stage EXCEPT ![r] = "aborting"]
    /\ UNCHANGED <<active, closed>>

\* Abort, after a refused or short write, a failed sync or a failed download:
\* the file is removed, if it can be, and then released.
Abort(r) ==
    /\ Open(r) \/ stage[r] = "aborting"
    /\ \/ Release(r, "released") /\ disk' = [disk EXCEPT ![r] = 0]
       \/ Release(r, "stray") /\ UNCHANGED disk
    /\ UNCHANGED pending

\* OwnedFile.Close; a file that cannot be closed is released and then removed.
CloseFile(r) ==
    /\ Open(r)
    /\ Retain(r) \/ Release(r, "removing")
    /\ UNCHANGED <<pending, disk>>

RemoveUnclosed(r) ==
    /\ stage[r] = "removing"
    /\ \/ stage' = [stage EXCEPT ![r] = "released"] /\ disk' = [disk EXCEPT ![r] = 0]
       \/ stage' = [stage EXCEPT ![r] = "stray"] /\ UNCHANGED disk
    /\ UNCHANGED <<reserved, active, closed, bytes, pending>>

-----------------------------------------------------------------------------
(***************************************************************************)
(* Render batches and the end of the workspace.                            *)
(***************************************************************************)

\* A batch takes what is left, rather than a size it cannot know yet.
ReserveRemaining(r) ==
    /\ Reserve(r, TemporaryByteBudget - reserved, "render")
    /\ UNCHANGED <<pending, disk>>

\* pdftoppm has run: nothing limits what it wrote, be it done, failed or killed.
RunCommand(r, n) ==
    /\ stage[r] = "render"
    /\ disk' = [disk EXCEPT ![r] = n]
    /\ stage' = [stage EXCEPT ![r] = "rendered"]
    /\ UNCHANGED <<reserved, active, closed, bytes, pending>>

\* resize to the output, which collectRenderedPages found to be within the lease.
Resize(r) ==
    /\ stage[r] = "rendered" /\ ~closed /\ disk[r] <= bytes[r]
    /\ reserved' = reserved - (bytes[r] - disk[r])
    /\ bytes' = [bytes EXCEPT ![r] = disk[r]]
    /\ stage' = [stage EXCEPT ![r] = "visit"]
    /\ UNCHANGED <<active, closed, pending, disk>>

\* However Render ends, the batch directory is removed, if it can be, and the lease
\* is released in either case.
EndBatch(r) ==
    /\ stage[r] \in Unmeasured \cup {"visit"}
    /\ \/ Release(r, "released") /\ disk' = [disk EXCEPT ![r] = 0]
       \/ Release(r, "stray") /\ UNCHANGED disk
    /\ UNCHANGED pending

\* The workspace is closed when nothing counts as active.
NotInUse == active = 0

CloseWorkspace ==
    /\ ~closed /\ NotInUse
    /\ closed' = TRUE
    /\ disk' = [r \in Reservations |-> 0]
    /\ UNCHANGED <<reserved, active, stage, bytes, pending>>

\* RemoveAll fails half-way: some files are gone and the workspace stays open.
CleanupFails ==
    /\ ~closed /\ NotInUse
    /\ \E gone \in SUBSET Reservations :
          disk' = [r \in Reservations |-> IF r \in gone THEN 0 ELSE disk[r]]
    /\ UNCHANGED <<reserved, active, closed, stage, bytes, pending>>

FileStep(r) ==
    \/ Create(r) \/ Written(r) \/ Abort(r) \/ CloseFile(r) \/ RemoveUnclosed(r)
    \/ \E n \in Sizes : Grow(r, n) \/ ShortWrite(r, n)

BatchStep(r) ==
    \/ ReserveRemaining(r) \/ Resize(r) \/ EndBatch(r)
    \/ \E n \in Sizes : RunCommand(r, n)

WorkspaceNext ==
    \/ CloseWorkspace \/ CleanupFails
    \/ \E r \in Reservations : FileStep(r) \/ BatchStep(r)

WorkspaceSpec == WorkspaceInit /\ [][WorkspaceNext]_wsVars

-----------------------------------------------------------------------------
(***************************************************************************)
(* Properties.                                                             *)
(***************************************************************************)

\* The counters keep their ranges and no reservation holds a negative number of
\* bytes, also when a batch takes what is left of the budget.
WorkspaceTypeOK ==
    /\ reserved \in Int /\ active \in Nat /\ closed \in BOOLEAN
    /\ stage \in [Reservations -> ReservationStages]
    /\ bytes \in [Reservations -> Nat] /\ pending \in [Reservations -> Nat]
    /\ disk \in [Reservations -> Nat]

\* However files and render batches interleave, the bytes charged never exceed
\* the configured temporary budget.
BudgetRespected == reserved <= TemporaryByteBudget

\* The bytes, numbered, of the open and the retained reservations.
Charged == {r \in Reservations : stage[r] \in Held \cup {"retained"}}
ChargedBytes == UNION {{r} \X (1..bytes[r]) : r \in Charged}

\* The counters are exact: reserved is what open and retained reservations hold
\* together and active counts the open ones, so the clamps at zero in release and
\* retain never hide a double release.
AccountingExact ==
    /\ reserved = Cardinality(ChargedBytes)
    /\ active = Cardinality({r \in Reservations : stage[r] \in Held})

\* Every byte in the directory is charged, also between the two halves of a write and
\* beside other writers, except in three places where the code lets go of the bytes
\* or does not count them yet: the output of a renderer that was not measured, a file
\* that could not be closed, and what could not be removed.  A closed workspace has
\* no file and no open reservation.
DiskIsCharged ==
    \A r \in Reservations :
        /\ disk[r] > 0 /\ stage[r] \notin Uncharged \cup Unmeasured =>
              stage[r] \in Held \cup {"retained"} /\ disk[r] + pending[r] <= bytes[r]
        /\ closed => disk[r] = 0 /\ stage[r] \notin Held
=============================================================================
