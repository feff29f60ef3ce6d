-------------------------- MODULE WorkspaceProofs ---------------------------
(***************************************************************************)
(* Proofs about Workspace, for every budget, every number of reservations  *)
(* and all sizes of writes and rendered output.                            *)
(***************************************************************************)
EXTENDS Workspace, FiniteSetTheorems, TLAPS

\* A write under way belongs to an open file and is part of its reservation: this
\* keeps the bytes from becoming negative when a short write shrinks them.
PendingIsReserved ==
    \A r \in Reservations :
        /\ pending[r] <= bytes[r]
        /\ pending[r] > 0 => stage[r] = "file"

BudgetInv == WorkspaceTypeOK /\ PendingIsReserved /\ BudgetRespected

\* The clamp of release and retain yields a natural number.
LEMMA ClampNat == ASSUME NEW n \in Int PROVE AtLeastZero(n) \in Nat
BY DEF AtLeastZero

\* release never raises what is reserved above the budget.
LEMMA ReturnBytesBounded ==
    ASSUME BudgetInv, NEW r \in Reservations
    PROVE  ReturnBytes(r) \in Int /\ ReturnBytes(r) <= TemporaryByteBudget
<1>1. bytes[r] \in Nat /\ reserved \in Int /\ reserved <= TemporaryByteBudget
  BY DEF BudgetInv, WorkspaceTypeOK, BudgetRespected
<1>2. QED
  BY <1>1, WorkspaceAssumption DEF ReturnBytes, AtLeastZero

\* A reservation within what is left keeps the invariant.
LEMMA ReserveKeepsInv ==
    ASSUME BudgetInv, NEW r \in Reservations, NEW n \in Nat, NEW s \in ReservationStages,
           Reserve(r, n, s), FitsBudget(n), UNCHANGED <<pending, disk>>
    PROVE  BudgetInv'
<1>1. WorkspaceTypeOK'
  BY DEF Reserve, BudgetInv, WorkspaceTypeOK
<1>2. PendingIsReserved'
  BY DEF Reserve, BudgetInv, PendingIsReserved, WorkspaceTypeOK
<1>3. BudgetRespected'
  BY DEF Reserve, FitsBudget, BudgetRespected
<1>4. QED
  BY <1>1, <1>2, <1>3 DEF BudgetInv

\* So does giving a reservation back that has no write under way.
LEMMA ReleaseKeepsInv ==
    ASSUME BudgetInv, NEW r \in Reservations, NEW s \in ReservationStages,
           Release(r, s), pending[r] = 0, UNCHANGED pending,
           disk' \in [Reservations -> Nat]
    PROVE  BudgetInv'
<1>1. reserved' \in Int /\ reserved' <= TemporaryByteBudget
  BY ReturnBytesBounded DEF Release
<1>2. active' \in Nat
  <2>1. active - 1 \in Int
    BY DEF BudgetInv, WorkspaceTypeOK
  <2>2. QED
    BY <2>1, ClampNat DEF Release
<1>3. WorkspaceTypeOK'
  BY <1>1, <1>2 DEF Release, BudgetInv, WorkspaceTypeOK
<1>4. PendingIsReserved'
  BY DEF Release, BudgetInv, PendingIsReserved, WorkspaceTypeOK
<1>5. QED
  BY <1>1, <1>3, <1>4 DEF BudgetInv, BudgetRespected

\* Every step of a workspace file (OwnedFile) keeps the invariant.
LEMMA FileStepKeepsInv ==
    ASSUME BudgetInv, NEW r \in Reservations, FileStep(r)
    PROVE  BudgetInv'
<1> USE WorkspaceAssumption
<1>0. {"file", "aborting", "released", "stray", "removing", "retained"} \subseteq ReservationStages
  BY DEF ReservationStages, Held, Uncharged, Unmeasured
<1>1. CASE Create(r)
  BY <1>0, <1>1, ReserveKeepsInv DEF Create
<1>2. CASE Written(r)
  BY <1>2 DEF Written, BudgetInv, WorkspaceTypeOK, PendingIsReserved, BudgetRespected
<1>3. CASE Abort(r)
  <2>1. pending[r] = 0
    BY <1>3 DEF Abort, Open, BudgetInv, WorkspaceTypeOK, PendingIsReserved
  <2>2. disk' \in [Reservations -> Nat]
    BY <1>3 DEF Abort, BudgetInv, WorkspaceTypeOK
  <2>3. QED
    BY <1>0, <1>3, <2>1, <2>2, ReleaseKeepsInv DEF Abort
<1>4. CASE CloseFile(r)
  <2>1. CASE Retain(r)
    <3>1. active - 1 \in Int
      BY DEF BudgetInv, WorkspaceTypeOK
    <3>2. active' \in Nat
      BY <2>1, <3>1, ClampNat DEF Retain
    <3>3. WorkspaceTypeOK'
      BY <1>0, <1>4, <2>1, <3>2 DEF CloseFile, Retain, BudgetInv, WorkspaceTypeOK
    <3>4. PendingIsReserved'
      BY <1>4, <2>1 DEF CloseFile, Open, Retain, BudgetInv, WorkspaceTypeOK, PendingIsReserved
    <3>5. QED
      BY <2>1, <3>3, <3>4 DEF Retain, BudgetInv, BudgetRespected
  <2>2. CASE Release(r, "removing")
    <3>1. disk' \in [Reservations -> Nat]
      BY <1>4 DEF CloseFile, BudgetInv, WorkspaceTypeOK
    <3>2. QED
      BY <1>0, <1>4, <2>2, <3>1, ReleaseKeepsInv DEF CloseFile, Open
  <2>3. QED
    BY <1>4, <2>1, <2>2 DEF CloseFile
<1>5. CASE RemoveUnclosed(r)
  BY <1>0, <1>5 DEF RemoveUnclosed, BudgetInv, WorkspaceTypeOK, PendingIsReserved, BudgetRespected
<1>6. ASSUME NEW n \in Sizes, Grow(r, n)
      PROVE  BudgetInv'
  <2>1. n \in Nat
    OBVIOUS
  <2>2. WorkspaceTypeOK'
    BY <1>6, <2>1 DEF Grow, BudgetInv, WorkspaceTypeOK
  <2>3. PendingIsReserved'
    BY <1>6, <2>1 DEF Grow, Open, BudgetInv, WorkspaceTypeOK, PendingIsReserved
  <2>4. QED
    BY <1>6, <2>2, <2>3 DEF Grow, FitsBudget, BudgetInv, BudgetRespected
<1>7. ASSUME NEW w \in Sizes, ShortWrite(r, w)
      PROVE  BudgetInv'
  <2>1. Unwritten(r, w) \in 1..bytes[r]
    BY <1>7 DEF ShortWrite, Unwritten, BudgetInv, WorkspaceTypeOK, PendingIsReserved
  <2>2. WorkspaceTypeOK'
    BY <1>0, <1>7, <2>1 DEF ShortWrite, BudgetInv, WorkspaceTypeOK
  <2>3. PendingIsReserved'
    BY <1>7, <2>1 DEF ShortWrite, BudgetInv, WorkspaceTypeOK, PendingIsReserved
  <2>4. BudgetRespected'
    BY <1>7, <2>1 DEF ShortWrite, BudgetInv, WorkspaceTypeOK, BudgetRespected
  <2>5. QED
    BY <2>2, <2>3, <2>4 DEF BudgetInv
<1>8. QED
  BY <1>1, <1>2, <1>3, <1>4, <1>5, <1>6, <1>7 DEF FileStep

\* Every step of a render batch (Renderer.Render) keeps the invariant.
LEMMA BatchStepKeepsInv ==
    ASSUME BudgetInv, NEW r \in Reservations, BatchStep(r)
    PROVE  BudgetInv'
<1> USE WorkspaceAssumption
<1>0. {"render", "rendered", "visit", "released", "stray"} \subseteq ReservationStages
  BY DEF ReservationStages, Held, Uncharged, Unmeasured
<1>1. CASE ReserveRemaining(r)
  <2>1. TemporaryByteBudget - reserved \in Nat
    BY DEF BudgetInv, WorkspaceTypeOK, BudgetRespected
  <2>2. FitsBudget(TemporaryByteBudget - reserved)
    BY DEF BudgetInv, WorkspaceTypeOK, FitsBudget
  <2>3. QED
    BY <1>0, <1>1, <2>1, <2>2, ReserveKeepsInv DEF ReserveRemaining
<1>2. CASE EndBatch(r)
  <2>1. pending[r] = 0 /\ disk' \in [Reservations -> Nat]
    BY <1>2 DEF EndBatch, Unmeasured, BudgetInv, WorkspaceTypeOK, PendingIsReserved
  <2>2. QED
    BY <1>0, <1>2, <2>1, ReleaseKeepsInv DEF EndBatch
<1>3. CASE Resize(r)
  <2>1. disk[r] \in Nat /\ bytes[r] \in Nat /\ disk[r] <= bytes[r] /\ pending[r] = 0
    BY <1>3 DEF Resize, BudgetInv, WorkspaceTypeOK, PendingIsReserved
  <2>2. WorkspaceTypeOK'
    BY <1>0, <1>3, <2>1 DEF Resize, BudgetInv, WorkspaceTypeOK
  <2>3. PendingIsReserved'
    BY <1>3, <2>1 DEF Resize, BudgetInv, WorkspaceTypeOK, PendingIsReserved
  <2>4. BudgetRespected'
    BY <1>3, <2>1 DEF Resize, BudgetInv, WorkspaceTypeOK, BudgetRespected
  <2>5. QED
    BY <2>2, <2>3, <2>4 DEF BudgetInv
<1>4. ASSUME NEW n \in Sizes, RunCommand(r, n)
      PROVE  BudgetInv'
  <2>1. n \in Nat /\ pending[r] = 0
    BY <1>4 DEF RunCommand, BudgetInv, WorkspaceTypeOK, PendingIsReserved
  <2>2. QED
    BY <1>0, <1>4, <2>1 DEF RunCommand, BudgetInv, WorkspaceTypeOK, PendingIsReserved, BudgetRespected
<1>5. QED
  BY <1>1, <1>2, <1>3, <1>4 DEF BatchStep

\* A new workspace.
LEMMA BudgetInit == WorkspaceInit => BudgetInv
<1> SUFFICES ASSUME WorkspaceInit
             PROVE  BudgetInv
  OBVIOUS
<1>1. WorkspaceTypeOK
  <2>1. closed \in BOOLEAN
    BY DEF WorkspaceInit
  <2>2. "unused" \in ReservationStages
    BY DEF ReservationStages
  <2>3. reserved \in Int /\ active \in Nat
    BY DEF WorkspaceInit
  <2>4. /\ bytes \in [Reservations -> Nat] /\ pending \in [Reservations -> Nat]
        /\ disk \in [Reservations -> Nat]
    BY DEF WorkspaceInit
  <2>5. stage \in [Reservations -> ReservationStages]
    BY <2>2 DEF WorkspaceInit
  <2>6. QED
    BY <2>1, <2>3, <2>4, <2>5 DEF WorkspaceTypeOK
<1>2. PendingIsReserved
  BY DEF WorkspaceInit, PendingIsReserved
<1>3. BudgetRespected
  BY WorkspaceAssumption DEF WorkspaceInit, BudgetRespected
<1>4. QED
  BY <1>1, <1>2, <1>3 DEF BudgetInv

\* Whatever the callers of one workspace do.
LEMMA BudgetNext == BudgetInv /\ [WorkspaceNext]_wsVars => BudgetInv'
<1> SUFFICES ASSUME BudgetInv, [WorkspaceNext]_wsVars
             PROVE  BudgetInv'
  OBVIOUS
<1>1. CASE CloseWorkspace \/ CleanupFails
  <2>1. disk' \in [Reservations -> Nat]
    BY <1>1 DEF CloseWorkspace, CleanupFails, BudgetInv, WorkspaceTypeOK
  <2>2. closed' \in BOOLEAN /\ UNCHANGED <<reserved, active, stage, bytes, pending>>
    BY <1>1 DEF CloseWorkspace, CleanupFails, BudgetInv, WorkspaceTypeOK
  <2>3. QED
    BY <2>1, <2>2 DEF BudgetInv, WorkspaceTypeOK, PendingIsReserved, BudgetRespected
<1>2. CASE \E r \in Reservations : FileStep(r) \/ BatchStep(r)
  BY <1>2, FileStepKeepsInv, BatchStepKeepsInv
<1>3. CASE UNCHANGED wsVars
  BY <1>3 DEF wsVars, BudgetInv, WorkspaceTypeOK, PendingIsReserved, BudgetRespected
<1>4. QED
  BY <1>1, <1>2, <1>3 DEF WorkspaceNext

\* The inductive invariant of the budget.
THEOREM WorkspaceSafety == WorkspaceSpec => []BudgetInv
BY BudgetInit, BudgetNext, PTL DEF WorkspaceSpec

\* The bytes charged by the files and render batches of a workspace never exceed
\* the temporary byte budget (reserve, grow and reserveRemaining of workspace.go).
THEOREM BudgetKept == WorkspaceSpec => []BudgetRespected
BY WorkspaceSafety, PTL DEF BudgetInv

\* No reservation of a workspace ever holds a negative number of bytes.
THEOREM WorkspaceTypes == WorkspaceSpec => []WorkspaceTypeOK
BY WorkspaceSafety, PTL DEF BudgetInv

-----------------------------------------------------------------------------
(***************************************************************************)
(* The counters are exact and the disk is charged.                         *)
(***************************************************************************)

\* The open reservations, and the bytes charged to all but one.
HeldSet == {r \in Reservations : stage[r] \in Held}
OthersBytes(r) == UNION {{q} \X (1..bytes[q]) : q \in Charged \ {r}}
\* What one reservation adds to reserved and to active.
Holding(r) == IF r \in Charged THEN bytes[r] ELSE 0
Counting(r) == IF r \in HeldSet THEN 1 ELSE 0

\* The inductive invariant of the accounting.
AccountInv ==
    /\ BudgetInv /\ AccountingExact /\ DiskIsCharged
    /\ IsFiniteSet(ChargedBytes)

\* Adding n bytes of a reservation to bytes of others.
LEMMA BytesAdded ==
    ASSUME NEW rest, IsFiniteSet(rest), NEW r, NEW n \in Nat, rest \cap ({r} \X (1..n)) = {}
    PROVE  /\ IsFiniteSet(rest \cup ({r} \X (1..n)))
           /\ Cardinality(rest \cup ({r} \X (1..n))) = Cardinality(rest) + n
<1>1. IsFiniteSet(1..n) /\ Cardinality(1..n) = n
  BY FS_Interval
<1>2. IsFiniteSet({r}) /\ Cardinality({r}) = 1
  BY FS_Singleton
<1>3. IsFiniteSet({r} \X (1..n)) /\ Cardinality({r} \X (1..n)) = n
  <2>1. /\ IsFiniteSet({r} \X (1..n))
        /\ Cardinality({r} \X (1..n)) = Cardinality({r}) * Cardinality(1..n)
    BY <1>1, <1>2, FS_Product, Zenon
  <2>2. QED
    BY <1>1, <1>2, <2>1
<1>4. /\ IsFiniteSet(rest \cup ({r} \X (1..n)))
      /\ Cardinality(rest \cup ({r} \X (1..n))) =
            Cardinality(rest) + Cardinality({r} \X (1..n)) - Cardinality(rest \cap ({r} \X (1..n)))
  BY <1>3, FS_Union
<1>5. Cardinality(rest \cap ({r} \X (1..n))) = 0 /\ Cardinality(rest) \in Nat
  BY FS_EmptySet, FS_CardinalityType
<1>6. QED
  BY <1>3, <1>4, <1>5

\* The bytes charged are those of one reservation and those of the others.
LEMMA BytesSplit ==
    ASSUME NEW r \in Reservations, bytes[r] \in Nat, IsFiniteSet(OthersBytes(r))
    PROVE  /\ IsFiniteSet(ChargedBytes)
           /\ Cardinality(ChargedBytes) = Cardinality(OthersBytes(r)) + Holding(r)
<1>1. CASE r \in Charged
  <2>1. ChargedBytes = OthersBytes(r) \cup ({r} \X (1..bytes[r]))
    BY <1>1 DEF ChargedBytes, OthersBytes
  <2>2. OthersBytes(r) \cap ({r} \X (1..bytes[r])) = {}
    BY DEF OthersBytes
  <2>3. QED
    BY <1>1, <2>1, <2>2, BytesAdded DEF Holding
<1>2. CASE r \notin Charged
  <2>1. ChargedBytes = OthersBytes(r)
    BY <1>2 DEF ChargedBytes, OthersBytes
  <2>2. Cardinality(OthersBytes(r)) \in Nat
    BY FS_CardinalityType
  <2>3. QED
    BY <1>2, <2>1, <2>2 DEF Holding
<1>3. QED
  BY <1>1, <1>2

\* The same after a step that changes that reservation only.
LEMMA BytesSplitNext ==
    ASSUME NEW r \in Reservations, bytes'[r] \in Nat, IsFiniteSet(OthersBytes(r)),
           \A q \in Reservations \ {r} : stage'[q] = stage[q] /\ bytes'[q] = bytes[q]
    PROVE  /\ IsFiniteSet(ChargedBytes')
           /\ Cardinality(ChargedBytes') = Cardinality(OthersBytes(r)) + Holding(r)'
<1>0. /\ Charged' \ {r} = Charged \ {r}
      /\ OthersBytes(r) = UNION {{q} \X (1..bytes'[q]) : q \in Charged' \ {r}}
  BY DEF OthersBytes, Charged
<1>1. CASE r \in Charged'
  <2>1. ChargedBytes' = OthersBytes(r) \cup ({r} \X (1..bytes'[r]))
    BY <1>0, <1>1 DEF ChargedBytes
  <2>2. OthersBytes(r) \cap ({r} \X (1..bytes'[r])) = {}
    BY DEF OthersBytes
  <2>3. QED
    BY <1>1, <2>1, <2>2, BytesAdded DEF Holding
<1>2. CASE r \notin Charged'
  <2>1. ChargedBytes' = OthersBytes(r)
    BY <1>0, <1>2 DEF ChargedBytes
  <2>2. Cardinality(OthersBytes(r)) \in Nat
    BY FS_CardinalityType
  <2>3. QED
    BY <1>2, <2>1, <2>2 DEF Holding
<1>3. QED
  BY <1>1, <1>2

\* So the counters stay exact if they follow what the reservation holds.
LEMMA CountersFollow ==
    ASSUME AccountInv, WorkspaceTypeOK', NEW r \in Reservations,
           \A q \in Reservations \ {r} : stage'[q] = stage[q] /\ bytes'[q] = bytes[q]
    PROVE  /\ reserved - Holding(r) \in Nat /\ active - Counting(r) \in Nat
           /\ IsFiniteSet(ChargedBytes)'
           /\ reserved' = reserved - Holding(r) + Holding(r)'
                 /\ active' = active - Counting(r) + Counting(r)' => AccountingExact'
<1>1. bytes[r] \in Nat /\ bytes'[r] \in Nat
  BY DEF AccountInv, BudgetInv, WorkspaceTypeOK
<1>2. IsFiniteSet(OthersBytes(r)) /\ Cardinality(OthersBytes(r)) \in Nat
  <2>1. OthersBytes(r) \subseteq ChargedBytes
    BY DEF OthersBytes, ChargedBytes
  <2>2. QED
    BY <2>1, FS_Subset, FS_CardinalityType DEF AccountInv
<1>3. reserved = Cardinality(OthersBytes(r)) + Holding(r)
  BY <1>1, <1>2, BytesSplit DEF AccountInv, AccountingExact
<1>4. IsFiniteSet(ChargedBytes') /\ Cardinality(ChargedBytes') = Cardinality(OthersBytes(r)) + Holding(r)'
  BY <1>1, <1>2, BytesSplitNext
<1>5. IsFiniteSet(HeldSet) /\ IsFiniteSet(HeldSet \ {r}) /\ Cardinality(HeldSet \ {r}) \in Nat
  BY FS_Subset, FS_RemoveElement, FS_CardinalityType, WorkspaceAssumption DEF HeldSet
<1>6. active = Cardinality(HeldSet)
  BY DEF AccountInv, AccountingExact, HeldSet
<1>7. Cardinality(HeldSet) = Cardinality(HeldSet \ {r}) + Counting(r)
  <2>1. Cardinality(HeldSet) \in Nat
    BY <1>5, FS_CardinalityType
  <2>2. QED
    BY <1>5, <2>1, FS_RemoveElement DEF Counting
<1>8. Cardinality(HeldSet') = Cardinality(HeldSet \ {r}) + Counting(r)'
  <2>1. CASE r \in HeldSet'
    <3>1. HeldSet' = (HeldSet \ {r}) \cup {r} /\ r \notin HeldSet \ {r}
      BY <2>1 DEF HeldSet
    <3>2. Cardinality((HeldSet \ {r}) \cup {r}) = Cardinality(HeldSet \ {r}) + 1
      BY <1>5, <3>1, FS_AddElement
    <3>3. QED
      BY <2>1, <3>1, <3>2 DEF Counting
  <2>2. CASE r \notin HeldSet'
    <3>1. HeldSet' = HeldSet \ {r}
      BY <2>2 DEF HeldSet
    <3>2. QED
      BY <1>5, <2>2, <3>1 DEF Counting
  <2>3. QED
    BY <2>1, <2>2
<1>9. Holding(r) \in Nat /\ Holding(r)' \in Nat /\ Counting(r) \in Nat /\ Counting(r)' \in Nat
  BY <1>1 DEF Holding, Counting
<1>10. reserved' = reserved - Holding(r) + Holding(r)' /\ active' = active - Counting(r) + Counting(r)'
       => reserved' = Cardinality(ChargedBytes') /\ active' = Cardinality(HeldSet')
  BY <1>2, <1>3, <1>4, <1>5, <1>6, <1>7, <1>8, <1>9
<1>11. QED
  BY <1>2, <1>3, <1>4, <1>5, <1>6, <1>7, <1>9, <1>10 DEF AccountingExact, HeldSet

\* A step of a reservation leaves the others alone.
LEMMA OthersUntouched ==
    ASSUME WorkspaceTypeOK, NEW r \in Reservations, FileStep(r) \/ BatchStep(r)
    PROVE  \A q \in Reservations \ {r} :
              stage'[q] = stage[q] /\ bytes'[q] = bytes[q] /\ pending'[q] = pending[q] /\ disk'[q] = disk[q]
BY DEF WorkspaceTypeOK, FileStep, BatchStep, Create, Written, Abort, CloseFile, RemoveUnclosed, Grow,
       ShortWrite, ReserveRemaining, RunCommand, EndBatch, Resize, Reserve, Release, Retain

\* release and retain take exactly what the reservation holds: nothing is clamped.
LEMMA ReleaseExact ==
    ASSUME AccountInv, NEW r \in Reservations, stage[r] \in Held, NEW s \in {"released", "stray", "removing"},
           Release(r, s), reserved - Holding(r) \in Nat, active - Counting(r) \in Nat
    PROVE  /\ reserved' = reserved - Holding(r) + Holding(r)'
           /\ active' = active - Counting(r) + Counting(r)'
<1>1. Holding(r) = bytes[r] /\ Counting(r) = 1
  BY DEF Holding, Counting, HeldSet, Charged
<1>2. reserved' = reserved - bytes[r] /\ active' = active - 1
  BY <1>1 DEF Release, ReturnBytes, AtLeastZero
<1>3. stage'[r] = s
  BY DEF AccountInv, BudgetInv, WorkspaceTypeOK, Release
<1>4. Holding(r)' = 0 /\ Counting(r)' = 0
  BY <1>3 DEF Holding, Counting, HeldSet, Charged, Held, Unmeasured
<1>5. reserved \in Int /\ active \in Int /\ bytes[r] \in Int
  BY DEF AccountInv, BudgetInv, WorkspaceTypeOK
<1>6. QED
  BY <1>1, <1>2, <1>4, <1>5

\* Every step of a reservation moves the counters by what it changes.
LEMMA CountersExact ==
    ASSUME AccountInv, WorkspaceTypeOK', NEW r \in Reservations, FileStep(r) \/ BatchStep(r)
    PROVE  AccountingExact' /\ IsFiniteSet(ChargedBytes)'
<1>t. /\ reserved \in Int /\ active \in Nat /\ stage \in [Reservations -> ReservationStages]
      /\ bytes \in [Reservations -> Nat] /\ pending \in [Reservations -> Nat]
  BY DEF AccountInv, BudgetInv, WorkspaceTypeOK
<1>f. /\ reserved - Holding(r) \in Nat /\ active - Counting(r) \in Nat
      /\ IsFiniteSet(ChargedBytes)'
      /\ reserved' = reserved - Holding(r) + Holding(r)'
            /\ active' = active - Counting(r) + Counting(r)' => AccountingExact'
  <2>1. \A q \in Reservations \ {r} : stage'[q] = stage[q] /\ bytes'[q] = bytes[q]
    BY OthersUntouched DEF AccountInv, BudgetInv
  <2>2. QED
    BY <2>1, CountersFollow
<1> SUFFICES /\ reserved' = reserved - Holding(r) + Holding(r)'
             /\ active' = active - Counting(r) + Counting(r)'
  BY <1>f
<1> USE DEF Holding, Counting, HeldSet, Charged, Held, Unmeasured
<1>1. CASE Create(r)
  BY <1>1, <1>t DEF Create, Reserve
<1>2. CASE Written(r)
  BY <1>2, <1>t DEF Written
<1>3. CASE Abort(r)
  BY <1>3, <1>f, ReleaseExact DEF Abort, Open
<1>4. CASE CloseFile(r)
  <2>1. CASE Retain(r)
    <3>1. /\ stage[r] = "file" /\ stage'[r] = "retained" /\ bytes'[r] = bytes[r] /\ reserved' = reserved
          /\ active' = AtLeastZero(active - 1)
      BY <1>4, <1>t, <2>1 DEF CloseFile, Open, Retain
    <3>2. active' = active - 1
      BY <1>f, <3>1 DEF AtLeastZero
    <3>3. QED
      BY <1>t, <3>1, <3>2
  <2>2. CASE Release(r, "removing")
    BY <1>4, <1>f, <2>2, ReleaseExact DEF CloseFile, Open
  <2>3. QED
    BY <1>4, <2>1, <2>2 DEF CloseFile
<1>5. CASE RemoveUnclosed(r)
  BY <1>5, <1>t DEF RemoveUnclosed
<1>6. ASSUME NEW n \in Sizes, Grow(r, n)
      PROVE  /\ reserved' = reserved - Holding(r) + Holding(r)'
             /\ active' = active - Counting(r) + Counting(r)'
  BY <1>6, <1>t, WorkspaceAssumption DEF Grow, Open
<1>7. ASSUME NEW w \in Sizes, ShortWrite(r, w)
      PROVE  /\ reserved' = reserved - Holding(r) + Holding(r)'
             /\ active' = active - Counting(r) + Counting(r)'
  <2>1. Unwritten(r, w) \in Int
    BY <1>t, WorkspaceAssumption DEF Unwritten
  <2>2. QED
    BY <1>7, <1>t, <2>1 DEF ShortWrite
<1>8. CASE ReserveRemaining(r)
  BY <1>8, <1>t, WorkspaceAssumption DEF ReserveRemaining, Reserve
<1>9. CASE EndBatch(r)
  BY <1>9, <1>f, ReleaseExact DEF EndBatch
<1>10. CASE Resize(r)
  <2>1. disk[r] \in Nat
    BY DEF AccountInv, BudgetInv, WorkspaceTypeOK
  <2>2. QED
    BY <1>10, <1>t, <2>1 DEF Resize
<1>11. ASSUME NEW n \in Sizes, RunCommand(r, n)
       PROVE  /\ reserved' = reserved - Holding(r) + Holding(r)'
              /\ active' = active - Counting(r) + Counting(r)'
  BY <1>11, <1>t DEF RunCommand
<1>12. QED
  BY <1>1, <1>2, <1>3, <1>4, <1>5, <1>6, <1>7, <1>8, <1>9, <1>10, <1>11 DEF FileStep, BatchStep

\* What DiskIsCharged says of one reservation.
DiskOf(r) ==
    /\ disk[r] > 0 /\ stage[r] \notin Uncharged \cup Unmeasured =>
          stage[r] \in Held \cup {"retained"} /\ disk[r] + pending[r] <= bytes[r]
    /\ closed => disk[r] = 0 /\ stage[r] \notin Held

\* Every step of a reservation keeps its file charged.
LEMMA DiskCharged ==
    ASSUME AccountInv, NEW r \in Reservations, FileStep(r) \/ BatchStep(r)
    PROVE  DiskIsCharged'
<1>t. /\ stage \in [Reservations -> ReservationStages] /\ disk \in [Reservations -> Nat]
      /\ bytes \in [Reservations -> Nat] /\ pending \in [Reservations -> Nat]
  BY DEF AccountInv, BudgetInv, WorkspaceTypeOK
<1>p. pending[r] <= bytes[r] /\ (pending[r] > 0 => stage[r] = "file")
  BY DEF AccountInv, BudgetInv, PendingIsReserved
<1>d. \A q \in Reservations : DiskOf(q)
  BY DEF AccountInv, DiskIsCharged, DiskOf
<1>c. closed' = closed
  BY DEF FileStep, BatchStep, Create, Written, Abort, CloseFile, RemoveUnclosed, Grow,
       ShortWrite, ReserveRemaining, RunCommand, EndBatch, Resize, Reserve, Release, Retain
<1>1. ASSUME NEW q \in Reservations \ {r}
      PROVE  DiskOf(q)'
  <2>1. stage'[q] = stage[q] /\ bytes'[q] = bytes[q] /\ pending'[q] = pending[q] /\ disk'[q] = disk[q]
    BY OthersUntouched DEF AccountInv, BudgetInv
  <2>2. QED
    BY <1>c, <1>d, <2>1 DEF DiskOf
<1>2. DiskOf(r)'
  <2> USE <1>d DEF DiskOf, Held, Uncharged, Unmeasured
  <2>1. CASE Create(r) \/ ReserveRemaining(r)
    BY <1>t, <1>c, <2>1 DEF Create, ReserveRemaining, Reserve
  <2>2. CASE Written(r)
    BY <1>t, <1>p, <2>2 DEF Written
  <2>3. CASE Abort(r)
    BY <1>t, <2>3 DEF Abort, Release
  <2>4. CASE CloseFile(r)
    BY <1>t, <2>4 DEF CloseFile, Open, Retain, Release
  <2>5. CASE RemoveUnclosed(r)
    BY <1>t, <2>5 DEF RemoveUnclosed
  <2>6. ASSUME NEW n \in Sizes, Grow(r, n)
        PROVE  DiskOf(r)'
    BY <1>t, <2>6, WorkspaceAssumption DEF Grow, Open
  <2>7. ASSUME NEW w \in Sizes, ShortWrite(r, w)
        PROVE  DiskOf(r)'
    <3>1. w \in Nat
      BY WorkspaceAssumption
    <3>2. /\ stage[r] = "file" /\ stage'[r] = "aborting" /\ disk'[r] = disk[r] + w /\ pending'[r] = 0
          /\ bytes'[r] = bytes[r] - (pending[r] - w)
      BY <1>t, <2>7 DEF ShortWrite, Unwritten
    <3>3. QED
      BY <1>t, <1>p, <1>c, <3>1, <3>2
  <2>8. CASE EndBatch(r)
    BY <1>t, <2>8 DEF EndBatch, Release
  <2>9. CASE Resize(r)
    BY <1>t, <1>p, <2>9 DEF Resize
  <2>10. ASSUME NEW n \in Sizes, RunCommand(r, n)
         PROVE  DiskOf(r)'
    BY <1>t, <2>10 DEF RunCommand
  <2>11. QED
    BY <2>1, <2>2, <2>3, <2>4, <2>5, <2>6, <2>7, <2>8, <2>9, <2>10 DEF FileStep, BatchStep
<1>3. QED
  BY <1>1, <1>2 DEF DiskOf, DiskIsCharged

\* The end of the workspace: it is removed only when nobody holds a reservation,
\* which an exact counter is needed to know.
LEMMA CloseKeepsAccount ==
    ASSUME AccountInv, WorkspaceTypeOK', CloseWorkspace \/ CleanupFails
    PROVE  AccountingExact' /\ IsFiniteSet(ChargedBytes)' /\ DiskIsCharged'
<1>1. UNCHANGED <<reserved, active, stage, bytes, pending>>
  BY DEF CloseWorkspace, CleanupFails
<1>2. AccountingExact' /\ IsFiniteSet(ChargedBytes)'
  BY <1>1 DEF AccountInv, AccountingExact, ChargedBytes, Charged
<1>3. HeldSet = {}
  <2>1. IsFiniteSet(HeldSet)
    BY FS_Subset, WorkspaceAssumption DEF HeldSet
  <2>2. Cardinality(HeldSet) = 0
    BY DEF AccountInv, AccountingExact, HeldSet, CloseWorkspace, CleanupFails, NotInUse
  <2>3. QED
    BY <2>1, <2>2, FS_EmptySet
<1>4. \A r \in Reservations : disk'[r] = 0 \/ (disk'[r] = disk[r] /\ ~closed')
  BY DEF CloseWorkspace, CleanupFails
<1>5. \A r \in Reservations : closed' => disk'[r] = 0
  BY <1>4
<1>6. QED
  BY <1>1, <1>2, <1>3, <1>4, <1>5 DEF AccountInv, DiskIsCharged, HeldSet

\* Together, inductively.
THEOREM AccountSafety == WorkspaceSpec => []AccountInv
<1>1. WorkspaceInit => AccountInv
  <2> SUFFICES ASSUME WorkspaceInit
               PROVE  AccountInv
    OBVIOUS
  <2>1. BudgetInv
    BY BudgetInit
  <2>2. Charged = {} /\ {r \in Reservations : stage[r] \in Held} = {}
    BY DEF WorkspaceInit, Charged, Held, Unmeasured
  <2>3. ChargedBytes = {}
    BY <2>2 DEF ChargedBytes
  <2>4. AccountingExact /\ IsFiniteSet(ChargedBytes)
    BY <2>2, <2>3, FS_EmptySet DEF AccountingExact, WorkspaceInit
  <2>5. DiskIsCharged
    BY DEF WorkspaceInit, DiskIsCharged
  <2>6. QED
    BY <2>1, <2>4, <2>5 DEF AccountInv
<1>2. AccountInv /\ [WorkspaceNext]_wsVars => AccountInv'
  <2> SUFFICES ASSUME AccountInv, [WorkspaceNext]_wsVars
               PROVE  AccountInv'
    OBVIOUS
  <2>1. BudgetInv' /\ WorkspaceTypeOK'
    BY BudgetNext DEF AccountInv, BudgetInv
  <2>2. CASE CloseWorkspace \/ CleanupFails
    BY <2>1, <2>2, CloseKeepsAccount DEF AccountInv
  <2>3. CASE \E r \in Reservations : FileStep(r) \/ BatchStep(r)
    BY <2>1, <2>3, CountersExact, DiskCharged DEF AccountInv
  <2>4. CASE UNCHANGED wsVars
    BY <2>1, <2>4 DEF wsVars, AccountInv, AccountingExact, ChargedBytes, Charged, DiskIsCharged
  <2>5. QED
    BY <2>2, <2>3, <2>4 DEF WorkspaceNext
<1>3. QED
  BY <1>1, <1>2, PTL DEF WorkspaceSpec

\* reserved and active are what the open and retained reservations hold and how
\* many are open: the clamps of release and retain never act.
THEOREM AccountExact == WorkspaceSpec => []AccountingExact
BY AccountSafety, PTL DEF AccountInv

\* No byte is in the directory without being charged, but for the output of a renderer
\* before it is measured and for what could not be closed or removed; and nothing is
\* left in a closed workspace.
THEOREM DiskCovered == WorkspaceSpec => []DiskIsCharged
BY AccountSafety, PTL DEF AccountInv
=============================================================================
