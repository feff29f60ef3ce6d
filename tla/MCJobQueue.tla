----------------------------- MODULE MCJobQueue -----------------------------
(***************************************************************************)
(* Constants for checking JobQueue with TLC.                               *)
(***************************************************************************)
EXTENDS JobQueue, TLC

CONSTANTS o1, o2, t1, t2, d1, d2

\* Bound: rows beside each other, or the checkpoints and the finalization of one
\* row.  No checkpoint method reads or writes another row.
Focus ==
    \/ \A i \in JobIds : batches[i] = NoBatches /\ fin[i] = "absent"
    \/ \A i \in JobIds : i > 1 => state[i] = "absent"

\* A direct plan, a two-batch image plan, and two lists validBatchRanges rejects:
\* one with a gap, one that repeats a page.
MCPlans == {{<<1, 2, 150>>},
            {<<1, 1, 150>>, <<2, 2, 150>>},
            {<<1, 1, 150>>, <<3, 3, 150>>},
            {<<1, 2, 150>>, <<2, 3, 150>>}}

NameSymmetry == Permutations({o1, o2}) \cup Permutations({t1, t2}) \cup Permutations({d1, d2})
=============================================================================
