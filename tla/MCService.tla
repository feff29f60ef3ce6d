----------------------------- MODULE MCService ------------------------------
(***************************************************************************)
(* Constants for checking Service with TLC.                                *)
(***************************************************************************)
EXTENDS Service, TLC

\* A two-page document: one range when sent as a PDF, two as page images.
Direct2 == {<<1, 2, 150>>}
Images2 == {<<1, 1, 150>>, <<2, 2, 150>>}
BothPlans == {Direct2, Images2}

\* A text is told apart by the version it transcribes and by the take.
AllTexts == [sum : Checksums, take : Takes]

\* Budgets, one per question: n faults, each of one of these kinds.
Faults(kinds, n) == [kind \in Bounded |-> IF kind \in kinds \cup {"any"} THEN n ELSE 0]
AnyOf == Faults({"crash", "stall", "stop", "error", "store", "handover"}, 3)
Reconfigured == Faults({"crash", "stall", "stop", "error", "store", "handover", "config"}, 2)
Replaced == Faults({"crash", "change", "error", "config"}, 3)
Crashed == Faults({"crash"}, 1)
CrashedAndFailed == Faults({"crash", "error"}, 2)
Stopped == Faults({"stop"}, 1)
ReplacedOnly == Faults({"change"}, 1)
=============================================================================
