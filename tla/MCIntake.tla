------------------------------ MODULE MCIntake ------------------------------
(***************************************************************************)
(* Constants for checking Intake with TLC.                                 *)
(***************************************************************************)
EXTENDS Intake

CONSTANTS d1, d2, p2, p3, p4, first

Lists == [c \in Pages |-> IF c \in {First, first} THEN {d1} ELSE IF c = p2 THEN {d2} ELSE {}]
Linked(second, third) ==
    [list |-> Lists,
     next |-> [c \in Pages |-> CASE c \in {First, first} -> p2
                                 [] c = p2 -> second [] c = p3 -> third [] c = p4 -> None]]
\* Two pages; a page too many; a page that follows itself; and a circle through
\* the first page's own URL.
MCArchives == {Linked(None, None), Linked(p3, p4), Linked(p2, None), Linked(first, None)}

\* Two webhooks, one change of a document, one fault.
MCEvents == [e \in Events |-> IF e = "webhook" THEN 2 ELSE 1]
\* No plans: no job is claimed here.
NoPlans == {}
=============================================================================
