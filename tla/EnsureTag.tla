----------------------------- MODULE EnsureTag ------------------------------
(***************************************************************************)
(* Client.EnsureTag (internal/paperless/client.go): find the tag of a name *)
(* or create it.  The gate serialises the calls of one process; a process  *)
(* that outlives its lease and the one that replaces it have a gate each,  *)
(* and operators create tags too.  Paperless (external) keeps names unique *)
(* and answers 400 to a name it has.  One name is followed.                *)
(***************************************************************************)
EXTENDS Integers, FiniteSets

CONSTANTS
    Asks,        \* bound: calls of EnsureTag
    Processes,
    TagFaults    \* bound: failing, lost and cancelled requests

ASSUME EnsureTagAssumption == TagFaults \in Nat

VARIABLES
    client,     \* the process of each call
    tagIDs,     \* the tags of that exact name in Paperless
    issuedIDs,  \* tag IDs given out so far
    ask,        \* where each call stands
    matches,    \* what lookupTags found
    tag,        \* the tag a call returns, 0: an error
    trouble     \* calls that met a fault

etVars == <<client, tagIDs, issuedIDs, ask, matches, tag, trouble>>

EnsureTagInit ==
    /\ client \in [Asks -> Processes]
    /\ tagIDs = {} /\ issuedIDs = 0
    /\ ask = [c \in Asks |-> "idle"] /\ matches = [c \in Asks |-> {}]
    /\ tag = [c \in Asks |-> 0] /\ trouble = {}

-----------------------------------------------------------------------------

InGate == {"lookup", "decide", "create", "again", "settle"}

\* The channel of capacity one.
GateFree(p) == \A c \in Asks : client[c] = p => ask[c] \notin InGate

EnterGate(c) ==
    /\ ask[c] = "idle" /\ GateFree(client[c])
    /\ ask' = [ask EXCEPT ![c] = "lookup"]
    /\ UNCHANGED <<client, tagIDs, issuedIDs, matches, tag, trouble>>

\* lookupTags, before and after the attempt to create.
LookupTags(c) ==
    /\ ask[c] \in {"lookup", "again"}
    /\ matches' = [matches EXCEPT ![c] = tagIDs]
    /\ ask' = [ask EXCEPT ![c] = IF @ = "lookup" THEN "decide" ELSE "settle"]
    /\ UNCHANGED <<client, tagIDs, issuedIDs, tag, trouble>>

Return(c, id) ==
    /\ ask' = [ask EXCEPT ![c] = "returned"]
    /\ tag' = [tag EXCEPT ![c] = id]

Sole(ids) == CHOOSE id \in ids : TRUE

\* One match is returned, several are ambiguous, none asks for the tag's creation.
Decide(c) ==
    /\ ask[c] = "decide"
    /\ IF matches[c] = {} THEN ask' = [ask EXCEPT ![c] = "create"] /\ UNCHANGED tag
       ELSE Return(c, IF Cardinality(matches[c]) = 1 THEN Sole(matches[c]) ELSE 0)
    /\ UNCHANGED <<client, tagIDs, issuedIDs, matches, trouble>>

NewTag == issuedIDs' = issuedIDs + 1 /\ tagIDs' = tagIDs \cup {issuedIDs + 1}

CreateTag(c) ==
    /\ ask[c] = "create" /\ tagIDs = {}
    /\ NewTag /\ Return(c, issuedIDs + 1)
    /\ UNCHANGED <<client, matches, trouble>>

\* A faulty variant: a refused creation is an error at once.
GiveUp(c) == Return(c, 0)
\* A StatusError: somebody may have created the tag meanwhile, so look again.
AfterRefusal(c) == ask' = [ask EXCEPT ![c] = "again"] /\ UNCHANGED tag

CreateRefused(c) ==
    /\ ask[c] = "create" /\ tagIDs # {}
    /\ AfterRefusal(c)
    /\ UNCHANGED <<client, tagIDs, issuedIDs, matches, trouble>>

\* Exactly one match is returned, otherwise the error of the creation.
SettleRefused(c) ==
    /\ ask[c] = "settle"
    /\ Return(c, IF Cardinality(matches[c]) = 1 THEN Sole(matches[c]) ELSE 0)
    /\ UNCHANGED <<client, tagIDs, issuedIDs, matches, trouble>>

\* A cancelled, lost or failing request ends the call, except that a creation
\* answered with any other status, a 5xx say, is looked up again like a refused one.
\* In both cases the creation may have happened.
RequestFails(c) ==
    /\ ask[c] \in {"idle", "lookup", "create", "again"} /\ Cardinality(trouble) < TagFaults
    /\ Return(c, 0) \/ (ask[c] = "create" /\ AfterRefusal(c))
    /\ trouble' = trouble \cup {c}
    /\ \/ ask[c] = "create" /\ tagIDs = {} /\ NewTag
       \/ UNCHANGED <<tagIDs, issuedIDs>>
    /\ UNCHANGED <<client, matches>>

\* An operator creates the tag.
OperatorCreates ==
    /\ tagIDs = {} /\ NewTag
    /\ UNCHANGED <<client, ask, matches, tag, trouble>>

EnsureTagNext ==
    \/ OperatorCreates
    \/ \E c \in Asks :
          \/ EnterGate(c) \/ LookupTags(c) \/ Decide(c) \/ CreateTag(c) \/ CreateRefused(c)
          \/ SettleRefused(c) \/ RequestFails(c)

EnsureTagSpec == EnsureTagInit /\ [][EnsureTagNext]_etVars

-----------------------------------------------------------------------------
(***************************************************************************)
(* Properties.                                                             *)
(***************************************************************************)

EnsureTagTypeOK ==
    /\ client \in [Asks -> Processes] /\ tagIDs \subseteq Nat /\ issuedIDs \in Nat
    /\ ask \in [Asks -> InGate \cup {"idle", "returned"}]
    /\ matches \in [Asks -> SUBSET Nat] /\ tag \in [Asks -> Nat] /\ trouble \subseteq Asks

\* Calls of two processes and operators race to create the tag: all that return a
\* tag return the same one, which Paperless has, and a call none of whose requests
\* failed returns one; losing the race is no error.
TagsAgree ==
    \A c \in Asks : ask[c] = "returned" =>
        IF tag[c] = 0 THEN c \in trouble ELSE tagIDs = {tag[c]}
=============================================================================
