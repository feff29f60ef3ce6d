-------------------------- MODULE EnsureTagProofs ---------------------------
(***************************************************************************)
(* EnsureTag for any number of calls, processes and faults.                *)
(***************************************************************************)
EXTENDS EnsureTag, FiniteSetTheorems, TLAPS

\* Paperless has at most one tag of the name, and keeps it.
OneTag == \E id \in Nat : tagIDs \subseteq {id} /\ id # 0

\* What a call looked up was all there was, and is still there; a creation that was
\* refused without a fault means that there is a tag.
LookedUp ==
    /\ \A c \in Asks : matches[c] \subseteq tagIDs
    /\ \A c \in Asks \ trouble : ask[c] \in {"again", "settle"} => tagIDs # {}
    /\ \A c \in Asks \ trouble : ask[c] = "settle" => matches[c] = tagIDs

EnsureTagInv == EnsureTagTypeOK /\ OneTag /\ LookedUp /\ TagsAgree

\* The invariant holds before the first call.
LEMMA EnsureTagInitially == EnsureTagInit => EnsureTagInv
<1> SUFFICES ASSUME EnsureTagInit PROVE EnsureTagInv
  OBVIOUS
<1>1. OneTag
  <2>1. tagIDs \subseteq {1} /\ 1 # 0
    BY DEF EnsureTagInit
  <2> QED
    BY <2>1 DEF OneTag
<1> QED
  BY <1>1 DEF EnsureTagInit, EnsureTagInv, EnsureTagTypeOK, LookedUp, TagsAgree, InGate

\* A set of one tag is returned as that tag.
LEMMA SoleTag ==
    ASSUME NEW id \in Nat, NEW ids, ids \subseteq {id}, ids # {}
    PROVE  ids = {id} /\ Cardinality(ids) = 1 /\ Sole(ids) = id
<1>1. ids = {id}
  OBVIOUS
<1>2. Cardinality({id}) = 1
  BY FS_Singleton
<1> QED
  BY <1>1, <1>2 DEF Sole

\* Every step of a call, of another process or of an operator keeps it.
LEMMA EnsureTagPreserved == EnsureTagInv /\ [EnsureTagNext]_etVars => EnsureTagInv'
<1> SUFFICES ASSUME EnsureTagInv, [EnsureTagNext]_etVars PROVE EnsureTagInv'
  OBVIOUS
<1> PICK id \in Nat : tagIDs \subseteq {id} /\ id # 0
  BY DEF EnsureTagInv, OneTag
<1> USE DEF EnsureTagInv, EnsureTagTypeOK, LookedUp, TagsAgree, InGate
<1>1. ASSUME NEW c \in Asks, EnterGate(c) PROVE EnsureTagInv'
  BY <1>1 DEF EnterGate, OneTag
<1>2. ASSUME NEW c \in Asks, LookupTags(c) PROVE EnsureTagInv'
  BY <1>2 DEF LookupTags, OneTag
<1>3. ASSUME NEW c \in Asks, Decide(c) PROVE EnsureTagInv'
  <2>1. CASE matches[c] = {}
    BY <1>3, <2>1 DEF Decide, OneTag
  <2>2. CASE matches[c] # {}
    <3>1. matches[c] = {id} /\ tagIDs = {id} /\ Cardinality(matches[c]) = 1 /\ Sole(matches[c]) = id
      BY <2>2, SoleTag
    <3> QED
      BY <1>3, <2>2, <3>1 DEF Decide, Return, OneTag
  <2> QED
    BY <2>1, <2>2
<1>4. ASSUME NEW c \in Asks, CreateTag(c) PROVE EnsureTagInv'
  <2>1. OneTag'
    BY <1>4 DEF CreateTag, NewTag, OneTag
  <2> QED
    BY <1>4, <2>1 DEF CreateTag, NewTag, Return
<1>5. ASSUME NEW c \in Asks, CreateRefused(c) PROVE EnsureTagInv'
  BY <1>5 DEF CreateRefused, AfterRefusal, OneTag
<1>6. ASSUME NEW c \in Asks, SettleRefused(c) PROVE EnsureTagInv'
  <2>1. CASE matches[c] = {}
    <3>1. c \in trouble /\ Cardinality(matches[c]) = 0
      BY <1>6, <2>1, FS_EmptySet DEF SettleRefused
    <3> QED
      BY <1>6, <2>1, <3>1 DEF SettleRefused, Return, OneTag
  <2>2. CASE matches[c] # {}
    <3>1. matches[c] = {id} /\ tagIDs = {id} /\ Cardinality(matches[c]) = 1 /\ Sole(matches[c]) = id
      BY <2>2, SoleTag
    <3> QED
      BY <1>6, <3>1 DEF SettleRefused, Return, OneTag
  <2> QED
    BY <2>1, <2>2
<1>7. ASSUME NEW c \in Asks, RequestFails(c) PROVE EnsureTagInv'
  <2>1. OneTag'
    <3>1. CASE NewTag /\ tagIDs = {}
      BY <3>1 DEF NewTag, OneTag
    <3>2. CASE UNCHANGED <<tagIDs, issuedIDs>>
      BY <3>2 DEF OneTag
    <3> QED
      BY <1>7, <3>1, <3>2 DEF RequestFails
  <2>2. \/ ask' = [ask EXCEPT ![c] = "returned"] /\ tag' = [tag EXCEPT ![c] = 0]
        \/ ask' = [ask EXCEPT ![c] = "again"] /\ tag' = tag /\ ask[c] = "create"
    BY <1>7 DEF RequestFails, Return, AfterRefusal
  <2>3. CASE NewTag /\ tagIDs = {}
    BY <1>7, <2>1, <2>2, <2>3 DEF RequestFails, NewTag
  <2>4. CASE UNCHANGED <<tagIDs, issuedIDs>>
    BY <1>7, <2>1, <2>2, <2>4 DEF RequestFails
  <2> QED
    BY <1>7, <2>3, <2>4 DEF RequestFails
<1>8. CASE OperatorCreates
  <2>1. OneTag'
    BY <1>8 DEF OperatorCreates, NewTag, OneTag
  <2> QED
    BY <1>8, <2>1 DEF OperatorCreates, NewTag
<1>9. CASE UNCHANGED etVars
  BY <1>9 DEF etVars, OneTag
<1> QED
  BY <1>1, <1>2, <1>3, <1>4, <1>5, <1>6, <1>7, <1>8, <1>9 DEF EnsureTagNext

\* However many processes and operators race to create the tag, the calls that
\* return a tag all return the one Paperless has, and only a call that met a
\* failing request returns none.
THEOREM OneTagForAll == EnsureTagSpec => []TagsAgree
<1>1. EnsureTagInv => TagsAgree
  BY DEF EnsureTagInv
<1> QED
  BY <1>1, EnsureTagInitially, EnsureTagPreserved, PTL DEF EnsureTagSpec
=============================================================================
