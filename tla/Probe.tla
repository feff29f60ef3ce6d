------------------------------- MODULE Probe --------------------------------
(***************************************************************************)
(* Client.Probe (internal/aigate/capability.go): which transport the model *)
(* accepts is asked once and cached.  Calls that arrive meanwhile wait for *)
(* the flight of the first; a failed flight is not cached, so that a later *)
(* call asks again.  A call is identified with its flight, if it leads one.*)
(***************************************************************************)
EXTENDS Integers

CONSTANTS
    Calls,     \* bound: calls of Probe
    Nobody     \* no flight

ASSUME ProbeAssumption == Nobody \notin Calls

VARIABLES
    supports,     \* what the model accepts: "direct", "images" or "neither"
    cached,       \* client.cached with its answer, "no" before
    flight,       \* client.flight: the call that leads it
    landed,       \* flight.capability and flight.err once flight.done is closed
    call,         \* where each call stands
    joined,       \* the flight a call waits for
    answer,       \* what a call found or returned
    cancelled     \* calls whose context is cancelled

pbVars == <<supports, cached, flight, landed, call, joined, answer, cancelled>>

\* A flight lands with a capability, with "neither", or with an error.
Answers == {"direct", "images", "neither"}

ProbeInit ==
    /\ supports \in Answers
    /\ cached = "no" /\ flight = Nobody
    /\ landed = [c \in Calls |-> "no"]
    /\ call = [c \in Calls |-> "idle"]
    /\ joined = [c \in Calls |-> Nobody]
    /\ answer = [c \in Calls |-> "no"]
    /\ cancelled = {}

-----------------------------------------------------------------------------

\* The first part, under the mutex: the cached answer, the flight under way, or
\* a new flight.
BeginCall(c) ==
    /\ call[c] = "idle"
    /\ IF cached # "no"
       THEN /\ answer' = [answer EXCEPT ![c] = cached]
            /\ call' = [call EXCEPT ![c] = "returned"]
            /\ UNCHANGED <<flight, joined>>
       ELSE IF flight # Nobody
       THEN /\ joined' = [joined EXCEPT ![c] = flight]
            /\ call' = [call EXCEPT ![c] = "waiting"]
            /\ UNCHANGED <<flight, answer>>
       ELSE /\ flight' = c
            /\ call' = [call EXCEPT ![c] = "direct"]
            /\ UNCHANGED <<joined, answer>>
    /\ UNCHANGED <<supports, cached, landed, cancelled>>

\* A faulty variant: an unsupported PDF is taken for the whole answer.
PdfOnly(transport) ==
    IF supports = transport THEN transport ELSE "neither"
\* probe after a definite answer to a transport: accepted, or go on with the next.
AfterAttachment(transport) ==
    IF supports = transport THEN transport
    ELSE IF transport = "direct" THEN "ask" ELSE "neither"

\* probeAttachment got the nonce, or a structured rejection of the attachment.
Attachment(c) ==
    /\ call[c] \in {"direct", "images"} /\ c \notin cancelled
    /\ LET found == AfterAttachment(call[c]) IN
       IF found = "ask"
       THEN call' = [call EXCEPT ![c] = "images"] /\ UNCHANGED answer
       ELSE /\ answer' = [answer EXCEPT ![c] = found]
            /\ call' = [call EXCEPT ![c] = "landing"]
    /\ UNCHANGED <<supports, cached, flight, landed, joined, cancelled>>

\* A cancelled or timed-out request, another rejection, or an invalid response.
AttachmentFails(c) ==
    /\ call[c] \in {"direct", "images"}
    /\ answer' = [answer EXCEPT ![c] = "error"]
    /\ call' = [call EXCEPT ![c] = "landing"]
    /\ UNCHANGED <<supports, cached, flight, landed, joined, cancelled>>

\* A faulty variant: only success clears the flight.
KeepFailed(c) == IF answer[c] = "error" THEN flight ELSE Nobody
\* client.flight = nil
ClearFlight(c) == Nobody

\* The last part, under the mutex: publish the result and cache a definite one.
Land(c) ==
    /\ call[c] = "landing"
    /\ landed' = [landed EXCEPT ![c] = answer[c]]
    /\ cached' = IF answer[c] = "error" THEN cached ELSE answer[c]
    /\ flight' = ClearFlight(c)
    /\ call' = [call EXCEPT ![c] = "returned"]
    /\ UNCHANGED <<supports, joined, answer, cancelled>>

\* A follower returns the result of the flight, or its own cancellation.
Follow(c) ==
    /\ call[c] = "waiting"
    /\ \/ landed[joined[c]] # "no" /\ answer' = [answer EXCEPT ![c] = landed[joined[c]]]
       \/ c \in cancelled /\ answer' = [answer EXCEPT ![c] = "error"]
    /\ call' = [call EXCEPT ![c] = "returned"]
    /\ UNCHANGED <<supports, cached, flight, landed, joined, cancelled>>

CancelCall(c) ==
    /\ call[c] \notin {"idle", "returned"} /\ c \notin cancelled
    /\ cancelled' = cancelled \cup {c}
    /\ UNCHANGED <<supports, cached, flight, landed, call, joined, answer>>

ProbeStep(c) == Attachment(c) \/ AttachmentFails(c) \/ Land(c) \/ Follow(c)

ProbeNext == \E c \in Calls : BeginCall(c) \/ ProbeStep(c) \/ CancelCall(c)

ProbeSpec == ProbeInit /\ [][ProbeNext]_pbVars

-----------------------------------------------------------------------------
(***************************************************************************)
(* Properties.                                                             *)
(***************************************************************************)

ProbeTypeOK ==
    /\ supports \in Answers /\ cached \in Answers \cup {"no"}
    /\ flight \in Calls \cup {Nobody}
    /\ landed \in [Calls -> Answers \cup {"no", "error"}]
    /\ call \in [Calls -> {"idle", "waiting", "direct", "images", "landing", "returned"}]
    /\ joined \in [Calls -> Calls \cup {Nobody}]
    /\ answer \in [Calls -> Answers \cup {"no", "error"}]
    /\ cancelled \subseteq Calls

\* One flight is under way at most, and the flight a new call would join has not
\* landed: the failure or cancellation of a leader reaches the calls that waited
\* for it and no later one.
OneFlight ==
    /\ flight # Nobody => landed[flight] = "no"
    /\ \A c \in Calls : call[c] \in {"direct", "images", "landing"} => flight = c

\* Every call that returns without an error, from its own flight, another's or
\* the cache, returns what the model supports, and so does the cache.
ProbeTruthful ==
    /\ cached \in {"no", supports}
    /\ \A c \in Calls : answer[c] \in {"no", "error", supports}
=============================================================================
