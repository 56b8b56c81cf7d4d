------------------------- MODULE IpcRequestTracker -------------------------
(***************************************************************************)
(* IpcRequestTracker (BridgeClient): which requests of a connection wait   *)
(* for their response.  Each operation is one critical section under       *)
(* stateGate followed by the completion of what the section removed; a     *)
(* completion is settled once (TrySet...), later attempts are ignored.     *)
(* Several connections, each with a tracker, share the module.             *)
(***************************************************************************)
EXTENDS Naturals, FiniteSets

CONSTANTS
    Conns,              \* connections
    Requests,           \* correlation ids; each call makes a fresh one
    MaximumInFlight     \* limits.inFlight of the handshake

VARIABLES
    pending,            \* pending[c]: the keys of pendingRequests
    terminalError,      \* terminalError[c]: FailConnection has run
    isDisposed,         \* isDisposed[c]: of the tracker of c
    completion          \* completion[r]: how PendingRequest.completion was settled

trackerVars == <<pending, terminalError, isDisposed, completion>>

Settled == {"response", "cancelled", "timeout", "io", "invalidOperation", "disposed"}

TypeOK ==
    /\ pending \in [Conns -> SUBSET Requests]
    /\ \A c \in Conns : Cardinality(pending[c]) <= MaximumInFlight
    /\ terminalError \in [Conns -> BOOLEAN] /\ isDisposed \in [Conns -> BOOLEAN]
    /\ completion \in [Requests -> Settled \cup {"none", "waiting"}]

Init ==
    /\ pending = [c \in Conns |-> {}]
    /\ terminalError = [c \in Conns |-> FALSE] /\ isDisposed = [c \in Conns |-> FALSE]
    /\ completion = [r \in Requests |-> "none"]

\* The completions of the requests in R settled with v, unless they were settled before.
Settle(R, v) ==
    completion' = [r \in Requests |->
                      IF r \in R /\ completion[r] = "waiting" THEN v ELSE completion[r]]
Remove(c, r) == pending' = [pending EXCEPT ![c] = @ \ {r}]

\* What Register throws, if anything.  Correlation ids are fresh, so none is in flight twice.
IsFull(c) == Cardinality(pending[c]) >= MaximumInFlight
\* Seeded fault: one request more than the limit.
RegisterError_OffByOne(c) ==
    IF isDisposed[c] THEN "disposed"
    ELSE IF terminalError[c] \/ Cardinality(pending[c]) > MaximumInFlight
         THEN "invalidOperation" ELSE "none"
\* Seeded fault: the error of the connection is not looked at.
RegisterError_Late(c) ==
    IF isDisposed[c] THEN "disposed" ELSE IF IsFull(c) THEN "invalidOperation" ELSE "none"
RegisterError(c) ==
    IF isDisposed[c] THEN "disposed"
    ELSE IF terminalError[c] \/ IsFull(c) THEN "invalidOperation" ELSE "none"

\* A deadline that has passed already is TimeoutRequest at once: the timer fires.
Register(c, r) ==
    /\ RegisterError(c) = "none"
    /\ pending' = [pending EXCEPT ![c] = @ \cup {r}]
    /\ completion' = [completion EXCEPT ![r] = "waiting"]
    /\ UNCHANGED <<terminalError, isDisposed>>

\* A response to a request that is not, or no longer, in flight is ignored.
TryComplete(c, r) ==
    /\ Remove(c, r)
    /\ Settle(pending[c] \cap {r}, "response")
    /\ UNCHANGED <<terminalError, isDisposed>>

\* The entry stays: it leaves with the response, a notFound, the timer or the connection.
TryCancel(c, r) ==
    /\ Settle(pending[c] \cap {r}, "cancelled")
    /\ UNCHANGED <<pending, terminalError, isDisposed>>

\* An acknowledgement that announces a response only settles a task nobody waits for, so
\* this is the one that does not: notFound.
TryAcknowledgeCancellation(c, r) ==
    /\ Remove(c, r)
    /\ Settle(pending[c] \cap {r}, "io")
    /\ UNCHANGED <<terminalError, isDisposed>>

TimeoutRequest(c, r) ==
    /\ Remove(c, r)
    /\ Settle(pending[c] \cap {r}, "timeout")
    /\ UNCHANGED <<terminalError, isDisposed>>

\* The first error of a connection fails all its requests; later ones change nothing.
FailPending(c, error) ==
    IF terminalError[c] THEN UNCHANGED <<pending, terminalError, completion>>
    ELSE /\ pending' = [pending EXCEPT ![c] = {}]
         /\ terminalError' = [terminalError EXCEPT ![c] = TRUE]
         /\ Settle(pending[c], error)
FailConnection(c, error) == FailPending(c, error) /\ UNCHANGED isDisposed

Dispose(c) ==
    /\ isDisposed' = [isDisposed EXCEPT ![c] = TRUE]
    /\ IF isDisposed[c] THEN UNCHANGED <<pending, terminalError, completion>>
       ELSE FailPending(c, "disposed")
=============================================================================
