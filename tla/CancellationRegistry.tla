------------------------ MODULE CancellationRegistry ------------------------
(***************************************************************************)
(* cancellation_registry (Bridge): how far every request that the          *)
(* dispatcher registered has come, and whether a Cancel can still stop it. *)
(* It is keyed by the request id alone.  Every operation is one critical   *)
(* section, so one action; its result is a state predicate of its own.     *)
(***************************************************************************)
CONSTANT Requests   \* request ids

VARIABLE registry   \* requests_: a partial function from request ids to their state

States == {"queued", "executing", "committed", "cancelled"}

TypeOK == DOMAIN registry \subseteq Requests /\ registry \in [DOMAIN registry -> States]

Init == registry = [r \in {} |-> "queued"]

Registered(r) == r \in DOMAIN registry
InState(r, states) == Registered(r) /\ registry[r] \in states

\* register_request returns true.
RegisterRequest(r) ==
    /\ ~Registered(r)
    /\ registry' = [x \in DOMAIN registry \cup {r} |->
                       IF x = r THEN "queued" ELSE registry[x]]

\* try_begin returns true; it returns false, changing nothing, in every other state.
CanBegin(r) == InState(r, {"queued"})
TryBegin(r) ==
    /\ CanBegin(r)
    /\ registry' = [registry EXCEPT ![r] = "executing"]

\* try_reach_commit_point returns true, again if it was reached before.
\* Seeded fault: the cancelled state is not looked at.
CanCommit_EvenCancelled(r) == Registered(r)
CanCommit(r) == InState(r, {"executing", "committed"})
TryReachCommitPoint(r) ==
    /\ CanCommit(r)
    /\ registry' = [registry EXCEPT ![r] = "committed"]

IsCancelled(r) == InState(r, {"cancelled"})

\* What cancel answers.
\* Seeded fault: an executing request counts as committed.
CancelStatus_Early(r) ==
    IF ~Registered(r) THEN "notFound"
    ELSE IF registry[r] \in {"executing", "committed"} THEN "tooLate" ELSE "cancelled"
CancelStatus(r) ==
    IF ~Registered(r) THEN "notFound"
    ELSE IF registry[r] = "committed" THEN "tooLate" ELSE "cancelled"

Cancel(r) ==
    registry' = IF CancelStatus(r) = "cancelled"
                THEN [registry EXCEPT ![r] = "cancelled"] ELSE registry

\* complete
Erase(r) == registry' = [x \in DOMAIN registry \ {r} |-> registry[x]]

CancelAll ==
    registry' = [r \in DOMAIN registry |->
                    IF registry[r] = "committed" THEN "committed" ELSE "cancelled"]
=============================================================================
