--------------------------- MODULE MutationLedger ---------------------------
(***************************************************************************)
(* What the Bridge promises about mutation requests, without saying how:   *)
(* a request, known by its (serverEpoch, clientInstanceId, requestId) key, *)
(* is taken up at most once, and everybody who asks again is told the one  *)
(* answer that single execution produced.                                  *)
(*                                                                         *)
(* AtMostOnceStore implements this module as long as its lock is taken in  *)
(* the order of the clock readings; RequestDispatcher is built on it.      *)
(***************************************************************************)
CONSTANTS
    Keys,      \* the mutation_key values
    Answers,   \* what an execution can end with: outcome, revision, digest, response
    NoAnswer   \* the absence of an answer

VARIABLES
    phase,   \* phase[k]: how far the one execution of k has come
    answer,  \* answer[k]: what it ended with
    told     \* the <<key, answer>> pairs handed to somebody who asked again

ledgerVars == <<phase, answer, told>>

Init ==
    /\ phase = [k \in Keys |-> "new"]
    /\ answer = [k \in Keys |-> NoAnswer]
    /\ told = {}

\* The first request with this key is taken up.
Accept(k) ==
    /\ phase[k] = "new"
    /\ phase' = [phase EXCEPT ![k] = "queued"]
    /\ UNCHANGED <<answer, told>>

Execute(k) ==
    /\ phase[k] = "queued"
    /\ phase' = [phase EXCEPT ![k] = "executing"]
    /\ UNCHANGED <<answer, told>>

\* The request ends, after its execution or without one (cancelled, refused by the gate).
Finish(k, a) ==
    /\ phase[k] \in {"queued", "executing"}
    /\ phase' = [phase EXCEPT ![k] = "completed"]
    /\ answer' = [answer EXCEPT ![k] = a]
    /\ UNCHANGED told

\* A resend is given the answer; it may also be refused, which changes nothing here.
Tell(k) ==
    /\ phase[k] = "completed"
    /\ told' = told \cup {<<k, answer[k]>>}
    /\ UNCHANGED <<phase, answer>>

Next ==
    \E k \in Keys :
        \/ Accept(k)
        \/ Execute(k)
        \/ \E a \in Answers : Finish(k, a)
        \/ Tell(k)

Spec == Init /\ [][Next]_ledgerVars
=============================================================================
