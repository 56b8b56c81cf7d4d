------------------------- MODULE RequestDispatcher -------------------------
(***************************************************************************)
(* request_dispatcher (Bridge) with everything it drives: the session      *)
(* threads of named_pipe_server that call dispatch and cancel, the         *)
(* at-most-once store (here the ledger it implements), the cancellation    *)
(* registry, the command gate with its worker thread, the operation        *)
(* handlers, the async workers that hand responses to the session writer,  *)
(* and the thread that stops the server.                                   *)
(*                                                                         *)
(* A submission is one Request frame on one connection: a client that lost *)
(* its connection sends the same request id again on another one.  Each    *)
(* step below is one critical section of one of the shared objects.        *)
(***************************************************************************)
EXTENDS Naturals, Sequences, FiniteSets

CONSTANTS
    Sessions,       \* accepted connections
    ClientOf,       \* ClientOf[s]: the clientInstanceId of the ClientHello on s
    Requests,       \* request ids
    Edits,          \* the requests whose handler is_mutating()
    Submissions,    \* the Request frames the clients may send: <<session, request>>
    Cancels,        \* those for which the client may send a Cancel as well
    InFlightLimit,  \* negotiated limits.in_flight of a connection
    MaxDepth,       \* maximum_queue_depth of the gate
    NoAnswer,       \* no response yet
    NoCommand       \* the gate worker is idle

Session(q) == q[1]
Request(q) == q[2]
Key(q) == <<ClientOf[Session(q)], Request(q)>>   \* mutation_key; one server epoch
IsEdit(q) == Request(q) \in Edits
Keys == {Key(q) : q \in {p \in Submissions : IsEdit(p)}}

\* What an execution, or its refusal, is answered with and what the ledger keeps.
Answers == {"unchanged",             \* the handler says that nothing was changed
            "applied",               \* the handler says that it did what was asked
            "unknown",               \* the handler says neither: partial, or it failed
            "operation_cancelled", "bridge_stopping", "bridge_busy"}
\* What else dispatch answers, without the ledger keeping it.
Refusals == {"request_expired", "request_id_conflict", "request_result_evicted",
             "operation_timeout"}
Responses == Answers \cup Refusals \cup {NoAnswer}

\* Where a submission is: with its session thread, in the gate, with whoever ends it.
SessionStages == {"accepted", "registered", "attaching"}
GateStages == {"queued", "attached", "executing", "committed", "returned"}
EndStages == {"ending", "completed"}
Stages == {"unsent"} \cup SessionStages \cup GateStages \cup EndStages \cup {"answered", "delivered"}

ASSUME DispatcherAssumption ==
    /\ IsFiniteSet(Submissions)
    /\ Submissions \subseteq Sessions \X Requests
    /\ Cancels \subseteq Submissions
    /\ Edits \subseteq Requests
    /\ InFlightLimit \in Nat \ {0} /\ MaxDepth \in Nat \ {0}
    /\ NoAnswer \notin Answers \cup Refusals
    /\ NoCommand \notin Submissions

VARIABLES
    phase, answer, told,                 \* mutations_
    registry,                            \* cancellations_
    queue, running, stopping, drained,   \* gate_; a command is its submission
    stage,      \* stage[q]: how far q has come
    response,   \* response[q]: what its promise holds, or is about to
    ack,        \* ack[q]: the status of the CancelAck for its request on its connection
    open,       \* the sessions whose thread is in the loop of serve_client
    edits,      \* edits[k]: how often the project was changed for k
    shutdown    \* how far named_pipe_server::stop has come

Ledger == INSTANCE MutationLedger
Cancellations == INSTANCE CancellationRegistry
Gate == INSTANCE CommandGate WITH Commands <- Submissions

ledgerVars == <<phase, answer, told>>
gateVars == <<queue, running, stopping, drained>>
vars == <<ledgerVars, registry, gateVars, stage, response, ack, open, edits, shutdown>>

Init ==
    /\ Ledger!Init /\ Cancellations!Init /\ Gate!Init
    /\ stage = [q \in Submissions |-> "unsent"]
    /\ response = [q \in Submissions |-> NoAnswer]
    /\ ack = [q \in Cancels |-> "none"]
    /\ open = Sessions
    /\ edits = [k \in Keys |-> 0]
    /\ shutdown = "no"

MoveTo(q, s) == stage' = [stage EXCEPT ![q] = s]
Respond(q, a) == response' = [response EXCEPT ![q] = a]

\* mark_executing and complete, as the dispatcher uses them.
MarkExecuting(k) == phase' = [phase EXCEPT ![k] = "executing"] /\ UNCHANGED <<answer, told>>
\* Seeded fault: the state of the entry is not set.
Complete_KeepsPhase(k, a) == answer' = [answer EXCEPT ![k] = a] /\ UNCHANGED <<phase, told>>
Complete(k, a) ==
    /\ phase' = [phase EXCEPT ![k] = "completed"]
    /\ answer' = [answer EXCEPT ![k] = a]
    /\ UNCHANGED told

\* Who ends q when it is in an end stage: the worker that runs it, the thread that drains
\* the gate, or its session.
Draining(q) == \E i \in DOMAIN drained : i = 1 /\ drained[i] = q
HeldBySession(q) ==
    \/ stage[q] \in SessionStages
    \/ stage[q] \in EndStages /\ running # q /\ ~Draining(q)
Reading(s) == s \in open /\ \A q \in Submissions : Session(q) = s => ~HeldBySession(q)
InFlight(s) ==
    Cardinality({q \in Submissions : Session(q) = s /\ stage[q] \notin {"unsent", "delivered"}})

-----------------------------------------------------------------------------
(* serve_client and dispatch, on the session threads. *)

\* The loop of serve_client ends once is_running_ is false.
Receives(q) == stage[q] = "unsent" /\ shutdown = "no" /\ Reading(Session(q))
Admits(q) == Receives(q) /\ InFlight(Session(q)) < InFlightLimit

\* reject_busy: the response goes straight to the session writer.
RejectBusy(q) ==
    /\ Receives(q) /\ ~Admits(q)
    /\ MoveTo(q, "delivered") /\ Respond(q, "bridge_busy")
    /\ UNCHANGED <<ledgerVars, registry, gateVars, ack, open, edits, shutdown>>

DispatchRead(q) ==
    /\ Admits(q) /\ ~IsEdit(q)
    /\ MoveTo(q, "accepted")
    /\ UNCHANGED <<ledgerVars, registry, gateVars, response, ack, open, edits, shutdown>>

\* begin refuses: outside the window at any time, or a new key while the tombstones are full.
BeginRefused(q, a) ==
    /\ Admits(q) /\ IsEdit(q)
    /\ \/ a = "request_expired"
       \/ a = "bridge_busy" /\ phase[Key(q)] = "new"
    /\ MoveTo(q, "answered") /\ Respond(q, a)
    /\ UNCHANGED <<ledgerVars, registry, gateVars, ack, open, edits, shutdown>>

\* Seeded fault: a completed entry is taken for a new one.
BeginAccepted_Again(q) ==
    /\ Admits(q) /\ IsEdit(q) /\ phase[Key(q)] \in {"new", "completed"}
    /\ phase' = [phase EXCEPT ![Key(q)] = "queued"]
    /\ MoveTo(q, "accepted")
    /\ UNCHANGED <<answer, told, registry, gateVars, response, ack, open, edits, shutdown>>
BeginAccepted(q) ==
    /\ Admits(q) /\ IsEdit(q)
    /\ Ledger!Accept(Key(q))
    /\ MoveTo(q, "accepted")
    /\ UNCHANGED <<registry, gateVars, response, ack, open, edits, shutdown>>

BeginAttached(q) ==
    /\ Admits(q) /\ IsEdit(q) /\ phase[Key(q)] \in {"queued", "executing"}
    /\ MoveTo(q, "attaching")
    /\ UNCHANGED <<ledgerVars, registry, gateVars, response, ack, open, edits, shutdown>>

\* cached, or result_evicted when the full response left the LRU
BeginCompleted(q, a) ==
    /\ Admits(q) /\ IsEdit(q)
    /\ Ledger!Tell(Key(q))
    /\ a \in {answer[Key(q)], "request_result_evicted"}
    /\ MoveTo(q, "answered") /\ Respond(q, a)
    /\ UNCHANGED <<registry, gateVars, ack, open, edits, shutdown>>

Register(q) ==
    /\ stage[q] = "accepted"
    /\ Cancellations!RegisterRequest(Request(q))
    /\ MoveTo(q, "registered")
    /\ UNCHANGED <<ledgerVars, gateVars, response, ack, open, edits, shutdown>>

\* register_request returned false: the ledger is left as begin left it.
\* Seeded fault: the refused request erases the registration of the active one.
RegisterConflicts_Erases(q) ==
    /\ stage[q] = "accepted"
    /\ Cancellations!Registered(Request(q))
    /\ Cancellations!Erase(Request(q))
    /\ MoveTo(q, "answered") /\ Respond(q, "request_id_conflict")
    /\ UNCHANGED <<ledgerVars, gateVars, ack, open, edits, shutdown>>
RegisterConflicts(q) ==
    /\ stage[q] = "accepted"
    /\ Cancellations!Registered(Request(q))
    /\ MoveTo(q, "answered") /\ Respond(q, "request_id_conflict")
    /\ UNCHANGED <<ledgerVars, registry, gateVars, ack, open, edits, shutdown>>

Enqueue(q) ==
    /\ stage[q] = "registered"
    /\ Gate!TryEnqueue(q)
    /\ MoveTo(q, "queued")
    /\ UNCHANGED <<ledgerVars, registry, response, ack, open, edits, shutdown>>

\* Seeded fault: the ledger is not told that the request will not run.
EnqueueRefused_Forgets(q) ==
    /\ stage[q] = "registered" /\ Gate!Refused
    /\ MoveTo(q, "completed")
    /\ Respond(q, IF stopping THEN "bridge_stopping" ELSE "bridge_busy")
    /\ UNCHANGED <<ledgerVars, registry, gateVars, ack, open, edits, shutdown>>
EnqueueRefused(q) ==
    /\ stage[q] = "registered" /\ Gate!Refused
    /\ MoveTo(q, "ending")
    /\ Respond(q, IF stopping THEN "bridge_stopping" ELSE "bridge_busy")
    /\ UNCHANGED <<ledgerVars, registry, gateVars, ack, open, edits, shutdown>>

\* A resend that attached waits in the gate as a command of its own.
EnqueueAttached(q) ==
    /\ stage[q] = "attaching"
    /\ Gate!TryEnqueue(q)
    /\ MoveTo(q, "attached")
    /\ UNCHANGED <<ledgerVars, registry, response, ack, open, edits, shutdown>>

AttachRefused(q) ==
    /\ stage[q] = "attaching" /\ Gate!Refused
    /\ MoveTo(q, "answered") /\ Respond(q, "bridge_busy")
    /\ UNCHANGED <<ledgerVars, registry, gateVars, ack, open, edits, shutdown>>

\* A Cancel frame, and the CancelAck put into the writer queue.
CancelRequest(q) ==
    /\ q \in Cancels /\ ack[q] = "none"
    /\ stage[q] # "unsent" /\ shutdown = "no" /\ Reading(Session(q))
    /\ ack' = [ack EXCEPT ![q] = Cancellations!CancelStatus(Request(q))]
    /\ Cancellations!Cancel(Request(q))
    /\ UNCHANGED <<ledgerVars, gateVars, stage, response, open, edits, shutdown>>

\* A Close frame, a lost connection, or the end of the loop at shutdown.
Close(s) ==
    /\ Reading(s)
    /\ open' = open \ {s}
    /\ UNCHANGED <<ledgerVars, registry, gateVars, stage, response, ack, edits, shutdown>>

-----------------------------------------------------------------------------
(* The gate worker. *)

TakeCommand ==
    /\ Gate!Take
    /\ UNCHANGED <<ledgerVars, registry, stage, response, ack, open, edits, shutdown>>

Runs(q, s) == running = q /\ stage[q] = s

\* try_begin, then mark_executing
BeginExecution(q) ==
    /\ Runs(q, "queued")
    /\ Cancellations!TryBegin(Request(q))
    /\ IF IsEdit(q) THEN MarkExecuting(Key(q)) ELSE UNCHANGED ledgerVars
    /\ MoveTo(q, "executing")
    /\ UNCHANGED <<gateVars, response, ack, open, edits, shutdown>>

SkipCancelled(q) ==
    /\ Runs(q, "queued") /\ ~Cancellations!CanBegin(Request(q))
    /\ MoveTo(q, "ending") /\ Respond(q, "operation_cancelled")
    /\ UNCHANGED <<ledgerVars, registry, gateVars, ack, open, edits, shutdown>>

\* The handler answers, or throws, before its commit point; a read has none.
HandlerReturns(q) ==
    /\ Runs(q, "executing")
    /\ MoveTo(q, "returned") /\ Respond(q, "unchanged")
    /\ UNCHANGED <<ledgerVars, registry, gateVars, ack, open, edits, shutdown>>

ReachCommitPoint(q) ==
    /\ Runs(q, "executing") /\ IsEdit(q)
    /\ Cancellations!TryReachCommitPoint(Request(q))
    /\ MoveTo(q, "committed")
    /\ UNCHANGED <<ledgerVars, gateVars, response, ack, open, edits, shutdown>>

\* try_reach_commit_point returned false: the handler answers operation_cancelled.
CommitDenied(q) ==
    /\ Runs(q, "executing") /\ IsEdit(q) /\ ~Cancellations!CanCommit(Request(q))
    /\ MoveTo(q, "returned") /\ Respond(q, "operation_cancelled")
    /\ UNCHANGED <<ledgerVars, registry, gateVars, ack, open, edits, shutdown>>

\* The edit section ran, and the handler answers.  What it says need not be what it did: it may
\* have found nothing left to do, and the serialisation of its answer may throw after the change,
\* which the handlers catch and answer as a failure that changed nothing.
HandlerEdits(q, a) ==
    /\ Runs(q, "committed")
    /\ \E n \in 0..1 : edits' = [edits EXCEPT ![Key(q)] = @ + n]
    /\ MoveTo(q, "ending") /\ Respond(q, a)
    /\ UNCHANGED <<ledgerVars, registry, gateVars, ack, open, shutdown>>

\* is_cancelled() && !has_reached_commit_point() replaces what the handler answered.
CheckCancelled(q) ==
    /\ Runs(q, "returned")
    /\ MoveTo(q, "ending")
    /\ Respond(q, IF Cancellations!IsCancelled(Request(q)) THEN "operation_cancelled"
                  ELSE response[q])
    /\ UNCHANGED <<ledgerVars, registry, gateVars, ack, open, edits, shutdown>>

\* The command of an attached resend: wait_for_completion, on the same worker.
WaitCompleted(q, a) ==
    /\ Runs(q, "attached")
    /\ Ledger!Tell(Key(q))
    /\ a \in {answer[Key(q)], "request_result_evicted"}
    /\ MoveTo(q, "answered") /\ Respond(q, a)
    /\ Gate!Executed
    /\ UNCHANGED <<registry, ack, open, edits, shutdown>>

\* Seeded fault: the wait has no timeout.
WaitTimedOut_Never(q) == FALSE /\ Runs(q, "attached") /\ UNCHANGED vars
WaitTimedOut(q) ==
    /\ Runs(q, "attached") /\ phase[Key(q)] # "completed"
    /\ MoveTo(q, "answered") /\ Respond(q, "operation_timeout")
    /\ Gate!Executed
    /\ UNCHANGED <<ledgerVars, registry, ack, open, edits, shutdown>>

-----------------------------------------------------------------------------
(* How a registered request ends: the same calls by the worker, by the thread *)
(* that drains the gate, and by the session whose enqueue was refused.        *)

\* Seeded fault: the ledger is given a fixed outcome.
CompleteMutation_Fixed(q) ==
    /\ stage[q] = "ending" /\ IsEdit(q)
    /\ Complete(Key(q), "unchanged")
    /\ MoveTo(q, "completed")
    /\ UNCHANGED <<registry, gateVars, response, ack, open, edits, shutdown>>
CompleteMutation(q) ==
    /\ stage[q] = "ending" /\ IsEdit(q)
    /\ Complete(Key(q), response[q])
    /\ MoveTo(q, "completed")
    /\ UNCHANGED <<registry, gateVars, response, ack, open, edits, shutdown>>

\* cancellations_.complete and promise->set_value; the gate goes on to its next command.
Answer(q) ==
    /\ stage[q] = "completed" \/ (stage[q] = "ending" /\ ~IsEdit(q))
    /\ Cancellations!Erase(Request(q))
    /\ MoveTo(q, "answered")
    /\ CASE running = q -> Gate!Executed
         [] Draining(q) -> Gate!CancelOne
         [] OTHER -> UNCHANGED gateVars
    /\ UNCHANGED <<ledgerVars, response, ack, open, edits, shutdown>>

\* The async worker: in_flight - 1, and the frame into the writer queue of its session,
\* which drops it once that is closed.
Deliver(q) ==
    /\ stage[q] = "answered"
    /\ MoveTo(q, "delivered")
    /\ UNCHANGED <<ledgerVars, registry, gateVars, response, ack, open, edits, shutdown>>

-----------------------------------------------------------------------------
(* named_pipe_server::stop and, after the session threads ended, dispatcher_.stop *)

StopServer ==
    /\ shutdown = "no" /\ shutdown' = "joining sessions"
    /\ UNCHANGED <<ledgerVars, registry, gateVars, stage, response, ack, open, edits>>

CancelAll ==
    /\ shutdown = "joining sessions" /\ open = {}
    /\ Cancellations!CancelAll
    /\ shutdown' = "stopping gate"
    /\ UNCHANGED <<ledgerVars, gateVars, stage, response, ack, open, edits>>

DrainGate ==
    /\ shutdown = "stopping gate"
    /\ Gate!Drain
    /\ shutdown' = "draining"
    /\ UNCHANGED <<ledgerVars, registry, stage, response, ack, open, edits>>

\* Seeded fault: a drained command is answered, its ledger entry stays queued.
CancelDrained_Forgets(q) ==
    /\ Draining(q)
    /\ \/ stage[q] = "queued" /\ MoveTo(q, "completed") /\ UNCHANGED gateVars
       \/ stage[q] = "attached" /\ MoveTo(q, "answered") /\ Gate!CancelOne
    /\ Respond(q, "bridge_stopping")
    /\ UNCHANGED <<ledgerVars, registry, ack, open, edits, shutdown>>
\* The cancel callback of a drained command.
CancelDrained(q) ==
    /\ Draining(q)
    /\ \/ stage[q] = "queued" /\ MoveTo(q, "ending") /\ UNCHANGED gateVars
       \/ stage[q] = "attached" /\ MoveTo(q, "answered") /\ Gate!CancelOne
    /\ Respond(q, "bridge_stopping")
    /\ UNCHANGED <<ledgerVars, registry, ack, open, edits, shutdown>>

JoinGate ==
    /\ shutdown = "draining" /\ Gate!Joinable
    /\ shutdown' = "joining workers"
    /\ UNCHANGED <<ledgerVars, registry, gateVars, stage, response, ack, open, edits>>

JoinAsyncWorkers ==
    /\ shutdown = "joining workers"
    /\ \A q \in Submissions : stage[q] \in {"unsent", "delivered"}
    /\ shutdown' = "done"
    /\ UNCHANGED <<ledgerVars, registry, gateVars, stage, response, ack, open, edits>>

Stopped == shutdown = "done" /\ UNCHANGED vars

-----------------------------------------------------------------------------
Arrives(q) ==
    \/ RejectBusy(q) \/ DispatchRead(q)
    \/ BeginAccepted(q) \/ BeginAttached(q)
    \/ \E a \in Responses : BeginRefused(q, a) \/ BeginCompleted(q, a)

\* The rest of dispatch, once a frame was read.
Dispatches(q) ==
    \/ Register(q) \/ RegisterConflicts(q)
    \/ Enqueue(q) \/ EnqueueRefused(q) \/ EnqueueAttached(q) \/ AttachRefused(q)
    \/ HeldBySession(q) /\ (CompleteMutation(q) \/ Answer(q))

\* The steps of a handler, which waits for the main thread of AviUtl2 before most of them.
Handles(q) ==
    \/ HandlerReturns(q) \/ ReachCommitPoint(q) \/ CommitDenied(q)
    \/ \E a \in {"applied", "unchanged", "unknown"} : HandlerEdits(q, a)
Works(q) ==
    \/ BeginExecution(q) \/ SkipCancelled(q) \/ CheckCancelled(q)
    \/ WaitTimedOut(q) \/ \E a \in Responses : WaitCompleted(q, a)
    \/ running = q /\ (CompleteMutation(q) \/ Answer(q))
Worker == TakeCommand \/ \E q \in Submissions : Works(q) \/ Handles(q)

Stops ==
    \/ CancelAll \/ DrainGate \/ JoinGate \/ JoinAsyncWorkers
    \/ \E q \in Submissions :
          \/ CancelDrained(q)
          \/ Draining(q) /\ (CompleteMutation(q) \/ Answer(q))

Next ==
    \/ \E q \in Submissions : Arrives(q) \/ Dispatches(q) \/ CancelRequest(q) \/ Deliver(q)
    \/ \E s \in Sessions : Close(s)
    \/ Worker \/ StopServer \/ Stops \/ Stopped

Spec == Init /\ [][Next]_vars

\* UninitializePlugin stops the server on the main thread, which then takes no messages; a
\* handler that needs it waits until the server has stopped.
WorkerGoesOn ==
    TakeCommand \/ \E q \in Submissions : Works(q) \/ (shutdown = "no" /\ Handles(q))
InHandler == \E q \in Submissions : Runs(q, "executing") \/ Runs(q, "committed")

\* Threads that are not blocked go on; a handler and the SDK calls in it return as long as
\* nobody stops the server; a session thread leaves its loop once is_running_ is false.
\* Clients owe nothing.
Fairness ==
    /\ \A q \in Submissions : WF_vars(Dispatches(q)) /\ WF_vars(Deliver(q))
    /\ \A s \in Sessions : WF_vars(shutdown # "no" /\ Close(s))
    /\ WF_vars(WorkerGoesOn) /\ WF_vars(Stops)
FairSpec == Spec /\ Fairness

-----------------------------------------------------------------------------
(* Properties. *)

Active == {"registered"} \cup (GateStages \ {"attached"}) \cup EndStages
Answered(q) == stage[q] \in {"answered", "delivered"}

\* Every variable keeps its shape, and the gate its capacity.
TypeOK ==
    /\ phase \in [Keys -> {"new", "queued", "executing", "completed"}]
    /\ answer \in [Keys -> Answers \cup {NoAnswer}]
    /\ told \subseteq Keys \X Answers
    /\ Cancellations!TypeOK /\ Gate!TypeOK
    /\ stage \in [Submissions -> Stages]
    /\ response \in [Submissions -> Responses]
    /\ ack \in [Cancels -> {"none", "cancelled", "tooLate", "notFound"}]
    /\ open \subseteq Sessions
    /\ edits \in [Keys -> Nat]
    /\ shutdown \in {"no", "joining sessions", "stopping gate", "draining",
                     "joining workers", "done"}

\* However often, and over whichever connections, a client sends a request, the project is
\* changed for it once at most; and not at all if the ledger keeps an answer that the dispatcher
\* or the gate gave in place of the handler's: such an answer never covers up an edit.
EditedOnceAtMost ==
    \A k \in Keys :
        /\ edits[k] <= 1
        /\ answer[k] \in {"operation_cancelled", "bridge_stopping", "bridge_busy"} => edits[k] = 0

\* Everybody who is answered with a result for a request is told the same one; the other
\* answers a resend can get say that it was not looked at, or that it was not waited for.
ResendsAgree ==
    \A q \in Submissions :
        Answered(q) /\ IsEdit(q) /\ response[q] \in {"unchanged", "applied", "unknown", "operation_cancelled"}
            => answer[Key(q)] = response[q]

\* A client that was told "cancelled" can rely on the project not being changed by that
\* request, then or later, whatever the worker was doing when the Cancel came.
CancelledNeverEdits ==
    \A q \in Cancels : IsEdit(q) /\ ack[q] = "cancelled" => edits[Key(q)] = 0

\* A client that was told "tooLate" is answered with what the handler says of its edit section.
TooLateIsNotCancelled ==
    \A q \in Cancels :
        ack[q] = "tooLate" /\ IsEdit(q)
            => answer[Key(q)] \in {NoAnswer, "applied", "unchanged", "unknown"}

\* cancellations_ holds exactly the requests that are between register_request and
\* complete: nothing leaks, and nothing that is still running can no longer be cancelled.
RegistryMatchesActive ==
    DOMAIN registry = {Request(q) : q \in {p \in Submissions : stage[p] \in Active}}

\* A key the store considers in flight is owned by one submission that will complete it;
\* without an owner its resends would attach to nothing until the Bridge restarts.
InFlightHasOwner ==
    \A k \in Keys :
        phase[k] \in {"queued", "executing"} =>
            \E q \in Submissions :
                Key(q) = k /\ stage[q] \in {"accepted", "ending"} \cup (Active \ {"completed"})

\* After stop nothing is left: no registration, no key in flight, no command, and every
\* request that was read has its response.
StopLeavesNothing ==
    shutdown = "done" =>
        /\ registry = [r \in {} |-> "queued"]
        /\ \A k \in Keys : phase[k] \in {"new", "completed"}
        /\ queue = <<>> /\ drained = <<>> /\ running = NoCommand

\* The dispatcher calls mark_executing and complete in the order the store demands (they
\* throw otherwise), and never completes an entry twice.
FollowsLedger == Ledger!Spec

\* Once it is read from the pipe, every request is answered, even if the gate is full, its
\* connection is gone, it is cancelled or the server stops; only a handler that was caught
\* by the stop, in or before a call to the main thread, can keep it from its answer.
EveryRequestAnswered ==
    \A q \in Submissions :
        stage[q] # "unsent" ~> stage[q] = "delivered" \/ [](shutdown # "no" /\ InHandler)

\* stop returns, unless the worker it joins is in a handler for ever: neither sessions, nor
\* waiting or queued commands, nor answers on their way can hold it up.
StopReturns == shutdown # "no" ~> shutdown = "done" \/ []InHandler

(* What the documentation says and the code does not do. *)

\* ipc-protocol.md, chapter 12: a resend of a request that is queued or executing is
\* attached to its execution and gets its answer.
AttachedResendGetsAnswer ==
    \A q \in Submissions : response[q] # "operation_timeout"

\* ipc-protocol.md, chapter 13: after "cancelled" the request is answered with operation_cancelled.
CancelledAckMeansCancelled ==
    \A q \in Cancels :
        ack[q] = "cancelled" /\ Answered(q) => response[q] = "operation_cancelled"
=============================================================================
