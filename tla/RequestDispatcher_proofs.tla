---------------------- MODULE RequestDispatcher_proofs ----------------------
(***************************************************************************)
(* Proofs about RequestDispatcher, for any number of sessions, clients,    *)
(* requests, resends and cancels and any capacity of the gate: how often a *)
(* request edits the project and what everybody is told about it.          *)
(***************************************************************************)
EXTENDS RequestDispatcher, TLAPS

\* Client and server make their request ids with Guid.CreateVersion7: no two clients use the
\* same one.  The registry is keyed by the request id alone, so what it promises to a client
\* depends on this; what the ledger promises does not.
OwnRequestIds ==
    \A p, q \in Submissions :
        Request(p) = Request(q) => ClientOf[Session(p)] = ClientOf[Session(q)]

\* Of an edit: the submission that begin accepted, from there to its end.
OwnerStages == {"accepted"} \cup Active

\* A request is in the registry for one submission, and a key has one owner.
OneActive ==
    \A p, q \in Submissions :
        stage[p] \in Active /\ stage[q] \in Active /\ Request(p) = Request(q) => p = q
OneOwner ==
    \A p, q \in Submissions :
        /\ stage[p] \in OwnerStages /\ stage[q] \in OwnerStages
        /\ IsEdit(p) /\ IsEdit(q) /\ Key(p) = Key(q)
        => p = q

\* cancellations_ and the submissions that have a registration in it.
ActiveInv == RegistryMatchesActive /\ OneActive

\* What is answered in place of a handler is answered only if nothing was edited.
Fits(a, n) ==
    /\ n \in 0..1
    /\ a \in {"operation_cancelled", "bridge_stopping", "bridge_busy"} => n = 0

\* The phase of a key, its answer and its edits.
LedgerAgrees ==
    \A k \in Keys :
        /\ phase[k] \in {"new", "queued"} => edits[k] = 0
        /\ phase[k] # "completed" => answer[k] = NoAnswer
        /\ phase[k] = "completed" => answer[k] \in Answers /\ Fits(answer[k], edits[k])
        /\ edits[k] \in 0..1

\* The stage of a submission and the phase of its key.
StageAgrees ==
    \A q \in Submissions : IsEdit(q) =>
        /\ stage[q] \in {"accepted", "registered", "queued"} => phase[Key(q)] = "queued"
        /\ stage[q] \in {"executing", "committed", "returned"} =>
              phase[Key(q)] = "executing" /\ edits[Key(q)] = 0
        /\ stage[q] = "ending" =>
              phase[Key(q)] \in {"queued", "executing"} /\ Fits(response[q], edits[Key(q)])
        /\ stage[q] = "completed" =>
              phase[Key(q)] = "completed" /\ answer[Key(q)] = response[q]
        /\ stage[q] \in {"attaching", "attached"} => phase[Key(q)] # "new"

\* Only edits attach to an execution or reach a commit point.
OnlyEdits ==
    \A q \in Submissions : stage[q] \in {"attaching", "attached", "committed"} => IsEdit(q)

\* What a submission is about to be answered with.
ResponseAgrees ==
    \A q \in Submissions :
        /\ stage[q] = "returned" => response[q] \in {"unchanged", "operation_cancelled"}
        /\ stage[q] \in EndStages => response[q] \in Answers

\* The stage of a submission and its state in the registry.
RegistryAgrees ==
    \A q \in Submissions :
        /\ stage[q] \in {"registered", "queued"} =>
              registry[Request(q)] \in {"queued", "cancelled"}
        /\ stage[q] \in {"executing", "returned"} =>
              registry[Request(q)] \in {"executing", "cancelled"}
        /\ stage[q] = "committed" => registry[Request(q)] = "committed"
        /\ stage[q] \in EndStages /\ IsEdit(q) =>
              IF registry[Request(q)] = "committed"
              THEN response[q] \in {"applied", "unchanged", "unknown"}
              ELSE edits[Key(q)] = 0

\* The part of TypeOK that the other invariants need, and what is left of it.
TypeCore ==
    /\ phase \in [Keys -> {"new", "queued", "executing", "completed"}]
    /\ answer \in [Keys -> Answers \cup {NoAnswer}]
    /\ told \subseteq Keys \X Answers
    /\ Cancellations!TypeOK
    /\ stage \in [Submissions -> Stages]
    /\ response \in [Submissions -> Responses]
    /\ ack \in [Cancels -> {"none", "cancelled", "tooLate", "notFound"}]
    /\ edits \in [Keys -> Nat]
TypeShell ==
    /\ Gate!TypeOK
    /\ open \subseteq Sessions
    /\ shutdown \in {"no", "joining sessions", "stopping gate", "draining",
                     "joining workers", "done"}

CoreInv ==
    /\ TypeCore /\ TypeShell
    /\ RegistryMatchesActive /\ OneActive /\ OneOwner
    /\ LedgerAgrees /\ StageAgrees /\ OnlyEdits /\ ResponseAgrees /\ RegistryAgrees
    /\ ResendsAgree

\* What a client was told about its Cancel stays true: no other submission of the request can
\* be registered any more, and the state in the registry does not change.
Told(q, status) == ack[q] = status /\ IsEdit(q)
NoneAccepted(k) == \A p \in Submissions : stage[p] = "accepted" /\ IsEdit(p) => Key(p) # k
CancelSticks ==
    \A q \in Cancels : Told(q, "cancelled") =>
        /\ phase[Key(q)] # "new" /\ NoneAccepted(Key(q)) /\ edits[Key(q)] = 0
        /\ Request(q) \in DOMAIN registry => registry[Request(q)] = "cancelled"
TooLateSticks ==
    \A q \in Cancels : Told(q, "tooLate") =>
        /\ phase[Key(q)] # "new" /\ NoneAccepted(Key(q))
        /\ Request(q) \in DOMAIN registry => registry[Request(q)] = "committed"
        /\ answer[Key(q)] \in {NoAnswer, "applied", "unchanged", "unknown"}
AckInv == CancelSticks /\ TooLateSticks

\* From the moment the gate is joined nothing comes back.
StopInv ==
    /\ shutdown \in {"joining workers", "done"} => Gate!Joinable
    /\ shutdown = "done" => \A q \in Submissions : stage[q] \in {"unsent", "delivered"}

-----------------------------------------------------------------------------
(* Requests, keys and steps *)

LEMMA KeyFacts ==
    ASSUME NEW p \in Submissions, NEW q \in Submissions
    PROVE  /\ Request(p) \in Requests
           /\ IsEdit(p) => Key(p) \in Keys
           /\ Key(p) = Key(q) => Request(p) = Request(q) /\ (IsEdit(p) <=> IsEdit(q))
           /\ Request(p) = Request(q) => (IsEdit(p) <=> IsEdit(q))
BY DispatcherAssumption DEF Request, Session, Key, IsEdit, Keys

LEMMA OwnIdsGiveKeys ==
    ASSUME OwnRequestIds, NEW p \in Submissions, NEW q \in Submissions,
           Request(p) = Request(q)
    PROVE  Key(p) = Key(q)
BY DEF OwnRequestIds, Key

LEMMA EditKeys == \A q \in Submissions : Key(q) \in Keys <=> IsEdit(q)
BY DEF Keys, Key, IsEdit

\* The steps that change nothing but the gate, the open sessions or the shutdown.
QuietSteps ==
    \/ \E s \in Sessions : Close(s)
    \/ TakeCommand \/ StopServer \/ DrainGate \/ JoinGate \/ JoinAsyncWorkers
    \/ UNCHANGED vars
coreVars == <<ledgerVars, registry, stage, response, ack, edits>>
LEMMA QuietIsQuiet == QuietSteps => UNCHANGED coreVars
BY DEF QuietSteps, Close, TakeCommand, StopServer, DrainGate, JoinGate, JoinAsyncWorkers,
   vars, coreVars

\* The steps of one submission, in the order it takes them.
Enters(q) ==
    \/ Register(q) \/ RegisterConflicts(q)
    \/ Enqueue(q) \/ EnqueueRefused(q) \/ EnqueueAttached(q) \/ AttachRefused(q)
Executes(q) ==
    \/ BeginExecution(q) \/ SkipCancelled(q) \/ CheckCancelled(q)
    \/ WaitTimedOut(q) \/ \E a \in Responses : WaitCompleted(q, a)
Ends(q) == CompleteMutation(q) \/ Answer(q) \/ Deliver(q) \/ CancelDrained(q)
SubmissionStep(q) ==
    Arrives(q) \/ Enters(q) \/ CancelRequest(q) \/ Executes(q) \/ Handles(q) \/ Ends(q)

\* Every step of the system is one of them, or quiet, or the end of all registrations.
LEMMA NextSteps ==
    [Next]_vars => QuietSteps \/ CancelAll \/ \E q \in Submissions : SubmissionStep(q)
BY DEF Next, Dispatches, Enters, Executes, Ends, Works, Worker, Stops, Stopped, QuietSteps,
   SubmissionStep

-----------------------------------------------------------------------------
(* The core of the invariant: one lemma per part, in it one step per group of actions *)

\* What the actions are built from.
USE DEF
    MoveTo, Respond, Runs, Receives, Admits, ledgerVars, Ledger!Accept, Ledger!Tell,
    Complete, MarkExecuting, Cancellations!RegisterRequest, Cancellations!Cancel,
    Cancellations!CancelStatus, Cancellations!TryBegin, Cancellations!CanBegin,
    Cancellations!TryReachCommitPoint, Cancellations!CanCommit, Cancellations!IsCancelled,
    Cancellations!Erase, Cancellations!InState, Cancellations!Registered

\* Only edits get where only edits should.
LEMMA OnlyEditsStep ==
    ASSUME TypeCore, OnlyEdits, [Next]_vars
    PROVE  OnlyEdits'
<1> USE DispatcherAssumption DEF TypeCore, OnlyEdits
<1>1. ASSUME NEW q \in Submissions, Arrives(q) PROVE OnlyEdits'
  BY <1>1, KeyFacts DEF Arrives, RejectBusy, DispatchRead, BeginAccepted, BeginAttached,
     BeginRefused, BeginCompleted
<1>2. ASSUME NEW q \in Submissions, Enters(q) PROVE OnlyEdits'
  BY <1>2, KeyFacts DEF Enters, Register, RegisterConflicts, Enqueue, EnqueueRefused,
     EnqueueAttached, AttachRefused
<1>3. ASSUME NEW q \in Submissions, CancelRequest(q) PROVE OnlyEdits'
  BY <1>3, KeyFacts DEF CancelRequest
<1>4. ASSUME NEW q \in Submissions, Executes(q) PROVE OnlyEdits'
  BY <1>4, KeyFacts DEF Executes, BeginExecution, SkipCancelled, CheckCancelled,
     WaitTimedOut, WaitCompleted
<1>5. ASSUME NEW q \in Submissions, Handles(q) PROVE OnlyEdits'
  BY <1>5, KeyFacts DEF Handles, HandlerReturns, ReachCommitPoint, CommitDenied,
     HandlerEdits
<1>6. ASSUME NEW q \in Submissions, Ends(q) PROVE OnlyEdits'
  BY <1>6, KeyFacts DEF Ends, CompleteMutation, Answer, Deliver, CancelDrained
<1>7. CASE CancelAll
  BY <1>7, KeyFacts DEF CancelAll, Cancellations!CancelAll
<1>8. CASE QuietSteps
  BY <1>8, QuietIsQuiet DEF coreVars
<1>9. QED
  BY <1>1, <1>2, <1>3, <1>4, <1>5, <1>6, <1>7, <1>8, NextSteps DEF SubmissionStep

\* Types: what the ledger is given is an answer, what it tells was one.
LEMMA TypeStep ==
    ASSUME TypeCore, LedgerAgrees, ResponseAgrees, OnlyEdits, [Next]_vars
    PROVE  TypeCore'
<1> USE DispatcherAssumption DEF TypeCore, LedgerAgrees, ResponseAgrees, OnlyEdits, Stages,
   SessionStages, GateStages, EndStages, Responses, Answers, Refusals, Cancellations!TypeOK,
   Cancellations!States
<1>1. ASSUME NEW q \in Submissions, Arrives(q) PROVE TypeCore'
  <2>1. ASSUME RejectBusy(q) PROVE TypeCore'
    BY <2>1, KeyFacts DEF RejectBusy
  <2>2. ASSUME BeginAccepted(q) PROVE TypeCore'
    BY <2>2, KeyFacts DEF BeginAccepted
  <2>3. ASSUME NEW a \in Responses, BeginRefused(q, a) PROVE TypeCore'
    BY <2>3, KeyFacts DEF BeginRefused
  <2>4. ASSUME NEW a \in Responses, BeginCompleted(q, a) PROVE TypeCore'
    BY <2>4, KeyFacts DEF BeginCompleted
  <2>5. CASE DispatchRead(q) \/ BeginAttached(q)
    BY <2>5, KeyFacts DEF DispatchRead, BeginAttached
  <2>6. QED
    BY <1>1, <2>1, <2>2, <2>3, <2>4, <2>5 DEF Arrives
<1>2. ASSUME NEW q \in Submissions, Enters(q) PROVE TypeCore'
  <2>1. ASSUME Register(q) PROVE TypeCore'
    BY <2>1, KeyFacts DEF Register
  <2>2. ASSUME RegisterConflicts(q) PROVE TypeCore'
    BY <2>2, KeyFacts DEF RegisterConflicts
  <2>3. ASSUME Enqueue(q) PROVE TypeCore'
    BY <2>3, KeyFacts DEF Enqueue
  <2>4. ASSUME EnqueueRefused(q) PROVE TypeCore'
    BY <2>4, KeyFacts DEF EnqueueRefused
  <2>5. ASSUME EnqueueAttached(q) PROVE TypeCore'
    BY <2>5, KeyFacts DEF EnqueueAttached
  <2>6. ASSUME AttachRefused(q) PROVE TypeCore'
    BY <2>6, KeyFacts DEF AttachRefused
  <2>7. QED
    BY <1>2, <2>1, <2>2, <2>3, <2>4, <2>5, <2>6 DEF Enters
<1>3. ASSUME NEW q \in Submissions, CancelRequest(q) PROVE TypeCore'
  BY <1>3, KeyFacts DEF CancelRequest
<1>4. ASSUME NEW q \in Submissions, Executes(q) PROVE TypeCore'
  <2>1. ASSUME BeginExecution(q) PROVE TypeCore'
    BY <2>1, KeyFacts DEF BeginExecution
  <2>2. ASSUME CheckCancelled(q) PROVE TypeCore'
    BY <2>2, KeyFacts DEF CheckCancelled
  <2>3. ASSUME NEW a \in Responses, WaitCompleted(q, a) PROVE TypeCore'
    BY <2>3, KeyFacts DEF WaitCompleted
  <2>4. ASSUME SkipCancelled(q) PROVE TypeCore'
    BY <2>4, KeyFacts DEF SkipCancelled
  <2>5. ASSUME WaitTimedOut(q) PROVE TypeCore'
    BY <2>5, KeyFacts DEF WaitTimedOut
  <2>6. QED
    BY <1>4, <2>1, <2>2, <2>3, <2>4, <2>5 DEF Executes
<1>5. ASSUME NEW q \in Submissions, Handles(q) PROVE TypeCore'
  <2>1. ASSUME HandlerReturns(q) PROVE TypeCore'
    BY <2>1, KeyFacts DEF HandlerReturns
  <2>2. ASSUME ReachCommitPoint(q) PROVE TypeCore'
    BY <2>2, KeyFacts DEF ReachCommitPoint
  <2>3. ASSUME CommitDenied(q) PROVE TypeCore'
    BY <2>3, KeyFacts DEF CommitDenied
  <2>4. ASSUME NEW a \in {"applied", "unchanged", "unknown"}, HandlerEdits(q, a) PROVE TypeCore'
    BY <2>4, KeyFacts DEF HandlerEdits
  <2>5. QED
    BY <1>5, <2>1, <2>2, <2>3, <2>4 DEF Handles
<1>6. ASSUME NEW q \in Submissions, Ends(q) PROVE TypeCore'
  <2>1. ASSUME CompleteMutation(q) PROVE TypeCore'
    BY <2>1, KeyFacts DEF CompleteMutation
  <2>2. ASSUME Answer(q) PROVE TypeCore'
    BY <2>2, KeyFacts DEF Answer
  <2>3. CASE Deliver(q) \/ CancelDrained(q)
    BY <2>3, KeyFacts DEF Deliver, CancelDrained
  <2>4. QED
    BY <1>6, <2>1, <2>2, <2>3 DEF Ends
<1>7. CASE CancelAll
  BY <1>7, KeyFacts DEF CancelAll, Cancellations!CancelAll
<1>8. CASE QuietSteps
  BY <1>8, QuietIsQuiet DEF coreVars
<1>9. QED
  BY <1>1, <1>2, <1>3, <1>4, <1>5, <1>6, <1>7, <1>8, NextSteps DEF SubmissionStep

\* Who ends has an answer.
LEMMA ResponseStep ==
    ASSUME TypeCore, ResponseAgrees, [Next]_vars
    PROVE  ResponseAgrees'
<1> USE DispatcherAssumption DEF TypeCore, ResponseAgrees, EndStages, Responses, Answers,
   Refusals
<1>1. ASSUME NEW q \in Submissions, Arrives(q) PROVE ResponseAgrees'
  BY <1>1, KeyFacts DEF Arrives, RejectBusy, DispatchRead, BeginAccepted, BeginAttached,
     BeginRefused, BeginCompleted
<1>2. ASSUME NEW q \in Submissions, Enters(q) PROVE ResponseAgrees'
  BY <1>2, KeyFacts DEF Enters, Register, RegisterConflicts, Enqueue, EnqueueRefused,
     EnqueueAttached, AttachRefused
<1>3. ASSUME NEW q \in Submissions, CancelRequest(q) PROVE ResponseAgrees'
  BY <1>3, KeyFacts DEF CancelRequest
<1>4. ASSUME NEW q \in Submissions, Executes(q) PROVE ResponseAgrees'
  BY <1>4, KeyFacts DEF Executes, BeginExecution, SkipCancelled, CheckCancelled,
     WaitTimedOut, WaitCompleted
<1>5. ASSUME NEW q \in Submissions, Handles(q) PROVE ResponseAgrees'
  BY <1>5, KeyFacts DEF Handles, HandlerReturns, ReachCommitPoint, CommitDenied,
     HandlerEdits
<1>6. ASSUME NEW q \in Submissions, Ends(q) PROVE ResponseAgrees'
  BY <1>6, KeyFacts DEF Ends, CompleteMutation, Answer, Deliver, CancelDrained
<1>7. CASE CancelAll
  BY <1>7, KeyFacts DEF CancelAll, Cancellations!CancelAll
<1>8. CASE QuietSteps
  BY <1>8, QuietIsQuiet DEF coreVars
<1>9. QED
  BY <1>1, <1>2, <1>3, <1>4, <1>5, <1>6, <1>7, <1>8, NextSteps DEF SubmissionStep

\* Who registers finds no other registration of the request; who answers takes its own out.
LEMMA ActiveStep ==
    ASSUME TypeCore, ActiveInv, [Next]_vars
    PROVE  ActiveInv'
<1> USE DispatcherAssumption DEF TypeCore, ActiveInv, RegistryMatchesActive, OneActive,
   Active, GateStages, EndStages
<1>1. ASSUME NEW q \in Submissions, Arrives(q) PROVE ActiveInv'
  <2>1. ASSUME RejectBusy(q) PROVE ActiveInv'
    BY <2>1, KeyFacts DEF RejectBusy
  <2>2. ASSUME DispatchRead(q) PROVE ActiveInv'
    BY <2>2, KeyFacts DEF DispatchRead
  <2>3. ASSUME BeginAccepted(q) PROVE ActiveInv'
    BY <2>3, KeyFacts DEF BeginAccepted
  <2>4. ASSUME BeginAttached(q) PROVE ActiveInv'
    BY <2>4, KeyFacts DEF BeginAttached
  <2>5. ASSUME NEW a \in Responses, BeginRefused(q, a) PROVE ActiveInv'
    BY <2>5, KeyFacts DEF BeginRefused
  <2>6. ASSUME NEW a \in Responses, BeginCompleted(q, a) PROVE ActiveInv'
    BY <2>6, KeyFacts DEF BeginCompleted
  <2>7. QED
    BY <1>1, <2>1, <2>2, <2>3, <2>4, <2>5, <2>6 DEF Arrives
<1>2. ASSUME NEW q \in Submissions, Enters(q) PROVE ActiveInv'
  <2>1. ASSUME Register(q) PROVE ActiveInv'
    BY <2>1, KeyFacts DEF Register
  <2>2. ASSUME RegisterConflicts(q) PROVE ActiveInv'
    BY <2>2, KeyFacts DEF RegisterConflicts
  <2>3. ASSUME Enqueue(q) PROVE ActiveInv'
    BY <2>3, KeyFacts DEF Enqueue
  <2>4. ASSUME EnqueueRefused(q) PROVE ActiveInv'
    BY <2>4, KeyFacts DEF EnqueueRefused
  <2>5. ASSUME EnqueueAttached(q) PROVE ActiveInv'
    BY <2>5, KeyFacts DEF EnqueueAttached
  <2>6. ASSUME AttachRefused(q) PROVE ActiveInv'
    BY <2>6, KeyFacts DEF AttachRefused
  <2>7. QED
    BY <1>2, <2>1, <2>2, <2>3, <2>4, <2>5, <2>6 DEF Enters
<1>3. ASSUME NEW q \in Submissions, CancelRequest(q) PROVE ActiveInv'
  BY <1>3, KeyFacts DEF CancelRequest
<1>4. ASSUME NEW q \in Submissions, Executes(q) PROVE ActiveInv'
  <2>1. ASSUME BeginExecution(q) PROVE ActiveInv'
    BY <2>1, KeyFacts DEF BeginExecution
  <2>2. ASSUME SkipCancelled(q) PROVE ActiveInv'
    BY <2>2, KeyFacts DEF SkipCancelled
  <2>3. ASSUME CheckCancelled(q) PROVE ActiveInv'
    BY <2>3, KeyFacts DEF CheckCancelled
  <2>4. ASSUME WaitTimedOut(q) PROVE ActiveInv'
    BY <2>4, KeyFacts DEF WaitTimedOut
  <2>5. ASSUME NEW a \in Responses, WaitCompleted(q, a) PROVE ActiveInv'
    BY <2>5, KeyFacts DEF WaitCompleted
  <2>6. QED
    BY <1>4, <2>1, <2>2, <2>3, <2>4, <2>5 DEF Executes
<1>5. ASSUME NEW q \in Submissions, Handles(q) PROVE ActiveInv'
  <2>1. ASSUME HandlerReturns(q) PROVE ActiveInv'
    BY <2>1, KeyFacts DEF HandlerReturns
  <2>2. ASSUME ReachCommitPoint(q) PROVE ActiveInv'
    BY <2>2, KeyFacts DEF ReachCommitPoint
  <2>3. ASSUME CommitDenied(q) PROVE ActiveInv'
    BY <2>3, KeyFacts DEF CommitDenied
  <2>4. ASSUME NEW a \in {"applied", "unchanged", "unknown"}, HandlerEdits(q, a) PROVE ActiveInv'
    BY <2>4, KeyFacts DEF HandlerEdits
  <2>5. QED
    BY <1>5, <2>1, <2>2, <2>3, <2>4 DEF Handles
<1>6. ASSUME NEW q \in Submissions, Ends(q) PROVE ActiveInv'
  <2>1. ASSUME CompleteMutation(q) PROVE ActiveInv'
    BY <2>1, KeyFacts DEF CompleteMutation
  <2>2. ASSUME Answer(q) PROVE ActiveInv'
    BY <2>2, KeyFacts DEF Answer
  <2>3. ASSUME Deliver(q) PROVE ActiveInv'
    BY <2>3, KeyFacts DEF Deliver
  <2>4. ASSUME CancelDrained(q) PROVE ActiveInv'
    <3>1. stage'[q] \in Active <=> stage[q] \in Active
      BY <2>4 DEF CancelDrained
    <3>2. /\ \A p \in Submissions : stage'[p] \in Active <=> stage[p] \in Active
          /\ registry' = registry
      BY <2>4, <3>1 DEF CancelDrained
    <3>3. QED
      BY <3>2
  <2>5. QED
    BY <1>6, <2>1, <2>2, <2>3, <2>4 DEF Ends
<1>7. CASE CancelAll
  <2>1. DOMAIN registry' = DOMAIN registry /\ stage' = stage
    BY <1>7 DEF CancelAll, Cancellations!CancelAll
  <2>2. QED
    BY <2>1
<1>8. CASE QuietSteps
  BY <1>8, QuietIsQuiet DEF coreVars
<1>9. QED
  BY <1>1, <1>2, <1>3, <1>4, <1>5, <1>6, <1>7, <1>8, NextSteps DEF SubmissionStep

\* A key is accepted once, since its phase is never "new" again.
LEMMA OwnerStep ==
    ASSUME TypeCore, OneOwner, StageAgrees, [Next]_vars
    PROVE  OneOwner'
<1> USE DispatcherAssumption DEF TypeCore, OneOwner, StageAgrees, OwnerStages, Active,
   GateStages, EndStages
<1>1. ASSUME NEW q \in Submissions, Arrives(q) PROVE OneOwner'
  BY <1>1, KeyFacts DEF Arrives, RejectBusy, DispatchRead, BeginAccepted, BeginAttached,
     BeginRefused, BeginCompleted
<1>2. ASSUME NEW q \in Submissions, Enters(q) PROVE OneOwner'
  BY <1>2, KeyFacts DEF Enters, Register, RegisterConflicts, Enqueue, EnqueueRefused,
     EnqueueAttached, AttachRefused
<1>3. ASSUME NEW q \in Submissions, CancelRequest(q) PROVE OneOwner'
  BY <1>3, KeyFacts DEF CancelRequest
<1>4. ASSUME NEW q \in Submissions, Executes(q) PROVE OneOwner'
  BY <1>4, KeyFacts DEF Executes, BeginExecution, SkipCancelled, CheckCancelled,
     WaitTimedOut, WaitCompleted
<1>5. ASSUME NEW q \in Submissions, Handles(q) PROVE OneOwner'
  BY <1>5, KeyFacts DEF Handles, HandlerReturns, ReachCommitPoint, CommitDenied,
     HandlerEdits
<1>6. ASSUME NEW q \in Submissions, Ends(q) PROVE OneOwner'
  BY <1>6, KeyFacts DEF Ends, CompleteMutation, Answer, Deliver, CancelDrained
<1>7. CASE CancelAll
  BY <1>7, KeyFacts DEF CancelAll, Cancellations!CancelAll
<1>8. CASE QuietSteps
  BY <1>8, QuietIsQuiet DEF coreVars
<1>9. QED
  BY <1>1, <1>2, <1>3, <1>4, <1>5, <1>6, <1>7, <1>8, NextSteps DEF SubmissionStep

\* Phase, answer and edits of a key go together.
LEMMA LedgerStep ==
    ASSUME TypeCore, LedgerAgrees, StageAgrees, ResponseAgrees, OnlyEdits, [Next]_vars
    PROVE  LedgerAgrees'
<1> USE DispatcherAssumption DEF TypeCore, LedgerAgrees, StageAgrees, ResponseAgrees,
   OnlyEdits, Fits, EndStages, Responses, Answers, Refusals
<1>1. ASSUME NEW q \in Submissions, Arrives(q) PROVE LedgerAgrees'
  BY <1>1, KeyFacts DEF Arrives, RejectBusy, DispatchRead, BeginAccepted, BeginAttached,
     BeginRefused, BeginCompleted
<1>2. ASSUME NEW q \in Submissions, Enters(q) PROVE LedgerAgrees'
  BY <1>2, KeyFacts DEF Enters, Register, RegisterConflicts, Enqueue, EnqueueRefused,
     EnqueueAttached, AttachRefused
<1>3. ASSUME NEW q \in Submissions, CancelRequest(q) PROVE LedgerAgrees'
  BY <1>3, KeyFacts DEF CancelRequest
<1>4. ASSUME NEW q \in Submissions, Executes(q) PROVE LedgerAgrees'
  BY <1>4, KeyFacts DEF Executes, BeginExecution, SkipCancelled, CheckCancelled,
     WaitTimedOut, WaitCompleted
<1>5. ASSUME NEW q \in Submissions, Handles(q) PROVE LedgerAgrees'
  BY <1>5, KeyFacts DEF Handles, HandlerReturns, ReachCommitPoint, CommitDenied,
     HandlerEdits
<1>6. ASSUME NEW q \in Submissions, Ends(q) PROVE LedgerAgrees'
  BY <1>6, KeyFacts DEF Ends, CompleteMutation, Answer, Deliver, CancelDrained
<1>7. CASE CancelAll
  BY <1>7, KeyFacts DEF CancelAll, Cancellations!CancelAll
<1>8. CASE QuietSteps
  BY <1>8, QuietIsQuiet DEF coreVars
<1>9. QED
  BY <1>1, <1>2, <1>3, <1>4, <1>5, <1>6, <1>7, <1>8, NextSteps DEF SubmissionStep

\* The owner of a key, and whoever attached to it, agree with its phase.
LEMMA StageStep ==
    ASSUME TypeCore, LedgerAgrees, StageAgrees, ResponseAgrees, OnlyEdits, OneOwner, [Next]_vars
    PROVE  StageAgrees'
<1> USE DispatcherAssumption DEF TypeCore, LedgerAgrees, StageAgrees, ResponseAgrees,
   OnlyEdits, OneOwner, OwnerStages, Active, GateStages, Fits, EndStages, Responses,
   Answers, Refusals
<1>1. ASSUME NEW q \in Submissions, Arrives(q) PROVE StageAgrees'
  BY <1>1, KeyFacts DEF Arrives, RejectBusy, DispatchRead, BeginAccepted, BeginAttached,
     BeginRefused, BeginCompleted
<1>2. ASSUME NEW q \in Submissions, Enters(q) PROVE StageAgrees'
  BY <1>2, KeyFacts DEF Enters, Register, RegisterConflicts, Enqueue, EnqueueRefused,
     EnqueueAttached, AttachRefused
<1>3. ASSUME NEW q \in Submissions, CancelRequest(q) PROVE StageAgrees'
  BY <1>3, KeyFacts DEF CancelRequest
<1>4. ASSUME NEW q \in Submissions, Executes(q) PROVE StageAgrees'
  BY <1>4, KeyFacts DEF Executes, BeginExecution, SkipCancelled, CheckCancelled,
     WaitTimedOut, WaitCompleted
<1>5. ASSUME NEW q \in Submissions, Handles(q) PROVE StageAgrees'
  BY <1>5, KeyFacts DEF Handles, HandlerReturns, ReachCommitPoint, CommitDenied,
     HandlerEdits
<1>6. ASSUME NEW q \in Submissions, Ends(q) PROVE StageAgrees'
  BY <1>6, KeyFacts DEF Ends, CompleteMutation, Answer, Deliver, CancelDrained
<1>7. CASE CancelAll
  BY <1>7, KeyFacts DEF CancelAll, Cancellations!CancelAll
<1>8. CASE QuietSteps
  BY <1>8, QuietIsQuiet DEF coreVars
<1>9. QED
  BY <1>1, <1>2, <1>3, <1>4, <1>5, <1>6, <1>7, <1>8, NextSteps DEF SubmissionStep

\* A Cancel changes a state that the commit point then refuses, or finds it passed.
LEMMA RegistryStep ==
    ASSUME TypeCore, RegistryAgrees, OneActive, OneOwner, LedgerAgrees, StageAgrees,
       RegistryMatchesActive, ResponseAgrees, OnlyEdits, [Next]_vars
    PROVE  RegistryAgrees'
<1> USE DispatcherAssumption DEF TypeCore, RegistryAgrees, OneActive, OneOwner, OwnerStages,
   LedgerAgrees, StageAgrees, RegistryMatchesActive, ResponseAgrees, OnlyEdits, Fits,
   Active, GateStages, EndStages
<1>1. ASSUME NEW q \in Submissions, Arrives(q) PROVE RegistryAgrees'
  BY <1>1, KeyFacts DEF Arrives, RejectBusy, DispatchRead, BeginAccepted, BeginAttached,
     BeginRefused, BeginCompleted
<1>2. ASSUME NEW q \in Submissions, Enters(q) PROVE RegistryAgrees'
  BY <1>2, KeyFacts DEF Enters, Register, RegisterConflicts, Enqueue, EnqueueRefused,
     EnqueueAttached, AttachRefused
<1>3. ASSUME NEW q \in Submissions, CancelRequest(q) PROVE RegistryAgrees'
  BY <1>3, KeyFacts DEF CancelRequest
<1>4. ASSUME NEW q \in Submissions, Executes(q) PROVE RegistryAgrees'
  BY <1>4, KeyFacts DEF Executes, BeginExecution, SkipCancelled, CheckCancelled,
     WaitTimedOut, WaitCompleted
<1>5. ASSUME NEW q \in Submissions, Handles(q) PROVE RegistryAgrees'
  BY <1>5, KeyFacts DEF Handles, HandlerReturns, ReachCommitPoint, CommitDenied,
     HandlerEdits
<1>6. ASSUME NEW q \in Submissions, Ends(q) PROVE RegistryAgrees'
  BY <1>6, KeyFacts DEF Ends, CompleteMutation, Answer, Deliver, CancelDrained
<1>7. CASE CancelAll
  <2>1. /\ UNCHANGED <<ledgerVars, stage, response, edits>>
        /\ \A r \in DOMAIN registry :
              registry'[r] = IF registry[r] = "committed" THEN "committed" ELSE "cancelled"
    BY <1>7 DEF CancelAll, Cancellations!CancelAll
  <2>2. \A q \in Submissions : stage[q] \in Active => Request(q) \in DOMAIN registry
    OBVIOUS
  <2>3. QED
    BY <2>1, <2>2
<1>8. CASE QuietSteps
  BY <1>8, QuietIsQuiet DEF coreVars
<1>9. QED
  BY <1>1, <1>2, <1>3, <1>4, <1>5, <1>6, <1>7, <1>8, NextSteps DEF SubmissionStep

\* Once a key is completed its answer stays, so whoever was told it was told the same.
LEMMA ResendsStep ==
    ASSUME TypeCore, ResendsAgree, StageAgrees, LedgerAgrees, OnlyEdits, [Next]_vars
    PROVE  ResendsAgree'
<1> USE DispatcherAssumption DEF TypeCore, ResendsAgree, StageAgrees, LedgerAgrees,
   OnlyEdits, Answered, EndStages, Responses, Answers, Refusals
<1>1. ASSUME NEW q \in Submissions, Arrives(q) PROVE ResendsAgree'
  BY <1>1, KeyFacts DEF Arrives, RejectBusy, DispatchRead, BeginAccepted, BeginAttached,
     BeginRefused, BeginCompleted
<1>2. ASSUME NEW q \in Submissions, Enters(q) PROVE ResendsAgree'
  BY <1>2, KeyFacts DEF Enters, Register, RegisterConflicts, Enqueue, EnqueueRefused,
     EnqueueAttached, AttachRefused
<1>3. ASSUME NEW q \in Submissions, CancelRequest(q) PROVE ResendsAgree'
  BY <1>3, KeyFacts DEF CancelRequest
<1>4. ASSUME NEW q \in Submissions, Executes(q) PROVE ResendsAgree'
  BY <1>4, KeyFacts DEF Executes, BeginExecution, SkipCancelled, CheckCancelled,
     WaitTimedOut, WaitCompleted
<1>5. ASSUME NEW q \in Submissions, Handles(q) PROVE ResendsAgree'
  BY <1>5, KeyFacts DEF Handles, HandlerReturns, ReachCommitPoint, CommitDenied,
     HandlerEdits
<1>6. ASSUME NEW q \in Submissions, Ends(q) PROVE ResendsAgree'
  BY <1>6, KeyFacts DEF Ends, CompleteMutation, Answer, Deliver, CancelDrained
<1>7. CASE CancelAll
  BY <1>7, KeyFacts DEF CancelAll, Cancellations!CancelAll
<1>8. CASE QuietSteps
  BY <1>8, QuietIsQuiet DEF coreVars
<1>9. QED
  BY <1>1, <1>2, <1>3, <1>4, <1>5, <1>6, <1>7, <1>8, NextSteps DEF SubmissionStep

-----------------------------------------------------------------------------
(* The gate and the stop of the server *)

\* The gate changes by its own operations only.
GateStep ==
    \/ \E q \in Submissions : Gate!TryEnqueue(q)
    \/ Gate!Take \/ Gate!Executed \/ Gate!Drain \/ Gate!CancelOne \/ UNCHANGED gateVars
LEMMA NextIsGateStep == [Next]_vars => GateStep
<1> SUFFICES ASSUME [Next]_vars PROVE GateStep
  OBVIOUS
<1> USE DEF GateStep
<1>1. ASSUME NEW q \in Submissions, Answer(q) PROVE GateStep
  <2>1. CASE running = q /\ ~Draining(q)
    BY <1>1, <2>1 DEF Answer
  <2>2. CASE running # q /\ Draining(q)
    BY <1>1, <2>2 DEF Answer
  <2>3. CASE running # q /\ ~Draining(q)
    BY <1>1, <2>3 DEF Answer
  <2>4. CASE running = q /\ Draining(q)
    BY <1>1, <2>4 DEF Answer
  <2>5. QED
    BY <2>1, <2>2, <2>3, <2>4
<1>2. ASSUME NEW q \in Submissions, SubmissionStep(q), ~Answer(q) PROVE GateStep
  BY <1>2 DEF SubmissionStep, Arrives, Enters, Executes, Handles, Ends, RejectBusy,
     DispatchRead, BeginAccepted, BeginAttached, BeginRefused, BeginCompleted, Register,
     RegisterConflicts, Enqueue, EnqueueRefused, EnqueueAttached, AttachRefused,
     CancelRequest, BeginExecution, SkipCancelled, HandlerReturns, ReachCommitPoint,
     CommitDenied, HandlerEdits, CheckCancelled, WaitTimedOut, WaitCompleted,
     CompleteMutation, Deliver, CancelDrained
<1>3. CASE CancelAll
  BY <1>3 DEF CancelAll
<1>4. CASE QuietSteps
  BY <1>4 DEF QuietSteps, Close, TakeCommand, StopServer, DrainGate, JoinGate,
     JoinAsyncWorkers, vars
<1>5. QED
  BY <1>1, <1>2, <1>3, <1>4, NextSteps

\* What Head and Tail return, of a sequence that has one.
LEMMA HeadAndTail ==
    ASSUME NEW S, NEW s \in Seq(S), s # <<>>
    PROVE  Head(s) \in S /\ Tail(s) \in Seq(S) /\ Len(Tail(s)) = Len(s) - 1 /\ Len(s) \in Nat
OBVIOUS

\* The gate keeps its capacity.
LEMMA ShellStep ==
    ASSUME TypeShell, [Next]_vars
    PROVE  TypeShell'
<1>1. Gate!TypeOK'
  <2> USE DEF Gate!TypeOK
  <2>1. Gate!TypeOK /\ MaxDepth \in Nat
    BY DispatcherAssumption DEF TypeShell
  <2>2. ASSUME NEW q \in Submissions, Gate!TryEnqueue(q) PROVE Gate!TypeOK'
    <3>1. queue' = Append(queue, q) /\ Len(queue) < MaxDepth
      BY <2>1, <2>2 DEF Gate!TryEnqueue, Gate!Refused
    <3>2. queue' \in Seq(Submissions) /\ Len(queue') = Len(queue) + 1
      BY <2>1, <3>1
    <3>3. QED
      BY <2>1, <2>2, <3>1, <3>2 DEF Gate!TryEnqueue
  <2>3. CASE Gate!Take
    <3>1. Head(queue) \in Submissions /\ Tail(queue) \in Seq(Submissions)
          /\ Len(Tail(queue)) <= Len(queue)
      BY <2>1, <2>3, HeadAndTail DEF Gate!Take
    <3>2. QED
      BY <2>1, <2>3, <3>1 DEF Gate!Take
  <2>4. CASE Gate!Executed \/ UNCHANGED gateVars
    BY <2>1, <2>4 DEF Gate!Executed, gateVars
  <2>5. CASE Gate!Drain
    <3>1. queue' = <<>> /\ drained' = queue /\ running' = running /\ stopping' = TRUE
      BY <2>5 DEF Gate!Drain
    <3>2. <<>> \in Seq(Submissions) /\ Len(<<>>) = 0
      OBVIOUS
    <3>3. QED
      BY <2>1, <3>1, <3>2
  <2>6. CASE Gate!CancelOne
    <3>1. Tail(drained) \in Seq(Submissions)
      BY <2>1, <2>6, HeadAndTail DEF Gate!CancelOne
    <3>2. QED
      BY <2>1, <2>6, <3>1 DEF Gate!CancelOne
  <2>7. QED
    BY <2>2, <2>3, <2>4, <2>5, <2>6, NextIsGateStep DEF GateStep
<1>2. /\ open' \subseteq Sessions
      /\ shutdown' \in {"no", "joining sessions", "stopping gate", "draining",
                        "joining workers", "done"}
  BY ZenonT(30) DEF TypeShell, Next, Arrives, Dispatches, Handles, Works, Worker, Stops, Stopped, vars,
     RejectBusy, DispatchRead, BeginAccepted, BeginAttached, BeginRefused, BeginCompleted,
     Register, RegisterConflicts, Enqueue, EnqueueRefused, EnqueueAttached, AttachRefused,
     CancelRequest, BeginExecution, SkipCancelled, HandlerReturns, ReachCommitPoint,
     CommitDenied, HandlerEdits, CheckCancelled, WaitTimedOut, WaitCompleted,
     CompleteMutation, Answer, Deliver, CancelDrained, Close, TakeCommand, StopServer,
     DrainGate, JoinGate, JoinAsyncWorkers, CancelAll
<1>3. QED
  BY <1>1, <1>2 DEF TypeShell
\* A gate that was joined stays empty, and when no request is on its way none can come.
LEMMA StopStep ==
    ASSUME StopInv, TypeCore, [Next]_vars
    PROVE  StopInv'
<1>1. Gate!Joinable => Gate!Joinable'
  BY NextIsGateStep DEF GateStep, Gate!Joinable, Gate!TryEnqueue, Gate!Refused, Gate!Take,
     Gate!Executed, Gate!Drain, Gate!CancelOne, gateVars
<1>2. ASSUME NEW q \in Submissions, SubmissionStep(q)
      PROVE  shutdown' = shutdown /\ (stage[q] \in {"unsent", "delivered"} => shutdown = "no")
  BY <1>2 DEF SubmissionStep, Arrives, Enters, Executes, Handles, Ends, RejectBusy,
     DispatchRead, BeginAccepted, BeginAttached, BeginRefused, BeginCompleted, Register,
     RegisterConflicts, Enqueue, EnqueueRefused, EnqueueAttached, AttachRefused,
     CancelRequest, BeginExecution, SkipCancelled, HandlerReturns, ReachCommitPoint,
     CommitDenied, HandlerEdits, CheckCancelled, WaitTimedOut, WaitCompleted,
     CompleteMutation, Answer, Deliver, CancelDrained, Admits, Receives, Runs
<1>3. CASE QuietSteps \/ CancelAll
  BY <1>1, <1>3 DEF StopInv, QuietSteps, CancelAll, Close, TakeCommand, StopServer,
     DrainGate, JoinGate, JoinAsyncWorkers, vars
<1>4. CASE \E q \in Submissions : SubmissionStep(q)
  BY <1>1, <1>2, <1>4 DEF StopInv
<1>5. QED
  BY <1>3, <1>4, NextSteps

-----------------------------------------------------------------------------
(* What depends on a request id belonging to one client *)

\* After "cancelled": the registration is cancelled until it is gone, and no other follows.
LEMMA CancelSticksStep ==
    ASSUME OwnRequestIds, TypeCore, RegistryAgrees, OneActive, OneOwner, LedgerAgrees,
       StageAgrees, RegistryMatchesActive, ResponseAgrees, OnlyEdits, CancelSticks, [Next]_vars
    PROVE  CancelSticks'
<1> USE DispatcherAssumption DEF TypeCore, RegistryAgrees, OneActive, OneOwner, OwnerStages,
   LedgerAgrees, StageAgrees, RegistryMatchesActive, ResponseAgrees, OnlyEdits, Told,
   NoneAccepted, Active, GateStages, EndStages, OwnRequestIds, CancelSticks
<1>1. ASSUME NEW q \in Submissions, Arrives(q) PROVE CancelSticks'
  BY <1>1, KeyFacts, OwnIdsGiveKeys DEF Arrives, RejectBusy, DispatchRead, BeginAccepted,
     BeginAttached, BeginRefused, BeginCompleted
<1>2. ASSUME NEW q \in Submissions, Enters(q) PROVE CancelSticks'
  BY <1>2, KeyFacts, OwnIdsGiveKeys DEF Enters, Register, RegisterConflicts, Enqueue,
     EnqueueRefused, EnqueueAttached, AttachRefused
<1>3. ASSUME NEW q \in Submissions, CancelRequest(q) PROVE CancelSticks'
  BY <1>3, KeyFacts, OwnIdsGiveKeys DEF CancelRequest
<1>4. ASSUME NEW q \in Submissions, Executes(q) PROVE CancelSticks'
  BY <1>4, KeyFacts, OwnIdsGiveKeys DEF Executes, BeginExecution, SkipCancelled,
     CheckCancelled, WaitTimedOut, WaitCompleted
<1>5. ASSUME NEW q \in Submissions, Handles(q) PROVE CancelSticks'
  BY <1>5, KeyFacts, OwnIdsGiveKeys DEF Handles, HandlerReturns, ReachCommitPoint,
     CommitDenied, HandlerEdits
<1>6. ASSUME NEW q \in Submissions, Ends(q) PROVE CancelSticks'
  <2>1. ASSUME CompleteMutation(q) PROVE CancelSticks'
    BY <2>1, KeyFacts, OwnIdsGiveKeys DEF CompleteMutation
  <2>2. ASSUME Answer(q) PROVE CancelSticks'
    BY <2>2, KeyFacts, OwnIdsGiveKeys DEF Answer
  <2>3. CASE Deliver(q) \/ CancelDrained(q)
    BY <2>3, KeyFacts, OwnIdsGiveKeys DEF Deliver, CancelDrained
  <2>4. QED
    BY <1>6, <2>1, <2>2, <2>3 DEF Ends
<1>7. CASE CancelAll
  BY <1>7, KeyFacts, OwnIdsGiveKeys DEF CancelAll, Cancellations!CancelAll
<1>8. CASE QuietSteps
  BY <1>8, QuietIsQuiet DEF coreVars
<1>9. QED
  BY <1>1, <1>2, <1>3, <1>4, <1>5, <1>6, <1>7, <1>8, NextSteps DEF SubmissionStep

\* After "tooLate": the commit point stays passed until the answer is known.
LEMMA TooLateSticksStep ==
    ASSUME OwnRequestIds, TypeCore, RegistryAgrees, OneActive, OneOwner, LedgerAgrees,
       StageAgrees, RegistryMatchesActive, ResponseAgrees, OnlyEdits, TooLateSticks, [Next]_vars
    PROVE  TooLateSticks'
<1> USE DispatcherAssumption DEF TypeCore, RegistryAgrees, OneActive, OneOwner, OwnerStages,
   LedgerAgrees, StageAgrees, RegistryMatchesActive, ResponseAgrees, OnlyEdits, Told,
   NoneAccepted, Active, GateStages, EndStages, OwnRequestIds, TooLateSticks, Responses,
   Answers, Refusals
<1>1. ASSUME NEW q \in Submissions, Arrives(q) PROVE TooLateSticks'
  BY <1>1, KeyFacts, OwnIdsGiveKeys DEF Arrives, RejectBusy, DispatchRead, BeginAccepted,
     BeginAttached, BeginRefused, BeginCompleted
<1>2. ASSUME NEW q \in Submissions, Enters(q) PROVE TooLateSticks'
  BY <1>2, KeyFacts, OwnIdsGiveKeys DEF Enters, Register, RegisterConflicts, Enqueue,
     EnqueueRefused, EnqueueAttached, AttachRefused
<1>3. ASSUME NEW q \in Submissions, CancelRequest(q) PROVE TooLateSticks'
  BY <1>3, KeyFacts, OwnIdsGiveKeys DEF CancelRequest
<1>4. ASSUME NEW q \in Submissions, Executes(q) PROVE TooLateSticks'
  BY <1>4, KeyFacts, OwnIdsGiveKeys DEF Executes, BeginExecution, SkipCancelled,
     CheckCancelled, WaitTimedOut, WaitCompleted
<1>5. ASSUME NEW q \in Submissions, Handles(q) PROVE TooLateSticks'
  BY <1>5, KeyFacts, OwnIdsGiveKeys DEF Handles, HandlerReturns, ReachCommitPoint,
     CommitDenied, HandlerEdits
<1>6. ASSUME NEW q \in Submissions, Ends(q) PROVE TooLateSticks'
  BY <1>6, KeyFacts, OwnIdsGiveKeys DEF Ends, CompleteMutation, Answer, Deliver,
     CancelDrained
<1>7. CASE CancelAll
  BY ZenonT(30), <1>7, KeyFacts, OwnIdsGiveKeys DEF CancelAll, Cancellations!CancelAll
<1>8. CASE QuietSteps
  BY <1>8, QuietIsQuiet DEF coreVars
<1>9. QED
  BY <1>1, <1>2, <1>3, <1>4, <1>5, <1>6, <1>7, <1>8, NextSteps DEF SubmissionStep

\* An edit never meets another registration of its request, so no key loses its owner.
LEMMA InFlightStep ==
    ASSUME OwnRequestIds, TypeCore, RegistryAgrees, OneActive, OneOwner, LedgerAgrees,
       StageAgrees, RegistryMatchesActive, ResponseAgrees, OnlyEdits, InFlightHasOwner,
       [Next]_vars
    PROVE  InFlightHasOwner'
<1> USE DispatcherAssumption DEF TypeCore, RegistryAgrees, OneActive, OneOwner, OwnerStages,
   LedgerAgrees, StageAgrees, RegistryMatchesActive, ResponseAgrees, OnlyEdits, Told,
   NoneAccepted, Active, GateStages, EndStages, OwnRequestIds, InFlightHasOwner
<1>1. ASSUME NEW q \in Submissions, Arrives(q) PROVE InFlightHasOwner'
  BY <1>1, KeyFacts, OwnIdsGiveKeys DEF Arrives, RejectBusy, DispatchRead, BeginAccepted,
     BeginAttached, BeginRefused, BeginCompleted
<1>2. ASSUME NEW q \in Submissions, Enters(q) PROVE InFlightHasOwner'
  <2>1. ASSUME Register(q) PROVE InFlightHasOwner'
    BY <2>1, KeyFacts, OwnIdsGiveKeys DEF Register
  <2>2. ASSUME RegisterConflicts(q) PROVE InFlightHasOwner'
    <3>1. ~IsEdit(q)
      <4> SUFFICES ASSUME IsEdit(q) PROVE FALSE
        OBVIOUS
      <4>1. PICK p \in Submissions : stage[p] \in Active /\ Request(p) = Request(q)
        BY <2>2 DEF RegisterConflicts
      <4>2. Key(p) = Key(q) /\ IsEdit(p)
        BY <4>1, KeyFacts, OwnIdsGiveKeys
      <4>3. p = q
        BY <2>2, <4>1, <4>2 DEF RegisterConflicts
      <4>4. QED
        BY <2>2, <4>1, <4>3 DEF RegisterConflicts
    <3>2. Key(q) \notin Keys /\ \A p \in Submissions \ {q} : stage'[p] = stage[p]
      BY <2>2, <3>1, EditKeys DEF RegisterConflicts
    <3>3. phase' = phase
      BY <2>2 DEF RegisterConflicts
    <3>4. QED
      BY <3>2, <3>3
  <2>3. ASSUME Enqueue(q) PROVE InFlightHasOwner'
    BY <2>3, KeyFacts, OwnIdsGiveKeys DEF Enqueue
  <2>4. ASSUME EnqueueRefused(q) PROVE InFlightHasOwner'
    BY <2>4, KeyFacts, OwnIdsGiveKeys DEF EnqueueRefused
  <2>5. ASSUME EnqueueAttached(q) PROVE InFlightHasOwner'
    BY <2>5, KeyFacts, OwnIdsGiveKeys DEF EnqueueAttached
  <2>6. ASSUME AttachRefused(q) PROVE InFlightHasOwner'
    BY <2>6, KeyFacts, OwnIdsGiveKeys DEF AttachRefused
  <2>7. QED
    BY <1>2, <2>1, <2>2, <2>3, <2>4, <2>5, <2>6 DEF Enters
<1>3. ASSUME NEW q \in Submissions, CancelRequest(q) PROVE InFlightHasOwner'
  BY <1>3, KeyFacts, OwnIdsGiveKeys DEF CancelRequest
<1>4. ASSUME NEW q \in Submissions, Executes(q) PROVE InFlightHasOwner'
  BY <1>4, KeyFacts, OwnIdsGiveKeys DEF Executes, BeginExecution, SkipCancelled,
     CheckCancelled, WaitTimedOut, WaitCompleted
<1>5. ASSUME NEW q \in Submissions, Handles(q) PROVE InFlightHasOwner'
  BY <1>5, KeyFacts, OwnIdsGiveKeys DEF Handles, HandlerReturns, ReachCommitPoint,
     CommitDenied, HandlerEdits
<1>6. ASSUME NEW q \in Submissions, Ends(q) PROVE InFlightHasOwner'
  <2>1. ASSUME CompleteMutation(q) PROVE InFlightHasOwner'
    BY <2>1, KeyFacts, OwnIdsGiveKeys DEF CompleteMutation
  <2>2. ASSUME Answer(q) PROVE InFlightHasOwner'
    <3>1. stage[q] = "completed" \/ Key(q) \notin Keys
      BY <2>2, EditKeys DEF Answer
    <3>2. phase' = phase /\ \A p \in Submissions \ {q} : stage'[p] = stage[p]
      BY <2>2 DEF Answer
    <3>3. QED
      BY <3>1, <3>2
  <2>3. ASSUME Deliver(q) PROVE InFlightHasOwner'
    BY <2>3, KeyFacts, OwnIdsGiveKeys DEF Deliver
  <2>4. ASSUME CancelDrained(q) PROVE InFlightHasOwner'
    <3>1. phase' = phase /\ \A p \in Submissions \ {q} : stage'[p] = stage[p]
      BY <2>4 DEF CancelDrained
    <3>2. stage'[q] = "ending" \/ stage[q] = "attached"
      BY <2>4 DEF CancelDrained
    <3>3. QED
      BY <3>1, <3>2
  <2>5. QED
    BY <1>6, <2>1, <2>2, <2>3, <2>4 DEF Ends
<1>7. CASE CancelAll
  BY <1>7, KeyFacts, OwnIdsGiveKeys DEF CancelAll, Cancellations!CancelAll
<1>8. CASE QuietSteps
  BY <1>8, QuietIsQuiet DEF coreVars
<1>9. QED
  BY <1>1, <1>2, <1>3, <1>4, <1>5, <1>6, <1>7, <1>8, NextSteps DEF SubmissionStep

-----------------------------------------------------------------------------
(* The theorems that need no assumption on request ids *)

LEMMA InitCore == Init => CoreInv /\ StopInv
<1> SUFFICES ASSUME Init PROVE CoreInv /\ StopInv
  OBVIOUS
<1> USE DispatcherAssumption DEF Init, Ledger!Init, Cancellations!Init, Gate!Init
<1>1. TypeCore
  BY DEF TypeCore, Cancellations!TypeOK, Stages, Responses
<1>2. TypeShell
  <2>1. <<>> \in Seq(Submissions) /\ Len(<<>>) <= MaxDepth
    OBVIOUS
  <2>2. QED
    BY <2>1 DEF TypeShell, Gate!TypeOK
<1>3. RegistryMatchesActive /\ OneActive /\ OneOwner
  BY DEF RegistryMatchesActive, OneActive, OneOwner, OwnerStages, Active, GateStages, EndStages
<1>4. LedgerAgrees /\ StageAgrees /\ OnlyEdits /\ ResponseAgrees /\ RegistryAgrees
  BY DEF LedgerAgrees, StageAgrees, OnlyEdits, ResponseAgrees, RegistryAgrees, EndStages
<1>5. ResendsAgree /\ StopInv
  BY DEF ResendsAgree, Answered, StopInv
<1>6. QED
  BY <1>1, <1>2, <1>3, <1>4, <1>5 DEF CoreInv

LEMMA CoreStep == CoreInv /\ StopInv /\ [Next]_vars => CoreInv' /\ StopInv'
<1> SUFFICES ASSUME CoreInv, StopInv, [Next]_vars PROVE CoreInv' /\ StopInv'
  OBVIOUS
<1>1. TypeCore' /\ TypeShell' /\ OnlyEdits' /\ ResponseAgrees'
  BY TypeStep, ShellStep, OnlyEditsStep, ResponseStep DEF CoreInv
<1>2. RegistryMatchesActive' /\ OneActive' /\ OneOwner'
  BY ActiveStep, OwnerStep DEF CoreInv, ActiveInv
<1>3. LedgerAgrees' /\ StageAgrees' /\ RegistryAgrees' /\ ResendsAgree'
  BY LedgerStep, StageStep, RegistryStep, ResendsStep DEF CoreInv
<1>4. StopInv'
  BY StopStep DEF CoreInv
<1>5. QED
  BY <1>1, <1>2, <1>3, <1>4 DEF CoreInv

LEMMA CoreHolds == Spec => [](CoreInv /\ StopInv)
BY InitCore, CoreStep, PTL DEF Spec

\* Every variable keeps its shape, and the gate its capacity.
THEOREM TypeCorrect == Spec => []TypeOK
<1>1. CoreInv => TypeOK
  BY DEF CoreInv, TypeCore, TypeShell, TypeOK
<1>2. QED
  BY <1>1, CoreHolds, PTL

\* However often and over whichever connections a request is sent, it changes the project
\* once at most, and not at all if mutations_ keeps an answer that was given in place of the
\* handler's: cancelled, stopping or busy.
THEOREM EditedOnce == Spec => []EditedOnceAtMost
<1>1. CoreInv => EditedOnceAtMost
  <2> SUFFICES ASSUME CoreInv, NEW k \in Keys
               PROVE  /\ edits[k] <= 1
                      /\ answer[k] \in {"operation_cancelled", "bridge_stopping", "bridge_busy"}
                            => edits[k] = 0
    BY DEF EditedOnceAtMost
  <2>1. /\ phase[k] \in {"new", "queued", "executing", "completed"}
        /\ edits[k] \in Nat /\ NoAnswer \notin Answers
    BY DispatcherAssumption DEF CoreInv, TypeCore
  <2>2. QED
    BY <2>1 DEF CoreInv, LedgerAgrees, Fits, Answers
<1>2. QED
  BY <1>1, CoreHolds, PTL

\* Everybody who is told a result of a request by dispatch or wait_for_completion is told the
\* same one.
THEOREM ResendsToldTheSame == Spec => []ResendsAgree
<1>1. CoreInv => ResendsAgree
  BY DEF CoreInv
<1>2. QED
  BY <1>1, CoreHolds, PTL

\* cancellations_ holds the requests between register_request and complete, and no other.
THEOREM RegistryExact == Spec => []RegistryMatchesActive
<1>1. CoreInv => RegistryMatchesActive
  BY DEF CoreInv
<1>2. QED
  BY <1>1, CoreHolds, PTL

\* The dispatcher drives the store as the ledger allows: every step it takes is a step of the
\* ledger or leaves it alone.
THEOREM DispatcherFollowsLedger == Spec => FollowsLedger
<1>1. Init => Ledger!Init
  BY DEF Init
<1>2. CoreInv /\ [Next]_vars => [Ledger!Next]_(Ledger!ledgerVars)
  <2> SUFFICES ASSUME CoreInv, [Next]_vars PROVE [Ledger!Next]_(Ledger!ledgerVars)
    OBVIOUS
  <2> USE DEF Ledger!Next, Ledger!ledgerVars, ledgerVars
  <2>1. CASE UNCHANGED ledgerVars
    BY <2>1
  <2>2. ASSUME NEW q \in Submissions, BeginAccepted(q) PROVE Ledger!Next
    BY <2>2, KeyFacts DEF BeginAccepted
  <2>3. ASSUME NEW q \in Submissions, NEW a \in Responses, BeginCompleted(q, a) PROVE Ledger!Next
    BY <2>3, KeyFacts DEF BeginCompleted
  <2>4. ASSUME NEW q \in Submissions, NEW a \in Responses, WaitCompleted(q, a) PROVE Ledger!Next
    BY <2>4, KeyFacts DEF WaitCompleted, Runs, CoreInv, OnlyEdits
  <2>5. ASSUME NEW q \in Submissions, BeginExecution(q), IsEdit(q) PROVE Ledger!Next
    <3>1. Ledger!Execute(Key(q))
      BY <2>5 DEF BeginExecution, Runs, MarkExecuting, Ledger!Execute, CoreInv, StageAgrees
    <3>2. QED
      BY <2>5, <3>1, KeyFacts
  <2>6. ASSUME NEW q \in Submissions, CompleteMutation(q) PROVE Ledger!Next
    <3>1. Ledger!Finish(Key(q), response[q]) /\ response[q] \in Answers /\ IsEdit(q)
      BY <2>6 DEF CompleteMutation, Complete, Ledger!Finish, CoreInv, StageAgrees,
         ResponseAgrees, EndStages
    <3>2. QED
      BY <3>1, KeyFacts
  <2>7. CASE QuietSteps \/ CancelAll
    BY <2>1, <2>7, QuietIsQuiet DEF coreVars, CancelAll
  <2>8. CASE \E q \in Submissions : SubmissionStep(q)
    <3>1. PICK q \in Submissions : SubmissionStep(q)
      BY <2>8
    <3>2. \/ UNCHANGED ledgerVars
          \/ BeginAccepted(q) \/ CompleteMutation(q) \/ (BeginExecution(q) /\ IsEdit(q))
          \/ \E a \in Responses : BeginCompleted(q, a) \/ WaitCompleted(q, a)
      BY <3>1 DEF SubmissionStep, Arrives, Enters, Executes, Handles, Ends, RejectBusy,
         DispatchRead, BeginAttached, BeginRefused, Register, RegisterConflicts, Enqueue,
         EnqueueRefused, EnqueueAttached, AttachRefused, CancelRequest, BeginExecution,
         SkipCancelled, HandlerReturns, ReachCommitPoint, CommitDenied, HandlerEdits,
         CheckCancelled, WaitTimedOut, Answer, Deliver, CancelDrained
    <3>3. QED
      BY <2>1, <2>2, <2>3, <2>4, <2>5, <2>6, <3>2
  <2>9. QED
    BY <2>7, <2>8, NextSteps
<1>3. QED
  BY <1>1, <1>2, CoreHolds, PTL DEF Spec, FollowsLedger, Ledger!Spec

-----------------------------------------------------------------------------
(* The theorems that do *)

\* The whole invariant: the core, the stop, and what a client was told about its Cancel.
IInv == CoreInv /\ StopInv /\ AckInv /\ InFlightHasOwner

LEMMA InvHolds ==
    ASSUME OwnRequestIds
    PROVE  Spec => []IInv
<1>1. Init => IInv
  <2> SUFFICES ASSUME Init PROVE IInv
    OBVIOUS
  <2>1. AckInv /\ InFlightHasOwner
    BY DispatcherAssumption DEF Init, Ledger!Init, AckInv, CancelSticks, TooLateSticks,
       Told, InFlightHasOwner
  <2>2. QED
    BY <2>1, InitCore DEF IInv
<1>2. IInv /\ [Next]_vars => IInv'
  <2> SUFFICES ASSUME IInv, [Next]_vars PROVE IInv'
    OBVIOUS
  <2>1. CancelSticks' /\ TooLateSticks' /\ InFlightHasOwner'
    BY CancelSticksStep, TooLateSticksStep, InFlightStep DEF IInv, CoreInv, AckInv
  <2>2. QED
    BY <2>1, CoreStep DEF IInv, AckInv
<1>3. QED
  BY <1>1, <1>2, PTL DEF Spec

\* A client that was told "cancelled" can rely on it.
THEOREM CancelledIsFinal ==
    ASSUME OwnRequestIds
    PROVE  Spec => []CancelledNeverEdits
<1>1. IInv => CancelledNeverEdits
  BY DEF IInv, AckInv, CancelSticks, Told, CancelledNeverEdits
<1>2. QED
  BY <1>1, InvHolds, PTL

\* A client that was told "tooLate" is answered with what the edit section did.
THEOREM TooLateIsFinal ==
    ASSUME OwnRequestIds
    PROVE  Spec => []TooLateIsNotCancelled
<1>1. IInv => TooLateIsNotCancelled
  BY DEF IInv, AckInv, TooLateSticks, Told, TooLateIsNotCancelled
<1>2. QED
  BY <1>1, InvHolds, PTL

\* No key is left in flight with nobody to complete it.
THEOREM InFlightIsOwned ==
    ASSUME OwnRequestIds
    PROVE  Spec => []InFlightHasOwner
<1>1. IInv => InFlightHasOwner
  BY DEF IInv
<1>2. QED
  BY <1>1, InvHolds, PTL

\* When stop returns, nothing is registered, in flight, queued or running.
THEOREM NothingIsLeft ==
    ASSUME OwnRequestIds
    PROVE  Spec => []StopLeavesNothing
<1>1. IInv => StopLeavesNothing
  <2> SUFFICES ASSUME IInv, shutdown = "done" PROVE StopLeavesNothing
    BY DEF StopLeavesNothing
  <2>1. \A q \in Submissions : stage[q] \in {"unsent", "delivered"}
    BY DEF IInv, StopInv
  <2>2. \A k \in Keys : phase[k] \in {"new", "completed"}
    BY <2>1 DEF IInv, InFlightHasOwner, CoreInv, TypeCore, Active, GateStages, EndStages
  <2>3. DOMAIN registry = {} /\ registry \in [DOMAIN registry -> Cancellations!States]
    BY <2>1 DEF IInv, CoreInv, TypeCore, Cancellations!TypeOK, RegistryMatchesActive,
       Active, GateStages, EndStages
  <2>4. registry = [r \in {} |-> "queued"]
    BY <2>3
  <2>5. QED
    BY <2>2, <2>4 DEF StopLeavesNothing, IInv, StopInv, Gate!Joinable
<1>2. QED
  BY <1>1, InvHolds, PTL
=============================================================================
