----------------------------- MODULE CommandGate -----------------------------
(***************************************************************************)
(* command_gate (Bridge): a bounded FIFO queue of commands and the one     *)
(* worker thread that runs them.  A command carries what to execute and    *)
(* what to do when the gate stops before it ran; here it is any value.     *)
(***************************************************************************)
EXTENDS Naturals, Sequences

CONSTANTS
    Commands,   \* what may be queued
    NoCommand,  \* the worker is waiting
    MaxDepth    \* maximum_queue_depth_

VARIABLES
    queue,      \* queue_
    running,    \* the command the worker is executing
    stopping,   \* is_stopping_
    drained     \* the cancellations that stop took from the queue and has still to run

gateVars == <<queue, running, stopping, drained>>

TypeOK ==
    /\ queue \in Seq(Commands) /\ Len(queue) <= MaxDepth
    /\ running \in Commands \cup {NoCommand}
    /\ stopping \in BOOLEAN
    /\ drained \in Seq(Commands)

Init == queue = <<>> /\ running = NoCommand /\ stopping = FALSE /\ drained = <<>>

\* try_enqueue returns accepted; Refused says that it returns stopping or busy.
\* Seeded fault: an off-by-one in the capacity test.
Refused_OffByOne == stopping \/ Len(queue) > MaxDepth
Refused == stopping \/ Len(queue) >= MaxDepth
TryEnqueue(c) ==
    /\ ~Refused
    /\ queue' = Append(queue, c)
    /\ UNCHANGED <<running, stopping, drained>>

\* run: take the oldest command.
Take ==
    /\ running = NoCommand /\ queue # <<>>
    /\ running' = Head(queue) /\ queue' = Tail(queue)
    /\ UNCHANGED <<stopping, drained>>

\* run: command.execute() returned.
Executed ==
    /\ running' = NoCommand
    /\ UNCHANGED <<queue, stopping, drained>>

\* stop: refuse newcomers and take over what is queued, in one critical section.
\* Seeded fault: the queue is copied, not taken over.
Drain_KeepsQueue ==
    /\ ~stopping /\ stopping' = TRUE
    /\ drained' = queue
    /\ UNCHANGED <<queue, running>>
Drain ==
    /\ ~stopping
    /\ stopping' = TRUE
    /\ drained' = queue /\ queue' = <<>>
    /\ UNCHANGED running

\* stop: the stopping thread runs one cancellation.
CancelOne ==
    /\ drained # <<>>
    /\ drained' = Tail(drained)
    /\ UNCHANGED <<queue, running, stopping>>

\* stop: the worker can be joined.
Joinable == stopping /\ drained = <<>> /\ queue = <<>> /\ running = NoCommand
=============================================================================
