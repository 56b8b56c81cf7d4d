---------------------------- MODULE BridgeClient ----------------------------
(***************************************************************************)
(* The client side of the pipe: gateway calls that look their connection   *)
(* up in BridgeConnectionRegistry, make it when there is none, send one    *)
(* request over BridgeConnection and NamedPipeBridgeTransport and wait for *)
(* the response in the connection's IpcRequestTracker; the read loop of a  *)
(* connection, its disposal, the timers and the disposal of the registry.  *)
(* The environment is the descriptor directory and, for each connection,   *)
(* a Bridge session (serve_client of named_pipe_server).                   *)
(*                                                                         *)
(* The registry's dictionaries are keyed by the instance id and no code    *)
(* relates two keys, so one instance is modelled.  A call makes one        *)
(* connection at most: the connection is named after the call.             *)
(***************************************************************************)
EXTENDS Naturals, Sequences, FiniteSets

CONSTANTS
    Requests,           \* gateway calls, and the correlation ids of their requests
    Descriptors,        \* what the descriptor of the instance may say
    NoDescriptor,       \* there is none
    NoConn,             \* no connection
    InFlightLimit,      \* limits.inFlight agreed in the handshake
    FirstDescriptor,    \* what it says at first
    MaxEvents           \* bound on what happens to the calls from outside: the descriptor
                        \* changes, a pipe breaks, the registry is disposed, a caller cancels

Conns == Requests

ASSUME ClientAssumption ==
    /\ NoDescriptor \notin Descriptors /\ {NoConn, "idle", "done"} \cap Requests = {}
    /\ InFlightLimit \in Nat \ {0} /\ IsFiniteSet(Requests)
    /\ FirstDescriptor \in Descriptors /\ MaxEvents \in Nat

VARIABLES
    file,                               \* the descriptor in the directory
    events,                             \* how many outside events there were
    descriptor, connection, closed,     \* registry: descriptors, connections, isDisposed
    disposer,                           \* how far the registry's DisposeAsync has come
    call,                               \* the calls
    expired, cancelled,                 \* deadlines passed, tokens cancelled by the caller
    conn,                               \* the connections
    pending, terminalError, isDisposed, completion,    \* their trackers
    up, down, serving,                  \* frames to the Bridge and back, requests in flight there
    calm                                \* history: no file, pipe or registry has gone, no frame is torn

Tracker == INSTANCE IpcRequestTracker WITH MaximumInFlight <- InFlightLimit

envVars == <<file, events, calm>>
registryVars == <<descriptor, connection, closed>>
tokenVars == <<expired, cancelled>>
trackerVars == <<pending, terminalError, isDisposed, completion>>
bridgeVars == <<up, down, serving>>
vars == <<envVars, registryVars, disposer, call, tokenVars, conn, trackerVars, bridgeVars>>

\* A frame: its kind and the request id in its header.
Frame(kind, r) == [kind |-> kind, id |-> r]
UpKinds == {"request", "cancel"}
DownKinds == {"response", "busy", "notFound"}

\* Where a call is.  "disposing" waits for a connection it disposes, then goes on at "after".
Steps == {"idle", "discovering", "disposing", "lookup", "connecting", "installing", "sending",
          "registering", "writing", "waiting", "cancelling", "ended"}
\* How a call ends: with a response or by the exception it throws.
Ends == Tracker!Settled \cup {"none", "nullReference", "keyNotFound"}

NewCall == [step |-> "idle", desc |-> NoDescriptor, conn |-> NoConn, stale |-> NoConn,
            after |-> "ended", told |-> "none"]
\* life is lifecycleState; transport is what IsConnected and the stream of the transport say;
\* tracked: requestTracker is not null.
NewConn == [desc |-> NoDescriptor, life |-> 0, transport |-> "none", loop |-> "none",
            tracked |-> FALSE, disposal |-> "no"]

Init ==
    /\ file = FirstDescriptor /\ events = 0 /\ calm = TRUE
    /\ descriptor = NoDescriptor /\ connection = NoConn /\ closed = FALSE
    /\ disposer = "idle"
    /\ call = [r \in Requests |-> NewCall]
    /\ expired = {} /\ cancelled = {}
    /\ conn = [c \in Conns |-> NewConn]
    /\ Tracker!Init
    /\ up = [c \in Conns |-> <<>>] /\ down = [c \in Conns |-> {}] /\ serving = [c \in Conns |-> {}]

Event == events < MaxEvents /\ events' = events + 1
At(r, step) == call[r].step = step
Goto(r, step) == call' = [call EXCEPT ![r].step = step]
\* The token of a call is cancelled by its caller and at its deadline (RequestContextFactory).
\* Seeded fault: the token ignores the deadline.
TokenCancelled_CallerOnly(r) == r \in cancelled
TokenCancelled(r) == r \in cancelled \cup expired
IsConnected(c) == conn[c].life = 1 /\ conn[c].transport = "open"

\* call' for a call that ends.
EndCall(r, told) ==
    call' = [call EXCEPT ![r] = [NewCall EXCEPT !.step = "ended", !.told = told, !.conn = call[r].conn]]
\* call' for a call that disposes connection c and then goes on at step.
DisposeThen(r, c, step, told) ==
    call' = [call EXCEPT ![r].step = "disposing", ![r].stale = c, ![r].after = step,
                         ![r].told = told]

-----------------------------------------------------------------------------
(* BridgeConnectionRegistry: DiscoverAsync and GetConnectionAsync. *)

\* ReadDescriptors, outside the gate.  DiscoverAsync checks isDisposed first.
ReadDescriptors(r) ==
    /\ At(r, "idle")
    /\ IF closed THEN EndCall(r, "disposed")
       ELSE call' = [call EXCEPT ![r].step = "discovering", ![r].desc = file]
    /\ UNCHANGED <<envVars, registryVars, disposer, tokenVars, conn, trackerVars, bridgeVars>>

\* The connection that is removed because its descriptor is not the one that was read.
IsStale(c, desc) == conn[c].desc # desc

UpdateRegistry(r) ==
    /\ At(r, "discovering")
    /\ IF TokenCancelled(r) \/ closed
       THEN EndCall(r, IF closed THEN "disposed" ELSE "cancelled") /\ UNCHANGED registryVars
       ELSE /\ descriptor' = call[r].desc
            /\ IF connection # NoConn /\ IsStale(connection, call[r].desc)
               THEN /\ connection' = NoConn
                    /\ DisposeThen(r, connection, "lookup", "none")
               ELSE connection' = connection /\ Goto(r, "lookup")
            /\ UNCHANGED closed
    /\ UNCHANGED <<envVars, disposer, tokenVars, conn, trackerVars, bridgeVars>>

\* A connected entry is used; a dead one is removed and disposed before another is made.
Lookup(r) ==
    /\ At(r, "lookup")
    /\ \/ TokenCancelled(r) /\ EndCall(r, "cancelled") /\ UNCHANGED connection
       \/ /\ ~TokenCancelled(r) /\ descriptor = NoDescriptor
          /\ EndCall(r, "keyNotFound") /\ UNCHANGED connection
       \/ /\ ~TokenCancelled(r) /\ descriptor # NoDescriptor
          /\ IF connection # NoConn /\ IsConnected(connection)
             THEN /\ call' = [call EXCEPT ![r].step = "sending", ![r].conn = connection]
                  /\ UNCHANGED connection
             ELSE /\ connection' = NoConn
                  /\ call' = [call EXCEPT
                        ![r].desc = descriptor, ![r].stale = connection,
                        ![r].step = IF connection = NoConn THEN "connecting" ELSE "disposing",
                        ![r].after = IF connection = NoConn THEN @ ELSE "connecting"]
    /\ UNCHANGED <<envVars, descriptor, closed, disposer, tokenVars, conn, trackerVars, bridgeVars>>

\* DisposeAsync of a connection, up to the wait for the read loop: lifecycleState 3, lifetime
\* cancelled, transport disposed, and with it what the client had still to read.
EmptyPipe(c) ==
    /\ up' = [up EXCEPT ![c] = <<>>] /\ down' = [down EXCEPT ![c] = {}]
    /\ serving' = [serving EXCEPT ![c] = {}]
BreakPipe(c) ==
    /\ conn[c].transport = "open"
    /\ conn' = [conn EXCEPT ![c].transport = "broken"]
    /\ EmptyPipe(c) /\ calm' = FALSE
BeginDispose(c) ==
    /\ conn' = [conn EXCEPT ![c].life = 3, ![c].transport = "disposed", ![c].disposal = "begun"]
    /\ EmptyPipe(c)

\* The caller of DisposeAsync, for one of the connections it removed.
Disposes(r) ==
    /\ At(r, "disposing")
    /\ LET c == call[r].stale IN
       \/ /\ conn[c].disposal = "no"
          /\ BeginDispose(c) /\ UNCHANGED call
       \/ /\ conn[c].disposal = "done"
          /\ IF call[r].after = "ended" THEN EndCall(r, call[r].told)
             ELSE call' = [call EXCEPT ![r].step = call[r].after, ![r].stale = NoConn,
                                       ![r].after = "ended"]
          /\ UNCHANGED <<conn, bridgeVars>>
    /\ UNCHANGED <<envVars, registryVars, disposer, tokenVars, trackerVars>>

\* CreateConnectionAsync: a transport of its own, on which the Bridge that the descriptor names
\* answered and was who the descriptor says.
HandshakeSucceeds(r) ==
    /\ At(r, "connecting")
    /\ conn' = [conn EXCEPT ![r] = [NewConn EXCEPT !.desc = call[r].desc, !.transport = "open",
                                    !.life = 1, !.tracked = TRUE, !.loop = "running"]]
    /\ Goto(r, "installing")
    /\ UNCHANGED <<envVars, registryVars, disposer, tokenVars, trackerVars, bridgeVars>>

\* Every exception of the handshake disposes the connection and is passed on.
HandshakeFails(r, told) ==
    /\ At(r, "connecting")
    /\ told = "cancelled" => TokenCancelled(r)
    /\ DisposeThen(r, r, "ended", told)
    /\ UNCHANGED <<envVars, registryVars, disposer, tokenVars, conn, trackerVars, bridgeVars>>

\* The last critical section of GetConnectionAsync.  A registry that was disposed meanwhile
\* drops the new connection without disposing it.
\* Seeded fault: the descriptor is not compared again.
StillCurrent_Unchecked(r) == descriptor # NoDescriptor
StillCurrent(r) == descriptor = call[r].desc
\* Seeded fault: the connection that another call installed meanwhile is not looked for.
Concurrent_Overlooked == FALSE
Concurrent == connection # NoConn /\ IsConnected(connection)
Install(r) ==
    /\ At(r, "installing")
    /\ \/ TokenCancelled(r) /\ DisposeThen(r, r, "ended", "cancelled") /\ UNCHANGED connection
       \/ /\ ~TokenCancelled(r) /\ closed
          /\ EndCall(r, "disposed") /\ UNCHANGED connection
       \/ /\ ~TokenCancelled(r) /\ ~closed /\ ~StillCurrent(r)
          /\ DisposeThen(r, r, "ended", "io") /\ UNCHANGED connection
       \/ /\ ~TokenCancelled(r) /\ ~closed /\ StillCurrent(r) /\ Concurrent
          /\ call' = [call EXCEPT ![r].step = "disposing", ![r].stale = r,
                                  ![r].after = "sending", ![r].conn = connection]
          /\ UNCHANGED connection
       \/ /\ ~TokenCancelled(r) /\ ~closed /\ StillCurrent(r) /\ ~Concurrent
          /\ connection' = r
          /\ call' = [call EXCEPT ![r].step = "sending", ![r].conn = r]
    /\ UNCHANGED <<envVars, descriptor, closed, disposer, tokenVars, conn, trackerVars, bridgeVars>>

\* DisposeAsync of the registry: its critical section, then the connection it held.
CloseRegistry ==
    /\ disposer = "idle"
    /\ disposer' = connection
    /\ closed' = TRUE /\ connection' = NoConn /\ descriptor' = NoDescriptor
    /\ Event /\ calm' = FALSE
    /\ UNCHANGED <<file, call, tokenVars, conn, trackerVars, bridgeVars>>
CloseConnection ==
    /\ disposer \notin {"idle", "done"}
    /\ \/ /\ disposer # NoConn /\ conn[disposer].disposal = "no"
          /\ BeginDispose(disposer) /\ UNCHANGED disposer
       \/ /\ disposer # NoConn => conn[disposer].disposal = "done"
          /\ disposer' = "done" /\ UNCHANGED <<conn, bridgeVars>>
    /\ UNCHANGED <<envVars, registryVars, call, tokenVars, trackerVars>>

-----------------------------------------------------------------------------
(* BridgeConnection: SendAsync on the task of the call. *)

\* The checks before the request is encoded.
Send(r) ==
    /\ At(r, "sending")
    /\ IF r \in expired THEN EndCall(r, "timeout")
       ELSE IF ~IsConnected(call[r].conn) \/ ~conn[call[r].conn].tracked THEN EndCall(r, "io")
       ELSE Goto(r, "registering")
    /\ UNCHANGED <<envVars, registryVars, disposer, tokenVars, conn, trackerVars, bridgeVars>>

\* Register is outside the try: what it throws leaves the connection as it is.
RegisterRequest(r) ==
    /\ At(r, "registering")
    /\ LET c == call[r].conn IN
       \/ ~conn[c].tracked /\ EndCall(r, "nullReference") /\ UNCHANGED trackerVars
       \/ /\ conn[c].tracked /\ Tracker!RegisterError(c) # "none"
          /\ EndCall(r, Tracker!RegisterError(c)) /\ UNCHANGED trackerVars
       \/ conn[c].tracked /\ Tracker!Register(c, r) /\ Goto(r, "writing")
    /\ UNCHANGED <<envVars, registryVars, disposer, tokenVars, conn, bridgeVars>>

\* catch (IOException or InvalidDataException or InvalidOperationException or ...): the
\* connection has failed for everybody.
ConnectionLost(r, error) ==
    LET c == call[r].conn IN
    IF conn[c].tracked
    THEN /\ Tracker!FailConnection(c, error)
         /\ conn' = [conn EXCEPT ![c].life = 2]
         /\ EndCall(r, error)
    ELSE EndCall(r, "nullReference") /\ UNCHANGED <<conn, trackerVars>>

\* catch (TimeoutException): only a Cancel frame.
\* Seeded fault: a timeout is handled like a lost connection.
CallTimedOut_Fails(r) == ConnectionLost(r, "timeout")
CallTimedOut(r) ==
    /\ call' = [call EXCEPT ![r].step = "cancelling", ![r].told = "timeout"]
    /\ UNCHANGED <<conn, trackerVars>>

\* catch (OperationCanceledException): TryCancel, then a Cancel frame.
CallCancelled(r) ==
    IF conn[call[r].conn].tracked
    THEN /\ Tracker!TryCancel(call[r].conn, r)
         /\ call' = [call EXCEPT ![r].step = "cancelling", ![r].told = "cancelled"]
    ELSE EndCall(r, "nullReference") /\ UNCHANGED trackerVars

\* A whole frame enters the pipe; part of a frame ends the session, for the Bridge cannot
\* make sense of what follows; or nothing does.
Push(c, frame) ==
    /\ conn[c].transport = "open" /\ up' = [up EXCEPT ![c] = Append(@, frame)]
    /\ UNCHANGED <<conn, calm, down, serving>>
Tear(c) == BreakPipe(c)
WriteNothing == UNCHANGED <<conn, calm, bridgeVars>>

\* WriteAsync under writeGate: the frame is written; the token is cancelled, with anything
\* written by then; or the stream is not connected, or goes while it is written to.
WriteDone(r) ==
    /\ At(r, "writing")
    /\ Push(call[r].conn, Frame("request", r)) /\ Goto(r, "waiting")
    /\ UNCHANGED <<file, events, registryVars, disposer, tokenVars, trackerVars>>
WriteCancelled(r) ==
    /\ At(r, "writing") /\ TokenCancelled(r)
    /\ CallCancelled(r)
    /\ WriteNothing \/ Tear(call[r].conn) \/ Push(call[r].conn, Frame("request", r))
    /\ UNCHANGED <<file, events, registryVars, disposer, tokenVars>>
WriteLost(r) ==
    /\ At(r, "writing") /\ conn[call[r].conn].transport # "open"
    /\ ConnectionLost(r, "invalidOperation") \/ ConnectionLost(r, "io")
    /\ UNCHANGED <<envVars, registryVars, disposer, tokenVars, bridgeVars>>

\* Completion.WaitAsync: the response, the deadline, a lost connection or the token.
Await(r) ==
    /\ At(r, "waiting")
    /\ \/ completion[r] = "response" /\ EndCall(r, "response") /\ UNCHANGED <<conn, trackerVars>>
       \/ completion[r] = "timeout" /\ CallTimedOut(r)
       \/ completion[r] \in {"io", "invalidOperation", "disposed"} /\ ConnectionLost(r, completion[r])
       \/ TokenCancelled(r) /\ CallCancelled(r) /\ UNCHANGED conn
    /\ UNCHANGED <<envVars, registryVars, disposer, tokenVars, bridgeVars>>

\* TrySendCancelAsync: the frame is written, or given up after a second, for a pipe that is
\* gone or because the connection is disposed.  The InvalidOperationException of a transport
\* that is not connected is not caught.
SendCancel(r) ==
    /\ At(r, "cancelling")
    /\ LET c == call[r].conn IN
       \/ /\ EndCall(r, call[r].told)
          /\ WriteNothing \/ Tear(c) \/ Push(c, Frame("cancel", r))
       \/ conn[c].transport # "open" /\ EndCall(r, "invalidOperation") /\ WriteNothing
    /\ UNCHANGED <<file, events, registryVars, disposer, tokenVars, trackerVars>>

-----------------------------------------------------------------------------
(* BridgeConnection: the read loop, the timers and DisposeAsync. *)

\* A frame of the Bridge; frames of different requests arrive in any order.
Receive(c, f) ==
    /\ conn[c].loop = "running" /\ conn[c].transport = "open"
    /\ f \in down[c]
    /\ down' = [down EXCEPT ![c] = @ \ {f}]
    /\ IF f.kind \in {"response", "busy"} THEN Tracker!TryComplete(c, f.id)
       ELSE Tracker!TryAcknowledgeCancellation(c, f.id)
    /\ UNCHANGED <<envVars, registryVars, disposer, call, tokenVars, conn, up, serving>>

\* The read fails, for a broken pipe or for the stream that DisposeAsync disposed.
ReadFails(c) ==
    /\ conn[c].loop = "running" /\ conn[c].transport # "open"
    /\ Tracker!FailConnection(c, "io")
    /\ conn' = [conn EXCEPT ![c].loop = "ended", ![c].life = 2]
    /\ UNCHANGED <<envVars, registryVars, disposer, call, tokenVars, bridgeVars>>

\* A deadline that passes after the call has ended only fires the timer.
TimerFires(c, r) ==
    /\ r \in pending[c] /\ (r \in expired \/ At(r, "ended"))
    /\ Tracker!TimeoutRequest(c, r)
    /\ UNCHANGED <<envVars, registryVars, disposer, call, tokenVars, conn, bridgeVars>>

\* The rest of DisposeAsync once the loop has ended, quietly if it noticed that its lifetime
\* is cancelled: the tracker fails what is left, and is then let go of.
DisposeTracker(c) ==
    /\ conn[c].disposal = "begun"
    /\ IF conn[c].tracked THEN Tracker!Dispose(c) ELSE UNCHANGED trackerVars
    /\ conn' = [conn EXCEPT ![c].disposal = "failed", ![c].loop = "ended"]
    /\ UNCHANGED <<envVars, registryVars, disposer, call, tokenVars, bridgeVars>>
ClearTracker(c) ==
    /\ conn[c].disposal = "failed"
    /\ conn' = [conn EXCEPT ![c].disposal = "done", ![c].tracked = FALSE]
    /\ UNCHANGED <<envVars, registryVars, disposer, call, tokenVars, trackerVars, bridgeVars>>

-----------------------------------------------------------------------------
(* The Bridge session at the other end of connection c (serve_client). *)

BridgeReads(c) ==
    /\ conn[c].transport = "open" /\ up[c] # <<>>
    /\ LET f == Head(up[c]) IN
       \/ /\ f.kind = "request" /\ Cardinality(serving[c]) >= InFlightLimit
          /\ down' = [down EXCEPT ![c] = @ \cup {Frame("busy", f.id)}] /\ UNCHANGED serving
       \/ /\ f.kind = "request" /\ Cardinality(serving[c]) < InFlightLimit
          /\ serving' = [serving EXCEPT ![c] = @ \cup {f.id}] /\ UNCHANGED down
       \/ /\ f.kind = "cancel" /\ UNCHANGED serving
          /\ down' = [down EXCEPT ![c] =
                         IF f.id \in serving[c] THEN @ ELSE @ \cup {Frame("notFound", f.id)}]
    /\ up' = [up EXCEPT ![c] = Tail(@)]
    /\ UNCHANGED <<envVars, registryVars, disposer, call, tokenVars, conn, trackerVars>>

\* in_flight is decremented before the response is handed to the writer.
\* Seeded fault: a request is counted as in flight for ever.
BridgeAnswers_KeepsSlot(c, r) ==
    /\ conn[c].transport = "open" /\ r \in serving[c]
    /\ down' = [down EXCEPT ![c] = @ \cup {Frame("response", r)}]
    /\ UNCHANGED <<envVars, registryVars, disposer, call, tokenVars, conn, trackerVars, up, serving>>
BridgeAnswers(c, r) ==
    /\ conn[c].transport = "open" /\ r \in serving[c]
    /\ serving' = [serving EXCEPT ![c] = @ \ {r}]
    /\ down' = [down EXCEPT ![c] = @ \cup {Frame("response", r)}]
    /\ UNCHANGED <<envVars, registryVars, disposer, call, tokenVars, conn, trackerVars, up>>

\* The session ends: the Bridge, or its listener, went away.
PipeBreaks(c) ==
    /\ BreakPipe(c) /\ Event
    /\ UNCHANGED <<file, registryVars, disposer, call, tokenVars, trackerVars>>

DescriptorChanges(d) ==
    /\ d # file /\ file' = d
    /\ Event /\ calm' = FALSE
    /\ UNCHANGED <<registryVars, disposer, call, tokenVars, conn, trackerVars, bridgeVars>>

\* The token and the deadline are made when the call begins.
Begun(r) == ~At(r, "idle") /\ ~At(r, "ended")
DeadlinePasses(r) ==
    /\ Begun(r) /\ r \notin expired
    /\ expired' = expired \cup {r}
    /\ UNCHANGED <<envVars, registryVars, disposer, call, cancelled, conn, trackerVars, bridgeVars>>
CallerCancels(r) ==
    /\ Begun(r) /\ r \notin cancelled \cup expired /\ cancelled' = cancelled \cup {r}
    /\ Event
    /\ UNCHANGED <<file, calm, registryVars, disposer, call, expired, conn, trackerVars, bridgeVars>>

-----------------------------------------------------------------------------
\* What the task of a call does of its own, and what it can do only with the Bridge's help.
CallGoesOn(r) ==
    \/ ReadDescriptors(r) \/ UpdateRegistry(r) \/ Lookup(r) \/ Disposes(r)
    \/ HandshakeFails(r, "cancelled") \/ Install(r) \/ Send(r) \/ RegisterRequest(r)
    \/ WriteCancelled(r) \/ WriteLost(r) \/ Await(r) \/ SendCancel(r)
WithTheBridge(r) == HandshakeSucceeds(r) \/ HandshakeFails(r, "io") \/ WriteDone(r)
Disposal(c) == DisposeTracker(c) \/ ClearTracker(c)
Environment ==
    \/ \E c \in Conns : BridgeReads(c) \/ PipeBreaks(c)
    \/ \E c \in Conns, r \in Requests : BridgeAnswers(c, r)
    \/ \E d \in Descriptors \cup {NoDescriptor} : DescriptorChanges(d)
    \/ \E r \in Requests : DeadlinePasses(r) \/ CallerCancels(r)

Next ==
    \/ \E r \in Requests : CallGoesOn(r) \/ WithTheBridge(r)
    \/ CloseRegistry \/ CloseConnection
    \/ \E c \in Conns : ReadFails(c) \/ Disposal(c) \/ \E f \in down[c] : Receive(c, f)
    \/ \E c \in Conns, r \in Requests : TimerFires(c, r)
    \/ Environment

Spec == Init /\ [][Next]_vars

\* Time passes, a write, a wait or a handshake whose token is cancelled ends, and a task that
\* can go on does.  Nothing is assumed of the Bridge, of the read loop or of the timers.
Fairness ==
    /\ \A r \in Requests : WF_vars(DeadlinePasses(r)) /\ WF_vars(CallGoesOn(r))
    /\ \A c \in Conns : WF_vars(Disposal(c))
FairSpec == Spec /\ Fairness

-----------------------------------------------------------------------------
(* Properties. *)

\* Every variable keeps its shape, and every tracker its limit.
TypeOK ==
    /\ file \in Descriptors \cup {NoDescriptor} /\ events \in 0..MaxEvents
    /\ descriptor \in Descriptors \cup {NoDescriptor} /\ connection \in Conns \cup {NoConn}
    /\ closed \in BOOLEAN /\ calm \in BOOLEAN
    /\ disposer \in Conns \cup {NoConn, "idle", "done"}
    /\ call \in [Requests -> [step : Steps, desc : Descriptors \cup {NoDescriptor},
                              conn : Conns \cup {NoConn}, stale : Conns \cup {NoConn},
                              after : Steps, told : Ends]]
    /\ expired \subseteq Requests /\ cancelled \subseteq Requests
    /\ conn \in [Conns -> [desc : Descriptors \cup {NoDescriptor}, life : 0..3,
                           transport : {"none", "open", "broken", "disposed"},
                           loop : {"none", "running", "ended"}, tracked : BOOLEAN,
                           disposal : {"no", "begun", "failed", "done"}]]
    /\ Tracker!TypeOK
    /\ up \in [Conns -> Seq([kind : UpKinds, id : Requests])]
    /\ down \in [Conns -> SUBSET [kind : DownKinds, id : Requests]]
    /\ serving \in [Conns -> SUBSET Requests]

\* The connection the registry hands out was made for the descriptor the registry holds: a
\* call that began before the descriptor changed cannot put a connection to the old process
\* back after DiscoverAsync removed it.
ConnectionFitsDescriptor ==
    connection # NoConn => ~closed /\ conn[connection].desc = descriptor

\* A connection that is up is in the registry, being made or being disposed: no two live
\* connections serve the instance and none is forgotten.  The exception is the one made while
\* the registry was disposed, which is never closed.
Owned(c) ==
    \/ connection = c \/ disposer = c \/ \E r \in Requests : call[r].stale = c
    \/ At(c, "connecting") \/ At(c, "installing")
NoLiveConnectionLost ==
    \A c \in Conns : IsConnected(c) => Owned(c) \/ (closed /\ call[c].told = "disposed")

\* A call whose completion is open is in its tracker, and that tracker's connection has not
\* failed: the response, the timer or the failure of the connection will find it.
WaitersAreTracked ==
    \A r \in Requests :
        completion[r] = "waiting" => r \in pending[call[r].conn] /\ ~terminalError[call[r].conn]

\* A call that is cancelled or times out fails no other call: while no pipe, descriptor or
\* registry goes and no frame is torn, a call that found its connection ends with the
\* response, at its deadline, by its cancellation or because the connection is full.
CallsDoNotDisturbEachOther ==
    calm => \A r \in Requests :
               At(r, "ended") /\ call[r].conn # NoConn
                   => call[r].told \in {"response", "timeout", "cancelled", "invalidOperation"}

\* The Bridge refuses a request as one too many only when the client gave up a request that
\* the Bridge still works on, or that request itself: the two counts of what is in flight
\* differ by nothing else.
BusyOnlyAfterGivingUp ==
    [][\A c \in Conns, r \in Requests :
          Frame("busy", r) \in down'[c] \ down[c]
              => \E q \in serving[c] \cup {r} :
                    q \notin pending[c] /\ completion[q] # "response"]_vars

\* Every call ends, whatever the Bridge does.
EveryCallEnds == \A r \in Requests : At(r, "discovering") ~> At(r, "ended")
=============================================================================
