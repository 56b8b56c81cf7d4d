---------------------- MODULE BridgeClientCalls_proofs ----------------------
(***************************************************************************)
(* More proofs about BridgeClient: no live connection is forgotten, and    *)
(* calls that give up disturb no other call.                               *)
(*                                                                         *)
(* Each step is first summed up by what it does to the parts an invariant  *)
(* speaks of (OwnCallStep, CalmCallStep, CompletionStep and so on), one    *)
(* lemma per step; that such a step keeps the invariant is proved once.    *)
(***************************************************************************)
EXTENDS BridgeClientFrames_proofs

-----------------------------------------------------------------------------
(* Who owns a connection *)

\* A call holds on to a connection only while it disposes it; a disposal begins with the
\* transport; and a call that was told of a disposed registry or tracker has ended.
StaleWhileDisposing == \A r \in Requests : call[r].step # "disposing" => call[r].stale = NoConn
DisposedIsDead == \A c \in Conns : conn[c].disposal # "no" => conn[c].transport = "disposed"
DisposedAtEnd == \A r \in Requests : call[r].told = "disposed" => At(r, "ended")
OwnershipInv == StaleWhileDisposing /\ DisposedIsDead /\ DisposedAtEnd /\ NoLiveConnectionLost

\* What a step of call r does to what is owned: it makes no connection live but its own, and
\* hands over what it or the registry held.
OwnCallStep(r) ==
    /\ \A q \in Requests \ {r} : call'[q] = call[q]
    /\ closed' = closed /\ disposer' = disposer
    /\ call'[r].step # "disposing" => call'[r].stale = NoConn
    /\ call'[r].told = "disposed" => call'[r].step = "ended"
    /\ call[r].told # "disposed"
    /\ \A c \in Conns :
          /\ conn'[c].disposal # "no" => conn'[c].transport = "disposed"
          /\ IsConnected(c)' =>
               /\ IsConnected(c) \/ (c = r /\ At(r, "connecting"))
               /\ connection = c => connection' = c \/ call'[r].stale = c
               /\ call[r].stale = c => call'[r].stale = c
    /\ At(r, "connecting") \/ At(r, "installing") =>
          \/ call'[r].step \in {"connecting", "installing"} \/ call'[r].stale = r
          \/ connection' = r \/ (closed /\ call'[r].told = "disposed")

\* Such a step leaves every live connection owned.
LEMMA OwnCallStepKeeps ==
    ASSUME Shaped, OwnershipInv, NEW r \in Requests, OwnCallStep(r)
    PROVE  OwnershipInv'
<1>1. StaleWhileDisposing' /\ DisposedAtEnd'
  BY DEF OwnershipInv, StaleWhileDisposing, DisposedAtEnd, OwnCallStep, At
<1>2. DisposedIsDead'
  BY DEF DisposedIsDead, OwnCallStep
<1>3. ASSUME NEW c \in Conns, IsConnected(c)'
      PROVE  Owned(c)' \/ (closed /\ call[c].told = "disposed")'
  <2>1. CASE c = r /\ (At(r, "connecting") \/ At(r, "installing"))
    BY <2>1 DEF OwnCallStep, Owned, At
  <2>2. CASE ~(c = r /\ (At(r, "connecting") \/ At(r, "installing")))
    <3>1. Owned(c) \/ (closed /\ call[c].told = "disposed")
      BY <1>3, <2>2 DEF OwnCallStep, OwnershipInv, NoLiveConnectionLost
    <3>2. CASE connection = c \/ disposer = c
      BY <1>3, <3>2 DEF OwnCallStep, Owned
    <3>3. CASE \E q \in Requests : call[q].stale = c
      BY <1>3, <3>3 DEF OwnCallStep, Owned
    <3>4. CASE At(c, "connecting") \/ At(c, "installing")
      BY <2>2, <3>4 DEF OwnCallStep, Owned, At, Conns
    <3>5. CASE closed /\ call[c].told = "disposed"
      BY <3>5 DEF OwnCallStep, Conns
    <3>6. QED
      BY <3>1, <3>2, <3>3, <3>4, <3>5 DEF Owned
  <2>3. QED
    BY <2>1, <2>2
<1>4. QED
  BY <1>1, <1>2, <1>3 DEF OwnershipInv, NoLiveConnectionLost

USE DEF OwnCallStep, Shaped, Call, Connection, Conns, OwnershipInv, StaleWhileDisposing,
    DisposedIsDead, DisposedAtEnd, IsConnected, At, Goto, Ended, Left, NewConn, BeginDispose,
    EmptyPipe, BreakPipe, ConnectionLost, CallTimedOut, CallCancelled, Push, Tear,
    WriteNothing, registryVars, envVars, tokenVars, bridgeVars, trackerVars

\* Every step of a call is such a step.  ReadDescriptors changes the call only.
LEMMA ReadDescriptorsOwns ==
    ASSUME Shaped, Shaped', OwnershipInv, NEW r \in Requests, ReadDescriptors(r)
    PROVE  OwnCallStep(r)
BY ClientAssumption, EndFields, DisposeFields DEF ReadDescriptors

\* UpdateRegistry: the call takes the stale connection out of the registry to dispose it.
LEMMA UpdateRegistryOwns ==
    ASSUME Shaped, Shaped', OwnershipInv, NEW r \in Requests, UpdateRegistry(r)
    PROVE  OwnCallStep(r)
BY ClientAssumption, EndFields, DisposeFields DEF UpdateRegistry

\* Lookup: the call takes a dead connection out, which is not live.
LEMMA LookupOwns ==
    ASSUME Shaped, Shaped', OwnershipInv, NEW r \in Requests, Lookup(r)
    PROVE  OwnCallStep(r)
BY ClientAssumption, EndFields, DisposeFields DEF Lookup

\* Disposes: the connection is dead before the call lets go of it.
LEMMA DisposesOwns ==
    ASSUME Shaped, Shaped', OwnershipInv, NEW r \in Requests, Disposes(r)
    PROVE  OwnCallStep(r)
BY ClientAssumption, EndFields, DisposeFields DEF Disposes

\* HandshakeSucceeds: the connection becomes live while the call is making it.
LEMMA HandshakeSucceedsOwns ==
    ASSUME Shaped, Shaped', OwnershipInv, NEW r \in Requests, HandshakeSucceeds(r)
    PROVE  OwnCallStep(r)
BY ClientAssumption, EndFields, DisposeFields DEF HandshakeSucceeds

\* HandshakeFails: the call keeps what it made, to dispose it.
LEMMA HandshakeFailsOwns ==
    ASSUME Shaped, Shaped', OwnershipInv, NEW r \in Requests,
           NEW told \in {"cancelled", "io"}, HandshakeFails(r, told)
    PROVE  OwnCallStep(r)
BY ClientAssumption, EndFields, DisposeFields DEF HandshakeFails

\* Install: the registry takes the new connection, the call disposes it, or the registry has
\* been disposed.
LEMMA InstallOwns ==
    ASSUME Shaped, Shaped', OwnershipInv, NEW r \in Requests, Install(r)
    PROVE  OwnCallStep(r)
<1> USE ClientAssumption DEF Install
<1>1. CASE DisposeThen(r, r, "ended", "cancelled") /\ UNCHANGED connection
  BY <1>1, DisposeFields
<1>2. CASE closed /\ EndCall(r, "disposed") /\ UNCHANGED connection
  BY <1>2, EndFields
<1>3. CASE DisposeThen(r, r, "ended", "io") /\ UNCHANGED connection
  BY <1>3, DisposeFields
<1>4. CASE /\ UNCHANGED connection
           /\ call' = [call EXCEPT ![r].step = "disposing", ![r].stale = r,
                                   ![r].after = "sending", ![r].conn = connection]
  BY <1>4
<1>5. CASE /\ ~Concurrent /\ connection' = r
           /\ call' = [call EXCEPT ![r].step = "sending", ![r].conn = r]
  BY <1>5 DEF Concurrent
<1>6. QED
  BY <1>1, <1>2, <1>3, <1>4, <1>5

\* Send touches no connection.
LEMMA SendOwns ==
    ASSUME Shaped, Shaped', OwnershipInv, NEW r \in Requests, Send(r)
    PROVE  OwnCallStep(r)
BY ClientAssumption, EndFields, DisposeFields DEF Send

\* RegisterRequest touches no connection.
LEMMA RegisterRequestOwns ==
    ASSUME Shaped, Shaped', OwnershipInv, NEW r \in Requests, RegisterRequest(r)
    PROVE  OwnCallStep(r)
BY ClientAssumption, EndFields, DisposeFields DEF RegisterRequest

\* WriteDone leaves the connections as they are.
LEMMA WriteDoneOwns ==
    ASSUME Shaped, Shaped', OwnershipInv, NEW r \in Requests, WriteDone(r)
    PROVE  OwnCallStep(r)
BY ClientAssumption, EndFields, DisposeFields DEF WriteDone

\* WriteCancelled may break the pipe.
LEMMA WriteCancelledOwns ==
    ASSUME Shaped, Shaped', OwnershipInv, NEW r \in Requests, WriteCancelled(r)
    PROVE  OwnCallStep(r)
<1> USE ClientAssumption
<1>1. \A c \in Conns : /\ conn'[c].disposal # "no" => conn'[c].transport = "disposed"
                       /\ IsConnected(c)' => IsConnected(c)
  BY SMTT(30) DEF WriteCancelled
<1>2. \/ call' = [call EXCEPT ![r].step = "cancelling", ![r].told = "cancelled"]
      \/ Ended(r, "nullReference")
  BY EndFields DEF WriteCancelled
<1>3. QED
  BY <1>1, <1>2 DEF WriteCancelled

\* WriteLost fails the connection.
LEMMA WriteLostOwns ==
    ASSUME Shaped, Shaped', OwnershipInv, NEW r \in Requests, WriteLost(r)
    PROVE  OwnCallStep(r)
<1> USE ClientAssumption
<1>1. \A c \in Conns : /\ conn'[c].disposal # "no" => conn'[c].transport = "disposed"
                       /\ IsConnected(c)' => IsConnected(c)
  BY DEF WriteLost
<1>2. \E told \in Ends : Ended(r, told)
  BY EndFields DEF WriteLost, Ends, Tracker!Settled
<1>3. QED
  BY <1>1, <1>2 DEF WriteLost

\* Await may fail the connection.
LEMMA AwaitOwns ==
    ASSUME Shaped, Shaped', OwnershipInv, NEW r \in Requests, Await(r)
    PROVE  OwnCallStep(r)
<1> USE ClientAssumption
<1>1. \A c \in Conns : /\ conn'[c].disposal # "no" => conn'[c].transport = "disposed"
                       /\ IsConnected(c)' => IsConnected(c)
  BY DEF Await
<1>2. \/ \E told \in {"timeout", "cancelled"} :
            call' = [call EXCEPT ![r].step = "cancelling", ![r].told = told]
      \/ \E told \in Ends : Ended(r, told)
  BY EndFields DEF Await, Ends, Tracker!Settled
<1>3. QED
  BY <1>1, <1>2 DEF Await

\* SendCancel may break the pipe.
LEMMA SendCancelOwns ==
    ASSUME Shaped, Shaped', OwnershipInv, NEW r \in Requests, SendCancel(r)
    PROVE  OwnCallStep(r)
BY ClientAssumption, EndFields, DisposeFields DEF SendCancel

HIDE DEF OwnCallStep, Shaped, Call, Connection, Conns, OwnershipInv, StaleWhileDisposing,
    DisposedIsDead, DisposedAtEnd, IsConnected, At, Goto, Ended, Left, NewConn, BeginDispose,
    EmptyPipe, BreakPipe, ConnectionLost, CallTimedOut, CallCancelled, Push, Tear,
    WriteNothing, registryVars, envVars, tokenVars, bridgeVars, trackerVars

-----------------------------------------------------------------------------
(* The steps of no call *)

\* A step that leaves the calls alone, makes no connection live and takes from the registry
\* only what its disposal then owns.
OwnOtherStep ==
    /\ call' = call
    /\ closed => closed'
    /\ \A c \in Conns :
          /\ conn'[c].disposal # "no" => conn'[c].transport = "disposed"
          /\ IsConnected(c)' =>
               /\ IsConnected(c)
               /\ connection = c \/ disposer = c => connection' = c \/ disposer' = c

\* Such a step leaves every live connection owned.
LEMMA OwnOtherStepKeeps ==
    ASSUME OwnershipInv, OwnOtherStep
    PROVE  OwnershipInv'
<1>1. StaleWhileDisposing' /\ DisposedAtEnd' /\ DisposedIsDead'
  BY DEF OwnershipInv, StaleWhileDisposing, DisposedAtEnd, DisposedIsDead, OwnOtherStep, At
<1>2. ASSUME NEW c \in Conns, IsConnected(c)'
      PROVE  Owned(c)' \/ (closed /\ call[c].told = "disposed")'
  BY <1>2 DEF OwnershipInv, NoLiveConnectionLost, OwnOtherStep, Owned, At
<1>3. QED
  BY <1>1, <1>2 DEF OwnershipInv, NoLiveConnectionLost

\* Every step of no call is such a step.
LEMMA OtherStepsOwn ==
    ASSUME Shaped, OwnershipInv, CloseRegistry \/ OtherStep \/ UNCHANGED vars
    PROVE  OwnOtherStep
<1> USE ClientAssumption DEF OwnOtherStep, Shaped, Connection, Conns, OwnershipInv,
   DisposedIsDead, IsConnected, registryVars
<1>1. ASSUME call' = call, conn' = conn, UNCHANGED registryVars, disposer' = disposer
      PROVE  OwnOtherStep
  BY <1>1
<1>2. CASE CloseRegistry
  BY <1>2 DEF CloseRegistry
<1>3. CASE CloseConnection
  <2>1. CASE UNCHANGED <<conn, bridgeVars>> /\ conn[disposer].disposal = "done"
    BY <1>3, <2>1 DEF CloseConnection
  <2>2. CASE UNCHANGED <<conn, bridgeVars>> /\ disposer = NoConn
    BY <1>3, <2>2 DEF CloseConnection
  <2>3. CASE BeginDispose(disposer) /\ UNCHANGED disposer
    BY <1>3, <2>3 DEF CloseConnection, BeginDispose
  <2>4. QED
    BY <1>3, <2>1, <2>2, <2>3 DEF CloseConnection
<1>4. ASSUME NEW c \in Conns, ReadFails(c) PROVE OwnOtherStep
  BY <1>4 DEF ReadFails
<1>5. ASSUME NEW c \in Conns, DisposeTracker(c) PROVE OwnOtherStep
  BY <1>5 DEF DisposeTracker
<1>6. ASSUME NEW c \in Conns, ClearTracker(c) PROVE OwnOtherStep
  BY <1>6 DEF ClearTracker
<1>7. ASSUME NEW c \in Conns, NEW f \in down[c], Receive(c, f) PROVE OwnOtherStep
  BY <1>1, <1>7 DEF Receive
<1>8. ASSUME NEW c \in Conns, NEW r \in Requests, TimerFires(c, r) PROVE OwnOtherStep
  BY <1>1, <1>8 DEF TimerFires
<1>9. CASE Environment
  <2>1. ASSUME NEW c \in Conns, PipeBreaks(c) PROVE OwnOtherStep
    BY <2>1 DEF PipeBreaks, BreakPipe
  <2>2. QED
    BY <1>1, <1>9, <2>1 DEF Environment, BridgeReads, BridgeAnswers, DescriptorChanges,
       DeadlinePasses, CallerCancels
<1>10. CASE UNCHANGED vars
  BY <1>1, <1>10 DEF vars
<1>11. QED
  BY <1>2, <1>3, <1>4, <1>5, <1>6, <1>7, <1>8, <1>9, <1>10 DEF OtherStep, Disposal

\* So ownership is inductive together with the invariant of the registry.
OwnedInv == IInv /\ OwnershipInv

\* The initial states satisfy it.
LEMMA InitOwned == Init => OwnedInv
<1> SUFFICES ASSUME Init PROVE OwnedInv
  OBVIOUS
<1>1. OwnershipInv
  BY ClientAssumption DEF Init, OwnershipInv, StaleWhileDisposing, DisposedIsDead,
     DisposedAtEnd, NoLiveConnectionLost, IsConnected, NewCall, NewConn, Conns
<1>2. QED
  BY <1>1, InitIInv DEF OwnedInv

\* Every step keeps it.
LEMMA StepOwned == OwnedInv /\ [Next]_vars => OwnedInv'
<1> SUFFICES ASSUME OwnedInv, [Next]_vars PROVE OwnedInv'
  OBVIOUS
<1>1. IInv' /\ Shaped /\ Shaped' /\ OwnershipInv
  BY StepIInv DEF OwnedInv, IInv
<1>2. ASSUME NEW r \in Requests, CallGoesOn(r) \/ WithTheBridge(r) PROVE OwnCallStep(r)
  BY <1>1, <1>2, ReadDescriptorsOwns, UpdateRegistryOwns, LookupOwns, DisposesOwns,
     HandshakeSucceedsOwns, HandshakeFailsOwns, InstallOwns, SendOwns, RegisterRequestOwns,
     WriteDoneOwns, WriteCancelledOwns, WriteLostOwns, AwaitOwns, SendCancelOwns
     DEF CallGoesOn, WithTheBridge
<1>3. CASE CloseRegistry \/ OtherStep \/ UNCHANGED vars
  BY <1>1, <1>3, OtherStepsOwn, OwnOtherStepKeeps DEF OwnedInv
<1>4. QED
  BY <1>1, <1>2, <1>3, OwnCallStepKeeps DEF Next, OtherStep, OwnedInv

\* A connection that is up is in the registry, being made or being disposed of, whatever calls
\* race for the registry: the only one nobody closes is the one that was made while the
\* registry was disposed (GetConnectionAsync returns without disposing it).
THEOREM NoConnectionLost == Spec => []NoLiveConnectionLost
<1>1. OwnedInv => NoLiveConnectionLost
  BY DEF OwnedInv, OwnershipInv
<1>2. QED
  BY <1>1, InitOwned, StepOwned, PTL DEF Spec

-----------------------------------------------------------------------------
(* While all is calm *)

\* A connection that serves calls, and one that was not made yet.
Healthy(c) ==
    /\ conn[c].life = 1 /\ conn[c].transport = "open" /\ conn[c].loop = "running"
    /\ conn[c].tracked /\ conn[c].disposal = "no"
    /\ ~terminalError[c] /\ ~isDisposed[c]
Fresh(c) ==
    conn[c].disposal = "no" /\ conn[c].loop = "none" /\ ~terminalError[c] /\ ~isDisposed[c]

\* The descriptor is what it was at first, and the registry holds it from the first call on.
CalmRegistry ==
    /\ file = FirstDescriptor /\ descriptor \in {NoDescriptor, FirstDescriptor}
    /\ connection # NoConn => descriptor = FirstDescriptor
    /\ ~closed /\ disposer = "idle"
    /\ \A r \in Requests : At(r, "idle") \/ At(r, "ended") \/ call[r].desc = FirstDescriptor
\* A call has a healthy connection, which is the one of the call that made it.
CalmConns ==
    \A r \in Requests :
       /\ call[r].step \in {"idle", "discovering", "lookup", "connecting"} => Fresh(r)
       /\ At(r, "installing") => Healthy(r)
       /\ call[r].conn # NoConn =>
             Healthy(call[r].conn) /\ call[call[r].conn].conn = call[r].conn
\* A call disposes only of the connection it made itself and did not install.
CalmDisposals ==
    \A r \in Requests :
       /\ call[r].stale # NoConn => call[r].stale = r
       /\ At(r, "disposing") =>
            /\ call[r].stale = r /\ call[r].conn # r
            /\ call[r].after \in {"ended", "sending"}
            /\ call[r].after = "ended" => call[r].conn = NoConn

\* What the completion of a call may be.
Fits(r) ==
    /\ call[r].step \notin {"writing", "waiting", "cancelling", "ended"} =>
          completion[r] = "none"
    /\ call[r].step \in {"writing", "waiting"} =>
          completion[r] \in {"waiting", "response", "timeout"}
    /\ At(r, "cancelling") =>
          call[r].told \in {"timeout", "cancelled"} /\ completion[r] \notin {"none", "waiting"}
    /\ At(r, "ended") /\ call[r].conn # NoConn =>
          call[r].told \in {"response", "timeout", "cancelled", "invalidOperation"}
\* A Cancel frame of the call is in the pipe, or the answer that its request is unknown.
CancelSeen(c, r) == Holds(up[c], Frame("cancel", r)) \/ Frame("notFound", r) \in down[c]
\* A request is in the tracker of its call's connection only, and a call whose Cancel was sent
\* waits no more.
CalmCalls ==
    \A r \in Requests :
       /\ Fits(r)
       /\ \A c \in Conns : r \in pending[c] => call[r].conn = c
       /\ \A c \in Conns : CancelSeen(c, r) => completion[r] \notin {"none", "waiting"}
CalmInv == CalmRegistry /\ CalmConns /\ CalmDisposals /\ CalmCalls

\* What a step of call r does to the registry and the connections.
CalmCallStep(r) ==
    /\ \A q \in Requests \ {r} : call'[q] = call[q]
    /\ UNCHANGED <<file, closed, disposer, terminalError, isDisposed>>
    /\ descriptor' \in {descriptor, FirstDescriptor} /\ connection' \in {connection, r}
    /\ connection' # NoConn => descriptor' = FirstDescriptor
    /\ \A c \in Conns \ {r} : conn'[c] = conn[c]
    /\ call'[r].step = "ended" \/ call'[r].desc = FirstDescriptor
    /\ call'[r].step \in {"idle", "discovering", "lookup", "connecting"} => Fresh(r)'
    /\ At(r, "installing")' => Healthy(r)'
    /\ call'[r].conn = call[r].conn /\ call[r].conn = r => conn'[r] = conn[r]
    /\ call'[r].conn # call[r].conn =>
          /\ call[r].conn = NoConn /\ Healthy(call[r].conn)'
          /\ call'[r].conn = r \/ call[call'[r].conn].conn = call'[r].conn
    /\ call'[r].stale # NoConn => call'[r].stale = r
    /\ At(r, "disposing")' =>
          /\ call'[r].stale = r /\ call'[r].conn # r
          /\ call'[r].after \in {"ended", "sending"}
          /\ call'[r].after = "ended" => call'[r].conn = NoConn

\* Such a step keeps them calm.
LEMMA CalmCallStepKeeps ==
    ASSUME Shaped, Shaped', CalmInv, NEW r \in Requests, CalmCallStep(r)
    PROVE  CalmRegistry' /\ CalmConns' /\ CalmDisposals'
<1> USE ClientAssumption DEF CalmCallStep, CalmInv, Conns
<1>1. CalmRegistry'
  BY DEF CalmRegistry, At
<1>2. CalmDisposals'
  BY DEF CalmDisposals, At
<1>3. ASSUME NEW q \in Requests
      PROVE  /\ call'[q].step \in {"idle", "discovering", "lookup", "connecting"} => Fresh(q)'
             /\ At(q, "installing")' => Healthy(q)'
  <2>1. CASE q = r
    BY <2>1
  <2>2. CASE q # r
    BY <2>2 DEF CalmConns, Fresh, Healthy, At
  <2>3. QED
    BY <2>1, <2>2
<1>4. ASSUME NEW q \in Requests, NEW c \in Conns, call'[q].conn = c
      PROVE  Healthy(c)' /\ call'[c].conn = c
  <2>1. CASE call[q].conn = c
    <3>1. Healthy(c) /\ call[c].conn = c
      BY <1>4, <2>1 DEF CalmConns
    <3>2. call'[c].conn = c
      BY <1>4, <3>1
    <3>3. conn'[c] = conn[c]
      BY <1>4, <3>1, <3>2
    <3>4. QED
      BY <3>1, <3>2, <3>3 DEF Healthy
  <2>2. CASE call[q].conn # c
    <3>1. q = r /\ Healthy(call[q].conn)' /\ (c = r \/ call[c].conn = c)
      BY <1>4, <2>2
    <3>2. QED
      BY <1>4, <3>1 DEF Healthy
  <2>3. QED
    BY <2>1, <2>2
<1>5. CalmConns'
  <2>1. \A q \in Requests : call'[q].conn \in Conns \cup {NoConn}
    BY DEF Shaped, Call
  <2>2. QED
    BY <1>3, <1>4, <2>1 DEF CalmConns, Healthy
<1>6. QED
  BY <1>1, <1>2, <1>5

USE DEF CalmCallStep, Shaped, Call, Connection, Conns, TrackersShaped, CalmInv, CalmRegistry,
    CalmConns, CalmDisposals, RegistryInv, ConnFollowsStep, InstalledByItsCall,
    ConnectionFitsDescriptor, MadeForDescriptor, HasConn, HasNoConn, EarlySteps, LateSteps,
    Healthy, Fresh, IsConnected, At, Goto, Ended, Left, NewConn, BeginDispose, BreakPipe,
    CallTimedOut, CallCancelled, Push, Tear, WriteNothing, registryVars, envVars, tokenVars,
    trackerVars

\* Every step of a call is such a step.  ReadDescriptors changes the call only.
LEMMA ReadDescriptorsCalm ==
    ASSUME Shaped, Shaped', TrackersShaped, RegistryInv, RegistryInv', CalmInv, calm, calm',
           NEW r \in Requests, ReadDescriptors(r)
    PROVE  CalmCallStep(r)
BY ClientAssumption, EndFields, DisposeFields DEF ReadDescriptors

\* UpdateRegistry: the descriptor is still the first one, so no connection is stale.
LEMMA UpdateRegistryCalm ==
    ASSUME Shaped, Shaped', TrackersShaped, RegistryInv, RegistryInv', CalmInv, calm, calm',
           NEW r \in Requests, UpdateRegistry(r)
    PROVE  CalmCallStep(r)
<1> USE ClientAssumption DEF UpdateRegistry
<1>1. CASE EndCall(r, "cancelled") /\ UNCHANGED registryVars
  BY <1>1, EndFields
<1>2. CASE /\ connection' = connection /\ Goto(r, "lookup")
           /\ descriptor' = call[r].desc /\ UNCHANGED closed
  BY <1>2
<1>3. ~(connection # NoConn /\ IsStale(connection, call[r].desc))
  BY DEF IsStale
<1>4. QED
  BY <1>1, <1>2, <1>3

\* Lookup: what the registry holds is connected.
LEMMA LookupCalm ==
    ASSUME Shaped, Shaped', TrackersShaped, RegistryInv, RegistryInv', CalmInv, calm, calm',
           NEW r \in Requests, Lookup(r)
    PROVE  CalmCallStep(r)
BY ClientAssumption, EndFields, DisposeFields DEF Lookup

\* Disposes: the call disposes the connection it made itself.
LEMMA DisposesCalm ==
    ASSUME Shaped, Shaped', TrackersShaped, RegistryInv, RegistryInv', CalmInv, calm, calm',
           NEW r \in Requests, Disposes(r)
    PROVE  CalmCallStep(r)
BY SMTT(60), ClientAssumption, EndFields, DisposeFields DEF Disposes

\* HandshakeSucceeds: a fresh connection becomes a healthy one.
LEMMA HandshakeSucceedsCalm ==
    ASSUME Shaped, Shaped', TrackersShaped, RegistryInv, RegistryInv', CalmInv, calm, calm',
           NEW r \in Requests, HandshakeSucceeds(r)
    PROVE  CalmCallStep(r)
BY SMTT(60), ClientAssumption, EndFields, DisposeFields DEF HandshakeSucceeds

\* HandshakeFails: the call has no connection yet.
LEMMA HandshakeFailsCalm ==
    ASSUME Shaped, Shaped', TrackersShaped, RegistryInv, RegistryInv', CalmInv, calm, calm',
           NEW r \in Requests, NEW told \in {"cancelled", "io"}, HandshakeFails(r, told)
    PROVE  CalmCallStep(r)
BY ClientAssumption, EndFields, DisposeFields DEF HandshakeFails

\* Install: the call gets its own connection, or the one another call installed.
LEMMA InstallCalm ==
    ASSUME Shaped, Shaped', TrackersShaped, RegistryInv, RegistryInv', CalmInv, calm, calm',
           NEW r \in Requests, Install(r)
    PROVE  CalmCallStep(r)
BY ClientAssumption, EndFields, DisposeFields DEF Install

\* Send changes the step of the call only.
LEMMA SendCalm ==
    ASSUME Shaped, Shaped', TrackersShaped, RegistryInv, RegistryInv', CalmInv, calm, calm',
           NEW r \in Requests, Send(r)
    PROVE  CalmCallStep(r)
BY ClientAssumption, EndFields, DisposeFields DEF Send

\* RegisterRequest: the tracker of a healthy connection is not disposed.
LEMMA RegisterRequestCalm ==
    ASSUME Shaped, Shaped', TrackersShaped, RegistryInv, RegistryInv', CalmInv, calm, calm',
           NEW r \in Requests, RegisterRequest(r)
    PROVE  CalmCallStep(r)
<1> USE ClientAssumption DEF RegisterRequest
<1>1. conn[call[r].conn].tracked /\ ~isDisposed[call[r].conn]
  OBVIOUS
<1>2. Ended(r, "invalidOperation") \/ Goto(r, "writing")
  BY <1>1, EndFields DEF Tracker!RegisterError
<1>3. UNCHANGED <<terminalError, isDisposed>>
  BY DEF Tracker!Register
<1>4. QED
  BY <1>2, <1>3

\* WriteDone changes the step of the call only.
LEMMA WriteDoneCalm ==
    ASSUME Shaped, Shaped', TrackersShaped, RegistryInv, RegistryInv', CalmInv, calm, calm',
           NEW r \in Requests, WriteDone(r)
    PROVE  CalmCallStep(r)
BY ClientAssumption, EndFields, DisposeFields DEF WriteDone

\* WriteCancelled: the frame is not torn, as all is still calm.
LEMMA WriteCancelledCalm ==
    ASSUME Shaped, Shaped', TrackersShaped, RegistryInv, RegistryInv', CalmInv, calm, calm',
           NEW r \in Requests, WriteCancelled(r)
    PROVE  CalmCallStep(r)
<1> USE ClientAssumption DEF WriteCancelled
<1>1. conn' = conn /\ UNCHANGED <<terminalError, isDisposed>>
  BY DEF Tracker!TryCancel
<1>2. conn[call[r].conn].tracked
  OBVIOUS
<1>3. call' = [call EXCEPT ![r].step = "cancelling", ![r].told = "cancelled"]
  BY <1>2
<1>4. QED
  BY SMTT(60), <1>1, <1>3

\* WriteLost cannot happen: the pipe of a healthy connection is open.
LEMMA WriteLostCalm ==
    ASSUME Shaped, Shaped', TrackersShaped, RegistryInv, RegistryInv', CalmInv, calm, calm',
           NEW r \in Requests, WriteLost(r)
    PROVE  CalmCallStep(r)
BY ClientAssumption, EndFields, DisposeFields DEF WriteLost

\* Await: the completion is the response or the deadline, so the connection does not fail.
LEMMA AwaitCalm ==
    ASSUME Shaped, Shaped', TrackersShaped, RegistryInv, RegistryInv', CalmInv, calm, calm',
           NEW r \in Requests, Await(r)
    PROVE  CalmCallStep(r)
<1> USE ClientAssumption DEF Await
<1>1. conn' = conn /\ UNCHANGED <<terminalError, isDisposed>>
  BY DEF Tracker!TryCancel, CalmCalls, Fits
<1>2. \/ \E told \in {"timeout", "cancelled"} :
            call' = [call EXCEPT ![r].step = "cancelling", ![r].told = told]
      \/ Ended(r, "response")
  <2>1. conn[call[r].conn].tracked /\ completion[r] \in {"waiting", "response", "timeout"}
    BY DEF CalmCalls, Fits
  <2>2. CASE EndCall(r, "response")
    BY <2>2, EndFields
  <2>3. CASE CallTimedOut(r)
    BY <2>3
  <2>4. CASE CallCancelled(r)
    BY <2>1, <2>4
  <2>5. QED
    BY <2>1, <2>2, <2>3, <2>4
<1>3. QED
  BY <1>1, <1>2

\* SendCancel: the frame is not torn, as all is still calm.
LEMMA SendCancelCalm ==
    ASSUME Shaped, Shaped', TrackersShaped, RegistryInv, RegistryInv', CalmInv, calm, calm',
           NEW r \in Requests, SendCancel(r)
    PROVE  CalmCallStep(r)
BY ClientAssumption, EndFields, DisposeFields DEF SendCancel

HIDE DEF CalmCallStep, Shaped, Call, Connection, Conns, TrackersShaped, CalmInv, CalmRegistry,
    CalmConns, CalmDisposals, RegistryInv, ConnFollowsStep, InstalledByItsCall,
    ConnectionFitsDescriptor, MadeForDescriptor, HasConn, HasNoConn, EarlySteps, LateSteps,
    Healthy, Fresh, IsConnected, At, Goto, Ended, Left, NewConn, BeginDispose, BreakPipe,
    CallTimedOut, CallCancelled, Push, Tear, WriteNothing, registryVars, envVars, tokenVars,
    trackerVars

-----------------------------------------------------------------------------
(* The completions, while all is calm *)

\* What a step of call r does to the completions and to what the trackers and pipes hold.
CompletionStep(r) ==
    /\ \A q \in Requests \ {r} : call'[q] = call[q] /\ completion'[q] = completion[q]
    /\ Fits(r)'
    /\ \A c \in Conns :
          /\ \A q \in Requests \ {r} : q \in pending'[c] => q \in pending[c]
          /\ r \in pending'[c] => call'[r].conn = c
          /\ \A q \in Requests \ {r} : CancelSeen(c, q)' => CancelSeen(c, q)
          /\ CancelSeen(c, r)' => completion'[r] \notin {"none", "waiting"}

\* Such a step keeps what is known of them.
LEMMA CompletionStepKeeps ==
    ASSUME CalmCalls, NEW r \in Requests, CompletionStep(r)
    PROVE  CalmCalls'
<1>1. ASSUME NEW q \in Requests PROVE Fits(q)'
  BY DEF CompletionStep, CalmCalls, Fits, At
<1>2. QED
  BY <1>1 DEF CompletionStep, CalmCalls

\* A call that writes a frame adds no Cancel but its own.
LEMMA FramesOfOthers ==
    ASSUME PipesShaped, NEW r \in Requests, NEW kind \in {"request", "cancel"}, Pushes(r, kind),
           NEW c \in Conns, NEW q \in Requests, CancelSeen(c, q)', ~CancelSeen(c, q)
    PROVE  q = r /\ kind = "cancel"
<1> USE DEF PipesShaped
<1>1. call[r].conn = c /\ up'[c] = Append(up[c], Frame(kind, r)) /\ down' = down
  BY DEF Pushes, CancelSeen
<1>2. Frame(kind, r) \in UpFrame
  BY DEF UpFrame, Frame, UpKinds
<1>3. Frame("cancel", q) = Frame(kind, r)
  BY <1>1, <1>2, HoldsAppend DEF CancelSeen
<1>4. QED
  BY <1>3, FrameValues

\* Pipes that are kept or emptied hold no new one.
LEMMA PipeKept ==
    ASSUME PipesShaped, UNCHANGED bridgeVars \/ \E d : EmptyPipe(d),
           NEW c \in Conns, NEW q \in Requests, CancelSeen(c, q)'
    PROVE  CancelSeen(c, q)
<1>1. CASE UNCHANGED bridgeVars
  BY <1>1 DEF CancelSeen, bridgeVars
<1>2. ASSUME NEW d, EmptyPipe(d) PROVE CancelSeen(c, q)
  BY <1>2, HoldsEmpty DEF EmptyPipe, CancelSeen, PipesShaped
<1>3. QED
  BY <1>1, <1>2

\* How a call that had its connection may end.
OkEnds == {"response", "timeout", "cancelled", "invalidOperation"}

\* A call that has not registered its request yet has no completion, and ends well if it ends
\* with a connection.
LEMMA EarlyCompletes ==
    ASSUME Shaped, RegistryInv, TrackersShaped, PipesShaped, CalmInv, NEW r \in Requests,
           CalmCallStep(r),
           UNCHANGED <<pending, completion>>,
           call[r].step \notin {"writing", "waiting", "cancelling", "ended"},
           call'[r].step \notin {"writing", "waiting", "cancelling"},
           At(r, "ended")' => call'[r].conn = NoConn \/ call'[r].told \in OkEnds,
           UNCHANGED bridgeVars \/ \E d : EmptyPipe(d)
    PROVE  CompletionStep(r)
<1>1. Fits(r) /\ completion[r] = "none" /\ completion' = completion /\ pending' = pending
  BY DEF CalmInv, CalmCalls, Fits
<1>2. Fits(r)'
  BY <1>1 DEF Fits, At, OkEnds
<1>3. ASSUME NEW c \in Conns, r \in pending'[c] PROVE call'[r].conn = c
  BY <1>1, <1>3, ClientAssumption DEF CalmInv, CalmCalls, CalmCallStep, Conns
<1>4. ASSUME NEW c \in Conns, NEW q \in Requests, CancelSeen(c, q)' PROVE CancelSeen(c, q)
  BY <1>4, PipeKept
<1>5. QED
  BY <1>1, <1>2, <1>3, <1>4 DEF CompletionStep, CalmCallStep, CalmInv, CalmCalls

\* The steps of a call up to the registration.
Early(r) ==
    \/ ReadDescriptors(r) \/ UpdateRegistry(r) \/ Lookup(r) \/ Disposes(r)
    \/ HandshakeSucceeds(r) \/ HandshakeFails(r, "cancelled") \/ HandshakeFails(r, "io")
    \/ Install(r) \/ Send(r)

\* Those are such steps,
LEMMA EarlyStep ==
    ASSUME Shaped, RegistryInv, RegistryInv', TrackersShaped, PipesShaped, CalmInv,
           NEW r \in Requests, CalmCallStep(r), Early(r)
    PROVE  CompletionStep(r)
<1> USE DEF At
<1>1. UNCHANGED <<pending, completion>>
  BY DEF Early, ReadDescriptors, UpdateRegistry, Lookup, Disposes, HandshakeSucceeds,
     HandshakeFails, Install, Send, trackerVars
<1>2. call[r].step \notin {"writing", "waiting", "cancelling", "ended"}
  BY DEF Early, ReadDescriptors, UpdateRegistry, Lookup, Disposes, HandshakeSucceeds,
     HandshakeFails, Install, Send
<1>3. UNCHANGED bridgeVars \/ \E d : EmptyPipe(d)
  BY DEF Early, ReadDescriptors, UpdateRegistry, Lookup, Disposes, HandshakeSucceeds,
     HandshakeFails, Install, Send, BeginDispose
<1>4. /\ call'[r].step \notin {"writing", "waiting", "cancelling"}
      /\ At(r, "ended")' => call'[r].conn = NoConn \/ call'[r].told \in OkEnds
  <2> USE DEF Shaped, Call, Ended, Left, Goto, RegistryInv, ConnFollowsStep, HasNoConn,
     HasConn, EarlySteps, LateSteps, OkEnds
  <2>1. CASE ReadDescriptors(r)
    BY <2>1, EndFields DEF ReadDescriptors
  <2>2. CASE UpdateRegistry(r)
    BY <2>2, EndFields, DisposeFields DEF UpdateRegistry
  <2>3. CASE Lookup(r)
    BY <2>3, EndFields DEF Lookup
  <2>4. CASE Disposes(r)
    BY <2>4, EndFields DEF Disposes, CalmInv, CalmDisposals
  <2>5. CASE HandshakeSucceeds(r)
    BY <2>5 DEF HandshakeSucceeds
  <2>6. CASE HandshakeFails(r, "cancelled") \/ HandshakeFails(r, "io")
    BY <2>6, DisposeFields DEF HandshakeFails
  <2>7. CASE Install(r)
    BY <2>7, EndFields, DisposeFields DEF Install
  <2>8. CASE Send(r)
    <3>1. Healthy(call[r].conn)
      BY <2>8, ClientAssumption DEF Send, CalmInv, CalmConns, Conns
    <3>2. QED
      BY <2>8, <3>1, EndFields DEF Send, Healthy, IsConnected
  <2>9. QED
    BY <2>1, <2>2, <2>3, <2>4, <2>5, <2>6, <2>7, <2>8 DEF Early
<1>5. QED
  BY <1>1, <1>2, <1>3, <1>4, EarlyCompletes DEF OkEnds

\* and so is the registration, which a healthy connection refuses only when it is full.
LEMMA RegisterCompletes ==
    ASSUME Shaped, Shaped', RegistryInv, TrackersShaped, CalmInv, NEW r \in Requests,
           CalmCallStep(r), RegisterRequest(r)
    PROVE  CompletionStep(r)
<1> DEFINE d == call[r].conn
<1>1. d \in Conns /\ Healthy(d) /\ At(r, "registering")
  BY ClientAssumption DEF RegisterRequest, RegistryInv, ConnFollowsStep, HasConn, LateSteps,
     At, CalmInv, CalmConns, Conns
<1>2. /\ Fits(r) /\ completion[r] = "none" /\ \A c \in Conns : ~CancelSeen(c, r)
      /\ \A c \in Conns : r \in pending[c] => d = c
  BY <1>1 DEF CalmInv, CalmCalls, Fits, At
<1>3. UNCHANGED bridgeVars
  BY DEF RegisterRequest
<1>4. CASE Ended(r, "invalidOperation") /\ UNCHANGED trackerVars
  BY <1>2, <1>3, <1>4 DEF Ended, CompletionStep, CalmCallStep, Fits, At, CancelSeen,
     trackerVars, bridgeVars
<1>5. CASE Tracker!Register(d, r) /\ Goto(r, "writing")
  <2>1. call'[r].step = "writing" /\ call'[r].conn = d
    BY <1>5 DEF Goto, Shaped, Call
  <2>2. /\ completion' = [completion EXCEPT ![r] = "waiting"]
        /\ pending' = [pending EXCEPT ![d] = @ \cup {r}]
    BY <1>5 DEF Tracker!Register
  <2>3. Fits(r)'
    BY <2>1, <2>2 DEF Fits, At, TrackersShaped
  <2>4. \A c \in Conns : /\ \A q \in Requests \ {r} : q \in pending'[c] => q \in pending[c]
                         /\ r \in pending'[c] => c = d
    BY <1>2, <2>2 DEF TrackersShaped
  <2>5. \A q \in Requests \ {r} : completion'[q] = completion[q]
    BY <2>2 DEF TrackersShaped
  <2>6. \A c \in Conns, q \in Requests : CancelSeen(c, q)' <=> CancelSeen(c, q)
    BY <1>3 DEF CancelSeen, bridgeVars
  <2>7. QED
    BY <1>2, <2>1, <2>3, <2>4, <2>5, <2>6 DEF CompletionStep, CalmCallStep
<1>6. QED
  <2>1. conn[d].tracked /\ Tracker!RegisterError(d) \in {"none", "invalidOperation"}
    BY <1>1 DEF Healthy, Tracker!RegisterError
  <2>2. QED
    BY <1>1, <1>4, <1>5, <2>1, EndFields DEF RegisterRequest

\* The request of the call is taken out of its wait (TryCancel).
Settled(v) == v \notin {"none", "waiting"}
Cancels(r) ==
    completion' = [q \in Requests |->
                      IF q \in pending[call[r].conn] \cap {r} /\ completion[q] = "waiting"
                      THEN "cancelled" ELSE completion[q]]

\* A call that has written its request, or given it up, and later at most sends a Cancel frame.
LEMMA LateCompletes ==
    ASSUME TrackersShaped, PipesShaped, CalmInv, ConnsStay, NEW r \in Requests, CalmCallStep(r),
           call[r].conn \in Conns, pending' = pending,
           completion' = completion \/ Cancels(r), Fits(r)', completion[r] # "none",
           \A c \in Conns : CancelSeen(c, r)' => CancelSeen(c, r) \/ Settled(completion[r]),
           UNCHANGED bridgeVars \/ Pushes(r, "request") \/ Pushes(r, "cancel")
    PROVE  CompletionStep(r)
<1> USE DEF Settled, Cancels
<1>1. \A q \in Requests : /\ q # r => completion'[q] = completion[q]
                          /\ Settled(completion[q]) => Settled(completion'[q])
  BY DEF TrackersShaped
<1>2. ASSUME NEW c \in Conns, NEW q \in Requests, CancelSeen(c, q)', ~CancelSeen(c, q)
      PROVE  q = r
  <2>1. CASE UNCHANGED bridgeVars
    BY <1>2, <2>1, PipeKept
  <2>2. CASE Pushes(r, "request") \/ Pushes(r, "cancel")
    BY <1>2, <2>2, FramesOfOthers
  <2>3. QED
    BY <2>1, <2>2
<1>3. \A c \in Conns : CancelSeen(c, r)' => completion'[r] \notin {"none", "waiting"}
  BY <1>1 DEF CalmInv, CalmCalls
<1>4. \A c \in Conns : r \in pending'[c] => call'[r].conn = c
  BY DEF CalmInv, CalmCalls, ConnsStay
<1>5. QED
  BY <1>1, <1>2, <1>3, <1>4 DEF CompletionStep, CalmCallStep

\* The steps from the write on.
LEMMA LateStepCompletes ==
    ASSUME Shaped, RegistryInv, TrackersShaped, WaitersAreTracked, PipesShaped, CalmInv, calm',
           ConnsStay, NEW r \in Requests, CalmCallStep(r),
           WriteDone(r) \/ WriteCancelled(r) \/ WriteLost(r) \/ Await(r) \/ SendCancel(r)
    PROVE  CompletionStep(r)
<1> DEFINE d == call[r].conn
<1>1. d \in Conns
  BY DEF WriteDone, WriteCancelled, WriteLost, Await, SendCancel, RegistryInv,
     ConnFollowsStep, HasConn, LateSteps, At
<1>2. Healthy(d)
  BY <1>1, ClientAssumption DEF CalmInv, CalmConns, Conns
<1>3. Fits(r) /\ completion[r] # "none"
  BY DEF CalmInv, CalmCalls, Fits, WriteDone, WriteCancelled, WriteLost, Await, SendCancel, At
<1>4. ASSUME UNCHANGED bridgeVars \/ Pushes(r, "request"), NEW c \in Conns, CancelSeen(c, r)'
      PROVE  CancelSeen(c, r)
  <2>1. CASE UNCHANGED bridgeVars
    BY <1>4, <2>1, PipeKept
  <2>2. CASE Pushes(r, "request")
    BY <1>4, <2>2, FramesOfOthers
  <2>3. QED
    BY <1>4, <2>1, <2>2
<1>5. CASE WriteDone(r)
  <2>1. /\ call'[r].step = "waiting" /\ Pushes(r, "request")
        /\ pending' = pending /\ completion' = completion
    BY <1>1, <1>5 DEF WriteDone, Goto, Push, Pushes, trackerVars, Shaped, Call
  <2>2. Fits(r)'
    BY <1>3, <1>5, <2>1 DEF Fits, At, WriteDone
  <2>3. QED
    BY <1>1, <1>3, <1>4, <2>1, <2>2, LateCompletes
<1>6. CASE /\ CallCancelled(r) /\ call[r].step \in {"writing", "waiting"}
           /\ UNCHANGED bridgeVars \/ Pushes(r, "request")
  <2>1. /\ Tracker!TryCancel(d, r)
        /\ call' = [call EXCEPT ![r].step = "cancelling", ![r].told = "cancelled"]
    BY <1>2, <1>6 DEF CallCancelled, Healthy
  <2>2. pending' = pending /\ Cancels(r)
    BY <2>1 DEF Tracker!TryCancel, Tracker!Settle, Cancels
  <2>3. call'[r].step = "cancelling" /\ call'[r].told = "cancelled"
    BY <2>1 DEF Shaped, Call
  <2>4. completion'[r] \notin {"none", "waiting"}
    BY <1>3, <2>2 DEF WaitersAreTracked, Cancels
  <2>5. Fits(r)'
    BY <2>3, <2>4 DEF Fits, At
  <2>6. QED
    BY <1>1, <1>3, <1>4, <1>6, <2>2, <2>5, LateCompletes
<1>7. CASE WriteCancelled(r)
  BY <1>1, <1>6, <1>7 DEF WriteCancelled, At, WriteNothing, Tear, BreakPipe, Push, Pushes
<1>8. CASE WriteLost(r)
  BY <1>2, <1>8 DEF WriteLost, Healthy
<1>9. CASE Await(r)
  <2>1. completion[r] \in {"waiting", "response", "timeout"} /\ UNCHANGED bridgeVars
    BY <1>3, <1>9 DEF Await, Fits, At
  <2>2. \A c \in Conns : CancelSeen(c, r)' => CancelSeen(c, r)
    BY <1>4, <2>1
  <2>3. CASE EndCall(r, "response") /\ UNCHANGED <<conn, trackerVars>>
    <3>1. call'[r].step = "ended" /\ call'[r].told = "response"
      BY <2>3, EndFields DEF Ended
    <3>2. Fits(r)'
      BY <3>1 DEF Fits, At
    <3>3. QED
      BY <1>1, <1>3, <2>1, <2>2, <2>3, <3>2, LateCompletes DEF trackerVars
  <2>4. CASE CallTimedOut(r) /\ completion[r] = "timeout"
    <3>1. call'[r].step = "cancelling" /\ call'[r].told = "timeout" /\ UNCHANGED trackerVars
      BY <2>4 DEF CallTimedOut, Shaped, Call
    <3>2. Fits(r)'
      BY <2>4, <3>1 DEF Fits, At, trackerVars
    <3>3. QED
      BY <1>1, <1>3, <2>1, <2>2, <3>1, <3>2, LateCompletes DEF trackerVars
  <2>5. QED
    BY <1>6, <1>9, <2>1, <2>3, <2>4 DEF Await, At
<1>10. CASE SendCancel(r)
  <2>1. Settled(completion[r]) /\ pending' = pending /\ completion' = completion
    BY <1>3, <1>10 DEF SendCancel, Fits, At, trackerVars, Settled
  <2>2. call'[r].step = "ended" /\ call'[r].told \in {"timeout", "cancelled", "invalidOperation"}
    BY <1>3, <1>10, EndFields DEF SendCancel, Ended, Fits, At
  <2>3. Fits(r)'
    BY <2>2 DEF Fits, At
  <2>4. UNCHANGED bridgeVars \/ Pushes(r, "cancel")
    BY <1>1, <1>10 DEF SendCancel, WriteNothing, Tear, BreakPipe, Push, Pushes
  <2>5. QED
    BY <1>1, <1>3, <2>1, <2>3, <2>4, LateCompletes
<1>11. QED
  BY <1>5, <1>7, <1>8, <1>9, <1>10

-----------------------------------------------------------------------------
(* The steps of no call, while all is calm *)

\* Such a step leaves the healthy connections healthy, and a completion it settles is the
\* response or the deadline.
CalmOtherStep ==
    /\ UNCHANGED <<file, registryVars, disposer, call>>
    /\ \A c \in Conns : /\ Healthy(c) => Healthy(c)'
                        /\ Fresh(c) => Fresh(c)'
                        /\ pending'[c] \subseteq pending[c]
    /\ \A q \in Requests :
          /\ \/ completion'[q] = completion[q]
             \/ completion[q] = "waiting" /\ completion'[q] \in {"response", "timeout"}
          /\ \A c \in Conns : CancelSeen(c, q)' => CancelSeen(c, q)

\* It keeps all calm.
LEMMA CalmOtherStepKeeps ==
    ASSUME Shaped, CalmInv, CalmOtherStep
    PROVE  CalmInv'
<1> USE DEF CalmInv, CalmOtherStep
<1>1. CalmRegistry'
  BY DEF CalmRegistry, At, registryVars
<1>2. ASSUME NEW r \in Requests, call[r].conn # NoConn PROVE Healthy(call[r].conn)'
  <2>1. PICK c \in Conns : call[r].conn = c
    BY <1>2 DEF Shaped, Call
  <2>2. Healthy(c)'
    BY <1>2, <2>1 DEF CalmConns
  <2>3. call'[r].conn = c
    BY <2>1
  <2>4. QED
    BY <2>2, <2>3 DEF Healthy
<1>3. CalmConns'
  BY <1>2 DEF CalmConns, At, Conns
<1>4. CalmDisposals'
  BY DEF CalmDisposals, At
<1>5. ASSUME NEW r \in Requests PROVE Fits(r)'
  BY DEF CalmCalls, Fits, At
<1>6. CalmCalls'
  BY <1>5 DEF CalmCalls
<1>7. QED
  BY <1>1, <1>3, <1>4, <1>6

\* In a calm state only the healthy connections have requests.
LEMMA UnhealthyIsEmpty ==
    ASSUME TrackersShaped, CalmInv, NEW c \in Conns, ~Healthy(c)
    PROVE  pending[c] = {}
BY ClientAssumption DEF TrackersShaped, CalmInv, CalmCalls, CalmConns, Conns

\* So a connection that fails then settles nothing.
LEMMA EmptyFails ==
    ASSUME TrackersShaped, NEW c \in Conns, pending[c] = {}, NEW v, Tracker!FailPending(c, v)
    PROVE  /\ pending' = pending /\ completion' = completion
           /\ \A d \in Conns \ {c} : terminalError'[d] = terminalError[d]
BY DEF TrackersShaped, Tracker!FailPending, Tracker!Settle

\* Every step of no call that leaves all calm is such a step.  A notFound settles nothing, for
\* the call that sent the Cancel has been settled before.
LEMMA OtherStepsCalm ==
    ASSUME Shaped, TrackersShaped, RestShaped, PipesShaped, CalmInv, calm',
           CloseRegistry \/ OtherStep \/ UNCHANGED vars
    PROVE  CalmOtherStep
<1> USE DEF CalmOtherStep, trackerVars
<1>1. ASSUME UNCHANGED <<file, registryVars, disposer, call>>,
             \A c \in Conns : Healthy(c) => Healthy(c)',
             \A c \in Conns : Fresh(c) => Fresh(c)',
             \A c \in Conns : pending'[c] \subseteq pending[c],
             \A q \in Requests :
                \/ completion'[q] = completion[q]
                \/ completion[q] = "waiting" /\ completion'[q] \in {"response", "timeout"},
             UNCHANGED bridgeVars
      PROVE  CalmOtherStep
  BY <1>1, PipeKept
<1>2. (UNCHANGED <<conn, terminalError, isDisposed>>)
           => \A c \in Conns : (Healthy(c) => Healthy(c)') /\ (Fresh(c) => Fresh(c)')
  BY DEF Healthy, Fresh
<1>3. ~CloseRegistry /\ ~CloseConnection
  BY DEF CloseRegistry, CloseConnection, CalmInv, CalmRegistry
<1>4. ASSUME NEW c \in Conns, ReadFails(c) PROVE CalmOtherStep
  <2>1. ~Healthy(c) /\ ~Fresh(c)
    BY <1>4 DEF ReadFails, Healthy, Fresh
  <2>2. pending' = pending /\ completion' = completion /\ UNCHANGED isDisposed
        /\ \A d \in Conns \ {c} : terminalError'[d] = terminalError[d]
    BY <1>4, <2>1, UnhealthyIsEmpty, EmptyFails DEF ReadFails, Tracker!FailConnection
  <2>3. \A d \in Conns \ {c} : conn'[d] = conn[d]
    BY <1>4 DEF ReadFails, Shaped
  <2>4. \A d \in Conns : (Healthy(d) => Healthy(d)') /\ (Fresh(d) => Fresh(d)')
    BY <2>1, <2>2, <2>3 DEF Healthy, Fresh
  <2>5. QED
    BY <1>1, <1>4, <2>2, <2>4 DEF ReadFails, envVars
<1>5. ASSUME NEW c \in Conns, DisposeTracker(c) PROVE CalmOtherStep
  <2>1. ~Healthy(c) /\ ~Fresh(c)
    BY <1>5 DEF DisposeTracker, Healthy, Fresh
  <2>2. /\ pending' = pending /\ completion' = completion
        /\ \A d \in Conns \ {c} :
              terminalError'[d] = terminalError[d] /\ isDisposed'[d] = isDisposed[d]
    <3>1. CASE UNCHANGED trackerVars
      BY <3>1
    <3>2. CASE Tracker!Dispose(c)
      <4>1. \A d \in Conns \ {c} : isDisposed'[d] = isDisposed[d]
        BY <3>2 DEF Tracker!Dispose, RestShaped
      <4>2. QED
        BY <2>1, <3>2, <4>1, UnhealthyIsEmpty, EmptyFails DEF Tracker!Dispose
    <3>3. QED
      BY <1>5, <3>1, <3>2 DEF DisposeTracker
  <2>3. \A d \in Conns \ {c} : conn'[d] = conn[d]
    BY <1>5 DEF DisposeTracker, Shaped
  <2>4. \A d \in Conns : (Healthy(d) => Healthy(d)') /\ (Fresh(d) => Fresh(d)')
    BY <2>1, <2>2, <2>3 DEF Healthy, Fresh
  <2>5. QED
    BY <1>1, <1>5, <2>2, <2>4 DEF DisposeTracker, envVars
<1>6. ASSUME NEW c \in Conns, ClearTracker(c) PROVE CalmOtherStep
  <2>1. ~Healthy(c) /\ ~Fresh(c)
    BY <1>6 DEF ClearTracker, Healthy, Fresh
  <2>2. \A d \in Conns \ {c} : conn'[d] = conn[d]
    BY <1>6 DEF ClearTracker, Shaped
  <2>3. \A d \in Conns : (Healthy(d) => Healthy(d)') /\ (Fresh(d) => Fresh(d)')
    BY <1>6, <2>1, <2>2 DEF Healthy, Fresh, ClearTracker
  <2>4. QED
    BY <1>1, <1>6, <2>3 DEF ClearTracker, envVars
<1>7. ASSUME NEW c \in Conns, NEW f \in down[c], Receive(c, f) PROVE CalmOtherStep
  <2>1. UNCHANGED <<file, registryVars, disposer, call, conn, terminalError, isDisposed, up>>
    BY <1>7 DEF Receive, Tracker!TryComplete, Tracker!TryAcknowledgeCancellation, envVars
  <2>2. \A d \in Conns : pending'[d] \subseteq pending[d]
    BY <1>7 DEF Receive, Tracker!TryComplete, Tracker!TryAcknowledgeCancellation,
       Tracker!Remove, TrackersShaped
  <2>3. ASSUME NEW q \in Requests
        PROVE  \/ completion'[q] = completion[q]
               \/ completion[q] = "waiting" /\ completion'[q] \in {"response", "timeout"}
    <3>1. CASE Tracker!TryComplete(c, f.id)
      BY <3>1 DEF Tracker!TryComplete, Tracker!Settle
    <3>2. CASE f.kind = "notFound" /\ Tracker!TryAcknowledgeCancellation(c, f.id)
      <4>1. f \in DownFrame /\ f.id \in Requests /\ f = Frame("notFound", f.id)
        BY <3>2 DEF PipesShaped, DownFrame, Frame
      <4>2. completion[f.id] \notin {"none", "waiting"}
        BY <4>1 DEF CancelSeen, CalmInv, CalmCalls
      <4>3. QED
        BY <3>2, <4>2 DEF Tracker!TryAcknowledgeCancellation, Tracker!Settle
    <3>3. QED
      BY <1>7, <3>1, <3>2 DEF Receive, PipesShaped, DownFrame, DownKinds
  <2>4. \A d \in Conns, q \in Requests : CancelSeen(d, q)' => CancelSeen(d, q)
    BY <1>7, <2>1 DEF Receive, CancelSeen, PipesShaped
  <2>5. QED
    BY <1>2, <2>1, <2>2, <2>3, <2>4
<1>8. ASSUME NEW c \in Conns, NEW r \in Requests, TimerFires(c, r) PROVE CalmOtherStep
  <2>1. /\ UNCHANGED <<file, registryVars, disposer, call, conn, bridgeVars>>
        /\ UNCHANGED <<terminalError, isDisposed>>
    BY <1>8 DEF TimerFires, Tracker!TimeoutRequest, envVars
  <2>2. \A d \in Conns : pending'[d] \subseteq pending[d]
    BY <1>8 DEF TimerFires, Tracker!TimeoutRequest, Tracker!Remove, TrackersShaped
  <2>3. ASSUME NEW q \in Requests
        PROVE  \/ completion'[q] = completion[q]
               \/ completion[q] = "waiting" /\ completion'[q] \in {"response", "timeout"}
    BY <1>8 DEF TimerFires, Tracker!TimeoutRequest, Tracker!Settle
  <2>4. QED
    BY <1>1, <1>2, <2>1, <2>2, <2>3
<1>9. CASE Environment
  <2>1. ASSUME NEW c \in Conns, BridgeReads(c) PROVE CalmOtherStep
    <3>1. UNCHANGED <<file, registryVars, disposer, call, conn, trackerVars>>
      BY <2>1 DEF BridgeReads, envVars
    <3>2. /\ up[c] \in Seq(UpFrame) /\ up[c] # <<>> /\ up'[c] = Tail(up[c])
          /\ Head(up[c]) \in UpFrame
      <4>1. up[c] \in Seq(UpFrame) /\ up[c] # <<>> /\ up'[c] = Tail(up[c])
        BY <2>1 DEF BridgeReads, PipesShaped
      <4>2. QED
        BY <4>1, TailElements
    <3>3. ASSUME NEW q \in Requests, Frame("notFound", q) \in down'[c] \ down[c]
          PROVE  Head(up[c]) = Frame("cancel", q)
      <4>1. /\ Head(up[c]).kind = "cancel"
            /\ Frame("notFound", q) = Frame("notFound", Head(up[c]).id)
        BY <2>1, <3>3, FrameValues DEF BridgeReads, PipesShaped
      <4>2. QED
        BY <3>2, <4>1, FrameValues DEF UpFrame, Frame
    <3>4. ASSUME NEW q \in Requests, CancelSeen(c, q)' PROVE CancelSeen(c, q)
      BY <3>2, <3>3, <3>4, HoldsTail DEF CancelSeen
    <3>5. ASSUME NEW d \in Conns \ {c} PROVE up'[d] = up[d] /\ down'[d] = down[d]
      BY <2>1 DEF BridgeReads, PipesShaped
    <3>6. ASSUME NEW d \in Conns, NEW q \in Requests, CancelSeen(d, q)' PROVE CancelSeen(d, q)
      BY <3>4, <3>5, <3>6 DEF CancelSeen
    <3>7. QED
      BY <1>2, <3>1, <3>6
  <2>2. ASSUME NEW c \in Conns, NEW r \in Requests, BridgeAnswers(c, r) PROVE CalmOtherStep
    <3>1. UNCHANGED <<file, registryVars, disposer, call, conn, trackerVars, up>>
      BY <2>2 DEF BridgeAnswers, envVars
    <3>2. \A d \in Conns, q \in Requests : CancelSeen(d, q)' => CancelSeen(d, q)
      BY <2>2, <3>1, FrameValues DEF BridgeAnswers, CancelSeen, PipesShaped
    <3>3. QED
      BY <1>2, <3>1, <3>2
  <2>3. ASSUME NEW r \in Requests, DeadlinePasses(r) \/ CallerCancels(r) PROVE CalmOtherStep
    BY <1>1, <1>2, <2>3 DEF DeadlinePasses, CallerCancels, envVars
  <2>4. QED
    BY <1>9, <2>1, <2>2, <2>3 DEF Environment, PipeBreaks, BreakPipe, DescriptorChanges
<1>10. CASE UNCHANGED vars
  BY <1>1, <1>2, <1>10 DEF vars, envVars
<1>11. QED
  BY <1>3, <1>4, <1>5, <1>6, <1>7, <1>8, <1>9, <1>10 DEF OtherStep, Disposal

-----------------------------------------------------------------------------
(* The theorem *)

CallsInv == FrameInv /\ (calm => CalmInv)

\* The initial states satisfy the invariant,
LEMMA InitCalls == Init => CallsInv
<1> SUFFICES ASSUME Init PROVE CallsInv
  OBVIOUS
<1> USE ClientAssumption DEF Init, NewCall, NewConn, Conns, At, Tracker!Init
<1>1. CalmRegistry
  BY DEF CalmRegistry
<1>2. CalmConns
  BY DEF CalmConns, Fresh
<1>3. CalmDisposals
  BY DEF CalmDisposals
<1>4. CalmCalls
  BY HoldsEmpty DEF CalmCalls, Fits, CancelSeen
<1>5. QED
  BY <1>1, <1>2, <1>3, <1>4, InitFrameInv DEF CallsInv, CalmInv

\* and every step keeps it.
LEMMA StepCalls == CallsInv /\ [Next]_vars => CallsInv'
<1> SUFFICES ASSUME CallsInv, [Next]_vars PROVE CallsInv'
  OBVIOUS
<1>1. FrameInv /\ FrameInv'
  BY StepFrameInv DEF CallsInv
<1>2. ASSUME calm' PROVE CalmInv'
  <2>1. /\ Shaped /\ Shaped' /\ RegistryInv /\ RegistryInv' /\ TrackersShaped /\ WaitersAreTracked
        /\ PipesShaped /\ RestShaped
    BY <1>1 DEF FrameInv, IInv, TrackerInv
  <2>2. calm /\ CalmInv
    BY <1>2, <2>1, RestStep DEF CallsInv
  <2>3. ConnsStay
    BY <2>1, RegistryStep
  <2>4. ASSUME NEW r \in Requests, CalmCallStep(r), CompletionStep(r) PROVE CalmInv'
    BY <2>1, <2>2, <2>4, CalmCallStepKeeps, CompletionStepKeeps DEF CalmInv
  <2>5. ASSUME NEW r \in Requests, Early(r) PROVE CalmInv'
    <3>1. CalmCallStep(r)
      BY <1>2, <2>1, <2>2, <2>5, ReadDescriptorsCalm, UpdateRegistryCalm, LookupCalm,
         DisposesCalm, HandshakeSucceedsCalm, HandshakeFailsCalm, InstallCalm, SendCalm DEF
         Early
    <3>2. QED
      BY <2>1, <2>2, <2>4, <2>5, <3>1, EarlyStep
  <2>6. ASSUME NEW r \in Requests, RegisterRequest(r) PROVE CalmInv'
    BY <1>2, <2>1, <2>2, <2>4, <2>6, RegisterRequestCalm, RegisterCompletes
  <2>7. ASSUME NEW r \in Requests,
               WriteDone(r) \/ WriteCancelled(r) \/ WriteLost(r) \/ Await(r) \/ SendCancel(r)
        PROVE  CalmInv'
    <3>1. CalmCallStep(r)
      BY <1>2, <2>1, <2>2, <2>7, WriteDoneCalm, WriteCancelledCalm, WriteLostCalm,
         AwaitCalm, SendCancelCalm
    <3>2. QED
      BY <1>2, <2>1, <2>2, <2>3, <2>4, <2>7, <3>1, LateStepCompletes
  <2>8. CASE CloseRegistry \/ OtherStep \/ UNCHANGED vars
    BY <1>2, <2>1, <2>2, <2>8, OtherStepsCalm, CalmOtherStepKeeps
  <2>9. QED
    BY <2>5, <2>6, <2>7, <2>8 DEF Next, OtherStep, CallGoesOn, WithTheBridge, Early
<1>3. QED
  BY <1>1, <1>2 DEF CallsInv

\* A call that times out or is cancelled sends a Cancel frame and leaves; the connection and the
\* calls on it go on, so that each of them ends by what happens to itself.
THEOREM CallsUndisturbed == Spec => []CallsDoNotDisturbEachOther
<1>1. CallsInv => CallsDoNotDisturbEachOther
  BY DEF CallsInv, CalmInv, CalmCalls, Fits, CallsDoNotDisturbEachOther
<1>2. QED
  BY <1>1, InitCalls, StepCalls, PTL DEF Spec
=============================================================================
