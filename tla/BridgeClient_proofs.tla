------------------------ MODULE BridgeClient_proofs ------------------------
(***************************************************************************)
(* Proofs about BridgeClient, for any number of calls and descriptors and  *)
(* without its bound on outside events playing a part: the connection the  *)
(* registry hands out fits the descriptor it holds, and a call that waits  *)
(* is known to the tracker that will end its wait.                         *)
(***************************************************************************)
EXTENDS BridgeClient, TLAPS

EarlySteps == {"idle", "discovering", "lookup", "connecting", "installing"}
LateSteps == {"sending", "registering", "writing", "waiting", "cancelling"}

Call == [step : Steps, desc : Descriptors \cup {NoDescriptor}, conn : Conns \cup {NoConn},
         stale : Conns \cup {NoConn}, after : {"ended", "lookup", "connecting", "sending"},
         told : Ends]
Connection == [desc : Descriptors \cup {NoDescriptor}, life : 0..3,
               transport : {"none", "open", "broken", "disposed"},
               loop : {"none", "running", "ended"}, tracked : BOOLEAN,
               disposal : {"no", "begun", "failed", "done"}]

\* What the other parts of the invariant need to know about shapes.
Shaped ==
    /\ file \in Descriptors \cup {NoDescriptor}
    /\ descriptor \in Descriptors \cup {NoDescriptor}
    /\ connection \in Conns \cup {NoConn}
    /\ call \in [Requests -> Call]
    /\ conn \in [Conns -> Connection]

\* A call has no connection until the registry gave it one, and one from then on.
HasNoConn(k) ==
    k.step \in EarlySteps \/ (k.step = "disposing" /\ k.after \in {"lookup", "connecting"})
HasConn(k) == k.step \in LateSteps \/ (k.step = "disposing" /\ k.after = "sending")
ConnFollowsStep ==
    \A r \in Requests : /\ HasNoConn(call[r]) => call[r].conn = NoConn
                        /\ HasConn(call[r]) => call[r].conn \in Conns

\* A new connection was made for the descriptor its call remembers.
MadeForDescriptor == \A r \in Requests : At(r, "installing") => conn[r].desc = call[r].desc

\* What the registry holds was installed by the call that made it, and that call has it.
InstalledByItsCall == connection # NoConn => call[connection].conn = connection

RegistryInv ==
    ConnFollowsStep /\ MadeForDescriptor /\ InstalledByItsCall /\ ConnectionFitsDescriptor

TrackersShaped ==
    /\ pending \in [Conns -> SUBSET Requests]
    /\ terminalError \in [Conns -> BOOLEAN]
    /\ completion \in [Requests -> Tracker!Settled \cup {"none", "waiting"}]

\* A call that waits has a connection; so the one it has cannot be replaced by another.
WaitersHaveConn == \A r \in Requests : completion[r] = "waiting" => call[r].conn \in Conns

TrackerInv == TrackersShaped /\ WaitersHaveConn /\ WaitersAreTracked

IInv == Shaped /\ RegistryInv /\ TrackerInv

-----------------------------------------------------------------------------
\* The initial states satisfy the invariant.
LEMMA InitIInv == Init => IInv
<1> SUFFICES ASSUME Init PROVE IInv
  OBVIOUS
<1> USE ClientAssumption DEF Init
<1>1. Shaped
  BY DEF Shaped, Call, Connection, NewCall, NewConn, Steps, Ends, Conns
<1>2. RegistryInv
  BY DEF RegistryInv, ConnFollowsStep, HasNoConn, HasConn, EarlySteps, LateSteps, NewCall,
         MadeForDescriptor, At, InstalledByItsCall, ConnectionFitsDescriptor
<1>3. TrackerInv
  BY DEF Tracker!Init, TrackerInv, TrackersShaped, WaitersHaveConn, WaitersAreTracked, Conns
<1>4. QED
  BY <1>1, <1>2, <1>3 DEF IInv

-----------------------------------------------------------------------------
(* What a step does to the calls and the connections *)

\* A step of call r and of no other: the call keeps its shape, and the connection it has.
CallStep(r) ==
    /\ \A q \in Requests \ {r} : call'[q] = call[q]
    /\ call' \in [Requests -> Call]
    /\ HasNoConn(call'[r]) => call'[r].conn = NoConn
    /\ HasConn(call'[r]) => call'[r].conn \in Conns
    /\ call[r].conn # NoConn => call'[r].conn = call[r].conn

\* A step that keeps what each connection was made for.
DescsKept == conn' \in [Conns -> Connection] /\ \A c \in Conns : conn'[c].desc = conn[c].desc

\* A call that ends satisfies CallStep.
LEMMA Ending ==
    ASSUME Shaped, NEW r \in Requests, NEW told \in Ends, EndCall(r, told)
    PROVE  CallStep(r) /\ call'[r].step = "ended"
<1> DEFINE k == [NewCall EXCEPT !.step = "ended", !.told = told, !.conn = call[r].conn]
<1>1. call[r].conn \in Conns \cup {NoConn}
  BY DEF Shaped, Call
<1>2. k \in Call /\ k.step = "ended" /\ k.conn = call[r].conn
  BY <1>1 DEF NewCall, Call, Steps
<1> HIDE DEF k
<1>3. call' = [call EXCEPT ![r] = k]
  BY DEF EndCall, k
<1>4. call'[r] = k /\ call' \in [Requests -> Call] /\ \A q \in Requests \ {r} : call'[q] = call[q]
  BY <1>2, <1>3 DEF Shaped
<1>5. ~HasNoConn(k) /\ ~HasConn(k)
  BY <1>2 DEF HasNoConn, HasConn, EarlySteps, LateSteps
<1>6. QED
  BY <1>2, <1>4, <1>5 DEF CallStep

\* So does one that disposes a connection, if it goes on where its connection lets it.
LEMMA Disposing ==
    ASSUME Shaped, NEW r \in Requests, NEW c \in Conns \cup {NoConn}, NEW told \in Ends,
           NEW after \in {"ended", "lookup", "connecting", "sending"},
           DisposeThen(r, c, after, told),
           after \in {"lookup", "connecting"} => call[r].conn = NoConn,
           after = "sending" => call[r].conn \in Conns
    PROVE  CallStep(r) /\ call'[r].step = "disposing"
<1> DEFINE k == [call[r] EXCEPT !.step = "disposing", !.stale = c, !.after = after, !.told = told]
<1>1. k \in Call /\ k.step = "disposing" /\ k.after = after /\ k.conn = call[r].conn
  BY DEF Shaped, Call, Steps
<1>2. call' = [call EXCEPT ![r] = k]
  BY DEF DisposeThen, Shaped, Call
<1> HIDE DEF k
<1>3. call'[r] = k /\ call' \in [Requests -> Call] /\ \A q \in Requests \ {r} : call'[q] = call[q]
  BY <1>1, <1>2 DEF Shaped
<1>4. QED
  BY <1>1, <1>3 DEF CallStep, HasNoConn, HasConn, EarlySteps, LateSteps

\* And one that only goes on to its next step.
LEMMA Going ==
    ASSUME Shaped, NEW r \in Requests, NEW step \in Steps \ {"disposing"}, Goto(r, step),
           step \in EarlySteps => call[r].conn = NoConn,
           step \in LateSteps => call[r].conn \in Conns
    PROVE  CallStep(r) /\ call'[r].step = step /\ call'[r].desc = call[r].desc
<1> DEFINE k == [call[r] EXCEPT !.step = step]
<1>1. k \in Call /\ k.step = step /\ k.conn = call[r].conn /\ k.desc = call[r].desc
  BY DEF Shaped, Call
<1>2. call' = [call EXCEPT ![r] = k]
  BY DEF Goto, Shaped, Call
<1> HIDE DEF k
<1>3. call'[r] = k /\ call' \in [Requests -> Call] /\ \A q \in Requests \ {r} : call'[q] = call[q]
  BY <1>1, <1>2 DEF Shaped
<1>4. QED
  BY <1>1, <1>3 DEF CallStep, HasNoConn, HasConn

\* A step of one call that does not enter "installing" leaves the invariants of the calls true.
LEMMA CallStepKeeps ==
    ASSUME Shaped, ConnFollowsStep, MadeForDescriptor, NEW r \in Requests, CallStep(r),
           call'[r].step # "installing", DescsKept
    PROVE  ConnFollowsStep' /\ MadeForDescriptor'
BY DEF CallStep, DescsKept, ConnFollowsStep, MadeForDescriptor, At, Conns, HasNoConn, HasConn

\* A connection that stays in the registry stays with its call.
LEMMA InstalledStays ==
    ASSUME Shaped, InstalledByItsCall, NEW r \in Requests, CallStep(r),
           connection' \in {connection, NoConn}
    PROVE  InstalledByItsCall'
BY ClientAssumption DEF Shaped, InstalledByItsCall, CallStep, Conns

\* A step of one connection that does not change what it was made for.
LEMMA ConnUpdate ==
    ASSUME Shaped, NEW c, NEW k, conn' = [conn EXCEPT ![c] = k],
           c \in Conns => k \in Connection /\ k.desc = conn[c].desc
    PROVE  DescsKept
BY DEF Shaped, DescsKept

\* A step of one call that leaves the registry alone and does not enter "installing".
LEMMA QuietStep ==
    ASSUME Shaped, RegistryInv, UNCHANGED <<file, registryVars>>, DescsKept,
           NEW r \in Requests, CallStep(r), call'[r].step # "installing"
    PROVE  Shaped' /\ RegistryInv'
<1>1. ConnFollowsStep' /\ MadeForDescriptor'
  BY CallStepKeeps DEF RegistryInv
<1>2. InstalledByItsCall'
  BY InstalledStays DEF RegistryInv, registryVars
<1>3. ConnectionFitsDescriptor'
  BY DEF RegistryInv, ConnectionFitsDescriptor, registryVars, DescsKept, Shaped
<1>4. Shaped'
  BY DEF Shaped, registryVars, DescsKept, CallStep
<1>5. QED
  BY <1>1, <1>2, <1>3, <1>4 DEF RegistryInv

\* A step of the connections or of the environment.
LEMMA NoCallStep ==
    ASSUME Shaped, RegistryInv, UNCHANGED <<registryVars, call>>, DescsKept,
           file' \in Descriptors \cup {NoDescriptor}
    PROVE  Shaped' /\ RegistryInv'
<1>1. ConnFollowsStep' /\ MadeForDescriptor' /\ InstalledByItsCall'
  BY DEF RegistryInv, ConnFollowsStep, MadeForDescriptor, InstalledByItsCall, registryVars, At,
         DescsKept, Conns
<1>2. ConnectionFitsDescriptor'
  BY DEF RegistryInv, ConnectionFitsDescriptor, registryVars, DescsKept, Shaped
<1>3. Shaped'
  BY DEF Shaped, registryVars, DescsKept
<1>4. QED
  BY <1>1, <1>2, <1>3 DEF RegistryInv

-----------------------------------------------------------------------------
(* The registry *)

LEMMA ReadDescriptorsStep ==
    ASSUME Shaped, RegistryInv, NEW r \in Requests, ReadDescriptors(r)
    PROVE  Shaped' /\ RegistryInv' /\ CallStep(r)
<1>1. DescsKept /\ UNCHANGED <<file, registryVars>>
  BY DEF ReadDescriptors, DescsKept, Shaped, envVars
<1>2. CASE closed
  <2>1. EndCall(r, "disposed")
    BY <1>2 DEF ReadDescriptors
  <2>2. CallStep(r) /\ call'[r].step = "ended"
    BY <2>1, Ending DEF Ends, Tracker!Settled
  <2>3. QED
    BY <1>1, <2>2, QuietStep
<1>3. CASE ~closed
  <2> DEFINE k == [call[r] EXCEPT !.step = "discovering", !.desc = file]
  <2>1. call' = [call EXCEPT ![r] = k]
    BY <1>3 DEF ReadDescriptors, Shaped, Call
  <2>2. k \in Call /\ k.step = "discovering" /\ k.conn = call[r].conn
    BY DEF Shaped, Call, Steps
  <2>3. call[r].conn = NoConn
    BY DEF ReadDescriptors, At, RegistryInv, ConnFollowsStep, HasNoConn, EarlySteps
  <2> HIDE DEF k
  <2>4. call'[r] = k /\ call' \in [Requests -> Call] /\ \A q \in Requests \ {r} : call'[q] = call[q]
    BY <2>1, <2>2 DEF Shaped
  <2>5. CallStep(r) /\ call'[r].step = "discovering"
    BY <2>2, <2>3, <2>4 DEF CallStep, HasConn, LateSteps
  <2>6. QED
    BY <1>1, <2>5, QuietStep
<1>4. QED
  BY <1>2, <1>3

LEMMA UpdateRegistryStep ==
    ASSUME Shaped, RegistryInv, NEW r \in Requests, UpdateRegistry(r)
    PROVE  Shaped' /\ RegistryInv' /\ CallStep(r)
<1>1. DescsKept /\ UNCHANGED <<file, closed>> /\ conn' = conn
  BY DEF UpdateRegistry, DescsKept, Shaped, envVars, registryVars
<1>2. call[r].conn = NoConn /\ call[r].desc \in Descriptors \cup {NoDescriptor}
  BY DEF UpdateRegistry, At, RegistryInv, ConnFollowsStep, HasNoConn, EarlySteps, Shaped, Call
<1>3. CASE TokenCancelled(r) \/ closed
  <2>1. EndCall(r, IF closed THEN "disposed" ELSE "cancelled") /\ UNCHANGED registryVars
    BY <1>3 DEF UpdateRegistry
  <2>2. (IF closed THEN "disposed" ELSE "cancelled") \in Ends
    BY DEF Ends, Tracker!Settled
  <2>3. CallStep(r) /\ call'[r].step = "ended"
    BY <2>1, <2>2, Ending
  <2>4. QED
    BY <1>1, <2>1, <2>3, QuietStep
<1>4. CASE ~(TokenCancelled(r) \/ closed)
  <2>1. descriptor' = call[r].desc /\ ~closed
    BY <1>4 DEF UpdateRegistry
  <2>2. /\ CallStep(r) /\ call'[r].step \in {"disposing", "lookup"}
        /\ connection' \in {connection, NoConn}
        /\ connection' # NoConn => conn[connection].desc = call[r].desc
    <3>1. CASE connection # NoConn /\ IsStale(connection, call[r].desc)
      <4>1. connection' = NoConn /\ DisposeThen(r, connection, "lookup", "none")
        BY <1>4, <3>1 DEF UpdateRegistry
      <4>2. connection \in Conns \cup {NoConn} /\ "none" \in Ends
        BY DEF Shaped, Ends
      <4>3. CallStep(r) /\ call'[r].step = "disposing"
        BY <1>2, <4>1, <4>2, Disposing
      <4>4. QED
        BY <4>1, <4>3
    <3>2. CASE ~(connection # NoConn /\ IsStale(connection, call[r].desc))
      <4>1. connection' = connection /\ Goto(r, "lookup")
        BY <1>4, <3>2 DEF UpdateRegistry
      <4>2. CallStep(r) /\ call'[r].step = "lookup"
        BY <1>2, <4>1, Going DEF Steps, LateSteps
      <4>3. QED
        BY <3>2, <4>1, <4>2 DEF IsStale
    <3>3. QED
      BY <3>1, <3>2
  <2>3. ConnFollowsStep' /\ MadeForDescriptor'
    BY <1>1, <2>2, CallStepKeeps DEF RegistryInv
  <2>4. InstalledByItsCall'
    BY <2>2, InstalledStays DEF RegistryInv
  <2>5. ConnectionFitsDescriptor'
    BY <1>1, <2>1, <2>2 DEF ConnectionFitsDescriptor
  <2>6. Shaped'
    BY <1>1, <1>2, <2>1, <2>2 DEF Shaped, DescsKept, CallStep
  <2>7. QED
    BY <2>2, <2>3, <2>4, <2>5, <2>6 DEF RegistryInv
<1>5. QED
  BY <1>3, <1>4

LEMMA LookupStep ==
    ASSUME Shaped, RegistryInv, NEW r \in Requests, Lookup(r)
    PROVE  Shaped' /\ RegistryInv' /\ CallStep(r)
<1> USE ClientAssumption
<1>1. DescsKept /\ UNCHANGED <<file, descriptor, closed>> /\ conn' = conn
  BY DEF Lookup, DescsKept, Shaped, envVars
<1>2. call[r].conn = NoConn
  BY DEF Lookup, At, RegistryInv, ConnFollowsStep, HasNoConn, EarlySteps
<1>3. connection' \in {connection, NoConn} /\ CallStep(r) /\ call'[r].step # "installing"
  <2>1. CASE EndCall(r, "cancelled") /\ UNCHANGED connection
    BY <2>1, Ending DEF Ends, Tracker!Settled
  <2>2. CASE EndCall(r, "keyNotFound") /\ UNCHANGED connection
    BY <2>2, Ending DEF Ends
  <2>3. CASE /\ connection # NoConn /\ UNCHANGED connection
             /\ call' = [call EXCEPT ![r].step = "sending", ![r].conn = connection]
    <3> DEFINE k == [call[r] EXCEPT !.step = "sending", !.conn = connection]
    <3>1. call' = [call EXCEPT ![r] = k]
      BY <2>3 DEF Shaped, Call
    <3>2. k \in Call /\ k.step = "sending" /\ k.conn \in Conns
      BY <2>3 DEF Shaped, Call, Steps
    <3> HIDE DEF k
    <3>3. call'[r] = k /\ call' \in [Requests -> Call]
          /\ \A q \in Requests \ {r} : call'[q] = call[q]
      BY <3>1, <3>2 DEF Shaped
    <3>4. QED
      BY <1>2, <2>3, <3>2, <3>3 DEF CallStep, HasNoConn, EarlySteps
  <2>4. CASE /\ connection' = NoConn
             /\ call' = [call EXCEPT
                   ![r].desc = descriptor, ![r].stale = connection,
                   ![r].step = IF connection = NoConn THEN "connecting" ELSE "disposing",
                   ![r].after = IF connection = NoConn THEN @ ELSE "connecting"]
    <3> DEFINE k == [call[r] EXCEPT
                       !.desc = descriptor, !.stale = connection,
                       !.step = IF connection = NoConn THEN "connecting" ELSE "disposing",
                       !.after = IF connection = NoConn THEN @ ELSE "connecting"]
    <3>1. call' = [call EXCEPT ![r] = k]
      BY <2>4 DEF Shaped, Call
    <3>2. k \in Call /\ k.conn = call[r].conn
          /\ (k.step = "connecting" \/ (k.step = "disposing" /\ k.after = "connecting"))
      BY ZenonT(30) DEF Shaped, Call, Steps
    <3> HIDE DEF k
    <3>3. call'[r] = k /\ call' \in [Requests -> Call]
          /\ \A q \in Requests \ {r} : call'[q] = call[q]
      BY <3>1, <3>2 DEF Shaped
    <3>4. QED
      BY <1>2, <2>4, <3>2, <3>3 DEF CallStep, HasConn, LateSteps
  <2>5. QED
    BY <2>1, <2>2, <2>3, <2>4 DEF Lookup
<1>4. ConnFollowsStep' /\ MadeForDescriptor'
  BY <1>1, <1>3, CallStepKeeps DEF RegistryInv
<1>5. InstalledByItsCall'
  BY <1>3, InstalledStays DEF RegistryInv
<1>6. ConnectionFitsDescriptor'
  BY <1>1, <1>3 DEF RegistryInv, ConnectionFitsDescriptor
<1>7. Shaped'
  BY <1>1, <1>3 DEF Shaped, DescsKept, CallStep
<1>8. QED
  BY <1>3, <1>4, <1>5, <1>6, <1>7 DEF RegistryInv

\* Beginning a disposal keeps what the connection was made for.
LEMMA BeginDisposeKeeps ==
    ASSUME Shaped, NEW c \in Conns \cup {NoConn}, BeginDispose(c)
    PROVE  DescsKept
<1> DEFINE k == [conn[c] EXCEPT !.life = 3, !.transport = "disposed", !.disposal = "begun"]
<1>1. ASSUME c \in Conns PROVE k \in Connection /\ k.desc = conn[c].desc
  <2>1. conn[c] \in Connection
    BY <1>1 DEF Shaped
  <2>2. 3 \in 0..3
    OBVIOUS
  <2>3. QED
    BY <2>1, <2>2, Zenon DEF Connection
<1>2. conn' = [conn EXCEPT ![c] = k]
  BY DEF BeginDispose, Shaped, Connection
<1> HIDE DEF k
<1>3. QED
  BY <1>1, <1>2, ConnUpdate

LEMMA DisposesStep ==
    ASSUME Shaped, RegistryInv, NEW r \in Requests, Disposes(r)
    PROVE  Shaped' /\ RegistryInv' /\ CallStep(r)
<1> USE DEF Disposes
<1>1. UNCHANGED <<file, registryVars>>
  BY DEF envVars
<1>2. CASE BeginDispose(call[r].stale) /\ UNCHANGED call
  <2>1. DescsKept /\ UNCHANGED <<registryVars, call>> /\ file' \in Descriptors \cup {NoDescriptor}
    BY <1>1, <1>2, BeginDisposeKeeps DEF Shaped, Call
  <2>2. CallStep(r)
    BY <1>2 DEF CallStep, Shaped, RegistryInv, ConnFollowsStep
  <2>3. QED
    BY <2>1, <2>2, NoCallStep
<1>3. CASE conn' = conn /\ EndCall(r, call[r].told)
  <2>1. DescsKept /\ call[r].told \in Ends
    BY <1>3 DEF DescsKept, Shaped, Call
  <2>2. CallStep(r) /\ call'[r].step = "ended"
    BY <1>3, <2>1, Ending
  <2>3. QED
    BY <1>1, <2>1, <2>2, QuietStep
<1>4. CASE /\ conn' = conn /\ call[r].after # "ended"
           /\ call' = [call EXCEPT ![r].step = call[r].after, ![r].stale = NoConn,
                                   ![r].after = "ended"]
  <2> DEFINE k == [call[r] EXCEPT !.step = call[r].after, !.stale = NoConn, !.after = "ended"]
  <2>1. DescsKept
    BY <1>4 DEF DescsKept, Shaped
  <2>2. call' = [call EXCEPT ![r] = k]
    BY <1>4 DEF Shaped, Call
  <2>3. k \in Call /\ k.conn = call[r].conn /\ k.step = call[r].after
        /\ k.step \in {"lookup", "connecting", "sending"}
    BY <1>4 DEF Shaped, Call, Steps
  <2> HIDE DEF k
  <2>4. call'[r] = k /\ call' \in [Requests -> Call]
        /\ \A q \in Requests \ {r} : call'[q] = call[q]
    BY <2>2, <2>3 DEF Shaped
  <2>5. /\ k.step \in {"lookup", "connecting"} => call[r].conn = NoConn
        /\ k.step = "sending" => call[r].conn \in Conns
    BY <2>3 DEF At, RegistryInv, ConnFollowsStep, HasNoConn, HasConn
  <2>6. CallStep(r) /\ call'[r].step # "installing"
    BY <2>3, <2>4, <2>5 DEF CallStep, HasNoConn, HasConn, EarlySteps, LateSteps
  <2>7. QED
    BY <1>1, <2>1, <2>6, QuietStep
<1>5. QED
  BY <1>2, <1>3, <1>4

LEMMA HandshakeSucceedsStep ==
    ASSUME Shaped, RegistryInv, NEW r \in Requests, HandshakeSucceeds(r)
    PROVE  Shaped' /\ RegistryInv' /\ CallStep(r)
<1> USE ClientAssumption
<1> DEFINE k == [NewConn EXCEPT !.desc = call[r].desc, !.transport = "open", !.life = 1,
                                !.tracked = TRUE, !.loop = "running"]
<1>1. call[r].conn = NoConn
  BY DEF HandshakeSucceeds, At, RegistryInv, ConnFollowsStep, HasNoConn, EarlySteps
<1>2. CallStep(r) /\ call'[r].step = "installing" /\ call'[r].desc = call[r].desc
  BY <1>1, Going DEF HandshakeSucceeds, Steps, LateSteps
<1>3. k \in Connection /\ k.desc = call[r].desc
  <2>1. call[r].desc \in Descriptors \cup {NoDescriptor} /\ 1 \in 0..3
    BY DEF Shaped, Call
  <2>2. NewConn \in Connection
    BY SMT DEF NewConn, Connection
  <2>3. QED
    BY <2>1, <2>2, Zenon DEF Connection
<1>4. UNCHANGED <<file, registryVars>> /\ conn' = [conn EXCEPT ![r] = k]
  BY DEF HandshakeSucceeds, envVars
<1> HIDE DEF k
<1>5. /\ conn' \in [Conns -> Connection] /\ conn'[r].desc = call[r].desc
      /\ \A c \in Conns \ {r} : conn'[c] = conn[c]
  BY <1>3, <1>4 DEF Shaped, Conns
<1>6. ConnFollowsStep' /\ MadeForDescriptor'
  BY <1>2, <1>5 DEF RegistryInv, CallStep, ConnFollowsStep, MadeForDescriptor, At, Conns, HasNoConn,
     HasConn
<1>7. InstalledByItsCall'
  BY <1>2, <1>4, InstalledStays DEF RegistryInv, registryVars
<1>8. connection # r
  BY <1>1 DEF RegistryInv, InstalledByItsCall
<1>9. ConnectionFitsDescriptor'
  BY <1>4, <1>5, <1>8 DEF RegistryInv, ConnectionFitsDescriptor, registryVars, Shaped
<1>10. Shaped'
  BY <1>2, <1>4, <1>5 DEF Shaped, registryVars, CallStep
<1>11. QED
  BY <1>2, <1>6, <1>7, <1>9, <1>10 DEF RegistryInv

LEMMA HandshakeFailsStep ==
    ASSUME Shaped, RegistryInv, NEW r \in Requests, NEW told \in {"cancelled", "io"},
           HandshakeFails(r, told)
    PROVE  Shaped' /\ RegistryInv' /\ CallStep(r)
<1>1. UNCHANGED <<file, registryVars>> /\ DescsKept
  BY DEF HandshakeFails, envVars, DescsKept, Shaped
<1>2. CallStep(r) /\ call'[r].step = "disposing"
  BY Disposing DEF HandshakeFails, Conns, Ends, Tracker!Settled
<1>3. QED
  BY <1>1, <1>2, QuietStep

LEMMA InstallStep ==
    ASSUME Shaped, RegistryInv, NEW r \in Requests, Install(r)
    PROVE  Shaped' /\ RegistryInv' /\ CallStep(r)
<1> USE ClientAssumption
<1>1. DescsKept /\ UNCHANGED <<file, descriptor, closed>> /\ conn' = conn
  BY DEF Install, envVars, DescsKept, Shaped
<1>2. call[r].conn = NoConn /\ conn[r].desc = call[r].desc
  BY DEF Install, At, RegistryInv, ConnFollowsStep, MadeForDescriptor, HasNoConn, EarlySteps
<1>3. CASE UNCHANGED connection /\ CallStep(r) /\ call'[r].step # "installing"
  BY <1>1, <1>3, QuietStep DEF registryVars
<1>4. CASE /\ ~closed /\ StillCurrent(r) /\ connection' = r
           /\ call' = [call EXCEPT ![r].step = "sending", ![r].conn = r]
  <2> DEFINE k == [call[r] EXCEPT !.step = "sending", !.conn = r]
  <2>1. call' = [call EXCEPT ![r] = k]
    BY <1>4 DEF Shaped, Call
  <2>2. k \in Call /\ k.step = "sending" /\ k.conn = r
    BY DEF Shaped, Call, Steps, Conns
  <2> HIDE DEF k
  <2>3. call'[r] = k /\ call' \in [Requests -> Call] /\ \A q \in Requests \ {r} : call'[q] = call[q]
    BY <2>1, <2>2 DEF Shaped
  <2>4. CallStep(r) /\ call'[r].step = "sending" /\ call'[r].conn = r
    BY <1>2, <2>2, <2>3 DEF CallStep, HasNoConn, EarlySteps, Conns
  <2>5. ConnFollowsStep' /\ MadeForDescriptor'
    BY <1>1, <2>4, CallStepKeeps DEF RegistryInv
  <2>6. InstalledByItsCall'
    BY <1>4, <2>4 DEF InstalledByItsCall
  <2>7. ConnectionFitsDescriptor'
    BY <1>1, <1>2, <1>4 DEF ConnectionFitsDescriptor, StillCurrent
  <2>8. Shaped'
    BY <1>1, <1>4, <2>4 DEF Shaped, DescsKept, CallStep, Conns
  <2>9. QED
    BY <2>4, <2>5, <2>6, <2>7, <2>8 DEF RegistryInv
<1>5. CASE /\ Concurrent /\ UNCHANGED connection
           /\ call' = [call EXCEPT ![r].step = "disposing", ![r].stale = r,
                                   ![r].after = "sending", ![r].conn = connection]
  <2> DEFINE k == [call[r] EXCEPT !.step = "disposing", !.stale = r, !.after = "sending",
                                  !.conn = connection]
  <2>1. call' = [call EXCEPT ![r] = k]
    BY <1>5 DEF Shaped, Call
  <2>2. k \in Call /\ k.step = "disposing" /\ k.after = "sending" /\ k.conn \in Conns
    BY <1>5 DEF Shaped, Call, Steps, Conns, Concurrent
  <2> HIDE DEF k
  <2>3. call'[r] = k /\ call' \in [Requests -> Call] /\ \A q \in Requests \ {r} : call'[q] = call[q]
    BY <2>1, <2>2 DEF Shaped
  <2>4. CallStep(r) /\ call'[r].step = "disposing"
    BY <1>2, <2>2, <2>3 DEF CallStep, HasNoConn, EarlySteps
  <2>5. QED
    BY <1>3, <1>5, <2>4
<1>6. CASE DisposeThen(r, r, "ended", "cancelled") /\ UNCHANGED connection
  BY <1>3, <1>6, Disposing DEF Ends, Tracker!Settled, Conns
<1>7. CASE DisposeThen(r, r, "ended", "io") /\ UNCHANGED connection
  BY <1>3, <1>7, Disposing DEF Ends, Tracker!Settled, Conns
<1>8. CASE EndCall(r, "disposed") /\ UNCHANGED connection
  BY <1>3, <1>8, Ending DEF Ends, Tracker!Settled
<1>9. QED
  BY <1>4, <1>5, <1>6, <1>7, <1>8 DEF Install

LEMMA CloseRegistryStep ==
    ASSUME Shaped, RegistryInv, CloseRegistry
    PROVE  Shaped' /\ RegistryInv' /\ call' = call
<1>1. call' = call /\ conn' = conn /\ connection' = NoConn /\ file' = file
      /\ descriptor' = NoDescriptor
  BY DEF CloseRegistry
<1>2. ConnFollowsStep' /\ MadeForDescriptor' /\ InstalledByItsCall' /\ ConnectionFitsDescriptor'
  BY <1>1 DEF RegistryInv, ConnFollowsStep, MadeForDescriptor, InstalledByItsCall,
     ConnectionFitsDescriptor, At
<1>3. QED
  BY <1>1, <1>2 DEF RegistryInv, Shaped

-----------------------------------------------------------------------------
(* The steps that leave the registry alone *)

\* What they do to a connection keeps what it was made for.
LEMMA FailureKeeps ==
    ASSUME Shaped, NEW c, conn' = [conn EXCEPT ![c].life = 2]
    PROVE  DescsKept
<1> DEFINE k == [conn[c] EXCEPT !.life = 2]
<1>1. ASSUME c \in Conns PROVE k \in Connection /\ k.desc = conn[c].desc
  <2>1. conn[c] \in Connection
    BY <1>1 DEF Shaped
  <2>2. 2 \in 0..3 /\ TRUE \in BOOLEAN /\ FALSE \in BOOLEAN
    OBVIOUS
  <2>3. QED
    BY <2>1, <2>2, Zenon DEF Connection
<1>2. conn' = [conn EXCEPT ![c] = k]
  BY DEF Shaped, Connection
<1> HIDE DEF k
<1>3. QED
  BY <1>1, <1>2, ConnUpdate

LEMMA BreakKeeps ==
    ASSUME Shaped, NEW c, BreakPipe(c)
    PROVE  DescsKept
<1> DEFINE k == [conn[c] EXCEPT !.transport = "broken"]
<1>1. ASSUME c \in Conns PROVE k \in Connection /\ k.desc = conn[c].desc
  <2>1. conn[c] \in Connection
    BY <1>1 DEF Shaped
  <2>2. 2 \in 0..3 /\ TRUE \in BOOLEAN /\ FALSE \in BOOLEAN
    OBVIOUS
  <2>3. QED
    BY <2>1, <2>2, Zenon DEF Connection
<1>2. conn' = [conn EXCEPT ![c] = k]
  BY DEF BreakPipe, Shaped, Connection
<1> HIDE DEF k
<1>3. QED
  BY <1>1, <1>2, ConnUpdate

LEMMA ReadFailsKeeps ==
    ASSUME Shaped, NEW c, ReadFails(c)
    PROVE  DescsKept
<1> DEFINE k == [conn[c] EXCEPT !.loop = "ended", !.life = 2]
<1>1. ASSUME c \in Conns PROVE k \in Connection /\ k.desc = conn[c].desc
  <2>1. conn[c] \in Connection
    BY <1>1 DEF Shaped
  <2>2. 2 \in 0..3 /\ TRUE \in BOOLEAN /\ FALSE \in BOOLEAN
    OBVIOUS
  <2>3. QED
    BY <2>1, <2>2, Zenon DEF Connection
<1>2. conn' = [conn EXCEPT ![c] = k]
  BY DEF ReadFails, Shaped, Connection
<1> HIDE DEF k
<1>3. QED
  BY <1>1, <1>2, ConnUpdate

LEMMA DisposeTrackerKeeps ==
    ASSUME Shaped, NEW c, DisposeTracker(c)
    PROVE  DescsKept
<1> DEFINE k == [conn[c] EXCEPT !.disposal = "failed", !.loop = "ended"]
<1>1. ASSUME c \in Conns PROVE k \in Connection /\ k.desc = conn[c].desc
  <2>1. conn[c] \in Connection
    BY <1>1 DEF Shaped
  <2>2. 2 \in 0..3 /\ TRUE \in BOOLEAN /\ FALSE \in BOOLEAN
    OBVIOUS
  <2>3. QED
    BY <2>1, <2>2, Zenon DEF Connection
<1>2. conn' = [conn EXCEPT ![c] = k]
  BY DEF DisposeTracker, Shaped, Connection
<1> HIDE DEF k
<1>3. QED
  BY <1>1, <1>2, ConnUpdate

LEMMA ClearTrackerKeeps ==
    ASSUME Shaped, NEW c, ClearTracker(c)
    PROVE  DescsKept
<1> DEFINE k == [conn[c] EXCEPT !.disposal = "done", !.tracked = FALSE]
<1>1. ASSUME c \in Conns PROVE k \in Connection /\ k.desc = conn[c].desc
  <2>1. conn[c] \in Connection
    BY <1>1 DEF Shaped
  <2>2. 2 \in 0..3 /\ TRUE \in BOOLEAN /\ FALSE \in BOOLEAN
    OBVIOUS
  <2>3. QED
    BY <2>1, <2>2, Zenon DEF Connection
<1>2. conn' = [conn EXCEPT ![c] = k]
  BY DEF ClearTracker, Shaped, Connection
<1> HIDE DEF k
<1>3. QED
  BY <1>1, <1>2, ConnUpdate

\* A lost connection ends the call that noticed it.
LEMMA ConnectionLostStep ==
    ASSUME Shaped, NEW r \in Requests, NEW error \in Ends, ConnectionLost(r, error)
    PROVE  DescsKept /\ CallStep(r) /\ call'[r].step = "ended"
<1> USE DEF ConnectionLost
<1>1. CASE conn[call[r].conn].tracked
  BY <1>1, FailureKeeps, Ending
<1>2. CASE ~conn[call[r].conn].tracked
  <2>1. EndCall(r, "nullReference") /\ conn' = conn
    BY <1>2
  <2>2. DescsKept
    BY <2>1 DEF DescsKept, Shaped
  <2>3. QED
    BY <2>1, <2>2, Ending DEF Ends
<1>3. QED
  BY <1>1, <1>2

\* A call that is given up goes on to its Cancel frame.
LEMMA CancellingStep ==
    ASSUME Shaped, NEW r \in Requests, NEW told \in Ends, call[r].conn \in Conns,
           call' = [call EXCEPT ![r].step = "cancelling", ![r].told = told]
    PROVE  CallStep(r) /\ call'[r].step = "cancelling"
<1> DEFINE k == [call[r] EXCEPT !.step = "cancelling", !.told = told]
<1>1. call' = [call EXCEPT ![r] = k]
  BY DEF Shaped, Call
<1>2. k \in Call /\ k.step = "cancelling" /\ k.conn = call[r].conn
  BY DEF Shaped, Call, Steps
<1> HIDE DEF k
<1>3. call'[r] = k /\ call' \in [Requests -> Call] /\ \A q \in Requests \ {r} : call'[q] = call[q]
  BY <1>1, <1>2 DEF Shaped
<1>4. QED
  BY <1>2, <1>3 DEF CallStep, HasNoConn, EarlySteps

LEMMA CallCancelledStep ==
    ASSUME Shaped, NEW r \in Requests, call[r].conn \in Conns, CallCancelled(r)
    PROVE  CallStep(r) /\ call'[r].step \in {"cancelling", "ended"}
BY CancellingStep, Ending DEF CallCancelled, Ends, Tracker!Settled

\* The steps of a call that has its connection.
LateStep(r) ==
    \/ Send(r) \/ RegisterRequest(r) \/ WriteDone(r) \/ WriteCancelled(r) \/ WriteLost(r)
    \/ Await(r) \/ SendCancel(r)
LEMMA LateStepKeeps ==
    ASSUME Shaped, RegistryInv, NEW r \in Requests, LateStep(r)
    PROVE  Shaped' /\ RegistryInv' /\ CallStep(r)
<1>1. call[r].conn \in Conns
  BY DEF LateStep, Send, RegisterRequest, WriteDone, WriteCancelled, WriteLost, Await, SendCancel,
     At, RegistryInv, ConnFollowsStep, HasConn, LateSteps
<1>2. UNCHANGED <<file, registryVars>>
  BY DEF LateStep, Send, RegisterRequest, WriteDone, WriteCancelled, WriteLost, Await, SendCancel,
     envVars
<1>3. conn' = conn => DescsKept
  BY DEF DescsKept, Shaped
<1>4. (WriteNothing \/ Tear(call[r].conn) \/ \E f : Push(call[r].conn, f)) => DescsKept
  BY <1>3, BreakKeeps DEF WriteNothing, Tear, Push
<1>5. DescsKept /\ CallStep(r) /\ call'[r].step # "installing"
  <2>1. CASE Send(r)
    <3>1. DescsKept
      BY <2>1, <1>3 DEF Send
    <3>2. EndCall(r, "timeout") \/ EndCall(r, "io") \/ Goto(r, "registering")
      BY <2>1 DEF Send
    <3>3. CASE Goto(r, "registering")
      BY <1>1, <3>1, <3>3, Going DEF Steps, EarlySteps
    <3>4. QED
      BY <3>1, <3>2, <3>3, Ending DEF Ends, Tracker!Settled
  <2>2. CASE RegisterRequest(r)
    <3>1. DescsKept
      BY <2>2, <1>3 DEF RegisterRequest
    <3>2. \/ EndCall(r, "nullReference") \/ EndCall(r, "disposed")
          \/ EndCall(r, "invalidOperation") \/ Goto(r, "writing")
      BY <2>2 DEF RegisterRequest, Tracker!RegisterError
    <3>3. CASE Goto(r, "writing")
      BY <1>1, <3>1, <3>3, Going DEF Steps, EarlySteps
    <3>4. QED
      BY <3>1, <3>2, <3>3, Ending DEF Ends, Tracker!Settled
  <2>3. CASE WriteDone(r)
    <3>1. DescsKept
      BY <2>3, <1>4 DEF WriteDone
    <3>2. QED
      BY <1>1, <2>3, <3>1, Going DEF WriteDone, Steps, EarlySteps
  <2>4. CASE WriteCancelled(r)
    <3>1. DescsKept
      BY <2>4, <1>4 DEF WriteCancelled
    <3>2. QED
      BY <1>1, <2>4, <3>1, CallCancelledStep DEF WriteCancelled
  <2>5. CASE WriteLost(r)
    BY <2>5, ConnectionLostStep DEF WriteLost, Ends, Tracker!Settled
  <2>6. CASE Await(r)
    <3>1. CASE EndCall(r, "response") /\ UNCHANGED <<conn, trackerVars>>
      BY <1>3, <3>1, Ending DEF Ends, Tracker!Settled
    <3>2. CASE CallTimedOut(r)
      BY <1>1, <1>3, <3>2, CancellingStep DEF CallTimedOut, Ends, Tracker!Settled
    <3>3. CASE completion[r] \in {"io", "invalidOperation", "disposed"}
               /\ ConnectionLost(r, completion[r])
      BY <3>3, ConnectionLostStep DEF Ends, Tracker!Settled
    <3>4. CASE CallCancelled(r) /\ UNCHANGED conn
      BY <1>1, <1>3, <3>4, CallCancelledStep
    <3>5. QED
      BY <2>6, <3>1, <3>2, <3>3, <3>4 DEF Await
  <2>7. CASE SendCancel(r)
    <3>1. DescsKept
      BY <2>7, <1>4 DEF SendCancel
    <3>2. call[r].told \in Ends
      BY DEF Shaped, Call
    <3>3. EndCall(r, call[r].told) \/ EndCall(r, "invalidOperation")
      BY <2>7 DEF SendCancel
    <3>4. QED
      BY <3>1, <3>2, <3>3, Ending DEF Ends, Tracker!Settled
  <2>8. QED
    BY <2>1, <2>2, <2>3, <2>4, <2>5, <2>6, <2>7 DEF LateStep
<1>6. QED
  BY <1>2, <1>5, QuietStep

\* The steps of no call.
OtherStep ==
    \/ CloseConnection \/ Environment
    \/ \E c \in Conns : ReadFails(c) \/ Disposal(c) \/ \E f \in down[c] : Receive(c, f)
    \/ \E c \in Conns, r \in Requests : TimerFires(c, r)
LEMMA OtherStepKeeps ==
    ASSUME Shaped, RegistryInv, OtherStep
    PROVE  Shaped' /\ RegistryInv' /\ call' = call
<1>1. conn' = conn => DescsKept
  BY DEF DescsKept, Shaped
<1>2. /\ UNCHANGED <<registryVars, call>> /\ DescsKept
      /\ file' \in Descriptors \cup {NoDescriptor}
  <2> USE DEF Shaped, envVars
  <2>1. CASE CloseConnection
    <3>1. ASSUME disposer # NoConn, BeginDispose(disposer)
          PROVE  disposer \in Conns => DescsKept
      BY <3>1, BeginDisposeKeeps
    <3>2. ASSUME disposer \notin Conns, BeginDispose(disposer)
          PROVE  conn' = conn
      BY <3>2 DEF BeginDispose
    <3>3. QED
      BY <2>1, <1>1, <3>1, <3>2 DEF CloseConnection
  <2>2. CASE Environment
    BY <2>2, <1>1, BreakKeeps DEF Environment, BridgeReads, PipeBreaks, BridgeAnswers,
       DescriptorChanges, DeadlinePasses, CallerCancels
  <2>3. ASSUME NEW c \in Conns, ReadFails(c)
        PROVE  UNCHANGED <<file, registryVars, call>> /\ DescsKept
    BY <2>3, ReadFailsKeeps DEF ReadFails
  <2>4. ASSUME NEW c \in Conns, Disposal(c)
        PROVE  UNCHANGED <<file, registryVars, call>> /\ DescsKept
    BY <2>4, DisposeTrackerKeeps, ClearTrackerKeeps DEF Disposal, DisposeTracker, ClearTracker
  <2>5. ASSUME NEW c \in Conns, NEW f \in down[c], Receive(c, f)
        PROVE  UNCHANGED <<file, registryVars, call>> /\ DescsKept
    BY <2>5, <1>1 DEF Receive
  <2>6. ASSUME NEW c \in Conns, NEW r \in Requests, TimerFires(c, r)
        PROVE  UNCHANGED <<file, registryVars, call>> /\ DescsKept
    BY <2>6, <1>1 DEF TimerFires
  <2>7. QED
    BY <2>1, <2>2, <2>3, <2>4, <2>5, <2>6 DEF OtherStep
<1>3. QED
  BY <1>2, NoCallStep

\* No call is left without the connection it has.
ConnsStay == \A r \in Requests : call[r].conn \in Conns => call'[r].conn = call[r].conn

\* The registry's invariant is inductive.
LEMMA RegistryStep ==
    ASSUME Shaped, RegistryInv, [Next]_vars
    PROVE  Shaped' /\ RegistryInv' /\ ConnsStay
<1> DEFINE Kept == Shaped' /\ RegistryInv' /\ ConnsStay
<1>1. ASSUME Shaped', RegistryInv', NEW r \in Requests, CallStep(r) PROVE Kept
  BY <1>1, ClientAssumption DEF CallStep, ConnsStay, Conns
<1>2. ASSUME Shaped', RegistryInv', call' = call PROVE Kept
  BY <1>2 DEF ConnsStay
<1>3. ASSUME NEW r \in Requests, CallGoesOn(r) \/ WithTheBridge(r) PROVE Kept
  <2> HIDE DEF Kept
  <2>1. \/ ReadDescriptors(r) \/ UpdateRegistry(r) \/ Lookup(r) \/ Disposes(r)
        \/ HandshakeSucceeds(r) \/ HandshakeFails(r, "cancelled") \/ HandshakeFails(r, "io")
        \/ Install(r) \/ LateStep(r)
    BY <1>3 DEF CallGoesOn, WithTheBridge, LateStep
  <2>2. "cancelled" \in {"cancelled", "io"} /\ "io" \in {"cancelled", "io"}
    OBVIOUS
  <2>3. QED
    BY <1>1, <2>1, <2>2, ReadDescriptorsStep, UpdateRegistryStep, LookupStep, DisposesStep,
       HandshakeSucceedsStep, HandshakeFailsStep, InstallStep, LateStepKeeps
<1>4. CASE CloseRegistry
  BY <1>2, <1>4, CloseRegistryStep
<1>5. CASE OtherStep
  BY <1>2, <1>5, OtherStepKeeps
<1>6. CASE UNCHANGED vars
  <2>1. UNCHANGED <<registryVars, call>> /\ DescsKept /\ file' = file
    BY <1>6 DEF vars, DescsKept, Shaped, envVars
  <2>2. QED
    BY <1>2, <2>1, NoCallStep DEF Shaped
<1>7. QED
  BY <1>3, <1>4, <1>5, <1>6 DEF Next, OtherStep

-----------------------------------------------------------------------------
(* The trackers *)

\* What a critical section of a tracker may do: it registers the request of a call that has
\* the connection; it settles the completions of R, and removes no request but those; or it
\* fails the connection.
Registers ==
    \E r \in Requests : call[r].conn \in Conns /\ Tracker!Register(call[r].conn, r)
SettlesOne(c, r, v) ==
    /\ Tracker!Remove(c, r) \/ UNCHANGED pending
    /\ Tracker!Settle(pending[c] \cap {r}, v)
    /\ UNCHANGED <<terminalError, isDisposed>>
Settles == \E c \in Conns, v \in Tracker!Settled : \E r : SettlesOne(c, r, v)
Fails == \E c \in Conns, v \in Tracker!Settled : Tracker!FailPending(c, v)
TrackerStep == Registers \/ Settles \/ Fails \/ UNCHANGED <<pending, terminalError, completion>>

LEMMA SettlingIsTrackerStep ==
    ASSUME NEW c \in Conns, NEW r, NEW v \in {"response", "cancelled", "timeout", "io"},
           SettlesOne(c, r, v)
    PROVE  TrackerStep
BY DEF TrackerStep, Settles, Tracker!Settled

\* Each of them leaves the tracker's invariant true, whatever else happens to the calls.
LEMMA TrackerStepKeeps ==
    ASSUME TrackerInv, ConnsStay, TrackerStep
    PROVE  TrackerInv'
<1> USE DEF TrackerInv, ConnsStay
<1>1. CASE Registers
  <2>1. PICK r \in Requests : call[r].conn \in Conns /\ Tracker!Register(call[r].conn, r)
    BY <1>1 DEF Registers
  <2>2. /\ pending' = [pending EXCEPT ![call[r].conn] = @ \cup {r}]
        /\ completion' = [completion EXCEPT ![r] = "waiting"]
        /\ terminalError' = terminalError /\ ~terminalError[call[r].conn]
    BY <2>1 DEF Tracker!Register, Tracker!RegisterError
  <2>3. TrackersShaped'
    BY <2>1, <2>2 DEF TrackersShaped
  <2>4. WaitersHaveConn'
    BY <2>1, <2>2 DEF WaitersHaveConn, TrackersShaped
  <2>5. WaitersAreTracked'
    BY <2>1, <2>2 DEF WaitersAreTracked, WaitersHaveConn, TrackersShaped
  <2>6. QED
    BY <2>3, <2>4, <2>5
<1>2. CASE Settles
  <2>0. PICK c \in Conns, v \in Tracker!Settled : \E r : SettlesOne(c, r, v)
    BY <1>2 DEF Settles
  <2>1. PICK r : SettlesOne(c, r, v)
    BY <2>0
  <2>2. /\ pending' = [pending EXCEPT ![c] = @ \ {r}] \/ pending' = pending
        /\ completion' = [q \in Requests |-> IF q \in pending[c] \cap {r}
                                                /\ completion[q] = "waiting"
                                             THEN v ELSE completion[q]]
        /\ v # "waiting" /\ terminalError' = terminalError
    BY <2>1 DEF SettlesOne, Tracker!Remove, Tracker!Settle, Tracker!Settled
  <2>3. TrackersShaped'
    BY <2>1, <2>2 DEF TrackersShaped
  <2>4. WaitersHaveConn'
    BY <2>1, <2>2 DEF WaitersHaveConn, TrackersShaped
  <2>5. WaitersAreTracked'
    BY <2>1, <2>2 DEF WaitersAreTracked, WaitersHaveConn, TrackersShaped
  <2>6. QED
    BY <2>3, <2>4, <2>5
<1>3. CASE Fails
  <2>1. PICK c \in Conns, v \in Tracker!Settled : Tracker!FailPending(c, v)
    BY <1>3 DEF Fails
  <2>2. CASE terminalError[c]
    BY <2>1, <2>2 DEF Tracker!FailPending, TrackersShaped, WaitersHaveConn, WaitersAreTracked
  <2>3. CASE ~terminalError[c]
    <3>1. /\ pending' = [pending EXCEPT ![c] = {}]
          /\ terminalError' = [terminalError EXCEPT ![c] = TRUE]
          /\ completion' = [q \in Requests |-> IF q \in pending[c] /\ completion[q] = "waiting"
                                               THEN v ELSE completion[q]]
          /\ v # "waiting"
      BY <2>1, <2>3 DEF Tracker!FailPending, Tracker!Settle, Tracker!Settled
    <3>2. TrackersShaped'
      BY <2>1, <3>1 DEF TrackersShaped
    <3>3. WaitersHaveConn'
      BY <3>1 DEF WaitersHaveConn, TrackersShaped
    <3>4. WaitersAreTracked'
      BY <3>1 DEF WaitersAreTracked, WaitersHaveConn, TrackersShaped
    <3>5. QED
      BY <3>2, <3>3, <3>4
  <2>4. QED
    BY <2>2, <2>3
<1>4. CASE UNCHANGED <<pending, terminalError, completion>>
  BY <1>4 DEF TrackersShaped, WaitersHaveConn, WaitersAreTracked
<1>5. QED
  BY <1>1, <1>2, <1>3, <1>4 DEF TrackerStep

\* Every step of the client is such a critical section or leaves the trackers alone.
LEMMA NextIsTrackerStep ==
    ASSUME Shaped, RegistryInv, [Next]_vars
    PROVE  TrackerStep
<1> USE DEF trackerVars
<1>1. ASSUME NEW r \in Requests, LateStep(r)
      PROVE  TrackerStep
  <2>1. call[r].conn \in Conns
    BY <1>1 DEF LateStep, Send, RegisterRequest, WriteDone, WriteCancelled, WriteLost, Await,
       SendCancel, At, RegistryInv, ConnFollowsStep, HasConn, LateSteps
  <2>2. ASSUME NEW error \in Tracker!Settled, ConnectionLost(r, error)
        PROVE  TrackerStep
    BY <2>1, <2>2 DEF ConnectionLost, Tracker!FailConnection, TrackerStep, Fails
  <2>3. ASSUME CallCancelled(r) PROVE TrackerStep
    <3>1. SettlesOne(call[r].conn, r, "cancelled") \/ UNCHANGED trackerVars
      BY <2>3 DEF CallCancelled, Tracker!TryCancel, SettlesOne
    <3>2. QED
      BY <2>1, <3>1, SettlingIsTrackerStep DEF TrackerStep
  <2>4. CASE Send(r) \/ WriteDone(r) \/ SendCancel(r)
    BY <2>4 DEF Send, WriteDone, SendCancel, TrackerStep
  <2>5. CASE RegisterRequest(r)
    BY <2>1, <2>5 DEF RegisterRequest, TrackerStep, Registers
  <2>6. CASE WriteCancelled(r)
    BY <2>3, <2>6 DEF WriteCancelled
  <2>7. CASE WriteLost(r)
    BY <2>2, <2>7 DEF WriteLost, Tracker!Settled
  <2>8. CASE Await(r)
    <3>1. CASE UNCHANGED trackerVars
      BY <3>1 DEF TrackerStep
    <3>2. CASE CallTimedOut(r)
      BY <3>2 DEF CallTimedOut, TrackerStep
    <3>3. CASE completion[r] \in {"io", "invalidOperation", "disposed"}
               /\ ConnectionLost(r, completion[r])
      BY <2>2, <3>3 DEF Tracker!Settled
    <3>4. CASE CallCancelled(r)
      BY <2>3, <3>4
    <3>5. QED
      BY <2>8, <3>1, <3>2, <3>3, <3>4 DEF Await
  <2>9. QED
    BY <1>1, <2>4, <2>5, <2>6, <2>7, <2>8 DEF LateStep
<1>2. ASSUME NEW r \in Requests, CallGoesOn(r) \/ WithTheBridge(r)
      PROVE  TrackerStep
  <2>1. CASE LateStep(r)
    BY <1>1, <2>1
  <2>2. CASE \/ ReadDescriptors(r) \/ UpdateRegistry(r) \/ Lookup(r) \/ Disposes(r)
             \/ HandshakeSucceeds(r) \/ HandshakeFails(r, "cancelled") \/ HandshakeFails(r, "io")
             \/ Install(r)
    BY <2>2 DEF ReadDescriptors, UpdateRegistry, Lookup, Disposes, HandshakeSucceeds,
       HandshakeFails, Install, TrackerStep
  <2>3. QED
    BY <1>2, <2>1, <2>2 DEF CallGoesOn, WithTheBridge, LateStep
<1>3. CASE CloseRegistry \/ CloseConnection \/ Environment \/ UNCHANGED vars
  BY <1>3 DEF CloseRegistry, CloseConnection, Environment, BridgeReads, PipeBreaks, BridgeAnswers,
     DescriptorChanges, DeadlinePasses, CallerCancels, vars, TrackerStep
<1>4. ASSUME NEW c \in Conns, ReadFails(c) \/ Disposal(c)
      PROVE  TrackerStep
  <2> USE DEF TrackerStep, Fails, Tracker!Settled
  <2>1. CASE ReadFails(c)
    BY <2>1 DEF ReadFails, Tracker!FailConnection
  <2>2. CASE DisposeTracker(c)
    BY <2>2 DEF DisposeTracker, Tracker!Dispose
  <2>3. CASE ClearTracker(c)
    BY <2>3 DEF ClearTracker
  <2>4. QED
    BY <1>4, <2>1, <2>2, <2>3 DEF Disposal
<1>5. ASSUME NEW c \in Conns, NEW f \in down[c], Receive(c, f)
      PROVE  TrackerStep
  <2>1. SettlesOne(c, f.id, "response") \/ SettlesOne(c, f.id, "io")
    BY <1>5 DEF Receive, SettlesOne, Tracker!TryComplete, Tracker!TryAcknowledgeCancellation
  <2>2. QED
    BY <2>1, SettlingIsTrackerStep
<1>6. ASSUME NEW c \in Conns, NEW r \in Requests, TimerFires(c, r)
      PROVE  TrackerStep
  <2>1. SettlesOne(c, r, "timeout")
    BY <1>6 DEF TimerFires, SettlesOne, Tracker!TimeoutRequest
  <2>2. QED
    BY <2>1, SettlingIsTrackerStep
<1>7. QED
  BY <1>2, <1>3, <1>4, <1>5, <1>6 DEF Next

-----------------------------------------------------------------------------
(* The theorems *)

LEMMA StepIInv == IInv /\ [Next]_vars => IInv'
<1> SUFFICES ASSUME IInv, [Next]_vars PROVE IInv'
  OBVIOUS
<1>1. Shaped' /\ RegistryInv' /\ ConnsStay
  BY RegistryStep DEF IInv
<1>2. TrackerInv'
  BY <1>1, NextIsTrackerStep, TrackerStepKeeps DEF IInv
<1>3. QED
  BY <1>1, <1>2 DEF IInv

\* A connection to the old process is never handed out once the registry has read the new
\* descriptor: GetConnectionAsync compares again before it installs what it made.
THEOREM FitsDescriptor == Spec => []ConnectionFitsDescriptor
<1>1. IInv => ConnectionFitsDescriptor
  BY DEF IInv, RegistryInv
<1>2. QED
  BY <1>1, InitIInv, StepIInv, PTL DEF Spec

\* Whoever waits for a response is in the tracker of its connection, and that connection has
\* not failed, whatever responses, timers, cancellations and disposals come in between.
THEOREM WaitersTracked == Spec => []WaitersAreTracked
<1>1. IInv => WaitersAreTracked
  BY DEF IInv, TrackerInv
<1>2. QED
  BY <1>1, InitIInv, StepIInv, PTL DEF Spec
=============================================================================
