---------------------- MODULE BridgeClientFrames_proofs ----------------------
(***************************************************************************)
(* More proofs about BridgeClient: its variables keep their shapes and the *)
(* trackers their limit, and a request is refused as one too many only     *)
(* when the client gave up one that the Bridge still works on.             *)
(*                                                                         *)
(* The second rests on what is known of every frame: the request of a call *)
(* is in the pipe, at work in the Bridge or answered, and only in one of   *)
(* these places; it is there only on the connection of its call and after  *)
(* the call has written it; and its completion is not settled with a       *)
(* response before that response is read.                                  *)
(***************************************************************************)
EXTENDS BridgeClient_proofs, FiniteSetTheorems

-----------------------------------------------------------------------------
(* Sequences of frames *)

\* A frame is in the pipe, and it is there at most once.
Holds(s, f) == \E i \in DOMAIN s : s[i] = f
OnceIn(s, f) == \A i, j \in DOMAIN s : s[i] = f /\ s[j] = f => i = j

\* The elements of Append(s, e).
LEMMA AppendElements ==
    ASSUME NEW S, NEW s \in Seq(S), NEW e \in S
    PROVE  /\ Append(s, e) \in Seq(S)
           /\ \A i \in DOMAIN Append(s, e) :
                 \/ i \in DOMAIN s /\ Append(s, e)[i] = s[i]
                 \/ i \notin DOMAIN s /\ i = Len(s) + 1 /\ Append(s, e)[i] = e
<1>1. DOMAIN s = 1..Len(s) /\ Len(s) \in Nat /\ DOMAIN Append(s, e) = 1..(Len(s) + 1)
  OBVIOUS
<1>2. QED
  BY <1>1

\* The elements of Tail(s).
LEMMA TailElements ==
    ASSUME NEW S, NEW s \in Seq(S), s # <<>>
    PROVE  /\ Tail(s) \in Seq(S) /\ Head(s) = s[1] /\ 1 \in DOMAIN s /\ Head(s) \in S
           /\ \A i \in DOMAIN Tail(s) :
                 i \in Nat /\ i # 0 /\ i + 1 \in DOMAIN s /\ Tail(s)[i] = s[i + 1]
<1>1. DOMAIN s = 1..Len(s) /\ Len(s) \in Nat /\ Len(s) # 0 /\ DOMAIN Tail(s) = 1..(Len(s) - 1)
  OBVIOUS
<1>2. QED
  BY <1>1

\* What is in a pipe after a frame has been written to it,
LEMMA HoldsAppend ==
    ASSUME NEW S, NEW s \in Seq(S), NEW e \in S, NEW f
    PROVE  /\ Holds(Append(s, e), f) => Holds(s, f) \/ f = e
           /\ OnceIn(s, f) /\ (f = e => ~Holds(s, f)) => OnceIn(Append(s, e), f)
BY AppendElements DEF Holds, OnceIn

\* after its first frame has been read,
LEMMA HoldsTail ==
    ASSUME NEW S, NEW s \in Seq(S), s # <<>>, NEW f
    PROVE  /\ Holds(Tail(s), f) => Holds(s, f)
           /\ Holds(s, Head(s))
           /\ OnceIn(s, f) => OnceIn(Tail(s), f)
           /\ OnceIn(s, f) /\ Head(s) = f => ~Holds(Tail(s), f)
BY TailElements DEF Holds, OnceIn

\* and when it is empty.
LEMMA HoldsEmpty == ASSUME NEW f PROVE ~Holds(<<>>, f) /\ OnceIn(<<>>, f)
BY DEF Holds, OnceIn

-----------------------------------------------------------------------------
(* The pipes *)

UpFrame == [kind : UpKinds, id : Requests]
DownFrame == [kind : DownKinds, id : Requests]
PipesShaped ==
    /\ up \in [Conns -> Seq(UpFrame)]
    /\ down \in [Conns -> SUBSET DownFrame]
    /\ serving \in [Conns -> SUBSET Requests]

\* What a step does to the pipes.
Pushes(r, kind) ==
    /\ call[r].conn \in Conns
    /\ up' = [up EXCEPT ![call[r].conn] = Append(@, Frame(kind, r))]
    /\ UNCHANGED <<down, serving>>
PipeStep ==
    \/ UNCHANGED bridgeVars
    \/ \E c : EmptyPipe(c)
    \/ \E r \in Requests : At(r, "writing") /\ ~At(r, "writing")' /\ Pushes(r, "request")
    \/ \E r \in Requests : At(r, "cancelling") /\ Pushes(r, "cancel")
    \/ \E c \in Conns : \/ BridgeReads(c)
                        \/ \E r \in Requests : BridgeAnswers(c, r)
                        \/ \E f \in down[c] : Receive(c, f)

\* What EndCall and DisposeThen do to the calls.
Ended(r, told) ==
    /\ call'[r].step = "ended" /\ call'[r].told = told /\ call'[r].stale = NoConn
    /\ call'[r].conn = call[r].conn /\ call'[r].desc = NoDescriptor
    /\ \A q \in Requests \ {r} : call'[q] = call[q]

\* A call that ends.
LEMMA EndFields ==
    ASSUME Shaped, NEW r \in Requests, NEW told, EndCall(r, told)
    PROVE  Ended(r, told)
BY DEF EndCall, Ended, NewCall, Shaped
Left(r, c, step, told) ==
    /\ call'[r].step = "disposing" /\ call'[r].told = told /\ call'[r].stale = c
    /\ call'[r].conn = call[r].conn /\ call'[r].after = step
    /\ call'[r].desc = call[r].desc
    /\ \A q \in Requests \ {r} : call'[q] = call[q]

\* A call that goes on to dispose a connection.
LEMMA DisposeFields ==
    ASSUME Shaped, NEW r \in Requests, NEW c, NEW step, NEW told, DisposeThen(r, c, step, told)
    PROVE  Left(r, c, step, told)
BY DEF DisposeThen, Left, Shaped, Call

\* Every step of the client and the Bridge is one of these.
LEMMA NextIsPipeStep ==
    ASSUME Shaped, RegistryInv, [Next]_vars
    PROVE  PipeStep
<1> USE DEF PipeStep, BreakPipe, Tear, WriteNothing, bridgeVars
<1>1. ASSUME NEW r \in Requests, LateStep(r) PROVE PipeStep
  <2>1. call[r].conn \in Conns
    BY <1>1 DEF LateStep, Send, RegisterRequest, WriteDone, WriteCancelled, WriteLost,
       Await, SendCancel, At, RegistryInv, ConnFollowsStep, HasConn, LateSteps
  <2>2. CASE Send(r) \/ RegisterRequest(r) \/ WriteLost(r) \/ Await(r)
    BY <2>2 DEF Send, RegisterRequest, WriteLost, Await
  <2>3. CASE WriteDone(r)
    BY <2>1, <2>3 DEF WriteDone, Push, Pushes, At, Goto, Shaped, Call
  <2>4. CASE WriteCancelled(r)
    <3>1. ~At(r, "writing")'
      BY <2>4, EndFields DEF WriteCancelled, CallCancelled, Ended, At, Shaped, Call
    <3>2. QED
      BY <2>1, <2>4, <3>1 DEF WriteCancelled, Push, Pushes
  <2>5. CASE SendCancel(r)
    BY <2>1, <2>5 DEF SendCancel, Push, Pushes
  <2>6. QED
    BY <1>1, <2>2, <2>3, <2>4, <2>5 DEF LateStep
<1>2. ASSUME NEW r \in Requests, CallGoesOn(r) \/ WithTheBridge(r) PROVE PipeStep
  <2>1. CASE LateStep(r)
    BY <1>1, <2>1
  <2>2. CASE Disposes(r)
    BY <2>2 DEF Disposes, BeginDispose
  <2>3. CASE \/ ReadDescriptors(r) \/ UpdateRegistry(r) \/ Lookup(r) \/ HandshakeSucceeds(r)
             \/ HandshakeFails(r, "cancelled") \/ HandshakeFails(r, "io") \/ Install(r)
    BY <2>3 DEF ReadDescriptors, UpdateRegistry, Lookup, HandshakeSucceeds, HandshakeFails,
       Install
  <2>4. QED
    BY <1>2, <2>1, <2>2, <2>3 DEF CallGoesOn, WithTheBridge, LateStep
<1>3. CASE CloseConnection
  BY <1>3 DEF CloseConnection, BeginDispose
<1>4. CASE CloseRegistry \/ UNCHANGED vars
  BY <1>4 DEF CloseRegistry, vars
<1>5. ASSUME NEW c \in Conns, ReadFails(c) \/ Disposal(c) PROVE PipeStep
  BY <1>5 DEF ReadFails, Disposal, DisposeTracker, ClearTracker
<1>6. ASSUME NEW c \in Conns, NEW f \in down[c], Receive(c, f) PROVE PipeStep
  BY <1>6
<1>7. ASSUME NEW c \in Conns, NEW r \in Requests, TimerFires(c, r) PROVE PipeStep
  BY <1>7 DEF TimerFires
<1>8. CASE Environment
  BY <1>8 DEF Environment, PipeBreaks, DescriptorChanges, DeadlinePasses, CallerCancels
<1>9. QED
  BY <1>2, <1>3, <1>4, <1>5, <1>6, <1>7, <1>8 DEF Next

\* They keep the pipes' shapes.
LEMMA PipesStep ==
    ASSUME PipesShaped, PipeStep
    PROVE  PipesShaped'
<1> USE DEF PipesShaped, UpKinds, DownKinds, Frame
<1>1. CASE UNCHANGED bridgeVars
  BY <1>1 DEF bridgeVars
<1>2. ASSUME NEW c, EmptyPipe(c) PROVE PipesShaped'
  <2>1. <<>> \in Seq(UpFrame) /\ {} \in SUBSET DownFrame /\ {} \in SUBSET Requests
    OBVIOUS
  <2>2. QED
    BY <1>2, <2>1 DEF EmptyPipe
<1>3. ASSUME NEW r \in Requests, NEW kind \in {"request", "cancel"}, Pushes(r, kind)
      PROVE  PipesShaped'
  <2>1. Frame(kind, r) \in UpFrame
    BY DEF UpFrame
  <2>2. Append(up[call[r].conn], Frame(kind, r)) \in Seq(UpFrame)
    BY <1>3, <2>1, AppendElements DEF Pushes
  <2>3. QED
    BY <1>3, <2>2 DEF Pushes
<1>4. ASSUME NEW c \in Conns, BridgeReads(c) PROVE PipesShaped'
  <2>1. Tail(up[c]) \in Seq(UpFrame) /\ Head(up[c]) \in UpFrame
    BY <1>4, TailElements DEF BridgeReads
  <2>2. Head(up[c]).id \in Requests
    BY <2>1 DEF UpFrame
  <2>3. /\ Frame("busy", Head(up[c]).id) \in DownFrame
        /\ Frame("notFound", Head(up[c]).id) \in DownFrame
    BY <2>2 DEF DownFrame
  <2>4. up' \in [Conns -> Seq(UpFrame)]
    BY <1>4, <2>1 DEF BridgeReads
  <2>5. down' \in [Conns -> SUBSET DownFrame]
    <3>1. \/ down' = [down EXCEPT ![c] = @ \cup {Frame("busy", Head(up[c]).id)}]
          \/ down' = [down EXCEPT ![c] = @ \cup {Frame("notFound", Head(up[c]).id)}]
          \/ down' = down \/ down' = [down EXCEPT ![c] = @]
      BY <1>4 DEF BridgeReads
    <3>2. QED
      BY <2>3, <3>1
  <2>6. serving' \in [Conns -> SUBSET Requests]
    BY <1>4, <2>2 DEF BridgeReads
  <2>7. QED
    BY <2>4, <2>5, <2>6
<1>5. ASSUME NEW c \in Conns, NEW r \in Requests, BridgeAnswers(c, r) PROVE PipesShaped'
  <2>1. Frame("response", r) \in DownFrame
    BY DEF DownFrame
  <2>2. QED
    BY <1>5, <2>1 DEF BridgeAnswers
<1>6. ASSUME NEW c \in Conns, NEW f \in down[c], Receive(c, f) PROVE PipesShaped'
  BY <1>6 DEF Receive
<1>7. QED
  BY <1>1, <1>2, <1>3, <1>4, <1>5, <1>6 DEF PipeStep
-----------------------------------------------------------------------------
(* The frames of a request *)

\* The request is in the pipe, an answer to it is; the call has tried to write its request.
Asked(c, q) == Holds(up[c], Frame("request", q))
Answered(c, q) == Frame("response", q) \in down[c] \/ Frame("busy", q) \in down[c]
Written(k) ==
    k.step \in {"waiting", "cancelling", "ended"} \/ (k.step = "disposing" /\ k.after = "ended")

\* Where the frames of a request can be.
FramesInv ==
    \A q \in Requests :
        /\ completion[q] = "response" => Written(call[q])
        /\ \A c \in Conns :
              /\ Asked(c, q) \/ q \in serving[c] \/ Answered(c, q)
                    => call[q].conn = c /\ Written(call[q])
              /\ Asked(c, q) => q \notin serving[c] /\ ~Answered(c, q)
              /\ q \in serving[c] => ~Answered(c, q)
              /\ Asked(c, q) \/ q \in serving[c] => completion[q] # "response"
              /\ OnceIn(up[c], Frame("request", q))

\* A call does not go back to before its write, and what it writes then counts as written.
WrittenStays ==
    \A q \in Requests : /\ Written(call[q]) => Written(call[q])'
                        /\ At(q, "writing") => At(q, "writing")' \/ Written(call[q])'

\* Every step keeps that.
LEMMA NextKeepsWritten ==
    ASSUME Shaped, [Next]_vars
    PROVE  WrittenStays
<1> USE DEF WrittenStays, Written, At, Shaped, Call
<1>1. ASSUME NEW r \in Requests, CallGoesOn(r) \/ WithTheBridge(r) PROVE WrittenStays
  <2>1. CASE Disposes(r)
    BY <2>1, EndFields DEF Disposes, Ended
  <2>2. CASE WriteDone(r)
    BY <2>2 DEF WriteDone, Goto
  <2>3. CASE WriteCancelled(r)
    BY <2>3, EndFields DEF WriteCancelled, CallCancelled, Ended
  <2>4. CASE WriteLost(r)
    BY <2>4, EndFields DEF WriteLost, ConnectionLost, Ended
  <2>5. CASE Await(r)
    BY <2>5, EndFields DEF Await, CallTimedOut, CallCancelled, ConnectionLost, Ended
  <2>6. CASE SendCancel(r)
    BY <2>6, EndFields DEF SendCancel, Ended
  <2>7. CASE /\ ~Written(call[r]) /\ ~At(r, "writing")
             /\ \A q \in Requests \ {r} : call'[q] = call[q]
    BY <2>7
  <2>8. CASE ReadDescriptors(r)
    BY <2>7, <2>8, EndFields DEF ReadDescriptors, Ended
  <2>9. CASE UpdateRegistry(r)
    BY <2>7, <2>9, EndFields, DisposeFields DEF UpdateRegistry, Ended, Left, Goto
  <2>10. CASE Lookup(r)
    BY <2>7, <2>10, EndFields DEF Lookup, Ended
  <2>11. CASE HandshakeSucceeds(r) \/ HandshakeFails(r, "cancelled") \/ HandshakeFails(r, "io")
    BY <2>7, <2>11, DisposeFields DEF HandshakeSucceeds, HandshakeFails, Left, Goto
  <2>12. CASE Install(r)
    BY <2>7, <2>12, EndFields, DisposeFields DEF Install, Ended, Left
  <2>13. CASE Send(r) \/ RegisterRequest(r)
    BY <2>7, <2>13, EndFields DEF Send, RegisterRequest, Ended, Goto
  <2>14. QED
    BY <1>1, <2>1, <2>2, <2>3, <2>4, <2>5, <2>6, <2>8, <2>9, <2>10, <2>11, <2>12, <2>13
       DEF CallGoesOn, WithTheBridge
<1>2. CASE call' = call
  BY <1>2
<1>3. QED
  BY <1>1, <1>2 DEF Next, CloseRegistry, CloseConnection, ReadFails, Disposal,
     DisposeTracker, ClearTracker, Receive, TimerFires, Environment, BridgeReads,
     PipeBreaks, BridgeAnswers, DescriptorChanges, DeadlinePasses, CallerCancels, vars

\* A completion is settled with the response only when its frame is read.
Responds(q) ==
    \E c \in Conns : \E f \in down[c] :
        Receive(c, f) /\ f.id = q /\ f.kind \in {"response", "busy"}
NewResponses ==
    \A q \in Requests :
        completion'[q] = "response" => completion[q] = "response" \/ Responds(q)

\* No other step settles one so.
LEMMA NextResponses ==
    ASSUME Shaped, TrackersShaped, [Next]_vars
    PROVE  NewResponses
<1> USE DEF NewResponses, TrackersShaped, trackerVars
<1>1. CASE completion' = completion
  BY <1>1
<1>2. ASSUME NEW c, NEW v \in Tracker!Settled \ {"response"}, Tracker!FailPending(c, v)
      PROVE  NewResponses
  BY <1>2 DEF Tracker!FailPending, Tracker!Settle
<1>3. ASSUME NEW c, NEW r, Tracker!TryCancel(c, r) PROVE NewResponses
  BY <1>3 DEF Tracker!TryCancel, Tracker!Settle
<1>4. ASSUME NEW r \in Requests, NEW error \in Tracker!Settled \ {"response"},
             ConnectionLost(r, error)
      PROVE  NewResponses
  BY <1>1, <1>2, <1>4 DEF ConnectionLost, Tracker!FailConnection
<1>5. ASSUME NEW r \in Requests, CallGoesOn(r) \/ WithTheBridge(r) PROVE NewResponses
  <2>1. CASE RegisterRequest(r)
    BY <1>1, <2>1 DEF RegisterRequest, Tracker!Register
  <2>2. CASE WriteCancelled(r)
    BY <1>1, <1>3, <2>2 DEF WriteCancelled, CallCancelled
  <2>3. CASE WriteLost(r)
    BY <1>4, <2>3 DEF WriteLost, Tracker!Settled
  <2>4. CASE Await(r)
    <3>1. CASE completion[r] \in {"io", "invalidOperation", "disposed"}
               /\ ConnectionLost(r, completion[r])
      BY <1>4, <3>1 DEF Tracker!Settled
    <3>2. QED
      BY <1>1, <1>3, <2>4, <3>1 DEF Await, CallTimedOut, CallCancelled
  <2>5. QED
    BY <1>1, <1>5, <2>1, <2>2, <2>3, <2>4 DEF CallGoesOn, WithTheBridge, ReadDescriptors,
       UpdateRegistry, Lookup, Disposes, HandshakeSucceeds, HandshakeFails, Install, Send,
       WriteDone, SendCancel
<1>6. ASSUME NEW c \in Conns, ReadFails(c) \/ Disposal(c) PROVE NewResponses
  BY <1>1, <1>2, <1>6 DEF ReadFails, Disposal, DisposeTracker, ClearTracker,
     Tracker!FailConnection, Tracker!Dispose, Tracker!Settled
<1>7. ASSUME NEW c \in Conns, NEW f \in down[c], Receive(c, f) PROVE NewResponses
  <2>1. ASSUME NEW q \in Requests, completion'[q] = "response", completion[q] # "response"
        PROVE  f.id = q /\ f.kind \in {"response", "busy"}
    BY <1>7, <2>1 DEF Receive, Tracker!TryComplete, Tracker!TryAcknowledgeCancellation,
       Tracker!Settle
  <2>2. QED
    BY <1>7, <2>1 DEF Responds
<1>8. ASSUME NEW c \in Conns, NEW r \in Requests, TimerFires(c, r) PROVE NewResponses
  BY <1>8 DEF TimerFires, Tracker!TimeoutRequest, Tracker!Settle
<1>9. QED
  BY <1>1, <1>5, <1>6, <1>7, <1>8 DEF Next, CloseRegistry, CloseConnection, Environment,
     BridgeReads, PipeBreaks, BridgeAnswers, DescriptorChanges, DeadlinePasses,
     CallerCancels, vars

\* The fields of a frame.
LEMMA FrameValues ==
    ASSUME NEW k, NEW r
    PROVE  Frame(k, r).kind = k /\ Frame(k, r).id = r
BY DEF Frame

\* What is known of the frames stays true: each step moves the frames of one request on by one
\* place, or drops all the frames of a connection.
LEMMA FramesStep ==
    ASSUME PipesShaped, FramesInv, PipeStep, ConnsStay, WrittenStays, NewResponses
    PROVE  FramesInv'
<1> USE DEF FramesInv, PipesShaped
<1>1. ASSUME NEW q \in Requests, Responds(q)
      PROVE  /\ Written(call[q])
             /\ \A c \in Conns : ~Asked(c, q) /\ q \notin serving[c]
  <2>1. PICK c \in Conns : \E f \in down[c] : f.id = q /\ f.kind \in {"response", "busy"}
    BY <1>1 DEF Responds
  <2>2. ASSUME NEW f \in down[c], f.id = q, f.kind \in {"response", "busy"}
        PROVE  f = Frame("response", q) \/ f = Frame("busy", q)
    BY <2>2 DEF DownFrame, Frame
  <2>3. QED
    BY <2>1, <2>2 DEF Answered
<1>2. ASSUME NEW q \in Requests
      PROVE  /\ completion'[q] = "response" => Written(call[q])'
             /\ ~Written(call[q]) => completion'[q] # "response"
             /\ \A c \in Conns : Asked(c, q) \/ q \in serving[c] => completion'[q] # "response"
  BY <1>1 DEF NewResponses, WrittenStays
<1>3. ASSUME NEW q \in Requests, NEW c \in Conns,
             Asked(c, q) \/ q \in serving[c] \/ Answered(c, q)
      PROVE  call'[q].conn = c /\ Written(call[q])'
  BY <1>3 DEF ConnsStay, WrittenStays
<1> DEFINE Fine(q, c) ==
              /\ Asked(c, q) \/ q \in serving[c] \/ Answered(c, q)
                    => call[q].conn = c /\ Written(call[q])
              /\ Asked(c, q) => q \notin serving[c] /\ ~Answered(c, q)
              /\ q \in serving[c] => ~Answered(c, q)
              /\ Asked(c, q) \/ q \in serving[c] => completion[q] # "response"
              /\ OnceIn(up[c], Frame("request", q))
<1>4. ASSUME NEW q \in Requests, NEW c \in Conns PROVE Fine(q, c)'
  <2>1. CASE up'[c] = up[c] /\ down'[c] \subseteq down[c] /\ serving'[c] = serving[c]
    BY <1>2, <1>3, <2>1 DEF Asked, Answered
  <2>2. CASE up'[c] = <<>> /\ down'[c] = {} /\ serving'[c] = {}
    BY <2>2, HoldsEmpty DEF Asked, Answered
  <2>3. ASSUME NEW r \in Requests, At(r, "writing"), ~At(r, "writing")', Pushes(r, "request"),
               c = call[r].conn
        PROVE  Fine(q, c)'
    <3>1. ~Written(call[r]) /\ Written(call[r])'
      BY <2>3 DEF At, Written, WrittenStays
    <3>2. /\ Frame("request", r) \in UpFrame
          /\ Frame("request", q) = Frame("request", r) => q = r
      BY DEF UpFrame, Frame, UpKinds
    <3>3. /\ Asked(c, q)' => Asked(c, q) \/ q = r
          /\ OnceIn(up'[c], Frame("request", q))
      BY <2>3, <3>1, <3>2, HoldsAppend DEF Asked, Pushes
    <3>4. down'[c] = down[c] /\ serving'[c] = serving[c] /\ call'[r].conn = c
      BY <2>3 DEF Pushes, ConnsStay
    <3>5. CASE q = r
      BY <1>2, <3>1, <3>3, <3>4, <3>5 DEF Answered
    <3>6. CASE q # r
      BY <1>2, <1>3, <3>3, <3>4, <3>6 DEF Answered
    <3>7. QED
      BY <3>5, <3>6
  <2>4. ASSUME NEW r \in Requests, Pushes(r, "cancel"), c = call[r].conn PROVE Fine(q, c)'
    <3>1. Frame("cancel", r) \in UpFrame /\ Frame("request", q) # Frame("cancel", r)
      BY DEF UpFrame, Frame, UpKinds
    <3>2. (Asked(c, q)' => Asked(c, q)) /\ OnceIn(up'[c], Frame("request", q))
      BY <2>4, <3>1, HoldsAppend DEF Asked, Pushes
    <3>3. QED
      BY <1>2, <1>3, <2>4, <3>2 DEF Answered, Pushes
  <2>5. CASE BridgeReads(c)
    <3> DEFINE h == Head(up[c])
    <3>1. /\ up[c] \in Seq(UpFrame) /\ up[c] # <<>> /\ up'[c] = Tail(up[c])
          /\ h \in UpFrame /\ h = Frame(h.kind, h.id)
      <4>1. up[c] \in Seq(UpFrame) /\ up[c] # <<>> /\ up'[c] = Tail(up[c])
        BY <2>5 DEF BridgeReads
      <4>2. h \in UpFrame
        BY <4>1, TailElements
      <4>3. QED
        BY <4>1, <4>2 DEF UpFrame, Frame
    <3>2. /\ Asked(c, q)' => Asked(c, q)
          /\ OnceIn(up'[c], Frame("request", q))
          /\ h = Frame("request", q) => Asked(c, q) /\ ~Asked(c, q)'
      BY <3>1, HoldsTail DEF Asked
    <3>3. CASE /\ h.kind = "request"
               /\ down'[c] = down[c] \cup {Frame("busy", h.id)} /\ serving'[c] = serving[c]
      <4>1. Answered(c, q)' => Answered(c, q) \/ h.id = q
        BY <3>3, FrameValues DEF Answered
      <4>2. QED
        BY <1>2, <1>3, <3>1, <3>2, <3>3, <4>1
    <3>4. CASE /\ h.kind = "request"
               /\ down'[c] = down[c] /\ serving'[c] = serving[c] \cup {h.id}
      BY <1>2, <1>3, <3>1, <3>2, <3>4 DEF Answered
    <3>5. CASE /\ down'[c] = down[c] \/ down'[c] = down[c] \cup {Frame("notFound", h.id)}
               /\ serving'[c] = serving[c]
      <4>1. Answered(c, q)' => Answered(c, q)
        BY <3>5 DEF Answered, Frame
      <4>2. QED
        BY <1>2, <1>3, <3>2, <3>5, <4>1
    <3>6. QED
      BY <2>5, <3>3, <3>4, <3>5 DEF BridgeReads
  <2>6. ASSUME NEW r \in Requests, BridgeAnswers(c, r) PROVE Fine(q, c)'
    <3>1. /\ r \in serving[c] /\ serving'[c] = serving[c] \ {r} /\ up'[c] = up[c]
          /\ down'[c] = down[c] \cup {Frame("response", r)}
      BY <2>6 DEF BridgeAnswers
    <3>2. Answered(c, q)' => Answered(c, q) \/ q = r
      BY <3>1, FrameValues DEF Answered
    <3>3. QED
      BY <1>2, <1>3, <3>1, <3>2 DEF Asked
  <2>7. QED
    <3>1. CASE UNCHANGED bridgeVars
      BY <2>1, <3>1 DEF bridgeVars
    <3>2. ASSUME NEW d, EmptyPipe(d) PROVE Fine(q, c)'
      BY <2>1, <2>2, <3>2 DEF EmptyPipe
    <3>3. ASSUME NEW r \in Requests, At(r, "writing"), ~At(r, "writing")', Pushes(r, "request")
          PROVE  Fine(q, c)'
      BY <2>1, <2>3, <3>3 DEF Pushes
    <3>4. ASSUME NEW r \in Requests, Pushes(r, "cancel") PROVE Fine(q, c)'
      BY <2>1, <2>4, <3>4 DEF Pushes
    <3>5. ASSUME NEW d \in Conns, BridgeReads(d) PROVE Fine(q, c)'
      BY <2>1, <2>5, <3>5 DEF BridgeReads
    <3>6. ASSUME NEW d \in Conns, NEW r \in Requests, BridgeAnswers(d, r) PROVE Fine(q, c)'
      BY <2>1, <2>6, <3>6 DEF BridgeAnswers
    <3>7. ASSUME NEW d \in Conns, NEW f \in down[d], Receive(d, f) PROVE Fine(q, c)'
      BY <2>1, <3>7 DEF Receive
    <3>8. QED
      BY <3>1, <3>2, <3>3, <3>4, <3>5, <3>6, <3>7 DEF PipeStep
<1>5. QED
  BY <1>2, <1>4
-----------------------------------------------------------------------------
(* The limit of the trackers, and the other variables *)

WithinLimit == \A c \in Conns : Cardinality(pending[c]) <= InFlightLimit

\* Sets of calls are finite.
LEMMA RequestSets ==
    ASSUME NEW S \in SUBSET Requests
    PROVE  IsFiniteSet(S) /\ Cardinality(S) \in Nat
BY ClientAssumption, FS_Subset, FS_CardinalityType

\* The tracker counts with the same Cardinality.
LEMMA TrackerCounts == ASSUME NEW S PROVE Tracker!Cardinality(S) = Cardinality(S)
BY DEF Tracker!Cardinality, Cardinality

\* Register looks at the limit, and nothing else adds a request.
LEMMA LimitStep ==
    ASSUME TrackersShaped, WithinLimit, TrackerStep
    PROVE  WithinLimit'
<1> USE ClientAssumption DEF TrackersShaped, WithinLimit
<1>1. CASE Registers
  <2>1. PICK r \in Requests : call[r].conn \in Conns /\ Tracker!Register(call[r].conn, r)
    BY <1>1 DEF Registers
  <2> DEFINE d == call[r].conn
  <2>2. /\ pending' = [pending EXCEPT ![d] = @ \cup {r}]
        /\ ~(Cardinality(pending[d]) >= InFlightLimit)
    BY <2>1, TrackerCounts DEF Tracker!Register, Tracker!RegisterError, Tracker!IsFull
  <2>3. IsFiniteSet(pending[d]) /\ Cardinality(pending[d]) \in Nat
    BY <2>1, RequestSets
  <2>4. Cardinality(pending[d] \cup {r})
            \in {Cardinality(pending[d]), Cardinality(pending[d]) + 1}
    BY <2>3, FS_AddElement
  <2>5. Cardinality(pending[d] \cup {r}) <= InFlightLimit
    BY <2>2, <2>3, <2>4
  <2> HIDE DEF d
  <2>6. QED
    BY <2>2, <2>5
<1>2. ASSUME NEW c \in Conns, pending'[c] \subseteq pending[c]
      PROVE  Cardinality(pending'[c]) <= InFlightLimit
  <2>1. /\ IsFiniteSet(pending[c])
        /\ pending'[c] \in SUBSET pending[c] /\ pending'[c] \in SUBSET Requests
    BY <1>2, RequestSets
  <2>2. Cardinality(pending'[c]) <= Cardinality(pending[c])
    BY <2>1, FS_Subset
  <2>3. Cardinality(pending'[c]) \in Nat /\ Cardinality(pending[c]) \in Nat
    BY <2>1, RequestSets
  <2>4. QED
    BY <2>2, <2>3
<1>3. CASE \A c \in Conns : pending'[c] \subseteq pending[c]
  BY <1>2, <1>3
<1>4. CASE Settles
  BY <1>3, <1>4 DEF Settles, SettlesOne, Tracker!Remove
<1>5. CASE Fails
  BY <1>3, <1>5 DEF Fails, Tracker!FailPending
<1>6. QED
  BY <1>1, <1>3, <1>4, <1>5 DEF TrackerStep

\* The variables no other part of the invariant is about.
RestShaped ==
    /\ events \in 0..MaxEvents /\ closed \in BOOLEAN /\ calm \in BOOLEAN
    /\ disposer \in Conns \cup {NoConn, "idle", "done"}
    /\ expired \subseteq Requests /\ cancelled \subseteq Requests
    /\ isDisposed \in [Conns -> BOOLEAN]

\* They keep their shapes too.
LEMMA RestStep ==
    ASSUME Shaped, RestShaped, [Next]_vars
    PROVE  RestShaped' /\ (calm' => calm)
<1> DEFINE Rest == RestShaped' /\ (calm' => calm)
<1> USE DEF RestShaped, envVars, registryVars, tokenVars, trackerVars
<1>1. ASSUME events' = events, calm' \in {calm, FALSE}, closed' = closed, disposer' = disposer,
             expired' = expired, cancelled' = cancelled, isDisposed' = isDisposed
      PROVE  Rest
  <2>1. RestShaped'
    BY <1>1
  <2>2. calm' = calm \/ ~calm'
    BY <1>1, Zenon DEF RestShaped
  <2>3. QED
    BY <2>1, <2>2
<1>2. ASSUME Event PROVE events' \in 0..MaxEvents
  BY <1>2, ClientAssumption DEF Event
<1>3. ASSUME NEW r \in Requests, CallGoesOn(r) \/ WithTheBridge(r) PROVE Rest
  <2>1. CASE \/ ReadDescriptors(r) \/ UpdateRegistry(r) \/ Lookup(r) \/ Disposes(r)
             \/ HandshakeSucceeds(r) \/ HandshakeFails(r, "cancelled")
             \/ HandshakeFails(r, "io") \/ Install(r) \/ Send(r)
    BY <1>1, <2>1 DEF ReadDescriptors, UpdateRegistry, Lookup, Disposes, HandshakeSucceeds,
       HandshakeFails, Install, Send
  <2>2. CASE RegisterRequest(r)
    BY <1>1, <2>2 DEF RegisterRequest, Tracker!Register
  <2>3. CASE WriteDone(r)
    BY <1>1, <2>3 DEF WriteDone, Push
  <2>4. CASE WriteCancelled(r)
    <3>1. isDisposed' = isDisposed
      BY <2>4 DEF WriteCancelled, CallCancelled, Tracker!TryCancel
    <3>2. calm' \in {calm, FALSE}
      BY <2>4 DEF WriteCancelled, WriteNothing, Tear, BreakPipe, Push
    <3>3. QED
      BY <1>1, <2>4, <3>1, <3>2 DEF WriteCancelled
  <2>5. CASE WriteLost(r)
    BY <1>1, <2>5 DEF WriteLost, ConnectionLost, Tracker!FailConnection
  <2>6. CASE Await(r)
    BY <1>1, <2>6 DEF Await, CallTimedOut, CallCancelled, ConnectionLost,
       Tracker!FailConnection, Tracker!TryCancel
  <2>7. CASE SendCancel(r)
    BY <1>1, <2>7 DEF SendCancel, WriteNothing, Tear, BreakPipe, Push
  <2>8. QED
    BY <1>3, <2>1, <2>2, <2>3, <2>4, <2>5, <2>6, <2>7 DEF CallGoesOn, WithTheBridge
<1>4. CASE CloseRegistry
  BY <1>2, <1>4 DEF CloseRegistry, Shaped, Conns
<1>5. CASE CloseConnection
  BY <1>5 DEF CloseConnection
<1>6. ASSUME NEW c \in Conns, ReadFails(c) \/ Disposal(c) PROVE Rest
  BY <1>1, <1>6 DEF ReadFails, Disposal, DisposeTracker, ClearTracker,
     Tracker!FailConnection, Tracker!Dispose
<1>7. ASSUME NEW c \in Conns, NEW f \in down[c], Receive(c, f) PROVE Rest
  BY <1>1, <1>7 DEF Receive, Tracker!TryComplete, Tracker!TryAcknowledgeCancellation
<1>8. ASSUME NEW c \in Conns, NEW r \in Requests, TimerFires(c, r) PROVE Rest
  BY <1>1, <1>8 DEF TimerFires, Tracker!TimeoutRequest
<1>9. CASE Environment
  <2>1. ASSUME NEW c \in Conns, BridgeReads(c) PROVE Rest
    BY <1>1, <2>1 DEF BridgeReads
  <2>2. ASSUME NEW c \in Conns, PipeBreaks(c) PROVE Rest
    BY <1>2, <2>2 DEF PipeBreaks, BreakPipe
  <2>3. ASSUME NEW c \in Conns, NEW r \in Requests, BridgeAnswers(c, r) PROVE Rest
    BY <1>1, <2>3 DEF BridgeAnswers
  <2>4. ASSUME NEW d, DescriptorChanges(d) PROVE Rest
    BY <1>2, <2>4 DEF DescriptorChanges
  <2>5. ASSUME NEW r \in Requests, DeadlinePasses(r) \/ CallerCancels(r) PROVE Rest
    BY <1>2, <2>5 DEF DeadlinePasses, CallerCancels
  <2>6. QED
    BY <1>9, <2>1, <2>2, <2>3, <2>4, <2>5 DEF Environment
<1>10. CASE UNCHANGED vars
  BY <1>1, <1>10 DEF vars
<1>11. QED
  BY <1>3, <1>4, <1>5, <1>6, <1>7, <1>8, <1>9, <1>10 DEF Next

-----------------------------------------------------------------------------
(* The theorems *)

FrameInv == IInv /\ PipesShaped /\ WithinLimit /\ RestShaped /\ FramesInv

\* The initial states satisfy the invariant,
LEMMA InitFrameInv == Init => FrameInv
<1> SUFFICES ASSUME Init PROVE FrameInv
  OBVIOUS
<1> USE ClientAssumption DEF Init
<1>1. IInv
  BY InitIInv
<1>2. PipesShaped
  <2>1. <<>> \in Seq(UpFrame)
    OBVIOUS
  <2>2. QED
    BY <2>1 DEF PipesShaped
<1>3. WithinLimit
  BY FS_EmptySet DEF WithinLimit, Tracker!Init
<1>4. RestShaped
  <2>1. isDisposed \in [Conns -> BOOLEAN]
    BY DEF Tracker!Init
  <2>2. events \in 0..MaxEvents
    OBVIOUS
  <2>3. QED
    BY <2>1, <2>2 DEF RestShaped
<1>5. FramesInv
  BY HoldsEmpty DEF FramesInv, Asked, Answered, Tracker!Init, Conns
<1>6. QED
  BY <1>1, <1>2, <1>3, <1>4, <1>5 DEF FrameInv

\* and every step keeps it.
LEMMA StepFrameInv == FrameInv /\ [Next]_vars => FrameInv'
<1> SUFFICES ASSUME FrameInv, [Next]_vars PROVE FrameInv'
  OBVIOUS
<1> USE DEF FrameInv
<1>1. IInv' /\ Shaped /\ RegistryInv /\ TrackersShaped
  BY StepIInv DEF IInv, TrackerInv
<1>2. ConnsStay
  BY <1>1, RegistryStep
<1>3. PipeStep /\ TrackerStep
  BY <1>1, NextIsPipeStep, NextIsTrackerStep
<1>4. PipesShaped' /\ WithinLimit' /\ RestShaped'
  BY <1>1, <1>3, PipesStep, LimitStep, RestStep
<1>5. FramesInv'
  BY <1>1, <1>2, <1>3, NextKeepsWritten, NextResponses, FramesStep
<1>6. QED
  BY <1>1, <1>4, <1>5

\* Every variable keeps its shape, and no tracker ever holds more requests than the limit the
\* handshake agreed (IpcRequestTracker.Register).
THEOREM TypeCorrect == Spec => []TypeOK
<1>1. FrameInv => TypeOK
  <2> SUFFICES ASSUME FrameInv PROVE TypeOK
    OBVIOUS
  <2>1. Shaped /\ TrackersShaped /\ PipesShaped /\ WithinLimit /\ RestShaped
    BY DEF FrameInv, IInv, TrackerInv
  <2>2. call \in [Requests -> [step : Steps, desc : Descriptors \cup {NoDescriptor},
                              conn : Conns \cup {NoConn}, stale : Conns \cup {NoConn},
                              after : Steps, told : Ends]]
    BY <2>1 DEF Shaped, Call, Steps
  <2>3. Tracker!TypeOK
    BY <2>1, TrackerCounts DEF TrackersShaped, WithinLimit, RestShaped, Tracker!TypeOK
  <2>4. QED
    BY <2>1, <2>2, <2>3 DEF TypeOK, Shaped, Connection, PipesShaped, UpFrame, DownFrame,
       RestShaped
<1>2. QED
  BY <1>1, InitFrameInv, StepFrameInv, PTL DEF Spec

\* The Bridge refuses a request when it counts the limit.  None of those it counts has been
\* answered, nor has this one: were they all in the tracker, it would hold one too many.
LEMMA BusyStep ==
    ASSUME FrameInv, [Next]_vars, NEW c \in Conns, NEW r \in Requests,
           Frame("busy", r) \in down'[c] \ down[c]
    PROVE  \E q \in serving[c] \cup {r} : q \notin pending[c] /\ completion[q] # "response"
<1>1. PipeStep /\ PipesShaped /\ FramesInv /\ WithinLimit /\ TrackersShaped
  BY NextIsPipeStep DEF FrameInv, IInv, TrackerInv
<1>2. /\ BridgeReads(c) /\ Head(up[c]) = Frame("request", r)
      /\ Cardinality(serving[c]) >= InFlightLimit
  <2>1. ASSUME NEW k \in {"response", "notFound"}, NEW q PROVE Frame("busy", r) # Frame(k, q)
    BY DEF Frame
  <2>2. CASE UNCHANGED bridgeVars
    BY <2>2 DEF bridgeVars
  <2>3. ASSUME NEW d, EmptyPipe(d) PROVE FALSE
    BY <1>1, <2>3 DEF EmptyPipe, PipesShaped
  <2>4. ASSUME NEW q \in Requests, NEW k, Pushes(q, k) PROVE FALSE
    BY <2>4 DEF Pushes
  <2>5. ASSUME NEW d \in Conns, NEW q \in Requests, BridgeAnswers(d, q) PROVE FALSE
    BY <1>1, <2>1, <2>5 DEF BridgeAnswers, PipesShaped
  <2>6. ASSUME NEW d \in Conns, NEW f \in down[d], Receive(d, f) PROVE FALSE
    BY <1>1, <2>6 DEF Receive, PipesShaped
  <2>7. PICK d \in Conns : BridgeReads(d)
    BY <1>1, <2>2, <2>3, <2>4, <2>5, <2>6 DEF PipeStep
  <2>8. d = c
    BY <1>1, <2>7 DEF BridgeReads, PipesShaped
  <2> DEFINE h == Head(up[c])
  <2>9. h \in UpFrame
    BY <1>1, <2>7, <2>8, TailElements DEF BridgeReads, PipesShaped
  <2>10. /\ h.kind = "request" /\ Cardinality(serving[c]) >= InFlightLimit
         /\ Frame("busy", r) = Frame("busy", h.id)
    BY <1>1, <2>1, <2>7, <2>8 DEF BridgeReads, PipesShaped
  <2>11. h.id = r
    BY <2>10, FrameValues
  <2>12. h = Frame("request", r)
    BY <2>9, <2>10, <2>11 DEF UpFrame, Frame
  <2>13. QED
    BY <2>7, <2>8, <2>10, <2>12
<1>3. Asked(c, r)
  BY <1>1, <1>2, HoldsTail DEF BridgeReads, PipesShaped, Asked
<1>4. r \notin serving[c] /\ \A q \in serving[c] \cup {r} : completion[q] # "response"
  BY <1>1, <1>3 DEF FramesInv, PipesShaped
<1>5. ASSUME serving[c] \cup {r} \subseteq pending[c] PROVE FALSE
  <2>1. pending[c] \in SUBSET Requests /\ serving[c] \in SUBSET Requests
    BY <1>1 DEF TrackersShaped, PipesShaped
  <2>2. IsFiniteSet(serving[c]) /\ Cardinality(serving[c]) \in Nat
    BY <2>1, RequestSets
  <2>3. Cardinality(serving[c] \cup {r}) = Cardinality(serving[c]) + 1
    BY <1>4, <2>2, FS_AddElement
  <2>4. IsFiniteSet(pending[c]) /\ Cardinality(pending[c]) \in Nat
    BY <2>1, RequestSets
  <2>5. Cardinality(serving[c] \cup {r}) <= Cardinality(pending[c])
    BY <1>5, <2>4, FS_Subset
  <2>6. Cardinality(pending[c]) <= InFlightLimit
    BY <1>1 DEF WithinLimit
  <2>7. QED
    BY <1>2, <2>2, <2>3, <2>4, <2>5, <2>6, ClientAssumption
<1>6. QED
  BY <1>4, <1>5

\* A Busy is never the fault of the two sides' counting: the client and the session count the
\* same requests, but for those whose call gave up before the Bridge had answered.
THEOREM BusyExplained == Spec => BusyOnlyAfterGivingUp
<1>1. FrameInv /\ [Next]_vars
          => [\A c \in Conns, r \in Requests :
                 Frame("busy", r) \in down'[c] \ down[c]
                     => \E q \in serving[c] \cup {r} :
                           q \notin pending[c] /\ completion[q] # "response"]_vars
  BY BusyStep
<1>2. QED
  BY <1>1, InitFrameInv, StepFrameInv, PTL DEF Spec, BusyOnlyAfterGivingUp
=============================================================================
