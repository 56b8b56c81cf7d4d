# A TLA+ verification of AviUtl2 MCP

AviUtl2 MCP lets an MCP client (an assistant) read and edit a project that a user has
open in the video editor AviUtl2. It has two halves: a .NET process that speaks MCP,
and the *Bridge*, a native plug-in inside AviUtl2. They talk over a named pipe. This
directory holds TLA+ modules that model the parts where concurrency, retries and the
user's own edits meet, configurations that check them with TLC, and proofs that TLAPS
checks. `PROJECT.json` maps each definition to the lines it stands for, and lists runs,
hazards, findings and theorems.

Paths below are relative to `src/src/`; `B/` is `AviUtl2MCP.Bridge/src/`, `C/` is
`AviUtl2MCP.BridgeClient/`.

## 1. The system

| Component | State it keeps | Operations | Correct when |
|---|---|---|---|
| at-most-once store `B/at_most_once_store.cpp` | tombstones by (epoch, client, request id), LRU of full responses | begin, mark_executing, complete, wait_for_completion | a request is executed once; everybody who asks again is told its one result; both tables stay in their limits |
| cancellation registry `B/cancellation_registry.cpp` | the state of each registered request id, its commit point | register, try_begin, try_reach_commit_point, is_cancelled, cancel, complete, cancel_all | after "cancelled" nothing is edited; after "tooLate" the edit is answered |
| command gate `B/command_gate.cpp` | bounded queue, one worker thread, stop flag | try_enqueue, stop, run | one command at a time; each command is executed or cancelled, once |
| dispatcher `B/request_dispatcher.cpp` | the three above, the handlers, async workers | dispatch, dispatch_async, cancel, reject_busy, stop | each request that was read is answered, with what was done |
| revision tracker `B/revision_tracker.cpp` | epoch, project generation, content and view counter | matches, commit, reset_project | two edits that quote one revision are not both carried out |
| locator resolver `B/locator_resolver.cpp` | none | create and resolve locators | a locator resolves to the object it was made from, or to none |
| native handlers `B/native_*_request_handler*.cpp` | none | one per operation | an edit touches what it names, and its answer says what happened |
| SDK facade `B/sdk_read_facade.cpp` | edit handle, dispatch window, project state, save sequence | one function per operation, each run on the main thread | what was checked still holds when it is used |
| PSD / GCMZ workflow `B/native_psd_request_handlers.cpp`, `gcmz_adapter.cpp` | intermediate files, the cursor | create, voice, validate | an external tool's result is found or reported partial |
| named pipe server `B/named_pipe_server.cpp`, `handshake.cpp`, `ipc_header.cpp` | listeners, sessions, in-flight counters, writer queues | start, serve_client, stop | sessions are independent, stop ends them all |
| Bridge runtime `B/bridge_runtime.cpp`, `plugin_entry.cpp` | the server and its descriptor file | start, stop | stop returns |
| ring logger `B/native_ring_logger.cpp` | ring of entries, sequence numbers | write, read after a cursor | nothing is read twice, loss is reported |
| client connection `C/Connections`, `C/Tracking` | descriptors and connections of the registry, the state of a connection, its pending requests with deadlines | discover, get connection, send, cancel, read loop, timers, dispose | each call ends, by its own answer, deadline or cancellation; one live connection for the present descriptor |
| client transport and discovery `C/Transport`, `C/Handshake`, `C/Discovery` | pipe, known descriptors | connect, read, write, watch | descriptors and connections agree |
| application services, tools, resources (`AviUtl2MCP.Application`, `AviUtl2MCP.Server`) | instance selection, paging cursors | one per tool | validation and paging are consistent |
| scripts | files on disk | install, update | a failed update is rolled back |

**How they interact.** A session thread of the pipe server reads frames. For a Request
it asks the store whether the request is new, registers it for cancellation and puts a
command into the gate. The gate's one worker runs the handler; the handler calls the
facade, and each facade call is sent to AviUtl2's main thread and waits there for its
turn (`SendMessageW`). The user, the loading of a project and the SDK callbacks share
that thread. Results go back through a promise and an async worker to the writer of the
session. A Cancel frame bypasses the gate.

On the other side a gateway call of the .NET process reads the descriptors, looks its
connection up in the registry or makes it, registers the request with the tracker of the
connection, writes a frame and waits. The read loop, the timer of its deadline, the token of
its caller, the failure of the connection and its disposal may each end the wait.

Three operations leave the process's own control: a save is a menu command of AviUtl2,
confirmed by a callback; PSD and voice objects are put on the timeline by GCMZDrops, which
gets a window message with a timeout; and some scenes can only be opened through the list
of scenes in the window.

**What is hard.** The store, the registry and the gate each have a mutex of their own,
so that one request takes about ten separate critical sections, and resends, cancels and
stop may come between any two. A handler makes several calls on the main thread, and the
user may do anything between two of them. A batch is planned on a copy and cannot be rolled
back; a save and a drop may take effect after the answer. Clients repeat requests after they
lost a connection, and must neither edit twice nor wait for nobody; two calls of a client
share a connection, so that the end of one must not be the end of the other.

## 2. The modules

| Module | Models | Used by |
|---|---|---|
| `MutationLedger` | what is promised of edit requests: new, queued, executing, completed, one result, told to all | refined by the store, instantiated by the dispatcher |
| `AtMostOnceStore` | `at_most_once_store.cpp` | `MCAtMostOnceStore`, `AtMostOnceStore_proofs`, `AtMostOnceLedger_proofs` |
| `CancellationRegistry` | `cancellation_registry.cpp` | `RequestDispatcher` |
| `CommandGate` | `command_gate.cpp` | `RequestDispatcher` |
| `RequestDispatcher` | `request_dispatcher.cpp`, and of `named_pipe_server.cpp` the loop of a session and `stop` | `MCRequestDispatcher`, `RequestDispatcher_proofs` |
| `ObjectEdits` | the handlers of the operations on one object, of creation and of the timeline query; `revision_tracker`; the locator; and the facade functions they call | `MCObjectEdits`, `ObjectEdits_proofs` |
| `ProjectHost` | AviUtl2 as the other handlers see it: scenes, cursors, locks, objects, saves, drops, the user; `revision_tracker`; the one request of the gate worker | `BatchPlan` |
| `BatchPlan` | `edit_sdk_batch`: the plan of a batch, and its execution | `EditHandlers` |
| `EditHandlers` | `batch.execute`, the effect edits, the PSD item edits, `psd.setup`, `layer.set`, `scene.create`, `view.setCursor`, `view.openScene` | `ProjectSave` |
| `ProjectSave` | `project.save` and `save_project` | `PsdWorkflow` |
| `PsdWorkflow` | `psd.create`, `psd.createVoice`, `gcmz_adapter.cpp` | `NativeOperations` |
| `NativeOperations` | these handlers on one gate worker beside the user: Next, fairness, properties | `MCNativeOperations`, `NativeOperations_proofs` |
| `IpcRequestTracker` | `C/Tracking/IpcRequestTracker.cs`, one per connection | `BridgeClient` |
| `BridgeClient` | registry, connection and transport of the client, with a Bridge session at the other end | `MCBridgeClient`, `BridgeClient_proofs`, `BridgeClientFrames_proofs`, `BridgeClientCalls_proofs` |

### AtMostOnceStore

`entries` are the `mutation_entry` objects in the order they were made, and a token
(`shared_ptr`) is an index; `tombstones` maps a key to its entry; `response_lru` is the
list. `begin` is split where other threads can interfere: `ReadClock` is the window test
with the clock reading, `TakeMutex` the lock, then the sweep (`RemoveExpired`, one
tombstone a step, with the mutex held) and one of `BeginKnown`, `BeginBusy`,
`BeginAccepted`. All other functions are one critical section, one action. Time is a
counter that moves one tick, or is set back, since the code uses `system_clock`. Answers
are model values, some too large to be kept.

### RequestDispatcher

A *submission* is one Request frame on one connection; a resend is another submission
with the same request. `stage[q]` says which thread has it and how far it has come:

    unsent -> accepted -> registered -> queued -> executing -> committed -> ending -> completed -> answered -> delivered
                                              \-> (cancelled, drained or refused) ---^
           -> attaching -> attached -> answered                        (a resend in flight)

An action is one critical section of one of the shared objects. The
dispatcher is built on the ledger the store implements, instead of the store itself,
which keeps it checkable; `FollowsLedger` shows that it calls the ledger in its order.
The handlers appear as what matters here: they return before the commit point, are
refused there, or edit and return. `Close` is any way a session's loop ends.

### ObjectEdits

`objects` is the timeline, from handles to records; `locked` are the locked layers.
`job` is the request on the gate worker; each action is one call on the main thread or
one call of the revision tracker. Between any two of them `User` may move, split, rename
or delete an object, lock a layer, switch the scene or open a project. `held` is what a
client was last told: it sends only revisions and locators that it was given, from
whichever answer it kept. `Fingerprint` is what a locator keeps; an object's name, the
hash of its alias and the signature of its effects are one label. Frames count from 1,
as in the protocol; the SDK counts from 0, so that one more frame exists than has a
number. `Locatable` is the place where the code notices, and where it notices a name
too long for a locator (`LongLabels`; a request may hold it).

Not in this module: the further objects of an alias (`NativeOperations` has them), and paging
and filters of the query.

### NativeOperations

`project` is what is open; an object fills one place, since lengths are the subject of
`ObjectEdits`. `pc` is the next step of the handler and `work` what it remembers from one
call to the next. Each step is one call on the main thread, one call of the revision
tracker, or the making of the answer. The handlers of edits share their course, and
`Execute` lists for each the steps it has: capture the generation, a dry run that must
succeed, the commit point, the edit, the record, the verification. What differs is the call
of the facade, `EditResults`, which returns whether it succeeded and whether it changed
anything; AviUtl2 may refuse anything that the code asks of it (`SdkRefuses`).

`edit_sdk_batch` plans the operations one after the other and, if all can be planned, carries
them out, up to the first that fails; both are functions on the number of operations done. The plan is `plan.objects`, with
objects marked as deleted; the execution has the real timeline. A creation may be of an
alias with several objects: `more` says where AviUtl2 may put the further ones, of which the
plan does not know.

`savePending` and `drop` are what the main thread has still to do: it may do it at once,
after the answer, or not at all. A drop lands at the cursor of the scene that is open *then*.

`done` is a history of what happened to the project during this request, with which the
answers are compared. It records as well what the handler cannot know: a project that was
opened meanwhile (`loaded`), an object that somebody else put down (`placed`), another scene
that the user opened (`away`). `Disturbed` is any of the three.

### BridgeClient

One instance, as the dictionaries of the registry never relate two. `call[r]` is a gateway
call with the step its task has reached; each step is the code between two awaits. A call
makes one connection at most, which bears its name. `conn[c]` holds what BridgeConnection
and its transport keep, `pending[c]`, `terminalError[c]` and `isDisposed[c]` what its
tracker does, `completion[r]` the task a call waits for. `up` and `down` are the two
directions of the pipe; `down` is a set, as answers come in any order. `serving` is the
Bridge's own count of what is in flight. A frame that is written in part breaks the pipe
(`Tear`). `calm` remembers whether anything else went wrong than a deadline or a cancel.

## 3. What is checked

Properties that only repeat a guard are left out; every property is accompanied by a
seeded fault, an operator beside the one it spoils (`Free_OffByOne` beside `Free`), with
which TLC finds the property violated.

| Run | Question |
|---|---|
| `store_race` | two threads that begin, run and complete two requests with two payloads while both expire: `InFlightReachable`, `AtMostOnceUnlessStale`, `ToldConsistent`, `ResultsAreFinal`, and that the store implements the ledger |
| `store_limits` | three requests for two tombstones and one cached response, one answer too large to be kept, a clock that is set back: `LruConsistent`, `TombstonesBounded` |
| `store_stale` | *violated*: `AtMostOnce` without the exception for stale readings |
| `dispatch_safety` | an edit and a read, each sent on two connections, one request in flight per connection, one place in the gate, a cancel and a stop at any time: however often it is sent, an edit is made once at most and everybody is told one answer (`EditedOnceAtMost`, `ResendsAgree`), what was cancelled is not edited (`CancelledNeverEdits`, `TooLateIsNotCancelled`), nothing leaks (`RegistryMatchesActive`, `InFlightHasOwner`, `StopLeavesNothing`), the ledger is followed |
| `dispatch_liveness` | every request that was read is answered, and stop returns |
| `dispatch_attach` | *violated*: a resend in flight is given the result of the original |
| `dispatch_cancelled` | *violated*: after "cancelled" the answer is operation_cancelled |
| `object_edits` | edits and creations against a user: objects never overlap (`TimelineWellFormed`), only the named object is changed and only if it is what the locator says (`EditsOnlyNamedObject`), locked layers are kept, one revision is good for one edit, what a client holds resolves as long as its revision is current, and answers are honest but for objects that no locator can describe (`AnswersAreHonest`) |
| `client` | two calls, one place in flight, one outside event (a broken pipe, a new descriptor, the end of the registry, a cancel), deadlines at any time: the registry keeps the connection of the descriptor it has (`ConnectionFitsDescriptor`) and no other one that is up (`NoLiveConnectionLost`); a waiting call can be found by whatever ends it (`WaitersAreTracked`); a timeout or a cancel of one call fails no other (`CallsDoNotDisturbEachOther`); the Bridge refuses a request as one too many only after one was given up (`BusyOnlyAfterGivingUp`); every call ends |
| `operations` | two requests of any two kinds, one event of the user, saves and drops that are late or lost: what a batch plans it can do, unless an alias has put an object in the way (`PlanPredictsTheBatch`), a change moves the revision before it is answered (`EveryChangeIsRecorded`), the answer says what was done (`AnswersTellWhatHappened`, `SavedIsSaved`), only a request answered "partial" can still put something down (`LateDropIsAnnounced`), and every request is answered |
| `object_edits_stale` | *violated*: only what was read is edited |
| `object_edits_edge` | *violated*: a failed edit is reported as partial |

**Bounds.** `store_race`: with two threads and two keys, every pair of critical sections
can interleave; the window of a request is one tick old to one tick early and the clock
makes three ticks, so that both keys expire in the run, one before the other.
`store_limits`: both tables are full with one more request than they hold; the list has
one element, so that each insertion evicts. The dispatcher
runs need two submissions of one edit to have a resend and a second request to fill the
gate; limits of one make the refusals happen. `object_edits`: one object of three frames
with a middle point, one of one frame, four frames and a fifth without a number, two
layers, two scenes, one label too long for a locator; two edits, one user edit and one project load, in any order. One
client is enough, since it may ignore any answer and go on with what it held before,
which is what a second client would do. `client`: two calls are enough for one to find the
connection of the other, to overtake it in the registry, or to find the tracker full, which
one place makes possible; the descriptor has two values and none. One outside event is a
bound on a product that grows fast; deadlines are not counted among the events.
`operations`: two objects on two of three layers, two frames, two scenes and a third to
create, batches of two or three operations chosen so that the second depends on the
first (a place that becomes free or taken, by the object that was asked for or a further one of
its alias, an object that is gone, a layer that is locked), and one or two of each other command. Two requests are needed for a drop or a save of the
first to come during the second. What the user puts down has a name too long for a locator,
which is the hardest case for the searches. Deadlock checking is off in `object_edits*`,
`client` and `operations`, because no request follows the last.

**Fairness.** `dispatch_liveness`: weak fairness of the session threads once they read a
frame, of the worker and of the stopping thread: threads that are not blocked run, and a
session leaves its loop once the server is stopping. A client owes nothing: it need not
send, cancel or close. A handler returns as long as nobody stops the server; from then on
nothing is assumed of it. The server is stopped by `UninitializePlugin`, on the main thread
of AviUtl2, and the handler's calls wait for that thread (section 4). Both properties
therefore name that one case as their exception.

`client`: deadlines pass, a task that can go on goes on, a write or a handshake ends when
its token is cancelled, and a disposal ends. Nothing is assumed of the Bridge, of the read
loop, or of the timers of the tracker: the token alone must bring each call to its end, as
`RequestContextFactory` has it cancelled at the deadline. `operations`: the
worker and the main thread go on; a pending save or drop is carried out or lost. Nobody has
to send or to edit.

**Assumption about request ids.** They are UUIDs, and two clients do not make the same
one; nor does a client use one for a read and an edit. The registry is keyed by the id
alone, and an edit that is refused by the registry after the store accepted it would
stay queued without an owner. Under the assumption `InFlightHasOwner` holds.

## 4. Where code and documents disagree

* `store_stale`. `begin` reads the clock before it waits for the mutex. A thread that was
  delayed there finds the tombstone of its request removed and executes the request again.
* `dispatch_attach`. The wait of a resend may be queued ahead of the edit it waits for;
  the only worker then waits until the timeout.
* `dispatch_cancelled`. A cancel between the last look at the registry and the removal
  from it is acknowledged as cancelled, and the normal result follows.
* `object_edits_stale`. The design has event listeners that move the revision when the
  user edits; none is registered. A request is carried out on a project that changed
  after it was read. What remains true is `EditsOnlyNamedObject`.
* `object_edits_edge`. A move to the very last frame passes the range test, which counts
  from 0; the snapshot of the moved object counts from 1 and overflows, and the request is
  answered as one that changed nothing.
* `UninitializePlugin` stops the Bridge on the main thread and joins the gate worker. A
  handler that is in a call of the facade waits for the main thread: both wait for ever.
  `StopReturns` holds with this one exception.
* A registry that is disposed while a connection is being made leaves that connection open
  (exception in `NoLiveConnectionLost`).
* A call that is woken by the disposal of its connection may find the tracker gone and fail
  with an exception that the services above do not know, so that the tool answers without a
  code (`nullReference`, `invalidOperation`, `keyNotFound` among the ends of a call).
* An edit that timed out in the client is answered as one to be tried again, without a word
  on its outcome; the next try has another request id. That the Bridge goes on with it is
  what `BusyOnlyAfterGivingUp` allows for.
* A name may be longer in a request than in a locator: the edit is carried out and its
  answer, which cannot name the object, says "unchanged" (`GivesLongName` in
  `AnswersAreHonest`, `answer.thrown` in `AnswersTellWhatHappened` and
  `EveryChangeIsRecorded`). For the same reason a handler that returns "unchanged" to the
  dispatcher may have changed the project (`HandlerEdits`): the dispatcher alone can promise no
  more than `EditedOnceAtMost`. While a drop is outstanding, any
  PSD object with such a name at its place has that effect. It needs somebody else at work
  to get there: the place was seen empty before. But it was seen empty also if another scene
  was open at that moment, as the timeline query then answers with an empty list (`Occupied`),
  or if a project was opened since (`Disturbed`); the run with one event of the user had not
  met these two, the proof did.
* A batch plans one object for each creation; an alias may create more. An operation planned
  for the place of one of them fails, after the operations before it were carried out
  (`MeetsAnAlias` in `PlanPredictsTheBatch`).
* `project.save` does not compare the revision again; a project that was opened meanwhile is
  saved, and its path may be reported (`done.loaded` in `SavedIsSaved`).
* The PSD workflow takes any object with the same file at the place for the one it asked
  for (`done.placed` in `LateDropIsAnnounced`).
* Without a run of their own: a project load between the revision check and the edit
  section is not noticed (a creation then edits the new project); a load between the read
  section and the reading of the generation labels old objects with the new generation.
  Both are behaviours of `ObjectEdits`.

## 5. What is proved

Every safety property that a passing run checks, invariants and action properties, is a
theorem for every value of the constants. Each proof has the same course: an inductive
invariant, of which TLC checked the parts on a run first; one lemma per step, or a few
*summaries* of what steps do to the variables an invariant reads, with one lemma that every
step is one of them and one that such a step keeps the invariant. The bounds on events
(`MaxUserEvents`, `MaxLoads` and the like) are constants too, so that they bound nothing.

### The store

`AtMostOnceStore_proofs`, for every number of threads, keys, payloads, tombstones
and cached responses, from `StoreAssumption` alone:

| Theorem | Says |
|---|---|
| `TypeCorrect` | `Spec => []TypeOK` |
| `InFlightStaysReachable` | a request in flight keeps its tombstone |
| `LruStaysConsistent` | list and map agree |
| `TombstonesStayBounded` | the limit holds |
| `OnceUnlessStale` | no second execution unless a clock reading was stale |
| `FinalResults` | results never change, evicted responses never return |

The argument is the inductive invariant `IInv`. None of the properties is inductive
alone. That a sweep keeps what is in flight needs to know that each tombstone's entry is
the entry of that key (`MapAgrees`) and that what is cached is completed
(`CachedAreCompleted`). That a removed key does not come back needs to know that each
removed entry had expired at the time of the last sweep (`RemovedWereExpired`), that a
caller inside the mutex has the latest reading (`SweepIsLatest`) and that its request was
inside the window at that reading (`CallsInWindow`): then the request cannot be the
removed one. `HolderSweeps` ties the mutex to the calls. One lemma per part of `IInv`
(`TypeStep`, `CallStep`, `EntryStep`, `MapStep`, `LruStep`) has one step per action, on
lemmas about sequences (`RemoveListed`, `PushListed`, `PopListed`).

`AtMostOnceLedger_proofs` adds what those who ask again are told, and the refinement:

| Theorem | Says |
|---|---|
| `ToldTheSame` | all who ask about one request are told one response |
| `StoreImplementsLedger` | every step of the store is a step of `MutationLedger` or stutters |

`ToldInv` has a finished entry behind each response that was handed out (`ToldBacked`) and
says that what an entry still holds is what its execution ended with (`HeldIsTheAnswer`). The
phase of a key in the ledger is read off "the" entry of that key; while no clock reading was
stale there is at most one, and the refinement has that as its condition, as the run has.

### The dispatcher

`RequestDispatcher_proofs`, for any sessions, clients, requests, resends, cancels and limits:

| Theorem | Says |
|---|---|
| `TypeCorrect` | `Spec => []TypeOK` |
| `EditedOnce` | a request changes the project once at most, and not at all if it is answered as cancelled, stopped or busy |
| `ResendsToldTheSame` | all submissions of one edit are answered alike |
| `RegistryExact` | the registry has exactly the requests at work |
| `DispatcherFollowsLedger` | the ledger is called in its order |
| `CancelledIsFinal` | what was acknowledged as cancelled is never edited |
| `TooLateIsFinal` | what was acknowledged as too late is not answered as cancelled |
| `InFlightIsOwned` | a key in flight has a submission that will complete it |
| `NothingIsLeft` | after stop nothing is registered, in flight, queued or running |

`CoreInv` says who owns a request at each stage: one submission of a request is active
(`OneActive`), one owns its key (`OneOwner`), and the stages, the phases of the ledger, the
registry and the responses agree. It needs no assumption about ids, and the first five
theorems follow from it. The last four are about what the registry promises, and the
registry is keyed by the request id alone: they have the hypothesis `OwnRequestIds`, that
two clients do not use one id. The code earns it with `Guid.CreateVersion7`; and it is
needed, as TLC shows by giving two clients one id: `CancelledNeverEdits`,
`TooLateIsNotCancelled` and `InFlightHasOwner` then fail. `CancelSticks` and `TooLateSticks`
carry an acknowledgement from the moment it was given to the answer; `StopInv` says that
from the join of the gate on nothing comes back.

### Edits of one object

`ObjectEdits_proofs`, for every set of clients, handles, projects and commands, from
`EditsAssumption`, which says of commands what the parser has checked (`WellParsed`) and of
a project file what AviUtl2 keeps:

| Theorem | Says |
|---|---|
| `OneEdit` | one revision is good for one edit |
| `OnlyNamedObject` | an edit changes what its locator describes and nothing else |
| `LocksKept` | nothing on a locked layer changes, and nothing is put there |
| `TypeCorrect` | `Spec => []TypeOK` |
| `TimelineStaysWellFormed` | no overlap, and section points sorted inside their object |
| `EditsAreAnsweredHonestly` | a change is answered with a later revision, and as "unchanged" only for an end that has no number or a name that no locator holds |
| `HeldStaysValid` | what a client holds resolves while its revision is current and nobody outside edited |

`IInv` carries two facts from the revision check to the edit section, across whatever
the user or a load does in between. `SpentBefore`: a revision that was used is older than
the present one, or equals it only until `commit_content_change` has run. `QuotedOnce`: a
request past the check quotes a revision that was not used since. It is `SpentBefore` that
lets the next check conclude so, and the stage "edited" is its only exception: if the edit
section were left without `commit_content_change`, the proof would end there.
`OnlyNamedObject` and `LocksKept` need of the invariant only which kind of command a request
has; they hold because the tests are repeated inside the edit section (`EditTargets`).

`StateInv` adds types: a request quotes what its client holds. That an edit leaves the
timeline well-formed is shown for each kind of command; section points are counted, as
a new one must leave room for the others. `HonestInv` knows that every object a client was
told about has an end with a number and a name that fits, and so which edits can leave one that has not. `HeldInv` is the longest argument. A
reading is of the past (`HeldBefore`, `ReadBefore`), what is about to be told is on the
timeline as long as nothing moved (`PrintsAreShown`), what the others hold is known
(`OthersAreKnown`), and a request that is current stays current until its own edit
(`StillCurrent`), for which `QuotedOnce` is used again.

This proof found the model wrong in one place: the user was able to move objects of a scene
that is not open, for which AviUtl2 has no command.

### The client

For every number of calls and descriptors, any limit of requests in flight and any
number of outside events, from `ClientAssumption`:

| Theorem | Module | Says |
|---|---|---|
| `FitsDescriptor` | `BridgeClient_proofs` | the connection in the registry was made for the descriptor in the registry |
| `WaitersTracked` | `BridgeClient_proofs` | a call that waits is in the tracker of its connection, which has not failed |
| `TypeCorrect` | `BridgeClientFrames_proofs` | types, and no tracker above the limit |
| `BusyExplained` | `BridgeClientFrames_proofs` | a request is refused as one too many only after one was given up |
| `NoConnectionLost` | `BridgeClientCalls_proofs` | a live connection has somebody who will dispose it |
| `CallsUndisturbed` | `BridgeClientCalls_proofs` | a deadline or a cancel of one call fails no other |

`IInv` has a part for each of the first two. For the first, the connection a call is about to
install was made for the descriptor that call remembers (`MadeForDescriptor`), so the
comparison in the last critical section of `GetConnectionAsync` says something about the
connection too. It must also be known that nobody makes a new connection under the name of
the one installed: its call already has it (`InstalledByItsCall`), and a call that is
connecting has none (`ConnFollowsStep`). For the second, a call that waits has a connection
(`WaitersHaveConn`) and keeps it (`ConnsStay`). Each step of the client is then one of
three kinds of critical section of a tracker (`TrackerStep`), each of which settles every
completion whose entry it removes.

`FramesInv` follows a request through the pipe: it is asked, at work or answered, in one of
these places only, and only on the connection of its call. What the Bridge has in flight is
then counted against what the tracker has: without a call that gave up, the first is a
subset of the second, and both limits are one number. `OwnershipInv` says who holds a live
connection: the registry, the call that made it, or the one that is disposing it; each step
hands it over (`OwnCallStep`). `CalmInv` is about runs in which nothing broke but deadlines and
cancels: every connection is healthy, and a Cancel frame is about a request that its own
call has given up.

### The other operations

`NativeOperations_proofs`, for any project, any batch, any two stages of two actors, from
`OperationsAssumption` (what the parameters of a request may be, and that the names
GCMZDrops and the handlers give are short):

| Theorem | Says |
|---|---|
| `TypeCorrect` | `Spec => []TypeOK`; no two objects are ever at one place |
| `PlanIsRight` | what a batch plans it can do, unless AviUtl2 refuses it or an alias is in the way |
| `ChangesAreRecorded` | a change has moved its revisions when it is answered |
| `AnswersAreTrue` | "unchanged" and the applied operations are true |
| `SavesAreTrue` | a reported save was made, and its path was saved |
| `LateDropsAreAnnounced` | a drop that comes after the answer was announced |

`RecordInv` says step by step which changes may be unrecorded: none in the `EarlyStages`,
those of the kind of request at "record", and content while a drop is waited for. That a
drop cannot change the project under a handler that does not wait for it is `DropInv`: the
drop of the running request is outstanding only in the `LateStages` of the PSD handlers.
Its other conjuncts lead to `LateDropsAreAnnounced`: the place was free when the handler
looked (`Occupied`), nothing but the drop lands there afterwards unless `Disturbed`, so that
whatever the poll finds *is* the drop, and past the poll none is outstanding; a poll that
gives up answers "partial". `SaveInv` counts save callbacks since the number that
`save_project` noted. `AnswerInv` knows of a batch that what was applied is what
`create_batch_data` will say.

`PlanIsRight` is a simulation. `Agrees` relates the plan, in which objects keep their
handles when they are deleted and new ones have the number of their operation, to the
timeline of an execution: what is there in the plan is at the same place in the execution, what is in the execution alone is
at one of the places `Beyond` the plan, where a further object of an alias may be, and the
locks are equal. `PlannedIsAllowed`: what the plan lets pass, the functions of the facade
let pass, unless it goes to such a place. `PlanFollows`: afterwards the two agree again. The step from one operation to a
batch of any length is an induction on its length. The library's induction theorems take a
predicate, which the provers cannot instantiate; `SetInduction` takes a *set* of numbers in
its place and follows from the well-foundedness of `<`, and `PlansExist` and `RunsExist` that the recursive functions of `PlanOf` and
`Executions` are what their equations say.

### Only model-checked

Liveness under fairness: `EveryRequestAnswered` and `StopReturns` of the dispatcher,
`EveryCallEnds` of the client, `EveryRequestIsAnswered` of the other operations. They need
ENABLED, which is out of the prover's reach. The five runs that expect a violation are
counterexamples and nothing to prove.

## 6. Plan

Written, in this order: the store and its proofs; the registry, the gate and the
dispatcher; object edits; the client; the remaining operations of the Bridge; the proofs of
all their safety properties. What is left:

1. To state once the lemmas that several proofs have (sequences without repetition,
   partial functions), and to shorten the longest proofs with them.
2. The pool of listeners of the pipe server, the one hazard without a property.

## 7. What is not modelled

* The read-only handlers copy what one read section tells them; the one thing that can go
  wrong around it, a load before the answer is labelled, is in `ObjectEdits`.
* The pool of listeners of the pipe server and its handshake. A session in the models is
  one that is established; that the last listener ends the server is a hazard without a
  property.
* The writer thread of a session: responses are delivered or dropped with their session.
* Start of the Bridge and its descriptor file, which is the environment of `BridgeClient`.
* The sections of an object inside a batch (they are modelled as single edits), the further
  objects of an alias in a single creation (they are modelled in batches), paging and the
  filters of queries.
* The ring logger: one mutex, each operation one critical section.
* Codecs, encoders, validation, diagnostic rules, the MCP tools and resources: functions of
  their arguments that keep no state.
* Two instances of AviUtl2 at once, and two gate workers: the code has one per Bridge.

Each component is listed with its reason under "components" in `PROJECT.json`.
