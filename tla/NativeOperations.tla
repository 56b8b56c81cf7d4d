-------------------------- MODULE NativeOperations --------------------------
(***************************************************************************)
(* The handlers of EditHandlers, ProjectSave and PsdWorkflow together, as  *)
(* the gate worker runs them one at a time, beside the user of AviUtl2.    *)
(***************************************************************************)
EXTENDS PsdWorkflow

Kinds == EditKinds \cup {"save", "psd", "voice"}

\* The operations of a batch, and what the parameters of a request may be.
Operations ==
    [op : {"move"}, object : Object, layer : Layers, frame : Frames]
    \cup [op : {"delete"}, object : Object]
    \cup [op : {"name", "item"}, object : Object, label : Labels]
    \cup [op : {"create"}, layer : Layers, frame : Frames, label : Labels,
          more : SUBSET (Layers \X Frames)]     \* where the other objects of an alias go
    \cup [op : {"layer"}, layer : Layers, lock : BOOLEAN]

Requests ==
    [kind : {"batch"}, ops : Seq(Operations), dryRun : BOOLEAN]
    \cup [kind : {"layer"}, layer : Layers, lock : BOOLEAN, dryRun : BOOLEAN]
    \cup [kind : {"effect", "item"}, object : Object, label : Labels, dryRun : BOOLEAN]
    \cup [kind : {"setup"}, create : BOOLEAN, dryRun : BOOLEAN]
    \cup [kind : {"sceneCreate"}, scene : Scenes, dryRun : BOOLEAN]
    \cup [kind : {"cursor"}, frame : Frames, conditional : BOOLEAN]
    \cup [kind : {"open"}, scene : Scenes, conditional : BOOLEAN]
    \cup [kind : {"save"}]
    \cup [kind : {"psd"}, scene : Scenes, layer : Layers, frame : Frames,
          name : PsdFiles \cup {"none"}, dryRun : BOOLEAN]
    \cup {c \in [kind : {"voice"}, scene : Scenes, layer : Layers, frame : Frames,
                 route : {"direct", "object"}, dryRun : BOOLEAN] :
             {c.layer + 1, c.layer + 2} \subseteq Layers}

\* GCMZDrops and the handlers give short names; a handle is not the number of an operation.
Given == {"psd", "audio", "setup", "subtitle"} \cup VoiceLabels
ASSUME OperationsAssumption ==
    /\ MaxRequests \in Nat /\ MaxUserEvents \in Nat
    /\ Layers \subseteq Int /\ Handles \cap Nat = {}
    /\ IsProject(Opened)
    /\ \A c \in Commands : c \in Requests
    /\ UserLabels \subseteq Labels /\ LongLabels \subseteq Labels
    /\ Given \cup PsdFiles \subseteq Labels /\ LongLabels \cap Given = {}

FirstStep(kind) ==
    CASE kind \in EditKinds -> Execute[kind][1]
      [] kind = "save" -> "commitPoint"
      [] kind \in {"psd", "voice"} -> "survey"

\* execute begins with the revision: view operations need not name one, edits must.
RevisionMatches ==
    IF request.kind \in ViewKinds
    THEN request.conditional => request.expectedView = ViewRevision
    ELSE request.expected = ContentRevision

Begin ==
    /\ pc = "begin"
    /\ IF RevisionMatches THEN Goto(FirstStep(request.kind)) /\ UNCHANGED answer
       ELSE ReplyUnchanged
    /\ UNCHANGED workerVars /\ UNCHANGED <<project, content, view, work, done>>

Worker == Begin \/ EditSteps \/ SaveSteps \/ PsdSteps

Next ==
    \/ \E c \in Commands : Arrive(c)
    \/ Worker
    \/ User
    \/ MainThread

Init == HostInit
Spec == Init /\ [][Next]_hostVars

\* The worker goes on, and so does the main thread; nobody has to send or to edit.
FairSpec == Spec /\ WF_hostVars(Worker) /\ WF_hostVars(MainThread)

----------------------------------------------------------------------------
(* Properties *)

\* Type correctness of the whole state.
TypeOK ==
    /\ IsProject(project)
    /\ path \in Paths /\ {generation, content, view, saves} \subseteq Nat
    /\ savePending \in BOOLEAN
    /\ drop = NoDrop \/ drop.layer \in Layers
    /\ answer.outcome \in Outcomes \cup {"none"}
    /\ answer.outcome = "none" <=> (pc # "idle" \/ request = NoRequest)
    /\ done.unrecorded \subseteq {"content", "view"}

\* Operation i goes where an earlier operation may have left a further object of its alias.
MeetsAnAlias(ops, i) ==
    /\ ops[i].op \in {"move", "create"}
    /\ \E j \in 1..(i - 1) : ops[j].op = "create" /\ <<ops[i].layer, ops[i].frame>> \in ops[j].more

\* What edit_sdk_batch plans it can do: once a plan of the edit section was accepted, an
\* operation only fails if AviUtl2 refuses it.  The plan and the execution look at different
\* copies of the timeline, through different functions.  They part in one way: of an alias with
\* several objects plan_batch_create plans the first only, and an operation that goes where
\* another one is fails at the overlap test of create_sdk_objects or edit_sdk_object.
PlanPredictsTheBatch ==
    request.kind = "batch" /\ pc = "record" /\ work.failed # 0
        => work.failed = done.refused \/ MeetsAnAlias(request.ops, work.failed)

\* A request that changed the project moves the revision its clients compare before it is
\* answered, however it ends; otherwise a client could edit on from a revision that no
\* longer describes the project.  (A project that was opened since has a new revision.  The
\* exception is a wait for GCMZDrops that meets an object of somebody else with a name that no
\* locator can hold, which only a user at work can put in its way.)
Disturbed == done.placed \/ done.loaded \/ done.away
EveryChangeIsRecorded == pc = "idle" => done.unrecorded = {} \/ (answer.thrown /\ Disturbed)

\* Answers tell what happened.  "unchanged" is said only when nothing was changed and no save
\* was asked for, so that the client may try again; the one exception are answers that cannot
\* name an object (ReplyThrown).  And of a batch exactly those operations are said to be
\* applied that were, whatever AviUtl2 refused and the user did between the calls
\* (create_batch_data).
UnchangedIsTrue ==
    answer.outcome = "unchanged" /\ ~answer.thrown => ~done.changed /\ ~done.command
StatusesAreTrue ==
    request.kind = "batch" /\ answer.outcome \in {"success", "partial"}
        => answer.applied = done.applied
AnswersTellWhatHappened == pc = "idle" => UnchangedIsTrue /\ StatusesAreTrue

\* project.save reports success only if a save callback came after the request began, and the
\* path it reports is one that was saved since, unless the user opened a project meanwhile.
SavedIsSaved ==
    pc = "idle" /\ request.kind = "save" /\ answer.outcome = "success"
        => done.saved # {} /\ (answer.path \in done.saved \/ done.loaded)

\* What GCMZDrops does after the answer was announced by it: only a drop whose request was
\* answered "partial" can still appear on the timeline.  (When the user, a late drop of an earlier
\* request or the project that was opened put the same file at the same place, or the place was
\* looked at while another scene was open, the handler cannot tell the two apart.)
LateDropIsAnnounced ==
    [][pc = "idle" /\ drop # NoDrop /\ drop.number = sent /\ drop' = NoDrop /\ project' # project
          => answer.outcome = "partial" \/ Disturbed]_hostVars

\* Every request that the worker takes is answered, also when a save is never confirmed and a
\* drop never lands.
EveryRequestIsAnswered == pc = "begin" ~> pc = "idle"
=============================================================================
