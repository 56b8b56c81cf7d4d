---------------------------- MODULE ObjectEdits ----------------------------
(***************************************************************************)
(* The edit pipeline of the Bridge for one object at a time: the handlers  *)
(* of object.move, delete, setName, the three section operations and       *)
(* object.create, and the object query, as the gate worker runs them one   *)
(* after the other; revision_tracker; and edit_object / create_objects of  *)
(* sdk_read_facade, which run on AviUtl2's main thread.                    *)
(*                                                                         *)
(* Every main thread call is one action, since the user, project loads and *)
(* the Bridge share that thread; but the user, or a load, can come between *)
(* any two calls of a handler.  Clients only send locators and revisions   *)
(* that the Bridge gave them.                                              *)
(***************************************************************************)
EXTENDS Integers, Sequences, FiniteSets, SequencesExt

CONSTANTS
    Clients,      \* whoever sends requests
    Handles,      \* OBJECT_HANDLE values
    Scenes, Layers, Labels,   \* Labels: name, alias hash and effect signature
    LongLabels,   \* labels whose name has over 4096 bytes: a request may hold it, a locator may not
    FrameMax,     \* the greatest int; frames count from 1 here and from 0 in the SDK
    Projects,     \* what a project file may hold: [objects, locked, scene]
    Commands,     \* the kinds and parameters of the requests that are sent
    MaxLoads,     \* bound: how often the user opens a project
    MaxUserEdits, \* bound: how often the user edits
    MaxEdits      \* bound: no request is sent after this many edits

Frames == 1..FrameMax
SdkFrames == 1..(FrameMax + 1)   \* the last one has no number that counts from 1

Object == [scene : Scenes, layer : Layers, start : Frames, end : SdkFrames, label : Labels,
           sections : Seq(SdkFrames)]   \* section_frames: the start of every section

\* What a locator keeps of an object, apart from the project generation.
Fingerprint(o) == [scene |-> o.scene, layer |-> o.layer, start |-> o.start, end |-> o.end,
             label |-> o.label]
Fingerprints == [scene : Scenes, layer : Layers, start : Frames, end : SdkFrames, label : Labels]

Overlap(o, p) == o.scene = p.scene /\ o.layer = p.layer /\ o.start <= p.end /\ p.start <= o.end
NoOverlap(os) == \A g, h \in DOMAIN os : g # h => ~Overlap(os[g], os[h])
SectionsOf(o) ==
    /\ Len(o.sections) >= 1 /\ o.sections[1] = o.start
    /\ \A i, j \in DOMAIN o.sections : i < j => o.sections[i] < o.sections[j]
    /\ o.sections[Len(o.sections)] <= o.end

CommandKinds == {"move", "delete", "name", "createSection", "deleteSection", "moveSection", "create"}

\* parse_edit_request and the parsing of a creation: what no request gets past.
WellParsed(c) ==
    /\ c.kind \in {"move", "create"} => c.layer \in Layers /\ c.frame \in Frames
    /\ c.kind = "create" => c.length \in 1..FrameMax /\ c.label \in Labels
    /\ c.kind = "name" => c.label \in Labels
    /\ c.kind \in {"createSection", "moveSection"} => c.frame \in Frames
    /\ c.kind \in {"deleteSection", "moveSection"} => c.index \in 1..FrameMax

ASSUME EditsAssumption ==
    /\ FrameMax \in Nat /\ MaxLoads \in Nat /\ MaxUserEdits \in Nat /\ MaxEdits \in Nat
    /\ LongLabels \subseteq Labels
    /\ \A p \in Projects :
          /\ DOMAIN p.objects \subseteq Handles
          /\ \A h \in DOMAIN p.objects : p.objects[h] \in Object /\ SectionsOf(p.objects[h])
          /\ NoOverlap(p.objects)
          /\ p.locked \subseteq Scenes \X Layers /\ p.scene \in Scenes
    /\ \A c \in Commands : c.kind \in CommandKinds /\ WellParsed(c)

VARIABLES
    objects,     \* the timeline: a partial function from handles to objects
    locked,      \* the locked <<scene, layer>> pairs
    scene,       \* the scene that is open in the editor
    generation, counter,   \* revision_tracker: project_generation_, content_counter_
    job,         \* what the gate worker executes
    held,        \* held[c]: the revision and the locators client c was last given
    userEdits,   \* history: how often the user edited
    spent        \* history: the revisions quoted by requests that changed the project

timeline == <<objects, locked, scene>>
tracker == <<generation, counter>>
vars == <<timeline, tracker, job, held, userEdits, spent>>

Revision == <<generation, counter>>   \* the server epoch never changes

\* The timeline as it is when nobody but the Bridge edits.
Moment == <<generation, userEdits>>

Active(h) == objects[h].scene = scene
Visible == {h \in DOMAIN objects : Active(h)}
Locked(layer) == <<scene, layer>> \in locked
Locators(prints, gen) == {[generation |-> gen, print |-> p] : p \in prints}

Idle == [pc |-> "idle"]

Init ==
    /\ \E p \in Projects : objects = p.objects /\ locked = p.locked /\ scene = p.scene
    /\ generation = 0 /\ counter = 0
    /\ job = Idle
    /\ held = [c \in Clients |-> [revision |-> <<0, 0>>, locators |-> {}, since |-> <<0, 0>>]]
    /\ userEdits = 0 /\ spent = {}

-----------------------------------------------------------------------------
(* What a command does to the object with handle h, and when it may. *)

With(h, o) == [g \in DOMAIN objects \cup {h} |-> IF g = h THEN o ELSE objects[g]]
Without(h) == [g \in DOMAIN objects \ {h} |-> objects[g]]

Shifted(o, layer, frame) ==
    LET d == frame - o.start
    IN  [o EXCEPT !.layer = layer, !.start = frame, !.end = @ + d,
                  !.sections = [i \in DOMAIN @ |-> @[i] + d]]

\* section_index counts from 0, and section 0 is the start of the object.
Middle(o, index) == index \in 1..(Len(o.sections) - 1)
NextSection(o, index) == IF index + 1 < Len(o.sections) THEN o.sections[index + 2] ELSE o.end + 1
SectionPlace(o, frame) == Cardinality({i \in DOMAIN o.sections : o.sections[i] < frame}) + 1

Split(o, frame) == [o EXCEPT !.sections = InsertAt(@, SectionPlace(o, frame), frame)]

New(c) == [scene |-> c.scene, layer |-> c.layer, start |-> c.frame, end |-> c.frame + c.length - 1,
           label |-> c.label, sections |-> <<c.frame>>]

Applied(c, h) ==
    LET o == objects[h]
    IN  CASE c.kind = "create" -> With(h, New(c))
          [] c.kind = "move" -> With(h, Shifted(o, c.layer, c.frame))
          [] c.kind = "delete" -> Without(h)
          [] c.kind = "name" -> With(h, [o EXCEPT !.label = c.label])
          [] c.kind = "createSection" -> With(h, Split(o, c.frame))
          [] c.kind = "deleteSection" -> With(h, [o EXCEPT !.sections = RemoveAt(@, c.index + 1)])
          [] c.kind = "moveSection" -> With(h, [o EXCEPT !.sections[c.index + 1] = c.frame])

\* Seeded fault: an object that ends where the moved one begins is not seen.
Free_OffByOne(h, o) == \A g \in Visible \ {h} : ~Overlap(objects[g], [o EXCEPT !.start = @ + 1])
\* scan_object_handles and the overlap test; the scan looks at the open scene.
Free(h, o) == \A g \in Visible \ {h} : ~Overlap(objects[g], o)

\* Seeded fault: the end of a moved object is not compared with the last frame.
InRange_Unchecked(o) == TRUE
InRange(o) == o.end - 1 <= FrameMax

NoEffect(c, h) ==
    LET o == objects[h]
    IN  \/ c.kind = "move" /\ c.layer = o.layer /\ c.frame = o.start
        \/ c.kind = "name" /\ c.label = o.label
        \/ c.kind = "createSection" /\ c.frame \in ToSet(o.sections)
        \/ c.kind = "moveSection" /\ Middle(o, c.index) /\ o.sections[c.index + 1] = c.frame

\* The tests of edit_sdk_object on the command's own parameters.
Permits(c, h) ==
    LET o == objects[h]
    IN  CASE c.kind = "move" ->
                /\ c.scene = scene /\ ~Locked(c.layer)
                /\ LET moved == Shifted(o, c.layer, c.frame)
                   IN  NoEffect(c, h) \/ (InRange(moved) /\ Free(h, moved))
          [] c.kind \in {"delete", "name"} -> TRUE
          [] c.kind = "createSection" -> o.start < c.frame /\ c.frame <= o.end
          [] c.kind = "deleteSection" -> Middle(o, c.index)
          [] c.kind = "moveSection" ->
                /\ Middle(o, c.index)
                /\ o.sections[c.index] < c.frame /\ c.frame < NextSection(o, c.index)

\* Seeded fault: only the position is looked at.
Resolves_ByPosition(loc, gen, h) ==
    /\ loc.generation = gen
    /\ h \in Visible /\ loc.print = [Fingerprint(objects[h]) EXCEPT !.label = loc.print.label]
\* find_object at the position of the locator, and resolve_object_locator on what is there.
Resolves(loc, gen, h) ==
    /\ loc.generation = gen
    /\ h \in Visible /\ Fingerprint(objects[h]) = loc.print

\* Seeded fault: the lock of the source layer is not looked at.
MayEdit_LockedSource(r, gen, h) == Resolves(r.locator, gen, h) /\ Permits(r.command, h)
MayEdit(r, gen, h) ==
    /\ Resolves(r.locator, gen, h)
    /\ ~Locked(objects[h].layer)
    /\ Permits(r.command, h)

\* The tests of create_sdk_objects.
MayCreate(c, h) ==
    /\ c.scene = scene /\ ~Locked(c.layer)
    /\ h \notin DOMAIN objects /\ New(c).end <= FrameMax
    /\ Free(h, New(c))

-----------------------------------------------------------------------------
(* The user, on the main thread. *)

UserEdits(os, locks) ==
    /\ userEdits < MaxUserEdits
    /\ userEdits' = userEdits + 1
    /\ <<os, locks>> # <<objects, locked>>
    /\ objects' = os /\ locked' = locks
    /\ UNCHANGED <<scene, tracker, job, held, spent>>

UserMoves(h, layer, frame) ==
    LET o == Shifted(objects[h], layer, frame)
    IN  InRange(o) /\ Free(h, o) /\ UserEdits(With(h, o), locked)
UserSplits(h, frame) ==
    LET o == objects[h]
    IN  /\ o.start < frame /\ frame <= o.end /\ frame \notin ToSet(o.sections)
        /\ UserEdits(With(h, Split(o, frame)), locked)
UserRenames(h, label) == UserEdits(With(h, [objects[h] EXCEPT !.label = label]), locked)
UserDeletes(h) == UserEdits(Without(h), locked)
UserLocks(layer) == UserEdits(objects, locked \cup {<<scene, layer>>})
UserSwitchesScene(s) ==
    /\ s # scene /\ userEdits < MaxUserEdits
    /\ scene' = s /\ userEdits' = userEdits + 1
    /\ UNCHANGED <<objects, locked, tracker, job, held, spent>>

\* capture_project and the callback of named_pipe_server that calls reset_project.
LoadProject(p) ==
    /\ generation < MaxLoads
    /\ objects' = p.objects /\ locked' = p.locked /\ scene' = p.scene
    /\ generation' = generation + 1 /\ counter' = 0
    /\ UNCHANGED <<job, held, userEdits, spent>>

-----------------------------------------------------------------------------
(* The gate worker. *)

At(pc) == job.pc = pc
Go(pc) == job' = [job EXCEPT !.pc = pc]

\* The answer is known, and what it tells about the objects; it quotes the revision later.
Done(outcome, prints) ==
    job' = [job EXCEPT !.pc = "done", !.outcome = outcome, !.prints = prints]

\* The next command of the gate: what a client sent with what it held.
Start(c, r) ==
    /\ At("idle")
    /\ Cardinality(spent) < MaxEdits
    /\ job' = [pc |-> "started", client |-> c, request |-> r, generation |-> generation,
               outcome |-> "unchanged", prints |-> {}, changed |-> FALSE, since |-> Moment]
    /\ UNCHANGED <<timeline, tracker, held, userEdits, spent>>

StartQuery(c) == Start(c, [kind |-> "query"])
StartEdit(c, cmd, loc, dry) ==
    /\ cmd.kind # "create" /\ loc \in held[c].locators
    /\ Start(c, [kind |-> "edit", command |-> cmd, locator |-> loc, dry |-> dry,
                 revision |-> held[c].revision, since |-> held[c].since])
StartCreate(c, cmd, dry) ==
    /\ cmd.kind = "create"
    /\ Start(c, [kind |-> "create", command |-> cmd, dry |-> dry,
                 revision |-> held[c].revision, since |-> held[c].since])

\* matches_content
\* Seeded fault: the counter is not compared.
RevisionMatches_GenerationOnly == job.request.revision[1] = generation
RevisionMatches == job.request.revision = Revision
CheckRevision ==
    /\ At("started") /\ job.request.kind # "query"
    /\ IF RevisionMatches THEN Go("matched") ELSE Done("unchanged", {})
    /\ UNCHANGED <<timeline, tracker, held, userEdits, spent>>

\* project_generation, for the preflight and the edit section
CaptureGeneration ==
    /\ At("matched")
    /\ job' = [job EXCEPT !.pc = "captured", !.generation = generation]
    /\ UNCHANGED <<timeline, tracker, held, userEdits, spent>>

\* query_timeline
ReadSection ==
    /\ At("started") /\ job.request.kind = "query"
    /\ job' = [job EXCEPT !.pc = "counted", !.outcome = "completed", !.since = Moment,
                          !.prints = {Fingerprint(objects[h]) : h \in Visible}]
    /\ UNCHANGED <<timeline, tracker, held, userEdits, spent>>

\* The dry run of edit_object or create_objects finds a reason not to edit: a test of its
\* own, no project, not in the edit state, or the read section is refused.
PreflightFails ==
    /\ At("captured")
    /\ Done("unchanged", {})
    /\ UNCHANGED <<timeline, tracker, held, userEdits, spent>>

Superfluous(h) == job.request.kind = "edit" /\ NoEffect(job.request.command, h)

\* What the edit may be applied to: the object, or the handle of the new one.
Target(h) ==
    LET r == job.request
    IN  IF r.kind = "create" THEN MayCreate(r.command, h) ELSE MayEdit(r, job.generation, h)

Preflight(h) ==
    /\ At("captured") /\ Target(h)
    /\ IF job.request.dry THEN Done("completed", {})
       ELSE IF Superfluous(h) THEN Done("completed", {Fingerprint(objects[h])})
       ELSE Go("planned")
    /\ UNCHANGED <<timeline, tracker, held, userEdits, spent>>

ReachCommitPoint ==
    /\ At("planned")
    /\ Go("committed") \/ Done("unchanged", {})   \* the latter if it was cancelled
    /\ UNCHANGED <<timeline, tracker, held, userEdits, spent>>

\* The edit section is refused, ends before the SDK was called, or the SDK call is rejected.
EditFails ==
    /\ At("committed")
    /\ Done("unchanged", {})
    /\ UNCHANGED <<timeline, tracker, held, userEdits, spent>>

\* The user had made the edit superfluous in the meantime.
EditHasNoEffect(h) ==
    /\ At("committed") /\ Target(h) /\ Superfluous(h)
    /\ job' = [job EXCEPT !.pc = "counted", !.outcome = "completed", !.prints = {Fingerprint(objects[h])}]
    /\ UNCHANGED <<timeline, tracker, held, userEdits, spent>>

\* The SDK call succeeded; the snapshot taken after it may fail its postcondition.
\* Seeded fault: has_changed is not looked at when the postcondition failed.
Outcome_Unchanged(verified) == IF verified THEN "completed" ELSE "unchanged"
Outcome(verified) == IF verified THEN "completed" ELSE "partial"

EditSection(h) ==
    LET c == job.request.command
    IN  /\ At("committed") /\ Target(h) /\ ~Superfluous(h)
        /\ objects' = Applied(c, h)
        /\ \E verified \in IF c.kind = "delete" THEN {TRUE} ELSE BOOLEAN :
              job' = [job EXCEPT !.pc = "edited", !.changed = TRUE, !.outcome = Outcome(verified),
                                 !.prints = IF verified /\ c.kind # "delete" THEN {Fingerprint(objects'[h])}
                                            ELSE {}]
        /\ spent' = spent \cup {job.request.revision}
        /\ UNCHANGED <<locked, scene, tracker, held, userEdits>>

\* Seeded fault: a partial edit does not get a revision of its own.
CommitContentChange_NotPartial ==
    /\ At("edited")
    /\ counter' = IF job.outcome = "partial" THEN counter ELSE counter + 1
    /\ Go("counted")
    /\ UNCHANGED <<timeline, generation, held, userEdits, spent>>
\* commit_content_change
CommitContentChange ==
    /\ At("edited")
    /\ counter' = counter + 1
    /\ Go("counted")
    /\ UNCHANGED <<timeline, generation, held, userEdits, spent>>

\* project_generation once more, for the locators of the answer; create_object_locator throws if
\* the end of an object, counted from 1, overflowed, or if its name is too long (validate_candidate),
\* and the handler reports a failure.
Locatable(prints) == \A p \in prints : p.end <= FrameMax /\ p.label \notin LongLabels
ReadGeneration ==
    /\ At("counted")
    /\ IF Locatable(job.prints) THEN job' = [job EXCEPT !.pc = "done", !.generation = generation]
       ELSE Done("unchanged", {})
    /\ UNCHANGED <<timeline, tracker, held, userEdits, spent>>

\* The answer quotes the revision there is now; the client may take what it is told.
Fresh == Locators(job.prints, job.generation)
Taken(old) ==
    IF job.request.kind = "query"
    THEN [revision |-> Revision, locators |-> Fresh, since |-> job.since]
    ELSE LET replaced == IF job.request.kind = "edit" THEN {job.request.locator} ELSE {}
         IN  [old EXCEPT !.revision = Revision, !.locators = (@ \ replaced) \cup Fresh]
Informs == job.outcome = "completed" /\ (job.request.kind # "query" => ~job.request.dry)
Respond ==
    /\ At("done")
    /\ job' = Idle
    /\ held' \in {held} \cup IF Informs THEN {[held EXCEPT ![job.client] = Taken(@)]} ELSE {}
    /\ UNCHANGED <<timeline, tracker, userEdits, spent>>

-----------------------------------------------------------------------------
User ==
    \/ \E h \in Visible :
          \/ \E layer \in Layers, frame \in Frames : UserMoves(h, layer, frame)
          \/ \E label \in Labels : UserRenames(h, label)
          \/ \E frame \in Frames : UserSplits(h, frame)
          \/ UserDeletes(h)
    \/ \E layer \in Layers : UserLocks(layer)
    \/ \E s \in Scenes : UserSwitchesScene(s)
    \/ \E p \in Projects : LoadProject(p)

Works ==
    \/ \E c \in Clients : StartQuery(c)
    \/ \E c \in Clients, cmd \in Commands, dry \in BOOLEAN :
          StartCreate(c, cmd, dry) \/ \E loc \in held[c].locators : StartEdit(c, cmd, loc, dry)
    \/ CheckRevision \/ CaptureGeneration \/ ReadSection \/ PreflightFails \/ ReachCommitPoint
    \/ EditFails \/ CommitContentChange \/ ReadGeneration \/ Respond
    \/ \E h \in Handles : Preflight(h) \/ EditHasNoEffect(h) \/ EditSection(h)

Next == User \/ Works

Spec == Init /\ [][Next]_vars

-----------------------------------------------------------------------------
(* Properties. *)

Revisions == (0..MaxLoads) \X Nat
JobStages == {"started", "matched", "captured", "planned", "committed", "edited", "counted", "done"}

\* Every variable keeps its shape.
TypeOK ==
    /\ DOMAIN objects \subseteq Handles
    /\ \A h \in DOMAIN objects : objects[h] \in Object
    /\ locked \subseteq Scenes \X Layers /\ scene \in Scenes
    /\ Revision \in Revisions
    /\ \/ job = Idle
       \/ /\ job.pc \in JobStages /\ job.client \in Clients /\ job.prints \subseteq Fingerprints
          /\ job.outcome \in {"unchanged", "completed", "partial"}
    /\ \A c \in Clients :
          /\ held[c].revision \in Revisions
          /\ \A loc \in held[c].locators : loc.generation \in 0..MaxLoads /\ loc.print \in Fingerprints
    /\ userEdits \in 0..MaxUserEdits /\ spent \subseteq Revisions

\* No two objects of a layer ever share a frame, and the sections of an object are in order and
\* inside it, whatever the user did between the preflight and the edit section.
TimelineWellFormed ==
    /\ NoOverlap(objects)
    /\ \A h \in DOMAIN objects : SectionsOf(objects[h])

Edits == At("committed") /\ job'.pc = "edited"   \* the step in which the Bridge edits

\* The Bridge changes at most the object that the request names, and only while that object is
\* exactly what the locator says; every other object stays as it is.
EditsOnlyNamedObject ==
    [][Edits => \A h \in DOMAIN objects :
          \/ h \in DOMAIN objects' /\ objects'[h] = objects[h]
          \/ job.request.kind = "edit" /\ Fingerprint(objects[h]) = job.request.locator.print]_vars

OnLockedLayers(os) == {<<h, os[h]>> : h \in {g \in DOMAIN os : <<os[g].scene, os[g].layer>> \in locked}}

\* The Bridge neither changes an object on a locked layer nor puts one there, even if the user
\* locked the layer after the preflight.
LockedLayersKept == [][Edits => OnLockedLayers(objects') = OnLockedLayers(objects)]_vars

\* Of all requests that quote one revision, from whichever clients, one at most changes the project.
OneEditPerRevision ==
    [][Edits => job.request.revision \notin spent]_vars

\* As long as the revision a client holds is current, and neither the user nor a load came between,
\* everything it was told about is still there: every edit of the Bridge made a new revision.
HeldLocatorsResolve ==
    \A c \in Clients :
        held[c].revision = Revision /\ held[c].since = Moment /\ ~At("edited") =>
            \A loc \in held[c].locators : \E h \in Visible : Resolves(loc, generation, h)

\* What a request asks for that no locator can describe.
EndsBeyondNumbers(r) ==
    /\ r.kind = "edit" /\ r.command.kind = "move"
    /\ r.command.frame + (r.locator.print.end - r.locator.print.start) > FrameMax
GivesLongName(r) == r.command.kind \in {"name", "create"} /\ r.command.label \in LongLabels

\* A request that changed the project is answered with another revision than the one it quoted,
\* and it is not answered "unchanged", save when it made an object that no locator can describe:
\* with an end that has no number, or a name that only a request may hold.  In particular what the
\* user or AviUtl2 does between two calls never makes it so.
AnswersAreHonest ==
    At("done") /\ job.changed =>
        /\ job.request.revision # Revision
        /\ job.outcome = "unchanged" => EndsBeyondNumbers(job.request) \/ GivesLongName(job.request)

(* What the documentation says and the code does not do. *)

\* requirements.md, revision_conflict, and design.md 8.1: the project changes only for a request
\* whose client has read it as it is.  Nobody tells revision_tracker of the user's edits, and a
\* load may come after matches_content.
EditsOnlyWhatWasRead ==
    [][Edits => job.request.since = Moment]_vars

\* design.md 9.2 and 9.3: a failure after the edit was begun is reported as partial_operation.  A
\* move that ends on the last frame of the SDK is reported as a request that changed nothing, and
\* so is an edit that gives a name of over 4096 bytes.
FailedEditIsPartial == At("done") /\ job.changed => job.outcome \in {"completed", "partial"}
=============================================================================
