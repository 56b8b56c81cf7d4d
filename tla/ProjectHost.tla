---------------------------- MODULE ProjectHost ----------------------------
(***************************************************************************)
(* What the remaining handlers of the Bridge work on: the project that is  *)
(* open in AviUtl2, with its scenes, cursors, layer locks and objects; the *)
(* save commands and GCMZDrops drops that its main thread still has to do; *)
(* the user of AviUtl2; revision_tracker and the project cache of          *)
(* sdk_read_facade; and the one request the gate worker is running, with   *)
(* its answer.                                                             *)
(*                                                                         *)
(* An object fills one place, a layer and a frame of a scene: lengths and  *)
(* sections are the subject of ObjectEdits.  A label stands for all that   *)
(* tells objects apart: effects, items, alias and name.                    *)
(***************************************************************************)
EXTENDS Integers, Sequences, FiniteSets, FiniteSetsExt, Functions, SequencesExt

CONSTANTS
    Handles,        \* OBJECT_HANDLE values
    Scenes, Layers, Frames, Labels,
    LongLabels,     \* labels whose name no locator can hold (over 4096 bytes)
    UserLabels,     \* what the user may put on the timeline
    Paths,          \* of project files
    Opened,         \* what a project file holds: [objects, locked, scenes, scene, cursor]
    Commands,       \* the requests that may be sent
    MaxRequests,    \* bound: how many requests are sent
    MaxUserEvents   \* bound: how often the user does something

Places == [scene : Scenes, layer : Layers, frame : Frames]
Object == [scene : Scenes, layer : Layers, frame : Frames, label : Labels]
PlaceOf(o) == [scene |-> o.scene, layer |-> o.layer, frame |-> o.frame]
At(place, label) ==
    [scene |-> place.scene, layer |-> place.layer, frame |-> place.frame, label |-> label]

\* A record of five fields; no two objects fill one place.
IsProject(p) ==
    /\ p = [field \in {"objects", "locked", "scenes", "scene", "cursor"} |-> p[field]]
    /\ DOMAIN p.objects \subseteq Handles
    /\ \A h \in DOMAIN p.objects : p.objects[h] \in Object
    /\ \A g, h \in DOMAIN p.objects : g # h => PlaceOf(p.objects[g]) # PlaceOf(p.objects[h])
    /\ p.locked \subseteq Scenes \X Layers
    /\ p.scene \in p.scenes /\ p.scenes \subseteq Scenes
    /\ p.cursor \in [Scenes -> Frames]

VARIABLES
    project,        \* what is open: [objects, locked, scenes, scene, cursor]
    path,           \* project_path_
    generation,     \* project_generation_: counts loads
    content, view,  \* content_counter_, view_counter_
    saves,          \* project_save_sequence_
    savePending,    \* the main thread has a save command it has not finished
    drop,           \* the drop GCMZDrops has accepted and not carried out, or NoDrop
    request,        \* what the gate worker runs, or ran last; or NoRequest
    pc,             \* its next step; "idle" between requests
    work,           \* the locals of execute that a later step reads
    answer,         \* the operation_result of the last request
    done,           \* ghost: what this request really did
    sent, userEvents

hostVars == <<project, path, generation, content, view, saves, savePending, drop, request, pc,
              work, answer, done, sent, userEvents>>

NoRequest == [kind |-> "none"]
NoDrop == [kind |-> "none"]
\* generation: captured by the handler; sequence: of saves; seen: the object that a query
\* found; ok, changed: what an edit of the facade returned; failed: the operation of a batch
\* that failed, counted from 1, or 0.
NoWork == [generation |-> 0, sequence |-> 0, path |-> "none", seen |-> <<>>, ok |-> FALSE,
           changed |-> FALSE, failed |-> 0]
NoAnswer == [outcome |-> "none", applied |-> {}, path |-> "none", thrown |-> FALSE]
\* changed: the content was changed for this request; unrecorded: which revisions do not
\* show it yet; applied: operations of a batch that were carried out; refused: the
\* operation that AviUtl2 refused; saved: paths that were saved meanwhile; command: the
\* save command was sent; loaded: a project was opened meanwhile; placed: the user,
\* or a drop of an earlier request, put something on the timeline meanwhile; away: the user
\* opened another scene meanwhile.
NothingDone == [changed |-> FALSE, unrecorded |-> {}, applied |-> {}, refused |-> 0, saved |-> {},
                command |-> FALSE, loaded |-> FALSE, placed |-> FALSE, away |-> FALSE]

Outcomes == {"success", "planned", "unchanged", "partial", "unknown"}

----------------------------------------------------------------------------
(* revision_tracker *)

ContentRevision == <<generation, content>>
ViewRevision == <<generation, view>>

\* f @@ g of module TLC, of which the provers know no definition.
Joined(f, g) == [x \in DOMAIN f \cup DOMAIN g |-> IF x \in DOMAIN f THEN f[x] ELSE g[x]]

Free(p, place) == \A h \in DOMAIN p.objects : PlaceOf(p.objects[h]) # place
Locked(p, place) == <<place.scene, place.layer>> \in p.locked
Spare(p) == Handles \ DOMAIN p.objects
Put(p, h, o) == [p EXCEPT !.objects = [g \in DOMAIN @ \cup {h} |-> IF g = h THEN o ELSE @[g]]]
Take(p, h) == [p EXCEPT !.objects = Restrict(@, DOMAIN @ \ {h})]
\* AviUtl2 chooses; nothing, if there is nothing to choose from.
OneOf(S) == IF S = {} THEN {} ELSE {CHOOSE x \in S : TRUE}
\* The handle of the next object; none, if all are taken (Handles is a bound).
Fresh(p) == OneOf(Spare(p))

query_project == [scene |-> project.scene, frame |-> project.cursor[project.scene]]

\* query_timeline of one place: the objects there, if its scene is the active one.
Found(p, place, labels) ==
    IF place.scene # p.scene THEN {}
    ELSE {h \in DOMAIN p.objects : PlaceOf(p.objects[h]) = place /\ p.objects[h].label \in labels}

\* A locator is what a client was told of an object; the generation in it is compared with
\* the one the handler captured, the rest with the object of that place now.
Resolves(p, l, captured) ==
    {h \in Found(p, PlaceOf(l.object), {l.object.label}) : l.generation = captured}

----------------------------------------------------------------------------
(* The gate worker: one request at a time *)

Goto(step) == pc' = step

\* create_native_success, create_native_failure and the partial results: the request is over.
Reply(outcome) == pc' = "idle" /\ answer' = [NoAnswer EXCEPT !.outcome = outcome]
ReplyUnchanged == Reply("unchanged")
\* create_object_locator throws for a name that is too long, whatever was done before; the
\* handler answers invalid_argument with the outcome "unchanged".
ReplyThrown == pc' = "idle" /\ answer' = [NoAnswer EXCEPT !.outcome = "unchanged", !.thrown = TRUE]

\* commit_content_change, commit_view_change, commit_scene_change.
Commit(kinds) ==
    /\ content' = IF "content" \in kinds THEN content + 1 ELSE content
    /\ view' = IF "view" \in kinds THEN view + 1 ELSE view
    /\ done' = [done EXCEPT !.unrecorded = @ \ kinds]

\* The project as a call of this request leaves it.
Changes(p, kinds) ==
    /\ project' = p
    /\ done' = [done EXCEPT !.changed = @ \/ "content" \in kinds,
                            !.unrecorded = @ \cup kinds]

\* A command arrives with the revisions and locators its client was told last.
Arrive(command) ==
    /\ pc = "idle" /\ sent < MaxRequests
    /\ request' = Joined(command, [expected |-> ContentRevision, expectedView |-> ViewRevision,
                                   locators |-> generation])
    /\ Goto("begin") /\ sent' = sent + 1
    /\ work' = NoWork /\ done' = NothingDone /\ answer' = NoAnswer
    /\ UNCHANGED <<project, path, generation, content, view, saves, savePending, drop, userEvents>>

----------------------------------------------------------------------------
(* AviUtl2: the user, and what its main thread still has to do *)

userVars == <<content, view, savePending, drop, request, pc, work, answer, sent>>

UserDoes == userEvents < MaxUserEvents /\ userEvents' = userEvents + 1

Edits(p) ==
    /\ UserDoes /\ project' = p
    /\ UNCHANGED userVars /\ UNCHANGED <<path, generation, saves>>

UserPlaces(layer, frame, label) ==
    LET place == [scene |-> project.scene, layer |-> layer, frame |-> frame] IN
    /\ Free(project, place) /\ ~Locked(project, place)
    /\ \E h \in Fresh(project) : Edits(Put(project, h, At(place, label)))
    /\ done' = [done EXCEPT !.placed = TRUE]

UserDeletes(h) ==
    /\ h \in DOMAIN project.objects /\ ~Locked(project, PlaceOf(project.objects[h]))
    /\ Edits(Take(project, h)) /\ UNCHANGED done

UserMovesCursor(f) ==
    /\ f # project.cursor[project.scene]
    /\ Edits([project EXCEPT !.cursor[project.scene] = f]) /\ UNCHANGED done

UserOpensScene(s) ==
    /\ s \in project.scenes \ {project.scene}
    /\ Edits([project EXCEPT !.scene = s]) /\ done' = [done EXCEPT !.away = TRUE]

UserLocks(layer) ==
    /\ <<project.scene, layer>> \notin project.locked
    /\ Edits([project EXCEPT !.locked = @ \cup {<<project.scene, layer>>}]) /\ UNCHANGED done

\* capture_project from the save callback, for whoever asked for the save.
CaptureSaved == saves' = saves + 1 /\ done' = [done EXCEPT !.saved = @ \cup {path}]

UserSaves ==
    /\ UserDoes /\ CaptureSaved
    /\ UNCHANGED userVars /\ UNCHANGED <<project, path, generation>>

\* capture_project from the load callback, and begin_project_generation.
LoadProject(file) ==
    /\ UserDoes /\ path' = file /\ project' = Opened
    /\ generation' = generation + 1 /\ content' = 0 /\ view' = 0
    /\ done' = [done EXCEPT !.loaded = TRUE, !.unrecorded = {}]
    /\ UNCHANGED <<saves, savePending, drop, request, pc, work, answer, sent>>

\* The menu command runs on the main thread; it may fail, with a message to the user.
RunSave ==
    /\ savePending /\ savePending' = FALSE
    /\ \/ CaptureSaved
       \/ UNCHANGED <<saves, done>>
    /\ UNCHANGED <<project, path, generation, content, view, drop, request, pc, work, answer,
                   sent, userEvents>>

\* A temporary file lives as long as its request.
DropIsCurrent == pc # "idle" /\ drop.number = sent

\* GCMZDrops puts the files at the cursor of the scene that is active by then, one layer
\* below the other; or nothing, if a place is taken or its file is gone.
DropLands ==
    LET PlaceFor(i) == [scene |-> project.scene, layer |-> drop.layer + i - 1,
                        frame |-> project.cursor[project.scene]]
        parts == DOMAIN drop.labels
        handles == Injection(parts, Spare(project))
        taken == CHOOSE hs \in handles : TRUE
        dropped == [h \in Range(taken) |-> LET i == CHOOSE j \in parts : taken[j] = h
                                           IN At(PlaceFor(i), drop.labels[i])]
    IN
    /\ drop # NoDrop /\ (drop.isTemporary => DropIsCurrent) /\ handles # {}
    /\ \A i \in parts : PlaceFor(i) \in Places /\ Free(project, PlaceFor(i))
                        /\ ~Locked(project, PlaceFor(i))
    /\ project' = [project EXCEPT !.objects = Joined(@, dropped)]
    /\ done' = IF DropIsCurrent THEN [done EXCEPT !.changed = TRUE, !.unrecorded = @ \cup {"content"}]
               ELSE [done EXCEPT !.placed = TRUE]
    /\ drop' = NoDrop
    /\ UNCHANGED <<path, generation, content, view, saves, savePending, request, pc, work, answer,
                   sent, userEvents>>

DropIsLost ==
    /\ drop # NoDrop /\ drop' = NoDrop
    /\ UNCHANGED <<project, path, generation, content, view, saves, savePending, request, pc, work,
                   answer, done, sent, userEvents>>

User ==
    \/ \E l \in Layers, f \in Frames, x \in UserLabels : UserPlaces(l, f, x)
    \/ \E h \in Handles : UserDeletes(h)
    \/ \E f \in Frames : UserMovesCursor(f)
    \/ \E s \in Scenes : UserOpensScene(s)
    \/ \E l \in Layers : UserLocks(l)
    \/ UserSaves
    \/ \E file \in Paths : LoadProject(file)

MainThread == RunSave \/ DropLands \/ DropIsLost

HostInit ==
    /\ project = Opened /\ path \in Paths /\ generation = 0 /\ content = 0 /\ view = 0
    /\ saves = 0 /\ savePending = FALSE /\ drop = NoDrop
    /\ request = NoRequest /\ pc = "idle" /\ work = NoWork /\ answer = NoAnswer
    /\ done = NothingDone /\ sent = 0 /\ userEvents = 0
=============================================================================
