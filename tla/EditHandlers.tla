---------------------------- MODULE EditHandlers ----------------------------
(***************************************************************************)
(* The handlers that look at the project, make one edit and record it:     *)
(* batch.execute, layer.set, the two effect edits, psd.setCharacter and    *)
(* psd.setLayerState, psd.setup, scene.create, view.setCursor and          *)
(* view.openScene.  Their execute functions take the same steps, or some   *)
(* of them.  Each call of the SDK facade is an action of its own, for it   *)
(* runs on AviUtl2's main thread and the user may come between two.        *)
(***************************************************************************)
EXTENDS BatchPlan

ViewKinds == {"cursor", "open"}
EditKinds == {"batch", "layer", "effect", "item", "setup", "sceneCreate"} \cup ViewKinds

\* What the edit of a request changes, as far as revisions are concerned.
RevisionsOf(kind) ==
    CASE kind \in ViewKinds -> {"view"}
      [] kind = "sceneCreate" -> {"content", "view"}
      [] OTHER -> {"content"}

workerVars == <<path, generation, saves, savePending, drop, request, sent, userEvents>>

\* The facade may refuse a call whatever the project is: the dispatch to the main thread
\* failed, AviUtl2 is playing or saving, or a section was not granted.
SdkRefuses == ReplyUnchanged

----------------------------------------------------------------------------
(* The order of the steps in execute, after the revision was compared: the generation is   *)
(* captured, the edit tried dry, the commit point reached, the edit made, recorded in      *)
(* revision_tracker and answered, and the item of a PSD object read again.                 *)

batch_execute == <<"capture", "preflight", "commitPoint", "edit", "record">>
effect_execute == <<"capture", "preflight", "commitPoint", "edit", "record">>
psd_item_execute == <<"capture", "preflight", "commitPoint", "edit", "record", "verify">>
psd_setup_execute == <<"preflight", "commitPoint", "edit", "record">>
layer_execute == <<"preflight", "commitPoint", "edit", "record">>
scene_create_execute == <<"preflight", "commitPoint", "edit", "record">>
view_execute == <<"preflight", "commitPoint", "edit", "record">>
open_scene_execute == <<"commitPoint", "edit", "record">>

Execute ==
    [batch |-> batch_execute, effect |-> effect_execute, item |-> psd_item_execute,
     setup |-> psd_setup_execute, layer |-> layer_execute, sceneCreate |-> scene_create_execute,
     cursor |-> view_execute, open |-> open_scene_execute]

NextStep ==
    LET steps == Execute[request.kind] IN steps[1 + CHOOSE i \in DOMAIN steps : steps[i] = pc]

----------------------------------------------------------------------------
(* What a request asks for, and what AviUtl2 makes of it *)

Result(p, ok, changed) ==
    [project |-> p, ok |-> ok, changed |-> changed, failed |-> 0, applied |-> {}, refused |-> 0]
NoOp == Result(project, TRUE, FALSE)
Refusal == Result(project, FALSE, FALSE)
\* An edit that was made; its check afterwards may fail all the same.
Made(p) == IF p = project THEN {NoOp} ELSE {Result(p, ok, TRUE) : ok \in BOOLEAN}

Setups == {h \in DOMAIN project.objects :
              project.objects[h].scene = project.scene /\ project.objects[h].label = "setup"}
\* Seeded fault: a layer counts as free although an object is on it.
SetupPlaces_Taken == {place \in Places : place.scene = project.scene /\ ~Locked(project, place)}

\* choose_setup_layer and create_objects, at the place the request prefers or elsewhere.
SetupPlaces == {place \in Places : place.scene = project.scene /\ Free(project, place)
                                   /\ ~Locked(project, place)}

\* The functions of the facade check AviUtl2's state and get a section of it for a callback
\* edit_sdk_..., or are refused.
edit_batch(c) == edit_sdk_batch(c.ops) \cup {Refusal}

edit_sdk_layer(c) ==
    Made([project EXCEPT !.locked = IF c.lock THEN @ \cup {<<project.scene, c.layer>>}
                                             ELSE @ \ {<<project.scene, c.layer>>}])
edit_layer(c) == edit_sdk_layer(c) \cup {Refusal}

\* edit_sdk_effect finds the object again by its locator, and looks at the lock of its layer.
EffectTarget(c) ==
    {h \in Resolves(project, [object |-> c.object, generation |-> c.locators], work.generation) :
        ~Locked(project, PlaceOf(project.objects[h]))}
edit_sdk_effect(c) ==
    UNION {Made([project EXCEPT !.objects[h].label = c.label]) : h \in EffectTarget(c)}
edit_effect(c) == edit_sdk_effect(c) \cup {Refusal}

edit_sdk_view(c) == Made([project EXCEPT !.cursor[project.scene] = c.frame])
edit_view(c) == edit_sdk_view(c) \cup {Refusal}

\* An AviUtl2 with scene management selects the scene when it is asked to.
select_scene(c) == {Result([project EXCEPT !.scene = c.scene], TRUE, TRUE)}

\* In an older one a row of its scene list is clicked, which is found from the layout file and
\* from the scenes in the project file: any scene may be open then.  A click that could not
\* be sent changes nothing.
activate_scene_row == project.scenes
\* The scene is read again, and the former one clicked if it is another; "changed" is told
\* once a click was sent, even if the former scene is open again.
open_scene_from_list(c) ==
    UNION {IF s = c.scene THEN {Result([project EXCEPT !.scene = s], TRUE, TRUE)}
           ELSE {Result([project EXCEPT !.scene = r], FALSE, TRUE) :
                    r \in activate_scene_row} : s \in activate_scene_row}

open_scene(c) ==
    IF c.scene = project.scene THEN {NoOp}
    ELSE IF c.scene \notin project.scenes THEN {Refusal}
    ELSE select_scene(c) \cup open_scene_from_list(c) \cup {Refusal}

\* AviUtl2 selects a scene that it creates.
create_scene(c) ==
    IF c.scene \in project.scenes THEN {Refusal}
    ELSE Made([project EXCEPT !.scenes = @ \cup {c.scene}, !.scene = c.scene]) \cup {Refusal}

create_setup ==
    {Refusal} \cup UNION {Made(Put(project, h, At(place, "setup"))) :
                              place \in SetupPlaces, h \in Fresh(project)}

EditResults(c) ==
    CASE c.kind = "batch" -> edit_batch(c)
      [] c.kind = "layer" -> edit_layer(c)
      [] c.kind \in {"effect", "item"} -> edit_effect(c)
      [] c.kind = "setup" -> create_setup
      [] c.kind = "sceneCreate" -> create_scene(c)
      [] c.kind = "cursor" -> edit_view(c)
      [] c.kind = "open" -> open_scene(c)

\* The same functions with dry_run accept what they could do; view.openScene has no dry run.
PreflightAllows(c) == IF c.kind = "batch" THEN PlanOf(c.ops).failed = 0
                      ELSE EditResults(c) # {Refusal}

\* Objects that the answer of a batch describes by locators.
Described(c) ==
    IF c.kind # "batch" THEN {}
    ELSE {c.ops[i].label : i \in {j \in done.applied : c.ops[j].op \in {"create", "name"}}}

----------------------------------------------------------------------------
(* The steps of execute *)

IsEdit == request.kind \in EditKinds

CaptureGeneration ==
    /\ pc = "capture" /\ Goto(NextStep) /\ work' = [work EXCEPT !.generation = generation]
    /\ UNCHANGED workerVars /\ UNCHANGED <<project, content, view, answer, done>>

\* psd.setup answers at once when it finds setup objects, or was told not to create one.
SetupDone == request.kind = "setup" /\ (Setups # {} \/ ~request.create)

\* view.setCursor does not look at dry_run; view.openScene has no preflight.
IsDryRun == request.kind \notin ViewKinds /\ request.dryRun

Preflight ==
    /\ pc = "preflight"
    /\ \/ SdkRefuses
       \/ SetupDone /\ Reply("success")
       \/ ~SetupDone /\ ~PreflightAllows(request) /\ ReplyUnchanged
       \/ ~SetupDone /\ PreflightAllows(request) /\ IsDryRun /\ Reply("planned")
       \/ /\ ~SetupDone /\ PreflightAllows(request) /\ ~IsDryRun
          /\ Goto(NextStep) /\ UNCHANGED answer
    /\ UNCHANGED workerVars /\ UNCHANGED <<project, content, view, work, done>>

\* reach_commit_point, false if the request was cancelled before.
CommitPoint(next) ==
    /\ pc = "commitPoint"
    /\ \/ ReplyUnchanged
       \/ Goto(next) /\ UNCHANGED answer
    /\ UNCHANGED workerVars /\ UNCHANGED <<project, content, view, work, done>>

\* The edit may be refused as a whole, and is when its object or place is not there now.
Edit ==
    /\ pc = "edit" /\ Goto(NextStep)
    /\ \E r \in EditResults(request) :
          /\ project' = r.project
          /\ work' = [work EXCEPT !.ok = r.ok, !.changed = r.changed, !.failed = r.failed]
          /\ done' = [done EXCEPT
                         !.changed = r.project # project /\ "content" \in RevisionsOf(request.kind),
                         !.unrecorded = IF r.project = project THEN {}
                                        ELSE RevisionsOf(request.kind),
                         !.applied = r.applied, !.refused = r.refused]
    /\ UNCHANGED workerVars /\ UNCHANGED <<content, view, answer>>

\* Seeded fault: the operation that failed counts as applied.
SaidApplied_OneTooMany(c, failed) == IF failed = 0 THEN DOMAIN c.ops ELSE 1..failed

\* create_batch_data: what is said of each operation.
SaidApplied(c, failed) == IF failed = 0 THEN DOMAIN c.ops ELSE 1..(failed - 1)

ReplyBatch(outcome) ==
    IF Described(request) \cap LongLabels # {} THEN ReplyThrown
    ELSE /\ pc' = "idle"
         /\ answer' = [NoAnswer EXCEPT !.outcome = outcome,
                                       !.applied = SaidApplied(request, work.failed)]

ReplyEdited ==
    \/ ~work.ok /\ ~work.changed /\ ReplyUnchanged
    \/ ~work.ok /\ work.changed /\ (IF request.kind = "batch" THEN ReplyBatch("partial")
                                    ELSE Reply("partial"))
    \/ work.ok /\ request.kind = "batch" /\ ReplyBatch("success")
    \/ work.ok /\ request.kind = "item" /\ Goto(NextStep) /\ UNCHANGED answer
    \/ work.ok /\ request.kind \notin {"batch", "item"} /\ Reply("success")

\* Seeded fault: only edits that passed their check are recorded.
Record_OnlyIfOk ==
    /\ pc = "record"
    /\ IF work.ok /\ work.changed THEN Commit(RevisionsOf(request.kind))
       ELSE UNCHANGED <<content, view, done>>
    /\ ReplyEdited
    /\ UNCHANGED workerVars /\ UNCHANGED <<project, work>>

Record ==
    /\ pc = "record"
    /\ IF work.changed THEN Commit(RevisionsOf(request.kind)) ELSE UNCHANGED <<content, view, done>>
    /\ ReplyEdited
    /\ UNCHANGED workerVars /\ UNCHANGED <<project, work>>

\* find_updated_object, query_object and the comparison with what was asked.
VerifyItem ==
    /\ pc = "verify"
    /\ LET found == Found(project, PlaceOf(request.object), {request.label}) IN
          \/ found # {} /\ Reply("success")
          \/ Reply(IF work.changed THEN "partial" ELSE "unchanged")
    /\ UNCHANGED workerVars /\ UNCHANGED <<project, content, view, work, done>>

EditSteps ==
    /\ IsEdit
    /\ \/ CaptureGeneration \/ Preflight \/ CommitPoint(NextStep) \/ Edit \/ Record \/ VerifyItem
=============================================================================
