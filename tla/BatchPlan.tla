----------------------------- MODULE BatchPlan -----------------------------
(***************************************************************************)
(* batch.execute inside one section of the SDK: edit_sdk_batch first plans *)
(* every operation against a copy of the timeline that it keeps up to date *)
(* itself, then, unless the run is dry, carries them out one by one with   *)
(* the functions of the single edits.  Locators name objects as they were  *)
(* before the batch.  Nothing is rolled back.                              *)
(***************************************************************************)
EXTENDS ProjectHost

LocatorOf(op) == [object |-> op.object, generation |-> request.locators]
HasLocator(op) == op.op \in {"move", "delete", "name", "item"}
Destination(op) == [scene |-> project.scene, layer |-> op.layer, frame |-> op.frame]

\* resolve_batch_object: against the objects at the beginning.
Resolved(op) == Resolves(project, LocatorOf(op), work.generation)

----------------------------------------------------------------------------
(* plan_batch_*: planned objects are never removed but marked as deleted *)

InitialPlan ==
    [objects |-> [h \in {g \in DOMAIN project.objects : project.objects[g].scene = project.scene}
                     |-> [place |-> PlaceOf(project.objects[h]), isDeleted |-> FALSE]],
     locked |-> project.locked, failed |-> 0]

PlanLocks(plan, place) == <<place.scene, place.layer>> \in plan.locked
overlaps_batch_plan(plan, ignored, place) ==
    \E k \in DOMAIN plan.objects \ ignored :
        ~plan.objects[k].isDeleted /\ plan.objects[k].place = place

PlanAllows(plan, op, h) ==
    /\ HasLocator(op) => /\ ~plan.objects[h].isDeleted
                         /\ ~PlanLocks(plan, plan.objects[h].place)
    /\ op.op \in {"move", "create"} =>
          /\ ~PlanLocks(plan, Destination(op))
          /\ ~overlaps_batch_plan(plan, IF op.op = "move" THEN {h} ELSE {}, Destination(op))

\* Seeded fault: the plan leaves a moved object where it was.
Planned_NotMoved(plan, op, h, i) ==
    CASE op.op = "move" -> plan
      [] op.op = "delete" -> [plan EXCEPT !.objects[h].isDeleted = TRUE]
      [] op.op = "create" ->
            [plan EXCEPT !.objects = Joined(@, [k \in {i} |-> [place |-> Destination(op),
                                                               isDeleted |-> FALSE]])]
      [] op.op = "layer" ->
            [plan EXCEPT !.locked = IF op.lock THEN @ \cup {<<project.scene, op.layer>>}
                                               ELSE @ \ {<<project.scene, op.layer>>}]
      [] OTHER -> plan

\* A created object has no handle yet; its key is the index of the operation.  Of an alias, too,
\* only one object is planned.
Planned(plan, op, h, i) ==
    CASE op.op = "move" -> [plan EXCEPT !.objects[h].place = Destination(op)]
      [] op.op = "delete" -> [plan EXCEPT !.objects[h].isDeleted = TRUE]
      [] op.op = "create" ->
            [plan EXCEPT !.objects = Joined(@, [k \in {i} |-> [place |-> Destination(op),
                                                               isDeleted |-> FALSE]])]
      [] op.op = "layer" ->
            [plan EXCEPT !.locked = IF op.lock THEN @ \cup {<<project.scene, op.layer>>}
                                               ELSE @ \ {<<project.scene, op.layer>>}]
      [] OTHER -> plan     \* names and items do not matter for later operations

\* failed: the first operation that cannot be planned, or 0.
TheHandle(op) == IF HasLocator(op) THEN CHOOSE h \in Resolved(op) : TRUE ELSE "none"
PlanStep(plan, op, i) ==
    IF plan.failed # 0 THEN plan
    ELSE IF HasLocator(op) /\ Resolved(op) = {} THEN [plan EXCEPT !.failed = i]
    ELSE IF ~PlanAllows(plan, op, TheHandle(op)) THEN [plan EXCEPT !.failed = i]
    ELSE Planned(plan, op, TheHandle(op), i)

PlanOf(ops) ==
    LET plans[i \in 0..Len(ops)] ==
            IF i = 0 THEN InitialPlan ELSE PlanStep(plans[i - 1], ops[i], i)
    IN plans[Len(ops)]

----------------------------------------------------------------------------
(* execute_batch_operation: the checks of edit_sdk_object, edit_sdk_effect,  *)
(* create_sdk_objects and edit_sdk_layer, with handles resolved before       *)

Allows(p, op, h) ==
    /\ HasLocator(op) => h \in DOMAIN p.objects /\ ~Locked(p, PlaceOf(p.objects[h]))
    /\ op.op = "create" => Free(p, Destination(op))
    /\ op.op = "move" => \/ PlaceOf(p.objects[h]) = Destination(op)
                         \/ Free(p, Destination(op))
    /\ op.op \in {"move", "create"} => ~Locked(p, Destination(op))

\* The project with a new object at each of the places.
Filled(p, places, label) ==
    {[p EXCEPT !.objects =
         Joined(@, [h \in Range(handles) |-> At(CHOOSE place \in places : handles[place] = h, label)])] :
        handles \in OneOf(Injection(places, Spare(p)))}

\* An alias may hold further objects; AviUtl2 puts them where op.more says, if there is room, and
\* create_sdk_objects finds them by looking at the timeline again.
Further(p, op) ==
    {place \in {[scene |-> p.scene, layer |-> q[1], frame |-> q[2]] : q \in op.more} : Free(p, place)}

\* What the operation makes of the project, unless AviUtl2 refuses it.
Applied(p, op, h) ==
    CASE op.op = "move" -> {[p EXCEPT !.objects[h] = At(Destination(op), @.label)]}
      [] op.op = "delete" -> {Take(p, h)}
      [] op.op \in {"name", "item"} -> {[p EXCEPT !.objects[h].label = op.label]}
      [] op.op = "create" ->
            UNION {Filled(p, {Destination(op)} \cup others, op.label) : others \in SUBSET Further(p, op)}
      [] op.op = "layer" ->
            {[p EXCEPT !.locked = IF op.lock THEN @ \cup {<<p.scene, op.layer>>}
                                             ELSE @ \ {<<p.scene, op.layer>>}]}

\* What one operation may come to: AviUtl2 may refuse it, or change something and fail the
\* check that follows; nothing is carried out after a failure.
Continued(run, op, i) ==
    LET afters == Applied(run.project, op, TheHandle(op)) IN
    IF run.failed # 0 THEN {run}
    ELSE IF ~Allows(run.project, op, TheHandle(op)) THEN {[run EXCEPT !.failed = i]}
    ELSE {[run EXCEPT !.project = p, !.applied = @ \cup {i}, !.changed = @ \/ p # run.project] :
              p \in afters}
         \cup {[run EXCEPT !.project = p, !.failed = i, !.refused = i,
                           !.changed = @ \/ p # run.project] : p \in {run.project} \cup afters}

Executions(ops) ==
    LET start == [project |-> project, ok |-> FALSE, changed |-> FALSE, failed |-> 0,
                  applied |-> {}, refused |-> 0]
        runs[i \in 0..Len(ops)] ==
            IF i = 0 THEN {start} ELSE UNION {Continued(run, ops[i], i) : run \in runs[i - 1]}
    IN runs[Len(ops)]

\* edit_sdk_batch in the edit section: the plan is made again, for the timeline as it is now.
edit_sdk_batch(ops) ==
    LET plan == PlanOf(ops) IN
    IF plan.failed # 0
    THEN {[project |-> project, ok |-> FALSE, changed |-> FALSE, failed |-> plan.failed,
           applied |-> {}, refused |-> plan.failed]}
    ELSE {[run EXCEPT !.ok = run.failed = 0] : run \in Executions(ops)}
=============================================================================
