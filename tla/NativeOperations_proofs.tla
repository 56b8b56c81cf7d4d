------------------------ MODULE NativeOperations_proofs ------------------------
(***************************************************************************)
(* Proofs about NativeOperations: for any project, any requests and any    *)
(* interleaving of the gate worker with the user and the main thread of    *)
(* AviUtl2, a change is recorded before it is answered, the answers tell   *)
(* what happened, a save that is reported was made, a drop that may still  *)
(* land was announced, and a batch that could be planned only fails where  *)
(* AviUtl2 refuses an operation or puts an object that was not planned.    *)
(***************************************************************************)
EXTENDS NativeOperations, WellFoundedInduction, TLAPS

-----------------------------------------------------------------------------
(* Projects: every edit of the facade, the user and GCMZDrops keeps them    *)
(* well-formed.                                                             *)

USE DEF IsProject

LEMMA ObjectsAtPlaces ==
    ASSUME NEW place \in Places, NEW label \in Labels
    PROVE  At(place, label) \in Object /\ PlaceOf(At(place, label)) = place
BY DEF Object, Places, PlaceOf, At

\* A new set of objects is as good as the old one, if no two of them fill one place.
LEMMA WithObjects ==
    ASSUME NEW p, IsProject(p), NEW objects, DOMAIN objects \subseteq Handles,
           \A h \in DOMAIN objects : objects[h] \in Object,
           \A g, h \in DOMAIN objects : g # h => PlaceOf(objects[g]) # PlaceOf(objects[h])
    PROVE  /\ IsProject([p EXCEPT !.objects = objects])
           /\ [p EXCEPT !.objects = objects].objects = objects
           /\ [p EXCEPT !.objects = objects].scene = p.scene
           /\ [p EXCEPT !.objects = objects].locked = p.locked
BY DEF IsProject

LEMMA PutKeeps ==
    ASSUME NEW p, IsProject(p), NEW h \in Spare(p), NEW o \in Object, Free(p, PlaceOf(o))
    PROVE  /\ IsProject(Put(p, h, o))
           /\ Put(p, h, o).scene = p.scene /\ Put(p, h, o).locked = p.locked
           /\ DOMAIN Put(p, h, o).objects = DOMAIN p.objects \cup {h}
           /\ Put(p, h, o).objects[h] = o
           /\ \A g \in DOMAIN p.objects : Put(p, h, o).objects[g] = p.objects[g]
<1> DEFINE objects == [g \in DOMAIN p.objects \cup {h} |-> IF g = h THEN o ELSE p.objects[g]]
<1>1. Put(p, h, o) = [p EXCEPT !.objects = objects]
  BY DEF Put
<1>2. /\ DOMAIN objects = DOMAIN p.objects \cup {h} /\ objects[h] = o
      /\ \A g \in DOMAIN p.objects : objects[g] = p.objects[g]
  BY DEF Spare
<1> HIDE DEF objects
<1>3. /\ DOMAIN objects \subseteq Handles
      /\ \A g \in DOMAIN objects : objects[g] \in Object
  BY <1>2 DEF Spare
<1>4. \A f, g \in DOMAIN objects : f # g => PlaceOf(objects[f]) # PlaceOf(objects[g])
  BY <1>2 DEF Free
<1>5. QED
  BY <1>1, <1>2, <1>3, <1>4, WithObjects

LEMMA TakeKeeps ==
    ASSUME NEW p, IsProject(p), NEW h
    PROVE  /\ IsProject(Take(p, h))
           /\ Take(p, h).scene = p.scene /\ Take(p, h).locked = p.locked
           /\ DOMAIN Take(p, h).objects = DOMAIN p.objects \ {h}
           /\ \A g \in DOMAIN p.objects \ {h} : Take(p, h).objects[g] = p.objects[g]
<1> DEFINE objects == Restrict(p.objects, DOMAIN p.objects \ {h})
<1>1. Take(p, h) = [p EXCEPT !.objects = objects]
  BY DEF Take
<1>2. /\ DOMAIN objects = DOMAIN p.objects \ {h}
      /\ \A g \in DOMAIN p.objects \ {h} : objects[g] = p.objects[g]
  BY DEF Restrict
<1> HIDE DEF objects
<1>3. /\ DOMAIN objects \subseteq Handles
      /\ \A g \in DOMAIN objects : objects[g] \in Object
      /\ \A f, g \in DOMAIN objects : f # g => PlaceOf(objects[f]) # PlaceOf(objects[g])
  BY <1>2
<1>4. QED
  BY <1>1, <1>2, <1>3, WithObjects

\* An object that becomes another one, where it is or at a free place.
LEMMA ReplaceKeeps ==
    ASSUME NEW p, IsProject(p), NEW h \in DOMAIN p.objects, NEW o \in Object,
           PlaceOf(p.objects[h]) = PlaceOf(o) \/ Free(p, PlaceOf(o))
    PROVE  LET q == [p EXCEPT !.objects[h] = o]
           IN  /\ IsProject(q) /\ q.scene = p.scene /\ q.locked = p.locked
               /\ DOMAIN q.objects = DOMAIN p.objects /\ q.objects[h] = o
               /\ \A g \in DOMAIN p.objects \ {h} : q.objects[g] = p.objects[g]
<1> DEFINE objects == [p.objects EXCEPT ![h] = o]
<1>1. [p EXCEPT !.objects[h] = o] = [p EXCEPT !.objects = objects]
  OBVIOUS
<1>2. /\ DOMAIN objects = DOMAIN p.objects /\ objects[h] = o
      /\ \A g \in DOMAIN p.objects \ {h} : objects[g] = p.objects[g]
  OBVIOUS
<1> HIDE DEF objects
<1>3. /\ DOMAIN objects \subseteq Handles
      /\ \A g \in DOMAIN objects : objects[g] \in Object
  BY <1>2
<1>4. \A f, g \in DOMAIN objects : f # g => PlaceOf(objects[f]) # PlaceOf(objects[g])
  BY <1>2 DEF Free
<1>5. QED
  BY <1>1, <1>2, <1>3, <1>4, WithObjects

Relabelled(p, h, label) == [p EXCEPT !.objects[h].label = label]
LEMMA RelabelKeeps ==
    ASSUME NEW p, IsProject(p), NEW h \in DOMAIN p.objects, NEW label \in Labels
    PROVE  LET q == Relabelled(p, h, label)
           IN  /\ IsProject(q) /\ q.scene = p.scene /\ q.locked = p.locked
               /\ DOMAIN q.objects = DOMAIN p.objects
               /\ PlaceOf(q.objects[h]) = PlaceOf(p.objects[h]) /\ q.objects[h].label = label
               /\ \A g \in DOMAIN p.objects \ {h} : q.objects[g] = p.objects[g]
<1> DEFINE o == [p.objects[h] EXCEPT !.label = label]
<1>1. p.objects[h] \in Object
  OBVIOUS
<1>2. o \in Object /\ PlaceOf(o) = PlaceOf(p.objects[h]) /\ o.label = label
  BY <1>1 DEF Object, PlaceOf
<1>3. Relabelled(p, h, label) = [p EXCEPT !.objects[h] = o]
  BY DEF Relabelled
<1> HIDE DEF o, IsProject
<1>4. QED
  BY <1>2, <1>3, ReplaceKeeps

Moved(p, h, place) == [p EXCEPT !.objects[h] = At(place, @.label)]
LEMMA MoveKeeps ==
    ASSUME NEW p, IsProject(p), NEW h \in DOMAIN p.objects, NEW place \in Places,
           PlaceOf(p.objects[h]) = place \/ Free(p, place)
    PROVE  LET q == Moved(p, h, place)
           IN  /\ IsProject(q) /\ q.scene = p.scene /\ q.locked = p.locked
               /\ DOMAIN q.objects = DOMAIN p.objects /\ PlaceOf(q.objects[h]) = place
               /\ \A g \in DOMAIN p.objects \ {h} : q.objects[g] = p.objects[g]
<1> DEFINE o == At(place, p.objects[h].label)
<1>1. p.objects[h].label \in Labels
  BY DEF Object
<1>2. o \in Object /\ PlaceOf(o) = place
  BY <1>1, ObjectsAtPlaces
<1>3. Moved(p, h, place) = [p EXCEPT !.objects[h] = o]
  BY DEF Moved
<1> HIDE DEF o, IsProject
<1>4. QED
  BY <1>2, <1>3, ReplaceKeeps

LEMMA LockKeeps ==
    ASSUME NEW p, IsProject(p), NEW locked \in SUBSET (Scenes \X Layers)
    PROVE  LET q == [p EXCEPT !.locked = locked]
           IN  IsProject(q) /\ q.scene = p.scene /\ q.locked = locked /\ q.objects = p.objects
BY DEF IsProject

LEMMA CursorKeeps ==
    ASSUME NEW p, IsProject(p), NEW frame \in Frames
    PROVE  LET q == [p EXCEPT !.cursor[p.scene] = frame]
           IN  IsProject(q) /\ q.scene = p.scene /\ q.locked = p.locked /\ q.objects = p.objects
<1>1. [p.cursor EXCEPT ![p.scene] = frame] \in [Scenes -> Frames]
  OBVIOUS
<1>2. QED
  BY <1>1

LEMMA SceneKeeps ==
    ASSUME NEW p, IsProject(p), NEW scene \in p.scenes
    PROVE  LET q == [p EXCEPT !.scene = scene]
           IN  IsProject(q) /\ q.scene = scene /\ q.objects = p.objects
BY DEF IsProject

LEMMA NewSceneKeeps ==
    ASSUME NEW p, IsProject(p), NEW scene \in Scenes
    PROVE  LET q == [p EXCEPT !.scenes = @ \cup {scene}, !.scene = scene]
           IN  IsProject(q) /\ q.scene = scene /\ q.objects = p.objects
BY DEF IsProject

LEMMA FreshIsSpare ==
    ASSUME NEW p, NEW h \in Fresh(p)
    PROVE  h \in Spare(p)
BY DEF Fresh, OneOf

LEMMA OneOfIsIn ==
    ASSUME NEW S, NEW x \in OneOf(S)
    PROVE  x \in S
BY DEF OneOf

\* One new object for each of the places, and what was there stays.
LEMMA FilledKeeps ==
    ASSUME NEW p, IsProject(p), NEW label \in Labels, NEW places \in SUBSET Places,
           \A place \in places : Free(p, place), NEW q \in Filled(p, places, label)
    PROVE  /\ IsProject(q) /\ q.scene = p.scene /\ q.locked = p.locked
           /\ \A g \in DOMAIN p.objects : g \in DOMAIN q.objects /\ q.objects[g] = p.objects[g]
           /\ \A g \in DOMAIN q.objects \ DOMAIN p.objects : PlaceOf(q.objects[g]) \in places
<1>1. PICK handles \in OneOf(Injection(places, Spare(p))) :
         q = [p EXCEPT !.objects =
                 Joined(@, [h \in Range(handles) |->
                                At(CHOOSE place \in places : handles[place] = h, label)])]
  BY DEF Filled
<1>2. /\ DOMAIN handles = places /\ \A place \in places : handles[place] \in Spare(p)
      /\ \A a, b \in places : handles[a] = handles[b] => a = b
  BY OneOfIsIn DEF Injection, IsInjective
<1> DEFINE new == [h \in Range(handles) |-> At(CHOOSE place \in places : handles[place] = h, label)]
           objects == Joined(p.objects, new)
<1>3. ASSUME NEW h \in DOMAIN new
      PROVE  \E place \in places : handles[place] = h /\ new[h] = At(place, label)
  <2>1. PICK other \in places : handles[other] = h
    BY <1>2 DEF Range
  <2> DEFINE place == CHOOSE place \in places : handles[place] = h
  <2>2. place \in places /\ handles[place] = h
    BY <2>1
  <2>3. new[h] = At(place, label)
    OBVIOUS
  <2> HIDE DEF place
  <2>4. QED
    BY <2>2, <2>3
<1>4. q = [p EXCEPT !.objects = objects]
  BY <1>1
<1> HIDE DEF new
<1>5. ASSUME NEW h \in DOMAIN new
      PROVE  /\ h \in Handles \ DOMAIN p.objects /\ new[h] \in Object
             /\ \E place \in places : handles[place] = h /\ PlaceOf(new[h]) = place
  <2>1. PICK place \in places : handles[place] = h /\ new[h] = At(place, label)
    BY <1>3
  <2>2. new[h] \in Object /\ PlaceOf(new[h]) = place
    BY <2>1, ObjectsAtPlaces
  <2>3. QED
    BY <1>2, <2>1, <2>2 DEF Spare
<1>6. /\ DOMAIN objects = DOMAIN p.objects \cup DOMAIN new
      /\ \A h \in DOMAIN p.objects : objects[h] = p.objects[h]
      /\ \A h \in DOMAIN new : objects[h] = new[h]
  BY <1>5 DEF Joined
<1> HIDE DEF objects
<1>7. /\ DOMAIN objects \subseteq Handles
      /\ \A h \in DOMAIN objects : objects[h] \in Object
  BY <1>5, <1>6
<1>8. ASSUME NEW g \in DOMAIN objects, NEW h \in DOMAIN objects, g # h
      PROVE  PlaceOf(objects[g]) # PlaceOf(objects[h])
  <2>1. CASE g \in DOMAIN p.objects /\ h \in DOMAIN p.objects
    BY <1>6, <1>8, <2>1
  <2>2. CASE g \in DOMAIN p.objects /\ h \in DOMAIN new
    BY <1>5, <1>6, <2>2 DEF Free
  <2>3. CASE g \in DOMAIN new /\ h \in DOMAIN p.objects
    BY <1>5, <1>6, <2>3 DEF Free
  <2>4. CASE g \in DOMAIN new /\ h \in DOMAIN new
    BY <1>2, <1>5, <1>6, <1>8, <2>4
  <2>5. QED
    BY <1>6, <2>1, <2>2, <2>3, <2>4
<1>9. /\ IsProject(q) /\ q.objects = objects /\ q.scene = p.scene /\ q.locked = p.locked
  BY <1>4, <1>7, <1>8, WithObjects
<1>10. QED
  BY <1>5, <1>6, <1>9

HIDE DEF IsProject

-----------------------------------------------------------------------------
(* The inductive invariant                                                   *)

SaveStages == {"commitPoint", "status", "sequence", "command", "wait"}
EditStages == {"capture", "preflight", "commitPoint", "edit", "record", "verify"}
PlacingStages == {"probe", "commitPoint", "position", "positioned", "send"}
LateStages == {"poll", "rename", "renamed", "character", "failed", "verifyCharacter", "subtitle",
               "pollSubtitle"}
VoiceStages == {"character", "failed", "verifyCharacter", "subtitle", "pollSubtitle"}
PsdStages == {"survey", "occupied"} \cup PlacingStages \cup LateStages
\* Nothing of the project was changed so far.
EarlyStages == {"begin", "survey", "occupied"} \cup SaveStages \cup PlacingStages
                   \cup (EditStages \ {"record", "verify"})

Works ==
    [generation : Nat, sequence : Nat, path : Paths \cup {"none"},
     seen : {<<>>} \cup {<<o>> : o \in Object}, ok : BOOLEAN, changed : BOOLEAN, failed : Nat]
Answers ==
    [outcome : Outcomes \cup {"none"}, applied : SUBSET Nat, path : Paths \cup {"none"},
     thrown : BOOLEAN]
Deeds ==
    [changed : BOOLEAN, unrecorded : SUBSET {"content", "view"}, applied : SUBSET Nat,
     refused : Nat, saved : SUBSET Paths, command : BOOLEAN, loaded : BOOLEAN, placed : BOOLEAN,
     away : BOOLEAN]
Drops ==
    [labels : {<<"psd">>, <<"audio", "voice">>}, layer : Layers, isTemporary : BOOLEAN,
     number : Nat]

\* The parameters of a request are what its kind needs.
IsRequest(r) ==
    /\ r.kind \in Kinds
    /\ r.kind = "batch" => r.ops \in Seq(Operations)
    /\ r.kind = "layer" => r.layer \in Layers
    /\ r.kind \in {"effect", "item"} => r.label \in Labels
    /\ r.kind \in {"sceneCreate", "open"} => r.scene \in Scenes
    /\ r.kind = "cursor" => r.frame \in Frames
    /\ r.kind \in {"psd", "voice"} =>
          r.scene \in Scenes /\ r.layer \in Layers /\ r.frame \in Frames
    /\ r.kind = "voice" => {r.layer + 1, r.layer + 2} \subseteq Layers
    /\ r.kind = "psd" => r.name \in PsdFiles \cup {"none"}

\* Which steps the requests of a kind take.
RightStage ==
    \/ pc \in {"idle", "begin"}
    \/ /\ IsEdit /\ pc \in EditStages
       /\ pc = "capture" => request.kind \in {"batch", "effect", "item"}
       /\ pc = "preflight" => request.kind # "open"
       /\ pc = "verify" => request.kind = "item"
    \/ IsSave /\ pc \in SaveStages
    \/ /\ IsPsd /\ pc \in PsdStages
       /\ pc \in {"rename", "renamed"} => ~IsVoice /\ request.name # "none"
       /\ pc \in VoiceStages => IsVoice

TypeInv ==
    /\ IsProject(project) /\ path \in Paths
    /\ generation \in Nat /\ content \in Nat /\ view \in Nat /\ saves \in Nat
    /\ savePending \in BOOLEAN /\ sent \in Nat /\ userEvents \in Nat
    /\ drop = NoDrop \/ drop \in Drops
    /\ request = NoRequest \/ IsRequest(request)
    /\ pc # "idle" => IsRequest(request)
    /\ RightStage
    /\ work \in Works /\ answer \in Answers /\ done \in Deeds
    /\ answer.outcome = "none" <=> (pc # "idle" \/ request = NoRequest)

\* What was changed and not recorded yet, step by step.
RecordInv ==
    /\ pc \in EarlyStages => ~done.changed /\ done.unrecorded = {}
    /\ pc = "record" => /\ done.unrecorded \subseteq RevisionsOf(request.kind)
                        /\ done.changed \/ done.unrecorded # {} => work.changed
    /\ pc = "verify" => done.unrecorded = {} /\ (done.changed => work.changed)
    /\ pc \in LateStages => done.unrecorded \subseteq {"content"}
    /\ EveryChangeIsRecorded

\* The drop of the running request, or of the last one, has not been carried out.
OwnDrop == drop # NoDrop /\ drop.number = sent

\* Where the objects of a drop shall be, there is nothing before it lands, unless somebody
\* else is at work; and nothing but the drop lands there.
DropInv ==
    /\ drop # NoDrop => drop.number <= sent
    /\ OwnDrop /\ pc # "idle" =>
          IsPsd /\ pc \in LateStages /\ drop.labels = PartsOf(request)
    /\ IsPsd /\ pc \in PlacingStages \cup {"occupied", "poll"} =>
          project.scene = request.scene \/ Disturbed
    /\ IsPsd /\ (pc \in PlacingStages \/ (pc = "poll" /\ OwnDrop)) =>
          Free(project, Place(0)) \/ Disturbed
    /\ request.kind = "psd" /\ pc = "poll" =>
          \/ Disturbed
          \/ \A h \in DOMAIN project.objects :
                PlaceOf(project.objects[h]) = Place(0) => project.objects[h].label = "psd"
    /\ OwnDrop => \/ pc = "poll" \/ Disturbed
                  \/ pc = "idle" /\ answer.outcome = "partial"

\* What the save callback has counted since the number of saves was noted.
SaveInv ==
    /\ done.saved # {} => path \in done.saved \/ done.loaded
    /\ IsSave /\ pc \in {"command", "wait"} =>
          work.sequence <= saves /\ (saves > work.sequence => done.saved # {})
    /\ SavedIsSaved

AnswerInv ==
    /\ done.command => IsSave /\ pc \in {"wait", "idle"}
    /\ request.kind = "batch" /\ pc = "record" /\ (work.ok \/ work.changed) =>
          done.applied = SaidApplied(request, work.failed)
    /\ AnswersTellWhatHappened

IInv == TypeInv /\ RecordInv /\ DropInv /\ SaveInv /\ AnswerInv /\ PlanPredictsTheBatch

-----------------------------------------------------------------------------
(* A batch: the plan and the execution, operation by operation.  Both are    *)
(* recursive functions over the operations, so that what holds of them is    *)
(* shown by induction, for which the set of all good numbers takes the place *)
(* of a predicate.                                                           *)

LEMMA SetInduction ==
    ASSUME NEW S, 0 \in S, \A n \in Nat : n \in S => n + 1 \in S
    PROVE  \A n \in Nat : n \in S
<1> SUFFICES ASSUME Nat \ S # {} PROVE FALSE
  OBVIOUS
<1>1. PICK x \in Nat \ S : \A y \in Nat \ S : ~(<<y, x>> \in OpToRel(<, Nat))
  BY NatLessThanWellFounded, WFMin
<1>2. x # 0 /\ x - 1 \in Nat
  OBVIOUS
<1>3. x - 1 \notin S
  BY <1>2
<1>4. <<x - 1, x>> \in OpToRel(<, Nat)
  BY <1>2 DEF OpToRel
<1>5. QED
  BY <1>1, <1>2, <1>3, <1>4

StartOfBatch ==
    [project |-> project, ok |-> FALSE, changed |-> FALSE, failed |-> 0, applied |-> {},
     refused |-> 0]
NextRuns(runs, op, i) == UNION {Continued(run, op, i) : run \in runs}

\* The values of the two recursive functions up to n.
AreRuns(runs, ops, n) ==
    runs = [i \in 0..n |-> IF i = 0 THEN {StartOfBatch}
                           ELSE NextRuns(runs[i - 1], ops[i], i)]
ArePlans(plans, ops, n) ==
    plans = [i \in 0..n |-> IF i = 0 THEN InitialPlan ELSE PlanStep(plans[i - 1], ops[i], i)]

LEMMA RunsExist ==
    ASSUME NEW ops
    PROVE  \A n \in Nat : \E runs : AreRuns(runs, ops, n)
<1> DEFINE S == {n \in Nat : \E runs : AreRuns(runs, ops, n)}
<1>1. 0 \in S
  <2> DEFINE runs == [i \in 0..0 |-> {StartOfBatch}]
  <2>1. AreRuns(runs, ops, 0)
    BY DEF AreRuns
  <2>2. QED
    BY <2>1
<1>2. ASSUME NEW n \in Nat, n \in S PROVE n + 1 \in S
  <2>1. PICK runs : AreRuns(runs, ops, n)
    BY <1>2
  <2> DEFINE more == [i \in 0..(n + 1) |-> IF i = n + 1 THEN NextRuns(runs[n], ops[n + 1], n + 1)
                                           ELSE runs[i]]
  <2>2. \A i \in 0..(n + 1) : more[i] = IF i = 0 THEN {StartOfBatch}
                                        ELSE NextRuns(more[i - 1], ops[i], i)
    <3> TAKE i \in 0..(n + 1)
    <3>1. CASE i = n + 1
      BY <3>1
    <3>2. CASE i # n + 1
      <4>1. i \in 0..n /\ (i # 0 => i - 1 \in 0..n)
        BY <3>2
      <4>2. runs[i] = IF i = 0 THEN {StartOfBatch} ELSE NextRuns(runs[i - 1], ops[i], i)
        BY <2>1, <4>1 DEF AreRuns
      <4>3. more[i] = runs[i] /\ (i # 0 => more[i - 1] = runs[i - 1])
        BY <4>1
      <4>4. QED
        BY <4>2, <4>3
    <3>3. QED
      BY <3>1, <3>2
  <2>3. AreRuns(more, ops, n + 1)
    BY <2>2 DEF AreRuns
  <2>4. QED
    BY <2>3
<1> HIDE DEF S
<1>3. \A n \in Nat : n \in S
  BY <1>1, <1>2, SetInduction
<1>4. QED
  BY <1>3 DEF S

LEMMA PlansExist ==
    ASSUME NEW ops
    PROVE  \A n \in Nat : \E plans : ArePlans(plans, ops, n)
<1> DEFINE S == {n \in Nat : \E plans : ArePlans(plans, ops, n)}
<1>1. 0 \in S
  <2> DEFINE plans == [i \in 0..0 |-> InitialPlan]
  <2>1. ArePlans(plans, ops, 0)
    BY DEF ArePlans
  <2>2. QED
    BY <2>1
<1>2. ASSUME NEW n \in Nat, n \in S PROVE n + 1 \in S
  <2>1. PICK plans : ArePlans(plans, ops, n)
    BY <1>2
  <2> DEFINE more == [i \in 0..(n + 1) |-> IF i = n + 1 THEN PlanStep(plans[n], ops[n + 1], n + 1)
                                           ELSE plans[i]]
  <2>2. \A i \in 0..(n + 1) : more[i] = IF i = 0 THEN InitialPlan
                                        ELSE PlanStep(more[i - 1], ops[i], i)
    <3> TAKE i \in 0..(n + 1)
    <3>1. CASE i = n + 1
      BY <3>1
    <3>2. CASE i # n + 1
      <4>1. i \in 0..n /\ (i # 0 => i - 1 \in 0..n)
        BY <3>2
      <4>2. plans[i] = IF i = 0 THEN InitialPlan ELSE PlanStep(plans[i - 1], ops[i], i)
        BY <2>1, <4>1 DEF ArePlans
      <4>3. more[i] = plans[i] /\ (i # 0 => more[i - 1] = plans[i - 1])
        BY <4>1
      <4>4. QED
        BY <4>2, <4>3
    <3>3. QED
      BY <3>1, <3>2
  <2>3. ArePlans(more, ops, n + 1)
    BY <2>2 DEF ArePlans
  <2>4. QED
    BY <2>3
<1> HIDE DEF S
<1>3. \A n \in Nat : n \in S
  BY <1>1, <1>2, SetInduction
<1>4. QED
  BY <1>3 DEF S

LEMMA ExecutionsAreRuns ==
    ASSUME NEW ops \in Seq(Operations)
    PROVE  \E runs : AreRuns(runs, ops, Len(ops)) /\ Executions(ops) = runs[Len(ops)]
<1>1. PICK g : AreRuns(g, ops, Len(ops))
  BY RunsExist
<1> DEFINE runs == CHOOSE runs : AreRuns(runs, ops, Len(ops))
<1>2. AreRuns(runs, ops, Len(ops))
  BY <1>1
<1>3. Executions(ops) = runs[Len(ops)]
  BY DEF Executions, AreRuns, NextRuns, StartOfBatch
<1>4. QED
  BY <1>2, <1>3

LEMMA PlanIsLastPlan ==
    ASSUME NEW ops \in Seq(Operations)
    PROVE  \E plans : ArePlans(plans, ops, Len(ops)) /\ PlanOf(ops) = plans[Len(ops)]
<1>1. PICK g : ArePlans(g, ops, Len(ops))
  BY PlansExist
<1> DEFINE plans == CHOOSE plans : ArePlans(plans, ops, Len(ops))
<1>2. ArePlans(plans, ops, Len(ops))
  BY <1>1
<1>3. PlanOf(ops) = plans[Len(ops)]
  BY DEF PlanOf, ArePlans
<1>4. QED
  BY <1>2, <1>3

-----------------------------------------------------------------------------
(* One operation *)

LEMMA OperationFields ==
    ASSUME NEW op \in Operations, IsProject(project)
    PROVE  /\ op.op \in {"move", "delete", "name", "item", "create", "layer"}
           /\ op.op \in {"move", "create"} => Destination(op) \in Places
           /\ op.op \in {"name", "item", "create"} => op.label \in Labels
           /\ op.op = "layer" => op.layer \in Layers
           /\ op.op = "create" => op.more \in SUBSET (Layers \X Frames)
BY DEF Operations, Destination, Places, IsProject

\* Where the objects of an alias go.
LEMMA FurtherPlaces ==
    ASSUME NEW op \in Operations, op.op = "create", IsProject(project),
           NEW p, IsProject(p), p.scene = project.scene, Free(p, Destination(op)),
           NEW q \in Applied(p, op, TheHandle(op))
    PROVE  \E places :
              /\ places \subseteq Places /\ q \in Filled(p, places, op.label)
              /\ \A place \in places :
                    /\ Free(p, place)
                    /\ place = Destination(op) \/ <<place.layer, place.frame>> \in op.more
<1>1. PICK others \in SUBSET Further(p, op) :
         q \in Filled(p, {Destination(op)} \cup others, op.label)
  BY DEF Applied
<1>2. ASSUME NEW place \in Further(p, op)
      PROVE  place \in Places /\ Free(p, place) /\ <<place.layer, place.frame>> \in op.more
  <2>1. PICK spot \in op.more : place = [scene |-> p.scene, layer |-> spot[1], frame |-> spot[2]]
    BY DEF Further
  <2>2. spot \in Layers \X Frames
    BY OperationFields
  <2>3. place \in Places /\ <<place.layer, place.frame>> = spot
    BY <2>1, <2>2 DEF Places, IsProject
  <2>4. Free(p, place)
    BY DEF Further
  <2>5. QED
    BY <2>3, <2>4
<1>3. Destination(op) \in Places
  BY OperationFields
<1>4. PICK places : places = {Destination(op)} \cup others
  OBVIOUS
<1>5. places \subseteq Places /\ q \in Filled(p, places, op.label)
  BY <1>4, <1>1, <1>2, <1>3
<1>6. \A place \in places :
         /\ Free(p, place)
         /\ place = Destination(op) \/ <<place.layer, place.frame>> \in op.more
  BY <1>4, <1>1, <1>2
<1>7. QED
  BY <1>5, <1>6

\* What an operation leaves is a project, with the same scene open.
LEMMA AppliedKeeps ==
    ASSUME NEW op \in Operations, IsProject(project),
           NEW p, IsProject(p), p.scene = project.scene, NEW h, Allows(p, op, h),
           NEW q \in Applied(p, op, h)
    PROVE  IsProject(q) /\ q.scene = project.scene
<1> USE OperationFields
<1>1. CASE op.op = "move"
  <2>1. q = Moved(p, h, Destination(op))
    BY <1>1 DEF Applied, Moved
  <2>2. /\ h \in DOMAIN p.objects
        /\ PlaceOf(p.objects[h]) = Destination(op) \/ Free(p, Destination(op))
    BY <1>1 DEF Allows, HasLocator
  <2>3. QED
    BY <1>1, <2>1, <2>2, MoveKeeps
<1>2. CASE op.op = "delete"
  BY <1>2, TakeKeeps DEF Applied
<1>3. CASE op.op \in {"name", "item"}
  <2>1. q = Relabelled(p, h, op.label)
    BY <1>3 DEF Applied, Relabelled
  <2>2. h \in DOMAIN p.objects
    BY <1>3 DEF Allows, HasLocator
  <2>3. op.label \in Labels
    BY <1>3
  <2>4. IsProject(q) /\ q.scene = p.scene
    BY <2>1, <2>2, <2>3, RelabelKeeps
  <2>5. QED
    BY <2>4
<1>4. CASE op.op = "create"
  <2>1. q \in Applied(p, op, TheHandle(op)) /\ Free(p, Destination(op))
    BY <1>4 DEF Allows, Applied
  <2>2. PICK places :
           /\ places \subseteq Places /\ q \in Filled(p, places, op.label)
           /\ \A place \in places : Free(p, place)
    BY <1>4, <2>1, FurtherPlaces
  <2>3. op.label \in Labels /\ places \in SUBSET Places
    BY <1>4, <2>2
  <2>4. QED
    BY <2>2, <2>3, FilledKeeps
<1>5. CASE op.op = "layer"
  <2> DEFINE locked == IF op.lock THEN p.locked \cup {<<p.scene, op.layer>>}
                                  ELSE p.locked \ {<<p.scene, op.layer>>}
  <2>1. q = [p EXCEPT !.locked = locked]
    BY <1>5 DEF Applied
  <2>2. locked \in SUBSET (Scenes \X Layers)
    BY <1>5 DEF IsProject
  <2> HIDE DEF locked
  <2>3. QED
    BY <2>1, <2>2, LockKeeps
<1>6. QED
  BY <1>1, <1>2, <1>3, <1>4, <1>5

\* What is true of every way in which the first n operations may go.
RunOK(run, n) ==
    /\ DOMAIN run = {"project", "ok", "changed", "failed", "applied", "refused"}
    /\ IsProject(run.project) /\ run.project.scene = project.scene
    /\ run.changed \in BOOLEAN /\ run.failed \in 0..n /\ run.refused \in {0, run.failed}
    /\ run.applied = 1..(IF run.failed = 0 THEN n ELSE run.failed - 1)
    /\ run.project # project => run.changed

LEMMA ContinuedKeeps ==
    ASSUME IsProject(project), NEW op \in Operations, NEW n \in Nat,
           NEW run, RunOK(run, n), NEW r \in Continued(run, op, n + 1)
    PROVE  RunOK(r, n + 1)
<1> DEFINE h == TheHandle(op)
<1> HIDE DEF h
<1>1. CASE run.failed # 0
  <2>1. r = run
    BY <1>1 DEF Continued
  <2>2. QED
    BY <1>1, <2>1 DEF RunOK
<1>2. CASE run.failed = 0 /\ ~Allows(run.project, op, h)
  <2>1. r = [run EXCEPT !.failed = n + 1]
    BY <1>2 DEF Continued, h
  <2>2. n + 1 \in 0..(n + 1) /\ n + 1 # 0 /\ (n + 1) - 1 = n
    OBVIOUS
  <2>3. QED
    BY <1>2, <2>1, <2>2 DEF RunOK
<1>3. CASE run.failed = 0 /\ Allows(run.project, op, h)
  <2>1. \A q \in Applied(run.project, op, h) : IsProject(q) /\ q.scene = project.scene
    BY <1>3, AppliedKeeps DEF RunOK
  <2>2. CASE \E q \in Applied(run.project, op, h) :
                r = [run EXCEPT !.project = q, !.applied = @ \cup {n + 1},
                                !.changed = @ \/ q # run.project]
    <3>1. PICK q \in Applied(run.project, op, h) :
             r = [run EXCEPT !.project = q, !.applied = @ \cup {n + 1},
                             !.changed = @ \/ q # run.project]
      BY <2>2
    <3>2. (1..n) \cup {n + 1} = 1..(n + 1)
      OBVIOUS
    <3>3. /\ DOMAIN r = DOMAIN run /\ r.project = q /\ r.failed = 0 /\ r.refused = run.refused
          /\ r.applied = 1..(n + 1)
      BY <1>3, <3>1, <3>2 DEF RunOK
    <3>4. r.changed = (run.changed \/ q # run.project)
      BY <3>1 DEF RunOK
    <3>5. r.changed \in BOOLEAN /\ (r.project # project => r.changed)
      BY <3>3, <3>4 DEF RunOK
    <3>6. QED
      BY <1>3, <2>1, <3>3, <3>5 DEF RunOK
  <2>3. CASE \E q \in {run.project} \cup Applied(run.project, op, h) :
                r = [run EXCEPT !.project = q, !.failed = n + 1, !.refused = n + 1,
                                !.changed = @ \/ q # run.project]
    <3>1. PICK q \in {run.project} \cup Applied(run.project, op, h) :
             r = [run EXCEPT !.project = q, !.failed = n + 1, !.refused = n + 1,
                             !.changed = @ \/ q # run.project]
      BY <2>3
    <3>2. n + 1 \in 0..(n + 1) /\ n + 1 # 0 /\ (n + 1) - 1 = n
      OBVIOUS
    <3>3. /\ DOMAIN r = DOMAIN run /\ r.project = q /\ r.failed = n + 1 /\ r.refused = n + 1
          /\ r.applied = 1..n
      BY <1>3, <3>1 DEF RunOK
    <3>4. r.changed = (run.changed \/ q # run.project)
      BY <3>1 DEF RunOK
    <3>5. r.changed \in BOOLEAN /\ (r.project # project => r.changed)
      BY <3>3, <3>4 DEF RunOK
    <3>6. IsProject(q) /\ q.scene = project.scene
      BY <2>1, <3>1 DEF RunOK
    <3>7. QED
      BY <3>2, <3>3, <3>5, <3>6 DEF RunOK
  <2>4. QED
    BY <1>3, <2>2, <2>3 DEF Continued, h
<1>4. QED
  BY <1>1, <1>2, <1>3

LEMMA StartIsOK ==
    ASSUME IsProject(project)
    PROVE  RunOK(StartOfBatch, 0)
BY DEF StartOfBatch, RunOK

LEMMA ExecutionsAreOK ==
    ASSUME IsProject(project), NEW ops \in Seq(Operations), NEW run \in Executions(ops)
    PROVE  RunOK(run, Len(ops))
<1>1. PICK runs : AreRuns(runs, ops, Len(ops)) /\ Executions(ops) = runs[Len(ops)]
  BY ExecutionsAreRuns
<1> DEFINE S == {n \in Nat : n <= Len(ops) => \A r \in runs[n] : RunOK(r, n)}
<1>2. 0 \in S
  <2>1. 0 \in 0..Len(ops)
    OBVIOUS
  <2>2. runs[0] = {StartOfBatch}
    BY <1>1, <2>1 DEF AreRuns
  <2>3. QED
    BY <2>2, StartIsOK
<1>3. ASSUME NEW n \in Nat, n \in S PROVE n + 1 \in S
  <2> SUFFICES ASSUME n + 1 <= Len(ops), NEW r \in runs[n + 1] PROVE RunOK(r, n + 1)
    OBVIOUS
  <2>1. n + 1 \in 0..Len(ops) /\ n + 1 # 0 /\ (n + 1) - 1 = n /\ n <= Len(ops)
        /\ n + 1 \in 1..Len(ops)
    OBVIOUS
  <2>2. runs[n + 1] = NextRuns(runs[n], ops[n + 1], n + 1)
    BY <1>1, <2>1 DEF AreRuns
  <2>3. PICK p \in runs[n] : r \in Continued(p, ops[n + 1], n + 1)
    BY <2>2 DEF NextRuns
  <2>4. RunOK(p, n)
    BY <1>3, <2>1, <2>3
  <2>5. ops[n + 1] \in Operations
    BY <2>1
  <2>6. QED
    BY <2>3, <2>4, <2>5, ContinuedKeeps
<1> HIDE DEF S
<1>4. Len(ops) \in S
  BY <1>2, <1>3, SetInduction
<1>5. QED
  BY <1>1, <1>4 DEF S

-----------------------------------------------------------------------------
(* The plan and the project: the copy of the timeline that edit_sdk_batch    *)
(* plans against agrees, after every operation, with the project as it will  *)
(* be.  The copy has the objects of the open scene only, keeps the deleted   *)
(* ones, and has the created ones under the number of their operation.  It   *)
(* knows nothing of the further objects of an alias; beyond is where those   *)
(* may be.                                                                   *)

Originals == {h \in DOMAIN project.objects : project.objects[h].scene = project.scene}
IsThere(plan, k) == k \in DOMAIN plan.objects /\ ~plan.objects[k].isDeleted

PlanShaped(plan, n) ==
    /\ DOMAIN plan = {"objects", "locked", "failed"} /\ plan.failed = 0
    /\ Originals \subseteq DOMAIN plan.objects
    /\ DOMAIN plan.objects \subseteq Originals \cup 1..n
    /\ \A k \in DOMAIN plan.objects :
          DOMAIN plan.objects[k] = {"place", "isDeleted"} /\ plan.objects[k].isDeleted \in BOOLEAN

Agrees(plan, p, n, beyond) ==
    /\ plan.locked = p.locked
    /\ \A h \in Originals : IsThere(plan, h) =>
          h \in DOMAIN p.objects /\ PlaceOf(p.objects[h]) = plan.objects[h].place
    /\ \A h \in DOMAIN p.objects : p.objects[h].scene = project.scene =>
          \/ <<p.objects[h].layer, p.objects[h].frame>> \in beyond
          \/ \E k \in DOMAIN plan.objects :
                /\ IsThere(plan, k) /\ plan.objects[k].place = PlaceOf(p.objects[h])
                /\ k = h \/ k \in 1..n

\* Where the operations up to n may have left further objects, and the next one.
Beyond(ops, n) == UNION {ops[i].more : i \in {j \in 1..n : ops[j].op = "create"}}
Grown(beyond, op) == beyond \cup (IF op.op = "create" THEN op.more ELSE {})

LEMMA BeyondGrows ==
    ASSUME NEW ops, NEW n \in Nat
    PROVE  /\ Beyond(ops, 0) = {}
           /\ Beyond(ops, n + 1) = Grown(Beyond(ops, n), ops[n + 1])
           /\ MeetsAnAlias(ops, n + 1) <=>
                 /\ ops[n + 1].op \in {"move", "create"}
                 /\ <<ops[n + 1].layer, ops[n + 1].frame>> \in Beyond(ops, n)
<1>1. 1..(n + 1) = (1..n) \cup {n + 1} /\ (n + 1) - 1 = n /\ 1..0 = {}
  OBVIOUS
<1>2. Beyond(ops, n + 1) = Grown(Beyond(ops, n), ops[n + 1])
  BY <1>1 DEF Beyond, Grown
<1>3. QED
  BY <1>1, <1>2 DEF Beyond, MeetsAnAlias

LEMMA OriginalsAreHandles ==
    ASSUME IsProject(project)
    PROVE  Originals \subseteq Handles /\ \A n \in Nat : Originals \cap 1..n = {}
BY OperationsAssumption DEF Originals, IsProject

LEMMA InitialPlanAgrees ==
    ASSUME IsProject(project)
    PROVE  PlanShaped(InitialPlan, 0) /\ Agrees(InitialPlan, project, 0, {})
BY DEF InitialPlan, PlanShaped, Agrees, Originals, IsThere

\* The object an operation names is one of those that were there at the beginning.
LEMMA TheHandleIsOriginal ==
    ASSUME NEW op, HasLocator(op), Resolved(op) # {}
    PROVE  TheHandle(op) \in Originals
<1>1. TheHandle(op) \in Resolved(op)
  BY DEF TheHandle
<1>2. QED
  BY <1>1 DEF Resolved, Resolves, Found, Originals, PlaceOf

\* If an operation can be planned, its function of the facade lets it pass, unless an alias is in
\* its way.
LEMMA PlannedIsAllowed ==
    ASSUME IsProject(project), NEW op \in Operations, NEW n \in Nat,
           NEW plan, PlanShaped(plan, n), NEW beyond,
           NEW p, IsProject(p), p.scene = project.scene, Agrees(plan, p, n, beyond),
           HasLocator(op) => TheHandle(op) \in Originals, PlanAllows(plan, op, TheHandle(op)),
           op.op \in {"move", "create"} => <<op.layer, op.frame>> \notin beyond
    PROVE  Allows(p, op, TheHandle(op))
<1> DEFINE h == TheHandle(op)
<1> HIDE DEF h
<1>1. HasLocator(op) => h \in DOMAIN p.objects /\ PlaceOf(p.objects[h]) = plan.objects[h].place
                        /\ ~Locked(p, PlaceOf(p.objects[h])) /\ IsThere(plan, h)
  BY DEF h, PlanShaped, Agrees, PlanAllows, IsThere, Locked, PlanLocks
<1>2. op.op \in {"move", "create"} => ~Locked(p, Destination(op))
  BY DEF h, PlanAllows, PlanLocks, Locked, Agrees
<1>3. ASSUME op.op \in {"move", "create"}, NEW g \in DOMAIN p.objects,
             PlaceOf(p.objects[g]) = Destination(op)
      PROVE  op.op = "move" /\ g = h
  <2>1. p.objects[g].scene = project.scene
    BY <1>3 DEF PlaceOf, Destination
  <2>0. <<p.objects[g].layer, p.objects[g].frame>> \notin beyond
    BY <1>3 DEF PlaceOf, Destination
  <2>2. PICK k \in DOMAIN plan.objects :
           /\ IsThere(plan, k) /\ plan.objects[k].place = Destination(op)
           /\ k = g \/ k \in 1..n
    BY <1>3, <2>0, <2>1 DEF Agrees
  <2>3. op.op = "move" /\ k = h
    BY <1>3, <2>2 DEF h, PlanAllows, overlaps_batch_plan, IsThere
  <2>4. h \notin 1..n
    BY <2>3, OriginalsAreHandles DEF h, HasLocator
  <2>5. QED
    BY <2>2, <2>3, <2>4
<1>4. op.op = "create" => Free(p, Destination(op))
  BY <1>3 DEF Free
<1>5. op.op = "move" => PlaceOf(p.objects[h]) = Destination(op) \/ Free(p, Destination(op))
  BY <1>3 DEF Free
<1>6. QED
  BY <1>1, <1>2, <1>4, <1>5 DEF Allows, h

\* And afterwards the plan and the project agree again.
LEMMA PlanFollows ==
    ASSUME IsProject(project), NEW op \in Operations, NEW n \in Nat,
           NEW plan, PlanShaped(plan, n), NEW beyond,
           NEW p, IsProject(p), p.scene = project.scene, Agrees(plan, p, n, beyond),
           HasLocator(op) => TheHandle(op) \in Originals, PlanAllows(plan, op, TheHandle(op)),
           Allows(p, op, TheHandle(op)), NEW q \in Applied(p, op, TheHandle(op))
    PROVE  /\ PlanShaped(Planned(plan, op, TheHandle(op), n + 1), n + 1)
           /\ Agrees(Planned(plan, op, TheHandle(op), n + 1), q, n + 1, Grown(beyond, op))
<1> DEFINE h == TheHandle(op)
           next == Planned(plan, op, h, n + 1)
           after == Grown(beyond, op)
<1> HIDE DEF h, next, after
<1> SUFFICES PlanShaped(next, n + 1) /\ Agrees(next, q, n + 1, after)
  BY DEF next, h, after
<1> USE OperationFields
<1>0. /\ 1..n \subseteq 1..(n + 1) /\ n + 1 \in 1..(n + 1) /\ n + 1 \notin 1..n
      /\ n + 1 \notin Originals /\ n + 1 \notin DOMAIN plan.objects
      /\ beyond \subseteq after
  <2>0. beyond \subseteq after
    BY DEF after, Grown
  <2>1. n + 1 \in Nat /\ n + 1 \in 1..(n + 1) /\ n + 1 \notin 1..n /\ 1..n \subseteq 1..(n + 1)
    OBVIOUS
  <2>2. n + 1 \notin Originals
    BY <2>1, OriginalsAreHandles
  <2>3. QED
    BY <2>0, <2>1, <2>2 DEF PlanShaped
<1>1. CASE op.op = "move"
  <2>1. q = Moved(p, h, Destination(op))
    BY <1>1 DEF Applied, Moved, h
  <2>2. /\ h \in DOMAIN p.objects /\ h \in Originals
        /\ PlaceOf(p.objects[h]) = Destination(op) \/ Free(p, Destination(op))
    BY <1>1 DEF Allows, HasLocator, h
  <2>3. /\ q.locked = p.locked /\ DOMAIN q.objects = DOMAIN p.objects
        /\ PlaceOf(q.objects[h]) = Destination(op)
        /\ \A g \in DOMAIN p.objects \ {h} : q.objects[g] = p.objects[g]
    BY <1>1, <2>1, <2>2, MoveKeeps
  <2>4. /\ next.locked = plan.locked /\ next.failed = plan.failed /\ DOMAIN next = DOMAIN plan
        /\ DOMAIN next.objects = DOMAIN plan.objects
        /\ next.objects[h].place = Destination(op)
        /\ next.objects[h].isDeleted = plan.objects[h].isDeleted
        /\ DOMAIN next.objects[h] = DOMAIN plan.objects[h]
        /\ \A k \in DOMAIN plan.objects \ {h} : next.objects[k] = plan.objects[k]
    BY <1>1, <2>2 DEF next, Planned, PlanShaped
  <2>5. PlanShaped(next, n + 1)
    BY <1>0, <2>2, <2>4 DEF PlanShaped
  <2>6. \A k \in DOMAIN plan.objects : IsThere(next, k) <=> IsThere(plan, k)
    BY <2>4 DEF IsThere
  <2>7. ASSUME NEW g \in Originals, IsThere(next, g)
        PROVE  g \in DOMAIN q.objects /\ PlaceOf(q.objects[g]) = next.objects[g].place
    BY <2>2, <2>3, <2>4, <2>6, <2>7 DEF Agrees, PlanShaped
  <2>8. ASSUME NEW g \in DOMAIN q.objects, q.objects[g].scene = project.scene,
               <<q.objects[g].layer, q.objects[g].frame>> \notin after
        PROVE  \E k \in DOMAIN next.objects :
                  /\ IsThere(next, k) /\ next.objects[k].place = PlaceOf(q.objects[g])
                  /\ k = g \/ k \in 1..(n + 1)
    <3>1. CASE g = h
      <4>1. h \in DOMAIN plan.objects /\ IsThere(plan, h)
        BY <1>1, <2>2 DEF PlanShaped, PlanAllows, HasLocator, IsThere, h
      <4>2. QED
        BY <2>3, <2>4, <2>6, <3>1, <4>1
    <3>2. CASE g # h
      <4>1. g \in DOMAIN p.objects /\ q.objects[g] = p.objects[g]
        BY <2>3, <3>2
      <4>2. PICK k \in DOMAIN plan.objects :
               /\ IsThere(plan, k) /\ plan.objects[k].place = PlaceOf(q.objects[g])
               /\ k = g \/ k \in 1..n
        BY <1>0, <2>8, <4>1 DEF Agrees
      <4>3. k # h
        BY <2>2, <3>2, <4>2, OriginalsAreHandles
      <4>4. QED
        BY <1>0, <2>4, <2>6, <4>2, <4>3
    <3>3. QED
      BY <3>1, <3>2
  <2>9. QED
    BY <2>3, <2>4, <2>5, <2>7, <2>8 DEF Agrees
<1>2. CASE op.op = "delete"
  <2>1. q = Take(p, h)
    BY <1>2 DEF Applied, h
  <2>2. h \in DOMAIN p.objects /\ h \in Originals
    BY <1>2 DEF Allows, HasLocator, h
  <2>3. /\ q.locked = p.locked /\ DOMAIN q.objects = DOMAIN p.objects \ {h}
        /\ \A g \in DOMAIN p.objects \ {h} : q.objects[g] = p.objects[g]
    BY <2>1, TakeKeeps
  <2>4. /\ next.locked = plan.locked /\ next.failed = plan.failed /\ DOMAIN next = DOMAIN plan
        /\ DOMAIN next.objects = DOMAIN plan.objects
        /\ next.objects[h].isDeleted /\ next.objects[h].isDeleted \in BOOLEAN
        /\ DOMAIN next.objects[h] = DOMAIN plan.objects[h]
        /\ \A k \in DOMAIN plan.objects \ {h} : next.objects[k] = plan.objects[k]
    BY <1>2, <2>2 DEF next, Planned, PlanShaped
  <2>5. PlanShaped(next, n + 1)
    <3>1. \A k \in DOMAIN next.objects :
             /\ DOMAIN next.objects[k] = {"place", "isDeleted"}
             /\ next.objects[k].isDeleted \in BOOLEAN
      <4> TAKE k \in DOMAIN next.objects
      <4>1. CASE k = h
        BY <2>2, <2>4, <4>1 DEF PlanShaped
      <4>2. CASE k # h
        BY <2>4, <4>2 DEF PlanShaped
      <4>3. QED
        BY <4>1, <4>2
    <3>2. QED
      BY <1>0, <2>4, <3>1 DEF PlanShaped
  <2>6. h \notin 1..n
    BY <2>2, OriginalsAreHandles
  <2>7. QED
    BY <1>0, <2>2, <2>3, <2>4, <2>5, <2>6 DEF Agrees, IsThere, PlanShaped
<1>3. CASE op.op \in {"name", "item"}
  <2>1. q = Relabelled(p, h, op.label)
    BY <1>3 DEF Applied, Relabelled, h
  <2>2. h \in DOMAIN p.objects /\ op.label \in Labels
    BY <1>3 DEF Allows, HasLocator, h
  <2>3. /\ q.locked = p.locked /\ DOMAIN q.objects = DOMAIN p.objects
        /\ \A g \in DOMAIN p.objects : PlaceOf(q.objects[g]) = PlaceOf(p.objects[g])
    BY <2>1, <2>2, RelabelKeeps
  <2>4. \A g \in DOMAIN p.objects :
           /\ q.objects[g].scene = p.objects[g].scene
           /\ q.objects[g].layer = p.objects[g].layer /\ q.objects[g].frame = p.objects[g].frame
    BY <2>3 DEF PlaceOf
  <2>5. next = plan
    BY <1>3 DEF next, Planned
  <2>6. QED
    BY SMTT(30), <1>0, <2>3, <2>4, <2>5 DEF Agrees, PlanShaped
<1>4. CASE op.op = "create"
  <2>1. Free(p, Destination(op)) /\ q \in Applied(p, op, TheHandle(op))
    BY <1>4 DEF Allows
  <2>2. PICK places :
           /\ places \subseteq Places /\ q \in Filled(p, places, op.label)
           /\ \A place \in places :
                 /\ Free(p, place)
                 /\ place = Destination(op) \/ <<place.layer, place.frame>> \in op.more
    BY <1>4, <2>1, FurtherPlaces
  <2>3. op.more \subseteq after
    BY <1>4 DEF after, Grown
  <2>4. /\ q.locked = p.locked
        /\ \A f \in DOMAIN p.objects : f \in DOMAIN q.objects /\ q.objects[f] = p.objects[f]
        /\ \A f \in DOMAIN q.objects \ DOMAIN p.objects : PlaceOf(q.objects[f]) \in places
    <3>1. op.label \in Labels /\ places \in SUBSET Places /\ \A place \in places : Free(p, place)
      BY <1>4, <2>2
    <3>2. QED
      BY <2>2, <3>1, FilledKeeps
  <2> DEFINE new == [place |-> Destination(op), isDeleted |-> FALSE]
  <2>5. next = [plan EXCEPT !.objects = Joined(plan.objects, [k \in {n + 1} |-> new])]
    BY <1>4 DEF next, Planned
  <2>6. /\ new.place = Destination(op) /\ new.isDeleted = FALSE
        /\ DOMAIN new = {"place", "isDeleted"}
    OBVIOUS
  <2> HIDE DEF new
  <2>7. /\ next.locked = plan.locked /\ next.failed = plan.failed /\ DOMAIN next = DOMAIN plan
        /\ DOMAIN next.objects = DOMAIN plan.objects \cup {n + 1}
        /\ next.objects[n + 1] = new
        /\ \A k \in DOMAIN plan.objects : next.objects[k] = plan.objects[k]
    <3>1. next.objects = Joined(plan.objects, [k \in {n + 1} |-> new])
      BY <2>5 DEF PlanShaped
    <3>2. /\ DOMAIN next.objects = DOMAIN plan.objects \cup {n + 1}
          /\ next.objects[n + 1] = new
          /\ \A k \in DOMAIN plan.objects : next.objects[k] = plan.objects[k]
      BY <1>0, <3>1 DEF Joined
    <3>3. QED
      BY <1>0, <2>5, <3>2 DEF PlanShaped
  <2>8. PlanShaped(next, n + 1)
    BY <1>0, <2>6, <2>7 DEF PlanShaped
  <2>9. /\ IsThere(next, n + 1)
        /\ \A k \in DOMAIN plan.objects : IsThere(next, k) <=> IsThere(plan, k)
    BY <2>6, <2>7 DEF IsThere
  <2>10. ASSUME NEW f \in Originals, IsThere(next, f)
         PROVE  f \in DOMAIN q.objects /\ PlaceOf(q.objects[f]) = next.objects[f].place
    <3>1. f \in DOMAIN plan.objects /\ IsThere(plan, f)
      BY <2>9, <2>10 DEF PlanShaped
    <3>2. QED
      BY <2>4, <2>7, <3>1 DEF Agrees
  <2>11. ASSUME NEW f \in DOMAIN q.objects, q.objects[f].scene = project.scene,
                <<q.objects[f].layer, q.objects[f].frame>> \notin after
         PROVE  \E k \in DOMAIN next.objects :
                   /\ IsThere(next, k) /\ next.objects[k].place = PlaceOf(q.objects[f])
                   /\ k = f \/ k \in 1..(n + 1)
    <3>1. CASE f \notin DOMAIN p.objects
      <4>1. PlaceOf(q.objects[f]) \in places
        BY <2>4, <3>1
      <4>2. <<PlaceOf(q.objects[f]).layer, PlaceOf(q.objects[f]).frame>> \notin op.more
        BY <2>3, <2>11 DEF PlaceOf
      <4>3. PlaceOf(q.objects[f]) = Destination(op)
        BY <2>2, <4>1, <4>2
      <4>4. QED
        BY <1>0, <2>6, <2>7, <2>9, <4>3
    <3>2. CASE f \in DOMAIN p.objects
      <4>1. q.objects[f] = p.objects[f]
        BY <2>4, <3>2
      <4>2. PICK k \in DOMAIN plan.objects :
               /\ IsThere(plan, k) /\ plan.objects[k].place = PlaceOf(q.objects[f])
               /\ k = f \/ k \in 1..n
        BY <1>0, <2>11, <3>2, <4>1 DEF Agrees
      <4>3. QED
        BY <1>0, <2>7, <2>9, <4>2
    <3>3. QED
      BY <3>1, <3>2
  <2>12. next.locked = q.locked
    BY <2>4, <2>7 DEF Agrees
  <2>13. QED
    BY <2>8, <2>10, <2>11, <2>12 DEF Agrees
<1>5. CASE op.op = "layer"
  <2> DEFINE locked == IF op.lock THEN p.locked \cup {<<project.scene, op.layer>>}
                                  ELSE p.locked \ {<<project.scene, op.layer>>}
  <2>1. q = [p EXCEPT !.locked = locked]
    BY <1>5 DEF Applied
  <2>2. next = [plan EXCEPT !.locked = locked]
    BY <1>5 DEF next, Planned, Agrees
  <2>3. locked \in SUBSET (Scenes \X Layers)
    BY <1>5 DEF IsProject
  <2> HIDE DEF locked
  <2>4. q.locked = locked /\ q.objects = p.objects
    BY <2>1, <2>3, LockKeeps
  <2>5. /\ next.locked = locked /\ next.failed = plan.failed /\ DOMAIN next = DOMAIN plan
        /\ next.objects = plan.objects
    BY <2>2 DEF PlanShaped
  <2>6. QED
    BY <1>0, <2>4, <2>5 DEF Agrees, IsThere, PlanShaped
<1>6. QED
  BY <1>1, <1>2, <1>3, <1>4, <1>5

\* A plan and the runs of the same operations.
Predicts(plan, runs, ops, n) ==
    plan.failed = 0 =>
        \A run \in runs :
            /\ RunOK(run, n)
            /\ run.failed = 0 => PlanShaped(plan, n) /\ Agrees(plan, run.project, n, Beyond(ops, n))
            /\ run.failed # 0 => run.failed = run.refused \/ MeetsAnAlias(ops, run.failed)

LEMMA StepPredicts ==
    ASSUME IsProject(project), NEW ops, NEW n \in Nat, ops[n + 1] \in Operations,
           NEW plan, NEW runs, Predicts(plan, runs, ops, n)
    PROVE  Predicts(PlanStep(plan, ops[n + 1], n + 1), NextRuns(runs, ops[n + 1], n + 1), ops, n + 1)
<1> DEFINE op == ops[n + 1]
           h == TheHandle(op)
           next == PlanStep(plan, op, n + 1)
           beyond == Beyond(ops, n)
<1>0. op \in Operations
  OBVIOUS
<1>1. /\ Beyond(ops, n + 1) = Grown(beyond, op)
      /\ MeetsAnAlias(ops, n + 1) <=>
            op.op \in {"move", "create"} /\ <<op.layer, op.frame>> \in beyond
  BY BeyondGrows
<1> HIDE DEF h, next, op, beyond
<1> SUFFICES ASSUME next.failed = 0, NEW r \in NextRuns(runs, op, n + 1)
             PROVE  /\ RunOK(r, n + 1)
                    /\ r.failed = 0 =>
                          PlanShaped(next, n + 1) /\ Agrees(next, r.project, n + 1, Grown(beyond, op))
                    /\ r.failed # 0 => r.failed = r.refused \/ MeetsAnAlias(ops, r.failed)
  BY <1>1 DEF Predicts, next, op
<1>2. PICK run \in runs : r \in Continued(run, op, n + 1)
  BY DEF NextRuns
<1>3. plan.failed = 0
  BY DEF next, PlanStep
<1>4. /\ RunOK(run, n)
      /\ run.failed = 0 => PlanShaped(plan, n) /\ Agrees(plan, run.project, n, beyond)
      /\ run.failed # 0 => run.failed = run.refused \/ MeetsAnAlias(ops, run.failed)
  BY <1>2, <1>3 DEF Predicts, beyond
<1>5. RunOK(r, n + 1)
  BY <1>0, <1>2, <1>4, ContinuedKeeps
<1>6. CASE run.failed # 0
  <2>1. r = run
    BY <1>2, <1>6 DEF Continued
  <2>2. QED
    BY <1>4, <1>5, <1>6, <2>1
<1>7. CASE run.failed = 0
  <2>1. [plan EXCEPT !.failed = n + 1].failed # 0
    BY <1>4, <1>7 DEF PlanShaped
  <2>2. /\ HasLocator(op) => Resolved(op) # {}
        /\ PlanAllows(plan, op, h) /\ next = Planned(plan, op, h, n + 1)
    BY <1>3, <2>1 DEF next, PlanStep, h
  <2>3. HasLocator(op) => h \in Originals
    BY <2>2, TheHandleIsOriginal DEF h
  <2>4. IsProject(run.project) /\ run.project.scene = project.scene
    BY <1>4 DEF RunOK
  <2>5. Allows(run.project, op, h) \/ MeetsAnAlias(ops, n + 1)
    BY <1>0, <1>1, <1>4, <1>7, <2>2, <2>3, <2>4, PlannedIsAllowed DEF h
  <2>6. CASE ~Allows(run.project, op, h)
    <3>1. r = [run EXCEPT !.failed = n + 1]
      BY <1>2, <1>7, <2>6 DEF Continued, h
    <3>2. r.failed = n + 1 /\ n + 1 # 0
      BY <1>4, <3>1 DEF RunOK
    <3>3. QED
      BY <1>5, <2>5, <2>6, <3>2
  <2>7. CASE Allows(run.project, op, h)
    <3>1. \A q \in Applied(run.project, op, h) :
             PlanShaped(next, n + 1) /\ Agrees(next, q, n + 1, Grown(beyond, op))
      BY <1>0, <1>4, <1>7, <2>2, <2>3, <2>4, <2>7, PlanFollows DEF h
    <3>2. \/ \E q \in Applied(run.project, op, h) :
                r = [run EXCEPT !.project = q, !.applied = @ \cup {n + 1},
                                !.changed = @ \/ q # run.project]
          \/ \E q \in {run.project} \cup Applied(run.project, op, h) :
                r = [run EXCEPT !.project = q, !.failed = n + 1, !.refused = n + 1,
                                !.changed = @ \/ q # run.project]
      BY <1>2, <1>7, <2>7 DEF Continued, h
    <3>3. CASE \E q \in Applied(run.project, op, h) :
                  r = [run EXCEPT !.project = q, !.applied = @ \cup {n + 1},
                                  !.changed = @ \/ q # run.project]
      <4>1. r.failed = 0 /\ r.project \in Applied(run.project, op, h)
        BY <1>4, <1>7, <3>3 DEF RunOK
      <4>2. QED
        BY <1>5, <3>1, <4>1
    <3>4. CASE \E q \in {run.project} \cup Applied(run.project, op, h) :
                  r = [run EXCEPT !.project = q, !.failed = n + 1, !.refused = n + 1,
                                  !.changed = @ \/ q # run.project]
      <4>1. r.failed = n + 1 /\ r.refused = n + 1
        BY <1>4, <3>4 DEF RunOK
      <4>2. QED
        BY <1>5, <4>1
    <3>5. QED
      BY <3>2, <3>3, <3>4
  <2>8. QED
    BY <2>6, <2>7
<1>8. QED
  BY <1>6, <1>7

\* What a plan accepts only fails where AviUtl2 refuses an operation or an alias is in its way.
LEMMA PlanPredicts ==
    ASSUME IsProject(project), NEW ops \in Seq(Operations), PlanOf(ops).failed = 0,
           NEW run \in Executions(ops), run.failed # 0
    PROVE  run.failed = run.refused \/ MeetsAnAlias(ops, run.failed)
<1>1. PICK runs : AreRuns(runs, ops, Len(ops)) /\ Executions(ops) = runs[Len(ops)]
  BY ExecutionsAreRuns
<1>2. PICK plans : ArePlans(plans, ops, Len(ops)) /\ PlanOf(ops) = plans[Len(ops)]
  BY PlanIsLastPlan
<1> DEFINE S == {n \in Nat : n <= Len(ops) => Predicts(plans[n], runs[n], ops, n)}
<1>3. 0 \in S
  <2>1. 0 \in 0..Len(ops)
    OBVIOUS
  <2>2. runs[0] = {StartOfBatch} /\ plans[0] = InitialPlan
    BY <1>1, <1>2, <2>1 DEF AreRuns, ArePlans
  <2>3. StartOfBatch.project = project /\ StartOfBatch.failed = 0
    BY DEF StartOfBatch
  <2>4. Beyond(ops, 0) = {}
    BY BeyondGrows
  <2>5. Predicts(plans[0], runs[0], ops, 0)
    BY <2>2, <2>3, <2>4, StartIsOK, InitialPlanAgrees DEF Predicts
  <2>6. QED
    BY <2>5
<1>4. ASSUME NEW n \in Nat, n \in S PROVE n + 1 \in S
  <2> SUFFICES ASSUME n + 1 <= Len(ops) PROVE Predicts(plans[n + 1], runs[n + 1], ops, n + 1)
    OBVIOUS
  <2>1. n + 1 \in 0..Len(ops) /\ n + 1 # 0 /\ (n + 1) - 1 = n /\ n <= Len(ops)
        /\ n + 1 \in 1..Len(ops)
    OBVIOUS
  <2>2. runs[n + 1] = NextRuns(runs[n], ops[n + 1], n + 1)
    BY <1>1, <2>1 DEF AreRuns
  <2>3. plans[n + 1] = PlanStep(plans[n], ops[n + 1], n + 1)
    BY <1>2, <2>1 DEF ArePlans
  <2>4. Predicts(plans[n], runs[n], ops, n)
    BY <1>4, <2>1
  <2>5. ops[n + 1] \in Operations
    BY <2>1
  <2>6. QED
    BY <2>2, <2>3, <2>4, <2>5, StepPredicts
<1> HIDE DEF S
<1>5. Len(ops) \in S
  BY <1>3, <1>4, SetInduction
<1>6. Predicts(PlanOf(ops), Executions(ops), ops, Len(ops))
  BY <1>1, <1>2, <1>5 DEF S
<1>7. QED
  BY <1>6 DEF Predicts

-----------------------------------------------------------------------------
(* What an edit of the facade comes to *)

\* A result is honest about what was changed and, for a batch, about the operations.
Sound(r) ==
    /\ IsProject(r.project) /\ r.ok \in BOOLEAN /\ r.changed \in BOOLEAN
    /\ r.failed \in Nat /\ r.applied \in SUBSET Nat /\ r.refused \in Nat
    /\ r.project # project => r.changed
    /\ r.failed # 0 => r.failed = r.refused \/ MeetsAnAlias(request.ops, r.failed)
    /\ request.kind = "batch" /\ (r.ok \/ r.changed) => r.applied = SaidApplied(request, r.failed)
    /\ request.kind \notin {"open", "sceneCreate"} => r.project.scene = project.scene

\* The number of the operation that cannot be planned is a number.
Numbered(plan) == DOMAIN plan = {"objects", "locked", "failed"} /\ plan.failed \in Nat

LEMMA PlanIsNumbered ==
    ASSUME NEW ops \in Seq(Operations)
    PROVE  PlanOf(ops).failed \in Nat
<1>1. PICK plans : ArePlans(plans, ops, Len(ops)) /\ PlanOf(ops) = plans[Len(ops)]
  BY PlanIsLastPlan
<1> DEFINE S == {n \in Nat : n <= Len(ops) => Numbered(plans[n])}
<1>2. 0 \in S
  <2>1. plans[0] = InitialPlan
    BY <1>1 DEF ArePlans
  <2>2. QED
    BY <2>1 DEF InitialPlan, Numbered
<1>3. ASSUME NEW n \in Nat, n \in S PROVE n + 1 \in S
  <2> SUFFICES ASSUME n + 1 <= Len(ops) PROVE Numbered(plans[n + 1])
    OBVIOUS
  <2> DEFINE op == ops[n + 1]
             plan == plans[n]
  <2>1. n + 1 \in 0..Len(ops) /\ n + 1 # 0 /\ (n + 1) - 1 = n /\ n <= Len(ops)
    OBVIOUS
  <2>2. plans[n + 1] = PlanStep(plan, op, n + 1)
    BY <1>1, <2>1 DEF ArePlans
  <2>3. Numbered(plan)
    BY <1>3, <2>1
  <2> HIDE DEF op, plan
  <2>4. Numbered([plan EXCEPT !.failed = n + 1])
    BY <2>3 DEF Numbered
  <2>5. Numbered(Planned(plan, op, TheHandle(op), n + 1))
    BY <2>3 DEF Numbered, Planned
  <2>6. QED
    BY <2>2, <2>3, <2>4, <2>5 DEF PlanStep
<1> HIDE DEF S
<1>4. Len(ops) \in S
  BY <1>2, <1>3, SetInduction
<1>5. QED
  BY <1>1, <1>4 DEF S, Numbered

LEMMA BatchIsSound ==
    ASSUME IsProject(project), IsRequest(request), request.kind = "batch",
           NEW r \in edit_batch(request)
    PROVE  Sound(r)
<1> DEFINE ops == request.ops
<1>1. ops \in Seq(Operations) /\ Len(ops) \in Nat /\ DOMAIN ops = 1..Len(ops)
  BY DEF IsRequest
<1>2. CASE r = Refusal
  BY <1>2 DEF Refusal, Result, Sound
<1>3. CASE r \in edit_sdk_batch(ops) /\ PlanOf(ops).failed # 0
  <2>1. /\ r.project = project /\ r.ok = FALSE /\ r.changed = FALSE /\ r.applied = {}
        /\ r.failed = PlanOf(ops).failed /\ r.refused = PlanOf(ops).failed
    BY <1>3 DEF edit_sdk_batch
  <2>2. PlanOf(ops).failed \in Nat
    BY <1>1, PlanIsNumbered
  <2>3. QED
    BY <2>1, <2>2 DEF Sound
<1>4. CASE r \in edit_sdk_batch(ops) /\ PlanOf(ops).failed = 0
  <2>1. PICK run \in Executions(ops) : r = [run EXCEPT !.ok = run.failed = 0]
    BY <1>4 DEF edit_sdk_batch
  <2>2. RunOK(run, Len(ops))
    BY <1>1, ExecutionsAreOK
  <2>3. run.failed # 0 => run.failed = run.refused \/ MeetsAnAlias(ops, run.failed)
    BY <1>1, <1>4, PlanPredicts
  <2>4. /\ r.project = run.project /\ r.changed = run.changed /\ r.failed = run.failed
        /\ r.applied = run.applied /\ r.refused = run.refused /\ r.ok \in BOOLEAN
    BY <2>1, <2>2 DEF RunOK
  <2>5. r.applied = SaidApplied(request, r.failed)
    BY <1>1, <2>2, <2>4 DEF RunOK, SaidApplied
  <2>6. r.failed \in Nat /\ r.refused \in Nat
    BY <1>1, <2>2, <2>4 DEF RunOK
  <2>7. r.applied \in SUBSET Nat
    BY <1>1, <2>2, <2>4 DEF RunOK
  <2>8. QED
    BY <2>2, <2>3, <2>4, <2>5, <2>6, <2>7 DEF RunOK, Sound
<1>5. QED
  BY <1>2, <1>3, <1>4 DEF edit_batch

\* The other edits.
LEMMA MadeIsSound ==
    ASSUME IsProject(project), request.kind # "batch", NEW p, IsProject(p), NEW r \in Made(p),
           request.kind # "sceneCreate" => p.scene = project.scene
    PROVE  Sound(r)
<1>1. \E ok, changed \in BOOLEAN : r = Result(p, ok, changed) /\ (p # project => changed)
  BY DEF Made, NoOp
<1>2. /\ r.project = p /\ r.ok \in BOOLEAN /\ r.changed \in BOOLEAN
      /\ p # project => r.changed
      /\ r.failed = 0 /\ r.applied = {} /\ r.refused = 0
  BY <1>1 DEF Result
<1>3. QED
  BY <1>2 DEF Sound

LEMMA RefusalIsSound ==
    ASSUME IsProject(project), request.kind # "batch"
    PROVE  Sound(Refusal) /\ Sound(NoOp)
BY DEF Sound, Refusal, NoOp, Result

LEMMA LayerIsSound ==
    ASSUME IsProject(project), IsRequest(request), request.kind = "layer",
           NEW r \in edit_layer(request)
    PROVE  Sound(r)
<1> DEFINE c == request
           locked == IF c.lock THEN project.locked \cup {<<project.scene, c.layer>>}
                               ELSE project.locked \ {<<project.scene, c.layer>>}
           p == [project EXCEPT !.locked = locked]
<1>1. r = Refusal \/ r \in Made(p)
  BY DEF edit_layer, edit_sdk_layer
<1>2. locked \in SUBSET (Scenes \X Layers)
  BY DEF IsProject, IsRequest
<1> HIDE DEF locked
<1>3. IsProject(p) /\ p.scene = project.scene
  BY <1>2, LockKeeps
<1> HIDE DEF p
<1>4. QED
  BY <1>1, <1>3, MadeIsSound, RefusalIsSound

LEMMA EffectIsSound ==
    ASSUME IsProject(project), IsRequest(request), request.kind \in {"effect", "item"},
           NEW r \in edit_effect(request)
    PROVE  Sound(r)
<1>1. CASE r = Refusal
  BY <1>1, RefusalIsSound
<1>2. CASE r # Refusal
  <2>1. PICK h \in EffectTarget(request) : r \in Made(Relabelled(project, h, request.label))
    BY <1>2 DEF edit_effect, edit_sdk_effect, Relabelled
  <2>2. h \in DOMAIN project.objects
    BY DEF EffectTarget, Resolves, Found
  <2>3. request.label \in Labels
    BY DEF IsRequest
  <2>4. /\ IsProject(Relabelled(project, h, request.label))
        /\ Relabelled(project, h, request.label).scene = project.scene
    BY <2>2, <2>3, RelabelKeeps
  <2>5. QED
    BY <2>1, <2>4, MadeIsSound
<1>3. QED
  BY <1>1, <1>2

LEMMA SetupIsSound ==
    ASSUME IsProject(project), request.kind = "setup", NEW r \in create_setup
    PROVE  Sound(r)
<1>1. CASE r = Refusal
  BY <1>1, RefusalIsSound
<1>2. CASE r # Refusal
  <2>1. PICK place \in SetupPlaces, h \in Fresh(project) :
           r \in Made(Put(project, h, At(place, "setup")))
    BY <1>2 DEF create_setup
  <2>2. h \in Spare(project)
    BY FreshIsSpare
  <2>3. place \in Places /\ Free(project, place)
    BY DEF SetupPlaces
  <2>4. "setup" \in Labels
    BY OperationsAssumption DEF Given
  <2>5. At(place, "setup") \in Object /\ PlaceOf(At(place, "setup")) = place
    BY <2>3, <2>4, ObjectsAtPlaces
  <2>6. /\ IsProject(Put(project, h, At(place, "setup")))
        /\ Put(project, h, At(place, "setup")).scene = project.scene
    BY <2>2, <2>3, <2>5, PutKeeps
  <2>7. QED
    BY <1>2, <2>1, <2>6, MadeIsSound
<1>3. QED
  BY <1>1, <1>2

LEMMA SceneIsSound ==
    ASSUME IsProject(project), IsRequest(request), request.kind = "sceneCreate",
           NEW r \in create_scene(request)
    PROVE  Sound(r)
<1> DEFINE p == [project EXCEPT !.scenes = @ \cup {request.scene}, !.scene = request.scene]
<1>1. r = Refusal \/ r \in Made(p)
  BY DEF create_scene
<1>2. IsProject(p)
  BY NewSceneKeeps DEF IsRequest
<1> HIDE DEF p
<1>3. QED
  BY <1>1, <1>2, MadeIsSound, RefusalIsSound

LEMMA CursorIsSound ==
    ASSUME IsProject(project), IsRequest(request), request.kind = "cursor",
           NEW r \in edit_view(request)
    PROVE  Sound(r)
<1> DEFINE p == [project EXCEPT !.cursor[project.scene] = request.frame]
<1>1. r = Refusal \/ r \in Made(p)
  BY DEF edit_view, edit_sdk_view
<1>2. IsProject(p) /\ p.scene = project.scene
  BY CursorKeeps DEF IsRequest
<1> HIDE DEF p
<1>3. QED
  BY <1>1, <1>2, MadeIsSound, RefusalIsSound

LEMMA OpenIsSound ==
    ASSUME IsProject(project), IsRequest(request), request.kind = "open",
           NEW r \in open_scene(request)
    PROVE  Sound(r)
<1>1. CASE r = Refusal \/ r = NoOp
  BY <1>1, RefusalIsSound
<1>2. CASE \E s \in project.scenes, ok \in BOOLEAN :
             r = Result([project EXCEPT !.scene = s], ok, TRUE)
  <2>1. PICK s \in project.scenes, ok \in BOOLEAN :
           r = Result([project EXCEPT !.scene = s], ok, TRUE)
    BY <1>2
  <2> DEFINE p == [project EXCEPT !.scene = s]
  <2>2. IsProject(p)
    BY SceneKeeps
  <2> HIDE DEF p
  <2>3. /\ r.project = p /\ r.ok \in BOOLEAN /\ r.changed /\ r.changed \in BOOLEAN
        /\ r.failed = 0 /\ r.applied = {} /\ r.refused = 0
    BY <2>1 DEF Result, p
  <2>4. QED
    BY <2>2, <2>3 DEF Sound
<1>3. QED
  BY <1>1, <1>2 DEF open_scene, select_scene, open_scene_from_list, activate_scene_row

LEMMA ResultsAreSound ==
    ASSUME IsProject(project), IsRequest(request), IsEdit, NEW r \in EditResults(request)
    PROVE  Sound(r)
BY BatchIsSound, LayerIsSound, EffectIsSound, SetupIsSound, SceneIsSound, CursorIsSound,
   OpenIsSound DEF EditResults, IsEdit, EditKinds, ViewKinds

-----------------------------------------------------------------------------
(* The order of the steps *)

LEMMA KindsApart ==
    ASSUME IsRequest(request)
    PROVE  /\ IsEdit \/ IsSave \/ IsPsd
           /\ ~(IsEdit /\ IsSave) /\ ~(IsEdit /\ IsPsd) /\ ~(IsSave /\ IsPsd)
           /\ request # NoRequest
           /\ IsEdit <=> request.kind \in {"batch", "layer", "effect", "item", "setup",
                                           "sceneCreate", "cursor", "open"}
BY DEF IsRequest, Kinds, IsEdit, IsSave, IsPsd, EditKinds, ViewKinds, NoRequest

LEMMA TheIndex ==
    ASSUME NEW s, NEW k \in DOMAIN s, NEW x, s[k] = x, \A i \in DOMAIN s : s[i] = x => i = k
    PROVE  (CHOOSE i \in DOMAIN s : s[i] = x) = k
OBVIOUS

LEMMA NextStepIs ==
    ASSUME NEW s, s = Execute[request.kind], NEW k \in DOMAIN s, s[k] = pc,
           \A i \in DOMAIN s : s[i] = pc => i = k
    PROVE  NextStep = s[1 + k]
BY TheIndex DEF NextStep

LEMMA StepsOfEdits ==
    ASSUME IsEdit
    PROVE  /\ request.kind \in {"batch", "effect"} =>
                 Execute[request.kind] = <<"capture", "preflight", "commitPoint", "edit", "record">>
           /\ request.kind = "item" =>
                 Execute[request.kind] = <<"capture", "preflight", "commitPoint", "edit", "record",
                                           "verify">>
           /\ request.kind \in {"setup", "layer", "sceneCreate", "cursor"} =>
                 Execute[request.kind] = <<"preflight", "commitPoint", "edit", "record">>
           /\ request.kind = "open" =>
                 Execute[request.kind] = <<"commitPoint", "edit", "record">>
           /\ request.kind \in {"batch", "effect", "item", "setup", "layer", "sceneCreate",
                                "cursor", "open"}
BY DEF IsEdit, EditKinds, ViewKinds, Execute, batch_execute, effect_execute, psd_item_execute,
       psd_setup_execute, layer_execute, scene_create_execute, view_execute, open_scene_execute

LEMMA NextSteps ==
    ASSUME IsEdit, RightStage
    PROVE  /\ pc = "capture" => NextStep = "preflight"
           /\ pc = "preflight" => NextStep = "commitPoint"
           /\ pc = "commitPoint" => NextStep = "edit"
           /\ pc = "edit" => NextStep = "record"
           /\ pc = "record" /\ request.kind = "item" => NextStep = "verify"
<1> DEFINE s == Execute[request.kind]
<1>0. pc \in EditStages => /\ pc = "capture" => request.kind \in {"batch", "effect", "item"}
                           /\ pc = "preflight" => request.kind # "open"
                           /\ pc = "verify" => request.kind = "item"
  BY DEF RightStage, EditStages, IsEdit, IsSave, IsPsd, EditKinds, ViewKinds
<1>1. CASE request.kind \in {"batch", "effect"}
  <2>1. s = <<"capture", "preflight", "commitPoint", "edit", "record">>
    BY <1>1, StepsOfEdits
  <2> HIDE DEF s
  <2>2. s = Execute[request.kind]
    BY DEF s
  <2>3. pc = "capture" => NextStep = s[1 + 1]
    BY <2>1, <2>2, NextStepIs
  <2>4. pc = "preflight" => NextStep = s[1 + 2]
    BY <2>1, <2>2, NextStepIs
  <2>5. pc = "commitPoint" => NextStep = s[1 + 3]
    BY <2>1, <2>2, NextStepIs
  <2>6. pc = "edit" => NextStep = s[1 + 4]
    BY <2>1, <2>2, NextStepIs
  <2>7. QED
    BY <1>1, <2>1, <2>3, <2>4, <2>5, <2>6
<1>2. CASE request.kind = "item"
  <2>1. s = <<"capture", "preflight", "commitPoint", "edit", "record", "verify">>
    BY <1>2, StepsOfEdits
  <2> HIDE DEF s
  <2>2. s = Execute[request.kind]
    BY DEF s
  <2>3. pc = "capture" => NextStep = s[1 + 1]
    BY <2>1, <2>2, NextStepIs
  <2>4. pc = "preflight" => NextStep = s[1 + 2]
    BY <2>1, <2>2, NextStepIs
  <2>5. pc = "commitPoint" => NextStep = s[1 + 3]
    BY <2>1, <2>2, NextStepIs
  <2>6. pc = "edit" => NextStep = s[1 + 4]
    BY <2>1, <2>2, NextStepIs
  <2>7. pc = "record" => NextStep = s[1 + 5]
    BY <2>1, <2>2, NextStepIs
  <2>8. QED
    BY <1>2, <2>1, <2>3, <2>4, <2>5, <2>6, <2>7
<1>3. CASE request.kind \in {"setup", "layer", "sceneCreate", "cursor"}
  <2>1. s = <<"preflight", "commitPoint", "edit", "record">>
    BY <1>3, StepsOfEdits
  <2> HIDE DEF s
  <2>2. s = Execute[request.kind]
    BY DEF s
  <2>3. pc = "preflight" => NextStep = s[1 + 1]
    BY <2>1, <2>2, NextStepIs
  <2>4. pc = "commitPoint" => NextStep = s[1 + 2]
    BY <2>1, <2>2, NextStepIs
  <2>5. pc = "edit" => NextStep = s[1 + 3]
    BY <2>1, <2>2, NextStepIs
  <2>6. pc # "capture"
    BY <1>0, <1>3 DEF EditStages
  <2>7. QED
    BY <1>3, <2>1, <2>3, <2>4, <2>5, <2>6
<1>4. CASE request.kind = "open"
  <2>1. s = <<"commitPoint", "edit", "record">>
    BY <1>4, StepsOfEdits
  <2> HIDE DEF s
  <2>2. s = Execute[request.kind]
    BY DEF s
  <2>3. pc = "commitPoint" => NextStep = s[1 + 1]
    BY <2>1, <2>2, NextStepIs
  <2>4. pc = "edit" => NextStep = s[1 + 2]
    BY <2>1, <2>2, NextStepIs
  <2>5. pc # "capture" /\ pc # "preflight"
    BY <1>0, <1>4 DEF EditStages
  <2>6. QED
    BY <1>4, <2>1, <2>3, <2>4, <2>5
<1>5. QED
  BY <1>1, <1>2, <1>3, <1>4, StepsOfEdits

LEMMA FirstSteps ==
    ASSUME IsRequest(request)
    PROVE  /\ IsEdit => /\ FirstStep(request.kind) \in {"capture", "preflight", "commitPoint"}
                        /\ FirstStep(request.kind) = "capture" =>
                              request.kind \in {"batch", "effect", "item"}
                        /\ FirstStep(request.kind) = "preflight" => request.kind # "open"
           /\ IsSave => FirstStep(request.kind) = "commitPoint"
           /\ IsPsd => FirstStep(request.kind) = "survey"
<1>1. CASE IsEdit
  <2>1. FirstStep(request.kind) = Execute[request.kind][1]
    BY <1>1 DEF FirstStep, IsEdit, EditKinds, ViewKinds
  <2>2. QED
    BY <1>1, <2>1, StepsOfEdits, KindsApart
<1>2. CASE IsSave
  BY <1>2 DEF FirstStep, IsSave, IsEdit, IsPsd, EditKinds, ViewKinds
<1>3. CASE IsPsd
  BY <1>3 DEF FirstStep, IsSave, IsEdit, IsPsd, EditKinds, ViewKinds
<1>4. QED
  BY <1>1, <1>2, <1>3, KindsApart

-----------------------------------------------------------------------------
(* Updates of the answer, the locals and the ghost *)

LEMMA NoAnswerTyped == NoAnswer \in Answers /\ NoAnswer.outcome = "none" /\ ~NoAnswer.thrown
BY DEF NoAnswer, Answers

LEMMA Replies ==
    ASSUME NEW outcome \in Outcomes, Reply(outcome)
    PROVE  /\ pc' = "idle" /\ answer' \in Answers /\ answer'.outcome = outcome
           /\ answer'.outcome # "none" /\ ~answer'.thrown
BY DEF Reply, NoAnswer, Answers, Outcomes

LEMMA UnchangedReplies ==
    ASSUME ReplyUnchanged
    PROVE  /\ pc' = "idle" /\ answer' \in Answers /\ answer'.outcome = "unchanged"
           /\ answer'.outcome # "none" /\ ~answer'.thrown
BY Replies DEF ReplyUnchanged, Outcomes

LEMMA ThrownReplies ==
    ASSUME ReplyThrown
    PROVE  /\ pc' = "idle" /\ answer' \in Answers /\ answer'.outcome = "unchanged"
           /\ answer'.outcome # "none" /\ answer'.thrown
BY DEF ReplyThrown, NoAnswer, Answers, Outcomes

LEMMA Commits ==
    ASSUME done \in Deeds, content \in Nat, view \in Nat, NEW kinds, Commit(kinds)
    PROVE  /\ content' \in Nat /\ view' \in Nat /\ done' \in Deeds
           /\ done' = [done EXCEPT !.unrecorded = @ \ kinds]
           /\ done'.unrecorded = done.unrecorded \ kinds
BY DEF Commit, Deeds

\* Everything of the ghost but the revisions that are missing is as it was.
SameDeeds ==
    /\ done'.changed = done.changed /\ done'.applied = done.applied
    /\ done'.refused = done.refused /\ done'.saved = done.saved
    /\ done'.command = done.command /\ done'.loaded = done.loaded
    /\ done'.placed = done.placed /\ done'.away = done.away

LEMMA CommitsKeep ==
    ASSUME done \in Deeds, NEW kinds, Commit(kinds)
    PROVE  SameDeeds
BY DEF Commit, Deeds, SameDeeds

LEMMA ChangesAre ==
    ASSUME done \in Deeds, NEW p, Changes(p, {"content"})
    PROVE  /\ project' = p /\ done' \in Deeds
           /\ done'.unrecorded = done.unrecorded \cup {"content"}
           /\ done'.changed
           /\ done'.applied = done.applied /\ done'.refused = done.refused
           /\ done'.saved = done.saved /\ done'.command = done.command
           /\ done'.loaded = done.loaded /\ done'.placed = done.placed /\ done'.away = done.away
BY DEF Changes, Deeds

LEMMA NothingTyped ==
    /\ NoWork \in Works /\ NothingDone \in Deeds
    /\ ~NothingDone.changed /\ ~NothingDone.command /\ ~NothingDone.loaded
    /\ NothingDone.unrecorded = {} /\ NothingDone.saved = {}
BY DEF NoWork, Works, NothingDone, Deeds

-----------------------------------------------------------------------------
(* Type correctness *)

LEMMA InitTypeInv ==
    ASSUME Init
    PROVE  TypeInv
BY NoAnswerTyped, NothingTyped, OperationsAssumption
   DEF Init, HostInit, TypeInv, RightStage, NoRequest

\* What a request carries is what its command has.
LEMMA CommandsCarry ==
    ASSUME NEW c \in Commands, NEW q, q = Joined(c, [expected |-> ContentRevision,
                                                     expectedView |-> ViewRevision,
                                                     locators |-> generation])
    PROVE  IsRequest(q)
<1>1. c \in Requests
  BY OperationsAssumption
<1>2. \A f \in DOMAIN c : q[f] = c[f]
  BY DEF Joined
<1>3. CASE c \in [kind : {"batch"}, ops : Seq(Operations), dryRun : BOOLEAN]
  BY <1>2, <1>3 DEF IsRequest, Kinds, EditKinds
<1>4. CASE c \in [kind : {"layer"}, layer : Layers, lock : BOOLEAN, dryRun : BOOLEAN]
  BY <1>2, <1>4 DEF IsRequest, Kinds, EditKinds
<1>5. CASE c \in [kind : {"effect", "item"}, object : Object, label : Labels, dryRun : BOOLEAN]
  BY <1>2, <1>5 DEF IsRequest, Kinds, EditKinds
<1>6. CASE c \in [kind : {"setup"}, create : BOOLEAN, dryRun : BOOLEAN]
  BY <1>2, <1>6 DEF IsRequest, Kinds, EditKinds
<1>7. CASE c \in [kind : {"sceneCreate"}, scene : Scenes, dryRun : BOOLEAN]
  BY <1>2, <1>7 DEF IsRequest, Kinds, EditKinds
<1>8. CASE c \in [kind : {"cursor"}, frame : Frames, conditional : BOOLEAN]
  BY <1>2, <1>8 DEF IsRequest, Kinds, EditKinds, ViewKinds
<1>9. CASE c \in [kind : {"open"}, scene : Scenes, conditional : BOOLEAN]
  BY <1>2, <1>9 DEF IsRequest, Kinds, EditKinds, ViewKinds
<1>10. CASE c \in [kind : {"save"}]
  BY <1>2, <1>10 DEF IsRequest, Kinds
<1>11. CASE c \in [kind : {"psd"}, scene : Scenes, layer : Layers, frame : Frames,
                   name : PsdFiles \cup {"none"}, dryRun : BOOLEAN]
  BY <1>2, <1>11 DEF IsRequest, Kinds
<1>12. CASE c \in [kind : {"voice"}, scene : Scenes, layer : Layers, frame : Frames,
                   route : {"direct", "object"}, dryRun : BOOLEAN]
            /\ {c.layer + 1, c.layer + 2} \subseteq Layers
  BY <1>2, <1>12 DEF IsRequest, Kinds
<1>13. QED
  BY <1>1, <1>3, <1>4, <1>5, <1>6, <1>7, <1>8, <1>9, <1>10, <1>11, <1>12 DEF Requests

LEMMA ArriveTypeInv ==
    ASSUME TypeInv, NEW c \in Commands, Arrive(c)
    PROVE  TypeInv'
<1>1. IsRequest(request')
  BY CommandsCarry DEF Arrive
<1>2. pc' = "begin" /\ answer'.outcome = "none" /\ answer' \in Answers /\ work' \in Works
      /\ done' \in Deeds /\ sent' \in Nat
  BY NoAnswerTyped, NothingTyped DEF Arrive, Goto, TypeInv
<1>3. request' # NoRequest
  BY <1>1 DEF IsRequest, Kinds, EditKinds, ViewKinds, NoRequest
<1>4. RightStage'
  BY <1>2 DEF RightStage
<1>5. QED
  BY <1>1, <1>2, <1>3, <1>4 DEF Arrive, TypeInv

\* A step of the user or the main thread keeps what the worker is at.
SameWork ==
    /\ pc' = pc /\ request' = request /\ work' = work /\ answer' = answer /\ sent' = sent

LEMMA ByOthers ==
    ASSUME User \/ MainThread
    PROVE  SameWork
BY DEF User, MainThread, UserPlaces, UserDeletes, UserMovesCursor, UserOpensScene, UserLocks,
       UserSaves, LoadProject, Edits, userVars, RunSave, DropLands, DropIsLost, SameWork

LEMMA SameWorkTypeInv ==
    ASSUME TypeInv, SameWork, IsProject(project'), path' \in Paths, generation' \in Nat,
           content' \in Nat, view' \in Nat, saves' \in Nat, savePending' \in BOOLEAN,
           userEvents' \in Nat, drop' = NoDrop \/ drop' \in Drops, done' \in Deeds
    PROVE  TypeInv'
BY DEF TypeInv, SameWork, RightStage, IsEdit, IsSave, IsPsd, IsVoice

\* What the user may do to the project.
LEMMA UserPlacesAre ==
    ASSUME IsProject(project), NEW l \in Layers, NEW f \in Frames, NEW x \in UserLabels,
           UserPlaces(l, f, x)
    PROVE  IsProject(project')
<1> DEFINE place == [scene |-> project.scene, layer |-> l, frame |-> f]
<1>1. PICK h \in Fresh(project) : project' = Put(project, h, At(place, x))
  BY DEF UserPlaces, Edits
<1>2. place \in Places /\ x \in Labels
  BY OperationsAssumption DEF IsProject, Places
<1>3. Free(project, place)
  BY DEF UserPlaces
<1> HIDE DEF place
<1>4. At(place, x) \in Object /\ PlaceOf(At(place, x)) = place
  BY <1>2, ObjectsAtPlaces
<1>5. h \in Spare(project)
  BY FreshIsSpare
<1>6. QED
  BY <1>1, <1>3, <1>4, <1>5, PutKeeps

LEMMA UserEditsAre ==
    ASSUME TypeInv
    PROVE  /\ \A h : UserDeletes(h) => IsProject(project')
           /\ \A f \in Frames : UserMovesCursor(f) => IsProject(project')
           /\ \A s : UserOpensScene(s) => IsProject(project')
           /\ \A l \in Layers : UserLocks(l) => IsProject(project')
<1>0. IsProject(project)
  BY DEF TypeInv
<1>1. ASSUME NEW h, UserDeletes(h) PROVE IsProject(project')
  BY <1>0, <1>1, TakeKeeps DEF UserDeletes, Edits
<1>2. ASSUME NEW f \in Frames, UserMovesCursor(f) PROVE IsProject(project')
  BY <1>0, <1>2, CursorKeeps DEF UserMovesCursor, Edits
<1>3. ASSUME NEW s, UserOpensScene(s) PROVE IsProject(project')
  BY <1>0, <1>3, SceneKeeps DEF UserOpensScene, Edits
<1>4. ASSUME NEW l \in Layers, UserLocks(l) PROVE IsProject(project')
  <2> DEFINE locked == project.locked \cup {<<project.scene, l>>}
  <2>1. project' = [project EXCEPT !.locked = locked]
    BY <1>4 DEF UserLocks, Edits
  <2>2. locked \in SUBSET (Scenes \X Layers)
    BY <1>0 DEF IsProject
  <2> HIDE DEF locked
  <2>3. QED
    BY <1>0, <2>1, <2>2, LockKeeps
<1>5. QED
  BY <1>1, <1>2, <1>3, <1>4

LEMMA UserTypeInv ==
    ASSUME TypeInv, User
    PROVE  TypeInv'
<1>0. SameWork
  BY ByOthers
<1>a. savePending' = savePending /\ drop' = drop /\ userEvents' \in Nat
  <2>1. UserDoes /\ savePending' = savePending /\ drop' = drop
    BY DEF User, UserPlaces, UserDeletes, UserMovesCursor, UserOpensScene, UserLocks, UserSaves,
           LoadProject, Edits, userVars
  <2>2. QED
    BY <2>1 DEF UserDoes, TypeInv
<1>1. ASSUME NEW l \in Layers, NEW f \in Frames, NEW x \in UserLabels, UserPlaces(l, f, x)
      PROVE  TypeInv'
  <2>1. IsProject(project')
    BY <1>1, UserPlacesAre DEF TypeInv
  <2>2. done' \in Deeds
    BY <1>1 DEF UserPlaces, TypeInv, Deeds
  <2>3. UNCHANGED <<path, generation, content, view, saves>>
    BY <1>1 DEF UserPlaces, Edits, userVars
  <2>4. QED
    BY <1>0, <1>a, <2>1, <2>2, <2>3, SameWorkTypeInv DEF TypeInv
<1>2. ASSUME NEW h \in Handles, UserDeletes(h)
      PROVE  TypeInv'
  BY <1>0, <1>a, <1>2, UserEditsAre, SameWorkTypeInv DEF UserDeletes, Edits, userVars, TypeInv
<1>3. ASSUME NEW f \in Frames, UserMovesCursor(f)
      PROVE  TypeInv'
  BY <1>0, <1>a, <1>3, UserEditsAre, SameWorkTypeInv DEF UserMovesCursor, Edits, userVars, TypeInv
<1>4. ASSUME NEW s \in Scenes, UserOpensScene(s)
      PROVE  TypeInv'
  <2>1. done' \in Deeds
    BY <1>4 DEF UserOpensScene, TypeInv, Deeds
  <2>2. QED
    BY <1>0, <1>a, <1>4, <2>1, UserEditsAre, SameWorkTypeInv
       DEF UserOpensScene, Edits, userVars, TypeInv
<1>5. ASSUME NEW l \in Layers, UserLocks(l)
      PROVE  TypeInv'
  BY <1>0, <1>a, <1>5, UserEditsAre, SameWorkTypeInv DEF UserLocks, Edits, userVars, TypeInv
<1>6. ASSUME UserSaves
      PROVE  TypeInv'
  <2>1. done' \in Deeds
    BY <1>6 DEF UserSaves, CaptureSaved, TypeInv, Deeds
  <2>2. QED
    BY <1>0, <1>a, <1>6, <2>1, SameWorkTypeInv DEF UserSaves, CaptureSaved, userVars, TypeInv
<1>7. ASSUME NEW file \in Paths, LoadProject(file)
      PROVE  TypeInv'
  <2>1. done' \in Deeds
    BY <1>7 DEF LoadProject, TypeInv, Deeds
  <2>2. QED
    BY <1>0, <1>a, <1>7, <2>1, SameWorkTypeInv, OperationsAssumption DEF LoadProject, TypeInv
<1>8. QED
  BY <1>1, <1>2, <1>3, <1>4, <1>5, <1>6, <1>7 DEF User

-----------------------------------------------------------------------------
(* A drop *)

\* What GCMZDrops puts where, if a place is free for every file.
LEMMA LandedAre ==
    ASSUME TypeInv, DropLands
    PROVE  /\ IsProject(project') /\ project'.scene = project.scene
           /\ \A h \in DOMAIN project.objects :
                 h \in DOMAIN project'.objects /\ project'.objects[h] = project.objects[h]
           /\ \A h \in DOMAIN project'.objects \ DOMAIN project.objects :
                 \E i \in DOMAIN drop.labels : project'.objects[h].label = drop.labels[i]
<1> DEFINE PlaceFor(i) == [scene |-> project.scene, layer |-> drop.layer + i - 1,
                           frame |-> project.cursor[project.scene]]
           parts == DOMAIN drop.labels
           handles == Injection(parts, Spare(project))
           taken == CHOOSE hs \in handles : TRUE
           dropped == [h \in Range(taken) |-> LET i == CHOOSE j \in parts : taken[j] = h
                                              IN At(PlaceFor(i), drop.labels[i])]
           objects == Joined(project.objects, dropped)
<1>1. /\ drop # NoDrop /\ handles # {}
      /\ \A i \in parts : PlaceFor(i) \in Places /\ Free(project, PlaceFor(i))
      /\ project' = [project EXCEPT !.objects = objects]
  BY DEF DropLands
<1>2. drop \in Drops
  BY <1>1 DEF TypeInv
<1>3. /\ parts \in {{1}, {1, 2}}
      /\ \A i \in parts : drop.labels[i] \in Labels
  <2>1. CASE drop.labels = <<"psd">>
    BY <2>1, OperationsAssumption DEF Given
  <2>2. CASE drop.labels = <<"audio", "voice">>
    BY <2>2, OperationsAssumption DEF Given, VoiceLabels
  <2>3. QED
    BY <1>2, <2>1, <2>2 DEF Drops
<1>4. taken \in Injection(parts, Spare(project))
  BY <1>1
<1>5. /\ DOMAIN taken = parts /\ \A i \in parts : taken[i] \in Spare(project)
      /\ \A i, j \in parts : taken[i] = taken[j] => i = j
  BY <1>4 DEF Injection, IsInjective
<1> HIDE DEF taken, handles
<1>6. \A i, j \in parts : i # j => PlaceFor(i) # PlaceFor(j)
  <2>1. drop.layer \in Int
    BY <1>2, OperationsAssumption DEF Drops
  <2>2. QED
    BY <1>3, <2>1
<1>7. ASSUME NEW h \in DOMAIN dropped
      PROVE  \E i \in parts : taken[i] = h /\ dropped[h] = At(PlaceFor(i), drop.labels[i])
  <2>1. h \in Range(taken)
    OBVIOUS
  <2>2. PICK k \in parts : taken[k] = h
    BY <1>5, <2>1 DEF Range
  <2> DEFINE i == CHOOSE j \in parts : taken[j] = h
  <2>3. i \in parts /\ taken[i] = h
    BY <2>2
  <2>4. dropped[h] = At(PlaceFor(i), drop.labels[i])
    BY <2>1
  <2> HIDE DEF i
  <2>5. QED
    BY <2>3, <2>4
<1> HIDE DEF PlaceFor, dropped
<1>8. ASSUME NEW h \in DOMAIN dropped
      PROVE  /\ h \in Handles \ DOMAIN project.objects /\ dropped[h] \in Object
             /\ Free(project, PlaceOf(dropped[h]))
             /\ \E i \in parts : taken[i] = h /\ PlaceOf(dropped[h]) = PlaceFor(i)
                                 /\ dropped[h].label = drop.labels[i]
  <2>1. PICK i \in parts : taken[i] = h /\ dropped[h] = At(PlaceFor(i), drop.labels[i])
    BY <1>7
  <2>2. PlaceFor(i) \in Places /\ drop.labels[i] \in Labels /\ Free(project, PlaceFor(i))
    BY <1>1, <1>3
  <2>3. dropped[h] \in Object /\ PlaceOf(dropped[h]) = PlaceFor(i)
    BY <2>1, <2>2, ObjectsAtPlaces
  <2>4. dropped[h].label = drop.labels[i]
    BY <2>1 DEF At
  <2>5. h \in Handles \ DOMAIN project.objects
    BY <1>5, <2>1 DEF Spare
  <2>6. QED
    BY <2>1, <2>2, <2>3, <2>4, <2>5
<1>9. /\ DOMAIN objects = DOMAIN project.objects \cup DOMAIN dropped
      /\ \A h \in DOMAIN project.objects : objects[h] = project.objects[h]
      /\ \A h \in DOMAIN dropped : objects[h] = dropped[h]
  BY <1>8 DEF Joined
<1> HIDE DEF objects
<1>10. ASSUME NEW g \in DOMAIN dropped, NEW h \in DOMAIN dropped, g # h
       PROVE  PlaceOf(dropped[g]) # PlaceOf(dropped[h])
  BY <1>6, <1>8, <1>10
<1>11. IsProject(project)
  BY DEF TypeInv
<1>12. /\ DOMAIN objects \subseteq Handles
       /\ \A h \in DOMAIN objects : objects[h] \in Object
  BY <1>8, <1>9, <1>11 DEF IsProject
<1>13. ASSUME NEW g \in DOMAIN objects, NEW h \in DOMAIN objects, g # h
       PROVE  PlaceOf(objects[g]) # PlaceOf(objects[h])
  <2>1. CASE g \in DOMAIN project.objects /\ h \in DOMAIN project.objects
    BY <1>9, <1>11, <1>13, <2>1 DEF IsProject
  <2>2. CASE g \in DOMAIN project.objects /\ h \in DOMAIN dropped
    BY <1>8, <1>9, <2>2 DEF Free
  <2>3. CASE g \in DOMAIN dropped /\ h \in DOMAIN project.objects
    BY <1>8, <1>9, <2>3 DEF Free
  <2>4. CASE g \in DOMAIN dropped /\ h \in DOMAIN dropped
    BY <1>9, <1>10, <1>13, <2>4
  <2>5. QED
    BY <1>9, <2>1, <2>2, <2>3, <2>4
<1>14. IsProject(project') /\ project'.scene = project.scene /\ project'.objects = objects
  BY <1>1, <1>11, <1>12, <1>13, WithObjects
<1>15. QED
  BY <1>8, <1>9, <1>14

LEMMA MainThreadTypeInv ==
    ASSUME TypeInv, MainThread
    PROVE  TypeInv'
<1>0. SameWork
  BY ByOthers
<1>1. CASE RunSave
  <2>1. done' \in Deeds /\ saves' \in Nat
    BY <1>1 DEF RunSave, CaptureSaved, TypeInv, Deeds
  <2>2. QED
    BY <1>0, <1>1, <2>1, SameWorkTypeInv DEF RunSave, TypeInv
<1>2. CASE DropLands
  <2>1. done' \in Deeds
    BY <1>2 DEF DropLands, TypeInv, Deeds
  <2>2. QED
    BY <1>0, <1>2, <2>1, LandedAre, SameWorkTypeInv DEF DropLands, TypeInv
<1>3. CASE DropIsLost
  BY <1>0, <1>3, SameWorkTypeInv DEF DropIsLost, TypeInv
<1>4. QED
  BY <1>1, <1>2, <1>3 DEF MainThread

-----------------------------------------------------------------------------
(* The worker *)

\* What no step of the worker touches.
SameRequest == request' = request /\ sent' = sent /\ userEvents' = userEvents
               /\ generation' = generation /\ path' = path /\ saves' = saves

LEMMA ByWorker ==
    ASSUME Worker
    PROVE  SameRequest
BY DEF Worker, Begin, EditSteps, CaptureGeneration, Preflight, CommitPoint, Edit, Record,
       VerifyItem, SaveSteps, SaveStatus, CaptureSequence, dispatch_project_save_command,
       SaveConfirmed, SaveTimesOut, PsdSteps, Survey, Occupied, Probe, PositionCursor,
       CheckPosition, send_files, PollFinds, PollGivesUp, Rename, Renamed, SetCharacter, Failed,
       VerifyCharacter, CreateSubtitle, PollSubtitle, workerVars, saveVars, psdVars, SameRequest

\* A step of the worker ends the request with an answer, or goes on to a step that the request
\* may come to.
Ends == pc' = "idle" /\ answer' \in Answers /\ answer'.outcome # "none"

LEMMA WorkerTypeInv ==
    ASSUME TypeInv, SameRequest, pc # "idle",
           Ends \/ (pc' # "idle" /\ answer' = answer /\ RightStage'),
           IsProject(project'), content' \in Nat, view' \in Nat, savePending' \in BOOLEAN,
           drop' = NoDrop \/ drop' \in Drops, work' \in Works, done' \in Deeds
    PROVE  TypeInv'
<1>1. request # NoRequest /\ IsRequest(request)
  BY KindsApart DEF TypeInv
<1>2. CASE Ends
  <2>1. RightStage'
    BY <1>2 DEF Ends, RightStage
  <2>2. QED
    BY <1>1, <1>2, <2>1 DEF Ends, TypeInv, SameRequest
<1>3. CASE pc' # "idle" /\ answer' = answer /\ RightStage'
  BY <1>1, <1>3 DEF TypeInv, SameRequest
<1>4. QED
  BY <1>2, <1>3

\* The stages of a request of one kind.
LEMMA EditStage ==
    ASSUME RightStage, IsEdit, pc \notin {"idle", "begin"}
    PROVE  /\ pc \in EditStages
           /\ pc = "capture" => request.kind \in {"batch", "effect", "item"}
           /\ pc = "preflight" => request.kind # "open"
           /\ pc = "verify" => request.kind = "item"
BY DEF RightStage, IsEdit, IsSave, IsPsd, EditKinds, ViewKinds

LEMMA PsdStage ==
    ASSUME RightStage, IsPsd, pc \notin {"idle", "begin"}
    PROVE  /\ pc \in PsdStages
           /\ pc \in {"rename", "renamed"} => ~IsVoice /\ request.name # "none"
           /\ pc \in VoiceStages => IsVoice
BY DEF RightStage, IsEdit, IsSave, IsPsd, EditKinds, ViewKinds

LEMMA ToEditStage ==
    ASSUME IsEdit, SameRequest, pc' \in EditStages,
           pc' = "capture" => request.kind \in {"batch", "effect", "item"},
           pc' = "preflight" => request.kind # "open",
           pc' = "verify" => request.kind = "item"
    PROVE  RightStage' /\ pc' # "idle"
BY DEF RightStage, IsEdit, SameRequest, EditStages

LEMMA ToSaveStage ==
    ASSUME IsSave, SameRequest, pc' \in SaveStages
    PROVE  RightStage' /\ pc' # "idle"
BY DEF RightStage, IsSave, SameRequest, SaveStages

LEMMA ToPsdStage ==
    ASSUME IsPsd, SameRequest, pc' \in PsdStages,
           pc' \in {"rename", "renamed"} => ~IsVoice /\ request.name # "none",
           pc' \in VoiceStages => IsVoice
    PROVE  RightStage' /\ pc' # "idle"
BY DEF RightStage, IsPsd, IsVoice, SameRequest, PsdStages, PlacingStages, LateStages, VoiceStages

LEMMA BeginTypeInv ==
    ASSUME TypeInv, Begin
    PROVE  TypeInv'
<1>0. SameRequest /\ pc = "begin" /\ IsRequest(request)
  BY ByWorker DEF Worker, Begin, TypeInv
<1>1. Ends \/ (pc' # "idle" /\ answer' = answer /\ RightStage')
  <2>1. CASE ~RevisionMatches
    BY <2>1, UnchangedReplies DEF Begin, Ends
  <2>2. CASE RevisionMatches
    <3>1. pc' = FirstStep(request.kind) /\ answer' = answer
      BY <2>2 DEF Begin, Goto
    <3>2. CASE IsEdit
      BY <1>0, <3>1, <3>2, FirstSteps, ToEditStage DEF EditStages
    <3>3. CASE IsSave
      BY <1>0, <3>1, <3>3, FirstSteps, ToSaveStage DEF SaveStages
    <3>4. CASE IsPsd
      BY <1>0, <3>1, <3>4, FirstSteps, ToPsdStage DEF PsdStages, VoiceStages
    <3>5. QED
      BY <1>0, <3>2, <3>3, <3>4, KindsApart
  <2>3. QED
    BY <2>1, <2>2
<1>2. QED
  BY <1>0, <1>1, WorkerTypeInv DEF Begin, workerVars, TypeInv

\* A result of an edit in the locals and the ghost.
LEMMA EditIs ==
    ASSUME TypeInv, IsEdit, pc = "edit", Edit
    PROVE  \E r : /\ r \in EditResults(request) /\ Sound(r) /\ project' = r.project
                  /\ work' \in Works /\ work'.ok = r.ok /\ work'.changed = r.changed
                  /\ work'.failed = r.failed
                  /\ done' \in Deeds /\ done'.applied = r.applied /\ done'.refused = r.refused
                  /\ done'.changed =
                        (r.project # project /\ "content" \in RevisionsOf(request.kind))
                  /\ done'.unrecorded = IF r.project = project THEN {}
                                        ELSE RevisionsOf(request.kind)
                  /\ done'.saved = done.saved /\ done'.command = done.command
                  /\ done'.loaded = done.loaded /\ done'.placed = done.placed
                  /\ done'.away = done.away
<1>1. PICK r \in EditResults(request) :
         /\ project' = r.project
         /\ work' = [work EXCEPT !.ok = r.ok, !.changed = r.changed, !.failed = r.failed]
         /\ done' = [done EXCEPT
                        !.changed = r.project # project /\ "content" \in RevisionsOf(request.kind),
                        !.unrecorded = IF r.project = project THEN {}
                                       ELSE RevisionsOf(request.kind),
                        !.applied = r.applied, !.refused = r.refused]
  BY DEF Edit
<1>2. Sound(r)
  BY ResultsAreSound DEF TypeInv
<1> DEFINE changed == r.project # project /\ "content" \in RevisionsOf(request.kind)
           unrecorded == IF r.project = project THEN {} ELSE RevisionsOf(request.kind)
<1>3. changed \in BOOLEAN /\ unrecorded \in SUBSET {"content", "view"}
  BY DEF RevisionsOf
<1> HIDE DEF changed, unrecorded
<1>4. /\ work' \in Works /\ work'.ok = r.ok /\ work'.changed = r.changed /\ work'.failed = r.failed
  BY <1>1, <1>2 DEF TypeInv, Works, Sound
<1>5. done' = [done EXCEPT !.changed = changed, !.unrecorded = unrecorded,
                           !.applied = r.applied, !.refused = r.refused]
  BY <1>1 DEF changed, unrecorded
<1>6. /\ done' \in Deeds /\ done'.applied = r.applied /\ done'.refused = r.refused
      /\ done'.changed = changed /\ done'.unrecorded = unrecorded
      /\ done'.saved = done.saved /\ done'.command = done.command
      /\ done'.loaded = done.loaded /\ done'.placed = done.placed /\ done'.away = done.away
  BY <1>2, <1>3, <1>5 DEF TypeInv, Deeds, Sound
<1>7. QED
  BY <1>1, <1>2, <1>4, <1>6 DEF changed, unrecorded

LEMMA SaidIsNumbers ==
    ASSUME IsRequest(request), request.kind = "batch", work \in Works
    PROVE  SaidApplied(request, work.failed) \in SUBSET Nat
<1>1. DOMAIN request.ops = 1..Len(request.ops) /\ Len(request.ops) \in Nat
  BY DEF IsRequest
<1>2. work.failed \in Nat
  BY DEF Works
<1>3. QED
  BY <1>1, <1>2 DEF SaidApplied

LEMMA BatchReplies ==
    ASSUME TypeInv, IsRequest(request), request.kind = "batch",
           NEW outcome \in {"success", "partial"}, ReplyBatch(outcome)
    PROVE  /\ Ends
           /\ \/ answer'.outcome = "unchanged" /\ answer'.thrown
              \/ /\ answer'.outcome = outcome /\ ~answer'.thrown
                 /\ answer'.applied = SaidApplied(request, work.failed)
<1>1. CASE ReplyThrown
  BY <1>1, ThrownReplies DEF Ends
<1>2. CASE /\ pc' = "idle"
           /\ answer' = [NoAnswer EXCEPT !.outcome = outcome,
                                         !.applied = SaidApplied(request, work.failed)]
  <2> DEFINE said == SaidApplied(request, work.failed)
  <2>1. said \in SUBSET Nat
    BY SaidIsNumbers DEF TypeInv
  <2> HIDE DEF said
  <2>2. answer' = [NoAnswer EXCEPT !.outcome = outcome, !.applied = said]
    BY <1>2 DEF said
  <2>3. /\ answer' \in Answers /\ answer'.outcome = outcome /\ ~answer'.thrown
        /\ answer'.applied = said
    BY <2>1, <2>2 DEF NoAnswer, Answers, Outcomes
  <2>4. QED
    BY <1>2, <2>3 DEF Ends, said
<1>3. QED
  BY <1>1, <1>2 DEF ReplyBatch

LEMMA EditStepsTypeInv ==
    ASSUME TypeInv, EditSteps
    PROVE  TypeInv'
<1>0. /\ SameRequest /\ IsEdit
      /\ pc \in {"capture", "preflight", "commitPoint", "edit", "record", "verify"}
      /\ pc \notin {"idle", "begin"} /\ RightStage /\ IsRequest(request)
  BY ByWorker DEF Worker, EditSteps, CaptureGeneration, Preflight, CommitPoint, Edit, Record,
                  VerifyItem, TypeInv
<1>a. pc \in EditStages
  BY <1>0, EditStage
<1>1. CASE CaptureGeneration
  <2>1. pc = "capture" /\ pc' = "preflight" /\ request.kind # "open"
    BY <1>0, <1>1, NextSteps, EditStage DEF CaptureGeneration, Goto
  <2>2. RightStage'
    BY <1>0, <2>1, ToEditStage DEF EditStages
  <2>3. work' \in Works
    BY <1>1 DEF CaptureGeneration, TypeInv, Works
  <2>4. QED
    BY <1>0, <1>1, <2>1, <2>2, <2>3, WorkerTypeInv DEF CaptureGeneration, workerVars, TypeInv
<1>2. CASE Preflight
  <2>1. Ends \/ (pc' = "commitPoint" /\ answer' = answer)
    BY <1>0, <1>2, NextSteps, Replies, UnchangedReplies
       DEF Preflight, Goto, SdkRefuses, Ends, Outcomes
  <2>2. pc' = "commitPoint" => RightStage'
    BY <1>0, ToEditStage DEF EditStages
  <2>3. QED
    BY <1>0, <1>2, <2>1, <2>2, WorkerTypeInv DEF Preflight, workerVars, TypeInv
<1>3. CASE CommitPoint(NextStep)
  <2>1. Ends \/ (pc' = "edit" /\ answer' = answer)
    BY <1>0, <1>3, NextSteps, UnchangedReplies DEF CommitPoint, Goto, Ends
  <2>2. pc' = "edit" => RightStage'
    BY <1>0, ToEditStage DEF EditStages
  <2>3. QED
    BY <1>0, <1>3, <2>1, <2>2, WorkerTypeInv DEF CommitPoint, workerVars, TypeInv
<1>4. CASE Edit
  <2>1. pc = "edit" /\ pc' = "record" /\ answer' = answer
    BY <1>0, <1>4, NextSteps DEF Edit, Goto
  <2>2. RightStage'
    BY <1>0, <2>1, ToEditStage DEF EditStages
  <2>3. IsProject(project') /\ work' \in Works /\ done' \in Deeds
    BY <1>0, <1>4, <2>1, EditIs DEF Sound
  <2>4. QED
    BY <1>0, <1>4, <2>1, <2>2, <2>3, WorkerTypeInv DEF Edit, workerVars, TypeInv
<1>5. CASE Record
  <2>1. Ends \/ (pc' = "verify" /\ request.kind = "item" /\ answer' = answer)
    BY <1>0, <1>5, NextSteps, Replies, UnchangedReplies, BatchReplies
       DEF Record, ReplyEdited, Goto, Ends, Outcomes
  <2>2. pc' = "verify" => RightStage' \/ Ends
    BY <1>0, <2>1, ToEditStage DEF EditStages
  <2>3. content' \in Nat /\ view' \in Nat /\ done' \in Deeds
    BY <1>5, Commits DEF Record, TypeInv
  <2>4. QED
    BY <1>0, <1>5, <2>1, <2>2, <2>3, WorkerTypeInv DEF Record, workerVars, TypeInv
<1>6. CASE VerifyItem
  <2>1. Ends
    BY <1>6, Replies DEF VerifyItem, Ends, Outcomes
  <2>2. QED
    BY <1>0, <1>6, <2>1, WorkerTypeInv DEF VerifyItem, workerVars, TypeInv
<1>7. QED
  BY <1>1, <1>2, <1>3, <1>4, <1>5, <1>6 DEF EditSteps

LEMMA SaveStepsTypeInv ==
    ASSUME TypeInv, SaveSteps
    PROVE  TypeInv'
<1>0. SameRequest /\ IsSave /\ pc \notin {"idle", "begin"} /\ RightStage
  BY ByWorker DEF Worker, SaveSteps, CommitPoint, SaveStatus, CaptureSequence,
                  dispatch_project_save_command, SaveConfirmed, SaveTimesOut, TypeInv
<1>1. CASE CommitPoint("status")
  <2>1. Ends \/ (pc' = "status" /\ answer' = answer)
    BY <1>1, UnchangedReplies DEF CommitPoint, Goto, Ends
  <2>2. pc' = "status" => RightStage'
    BY <1>0, ToSaveStage DEF SaveStages
  <2>3. QED
    BY <1>0, <1>1, <2>1, <2>2, WorkerTypeInv DEF CommitPoint, workerVars, TypeInv
<1>2. CASE SaveStatus
  <2>1. Ends \/ (pc' = "sequence" /\ answer' = answer)
    BY <1>2, UnchangedReplies DEF SaveStatus, SdkRefuses, Goto, Ends
  <2>2. pc' = "sequence" => RightStage'
    BY <1>0, ToSaveStage DEF SaveStages
  <2>3. QED
    BY <1>0, <1>2, <2>1, <2>2, WorkerTypeInv DEF SaveStatus, saveVars, TypeInv
<1>3. CASE CaptureSequence
  <2>1. pc' = "command" /\ RightStage'
    BY <1>0, <1>3, ToSaveStage DEF CaptureSequence, Goto, SaveStages
  <2>2. work' \in Works
    BY <1>3 DEF CaptureSequence, TypeInv, Works
  <2>3. QED
    BY <1>0, <1>3, <2>1, <2>2, WorkerTypeInv DEF CaptureSequence, saveVars, TypeInv
<1>4. CASE dispatch_project_save_command
  <2>1. Ends \/ (pc' = "wait" /\ answer' = answer)
    BY <1>4, UnchangedReplies, Replies DEF dispatch_project_save_command, Goto, Ends, Outcomes
  <2>2. pc' = "wait" => RightStage'
    BY <1>0, ToSaveStage DEF SaveStages
  <2>3. savePending' \in BOOLEAN /\ done' \in Deeds
    BY <1>4 DEF dispatch_project_save_command, TypeInv, Deeds
  <2>4. QED
    BY <1>0, <1>4, <2>1, <2>2, <2>3, WorkerTypeInv
       DEF dispatch_project_save_command, saveVars, TypeInv
<1>5. CASE SaveConfirmed
  <2>1. Ends
    BY <1>5 DEF SaveConfirmed, Ends, NoAnswer, Answers, Outcomes, TypeInv
  <2>2. QED
    BY <1>0, <1>5, <2>1, WorkerTypeInv DEF SaveConfirmed, saveVars, TypeInv
<1>6. CASE SaveTimesOut
  <2>1. Ends
    BY <1>6, Replies DEF SaveTimesOut, Ends, Outcomes
  <2>2. QED
    BY <1>0, <1>6, <2>1, WorkerTypeInv DEF SaveTimesOut, saveVars, TypeInv
<1>7. QED
  BY <1>1, <1>2, <1>3, <1>4, <1>5, <1>6 DEF SaveSteps

\* Seen again, an object is one of the project; it gets another label.
LEMMA RelabelIs ==
    ASSUME TypeInv, NEW label \in Labels, Relabel(label)
    PROVE  /\ IsProject(project') /\ project'.scene = project.scene
           /\ done' \in Deeds /\ Changes(project', {"content"})
           /\ DOMAIN project'.objects = DOMAIN project.objects
           /\ \A h \in DOMAIN project.objects :
                 PlaceOf(project'.objects[h]) = PlaceOf(project.objects[h])
<1>0. IsProject(project) /\ done \in Deeds
  BY DEF TypeInv
<1>1. PICK h \in SeenAgain : Changes(Relabelled(project, h, label), {"content"})
  BY DEF Relabel, Relabelled
<1>2. h \in DOMAIN project.objects
  BY DEF SeenAgain, Resolves, Found
<1>3. project' = Relabelled(project, h, label) /\ done' \in Deeds
  BY <1>0, <1>1, ChangesAre
<1>4. /\ IsProject(project') /\ project'.scene = project.scene
      /\ DOMAIN project'.objects = DOMAIN project.objects
      /\ PlaceOf(project'.objects[h]) = PlaceOf(project.objects[h])
      /\ \A g \in DOMAIN project.objects \ {h} : project'.objects[g] = project.objects[g]
  BY <1>0, <1>2, <1>3, RelabelKeeps
<1>5. QED
  BY <1>1, <1>3, <1>4

LEMMA CursorIs ==
    ASSUME TypeInv, IsPsd, IsRequest(request),
           project' = [project EXCEPT !.cursor[project.scene] = request.frame]
    PROVE  IsProject(project') /\ project'.scene = project.scene
           /\ project'.objects = project.objects
BY CursorKeeps DEF TypeInv, IsRequest, IsPsd

LEMMA SubtitleIs ==
    ASSUME TypeInv, IsVoice, IsRequest(request), Free(project, Place(2)),
           NEW h \in Fresh(project),
           Changes(Put(project, h, At(Place(2), "subtitle")), {"content"})
    PROVE  IsProject(project') /\ done' \in Deeds
<1>0. IsProject(project) /\ done \in Deeds
  BY DEF TypeInv
<1>1. Place(2) \in Places /\ "subtitle" \in Labels
  BY OperationsAssumption DEF Place, Places, IsRequest, IsVoice, Given
<1>2. At(Place(2), "subtitle") \in Object /\ PlaceOf(At(Place(2), "subtitle")) = Place(2)
  BY <1>1, ObjectsAtPlaces
<1>3. h \in Spare(project)
  BY FreshIsSpare
<1>4. project' = Put(project, h, At(Place(2), "subtitle")) /\ done' \in Deeds
  BY <1>0, ChangesAre
<1>5. QED
  BY <1>0, <1>2, <1>3, <1>4, PutKeeps

LEMMA FailsPartially ==
    ASSUME TypeInv, FailPartially
    PROVE  /\ Ends /\ answer'.outcome = "partial" /\ ~answer'.thrown
           /\ content' \in Nat /\ view' \in Nat /\ done' \in Deeds /\ SameDeeds
           /\ done'.unrecorded = done.unrecorded \ {"content"}
BY Replies, Commits, CommitsKeep DEF FailPartially, Ends, Outcomes, TypeInv

LEMMA EarlyPsdTypeInv ==
    ASSUME TypeInv, IsPsd, SameRequest,
           Survey \/ Occupied \/ Probe \/ CommitPoint("position") \/ PositionCursor
               \/ CheckPosition \/ send_files
    PROVE  TypeInv'
<1>0. pc # "idle" /\ IsRequest(request)
  BY DEF TypeInv, Survey, Occupied, Probe, CommitPoint, PositionCursor, CheckPosition, send_files
<1>1. ASSUME ReplyUnchanged
      PROVE  Ends
  BY <1>1, UnchangedReplies DEF Ends
<1>2. ASSUME NEW step \in {"occupied", "probe", "commitPoint", "position", "positioned", "send",
                            "poll"}, Proceed(step)
      PROVE  pc' # "idle" /\ answer' = answer /\ RightStage'
  BY <1>2, ToPsdStage DEF Proceed, Goto, PsdStages, PlacingStages, LateStages, VoiceStages
<1>3. CASE Survey
  <2>1. Ends \/ (pc' # "idle" /\ answer' = answer /\ RightStage')
    BY <1>1, <1>2, <1>3 DEF Survey, Refuse
  <2>2. work' \in Works
    BY <1>3 DEF Survey, Refuse, TypeInv, Works
  <2>3. QED
    BY <1>0, <1>3, <2>1, <2>2, WorkerTypeInv DEF Survey, Refuse, KeepProject, psdVars, TypeInv
<1>4. CASE Occupied
  <2>1. Ends \/ (pc' # "idle" /\ answer' = answer /\ RightStage')
    BY <1>1, <1>2, <1>4 DEF Occupied, Refuse
  <2>2. QED
    BY <1>0, <1>4, <2>1, WorkerTypeInv DEF Occupied, Refuse, KeepProject, psdVars, TypeInv
<1>5. CASE Probe
  <2>1. Ends \/ (pc' # "idle" /\ answer' = answer /\ RightStage')
    BY <1>1, <1>2, <1>5, Replies DEF Probe, Refuse, Ends, Outcomes
  <2>2. QED
    BY <1>0, <1>5, <2>1, WorkerTypeInv DEF Probe, Refuse, KeepProject, psdVars, TypeInv
<1>6. CASE CommitPoint("position")
  <2>1. Ends \/ (pc' # "idle" /\ answer' = answer /\ RightStage')
    BY <1>1, <1>2, <1>6 DEF CommitPoint, Proceed
  <2>2. QED
    BY <1>0, <1>6, <2>1, WorkerTypeInv DEF CommitPoint, workerVars, TypeInv
<1>7. CASE PositionCursor
  <2>1. Ends \/ (pc' # "idle" /\ answer' = answer /\ RightStage')
    BY <1>1, <1>2, <1>7 DEF PositionCursor, Refuse
  <2>2. IsProject(project') /\ view' \in Nat
    BY <1>0, <1>7, CursorIs DEF PositionCursor, Refuse, KeepProject, TypeInv
  <2>3. QED
    BY <1>0, <1>7, <2>1, <2>2, WorkerTypeInv
       DEF PositionCursor, Refuse, KeepProject, psdVars, TypeInv
<1>8. CASE CheckPosition
  <2>1. Ends \/ (pc' # "idle" /\ answer' = answer /\ RightStage')
    BY <1>1, <1>2, <1>8 DEF CheckPosition, Refuse
  <2>2. QED
    BY <1>0, <1>8, <2>1, WorkerTypeInv DEF CheckPosition, Refuse, KeepProject, psdVars, TypeInv
<1>9. CASE send_files
  <2>1. Ends \/ (pc' # "idle" /\ answer' = answer /\ RightStage')
    BY <1>1, <1>2, <1>9 DEF send_files, Refuse, AfterSendTimeout
  <2>2. drop' = NoDrop \/ drop' \in Drops
    <3>1. CASE drop' = [labels |-> PartsOf(request), layer |-> request.layer,
                        isTemporary |-> ~IsVoice \/ request.route = "object", number |-> sent]
      <4>1. PartsOf(request) \in {<<"psd">>, <<"audio", "voice">>}
        BY DEF PartsOf
      <4>2. request.layer \in Layers /\ sent \in Nat
        BY <1>0 DEF IsRequest, IsPsd, TypeInv
      <4>3. (~IsVoice \/ request.route = "object") \in BOOLEAN
        OBVIOUS
      <4>4. QED
        BY <3>1, <4>1, <4>2, <4>3 DEF Drops
    <3>2. CASE drop' = drop
      BY <3>2 DEF TypeInv
    <3>3. QED
      BY <1>9, <3>1, <3>2 DEF send_files, Refuse, KeepProject
  <2>3. work' \in Works
    BY <1>9 DEF send_files, Refuse, TypeInv, Works
  <2>4. QED
    BY <1>0, <1>9, <2>1, <2>2, <2>3, WorkerTypeInv
       DEF send_files, Refuse, KeepProject, psdVars, TypeInv
<1>10. QED
  BY <1>3, <1>4, <1>5, <1>6, <1>7, <1>8, <1>9

LEMMA LatePsdTypeInv ==
    ASSUME TypeInv, IsPsd, SameRequest,
           PollFinds \/ PollGivesUp \/ Rename \/ Renamed \/ SetCharacter \/ Failed
               \/ VerifyCharacter \/ CreateSubtitle \/ PollSubtitle
    PROVE  TypeInv'
<1>0. pc \notin {"idle", "begin"} /\ IsRequest(request) /\ RightStage
  BY DEF TypeInv, PollFinds, PollGivesUp, Rename, Renamed, SetCharacter, Failed,
         VerifyCharacter, CreateSubtitle, PollSubtitle
<1>1. ASSUME NEW step \in VoiceStages, Proceed(step), IsVoice
      PROVE  pc' # "idle" /\ answer' = answer /\ RightStage'
  BY <1>1, ToPsdStage DEF Proceed, Goto, PsdStages, LateStages, VoiceStages
<1>2. ASSUME NEW step \in {"rename", "renamed"}, Proceed(step), ~IsVoice, request.name # "none"
      PROVE  pc' # "idle" /\ answer' = answer /\ RightStage'
  BY <1>2, ToPsdStage DEF Proceed, Goto, PsdStages, LateStages, VoiceStages
<1>3. pc \in {"character", "verifyCharacter", "subtitle"} => IsVoice
  BY <1>0, PsdStage DEF VoiceStages
<1>4. "success" \in Outcomes /\ "partial" \in Outcomes
  BY DEF Outcomes
<1>5. CASE PollFinds
  <2>1. PICK h \in Created :
           LET label == project.objects[h].label IN
           \/ label \in LongLabels /\ ReplyThrown /\ UNCHANGED <<content, view, done, work>>
           \/ IsVoice /\ Proceed("character") /\ Remember(h)
           \/ /\ label \notin LongLabels /\ NamesIt /\ label # request.name
              /\ Proceed("rename") /\ Remember(h)
           \/ /\ label \notin LongLabels /\ ~IsVoice /\ (NamesIt => label = request.name)
              /\ Commit({"content"}) /\ Reply("success") /\ UNCHANGED work
    BY <1>5 DEF PollFinds
  <2>2. Ends \/ (pc' # "idle" /\ answer' = answer /\ RightStage')
    BY <1>1, <1>2, <1>4, <2>1, ThrownReplies, Replies DEF NamesIt, Ends, VoiceStages
  <2>3. h \in DOMAIN project.objects
    BY DEF Created, CreatedPsd, CreatedVoice, Found
  <2>4. <<project.objects[h]>> \in {<<o>> : o \in Object}
    BY <2>3 DEF TypeInv, IsProject
  <2>5. work' \in Works
    BY <2>1, <2>4 DEF Remember, TypeInv, Works
  <2>6. content' \in Nat /\ view' \in Nat /\ done' \in Deeds
    BY <2>1, Commits DEF Remember, TypeInv
  <2>7. QED
    BY <1>0, <1>5, <2>2, <2>5, <2>6, WorkerTypeInv DEF PollFinds, psdVars, TypeInv
<1>6. CASE PollGivesUp
  BY <1>0, <1>6, FailsPartially, WorkerTypeInv DEF PollGivesUp, psdVars, TypeInv
<1>7. CASE Rename
  <2>1. CASE Relabel(request.name) /\ Proceed("renamed") /\ UNCHANGED <<content, view>>
    <3>1. ~IsVoice /\ request.name # "none"
      BY <1>0, <1>7, PsdStage DEF Rename
    <3>2. request.name \in Labels
      BY <1>0, <3>1, OperationsAssumption DEF IsRequest, IsVoice, IsPsd
    <3>3. IsProject(project') /\ done' \in Deeds
      BY <2>1, <3>2, RelabelIs
    <3>4. pc' # "idle" /\ answer' = answer /\ RightStage'
      BY <1>2, <2>1, <3>1
    <3>5. QED
      BY <1>0, <1>7, <2>1, <3>3, <3>4, WorkerTypeInv DEF Rename, psdVars, TypeInv
  <2>2. CASE FailPartially /\ UNCHANGED project
    BY <1>0, <1>7, <2>2, FailsPartially, WorkerTypeInv DEF Rename, psdVars, TypeInv
  <2>3. QED
    BY <1>7, <2>1, <2>2 DEF Rename
<1>8. CASE Renamed
  <2>1. Ends
    BY <1>4, <1>8, Replies, ThrownReplies DEF Renamed, Ends
  <2>2. content' \in Nat /\ view' \in Nat /\ done' \in Deeds
    BY <1>8, Commits DEF Renamed, TypeInv
  <2>3. QED
    BY <1>0, <1>8, <2>1, <2>2, WorkerTypeInv DEF Renamed, psdVars, TypeInv
<1>9. CASE SetCharacter
  <2>1. CASE /\ Relabel("voiceCharacter") /\ UNCHANGED <<content, view>>
             /\ Proceed("verifyCharacter") \/ Proceed("failed")
    <3>1. "voiceCharacter" \in Labels
      BY OperationsAssumption DEF Given, VoiceLabels
    <3>2. IsProject(project') /\ done' \in Deeds
      BY <2>1, <3>1, RelabelIs
    <3>3. pc' # "idle" /\ answer' = answer /\ RightStage'
      BY <1>1, <1>3, <1>9, <2>1 DEF SetCharacter, VoiceStages
    <3>4. QED
      BY <1>0, <1>9, <2>1, <3>2, <3>3, WorkerTypeInv DEF SetCharacter, psdVars, TypeInv
  <2>2. CASE FailPartially /\ UNCHANGED project
    BY <1>0, <1>9, <2>2, FailsPartially, WorkerTypeInv DEF SetCharacter, psdVars, TypeInv
  <2>3. QED
    BY <1>9, <2>1, <2>2 DEF SetCharacter
<1>10. CASE Failed
  BY <1>0, <1>10, FailsPartially, WorkerTypeInv DEF Failed, psdVars, TypeInv
<1>11. CASE VerifyCharacter
  <2>1. CASE Proceed("subtitle") /\ UNCHANGED <<content, view, done>>
    <3>1. pc' # "idle" /\ answer' = answer /\ RightStage'
      BY <1>1, <1>3, <1>11, <2>1 DEF VerifyCharacter, VoiceStages
    <3>2. QED
      BY <1>0, <1>11, <2>1, <3>1, WorkerTypeInv DEF VerifyCharacter, psdVars, TypeInv
  <2>2. CASE FailPartially
    BY <1>0, <1>11, <2>2, FailsPartially, WorkerTypeInv DEF VerifyCharacter, psdVars, TypeInv
  <2>3. QED
    BY <1>11, <2>1, <2>2 DEF VerifyCharacter
<1>12. CASE CreateSubtitle
  <2>1. CASE /\ request.scene = project.scene /\ Free(project, Place(2))
             /\ ~Locked(project, Place(2))
             /\ \E h \in Fresh(project) :
                   Changes(Put(project, h, At(Place(2), "subtitle")), {"content"})
             /\ Proceed("pollSubtitle") \/ Proceed("failed")
             /\ UNCHANGED <<content, view>>
    <3>1. IsVoice
      BY <1>3, <1>12 DEF CreateSubtitle
    <3>2. IsProject(project') /\ done' \in Deeds
      BY <1>0, <2>1, <3>1, SubtitleIs
    <3>3. pc' # "idle" /\ answer' = answer /\ RightStage'
      BY <1>1, <2>1, <3>1 DEF VoiceStages
    <3>4. QED
      BY <1>0, <1>12, <2>1, <3>2, <3>3, WorkerTypeInv DEF CreateSubtitle, psdVars, TypeInv
  <2>2. CASE FailPartially /\ UNCHANGED project
    BY <1>0, <1>12, <2>2, FailsPartially, WorkerTypeInv DEF CreateSubtitle, psdVars, TypeInv
  <2>3. QED
    BY <1>12, <2>1, <2>2 DEF CreateSubtitle
<1>13. CASE PollSubtitle
  <2>1. CASE Commit({"content"}) /\ Reply("success")
    <3>1. Ends
      BY <1>4, <2>1, Replies DEF Ends
    <3>2. content' \in Nat /\ view' \in Nat /\ done' \in Deeds
      BY <2>1, Commits DEF TypeInv
    <3>3. QED
      BY <1>0, <1>13, <3>1, <3>2, WorkerTypeInv DEF PollSubtitle, psdVars, TypeInv
  <2>2. CASE FailPartially
    BY <1>0, <1>13, <2>2, FailsPartially, WorkerTypeInv DEF PollSubtitle, psdVars, TypeInv
  <2>3. QED
    BY <1>13, <2>1, <2>2 DEF PollSubtitle
<1>14. QED
  BY <1>5, <1>6, <1>7, <1>8, <1>9, <1>10, <1>11, <1>12, <1>13

LEMMA NextTypeInv ==
    ASSUME TypeInv, [Next]_hostVars
    PROVE  TypeInv'
<1>1. CASE UNCHANGED hostVars
  BY <1>1 DEF hostVars, TypeInv, RightStage, IsEdit, IsSave, IsPsd, IsVoice
<1>2. CASE PsdSteps
  BY <1>2, ByWorker, EarlyPsdTypeInv, LatePsdTypeInv DEF PsdSteps, Worker
<1>3. QED
  BY <1>1, <1>2, ArriveTypeInv, BeginTypeInv, EditStepsTypeInv, SaveStepsTypeInv, UserTypeInv,
     MainThreadTypeInv DEF Next, Worker

-----------------------------------------------------------------------------
(* Steps, summarised: what those of the user and the main thread leave alone, and what the *)
(* worker's do                                                                             *)

SameMarks ==
    /\ done'.saved = done.saved /\ done'.loaded = done.loaded
    /\ done'.placed = done.placed /\ done'.away = done.away

\* Objects are taken away at most.
NothingNew ==
    /\ project'.scene = project.scene
    /\ DOMAIN project'.objects \subseteq DOMAIN project.objects
    /\ \A h \in DOMAIN project'.objects : project'.objects[h] = project.objects[h]

\* A step that is not the worker's, nor the drop of its request.
OthersStep ==
    /\ SameWork
    /\ done'.changed = done.changed /\ done'.applied = done.applied
    /\ done'.refused = done.refused /\ done'.command = done.command
    /\ done'.unrecorded \in {done.unrecorded, {}}
    /\ Disturbed => Disturbed'
    /\ \/ path' = path /\ saves' = saves /\ done'.saved = done.saved
       \/ path' = path /\ saves' = saves + 1 /\ done'.saved = done.saved \cup {path}
       \/ done'.loaded /\ saves' = saves /\ done'.saved = done.saved
    /\ done.loaded => done'.loaded
    /\ drop' \in {drop, NoDrop}
    /\ NothingNew \/ Disturbed'

LEMMA UserStep ==
    ASSUME TypeInv, User
    PROVE  OthersStep
<1>0. SameWork /\ done \in Deeds
  BY ByOthers DEF TypeInv
<1>1. ASSUME NEW l \in Layers, NEW f \in Frames, NEW x \in UserLabels, UserPlaces(l, f, x)
      PROVE  OthersStep
  <2>1. done' = [done EXCEPT !.placed = TRUE] /\ UNCHANGED <<path, saves, drop>>
    BY <1>1 DEF UserPlaces, Edits, userVars
  <2>2. QED
    BY <1>0, <2>1 DEF OthersStep, Deeds, Disturbed
<1>2. ASSUME NEW h \in Handles, UserDeletes(h)
      PROVE  OthersStep
  <2>1. project' = Take(project, h) /\ UNCHANGED <<path, saves, drop, done>>
    BY <1>2 DEF UserDeletes, Edits, userVars
  <2>2. NothingNew
    BY <2>1, TakeKeeps DEF NothingNew, TypeInv
  <2>3. QED
    BY <1>0, <2>1, <2>2 DEF OthersStep, Disturbed
<1>3. ASSUME NEW f \in Frames, UserMovesCursor(f)
      PROVE  OthersStep
  <2>1. /\ project' = [project EXCEPT !.cursor[project.scene] = f]
        /\ UNCHANGED <<path, saves, drop, done>>
    BY <1>3 DEF UserMovesCursor, Edits, userVars
  <2>2. NothingNew
    BY <2>1, CursorKeeps DEF NothingNew, TypeInv
  <2>3. QED
    BY <1>0, <2>1, <2>2 DEF OthersStep, Disturbed
<1>4. ASSUME NEW s \in Scenes, UserOpensScene(s)
      PROVE  OthersStep
  <2>1. done' = [done EXCEPT !.away = TRUE] /\ UNCHANGED <<path, saves, drop>>
    BY <1>4 DEF UserOpensScene, Edits, userVars
  <2>2. QED
    BY <1>0, <2>1 DEF OthersStep, Deeds, Disturbed
<1>5. ASSUME NEW l \in Layers, UserLocks(l)
      PROVE  OthersStep
  <2> DEFINE locked == project.locked \cup {<<project.scene, l>>}
  <2>1. project' = [project EXCEPT !.locked = locked] /\ UNCHANGED <<path, saves, drop, done>>
    BY <1>5 DEF UserLocks, Edits, userVars
  <2>2. locked \in SUBSET (Scenes \X Layers)
    BY DEF TypeInv, IsProject
  <2> HIDE DEF locked
  <2>3. NothingNew
    BY <2>1, <2>2, LockKeeps DEF NothingNew, TypeInv
  <2>4. QED
    BY <1>0, <2>1, <2>3 DEF OthersStep, Disturbed
<1>6. ASSUME UserSaves
      PROVE  OthersStep
  <2>1. /\ done' = [done EXCEPT !.saved = @ \cup {path}] /\ saves' = saves + 1
        /\ UNCHANGED <<path, drop, project>>
    BY <1>6 DEF UserSaves, CaptureSaved, userVars
  <2>2. QED
    BY <1>0, <2>1 DEF OthersStep, Deeds, Disturbed, NothingNew
<1>7. ASSUME NEW file \in Paths, LoadProject(file)
      PROVE  OthersStep
  <2>1. /\ done' = [done EXCEPT !.loaded = TRUE, !.unrecorded = {}]
        /\ UNCHANGED <<saves, drop>>
    BY <1>7 DEF LoadProject
  <2>2. QED
    BY <1>0, <2>1 DEF OthersStep, Deeds, Disturbed
<1>8. QED
  BY <1>1, <1>2, <1>3, <1>4, <1>5, <1>6, <1>7 DEF User

\* The running request's drop is carried out.
OwnDropLands ==
    /\ DropLands /\ OwnDrop /\ pc # "idle" /\ SameWork /\ drop' = NoDrop
    /\ UNCHANGED <<path, saves>> /\ SameMarks
    /\ done'.changed /\ done'.unrecorded = done.unrecorded \cup {"content"}
    /\ done'.applied = done.applied /\ done'.refused = done.refused
    /\ done'.command = done.command

LEMMA MainThreadStep ==
    ASSUME TypeInv, MainThread
    PROVE  OthersStep \/ OwnDropLands
<1>0. SameWork /\ done \in Deeds
  BY ByOthers DEF TypeInv
<1>1. CASE RunSave
  <2>1. /\ UNCHANGED <<path, drop, project>>
        /\ \/ saves' = saves + 1 /\ done' = [done EXCEPT !.saved = @ \cup {path}]
           \/ UNCHANGED <<saves, done>>
    BY <1>1 DEF RunSave, CaptureSaved
  <2>2. QED
    BY <1>0, <2>1 DEF OthersStep, Deeds, Disturbed, NothingNew
<1>2. CASE DropLands
  <2>1. UNCHANGED <<path, saves>> /\ drop' = NoDrop /\ drop # NoDrop
    BY <1>2 DEF DropLands
  <2>2. CASE DropIsCurrent
    <3>1. done' = [done EXCEPT !.changed = TRUE, !.unrecorded = @ \cup {"content"}]
      BY <1>2, <2>2 DEF DropLands
    <3>2. QED
      BY <1>0, <1>2, <2>1, <2>2, <3>1 DEF OwnDropLands, OwnDrop, DropIsCurrent, Deeds, SameMarks
  <2>3. CASE ~DropIsCurrent
    <3>1. done' = [done EXCEPT !.placed = TRUE]
      BY <1>2, <2>3 DEF DropLands
    <3>2. QED
      BY <1>0, <2>1, <3>1 DEF OthersStep, Deeds, Disturbed
  <2>4. QED
    BY <2>2, <2>3
<1>3. CASE DropIsLost
  BY <1>0, <1>3 DEF DropIsLost, OthersStep, Disturbed, NothingNew
<1>4. QED
  BY <1>1, <1>2, <1>3 DEF MainThread

\* The worker does not say that somebody else did something.
LEMMA WorkerMarks ==
    ASSUME TypeInv, Worker
    PROVE  SameMarks
<1>0. done \in Deeds
  BY DEF TypeInv
<1>1. ASSUME NEW kinds, Commit(kinds)
      PROVE  SameMarks
  BY <1>0, <1>1, CommitsKeep DEF SameDeeds, SameMarks
<1>2. ASSUME NEW p, Changes(p, {"content"})
      PROVE  SameMarks
  BY <1>0, <1>2, ChangesAre DEF SameMarks
<1>3. CASE Begin
  BY <1>3 DEF Begin, SameMarks
<1>4. CASE EditSteps
  <2>1. CASE Edit
    <3>1. pc = "edit" /\ IsEdit
      BY <1>4, <2>1 DEF EditSteps, Edit
    <3>2. QED
      BY <2>1, <3>1, EditIs DEF SameMarks
  <2>2. CASE Record
    BY <1>1, <2>2 DEF Record, SameMarks
  <2>3. QED
    BY <1>4, <2>1, <2>2 DEF EditSteps, CaptureGeneration, Preflight, CommitPoint, VerifyItem,
                            SameMarks
<1>5. CASE SaveSteps
  <2>1. CASE dispatch_project_save_command
    BY <1>0, <2>1 DEF dispatch_project_save_command, Deeds, SameMarks
  <2>2. QED
    BY <1>5, <2>1 DEF SaveSteps, CommitPoint, SaveStatus, CaptureSequence, SaveConfirmed,
                      SaveTimesOut, SameMarks
<1>6. CASE PsdSteps
  <2>1. CASE UNCHANGED done
    BY <2>1 DEF SameMarks
  <2>2. CASE FailPartially \/ Commit({"content"})
    BY <1>1, <2>2 DEF FailPartially
  <2>3. CASE \E label : Relabel(label)
    BY <1>2, <2>3 DEF Relabel
  <2>4. CASE CreateSubtitle
    BY <1>2, <2>2, <2>4 DEF CreateSubtitle
  <2>5. QED
    BY <1>6, <2>1, <2>2, <2>3, <2>4
       DEF PsdSteps, Survey, Occupied, Probe, CommitPoint, PositionCursor, CheckPosition,
           send_files, PollFinds, PollGivesUp, Rename, Renamed, SetCharacter, Failed,
           VerifyCharacter, PollSubtitle, Refuse, KeepProject, Remember
<1>7. QED
  BY <1>3, <1>4, <1>5, <1>6 DEF Worker
-----------------------------------------------------------------------------
(* Changes are recorded *)

LEMMA StagesApart ==
    /\ \A step \in EarlyStages : step \notin LateStages \cup {"record", "verify", "idle"}
    /\ \A step \in LateStages : step \notin {"record", "verify", "idle"}
BY DEF EarlyStages, LateStages, SaveStages, EditStages, PlacingStages, VoiceStages

LEMMA OthersRecordInv ==
    ASSUME RecordInv, OthersStep
    PROVE  RecordInv'
BY DEF OthersStep, RecordInv, SameWork, EveryChangeIsRecorded

LEMMA OwnDropRecordInv ==
    ASSUME RecordInv, DropInv, OwnDropLands
    PROVE  RecordInv'
<1>1. pc \in LateStages /\ pc' = pc
  BY DEF OwnDropLands, DropInv, SameWork
<1>2. done'.unrecorded \subseteq {"content"}
  BY <1>1 DEF OwnDropLands, RecordInv
<1>3. QED
  BY <1>1, <1>2, StagesApart DEF RecordInv, EveryChangeIsRecorded

\* Nothing is changed by an early step.
LEMMA EarlyStepRecordInv ==
    ASSUME RecordInv, pc \in EarlyStages, done'.changed = done.changed,
           done'.unrecorded = done.unrecorded, pc' \in EarlyStages \cup LateStages \cup {"idle"}
    PROVE  RecordInv'
BY StagesApart DEF RecordInv, EveryChangeIsRecorded

\* A step that recorded everything before the answer.
LEMMA RecordedRecordInv ==
    ASSUME done'.unrecorded = {}, pc' = "idle"
    PROVE  RecordInv'
BY StagesApart DEF RecordInv, EveryChangeIsRecorded

LEMMA LateStepRecordInv ==
    ASSUME done'.unrecorded \subseteq {"content"}, pc' \in LateStages
    PROVE  RecordInv'
BY StagesApart DEF RecordInv, EveryChangeIsRecorded

LEMMA BeginRecordInv ==
    ASSUME TypeInv, RecordInv, Begin
    PROVE  RecordInv'
<1>1. IsRequest(request) /\ pc = "begin" /\ done' = done
  BY DEF Begin, TypeInv
<1>2. pc' \in EarlyStages \cup {"idle"}
  <2>1. pc' = "idle" \/ pc' = FirstStep(request.kind)
    BY UnchangedReplies DEF Begin, Goto
  <2>2. FirstStep(request.kind) \in {"capture", "preflight", "commitPoint", "survey"}
    BY <1>1, FirstSteps, KindsApart
  <2>3. QED
    BY <2>1, <2>2 DEF EarlyStages, SaveStages, EditStages
<1>3. QED
  BY <1>1, <1>2, EarlyStepRecordInv DEF EarlyStages

LEMMA EditStepsRecordInv ==
    ASSUME TypeInv, RecordInv, EditSteps
    PROVE  RecordInv'
<1>0. /\ IsEdit /\ RightStage /\ IsRequest(request)
      /\ request.kind = "item" => RevisionsOf(request.kind) = {"content"}
  BY DEF EditSteps, TypeInv, CaptureGeneration, Preflight, CommitPoint, Edit, Record, VerifyItem,
         RevisionsOf, ViewKinds
<1>1. CASE CaptureGeneration
  <2>1. pc = "capture" /\ pc' = "preflight" /\ done' = done
    BY <1>0, <1>1, NextSteps DEF CaptureGeneration, Goto
  <2>2. QED
    BY <2>1, EarlyStepRecordInv DEF EarlyStages, EditStages
<1>2. CASE Preflight
  <2>1. pc = "preflight" /\ pc' \in {"commitPoint", "idle"} /\ done' = done
    BY <1>0, <1>2, NextSteps, Replies, UnchangedReplies DEF Preflight, Goto, SdkRefuses, Outcomes
  <2>2. QED
    BY <2>1, EarlyStepRecordInv DEF EarlyStages, EditStages
<1>3. CASE CommitPoint(NextStep)
  <2>1. pc = "commitPoint" /\ pc' \in {"edit", "idle"} /\ done' = done
    BY <1>0, <1>3, NextSteps, UnchangedReplies DEF CommitPoint, Goto
  <2>2. QED
    BY <2>1, EarlyStepRecordInv DEF EarlyStages, EditStages
<1>4. CASE Edit
  <2>1. pc = "edit" /\ pc' = "record"
    BY <1>0, <1>4, NextSteps DEF Edit, Goto
  <2>2. PICK r : /\ Sound(r) /\ work'.changed = r.changed /\ project' = r.project
                 /\ done'.changed = (r.project # project /\ "content" \in RevisionsOf(request.kind))
                 /\ done'.unrecorded = IF r.project = project THEN {}
                                       ELSE RevisionsOf(request.kind)
    BY <1>0, <1>4, <2>1, EditIs
  <2>3. request' = request
    BY <1>4 DEF Edit, workerVars
  <2>4. /\ done'.unrecorded \subseteq RevisionsOf(request'.kind)
        /\ done'.changed \/ done'.unrecorded # {} => work'.changed
    BY <2>2, <2>3 DEF Sound
  <2>5. QED
    BY <2>1, <2>4, StagesApart DEF RecordInv, EveryChangeIsRecorded
<1>5. CASE Record
  <2>1. pc = "record" /\ work' = work
    BY <1>5 DEF Record
  <2>2. done'.unrecorded = {} /\ (done'.changed => work.changed)
    <3>1. CASE work.changed
      BY <1>5, <2>1, <3>1, Commits DEF Record, RecordInv, TypeInv
    <3>2. CASE ~work.changed
      BY <1>5, <2>1, <3>2 DEF Record, RecordInv
    <3>3. QED
      BY <3>1, <3>2
  <2>3. pc' = "idle" \/ pc' = "verify"
    BY <1>0, <1>5, <2>1, NextSteps, Replies, UnchangedReplies, BatchReplies
       DEF Record, ReplyEdited, Goto, Ends, Outcomes
  <2>4. QED
    BY <2>1, <2>2, <2>3, StagesApart DEF RecordInv, EveryChangeIsRecorded
<1>6. CASE VerifyItem
  <2>1. pc = "verify" /\ pc' = "idle" /\ done' = done
    BY <1>6, Replies DEF VerifyItem, Outcomes
  <2>2. QED
    BY <2>1, RecordedRecordInv DEF RecordInv
<1>7. QED
  BY <1>1, <1>2, <1>3, <1>4, <1>5, <1>6 DEF EditSteps

LEMMA SaveStepsRecordInv ==
    ASSUME TypeInv, RecordInv, SaveSteps
    PROVE  RecordInv'
<1>1. pc \in SaveStages /\ pc' \in SaveStages \cup {"idle"}
  BY UnchangedReplies, Replies
     DEF SaveSteps, CommitPoint, SaveStatus, CaptureSequence, dispatch_project_save_command,
         SaveConfirmed, SaveTimesOut, SaveStages, SdkRefuses, Goto, Outcomes
<1>2. done'.changed = done.changed /\ done'.unrecorded = done.unrecorded
  BY DEF SaveSteps, CommitPoint, SaveStatus, CaptureSequence, dispatch_project_save_command,
         SaveConfirmed, SaveTimesOut, TypeInv, Deeds
<1>3. QED
  BY <1>1, <1>2, EarlyStepRecordInv DEF EarlyStages

LEMMA EarlyPsdRecordInv ==
    ASSUME TypeInv, RecordInv,
           Survey \/ Occupied \/ Probe \/ CommitPoint("position") \/ PositionCursor
               \/ CheckPosition \/ send_files
    PROVE  RecordInv'
<1>1. pc \in {"survey", "occupied"} \cup PlacingStages
  BY DEF Survey, Occupied, Probe, CommitPoint, PositionCursor, CheckPosition, send_files,
         PlacingStages
<1>2. pc' \in {"occupied", "poll", "idle"} \cup PlacingStages
  BY UnchangedReplies, Replies
     DEF Survey, Occupied, Probe, CommitPoint, PositionCursor, CheckPosition, send_files,
         PlacingStages, Refuse, Proceed, Goto, AfterSendTimeout, Outcomes
<1>3. done' = done
  BY DEF Survey, Occupied, Probe, CommitPoint, PositionCursor, CheckPosition, send_files, Refuse,
         KeepProject
<1>4. QED
  BY <1>1, <1>2, <1>3, EarlyStepRecordInv DEF EarlyStages, LateStages

\* The poll cannot meet a name that no locator can hold, unless somebody is at work.
LEMMA PollThrows ==
    ASSUME TypeInv, DropInv, IsPsd, pc = "poll", NEW h \in Created,
           project.objects[h].label \in LongLabels
    PROVE  Disturbed
<1>0. LongLabels \cap Given = {}
  BY OperationsAssumption
<1>1. CASE IsVoice
  <2>1. project.objects[h].label \in VoiceLabels
    BY <1>1 DEF Created, CreatedVoice, Found
  <2>2. QED
    BY <1>0, <2>1 DEF Given
<1>2. CASE request.kind = "psd"
  <2>1. h \in DOMAIN project.objects /\ PlaceOf(project.objects[h]) = Place(0)
    BY <1>2 DEF Created, CreatedPsd, IsVoice, Found
  <2>2. Disturbed \/ project.objects[h].label = "psd"
    BY <1>2, <2>1 DEF DropInv
  <2>3. QED
    BY <1>0, <2>2 DEF Given
<1>3. QED
  BY <1>1, <1>2 DEF IsPsd, IsVoice

LEMMA LatePsdRecordInv ==
    ASSUME TypeInv, RecordInv, DropInv, SameMarks, IsPsd,
           PollFinds \/ PollGivesUp \/ Rename \/ Renamed \/ SetCharacter \/ Failed
               \/ VerifyCharacter \/ CreateSubtitle \/ PollSubtitle
    PROVE  RecordInv'
<1>0. pc \in LateStages /\ done.unrecorded \subseteq {"content"} /\ done \in Deeds
  BY DEF PollFinds, PollGivesUp, Rename, Renamed, SetCharacter, Failed, VerifyCharacter,
         CreateSubtitle, PollSubtitle, LateStages, RecordInv, TypeInv
<1>1. ASSUME FailPartially PROVE RecordInv'
  BY <1>0, <1>1, FailsPartially, RecordedRecordInv DEF Ends
<1>2. ASSUME Commit({"content"}), pc' = "idle" PROVE RecordInv'
  BY <1>0, <1>2, Commits, RecordedRecordInv DEF TypeInv
<1>3. ASSUME NEW p, Changes(p, {"content"}), pc' \in LateStages PROVE RecordInv'
  BY <1>0, <1>3, ChangesAre, LateStepRecordInv
<1>4. ASSUME done' = done, pc' \in LateStages PROVE RecordInv'
  BY <1>0, <1>4, LateStepRecordInv
<1>5. "success" \in Outcomes
  BY DEF Outcomes
<1>6. CASE PollFinds
  <2>1. PICK h \in Created :
           LET label == project.objects[h].label IN
           \/ label \in LongLabels /\ ReplyThrown /\ UNCHANGED <<content, view, done, work>>
           \/ IsVoice /\ Proceed("character") /\ Remember(h)
           \/ /\ label \notin LongLabels /\ NamesIt /\ label # request.name
              /\ Proceed("rename") /\ Remember(h)
           \/ /\ label \notin LongLabels /\ ~IsVoice /\ (NamesIt => label = request.name)
              /\ Commit({"content"}) /\ Reply("success") /\ UNCHANGED work
    BY <1>6 DEF PollFinds
  <2>2. CASE project.objects[h].label \in LongLabels /\ ReplyThrown /\ done' = done
    <3>1. Disturbed
      BY <1>6, <2>2, PollThrows DEF PollFinds
    <3>2. Disturbed' /\ answer'.thrown /\ pc' = "idle"
      BY <2>2, <3>1, ThrownReplies DEF Disturbed, SameMarks
    <3>3. QED
      BY <3>2, StagesApart DEF RecordInv, EveryChangeIsRecorded
  <2>3. CASE (Proceed("character") \/ Proceed("rename")) /\ Remember(h)
    BY <1>4, <2>3 DEF Proceed, Goto, Remember, LateStages, VoiceStages
  <2>4. CASE Commit({"content"}) /\ Reply("success")
    BY <1>2, <1>5, <2>4, Replies
  <2>5. QED
    BY <2>1, <2>2, <2>3, <2>4
<1>7. CASE PollGivesUp \/ Failed
  BY <1>1, <1>7 DEF PollGivesUp, Failed
<1>8. CASE Rename
  BY <1>1, <1>3, <1>8 DEF Rename, Relabel, Proceed, Goto, LateStages
<1>9. CASE Renamed
  BY <1>2, <1>5, <1>9, Replies, ThrownReplies DEF Renamed
<1>10. CASE SetCharacter
  BY <1>1, <1>3, <1>10 DEF SetCharacter, Relabel, Proceed, Goto, LateStages, VoiceStages
<1>11. CASE VerifyCharacter
  BY <1>1, <1>4, <1>11 DEF VerifyCharacter, Proceed, Goto, LateStages, VoiceStages
<1>12. CASE CreateSubtitle
  BY <1>1, <1>3, <1>12 DEF CreateSubtitle, Proceed, Goto, LateStages, VoiceStages
<1>13. CASE PollSubtitle
  BY <1>1, <1>2, <1>5, <1>13, Replies DEF PollSubtitle
<1>14. QED
  BY <1>6, <1>7, <1>8, <1>9, <1>10, <1>11, <1>12, <1>13

LEMMA NextRecordInv ==
    ASSUME TypeInv, RecordInv, DropInv, [Next]_hostVars
    PROVE  RecordInv'
<1>1. CASE UNCHANGED hostVars
  BY <1>1 DEF hostVars, RecordInv, EveryChangeIsRecorded, Disturbed
<1>2. ASSUME NEW c \in Commands, Arrive(c)
      PROVE  RecordInv'
  BY <1>2, NothingTyped, StagesApart
     DEF Arrive, Goto, RecordInv, EveryChangeIsRecorded, EarlyStages, LateStages, VoiceStages
<1>3. CASE PsdSteps
  BY <1>3, WorkerMarks, EarlyPsdRecordInv, LatePsdRecordInv DEF PsdSteps, Worker
<1>4. QED
  BY <1>1, <1>2, <1>3, BeginRecordInv, EditStepsRecordInv, SaveStepsRecordInv, UserStep,
     MainThreadStep, OthersRecordInv, OwnDropRecordInv DEF Next, Worker
-----------------------------------------------------------------------------
(* Drops *)

\* Another handler than those of PSDs has no drop of its own.
LEMMA NotPsdHasNoDrop ==
    ASSUME DropInv, pc # "idle", ~IsPsd \/ pc \notin LateStages
    PROVE  ~OwnDrop
BY DEF DropInv

\* The place stays free when objects are only taken away.
LEMMA NothingNewKeepsFree ==
    ASSUME NothingNew, NEW place, Free(project, place)
    PROVE  Free(project', place)
BY DEF NothingNew, Free

LEMMA SamePlace ==
    ASSUME request' = request
    PROVE  \A i : Place(i)' = Place(i)
BY DEF Place

LEMMA OthersDropInv ==
    ASSUME TypeInv, DropInv, OthersStep
    PROVE  DropInv'
<1>0. /\ pc' = pc /\ request' = request /\ answer' = answer /\ sent' = sent
      /\ Disturbed => Disturbed'
      /\ NothingNew \/ Disturbed'
      /\ IsPsd' = IsPsd /\ Place(0)' = Place(0)
      /\ OwnDrop' => OwnDrop /\ drop' = drop
      /\ drop' = drop \/ drop' = NoDrop
  BY SamePlace DEF OthersStep, SameWork, IsPsd, OwnDrop
<1>1. drop' # NoDrop => drop'.number <= sent'
  BY <1>0 DEF DropInv
<1>2. OwnDrop' /\ pc' # "idle" => IsPsd' /\ pc' \in LateStages /\ drop'.labels = PartsOf(request')
  BY <1>0 DEF DropInv
<1>3. IsPsd' /\ pc' \in PlacingStages \cup {"occupied", "poll"} =>
         project'.scene = request'.scene \/ Disturbed'
  BY <1>0 DEF DropInv, NothingNew
<1>4. IsPsd' /\ (pc' \in PlacingStages \/ (pc' = "poll" /\ OwnDrop')) =>
         Free(project', Place(0)') \/ Disturbed'
  BY <1>0, NothingNewKeepsFree DEF DropInv
<1>5. request'.kind = "psd" /\ pc' = "poll" =>
         \/ Disturbed'
         \/ \A h \in DOMAIN project'.objects :
               PlaceOf(project'.objects[h]) = Place(0)' => project'.objects[h].label = "psd"
  BY <1>0 DEF DropInv, NothingNew
<1>6. OwnDrop' => \/ pc' = "poll" \/ Disturbed'
                  \/ pc' = "idle" /\ answer'.outcome = "partial"
  BY <1>0 DEF DropInv
<1>7. QED
  BY <1>1, <1>2, <1>3, <1>4, <1>5, <1>6 DEF DropInv

\* What the drop of a PSD brings has the label that a PSD has.
LEMMA OwnDropDropInv ==
    ASSUME TypeInv, DropInv, OwnDropLands
    PROVE  DropInv'
<1>0. /\ pc' = pc /\ request' = request /\ drop' = NoDrop /\ pc \in LateStages /\ IsPsd
      /\ Disturbed' = Disturbed /\ IsPsd' = IsPsd /\ Place(0)' = Place(0) /\ ~OwnDrop'
      /\ drop.labels = PartsOf(request) /\ OwnDrop
      /\ pc \in PlacingStages \cup {"occupied"} => FALSE
  BY SamePlace, StagesApart
     DEF OwnDropLands, SameWork, SameMarks, Disturbed, IsPsd, OwnDrop, DropInv, EarlyStages
<1>1. /\ project'.scene = project.scene
      /\ \A h \in DOMAIN project.objects :
            h \in DOMAIN project'.objects /\ project'.objects[h] = project.objects[h]
      /\ \A h \in DOMAIN project'.objects \ DOMAIN project.objects :
            \E i \in DOMAIN drop.labels : project'.objects[h].label = drop.labels[i]
  BY LandedAre DEF OwnDropLands
<1>2. IsPsd' /\ pc' \in PlacingStages \cup {"occupied", "poll"} =>
         project'.scene = request'.scene \/ Disturbed'
  BY <1>0, <1>1 DEF DropInv
<1>3. request'.kind = "psd" /\ pc' = "poll" =>
         \/ Disturbed'
         \/ \A h \in DOMAIN project'.objects :
               PlaceOf(project'.objects[h]) = Place(0)' => project'.objects[h].label = "psd"
  <2>1. SUFFICES ASSUME request.kind = "psd", pc = "poll", ~Disturbed,
                        NEW h \in DOMAIN project'.objects,
                        PlaceOf(project'.objects[h]) = Place(0)
                 PROVE  project'.objects[h].label = "psd"
    BY <1>0
  <2>2. CASE h \in DOMAIN project.objects
    BY <1>1, <2>1, <2>2 DEF DropInv
  <2>3. CASE h \notin DOMAIN project.objects
    <3>1. drop.labels = <<"psd">>
      BY <1>0, <2>1 DEF PartsOf
    <3>2. PICK i \in DOMAIN drop.labels : project'.objects[h].label = drop.labels[i]
      BY <1>1, <2>3
    <3>3. QED
      BY <3>1, <3>2
  <2>4. QED
    BY <2>2, <2>3
<1>4. QED
  BY <1>0, <1>2, <1>3 DEF DropInv, OwnDrop

\* A step of a request that has nothing to do with drops.
LEMMA ApartDropInv ==
    ASSUME TypeInv, DropInv, SameRequest, SameMarks, pc # "idle", ~IsPsd, drop' = drop
    PROVE  DropInv'
<1>1. ~OwnDrop /\ ~OwnDrop' /\ ~IsPsd' /\ request'.kind # "psd"
  BY NotPsdHasNoDrop DEF SameRequest, OwnDrop, IsPsd
<1>2. QED
  BY <1>1 DEF DropInv, SameRequest

\* The worker gives up before the drop, or begins.
LEMMA EarlyEndDropInv ==
    ASSUME TypeInv, DropInv, SameRequest, pc # "idle", pc \notin LateStages, drop' = drop,
           pc' \in {"idle", "survey"}
    PROVE  DropInv'
<1>1. ~OwnDrop /\ ~OwnDrop'
  BY NotPsdHasNoDrop DEF SameRequest, OwnDrop
<1>2. pc' \notin PlacingStages \cup {"occupied", "poll"}
  BY DEF PlacingStages
<1>3. QED
  BY <1>1, <1>2 DEF DropInv, SameRequest

\* The worker goes on before the drop, and no object is touched.
LEMMA PlacingDropInv ==
    ASSUME TypeInv, DropInv, SameRequest, SameMarks, IsPsd, drop' = drop,
           pc \in {"survey", "occupied"} \cup PlacingStages,
           pc' \in {"occupied"} \cup PlacingStages,
           project'.scene = project.scene, project'.objects = project.objects,
           project.scene = request.scene \/ Disturbed,
           pc' \in PlacingStages => Free(project, Place(0)) \/ Disturbed
    PROVE  DropInv'
<1>1. /\ Disturbed' = Disturbed /\ IsPsd' = IsPsd /\ Place(0)' = Place(0)
      /\ ~OwnDrop /\ ~OwnDrop' /\ pc # "idle" /\ pc' # "poll"
      /\ Free(project', Place(0)) = Free(project, Place(0))
  <2>1. pc \notin LateStages /\ pc # "idle"
    BY StagesApart DEF EarlyStages
  <2>2. pc' # "poll"
    BY DEF PlacingStages
  <2>3. QED
    BY <2>1, <2>2, NotPsdHasNoDrop, SamePlace
       DEF SameRequest, SameMarks, Disturbed, IsPsd, OwnDrop, Free
<1>2. QED
  BY <1>1 DEF DropInv, SameRequest

LEMMA EarlyPsdDropInv ==
    ASSUME TypeInv, DropInv, SameRequest, SameMarks, IsPsd,
           Survey \/ Occupied \/ Probe \/ CommitPoint("position") \/ PositionCursor
               \/ CheckPosition \/ send_files
    PROVE  DropInv'
<1>0. /\ pc \in {"survey", "occupied"} \cup PlacingStages /\ pc # "idle" /\ pc \notin LateStages
      /\ IsRequest(request)
  <2>1. pc \in {"survey", "occupied"} \cup PlacingStages
    BY DEF Survey, Occupied, Probe, CommitPoint, PositionCursor, CheckPosition, send_files,
           PlacingStages
  <2>2. QED
    BY <2>1, StagesApart DEF EarlyStages, TypeInv
<1>1. ASSUME pc' = "idle", drop' = drop
      PROVE  DropInv'
  BY <1>0, <1>1, EarlyEndDropInv
<1>2. ASSUME Refuse
      PROVE  DropInv'
  BY <1>1, <1>2, UnchangedReplies DEF Refuse, KeepProject
<1>3. CASE Survey
  <2>1. CASE query_project.scene = request.scene /\ Proceed("occupied") /\ KeepProject
    <3>1. project.scene = request.scene /\ pc' = "occupied" /\ project' = project /\ drop' = drop
      BY <2>1 DEF query_project, Proceed, Goto, KeepProject
    <3>2. "occupied" \notin PlacingStages
      BY DEF PlacingStages
    <3>3. QED
      BY <1>0, <3>1, <3>2, PlacingDropInv
  <2>2. QED
    BY <1>2, <1>3, <2>1 DEF Survey
<1>4. CASE Occupied
  <2>1. CASE /\ \A i \in DOMAIN PartsOf(request) : IsVacant(i - 1)
             /\ Proceed("probe") /\ KeepProject
    <3>1. /\ pc = "occupied" /\ pc' = "probe" /\ pc' \in PlacingStages
          /\ project' = project /\ drop' = drop
      BY <1>4, <2>1 DEF Occupied, Proceed, Goto, KeepProject, PlacingStages
    <3>2. project.scene = request.scene \/ Disturbed
      BY <3>1 DEF DropInv
    <3>3. ASSUME project.scene = request.scene
          PROVE  Free(project, Place(0))
      <4>1. 1 \in DOMAIN PartsOf(request) /\ 1 - 1 = 0
        BY DEF PartsOf
      <4>2. IsVacant(0)
        BY <2>1, <4>1
      <4>3. Place(0).scene = request.scene
        BY DEF Place
      <4>4. \A h \in DOMAIN project.objects : project.objects[h].label \in Labels
        BY DEF TypeInv, IsProject, Object
      <4>5. QED
        BY <3>3, <4>2, <4>3, <4>4 DEF IsVacant, Found, Free
    <3>4. QED
      BY <1>0, <3>1, <3>2, <3>3, PlacingDropInv
  <2>2. QED
    BY <1>2, <1>4, <2>1 DEF Occupied
<1>5. ASSUME pc \in PlacingStages
      PROVE  /\ project.scene = request.scene \/ Disturbed
             /\ Free(project, Place(0)) \/ Disturbed
  BY <1>5 DEF DropInv
<1>6. CASE Probe
  <2>1. drop' = drop /\ project' = project /\ pc = "probe" /\ pc' \in {"idle", "commitPoint"}
    BY <1>6, UnchangedReplies, Replies
       DEF Probe, Refuse, KeepProject, Proceed, Goto, Outcomes
  <2>2. QED
    BY <1>0, <1>1, <1>5, <2>1, PlacingDropInv DEF PlacingStages
<1>7. CASE CommitPoint("position")
  <2>1. drop' = drop /\ project' = project /\ pc = "commitPoint" /\ pc' \in {"idle", "position"}
    BY <1>7, UnchangedReplies DEF CommitPoint, Goto, workerVars
  <2>2. QED
    BY <1>0, <1>1, <1>5, <2>1, PlacingDropInv DEF PlacingStages
<1>8. CASE PositionCursor
  <2>1. CASE /\ project' = [project EXCEPT !.cursor[project.scene] = request.frame]
             /\ Proceed("positioned") /\ drop' = drop
    <3>1. pc = "position" /\ pc' = "positioned" /\ drop' = drop
      BY <1>8, <2>1 DEF PositionCursor, Proceed, Goto
    <3>2. project'.scene = project.scene /\ project'.objects = project.objects
      BY <1>0, <2>1, CursorIs
    <3>3. QED
      BY <1>0, <1>5, <3>1, <3>2, PlacingDropInv DEF PlacingStages
  <2>2. QED
    BY <1>2, <1>8, <2>1 DEF PositionCursor
<1>9. CASE CheckPosition
  <2>1. drop' = drop /\ project' = project /\ pc = "positioned" /\ pc' \in {"idle", "send"}
    BY <1>9, UnchangedReplies DEF CheckPosition, Refuse, KeepProject, Proceed, Goto
  <2>2. QED
    BY <1>0, <1>1, <1>5, <2>1, PlacingDropInv DEF PlacingStages
<1>10. CASE send_files
  <2>1. CASE /\ drop' = [labels |-> PartsOf(request), layer |-> request.layer,
                         isTemporary |-> ~IsVoice \/ request.route = "object", number |-> sent]
             /\ Proceed("poll") \/ AfterSendTimeout
             /\ UNCHANGED <<project, content, view, done>>
    <3>1. /\ pc = "send" /\ pc' = "poll" /\ project' = project /\ pc \in PlacingStages
          /\ "poll" \in LateStages /\ "poll" \notin PlacingStages
      BY <1>10, <2>1 DEF send_files, AfterSendTimeout, Proceed, Goto, PlacingStages, LateStages
    <3>2. drop'.number = sent /\ drop'.labels = PartsOf(request) /\ sent' = sent
      BY <2>1 DEF SameRequest
    <3>3. sent <= sent'
      BY <3>2 DEF TypeInv
    <3>4. /\ Disturbed' = Disturbed /\ IsPsd' = IsPsd /\ Place(0)' = Place(0)
          /\ request' = request
      BY SamePlace DEF SameRequest, SameMarks, Disturbed, IsPsd
    <3>5. /\ project.scene = request.scene \/ Disturbed
          /\ Free(project, Place(0)) \/ Disturbed
      BY <1>5, <3>1
    <3>6. request'.kind = "psd" /\ pc' = "poll" =>
             \/ Disturbed'
             \/ \A h \in DOMAIN project'.objects :
                   PlaceOf(project'.objects[h]) = Place(0)' => project'.objects[h].label = "psd"
      BY <3>1, <3>4, <3>5 DEF Free
    <3>7. QED
      BY <3>1, <3>2, <3>3, <3>4, <3>5, <3>6 DEF DropInv
  <2>2. QED
    BY <1>2, <1>10, <2>1 DEF send_files
<1>11. QED
  BY <1>3, <1>4, <1>6, <1>7, <1>8, <1>9, <1>10

\* What the poll finds is where the drop puts it, so that the drop was carried out, or somebody
\* else put it there.
LEMMA FoundIsDropped ==
    ASSUME TypeInv, DropInv, IsPsd, pc = "poll", Created # {}
    PROVE  OwnDrop => Disturbed
<1>1. PICK h \in DOMAIN project.objects : PlaceOf(project.objects[h]) = Place(0)
  BY DEF Created, CreatedVoice, CreatedPsd, Found
<1>2. ~Free(project, Place(0))
  BY <1>1 DEF Free
<1>3. QED
  BY <1>2 DEF DropInv

LEMMA LatePsdDropInv ==
    ASSUME TypeInv, DropInv, SameRequest, SameMarks, IsPsd,
           PollFinds \/ PollGivesUp \/ Rename \/ Renamed \/ SetCharacter \/ Failed
               \/ VerifyCharacter \/ CreateSubtitle \/ PollSubtitle
    PROVE  DropInv'
<1>0. pc \in LateStages /\ pc # "idle" /\ drop' = drop
  BY DEF PollFinds, PollGivesUp, Rename, Renamed, SetCharacter, Failed, VerifyCharacter,
         CreateSubtitle, PollSubtitle, LateStages
<1>1. pc' \in (LateStages \ {"poll"}) \cup {"idle"}
  BY ThrownReplies, Replies
     DEF PollFinds, PollGivesUp, Rename, Renamed, SetCharacter, Failed, VerifyCharacter,
         CreateSubtitle, PollSubtitle, LateStages, VoiceStages, Proceed, Goto, FailPartially,
         Outcomes
<1>2. /\ Disturbed' = Disturbed /\ IsPsd' = IsPsd /\ OwnDrop' = OwnDrop
      /\ pc' \notin PlacingStages \cup {"occupied", "poll"}
  <2>1. pc' \notin PlacingStages \cup {"occupied", "poll"}
    BY <1>1, StagesApart DEF EarlyStages, PlacingStages
  <2>2. QED
    BY <1>0, <2>1 DEF SameRequest, SameMarks, Disturbed, IsPsd, OwnDrop
<1>3. OwnDrop => Disturbed \/ (pc' = "idle" /\ answer'.outcome = "partial")
  <2>1. CASE PollFinds
    BY <2>1, FoundIsDropped DEF PollFinds
  <2>2. CASE PollGivesUp
    BY <2>2, FailsPartially DEF PollGivesUp, Ends
  <2>3. CASE pc # "poll"
    BY <1>0, <2>3 DEF DropInv
  <2>4. QED
    BY <2>1, <2>2, <2>3 DEF Rename, Renamed, SetCharacter, Failed, VerifyCharacter,
                            CreateSubtitle, PollSubtitle
<1>4. QED
  BY <1>0, <1>1, <1>2, <1>3 DEF DropInv, SameRequest

LEMMA NextDropInv ==
    ASSUME TypeInv, DropInv, [Next]_hostVars
    PROVE  DropInv'
<1>1. CASE UNCHANGED hostVars
  <2>1. Place(0)' = Place(0) /\ Disturbed' = Disturbed
    BY <1>1, SamePlace DEF hostVars, Disturbed
  <2>2. QED
    BY <1>1, <2>1 DEF hostVars, DropInv, OwnDrop, IsPsd
<1>2. ASSUME NEW c \in Commands, Arrive(c)
      PROVE  DropInv'
  <2>1. pc' = "begin" /\ drop' = drop /\ sent' = sent + 1
    BY <1>2 DEF Arrive, Goto
  <2>2. drop # NoDrop => drop.number \in Nat /\ drop.number <= sent
    BY DEF TypeInv, Drops, DropInv
  <2>3. (drop' # NoDrop => drop'.number <= sent') /\ ~OwnDrop'
    BY <2>1, <2>2 DEF OwnDrop, TypeInv
  <2>4. QED
    BY <2>1, <2>3 DEF DropInv, PlacingStages
<1>3. CASE Begin
  <2>1. SameRequest /\ SameMarks /\ pc = "begin" /\ drop' = drop /\ IsRequest(request)
    BY <1>3, ByWorker, WorkerMarks DEF Worker, Begin, workerVars, TypeInv
  <2>2. CASE IsPsd
    <3>1. pc' \in {"idle", "survey"}
      BY <1>3, <2>1, <2>2, FirstSteps, UnchangedReplies DEF Begin, Goto
    <3>2. QED
      BY <2>1, <3>1, StagesApart, EarlyEndDropInv DEF EarlyStages
  <2>3. QED
    BY <2>1, <2>2, ApartDropInv
<1>4. CASE EditSteps
  <2>1. SameRequest /\ SameMarks /\ pc # "idle" /\ drop' = drop /\ ~IsPsd
    BY <1>4, ByWorker, WorkerMarks, KindsApart
       DEF Worker, EditSteps, CaptureGeneration, Preflight, CommitPoint, Edit, Record, VerifyItem,
           workerVars, TypeInv
  <2>2. QED
    BY <2>1, ApartDropInv
<1>5. CASE SaveSteps
  <2>1. SameRequest /\ SameMarks /\ pc # "idle" /\ drop' = drop /\ ~IsPsd
    BY <1>5, ByWorker, WorkerMarks, KindsApart
       DEF Worker, SaveSteps, CommitPoint, SaveStatus, CaptureSequence,
           dispatch_project_save_command, SaveConfirmed, SaveTimesOut, workerVars, saveVars, TypeInv
  <2>2. QED
    BY <2>1, ApartDropInv
<1>6. CASE PsdSteps
  BY <1>6, ByWorker, WorkerMarks, EarlyPsdDropInv, LatePsdDropInv DEF PsdSteps, Worker
<1>7. QED
  BY <1>1, <1>2, <1>3, <1>4, <1>5, <1>6, UserStep, MainThreadStep, OthersDropInv, OwnDropDropInv
     DEF Next, Worker
-----------------------------------------------------------------------------
(* Saves and answers *)

LEMMA OthersSaveInv ==
    ASSUME TypeInv, SaveInv, OthersStep
    PROVE  SaveInv'
<1>0. pc' = pc /\ request' = request /\ answer' = answer /\ work' = work /\ IsSave' = IsSave
  BY DEF OthersStep, SameWork, IsSave
<1>1. saves \in Nat /\ work.sequence \in Nat
  BY DEF TypeInv, Works
<1>2. CASE path' = path /\ saves' = saves /\ done'.saved = done.saved
  BY <1>0, <1>2 DEF OthersStep, SaveInv, SavedIsSaved
<1>3. CASE path' = path /\ saves' = saves + 1 /\ done'.saved = done.saved \cup {path}
  BY <1>0, <1>1, <1>3 DEF OthersStep, SaveInv, SavedIsSaved
<1>4. CASE done'.loaded /\ saves' = saves /\ done'.saved = done.saved
  BY <1>0, <1>4 DEF OthersStep, SaveInv, SavedIsSaved
<1>5. QED
  BY <1>2, <1>3, <1>4 DEF OthersStep

\* Only a save reads the number of saves, and only it reports one.
LEMMA ApartSaveInv ==
    ASSUME TypeInv, SaveInv, SameRequest, SameMarks, ~IsSave
    PROVE  SaveInv'
BY DEF SaveInv, SavedIsSaved, SameRequest, SameMarks, IsSave

LEMMA SaveStepsSaveInv ==
    ASSUME TypeInv, SaveInv, SaveSteps
    PROVE  SaveInv'
<1>0. /\ SameRequest /\ SameMarks /\ IsSave /\ saves \in Nat /\ work \in Works
      /\ path' = path /\ saves' = saves
  BY ByWorker, WorkerMarks DEF Worker, SaveSteps, TypeInv, SameRequest
<1>1. done'.saved # {} => path' \in done'.saved \/ done'.loaded
  BY <1>0 DEF SaveInv, SameMarks
<1>2. CASE CommitPoint("status") \/ SaveStatus
  <2>1. pc' \in {"status", "sequence", "idle"} /\ (pc' = "idle" => answer'.outcome = "unchanged")
    BY <1>2, UnchangedReplies DEF CommitPoint, SaveStatus, SdkRefuses, Goto
  <2>2. QED
    BY <1>1, <2>1 DEF SaveInv, SavedIsSaved
<1>3. CASE CaptureSequence
  <2>1. pc' = "command" /\ work'.sequence = saves
    BY <1>0, <1>3 DEF CaptureSequence, Goto, Works
  <2>2. QED
    BY <1>0, <1>1, <2>1 DEF SaveInv, SavedIsSaved
<1>4. CASE dispatch_project_save_command
  <2>1. /\ pc = "command" /\ work' = work
        /\ pc' = "wait" \/ (pc' = "idle" /\ answer'.outcome # "success")
    BY <1>4, UnchangedReplies, Replies DEF dispatch_project_save_command, Goto, Outcomes
  <2>2. QED
    BY <1>0, <1>1, <2>1 DEF SaveInv, SavedIsSaved, SameMarks
<1>5. CASE SaveConfirmed
  <2>1. pc = "wait" /\ pc' = "idle" /\ saves > work.sequence /\ answer'.path = path
    BY <1>5 DEF SaveConfirmed, IsConfirmed, NoAnswer
  <2>2. QED
    BY <1>0, <1>1, <2>1 DEF SaveInv, SavedIsSaved, SameMarks
<1>6. CASE SaveTimesOut
  <2>1. pc' = "idle" /\ answer'.outcome = "unknown"
    BY <1>6, Replies DEF SaveTimesOut, Outcomes
  <2>2. QED
    BY <1>1, <2>1 DEF SaveInv, SavedIsSaved
<1>7. QED
  BY <1>2, <1>3, <1>4, <1>5, <1>6 DEF SaveSteps

LEMMA NextSaveInv ==
    ASSUME TypeInv, SaveInv, [Next]_hostVars
    PROVE  SaveInv'
<1>1. CASE UNCHANGED hostVars
  BY <1>1 DEF hostVars, SaveInv, SavedIsSaved, IsSave
<1>2. ASSUME NEW c \in Commands, Arrive(c)
      PROVE  SaveInv'
  BY <1>2, NothingTyped DEF Arrive, Goto, SaveInv, SavedIsSaved
<1>3. CASE Worker /\ ~IsSave
  BY <1>3, ByWorker, WorkerMarks, ApartSaveInv
<1>4. CASE Worker /\ IsSave
  <2>1. CASE Begin
    <3>1. /\ pc' \in {"commitPoint", "idle"} /\ (pc' = "idle" => answer'.outcome = "unchanged")
          /\ UNCHANGED <<done, path>>
      BY <1>4, <2>1, FirstSteps, UnchangedReplies DEF Begin, Goto, workerVars, TypeInv
    <3>2. QED
      BY <3>1 DEF SaveInv, SavedIsSaved
  <2>2. CASE SaveSteps
    BY <2>2, SaveStepsSaveInv
  <2>3. ~EditSteps /\ ~PsdSteps
    BY <1>4 DEF EditSteps, PsdSteps, IsSave, IsEdit, IsPsd, EditKinds, ViewKinds
  <2>4. QED
    BY <1>4, <2>1, <2>2, <2>3 DEF Worker
<1>5. CASE OwnDropLands
  BY <1>5 DEF OwnDropLands, SameMarks, SameWork, SaveInv, SavedIsSaved, IsSave
<1>6. QED
  BY <1>1, <1>2, <1>3, <1>4, <1>5, UserStep, MainThreadStep, OthersSaveInv DEF Next

-----------------------------------------------------------------------------
LEMMA OthersAnswerInv ==
    ASSUME AnswerInv, OthersStep \/ OwnDropLands
    PROVE  AnswerInv'
<1>0. /\ pc' = pc /\ request' = request /\ answer' = answer /\ work' = work
      /\ done'.applied = done.applied /\ done'.command = done.command
      /\ pc = "idle" => done'.changed = done.changed
      /\ IsSave' = IsSave /\ SaidApplied(request, work.failed)' = SaidApplied(request, work.failed)
  BY DEF OthersStep, OwnDropLands, SameWork, IsSave, SaidApplied
<1>1. QED
  BY <1>0 DEF AnswerInv, AnswersTellWhatHappened, UnchangedIsTrue, StatusesAreTrue

\* A step of a request that is not at the point where a batch is recorded.
LEMMA StepAnswerInv ==
    ASSUME AnswerInv, SameRequest, done'.command = done.command, ~IsSave,
           request.kind = "batch" => pc' # "record",
           pc' = "idle" /\ answer'.outcome = "unchanged" /\ ~answer'.thrown => ~done'.changed,
           request.kind = "batch" /\ pc' = "idle" /\ answer'.outcome \in {"success", "partial"} =>
              answer'.applied = done'.applied
    PROVE  AnswerInv'
<1>1. ~done'.command /\ request' = request
  BY DEF AnswerInv, SameRequest
<1>2. QED
  BY <1>1 DEF AnswerInv, AnswersTellWhatHappened, UnchangedIsTrue, StatusesAreTrue, SameRequest

LEMMA EditStepsAnswerInv ==
    ASSUME TypeInv, RecordInv, AnswerInv, EditSteps
    PROVE  AnswerInv'
<1>0. SameRequest /\ IsEdit /\ RightStage /\ IsRequest(request) /\ ~IsSave /\ done \in Deeds
  BY ByWorker, KindsApart
     DEF Worker, EditSteps, CaptureGeneration, Preflight, CommitPoint, Edit, Record, VerifyItem,
         TypeInv
<1>1. CASE CaptureGeneration
  <2>1. pc' = "preflight" /\ done' = done
    BY <1>0, <1>1, NextSteps DEF CaptureGeneration, Goto
  <2>2. QED
    BY <1>0, <2>1, StepAnswerInv
<1>2. CASE Preflight
  <2>1. /\ done' = done /\ pc' \in {"commitPoint", "idle"} /\ ~done.changed
        /\ request.kind = "batch" /\ pc' = "idle" => answer'.outcome \in {"unchanged", "planned"}
    BY <1>0, <1>2, NextSteps, Replies, UnchangedReplies
       DEF Preflight, Goto, SdkRefuses, SetupDone, Outcomes, RecordInv, EarlyStages, EditStages
  <2>2. QED
    BY <1>0, <2>1, StepAnswerInv
<1>3. CASE CommitPoint(NextStep)
  <2>1. /\ done' = done /\ pc' \in {"edit", "idle"} /\ ~done.changed
        /\ pc' = "idle" => answer'.outcome = "unchanged"
    BY <1>0, <1>3, NextSteps, UnchangedReplies
       DEF CommitPoint, Goto, RecordInv, EarlyStages, EditStages
  <2>2. QED
    BY <1>0, <2>1, StepAnswerInv
<1>4. CASE Edit
  <2>1. pc = "edit" /\ pc' = "record"
    BY <1>0, <1>4, NextSteps DEF Edit, Goto
  <2>2. PICK r : /\ Sound(r) /\ work'.ok = r.ok /\ work'.changed = r.changed
                 /\ work'.failed = r.failed /\ done'.applied = r.applied
                 /\ done'.command = done.command
    BY <1>0, <1>4, <2>1, EditIs
  <2>3. ~done'.command /\ request' = request
    BY <1>0, <2>2 DEF AnswerInv, SameRequest
  <2>4. request.kind = "batch" /\ (work'.ok \/ work'.changed) =>
           done'.applied = SaidApplied(request, work'.failed)
    BY <2>2 DEF Sound
  <2>5. SaidApplied(request, work.failed)' = SaidApplied(request, work'.failed)
    BY <2>3 DEF SaidApplied
  <2>6. QED
    BY <2>1, <2>3, <2>4, <2>5 DEF AnswerInv, AnswersTellWhatHappened
<1>5. CASE Record
  <2>1. pc = "record" /\ (done.changed => work.changed)
    BY <1>5 DEF Record, RecordInv
  <2>2. done'.changed = done.changed /\ done'.applied = done.applied /\ done'.command = done.command
    BY <1>0, <1>5, CommitsKeep DEF Record, SameDeeds
  <2>3. CASE ~work.ok /\ ~work.changed /\ ReplyUnchanged
    BY <1>0, <2>1, <2>2, <2>3, UnchangedReplies, StepAnswerInv
  <2>4. CASE /\ request.kind = "batch" /\ (work.ok \/ work.changed)
             /\ ReplyBatch("partial") \/ ReplyBatch("success")
    <3>1. /\ pc' = "idle"
          /\ \/ answer'.outcome = "unchanged" /\ answer'.thrown
             \/ /\ answer'.outcome \in {"partial", "success"}
                /\ answer'.applied = SaidApplied(request, work.failed)
      BY <1>0, <2>4, BatchReplies DEF Ends
    <3>2. done.applied = SaidApplied(request, work.failed)
      BY <2>1, <2>4 DEF AnswerInv
    <3>3. QED
      BY <1>0, <2>2, <3>1, <3>2, StepAnswerInv
  <2>5. CASE request.kind # "batch" /\ (Reply("partial") \/ Reply("success"))
    <3>1. pc' = "idle" /\ answer'.outcome # "unchanged"
      BY <2>5, Replies DEF Outcomes
    <3>2. QED
      BY <1>0, <2>2, <2>5, <3>1, StepAnswerInv
  <2>6. CASE request.kind = "item" /\ Goto(NextStep)
    <3>1. pc' = "verify"
      BY <1>0, <2>1, <2>6, NextSteps DEF Goto
    <3>2. QED
      BY <1>0, <2>2, <3>1, StepAnswerInv
  <2>7. QED
    BY <1>5, <2>3, <2>4, <2>5, <2>6 DEF Record, ReplyEdited
<1>6. CASE VerifyItem
  <2>1. pc = "verify" /\ done' = done /\ (done.changed => work.changed) /\ request.kind = "item"
    BY <1>0, <1>6, EditStage DEF VerifyItem, RecordInv
  <2>2. pc' = "idle" /\ (answer'.outcome = "unchanged" => ~work.changed)
    BY <1>6, Replies DEF VerifyItem, Outcomes
  <2>3. QED
    BY <1>0, <2>1, <2>2, StepAnswerInv
<1>7. QED
  BY <1>1, <1>2, <1>3, <1>4, <1>5, <1>6 DEF EditSteps

LEMMA SaveStepsAnswerInv ==
    ASSUME TypeInv, RecordInv, AnswerInv, SaveSteps
    PROVE  AnswerInv'
<1>0. /\ SameRequest /\ IsSave /\ request' = request /\ IsSave' /\ request.kind # "batch"
      /\ done \in Deeds
  BY ByWorker DEF Worker, SaveSteps, SameRequest, IsSave, TypeInv
<1>1. pc \in SaveStages /\ ~done.changed
  BY DEF SaveSteps, CommitPoint, SaveStatus, CaptureSequence, dispatch_project_save_command,
         SaveConfirmed, SaveTimesOut, SaveStages, RecordInv, EarlyStages
<1>2. CASE CommitPoint("status") \/ SaveStatus \/ CaptureSequence
  <2>1. ~done.command /\ done' = done /\ pc' # "record"
    BY <1>2, UnchangedReplies
       DEF CommitPoint, SaveStatus, CaptureSequence, SdkRefuses, Goto, AnswerInv
  <2>2. QED
    BY <1>0, <1>1, <2>1 DEF AnswerInv, AnswersTellWhatHappened, UnchangedIsTrue, StatusesAreTrue
<1>3. CASE dispatch_project_save_command
  <2>1. pc = "command" /\ ~done.command
    BY <1>3 DEF dispatch_project_save_command, AnswerInv
  <2>2. CASE ReplyUnchanged /\ done' = done
    BY <1>0, <1>1, <2>1, <2>2, UnchangedReplies
       DEF AnswerInv, AnswersTellWhatHappened, UnchangedIsTrue, StatusesAreTrue
  <2>3. CASE /\ done' = [done EXCEPT !.command = TRUE]
             /\ (Goto("wait") /\ UNCHANGED answer) \/ Reply("unknown")
    <3>1. pc' = "wait" \/ (pc' = "idle" /\ answer'.outcome = "unknown")
      BY <2>3, Replies DEF Goto, Outcomes
    <3>2. QED
      BY <1>0, <3>1 DEF AnswerInv, AnswersTellWhatHappened, UnchangedIsTrue, StatusesAreTrue
  <2>4. QED
    BY <1>3, <2>2, <2>3 DEF dispatch_project_save_command
<1>4. CASE SaveConfirmed \/ SaveTimesOut
  <2>1. pc' = "idle" /\ answer'.outcome \in {"success", "unknown"}
    BY <1>4, Replies DEF SaveConfirmed, SaveTimesOut, NoAnswer, Outcomes
  <2>2. QED
    BY <1>0, <2>1 DEF AnswerInv, AnswersTellWhatHappened, UnchangedIsTrue, StatusesAreTrue
<1>5. QED
  BY <1>2, <1>3, <1>4 DEF SaveSteps

LEMMA PsdStepsAnswerInv ==
    ASSUME TypeInv, RecordInv, AnswerInv, PsdSteps
    PROVE  AnswerInv'
<1>0. /\ SameRequest /\ IsPsd /\ request' = request /\ request.kind # "batch" /\ ~IsSave
      /\ done \in Deeds
  BY ByWorker DEF Worker, PsdSteps, SameRequest, IsPsd, IsSave, TypeInv
<1>1. CASE Survey \/ Occupied \/ Probe \/ CommitPoint("position") \/ PositionCursor
               \/ CheckPosition \/ send_files
  <2>1. done' = done
    BY <1>1 DEF Survey, Occupied, Probe, CommitPoint, PositionCursor, CheckPosition, send_files,
                Refuse, KeepProject
  <2>2. pc \in EarlyStages
    BY <1>1 DEF Survey, Occupied, Probe, CommitPoint, PositionCursor, CheckPosition, send_files,
                EarlyStages, PlacingStages
  <2>3. ~done.changed
    BY <2>2 DEF RecordInv
  <2>4. QED
    BY <1>0, <2>1, <2>3, StepAnswerInv
<1>2. CASE PollFinds \/ PollGivesUp \/ Rename \/ Renamed \/ SetCharacter \/ Failed
               \/ VerifyCharacter \/ CreateSubtitle \/ PollSubtitle
  <2>1. pc' = "idle" => answer'.outcome # "unchanged" \/ answer'.thrown
    BY <1>2, Replies, ThrownReplies
       DEF PollFinds, PollGivesUp, Rename, Renamed, SetCharacter, Failed, VerifyCharacter,
           CreateSubtitle, PollSubtitle, Proceed, Goto, FailPartially, Outcomes
  <2>2. done'.command = done.command
    <3>1. CASE done' = done
      BY <3>1
    <3>2. CASE FailPartially \/ Commit({"content"})
      BY <1>0, <3>2, CommitsKeep DEF FailPartially, SameDeeds
    <3>3. CASE \E p : Changes(p, {"content"})
      BY <1>0, <3>3, ChangesAre
    <3>4. QED
      BY <1>2, <3>1, <3>2, <3>3
         DEF PollFinds, PollGivesUp, Rename, Renamed, SetCharacter, Failed, VerifyCharacter,
             CreateSubtitle, PollSubtitle, Remember, Relabel
  <2>3. QED
    BY <1>0, <2>1, <2>2, StepAnswerInv
<1>3. QED
  BY <1>1, <1>2 DEF PsdSteps

LEMMA NextAnswerInv ==
    ASSUME TypeInv, RecordInv, AnswerInv, [Next]_hostVars
    PROVE  AnswerInv'
<1>1. CASE UNCHANGED hostVars
  BY <1>1 DEF hostVars, AnswerInv, AnswersTellWhatHappened, UnchangedIsTrue, StatusesAreTrue,
              IsSave, SaidApplied
<1>2. ASSUME NEW c \in Commands, Arrive(c)
      PROVE  AnswerInv'
  BY <1>2, NothingTyped DEF Arrive, Goto, AnswerInv, AnswersTellWhatHappened
<1>3. CASE Begin
  <2>1. SameRequest /\ done' = done /\ ~done.changed /\ ~done.command /\ IsRequest(request)
    BY <1>3, ByWorker DEF Begin, Worker, RecordInv, EarlyStages, AnswerInv, TypeInv
  <2>2. \/ pc' = "idle" /\ answer'.outcome = "unchanged"
        \/ pc' \in {"capture", "preflight", "commitPoint", "survey"}
    BY <1>3, <2>1, FirstSteps, KindsApart, UnchangedReplies DEF Begin, Goto
  <2>3. QED
    BY <2>1, <2>2 DEF AnswerInv, AnswersTellWhatHappened, UnchangedIsTrue, StatusesAreTrue
<1>4. QED
  BY <1>1, <1>2, <1>3, EditStepsAnswerInv, SaveStepsAnswerInv, PsdStepsAnswerInv, UserStep,
     MainThreadStep, OthersAnswerInv DEF Next, Worker

-----------------------------------------------------------------------------
LEMMA NextPlanPredicts ==
    ASSUME TypeInv, PlanPredictsTheBatch, [Next]_hostVars
    PROVE  PlanPredictsTheBatch'
<1>1. CASE UNCHANGED hostVars
  BY <1>1 DEF hostVars, PlanPredictsTheBatch
<1>2. CASE User \/ MainThread
  BY <1>2, UserStep, MainThreadStep
     DEF OthersStep, OwnDropLands, SameWork, PlanPredictsTheBatch
<1>3. CASE Edit /\ IsEdit
  <2>1. pc = "edit" /\ request' = request
    BY <1>3 DEF Edit, workerVars
  <2>2. PICK r : Sound(r) /\ work'.failed = r.failed /\ done'.refused = r.refused
    BY <1>3, <2>1, EditIs
  <2>3. QED
    BY <2>1, <2>2 DEF Sound, PlanPredictsTheBatch
<1>4. ASSUME pc' # "record"
      PROVE  PlanPredictsTheBatch'
  BY <1>4 DEF PlanPredictsTheBatch
<1>5. CASE Begin
  <2>1. pc' \in {"idle", "capture", "preflight", "commitPoint", "survey"}
    BY <1>5, FirstSteps, KindsApart, UnchangedReplies DEF Begin, Goto, TypeInv
  <2>2. QED
    BY <1>4, <2>1
<1>6. CASE EditSteps
  <2>1. IsEdit /\ RightStage /\ IsRequest(request)
    BY <1>6 DEF EditSteps, CaptureGeneration, Preflight, CommitPoint, Edit, Record, VerifyItem,
                TypeInv
  <2>2. CASE ~Edit
    <3>1. pc' # "record"
      BY <1>6, <2>1, <2>2, NextSteps, Replies, UnchangedReplies, BatchReplies
         DEF EditSteps, CaptureGeneration, Preflight, CommitPoint, Record, VerifyItem, ReplyEdited,
             SdkRefuses, Goto, Ends, Outcomes
    <3>2. QED
      BY <1>4, <3>1
  <2>3. QED
    BY <1>3, <2>1, <2>2
<1>7. CASE SaveSteps
  <2>1. pc' # "record"
    BY <1>7, UnchangedReplies, Replies
       DEF SaveSteps, CommitPoint, SaveStatus, CaptureSequence, dispatch_project_save_command,
           SaveConfirmed, SaveTimesOut, SdkRefuses, Goto, Outcomes
  <2>2. QED
    BY <1>4, <2>1
<1>8. CASE PsdSteps
  <2>1. request' = request /\ request.kind # "batch"
    BY <1>8, ByWorker DEF Worker, PsdSteps, IsPsd, SameRequest
  <2>2. QED
    BY <2>1 DEF PlanPredictsTheBatch
<1>9. ASSUME NEW c \in Commands, Arrive(c)
      PROVE  PlanPredictsTheBatch'
  BY <1>4, <1>9 DEF Arrive, Goto
<1>10. QED
  BY <1>1, <1>2, <1>5, <1>6, <1>7, <1>8, <1>9 DEF Next, Worker
-----------------------------------------------------------------------------
(* The theorems *)

LEMMA InitIInv ==
    ASSUME Init
    PROVE  IInv
<1>1. TypeInv
  BY InitTypeInv
<1>2. RecordInv
  BY NothingTyped, StagesApart DEF Init, HostInit, RecordInv, EveryChangeIsRecorded
<1>3. DropInv
  BY DEF Init, HostInit, DropInv, OwnDrop, NoRequest, IsPsd
<1>4. SaveInv
  BY NothingTyped DEF Init, HostInit, SaveInv, SavedIsSaved, NoRequest, IsSave
<1>5. AnswerInv
  BY NothingTyped
     DEF Init, HostInit, AnswerInv, AnswersTellWhatHappened, UnchangedIsTrue, StatusesAreTrue,
         NoRequest, NoAnswer
<1>6. PlanPredictsTheBatch
  BY DEF Init, HostInit, PlanPredictsTheBatch
<1>7. QED
  BY <1>1, <1>2, <1>3, <1>4, <1>5, <1>6 DEF IInv

LEMMA NextIInv ==
    ASSUME IInv, [Next]_hostVars
    PROVE  IInv'
BY NextTypeInv, NextRecordInv, NextDropInv, NextSaveInv, NextAnswerInv, NextPlanPredicts DEF IInv

\* The inductive invariant holds in every reachable state.
THEOREM Invariance == Spec => []IInv
BY InitIInv, NextIInv, PTL DEF Spec

\* The state has its type: whatever the user, GCMZDrops and the handlers do to the project, no
\* two objects of it fill one place, and a request has an answer just when it is over.
THEOREM TypeCorrect == Spec => []TypeOK
<1>1. IInv => TypeOK
  <2>1. TypeInv => TypeOK
    BY DEF TypeInv, TypeOK, Drops, Answers, Deeds
  <2>2. QED
    BY <2>1 DEF IInv
<1>2. QED
  BY <1>1, Invariance, PTL

\* The operations of a batch that was planned in the edit section fail only where AviUtl2
\* refuses one, or where one meets a further object of an alias that was created before it:
\* but for those objects edit_sdk_batch's plan, with its marks and numbers for objects to come,
\* follows what the functions of the facade do to the timeline, for any timeline, any operations
\* and whatever AviUtl2 makes of an alias.
THEOREM PlanIsRight == Spec => []PlanPredictsTheBatch
BY Invariance, PTL DEF IInv

\* A request that changed the project has moved the revisions that show it when it is answered,
\* on every path through the handlers, the failing ones and the drops of GCMZDrops included.
THEOREM ChangesAreRecorded == Spec => []EveryChangeIsRecorded
<1>1. IInv => EveryChangeIsRecorded
  BY DEF IInv, RecordInv
<1>2. QED
  BY <1>1, Invariance, PTL

\* "unchanged" is answered only when nothing was changed and no save asked for, and the
\* operations of a batch that are said to be applied are those that were.
THEOREM AnswersAreTrue == Spec => []AnswersTellWhatHappened
<1>1. IInv => AnswersTellWhatHappened
  BY DEF IInv, AnswerInv
<1>2. QED
  BY <1>1, Invariance, PTL

\* save_project reports a path only after a save callback that came since the request began,
\* and it is a path that was saved since then, unless a project was opened meanwhile.
THEOREM SavesAreTrue == Spec => []SavedIsSaved
<1>1. IInv => SavedIsSaved
  BY DEF IInv, SaveInv
<1>2. QED
  BY <1>1, Invariance, PTL

\* A drop of GCMZDrops that is carried out after the answer was announced by it.
THEOREM LateDropsAreAnnounced == Spec => LateDropIsAnnounced
<1> DEFINE Announced == pc = "idle" /\ drop # NoDrop /\ drop.number = sent
                            => answer.outcome = "partial" \/ Disturbed
<1>1. IInv => Announced
  BY DEF IInv, DropInv, OwnDrop
<1>2. Announced =>
         [pc = "idle" /\ drop # NoDrop /\ drop.number = sent /\ drop' = NoDrop
              /\ project' # project => answer.outcome = "partial" \/ Disturbed]_hostVars
  OBVIOUS
<1> HIDE DEF Announced
<1>3. QED
  BY <1>1, <1>2, Invariance, PTL DEF LateDropIsAnnounced
=============================================================================
