------------------------- MODULE ObjectEdits_proofs -------------------------
(***************************************************************************)
(* Proofs about ObjectEdits: however the user, project loads and requests  *)
(* interleave, and for any timeline and any commands, one revision is good *)
(* for one edit, an edit changes only what its locator names and nothing   *)
(* on a locked layer, the timeline stays well-formed, an edit is answered  *)
(* honestly, and what a client was told stays true until it is told of a   *)
(* new revision or somebody outside of the Bridge edits.                   *)
(***************************************************************************)
EXTENDS ObjectEdits, FiniteSetTheorems, SequenceTheorems, TLAPS

CheckedStages == {"matched", "captured", "planned", "committed"}
JobFields == {"pc", "client", "request", "generation", "outcome", "prints", "changed", "since"}
ObjectFields == {"scene", "layer", "start", "end", "label", "sections"}

\* Updates of job and of an object reach the fields they name.
JobShaped == \/ job = Idle
             \/ DOMAIN job = JobFields /\ job.pc \in JobStages
ObjectsShaped == \A h \in DOMAIN objects : DOMAIN objects[h] = ObjectFields

\* What kind of request has which command, and which gets past matches_content.
RequestShaped ==
    job.pc # "idle" =>
        /\ job.request.kind \in {"query", "edit", "create"}
        /\ job.request.kind = "edit" =>
              job.request.command.kind \in CommandKinds \ {"create"}
        /\ job.request.kind = "create" => job.request.command.kind = "create"
        /\ job.pc \in CheckedStages => job.request.kind # "query"

\* Every revision that was quoted by an edit is older than the current one, or is about to be.
SpentBefore ==
    \A r \in spent :
        /\ r \in Nat \X Nat
        /\ \/ r[1] < generation
           \/ r[1] = generation /\ r[2] < counter
           \/ r[1] = generation /\ r[2] = counter /\ job.pc = "edited"

\* A revision that passed matches_content has not been used since.
QuotedOnce ==
    job.pc \in CheckedStages =>
        /\ job.request.revision \in Nat \X Nat
        /\ job.request.revision \notin spent
        /\ job.request.revision[1] < generation \/ job.request.revision = Revision

IInv ==
    /\ generation \in Nat /\ counter \in Nat
    /\ JobShaped /\ ObjectsShaped /\ RequestShaped /\ SpentBefore /\ QuotedOnce

-----------------------------------------------------------------------------
\* Adding or removing one object keeps the shape of all.
LEMMA ShapesKept ==
    ASSUME ObjectsShaped, NEW h, NEW o, DOMAIN o = ObjectFields
    PROVE  /\ \A g \in DOMAIN With(h, o) : DOMAIN With(h, o)[g] = ObjectFields
           /\ \A g \in DOMAIN Without(h) : DOMAIN Without(h)[g] = ObjectFields
BY DEF ObjectsShaped, With, Without

\* A moved or split object has the shape of an object and is where it should be.
LEMMA ShapeOfOperators ==
    ASSUME ObjectsShaped, NEW h \in DOMAIN objects, NEW layer, NEW frame, NEW index
    PROVE  LET o == objects[h]
           IN  /\ DOMAIN Shifted(o, layer, frame) = ObjectFields
               /\ Shifted(o, layer, frame).layer = layer
               /\ Shifted(o, layer, frame).scene = o.scene
               /\ DOMAIN Split(o, frame) = ObjectFields
               /\ Split(o, frame).layer = o.layer /\ Split(o, frame).scene = o.scene
BY DEF ObjectsShaped, ObjectFields, Shifted, Split

-----------------------------------------------------------------------------
\* The initial states satisfy the invariant.
LEMMA InitIInv == Init => IInv
<1> SUFFICES ASSUME Init PROVE IInv
  OBVIOUS
<1>1. generation = 0 /\ counter = 0 /\ job = Idle /\ spent = {}
  BY DEF Init
<1>2. job.pc = "idle"
  BY <1>1 DEF Idle
<1>3. JobShaped /\ RequestShaped /\ SpentBefore /\ QuotedOnce
  BY <1>1, <1>2 DEF JobShaped, RequestShaped, SpentBefore, QuotedOnce, CheckedStages
<1>4. ObjectsShaped
  <2>1. PICK p \in Projects : objects = p.objects
    BY DEF Init
  <2>2. \A h \in DOMAIN objects : objects[h] \in Object
    BY <2>1, EditsAssumption
  <2>3. QED
    BY <2>2 DEF ObjectsShaped, Object, ObjectFields
<1>5. QED
  BY <1>1, <1>3, <1>4 DEF IInv

\* A step of the user leaves the job alone; what was quoted only grows older.
LEMMA UserKeepsIInv ==
    ASSUME IInv, User
    PROVE  IInv'
<1>1. job' = job /\ spent' = spent
  BY DEF User, UserMoves, UserSplits, UserRenames, UserDeletes, UserLocks, UserSwitchesScene,
         LoadProject, UserEdits
<1>2. \/ generation' = generation /\ counter' = counter
      \/ generation' = generation + 1 /\ counter' = 0
  BY DEF User, UserMoves, UserSplits, UserRenames, UserDeletes, UserLocks, UserSwitchesScene,
         LoadProject, UserEdits, tracker
<1>3. ObjectsShaped'
  <2> USE DEF IInv
  <2>1. ASSUME NEW h \in DOMAIN objects, NEW layer \in Layers, NEW frame \in Frames,
               UserMoves(h, layer, frame)
        PROVE  ObjectsShaped'
    BY <2>1, ShapesKept, ShapeOfOperators DEF UserMoves, UserEdits, ObjectsShaped
  <2>2. ASSUME NEW h \in DOMAIN objects, NEW frame \in Frames, UserSplits(h, frame)
        PROVE  ObjectsShaped'
    BY <2>2, ShapesKept, ShapeOfOperators DEF UserSplits, UserEdits, ObjectsShaped
  <2>3. ASSUME NEW h \in DOMAIN objects, NEW label \in Labels, UserRenames(h, label)
        PROVE  ObjectsShaped'
    <3>1. DOMAIN [objects[h] EXCEPT !.label = label] = ObjectFields
      BY DEF ObjectsShaped
    <3>2. QED
      BY <2>3, <3>1, ShapesKept DEF UserRenames, UserEdits, ObjectsShaped
  <2>4. ASSUME NEW h \in DOMAIN objects, UserDeletes(h)
        PROVE  ObjectsShaped'
    BY <2>4 DEF UserDeletes, UserEdits, ObjectsShaped, Without
  <2>5. ASSUME NEW p \in Projects, LoadProject(p)
        PROVE  ObjectsShaped'
    <3>1. objects' = p.objects
      BY <2>5 DEF LoadProject
    <3>2. \A h \in DOMAIN objects' : objects'[h] \in Object
      BY <3>1, EditsAssumption
    <3>3. QED
      BY <3>2 DEF ObjectsShaped, Object, ObjectFields
  <2>6. ASSUME objects' = objects
        PROVE  ObjectsShaped'
    BY <2>6 DEF ObjectsShaped
  <2>7. QED
    BY <2>1, <2>2, <2>3, <2>4, <2>5, <2>6
    DEF User, UserLocks, UserSwitchesScene, UserEdits, Visible
<1>4. generation' \in Nat /\ counter' \in Nat
  BY <1>2 DEF IInv
<1>5. SpentBefore'
  BY <1>1, <1>2 DEF IInv, SpentBefore
<1>6. QuotedOnce'
  BY <1>1, <1>2 DEF IInv, QuotedOnce, Revision
<1>7. JobShaped' /\ RequestShaped'
  BY <1>1 DEF IInv, JobShaped, RequestShaped
<1>8. QED
  BY <1>3, <1>4, <1>5, <1>6, <1>7 DEF IInv

\* The steps of the worker that leave timeline, revision and what was spent alone take the job
\* one stage further.
Waits(stages) ==
    /\ UNCHANGED <<objects, generation, counter, spent>>
    /\ job.pc \notin {"idle", "edited"}
    /\ DOMAIN job' = JobFields /\ job'.pc \in stages /\ job'.request = job.request

\* Such a step keeps the invariant: only matches_content moves a job into CheckedStages.
LEMMA WaitsKeepsIInv ==
    ASSUME IInv,
           \/ Waits({"done", "counted"})
           \/ job.pc \in CheckedStages /\ Waits(CheckedStages)
    PROVE  IInv'
<1>1. /\ UNCHANGED <<objects, generation, counter, spent>>
      /\ DOMAIN job' = JobFields /\ job'.request = job.request
      /\ job'.pc \in {"done", "counted"} \cup CheckedStages
      /\ job'.pc \in CheckedStages => job.pc \in CheckedStages
      /\ job.pc \notin {"idle", "edited"}
  BY DEF Waits, CheckedStages
<1>2. JobShaped' /\ RequestShaped'
  BY <1>1 DEF IInv, JobShaped, RequestShaped, JobStages, CheckedStages
<1>3. SpentBefore' /\ QuotedOnce'
  BY <1>1 DEF IInv, SpentBefore, QuotedOnce, Revision
<1>4. ObjectsShaped'
  BY <1>1 DEF IInv, ObjectsShaped
<1>5. QED
  BY <1>1, <1>2, <1>3, <1>4 DEF IInv

\* The gate worker takes up a request: nothing was checked yet.
LEMMA StartKeepsIInv ==
    ASSUME IInv, NEW c, NEW r, Start(c, r),
           r.kind \in {"query", "edit", "create"},
           r.kind = "edit" => r.command.kind \in CommandKinds \ {"create"},
           r.kind = "create" => r.command.kind = "create"
    PROVE  IInv'
<1>1. /\ UNCHANGED <<objects, generation, counter, spent>>
      /\ DOMAIN job' = JobFields /\ job'.pc = "started" /\ job'.request = r
      /\ job.pc = "idle"
  BY DEF Start, At, timeline, tracker, JobFields
<1>2. JobShaped' /\ RequestShaped'
  BY <1>1 DEF JobShaped, RequestShaped, JobStages, CheckedStages
<1>3. SpentBefore' /\ QuotedOnce'
  BY <1>1 DEF IInv, SpentBefore, QuotedOnce, CheckedStages
<1>4. ObjectsShaped'
  BY <1>1 DEF IInv, ObjectsShaped
<1>5. QED
  BY <1>1, <1>2, <1>3, <1>4 DEF IInv

\* What the edit section does to the timeline, by the kind of the command.
LEMMA AppliedTouchesOne ==
    ASSUME IInv, NEW c, NEW h, c.kind \in CommandKinds,
           c.kind = "create" => h \notin DOMAIN objects,
           c.kind # "create" => h \in DOMAIN objects
    PROVE  /\ \A g \in DOMAIN objects \ {h} : g \in DOMAIN Applied(c, h) /\ Applied(c, h)[g] = objects[g]
           /\ DOMAIN Applied(c, h) \subseteq DOMAIN objects \cup {h}
           /\ h \in DOMAIN Applied(c, h) =>
                 LET o == Applied(c, h)[h]
                 IN  /\ DOMAIN o = ObjectFields
                     /\ o.layer = IF c.kind \in {"move", "create"} THEN c.layer ELSE objects[h].layer
                     /\ o.scene = IF c.kind = "create" THEN c.scene ELSE objects[h].scene
<1>1. CASE c.kind = "create"
  <2>1. Applied(c, h) = With(h, New(c))
    BY <1>1 DEF Applied
  <2>2. DOMAIN New(c) = ObjectFields /\ New(c).layer = c.layer /\ New(c).scene = c.scene
    BY DEF New, ObjectFields
  <2>3. QED
    BY <1>1, <2>1, <2>2 DEF With
<1>2. CASE c.kind = "move"
  <2>1. Applied(c, h) = With(h, Shifted(objects[h], c.layer, c.frame))
    BY <1>2 DEF Applied
  <2>2. QED
    BY <1>2, <2>1, ShapeOfOperators DEF With, IInv
<1>3. CASE c.kind = "delete"
  BY <1>3 DEF Applied, Without
<1>4. CASE c.kind = "createSection"
  <2>1. Applied(c, h) = With(h, Split(objects[h], c.frame))
    BY <1>4 DEF Applied
  <2>2. QED
    BY <1>4, <2>1, ShapeOfOperators DEF With, IInv
<1>5. CASE c.kind \in {"name", "deleteSection", "moveSection"}
  <2>1. PICK o : /\ Applied(c, h) = With(h, o) /\ DOMAIN o = ObjectFields
                 /\ o.layer = objects[h].layer /\ o.scene = objects[h].scene
    <3>1. CASE c.kind = "name"
      BY <3>1 DEF Applied, IInv, ObjectsShaped, ObjectFields
    <3>2. CASE c.kind = "deleteSection"
      BY <3>2 DEF Applied, IInv, ObjectsShaped, ObjectFields
    <3>3. CASE c.kind = "moveSection"
      BY <3>3 DEF Applied, IInv, ObjectsShaped, ObjectFields
    <3>4. QED
      BY <1>5, <3>1, <3>2, <3>3
  <2>2. QED
    BY <1>5, <2>1 DEF With
<1>6. QED
  BY <1>1, <1>2, <1>3, <1>4, <1>5 DEF CommandKinds

\* What is edited: an object that may be, or a handle that is free.
LEMMA EditTargets ==
    ASSUME IInv, NEW h, EditSection(h)
    PROVE  /\ job.request.command.kind \in CommandKinds
           /\ \/ /\ job.request.kind = "create" /\ job.request.command.kind = "create"
                 /\ MayCreate(job.request.command, h) /\ h \notin DOMAIN objects
              \/ /\ job.request.kind = "edit" /\ job.request.command.kind # "create"
                 /\ MayEdit(job.request, job.generation, h) /\ h \in DOMAIN objects
<1>1. job.pc = "committed" /\ Target(h)
  BY DEF EditSection, At
<1>2. \/ job.request.kind = "create" /\ job.request.command.kind = "create"
      \/ job.request.kind = "edit" /\ job.request.command.kind \in CommandKinds \ {"create"}
  BY <1>1 DEF IInv, RequestShaped, CheckedStages
<1>3. CASE job.request.kind = "create"
  BY <1>1, <1>2, <1>3 DEF Target, MayCreate, CommandKinds
<1>4. CASE job.request.kind = "edit"
  <2>1. MayEdit(job.request, job.generation, h)
    BY <1>1, <1>4 DEF Target
  <2>2. h \in DOMAIN objects
    BY <2>1 DEF MayEdit, Resolves, Visible
  <2>3. QED
    BY <1>2, <1>4, <2>1, <2>2
<1>5. QED
  BY <1>2, <1>3, <1>4

\* The edit section changes one handle only, and puts that object where the command says.
LEMMA EditSectionTouchesOne ==
    ASSUME IInv, NEW h, EditSection(h)
    PROVE  /\ \A g \in DOMAIN objects \ {h} : g \in DOMAIN objects' /\ objects'[g] = objects[g]
           /\ DOMAIN objects' \subseteq DOMAIN objects \cup {h}
           /\ h \in DOMAIN objects' =>
                 LET o == objects'[h]
                     c == job.request.command
                 IN  /\ DOMAIN o = ObjectFields
                     /\ o.layer = IF c.kind \in {"move", "create"} THEN c.layer ELSE objects[h].layer
                     /\ o.scene = IF c.kind = "create" THEN c.scene ELSE objects[h].scene
<1>1. objects' = Applied(job.request.command, h)
  BY DEF EditSection
<1>2. /\ job.request.command.kind \in CommandKinds
      /\ job.request.command.kind = "create" => h \notin DOMAIN objects
      /\ job.request.command.kind # "create" => h \in DOMAIN objects
  BY EditTargets
<1>3. QED
  BY <1>1, <1>2, AppliedTouchesOne

\* The object ends up on a layer that is not locked.
LEMMA EditLandsUnlocked ==
    ASSUME IInv, NEW h, EditSection(h), h \in DOMAIN objects'
    PROVE  <<objects'[h].scene, objects'[h].layer>> \notin locked
<1> DEFINE c == job.request.command
<1>1. /\ objects'[h].layer = IF c.kind \in {"move", "create"} THEN c.layer ELSE objects[h].layer
      /\ objects'[h].scene = IF c.kind = "create" THEN c.scene ELSE objects[h].scene
  BY EditSectionTouchesOne
<1>2. CASE c.kind = "create"
  <2>1. MayCreate(c, h)
    BY <1>2, EditTargets
  <2>2. QED
    BY <1>1, <1>2, <2>1 DEF MayCreate, Locked
<1>3. CASE c.kind # "create"
  <2>1. MayEdit(job.request, job.generation, h)
    BY <1>3, EditTargets
  <2>2. objects[h].scene = scene /\ <<scene, objects[h].layer>> \notin locked /\ Permits(c, h)
    BY <2>1 DEF MayEdit, Resolves, Visible, Active, Locked
  <2>3. c.kind = "move" => <<scene, c.layer>> \notin locked
    BY <2>2 DEF Permits, Locked
  <2>4. QED
    BY <1>1, <1>3, <2>2, <2>3
<1>4. QED
  BY <1>2, <1>3

\* The worker goes from "committed" to "edited" in the edit section only.
LEMMA EditsIsEditSection ==
    ASSUME IInv, [Next]_vars, Edits
    PROVE  \E h \in Handles : EditSection(h)
<1>1. job.pc = "committed" /\ job'.pc = "edited" /\ job' # job
  BY DEF Edits, At
<1>2. ~User
  BY <1>1 DEF User, UserMoves, UserSplits, UserRenames, UserDeletes, UserLocks, UserSwitchesScene,
              LoadProject, UserEdits
<1>3. Works
  BY <1>1, <1>2 DEF Next, vars
<1>4. ~EditFails /\ \A h \in Handles : ~EditHasNoEffect(h)
  <2>1. DOMAIN job = JobFields
    BY <1>1 DEF IInv, JobShaped, Idle
  <2>2. QED
    BY <1>1, <2>1 DEF EditFails, EditHasNoEffect, Done, JobFields
<1>5. QED
  BY <1>1, <1>3, <1>4 DEF Works, StartQuery, StartEdit, StartCreate, Start, CheckRevision,
     CaptureGeneration, ReadSection, PreflightFails, ReachCommitPoint, CommitContentChange,
     ReadGeneration, Respond, Preflight, At

\* A step of the gate worker keeps the invariant, action by action.
LEMMA WorksKeepsIInv ==
    ASSUME IInv, Works
    PROVE  IInv'
<1>1. ASSUME NEW c \in Clients, StartQuery(c)
      PROVE  IInv'
  BY <1>1, StartKeepsIInv DEF StartQuery
<1>2. ASSUME NEW c \in Clients, NEW cmd \in Commands, NEW dry \in BOOLEAN, StartCreate(c, cmd, dry)
      PROVE  IInv'
  BY <1>2, StartKeepsIInv DEF StartCreate
<1>3. ASSUME NEW c \in Clients, NEW cmd \in Commands, NEW dry \in BOOLEAN,
             NEW loc \in held[c].locators, StartEdit(c, cmd, loc, dry)
      PROVE  IInv'
  <2>1. cmd.kind \in CommandKinds \ {"create"}
    BY <1>3, EditsAssumption DEF StartEdit
  <2>2. QED
    BY <1>3, <2>1, StartKeepsIInv DEF StartEdit
<1>4. CASE CheckRevision
  <2>1. /\ UNCHANGED <<objects, generation, counter, spent>>
        /\ job.pc = "started" /\ DOMAIN job = JobFields /\ job.request.kind # "query"
    BY <1>4 DEF CheckRevision, At, timeline, tracker, IInv, JobShaped, Idle
  <2>2. CASE job.request.revision = Revision
    <3>1. DOMAIN job' = JobFields /\ job'.pc = "matched" /\ job'.request = job.request
      BY <1>4, <2>1, <2>2 DEF CheckRevision, RevisionMatches, Go, JobFields
    <3>2. Revision \in Nat \X Nat /\ Revision \notin spent
      BY <2>1 DEF IInv, SpentBefore, Revision
    <3>3. JobShaped' /\ RequestShaped'
      BY <2>1, <3>1 DEF IInv, JobShaped, RequestShaped, JobStages, CheckedStages
    <3>4. SpentBefore'
      BY <2>1, <3>1 DEF IInv, SpentBefore
    <3>5. QuotedOnce'
      BY <2>1, <2>2, <3>1, <3>2 DEF QuotedOnce, Revision
    <3>6. QED
      BY <2>1, <3>3, <3>4, <3>5 DEF IInv, ObjectsShaped
  <2>3. CASE job.request.revision # Revision
    <3>1. Done("unchanged", {})
      BY <1>4, <2>3 DEF CheckRevision, RevisionMatches
    <3>2. Waits({"done", "counted"})
      BY <2>1, <3>1 DEF Waits, Done, JobFields
    <3>3. QED
      BY <3>2, WaitsKeepsIInv
  <2>4. QED
    BY <2>2, <2>3
<1>5. ASSUME \/ CaptureGeneration \/ ReadSection \/ PreflightFails \/ ReachCommitPoint
             \/ EditFails \/ ReadGeneration
             \/ \E h \in Handles : Preflight(h) \/ EditHasNoEffect(h)
      PROVE  IInv'
  <2>1. /\ UNCHANGED <<objects, generation, counter, spent>>
        /\ job.pc \in CheckedStages \cup {"started", "counted"}
    BY <1>5 DEF CaptureGeneration, ReadSection, PreflightFails, ReachCommitPoint, EditFails,
                ReadGeneration, Preflight, EditHasNoEffect, At, timeline, tracker, CheckedStages
  <2>2. DOMAIN job = JobFields
    BY <2>1 DEF IInv, JobShaped, Idle, CheckedStages
  <2>3. /\ DOMAIN job' = JobFields /\ job'.request = job.request
        /\ \/ job'.pc \in {"done", "counted"}
           \/ job.pc \in CheckedStages /\ job'.pc \in CheckedStages
    <3>1. ASSUME NEW outcome, NEW prints, Done(outcome, prints)
          PROVE  DOMAIN job' = JobFields /\ job'.request = job.request /\ job'.pc = "done"
      BY <2>2, <3>1 DEF Done, JobFields
    <3>2. ASSUME NEW pc, Go(pc)
          PROVE  DOMAIN job' = JobFields /\ job'.request = job.request /\ job'.pc = pc
      BY <2>2, <3>2 DEF Go, JobFields
    <3>3. CASE CaptureGeneration
      BY <2>2, <3>3 DEF CaptureGeneration, At, JobFields, CheckedStages
    <3>4. CASE ReadSection
      BY <2>2, <3>4 DEF ReadSection, JobFields
    <3>5. CASE PreflightFails
      BY <3>1, <3>5 DEF PreflightFails
    <3>6. CASE ReachCommitPoint
      BY <3>1, <3>2, <3>6 DEF ReachCommitPoint, At, CheckedStages
    <3>7. CASE EditFails
      BY <3>1, <3>7 DEF EditFails
    <3>8. CASE ReadGeneration
      BY <2>2, <3>1, <3>8 DEF ReadGeneration, JobFields
    <3>9. ASSUME NEW h \in Handles, Preflight(h)
          PROVE  <2>3
      BY <3>1, <3>2, <3>9 DEF Preflight, At, CheckedStages
    <3>10. ASSUME NEW h \in Handles, EditHasNoEffect(h)
           PROVE  <2>3
      BY <2>2, <3>10 DEF EditHasNoEffect, JobFields
    <3>11. QED
      BY <1>5, <3>3, <3>4, <3>5, <3>6, <3>7, <3>8, <3>9, <3>10
  <2>4. \/ Waits({"done", "counted"})
        \/ job.pc \in CheckedStages /\ Waits(CheckedStages)
    BY <2>1, <2>3 DEF Waits, CheckedStages
  <2>5. QED
    BY <2>4, WaitsKeepsIInv
<1>6. ASSUME NEW h \in Handles, EditSection(h)
      PROVE  IInv'
  <2>1. /\ objects' = Applied(job.request.command, h) /\ UNCHANGED <<generation, counter>>
        /\ spent' = spent \cup {job.request.revision} /\ job.pc = "committed"
    BY <1>6 DEF EditSection, At, tracker
  <2>2. DOMAIN job' = JobFields /\ job'.pc = "edited" /\ job'.request = job.request
    <3>1. DOMAIN job = JobFields
      BY <2>1 DEF IInv, JobShaped, Idle
    <3>2. QED
      BY <1>6, <3>1 DEF EditSection, JobFields
  <2>3. JobShaped' /\ RequestShaped'
    BY <2>1, <2>2 DEF IInv, JobShaped, RequestShaped, JobStages, CheckedStages
  <2>4. SpentBefore'
    BY <2>1, <2>2 DEF IInv, SpentBefore, QuotedOnce, CheckedStages, Revision
  <2>5. QuotedOnce'
    BY <2>2 DEF QuotedOnce, CheckedStages
  <2>6. ObjectsShaped'
    BY <1>6, <2>1, EditSectionTouchesOne DEF IInv, ObjectsShaped
  <2>7. QED
    BY <2>1, <2>3, <2>4, <2>5, <2>6 DEF IInv
<1>7. CASE CommitContentChange
  <2>1. /\ UNCHANGED <<objects, generation, spent>> /\ counter' = counter + 1
        /\ job.pc = "edited" /\ DOMAIN job = JobFields
    BY <1>7 DEF CommitContentChange, At, timeline, IInv, JobShaped, Idle
  <2>2. DOMAIN job' = JobFields /\ job'.pc = "counted" /\ job'.request = job.request
    BY <1>7, <2>1 DEF CommitContentChange, Go, JobFields
  <2>3. JobShaped' /\ RequestShaped' /\ QuotedOnce'
    BY <2>1, <2>2 DEF IInv, JobShaped, RequestShaped, QuotedOnce, JobStages, CheckedStages
  <2>4. SpentBefore'
    BY <2>1 DEF IInv, SpentBefore
  <2>5. QED
    BY <2>1, <2>3, <2>4 DEF IInv, ObjectsShaped
<1>8. CASE Respond
  <2>1. /\ UNCHANGED <<objects, generation, counter, spent>> /\ job.pc = "done" /\ job' = Idle
    BY <1>8 DEF Respond, At, timeline, tracker
  <2>2. job'.pc = "idle"
    BY <2>1 DEF Idle
  <2>3. JobShaped' /\ RequestShaped' /\ QuotedOnce'
    BY <2>1, <2>2 DEF JobShaped, RequestShaped, QuotedOnce, CheckedStages
  <2>4. QED
    BY <2>1, <2>3 DEF IInv, ObjectsShaped, SpentBefore
<1>9. QED
  BY <1>1, <1>2, <1>3, <1>4, <1>5, <1>6, <1>7, <1>8 DEF Works

\* Every step keeps IInv.
LEMMA NextIInv ==
    ASSUME IInv, [Next]_vars
    PROVE  IInv'
<1>1. CASE User
  BY <1>1, UserKeepsIInv
<1>2. CASE Works
  BY <1>2, WorksKeepsIInv
<1>3. CASE UNCHANGED vars
  BY <1>3 DEF vars, timeline, tracker, IInv, JobShaped, ObjectsShaped, RequestShaped, SpentBefore,
              QuotedOnce, Revision
<1>4. QED
  BY <1>1, <1>2, <1>3 DEF Next

\* The three facts together: IInv is inductive.
LEMMA Inductive == Spec => []IInv
<1>1. ASSUME IInv, [Next]_vars
      PROVE  IInv'
  BY <1>1, NextIInv
<1>2. QED
  BY <1>1, InitIInv, PTL DEF Spec

-----------------------------------------------------------------------------
(* What an edit does. *)

\* edit_object and create_objects run only on what matches_content accepted, and no client's
\* request was applied on that revision before: every edit takes the next content_counter_.
THEOREM OneEdit == Spec => OneEditPerRevision
<1>1. ASSUME IInv, [Next]_vars
      PROVE  [Edits => job.request.revision \notin spent]_vars
  BY <1>1 DEF IInv, QuotedOnce, CheckedStages, Edits, At
<1>2. QED
  BY <1>1, Inductive, PTL DEF Spec, OneEditPerRevision

\* edit_sdk_object, whatever the user did since the preflight, leaves every object alone but the
\* one that resolve_object_locator found to be what the request names.
THEOREM OnlyNamedObject == Spec => EditsOnlyNamedObject
<1>1. ASSUME IInv, [Next]_vars, Edits
      PROVE  \A h \in DOMAIN objects :
                \/ h \in DOMAIN objects' /\ objects'[h] = objects[h]
                \/ job.request.kind = "edit" /\ Fingerprint(objects[h]) = job.request.locator.print
  <2>1. PICK h \in Handles : EditSection(h)
    BY <1>1, EditsIsEditSection
  <2>2. \A g \in DOMAIN objects \ {h} : g \in DOMAIN objects' /\ objects'[g] = objects[g]
    BY <1>1, <2>1, EditSectionTouchesOne
  <2>3. h \in DOMAIN objects =>
          job.request.kind = "edit" /\ Fingerprint(objects[h]) = job.request.locator.print
    BY <1>1, <2>1, EditTargets DEF MayEdit, Resolves
  <2>4. QED
    BY <2>2, <2>3
<1>2. QED
  BY <1>1, Inductive, PTL DEF Spec, EditsOnlyNamedObject

\* The lock tests of edit_sdk_object and create_sdk_objects run in the edit section itself: no
\* object of a locked layer changes or goes, and none comes to it.
THEOREM LocksKept == Spec => LockedLayersKept
<1>1. ASSUME IInv, [Next]_vars, Edits
      PROVE  OnLockedLayers(objects') = OnLockedLayers(objects)
  <2>1. PICK h \in Handles : EditSection(h)
    BY <1>1, EditsIsEditSection
  <2>2. /\ \A g \in DOMAIN objects \ {h} : g \in DOMAIN objects' /\ objects'[g] = objects[g]
        /\ DOMAIN objects' \subseteq DOMAIN objects \cup {h}
    BY <1>1, <2>1, EditSectionTouchesOne
  <2>3. h \in DOMAIN objects => <<objects[h].scene, objects[h].layer>> \notin locked
    BY <1>1, <2>1, EditTargets DEF MayEdit, Resolves, Visible, Active, Locked
  <2>4. h \in DOMAIN objects' => <<objects'[h].scene, objects'[h].layer>> \notin locked
    BY <1>1, <2>1, EditLandsUnlocked
  <2>5. QED
    BY <2>2, <2>3, <2>4 DEF OnLockedLayers
<1>2. QED
  BY <1>1, Inductive, PTL DEF Spec, LockedLayersKept

-----------------------------------------------------------------------------
(* The sections of one object. *)

\* Sections that start with the object, in order, start before they end.
LEMMA SectionsInside ==
    ASSUME NEW o \in Object, SectionsOf(o)
    PROVE  /\ Len(o.sections) \in Nat \ {0} /\ o.sections \in Seq(SdkFrames)
           /\ DOMAIN o.sections = 1..Len(o.sections)
           /\ \A i \in 1..Len(o.sections) : /\ o.sections[i] \in SdkFrames
                                            /\ o.start <= o.sections[i]
                                            /\ o.sections[i] <= o.end
           /\ o.start \in Frames /\ o.end \in SdkFrames /\ o.start <= o.end
           /\ Frames \subseteq SdkFrames /\ SdkFrames \subseteq Int /\ Frames \subseteq Int
<1>1. /\ o.sections \in Seq(SdkFrames) /\ o.start \in Frames /\ o.end \in SdkFrames
  BY DEF Object
<1>2. Len(o.sections) \in Nat /\ DOMAIN o.sections = 1..Len(o.sections)
  BY <1>1, LenProperties
<1>3. Frames \subseteq SdkFrames /\ SdkFrames \subseteq Int /\ Frames \subseteq Int
  BY EditsAssumption DEF Frames, SdkFrames
<1>4. \A i \in 1..Len(o.sections) : o.sections[i] \in SdkFrames
  BY <1>1, ElementOfSeq
<1>5. \A i \in 1..Len(o.sections) : o.start <= o.sections[i] /\ o.sections[i] <= o.end
  <2>1. ASSUME NEW i \in 1..Len(o.sections)
        PROVE  o.start <= o.sections[i] /\ o.sections[i] <= o.end
    <3>1. i = 1 \/ o.sections[1] < o.sections[i]
      BY <1>2 DEF SectionsOf
    <3>2. i = Len(o.sections) \/ o.sections[i] < o.sections[Len(o.sections)]
      BY <1>2 DEF SectionsOf
    <3>3. 1 \in 1..Len(o.sections) /\ Len(o.sections) \in 1..Len(o.sections)
      BY <1>2 DEF SectionsOf
    <3>4. /\ o.sections[1] \in Int /\ o.sections[i] \in Int /\ o.sections[Len(o.sections)] \in Int
          /\ o.start \in Int /\ o.end \in Int
      BY <1>1, <1>3, <1>4, <3>3
    <3>5. o.sections[1] = o.start /\ o.sections[Len(o.sections)] <= o.end
      BY DEF SectionsOf
    <3>6. QED
      BY <3>1, <3>2, <3>4, <3>5
  <2>2. QED
    BY <2>1
<1>6. Len(o.sections) \in Nat \ {0} /\ o.start <= o.end
  BY <1>1, <1>2, <1>3, <1>4, <1>5 DEF SectionsOf
<1>7. QED
  BY <1>1, <1>2, <1>3, <1>4, <1>5, <1>6

\* A moved object keeps its length and its sections move with it.
LEMMA ShiftedWell ==
    ASSUME NEW o \in Object, SectionsOf(o), NEW layer \in Layers, NEW frame \in Frames,
           InRange(Shifted(o, layer, frame))
    PROVE  LET m == Shifted(o, layer, frame)
           IN  /\ m \in Object /\ SectionsOf(m)
               /\ m.scene = o.scene /\ m.start = frame /\ m.end = frame + (o.end - o.start)
<1> DEFINE m == Shifted(o, layer, frame)
           d == frame - o.start
<1>1. /\ m.scene = o.scene /\ m.layer = layer /\ m.start = frame /\ m.end = o.end + d
      /\ m.label = o.label /\ m.sections = [i \in DOMAIN o.sections |-> o.sections[i] + d]
      /\ DOMAIN m = ObjectFields
  BY DEF Shifted, Object, ObjectFields
<1>2. m.end \in SdkFrames /\ frame \in Int /\ d \in Int /\ FrameMax \in Nat
  BY SMTT(30), <1>1, SectionsInside, EditsAssumption DEF InRange, SdkFrames, Frames
<1>3. /\ DOMAIN m.sections = 1..Len(o.sections)
      /\ \A i \in 1..Len(o.sections) :
            /\ m.sections[i] = o.sections[i] + d /\ m.sections[i] \in SdkFrames
            /\ m.sections[i] <= m.end
  <2>1. ASSUME NEW i \in 1..Len(o.sections)
        PROVE  /\ m.sections[i] = o.sections[i] + d /\ m.sections[i] \in SdkFrames
               /\ m.sections[i] <= m.end
    <3>1. m.sections[i] = o.sections[i] + d
      BY <1>1, SectionsInside
    <3>2. /\ o.start <= o.sections[i] /\ o.sections[i] <= o.end
          /\ o.sections[i] \in Int /\ o.start \in Int /\ o.end \in Int
      BY SectionsInside
    <3>3. QED
      BY SMTT(30), <1>1, <1>2, <3>1, <3>2 DEF SdkFrames, Frames
  <2>2. QED
    BY <1>1, <2>1, SectionsInside
<1>4. m.sections \in Seq(SdkFrames) /\ Len(m.sections) = Len(o.sections)
  <2>1. Len(o.sections) \in Nat
    BY SectionsInside
  <2>2. m.sections = [i \in 1..Len(o.sections) |-> m.sections[i]]
    BY <1>1, SectionsInside
  <2> HIDE DEF m
  <2>3. QED
    BY <1>3, <2>1, <2>2
<1>5. m \in Object
  <2> DEFINE ss == [i \in DOMAIN o.sections |-> o.sections[i] + d]
  <2>1. ss \in Seq(SdkFrames) /\ o.end + d \in SdkFrames
    BY <1>1, <1>2, <1>4
  <2>2. m = [o EXCEPT !.layer = layer, !.start = frame, !.end = o.end + d, !.sections = ss]
    BY DEF Shifted
  <2> HIDE DEF ss, m, d
  <2>3. QED
    BY <2>1, <2>2 DEF Object
<1> HIDE DEF m
<1>6. SectionsOf(m)
  <2>1. /\ Len(o.sections) \in Nat \ {0} /\ o.sections[1] = o.start
        /\ \A i, j \in 1..Len(o.sections) : i < j => o.sections[i] < o.sections[j]
        /\ \A i \in 1..Len(o.sections) : o.sections[i] \in Int
        /\ o.start \in Int /\ o.end \in Int
    BY SectionsInside DEF SectionsOf
  <2>2. \A i, j \in 1..Len(o.sections) : i < j => m.sections[i] < m.sections[j]
    BY SMTT(60), <1>2, <1>3, <2>1
  <2>3. m.sections[1] = m.start
    <3>1. 1 \in 1..Len(o.sections)
      BY <2>1
    <3>2. m.sections[1] = o.sections[1] + d
      BY <1>3, <3>1
    <3>3. QED
      BY <1>1, <1>2, <2>1, <3>2
  <2>4. m.sections[Len(o.sections)] <= m.end
    <3>1. Len(o.sections) \in 1..Len(o.sections)
      BY <2>1
    <3>2. QED
      BY <1>3, <3>1
  <2>5. QED
    BY <1>3, <1>4, <2>1, <2>2, <2>3, <2>4 DEF SectionsOf
<1>7. o.end + d = frame + (o.end - o.start)
  <2>1. o.start \in Int /\ o.end \in Int
    BY SectionsInside
  <2>2. QED
    BY <1>2, <2>1
<1>8. QED
  BY <1>1, <1>5, <1>6, <1>7 DEF m

\* Inserting one element into a sequence.
Inserts(S, s, i, e) ==
    /\ InsertAt(s, i, e) \in Seq(S)
    /\ Len(InsertAt(s, i, e)) = Len(s) + 1
    /\ \A j \in 1..Len(s) + 1 :
          InsertAt(s, i, e)[j] = IF j < i THEN s[j] ELSE IF j = i THEN e ELSE s[j - 1]

LEMMA InsertAtType ==
    ASSUME NEW S, NEW s \in Seq(S), NEW i \in 1..Len(s) + 1, NEW e \in S
    PROVE  Inserts(S, s, i, e)
<1> DEFINE front == SubSeq(s, 1, i - 1)
           back == SubSeq(s, i, Len(s))
<1>0. Len(s) \in Nat /\ \A j \in 1..Len(s) : s[j] \in S
  BY LenProperties, ElementOfSeq
<1>1. /\ front \in Seq(S) /\ Len(front) = i - 1
      /\ \A j \in 1..i - 1 : front[j] = s[j]
  BY <1>0, SubSeqProperties
<1>2. /\ back \in Seq(S) /\ Len(back) = Len(s) - i + 1
      /\ \A j \in 1..Len(s) - i + 1 : back[j] = s[i + j - 1]
  BY <1>0, SubSeqProperties
<1>3. <<e>> \in Seq(S) /\ Len(<<e>>) = 1 /\ <<e>>[1] = e
  OBVIOUS
<1> DEFINE left == front \o <<e>>
<1> HIDE DEF front, back
<1>4. /\ left \in Seq(S) /\ Len(left) = i
      /\ \A j \in 1..i : left[j] = IF j < i THEN s[j] ELSE e
  BY <1>0, <1>1, <1>3, ConcatProperties
<1>5. InsertAt(s, i, e) = left \o back
  BY DEF InsertAt, front, back
<1> HIDE DEF left
<1>6. /\ left \o back \in Seq(S) /\ Len(left \o back) = Len(s) + 1
      /\ \A j \in 1..Len(s) + 1 :
            (left \o back)[j] = IF j <= i THEN left[j] ELSE back[j - i]
  <2>1. /\ left \o back \in Seq(S) /\ Len(left \o back) = Len(left) + Len(back)
        /\ \A j \in 1..Len(left) + Len(back) :
              (left \o back)[j] = IF j <= Len(left) THEN left[j] ELSE back[j - Len(left)]
    BY <1>2, <1>4, ConcatProperties
  <2>2. Len(left) = i /\ Len(left) + Len(back) = Len(s) + 1
    BY <1>0, <1>2, <1>4
  <2>3. QED
    BY <2>1, <2>2
<1>7. ASSUME NEW j \in 1..Len(s) + 1
      PROVE  (left \o back)[j] = IF j < i THEN s[j] ELSE IF j = i THEN e ELSE s[j - 1]
  BY <1>0, <1>2, <1>4, <1>6
<1>8. QED
  BY <1>5, <1>6, <1>7 DEF Inserts

\* Erasing one element of a sequence.
LEMMA RemoveAtType ==
    ASSUME NEW S, NEW s \in Seq(S), NEW i \in 1..Len(s)
    PROVE  /\ RemoveAt(s, i) \in Seq(S)
           /\ Len(RemoveAt(s, i)) = Len(s) - 1
           /\ \A j \in 1..Len(s) - 1 : RemoveAt(s, i)[j] = IF j < i THEN s[j] ELSE s[j + 1]
<1> DEFINE front == SubSeq(s, 1, i - 1)
           back == SubSeq(s, i + 1, Len(s))
<1>0. Len(s) \in Nat /\ \A j \in 1..Len(s) : s[j] \in S
  BY LenProperties, ElementOfSeq
<1>1. /\ front \in Seq(S) /\ Len(front) = i - 1
      /\ \A j \in 1..i - 1 : front[j] = s[j]
  BY <1>0, SubSeqProperties
<1>2. /\ back \in Seq(S) /\ Len(back) = Len(s) - i
      /\ \A j \in 1..Len(s) - i : back[j] = s[i + j]
  <2>1. /\ back \in Seq(S)
        /\ Len(back) = IF i + 1 <= Len(s) THEN Len(s) - (i + 1) + 1 ELSE 0
        /\ \A j \in 1..Len(s) - (i + 1) + 1 : back[j] = s[i + 1 + j - 1]
    BY <1>0, SubSeqProperties
  <2>2. QED
    BY <1>0, <2>1
<1>3. RemoveAt(s, i) = front \o back
  BY DEF RemoveAt
<1> HIDE DEF front, back
<1>4. /\ front \o back \in Seq(S) /\ Len(front \o back) = Len(front) + Len(back)
      /\ \A j \in 1..Len(front) + Len(back) :
            (front \o back)[j] = IF j <= Len(front) THEN front[j] ELSE back[j - Len(front)]
  BY <1>1, <1>2, ConcatProperties
<1>5. /\ Len(front \o back) = Len(s) - 1
      /\ \A j \in 1..Len(s) - 1 : (front \o back)[j] = IF j < i THEN s[j] ELSE s[j + 1]
  <2>1. Len(front) + Len(back) = Len(s) - 1
    BY <1>0, <1>1, <1>2
  <2>2. ASSUME NEW j \in 1..Len(s) - 1
        PROVE  (front \o back)[j] = IF j < i THEN s[j] ELSE s[j + 1]
    <3>1. (front \o back)[j] = IF j <= i - 1 THEN front[j] ELSE back[j - (i - 1)]
      BY <1>1, <1>4, <2>1
    <3>2. CASE j < i
      <4>1. j \in 1..i - 1 /\ j <= i - 1
        BY <1>0, <3>2
      <4>2. QED
        BY <1>1, <3>1, <3>2, <4>1
    <3>3. CASE ~(j < i)
      <4>1. ~(j <= i - 1) /\ j - (i - 1) \in 1..Len(s) - i /\ i + (j - (i - 1)) = j + 1
        BY <1>0, <3>3
      <4>2. QED
        BY <1>2, <3>1, <3>3, <4>1
    <3>4. QED
      BY <3>2, <3>3
  <2>3. QED
    BY <1>4, <2>1, <2>2
<1>6. QED
  BY <1>3, <1>4, <1>5

\* Exchanging the sections of an object for others in its range keeps the rest of it.
LEMMA NewSections ==
    ASSUME NEW o \in Object, SectionsOf(o), NEW ss \in Seq(SdkFrames),
           SectionsOf([o EXCEPT !.sections = ss])
    PROVE  LET m == [o EXCEPT !.sections = ss]
           IN  m \in Object /\ SectionsOf(m) /\ Fingerprint(m) = Fingerprint(o)
BY DEF Object, Fingerprint

\* What NewSections asks for, in terms of the sections.
LEMMA SectionsExcept ==
    ASSUME NEW o \in Object, NEW ss \in Seq(SdkFrames), Len(ss) >= 1, ss[1] = o.start,
           ss[Len(ss)] <= o.end,
           \A i, j \in 1..Len(ss) : i < j => ss[i] < ss[j]
    PROVE  SectionsOf([o EXCEPT !.sections = ss])
<1> DEFINE m == [o EXCEPT !.sections = ss]
<1>1. m.sections = ss /\ m.start = o.start /\ m.end = o.end
  BY DEF Object
<1>2. DOMAIN ss = 1..Len(ss)
  BY LenProperties
<1> HIDE DEF m
<1>3. SectionsOf(m)
  BY <1>1, <1>2 DEF SectionsOf
<1>4. QED
  BY <1>3 DEF m

\* SectionPlace counts the sections before the frame, and since they are in order these are the
\* first ones.
LEMMA SectionPlaceSplits ==
    ASSUME NEW o \in Object, SectionsOf(o), NEW frame \in Frames, o.start < frame
    PROVE  /\ SectionPlace(o, frame) \in 2..Len(o.sections) + 1
           /\ \A i \in 1..Len(o.sections) : o.sections[i] < frame <=> i < SectionPlace(o, frame)
<1> DEFINE n == Len(o.sections)
           S == {i \in 1..n : o.sections[i] < frame}
<1>0. /\ n \in Nat \ {0} /\ DOMAIN o.sections = 1..n /\ frame \in Int
      /\ \A i \in 1..n : o.sections[i] \in Int
      /\ \A i, j \in 1..n : i < j => o.sections[i] < o.sections[j]
      /\ o.sections[1] = o.start
  BY SectionsInside DEF SectionsOf
<1>1. IsFiniteSet(1..n) /\ Cardinality(1..n) = n
  BY <1>0, FS_Interval
<1>2. IsFiniteSet(S) /\ Cardinality(S) \in Nat /\ Cardinality(S) <= n
  BY <1>0, <1>1, FS_Subset, FS_CardinalityType
<1>3. SectionPlace(o, frame) = Cardinality(S) + 1
  BY <1>0 DEF SectionPlace
<1>4. ASSUME NEW i \in S
      PROVE  i <= Cardinality(S)
  <2>1. 1..i \subseteq S
    BY <1>0
  <2>2. IsFiniteSet(1..i) /\ Cardinality(1..i) = i
    BY <1>0, FS_Interval
  <2>3. QED
    BY <1>2, <2>1, <2>2, FS_Subset
<1>5. ASSUME NEW i \in 1..n, i \notin S
      PROVE  Cardinality(S) <= i - 1
  <2>1. S \subseteq 1..i - 1
    <3>1. ASSUME NEW j \in S
          PROVE  j < i
      BY <1>0, <1>5
    <3>2. QED
      BY <1>0, <3>1
  <2>2. IsFiniteSet(1..i - 1) /\ Cardinality(1..i - 1) = i - 1
    <3>1. 1 \in Int /\ i - 1 \in Int /\ i - 1 >= 0
      BY <1>0
    <3>2. QED
      BY <3>1, FS_Interval
  <2>3. QED
    BY <2>1, <2>2, FS_Subset
<1>6. 1 \in S
  BY <1>0
<1>7. 1 <= Cardinality(S)
  BY <1>4, <1>6
<1>8. \A i \in 1..n : i \in S <=> i <= Cardinality(S)
  BY <1>0, <1>2, <1>4, <1>5
<1> DEFINE k == Cardinality(S)
<1>9. /\ k \in Nat /\ k <= n /\ k >= 1 /\ SectionPlace(o, frame) = k + 1
      /\ \A i \in 1..n : o.sections[i] < frame <=> i <= k
  BY <1>2, <1>3, <1>7, <1>8
<1> HIDE DEF k, S
<1>10. QED
  BY <1>0, <1>9

\* A split object has one section more, in order.
LEMMA SplitWell ==
    ASSUME NEW o \in Object, SectionsOf(o), NEW frame \in Frames, o.start < frame, frame <= o.end,
           frame \notin ToSet(o.sections)
    PROVE  LET m == Split(o, frame)
           IN  m \in Object /\ SectionsOf(m) /\ Fingerprint(m) = Fingerprint(o)
<1> DEFINE n == Len(o.sections)
           p == SectionPlace(o, frame)
           ss == InsertAt(o.sections, p, frame)
<1>0. /\ n \in Nat \ {0} /\ DOMAIN o.sections = 1..n /\ frame \in Int /\ frame \in SdkFrames
      /\ o.sections \in Seq(SdkFrames)
      /\ \A i \in 1..n : o.sections[i] \in Int /\ o.sections[i] <= o.end
      /\ \A i, j \in 1..n : i < j => o.sections[i] < o.sections[j]
      /\ o.sections[1] = o.start
  BY SectionsInside DEF SectionsOf
<1>1. /\ p \in 2..n + 1
      /\ \A i \in 1..n : o.sections[i] < frame <=> i < p
  BY SectionPlaceSplits
<1>2. \A i \in 1..n : o.sections[i] # frame
  BY <1>0 DEF ToSet
<1> HIDE DEF p
<1>3. /\ ss \in Seq(SdkFrames) /\ Len(ss) = n + 1
      /\ \A j \in 1..n + 1 :
            ss[j] = IF j < p THEN o.sections[j] ELSE IF j = p THEN frame ELSE o.sections[j - 1]
  <2>1. p \in 1..Len(o.sections) + 1 /\ o.sections \in Seq(SdkFrames) /\ frame \in SdkFrames
    BY <1>0, <1>1
  <2>2. Inserts(SdkFrames, o.sections, p, frame)
    BY <2>1, InsertAtType
  <2>3. QED
    BY <2>2 DEF Inserts
<1> HIDE DEF ss
<1>4. ss[1] = o.start
  BY <1>0, <1>1, <1>3
<1>5. ss[n + 1] <= o.end
  BY SMTT(30), <1>0, <1>1, <1>3
<1>6. ASSUME NEW i \in 1..n + 1, NEW j \in 1..n + 1, i < j
      PROVE  ss[i] < ss[j]
  <2>1. CASE j < p
    BY <1>0, <1>1, <1>3, <1>6, <2>1
  <2>2. CASE j = p
    BY <1>0, <1>1, <1>3, <1>6, <2>2
  <2>3. CASE j > p /\ i < p
    <3>1. ss[i] < frame
      BY <1>0, <1>1, <1>3, <1>6, <2>3
    <3>2. j - 1 \in 1..n /\ ~(j - 1 < p) /\ ss[j] = o.sections[j - 1]
      BY <1>0, <1>1, <1>3, <2>3
    <3>3. frame < ss[j]
      BY SMTT(30), <1>0, <1>1, <1>2, <3>2
    <3>4. ss[i] \in Int /\ ss[j] \in Int
      <4>1. i \in 1..n /\ ss[i] = o.sections[i]
        BY <1>0, <1>1, <1>3, <2>3
      <4>2. QED
        BY <1>0, <3>2, <4>1
    <3>5. QED
      BY <1>0, <3>1, <3>3, <3>4
  <2>4. CASE j > p /\ i = p
    <3>1. j - 1 \in 1..n /\ ~(j - 1 < p) /\ ss[j] = o.sections[j - 1] /\ ss[i] = frame
      BY <1>0, <1>1, <1>3, <2>4
    <3>2. QED
      BY SMTT(30), <1>0, <1>1, <1>2, <3>1
  <2>5. CASE j > p /\ i > p
    <3>1. /\ i - 1 \in 1..n /\ j - 1 \in 1..n /\ i - 1 < j - 1
          /\ ss[i] = o.sections[i - 1] /\ ss[j] = o.sections[j - 1]
      BY <1>0, <1>1, <1>3, <1>6, <2>5
    <3>2. QED
      BY <1>0, <3>1
  <2>6. QED
    BY <1>1, <2>1, <2>2, <2>3, <2>4, <2>5
<1>7. SectionsOf([o EXCEPT !.sections = ss])
  BY SMTT(30), <1>0, <1>3, <1>4, <1>5, <1>6, SectionsExcept
<1>8. Split(o, frame) = [o EXCEPT !.sections = ss]
  BY DEF Split, ss, p
<1>9. QED
  BY <1>3, <1>7, <1>8, NewSections

\* An object without one of its middle points.
LEMMA RemovedWell ==
    ASSUME NEW o \in Object, SectionsOf(o), NEW index, Middle(o, index)
    PROVE  LET m == [o EXCEPT !.sections = RemoveAt(@, index + 1)]
           IN  m \in Object /\ SectionsOf(m) /\ Fingerprint(m) = Fingerprint(o)
<1> DEFINE n == Len(o.sections)
           ss == RemoveAt(o.sections, index + 1)
<1>0. /\ n \in Nat \ {0} /\ DOMAIN o.sections = 1..n
      /\ o.sections \in Seq(SdkFrames)
      /\ \A i \in 1..n : o.sections[i] \in Int /\ o.sections[i] <= o.end
      /\ \A i, j \in 1..n : i < j => o.sections[i] < o.sections[j]
      /\ o.sections[1] = o.start
  BY SectionsInside DEF SectionsOf
<1>1. index \in 1..n - 1 /\ index + 1 \in 1..n /\ index + 1 > 1
  BY <1>0 DEF Middle
<1>2. /\ ss \in Seq(SdkFrames) /\ Len(ss) = n - 1
      /\ \A j \in 1..n - 1 : ss[j] = IF j < index + 1 THEN o.sections[j] ELSE o.sections[j + 1]
  BY <1>0, <1>1, RemoveAtType
<1> HIDE DEF ss
<1>3. /\ Len(ss) >= 1 /\ ss[1] = o.start
      /\ \A i, j \in 1..n - 1 : i < j => ss[i] < ss[j]
  <2>1. Len(ss) >= 1 /\ ss[1] = o.start
    <3>1. n - 1 >= 1 /\ 1 \in 1..n - 1 /\ 1 < index + 1
      BY <1>0, <1>1
    <3>2. QED
      BY <1>0, <1>2, <3>1
  <2>2. ASSUME NEW i \in 1..n - 1, NEW j \in 1..n - 1, i < j
        PROVE  ss[i] < ss[j]
    <3>1. i \in 1..n /\ j \in 1..n /\ i + 1 \in 1..n /\ j + 1 \in 1..n
      BY <1>0
    <3>2. QED
      BY <1>0, <1>1, <1>2, <2>2, <3>1
  <2>3. QED
    BY <2>1, <2>2
<1>4. ss[n - 1] <= o.end
  BY <1>0, <1>1, <1>2
<1>5. SectionsOf([o EXCEPT !.sections = ss])
  BY <1>2, <1>3, <1>4, SectionsExcept
<1>6. QED
  BY <1>2, <1>5, NewSections DEF ss

\* An object with one middle point moved between its neighbours.
LEMMA MovedSectionWell ==
    ASSUME NEW o \in Object, SectionsOf(o), NEW index, Middle(o, index), NEW frame \in Frames,
           o.sections[index] < frame, frame < NextSection(o, index)
    PROVE  LET m == [o EXCEPT !.sections[index + 1] = frame]
           IN  m \in Object /\ SectionsOf(m) /\ Fingerprint(m) = Fingerprint(o)
<1> DEFINE n == Len(o.sections)
           ss == [o.sections EXCEPT ![index + 1] = frame]
<1>0. /\ n \in Nat \ {0} /\ DOMAIN o.sections = 1..n /\ frame \in Int /\ frame \in SdkFrames
      /\ o.sections \in Seq(SdkFrames) /\ o.end \in Int
      /\ \A i \in 1..n : o.sections[i] \in Int /\ o.sections[i] <= o.end
      /\ \A i, j \in 1..n : i < j => o.sections[i] < o.sections[j]
      /\ o.sections[1] = o.start
  BY SectionsInside DEF SectionsOf
<1>1. index \in 1..n - 1 /\ index + 1 \in 2..n
  BY <1>0 DEF Middle
<1>2. /\ ss \in Seq(SdkFrames) /\ Len(ss) = n
      /\ \A j \in 1..n : ss[j] = IF j = index + 1 THEN frame ELSE o.sections[j]
  BY <1>0, <1>1, ExceptSeq
<1> HIDE DEF ss
<1>3. /\ \A j \in 1..n : j > index + 1 => frame < o.sections[j]
      /\ frame <= o.end
  <2>1. CASE index + 1 < n
    <3>1. index + 2 \in 1..n /\ frame < o.sections[index + 2]
      BY <1>0, <1>1, <2>1 DEF NextSection
    <3>2. ASSUME NEW j \in 1..n, j > index + 1
          PROVE  frame < o.sections[j]
      <4>1. j = index + 2 \/ o.sections[index + 2] < o.sections[j]
        BY <1>0, <1>1, <3>1, <3>2
      <4>2. QED
        BY <1>0, <3>1, <3>2, <4>1
    <3>3. frame <= o.end
      BY <1>0, <3>1
    <3>4. QED
      BY <3>2, <3>3
  <2>2. CASE index + 1 = n
    <3>1. frame < o.end + 1
      BY <1>0, <1>1, <2>2 DEF NextSection
    <3>2. QED
      BY <1>0, <1>1, <2>2, <3>1
  <2>3. QED
    BY <1>0, <1>1, <2>1, <2>2
<1>4. \A j \in 1..n : j < index + 1 => o.sections[j] < frame
  <2>1. ASSUME NEW j \in 1..n, j < index + 1
        PROVE  o.sections[j] < frame
    <3>1. j = index \/ o.sections[j] < o.sections[index]
      BY <1>0, <1>1, <2>1
    <3>2. QED
      BY <1>0, <1>1, <2>1, <3>1
  <2>2. QED
    BY <2>1
<1>5. ss[1] = o.start /\ ss[n] <= o.end
  BY SMTT(30), <1>0, <1>1, <1>2, <1>3
<1>6. ASSUME NEW i \in 1..n, NEW j \in 1..n, i < j
      PROVE  ss[i] < ss[j]
  BY <1>0, <1>1, <1>2, <1>3, <1>4, <1>6
<1>7. SectionsOf([o EXCEPT !.sections = ss])
  BY SMTT(30), <1>0, <1>2, <1>5, <1>6, SectionsExcept
<1>8. [o EXCEPT !.sections[index + 1] = frame] = [o EXCEPT !.sections = ss]
  BY DEF ss
<1>9. QED
  BY <1>2, <1>7, <1>8, NewSections

-----------------------------------------------------------------------------
(* The timeline. *)

\* A timeline of Objects, none of which overlap.
Timeline(os) ==
    /\ DOMAIN os \subseteq Handles
    /\ \A h \in DOMAIN os : os[h] \in Object /\ SectionsOf(os[h])
    /\ NoOverlap(os)

\* Overlapping is mutual.
LEMMA OverlapMutual ==
    ASSUME NEW o, NEW p
    PROVE  Overlap(o, p) <=> Overlap(p, o)
BY DEF Overlap

\* An object that is free of the others may take a handle.
LEMMA WithTimeline ==
    ASSUME Timeline(objects), NEW h \in Handles, NEW o \in Object, SectionsOf(o),
           \A g \in DOMAIN objects \ {h} : ~Overlap(objects[g], o)
    PROVE  Timeline(With(h, o))
<1>1. /\ DOMAIN With(h, o) = DOMAIN objects \cup {h}
      /\ \A g \in DOMAIN objects \cup {h} : With(h, o)[g] = IF g = h THEN o ELSE objects[g]
  BY DEF With
<1>2. NoOverlap(With(h, o))
  BY <1>1, OverlapMutual DEF Timeline, NoOverlap
<1>3. QED
  BY <1>1, <1>2 DEF Timeline

LEMMA WithoutTimeline ==
    ASSUME Timeline(objects), NEW h
    PROVE  Timeline(Without(h))
BY DEF Timeline, NoOverlap, Without

\* An object of the open scene that is free of what is visible is free of everything.
LEMMA FreeOfAll ==
    ASSUME NEW h, NEW o, Free(h, o), o.scene = scene
    PROVE  \A g \in DOMAIN objects \ {h} : ~Overlap(objects[g], o)
BY DEF Free, Visible, Active, Overlap

\* An object that keeps its place stays free of the others.
LEMMA InPlaceTimeline ==
    ASSUME Timeline(objects), NEW h \in DOMAIN objects, NEW o \in Object, SectionsOf(o),
           o.scene = objects[h].scene, o.layer = objects[h].layer,
           o.start = objects[h].start, o.end = objects[h].end
    PROVE  Timeline(With(h, o))
<1>1. \A g \in DOMAIN objects \ {h} : ~Overlap(objects[g], o)
  <2>1. \A g \in DOMAIN objects \ {h} : ~Overlap(objects[g], objects[h])
    BY DEF Timeline, NoOverlap
  <2>2. QED
    BY <2>1 DEF Overlap
<1>2. QED
  BY <1>1, WithTimeline DEF Timeline

\* What the user does to the objects of the open scene leaves a timeline.
LEMMA UserTimeline ==
    ASSUME Timeline(objects), User
    PROVE  Timeline(objects')
<1>1. ASSUME NEW h \in Visible, NEW layer \in Layers, NEW frame \in Frames,
             UserMoves(h, layer, frame)
      PROVE  Timeline(objects')
  <2> DEFINE o == Shifted(objects[h], layer, frame)
  <2>1. /\ InRange(o) /\ Free(h, o) /\ objects' = With(h, o)
        /\ h \in DOMAIN objects /\ objects[h].scene = scene
    BY <1>1 DEF UserMoves, UserEdits, Visible, Active
  <2>2. objects[h] \in Object /\ SectionsOf(objects[h]) /\ h \in Handles
    BY <2>1 DEF Timeline
  <2>3. o \in Object /\ SectionsOf(o) /\ o.scene = scene
    BY <2>1, <2>2, ShiftedWell
  <2>4. QED
    BY <2>1, <2>2, <2>3, FreeOfAll, WithTimeline
<1>2. ASSUME NEW h \in Visible, NEW label \in Labels, UserRenames(h, label)
      PROVE  Timeline(objects')
  <2> DEFINE o == [objects[h] EXCEPT !.label = label]
  <2>1. objects' = With(h, o) /\ h \in DOMAIN objects
    BY <1>2 DEF UserRenames, UserEdits, Visible
  <2>2. objects[h] \in Object /\ SectionsOf(objects[h])
    BY <2>1 DEF Timeline
  <2>3. /\ o \in Object /\ SectionsOf(o) /\ o.scene = objects[h].scene
        /\ o.layer = objects[h].layer /\ o.start = objects[h].start /\ o.end = objects[h].end
    BY <2>2 DEF Object, SectionsOf
  <2>4. QED
    BY <2>1, <2>3, InPlaceTimeline
<1>3. ASSUME NEW h \in Visible, NEW frame \in Frames, UserSplits(h, frame)
      PROVE  Timeline(objects')
  <2> DEFINE o == Split(objects[h], frame)
  <2>1. /\ objects' = With(h, o) /\ h \in DOMAIN objects
        /\ objects[h].start < frame /\ frame <= objects[h].end
        /\ frame \notin ToSet(objects[h].sections)
    BY <1>3 DEF UserSplits, UserEdits, Visible
  <2>2. objects[h] \in Object /\ SectionsOf(objects[h])
    BY <2>1 DEF Timeline
  <2>3. o \in Object /\ SectionsOf(o) /\ Fingerprint(o) = Fingerprint(objects[h])
    BY <2>1, <2>2, SplitWell
  <2>4. QED
    BY <2>1, <2>3, InPlaceTimeline DEF Fingerprint
<1>4. ASSUME NEW h \in Visible, UserDeletes(h)
      PROVE  Timeline(objects')
  BY <1>4, WithoutTimeline DEF UserDeletes, UserEdits
<1>5. ASSUME NEW p \in Projects, LoadProject(p)
      PROVE  Timeline(objects')
  BY <1>5, EditsAssumption DEF LoadProject, Timeline
<1>6. CASE UNCHANGED objects
  BY <1>6
<1>7. QED
  BY <1>1, <1>2, <1>3, <1>4, <1>5, <1>6
  DEF User, UserLocks, UserEdits, UserSwitchesScene

\* What the edit section makes of the one object: a well-formed object, at the end it had, unless it
\* was moved.
LEMMA EditedObject ==
    ASSUME Timeline(objects), IInv, NEW h \in Handles, EditSection(h), scene \in Scenes,
           job.request.command \in Commands
    PROVE  /\ Timeline(objects')
           /\ h \in DOMAIN objects' => objects'[h] \in Object
           /\ job.request.kind = "create" => objects'[h].end <= FrameMax
           /\ job.request.kind = "edit" =>
                 LET o == objects[h]
                 IN  /\ h \in DOMAIN objects /\ Fingerprint(o) = job.request.locator.print
                     /\ h \in DOMAIN objects' =>
                           objects'[h].end = IF job.request.command.kind = "move"
                                             THEN job.request.command.frame + (o.end - o.start)
                                             ELSE o.end
           /\ job.request.command.kind # "delete" => h \in DOMAIN objects'
<1> DEFINE c == job.request.command
           o == objects[h]
<1>0. c.kind \in CommandKinds /\ WellParsed(c) /\ objects' = Applied(c, h) /\ ~Superfluous(h)
  BY EditsAssumption DEF EditSection
<1>1. CASE c.kind = "create"
  <2>1. MayCreate(c, h) /\ job.request.kind = "create"
    BY <1>1, EditTargets
  <2>2. objects' = With(h, New(c)) /\ h \in DOMAIN objects'
    BY <1>0, <1>1 DEF Applied, With
  <2>3. New(c) \in Object /\ SectionsOf(New(c)) /\ New(c).scene = scene /\ New(c).end <= FrameMax
    <3>1. /\ c.layer \in Layers /\ c.frame \in Frames /\ c.length \in 1..FrameMax
          /\ c.label \in Labels /\ c.scene = scene /\ FrameMax \in Nat
      BY <1>0, <1>1, <2>1, EditsAssumption DEF WellParsed, MayCreate
    <3>2. /\ New(c).end = c.frame + c.length - 1 /\ New(c).sections = <<c.frame>>
          /\ New(c).start = c.frame /\ New(c).scene = c.scene
      BY DEF New
    <3>3. c.frame \in SdkFrames /\ c.frame + c.length - 1 \in SdkFrames
      BY <2>1, <3>1, <3>2 DEF MayCreate, Frames, SdkFrames
    <3>4. <<c.frame>> \in Seq(SdkFrames) /\ Len(<<c.frame>>) = 1 /\ DOMAIN <<c.frame>> = 1..1
      BY <3>3
    <3>5. New(c) \in Object
      BY <3>1, <3>3, <3>4 DEF New, Object
    <3>6. c.frame <= c.frame + c.length - 1
      BY <3>1 DEF Frames
    <3>7. SectionsOf(New(c))
      BY <3>2, <3>4, <3>6 DEF SectionsOf
    <3>8. QED
      BY <2>1, <3>1, <3>2, <3>5, <3>7 DEF MayCreate
  <2>4. Timeline(objects')
    BY <2>1, <2>2, <2>3, FreeOfAll, WithTimeline DEF MayCreate
  <2>5. objects'[h] = New(c)
    BY <2>2 DEF With
  <2>6. QED
    BY <1>1, <2>1, <2>2, <2>3, <2>4, <2>5
<1>2. CASE c.kind # "create"
  <2>1. /\ job.request.kind = "edit" /\ MayEdit(job.request, job.generation, h)
        /\ h \in DOMAIN objects
    BY <1>2, EditTargets
  <2>2. /\ o \in Object /\ SectionsOf(o) /\ Permits(c, h) /\ ~NoEffect(c, h)
        /\ o.scene = scene /\ Fingerprint(o) = job.request.locator.print
    BY <1>0, <2>1 DEF Timeline, MayEdit, Resolves, Visible, Active, Superfluous
  <2>3. ASSUME NEW m \in Object, SectionsOf(m), Fingerprint(m) = Fingerprint(o), Applied(c, h) = With(h, m)
        PROVE  Timeline(objects') /\ h \in DOMAIN objects' /\ objects'[h] = m /\ m.end = o.end
    <3>1. /\ m.scene = o.scene /\ m.layer = o.layer /\ m.start = o.start /\ m.end = o.end
      BY <2>3 DEF Fingerprint
    <3>2. QED
      BY <1>0, <2>1, <2>3, <3>1, InPlaceTimeline DEF With
  <2>4. CASE c.kind = "move"
    <3> DEFINE m == Shifted(o, c.layer, c.frame)
    <3>1. c.layer \in Layers /\ c.frame \in Frames
      BY <1>0, <2>4 DEF WellParsed
    <3>2. InRange(m) /\ Free(h, m) /\ Applied(c, h) = With(h, m)
      BY <2>2, <2>4 DEF Permits, Applied
    <3>3. m \in Object /\ SectionsOf(m) /\ m.scene = scene /\ m.end = c.frame + (o.end - o.start)
      BY <2>2, <3>1, <3>2, ShiftedWell
    <3> HIDE DEF m
    <3>4. Timeline(objects')
      BY <1>0, <3>2, <3>3, FreeOfAll, WithTimeline
    <3>5. h \in DOMAIN objects' /\ objects'[h] = m
      BY <1>0, <3>2 DEF With
    <3>6. QED
      BY <2>1, <2>2, <2>4, <3>3, <3>4, <3>5
  <2>5. CASE c.kind = "delete"
    <3>1. objects' = Without(h)
      BY <1>0, <2>5 DEF Applied
    <3>2. Timeline(objects') /\ h \notin DOMAIN objects'
      BY <3>1, WithoutTimeline DEF Without
    <3>3. QED
      BY <2>1, <2>2, <2>5, <3>2
  <2>6. CASE c.kind = "name"
    <3> DEFINE m == [o EXCEPT !.label = c.label]
    <3>1. c.label \in Labels
      BY <1>0, <2>6 DEF WellParsed
    <3>2. /\ m \in Object /\ SectionsOf(m) /\ m.scene = o.scene /\ m.layer = o.layer
          /\ m.start = o.start /\ m.end = o.end
      BY <2>2, <3>1 DEF Object, SectionsOf
    <3>3. objects' = With(h, m)
      BY <1>0, <2>6 DEF Applied
    <3> HIDE DEF m
    <3>4. Timeline(objects') /\ h \in DOMAIN objects' /\ objects'[h] = m
      BY <2>1, <3>2, <3>3, InPlaceTimeline DEF With
    <3>5. QED
      BY <2>1, <2>2, <2>6, <3>2, <3>4
  <2>7. CASE c.kind = "createSection"
    <3> DEFINE m == Split(o, c.frame)
    <3>1. /\ c.frame \in Frames /\ o.start < c.frame /\ c.frame <= o.end
          /\ c.frame \notin ToSet(o.sections)
      BY <1>0, <2>2, <2>7 DEF WellParsed, Permits, NoEffect
    <3>2. m \in Object /\ SectionsOf(m) /\ Fingerprint(m) = Fingerprint(o)
      BY <2>2, <3>1, SplitWell
    <3>3. Applied(c, h) = With(h, m)
      BY <2>7 DEF Applied
    <3> HIDE DEF m
    <3>4. QED
      BY <2>1, <2>2, <2>3, <2>7, <3>2, <3>3
  <2>8. CASE c.kind = "deleteSection"
    <3> DEFINE m == [o EXCEPT !.sections = RemoveAt(@, c.index + 1)]
    <3>1. Middle(o, c.index)
      BY <2>2, <2>8 DEF Permits
    <3>2. m \in Object /\ SectionsOf(m) /\ Fingerprint(m) = Fingerprint(o)
      BY <2>2, <3>1, RemovedWell
    <3>3. Applied(c, h) = With(h, m)
      BY <2>8 DEF Applied
    <3> HIDE DEF m
    <3>4. QED
      BY <2>1, <2>2, <2>3, <2>8, <3>2, <3>3
  <2>9. CASE c.kind = "moveSection"
    <3> DEFINE m == [o EXCEPT !.sections[c.index + 1] = c.frame]
    <3>1. /\ c.frame \in Frames /\ Middle(o, c.index) /\ o.sections[c.index] < c.frame
          /\ c.frame < NextSection(o, c.index)
      BY <1>0, <2>2, <2>9 DEF WellParsed, Permits
    <3>2. m \in Object /\ SectionsOf(m) /\ Fingerprint(m) = Fingerprint(o)
      BY <2>2, <3>1, MovedSectionWell
    <3>3. Applied(c, h) = With(h, m)
      BY <2>9 DEF Applied
    <3> HIDE DEF m
    <3>4. QED
      BY <2>1, <2>2, <2>3, <2>9, <3>2, <3>3
  <2>10. QED
    BY <1>0, <1>2, <2>4, <2>5, <2>6, <2>7, <2>8, <2>9 DEF CommandKinds
<1>3. QED
  BY <1>1, <1>2

-----------------------------------------------------------------------------
(* What a step of the worker does to its job, field by field. *)

KeepsTask ==
    /\ job.pc # "idle" /\ job'.pc # "idle"
    /\ job'.client = job.client /\ job'.request = job.request
    /\ UNCHANGED <<held, userEdits>>
Aside == UNCHANGED <<objects, locked, scene, generation, counter, spent>>

\* The request gets past another test.
Passes ==
    /\ KeepsTask /\ Aside
    /\ job'.pc \in CheckedStages /\ job.request.kind # "query"
    /\ job.pc \in {"started"} \cup CheckedStages
    /\ job'.generation \in {job.generation, generation}
    /\ job'.prints = job.prints /\ job'.outcome = job.outcome
    /\ job'.changed = job.changed /\ job'.since = job.since

\* The answer is going to be "unchanged".
Refuses ==
    /\ KeepsTask /\ Aside
    /\ \/ job.pc \in {"started"} \cup CheckedStages
       \/ job.pc = "counted" /\ ~Locatable(job.prints)
    /\ job'.pc = "done" /\ job'.outcome = "unchanged" /\ job'.prints = {}
    /\ job'.generation = job.generation /\ job'.changed = job.changed /\ job'.since = job.since

\* There is nothing to do, and the answer can tell so.
Finds ==
    /\ KeepsTask /\ Aside
    /\ job.pc \in CheckedStages /\ job.request.kind # "query"
    /\ job'.pc \in {"counted", "done"} /\ job'.outcome = "completed"
    /\ \/ job'.prints = {}
       \/ /\ job.request.kind = "edit" /\ job'.prints = {job.request.locator.print}
          /\ \E h \in Visible : Fingerprint(objects[h]) = job.request.locator.print
    /\ job'.generation = job.generation /\ job'.changed = job.changed /\ job'.since = job.since

Reads ==
    /\ KeepsTask /\ Aside
    /\ job.pc = "started" /\ job.request.kind = "query"
    /\ job'.pc = "counted" /\ job'.outcome = "completed" /\ job'.since = Moment
    /\ job'.prints = {Fingerprint(objects[h]) : h \in Visible}
    /\ job'.generation = job.generation /\ job'.changed = job.changed

Numbers ==
    /\ KeepsTask /\ Aside
    /\ job.pc = "counted" /\ Locatable(job.prints) /\ job'.pc = "done"
    /\ job'.generation = generation
    /\ job'.prints = job.prints /\ job'.outcome = job.outcome
    /\ job'.changed = job.changed /\ job'.since = job.since

Edited(h) ==
    /\ KeepsTask /\ EditSection(h)
    /\ UNCHANGED <<locked, scene, generation, counter>>
    /\ job.pc = "committed" /\ job.request.kind # "query"
    /\ job'.pc = "edited" /\ job'.changed = TRUE /\ job'.outcome \in {"completed", "partial"}
    /\ \/ job'.prints = {}
       \/ job.request.command.kind # "delete" /\ job'.prints = {Fingerprint(objects'[h])}
    /\ job'.generation = job.generation /\ job'.since = job.since
    /\ spent' = spent \cup {job.request.revision}

Counts ==
    /\ KeepsTask /\ UNCHANGED <<objects, locked, scene, generation, spent>>
    /\ counter' = counter + 1
    /\ job.pc = "edited" /\ job'.pc = "counted"
    /\ job'.prints = job.prints /\ job'.outcome = job.outcome /\ job'.changed = job.changed
    /\ job'.generation = job.generation /\ job'.since = job.since

Starts ==
    \/ \E c \in Clients : StartQuery(c)
    \/ \E c \in Clients, cmd \in Commands, dry \in BOOLEAN :
          StartCreate(c, cmd, dry) \/ \E loc \in held[c].locators : StartEdit(c, cmd, loc, dry)

LEMMA WorkKinds ==
    ASSUME IInv, Works
    PROVE  \/ Starts \/ Passes \/ Refuses \/ Finds \/ Reads \/ Numbers
           \/ (\E h \in Handles : Edited(h)) \/ Counts \/ Respond
<1> DEFINE Goal == \/ Starts \/ Passes \/ Refuses \/ Finds \/ Reads \/ Numbers
                   \/ (\E h \in Handles : Edited(h)) \/ Counts \/ Respond
<1>0. ASSUME job.pc # "idle"
      PROVE  /\ DOMAIN job = JobFields
             /\ \A outcome, prints : Done(outcome, prints) =>
                   /\ job'.pc = "done" /\ job'.outcome = outcome /\ job'.prints = prints
                   /\ job'.client = job.client /\ job'.request = job.request
                   /\ job'.generation = job.generation /\ job'.changed = job.changed
                   /\ job'.since = job.since
             /\ \A pc : Go(pc) =>
                   /\ job'.pc = pc /\ job'.outcome = job.outcome /\ job'.prints = job.prints
                   /\ job'.client = job.client /\ job'.request = job.request
                   /\ job'.generation = job.generation /\ job'.changed = job.changed
                   /\ job'.since = job.since
  <2>1. DOMAIN job = JobFields
    BY <1>0 DEF IInv, JobShaped, Idle
  <2>2. QED
    BY <2>1 DEF Done, Go, JobFields
<1>1. CASE CheckRevision
  BY <1>0, <1>1 DEF CheckRevision, At, Passes, Refuses, KeepsTask, Aside, CheckedStages, timeline, tracker
<1>2. CASE CaptureGeneration
  <2>1. job.pc = "matched" /\ job.request.kind # "query"
    BY <1>2 DEF CaptureGeneration, At, IInv, RequestShaped, CheckedStages
  <2>2. Passes
    BY <1>0, <1>2, <2>1
    DEF CaptureGeneration, Passes, KeepsTask, Aside, CheckedStages, timeline, tracker, JobFields
  <2>3. QED
    BY <2>2
<1>3. CASE ReadSection
  <2>1. Reads
    BY <1>0, <1>3 DEF ReadSection, At, Reads, KeepsTask, Aside, timeline, tracker, JobFields
  <2>2. QED
    BY <2>1
<1>4. CASE PreflightFails \/ EditFails
  <2>1. Refuses
    BY <1>0, <1>4 DEF PreflightFails, EditFails, At, Refuses, KeepsTask, Aside, CheckedStages,
                      timeline, tracker
  <2>2. QED
    BY <2>1
<1>5. CASE ReachCommitPoint
  <2>1. job.pc = "planned" /\ job.request.kind # "query"
    BY <1>5 DEF ReachCommitPoint, At, IInv, RequestShaped, CheckedStages
  <2>2. Passes \/ Refuses
    BY <1>0, <1>5, <2>1 DEF ReachCommitPoint, Passes, Refuses, KeepsTask, Aside, CheckedStages,
                            timeline, tracker
  <2>3. QED
    BY <2>2
<1>6. CASE CommitContentChange
  <2>1. Counts
    BY <1>0, <1>6 DEF CommitContentChange, At, Counts, KeepsTask, timeline
  <2>2. QED
    BY <2>1
<1>7. CASE ReadGeneration
  <2>1. Numbers \/ Refuses
    BY <1>0, <1>7 DEF ReadGeneration, At, Numbers, Refuses, KeepsTask, Aside, timeline, tracker, JobFields
  <2>2. QED
    BY <2>1
<1>8. ASSUME NEW h \in Handles, Target(h), Superfluous(h)
      PROVE  /\ job.request.kind = "edit" /\ h \in Visible
             /\ Fingerprint(objects[h]) = job.request.locator.print
  BY <1>8 DEF Target, Superfluous, MayEdit, Resolves
<1>9. ASSUME NEW h \in Handles, Preflight(h)
      PROVE  Goal
  <2>1. job.pc = "captured" /\ job.request.kind # "query" /\ Target(h)
    BY <1>9 DEF Preflight, At, IInv, RequestShaped, CheckedStages
  <2>2. CASE job.request.dry
    <3>1. Finds
      BY <1>0, <1>9, <2>1, <2>2 DEF Preflight, Finds, KeepsTask, Aside, CheckedStages, timeline, tracker
    <3>2. QED
      BY <3>1
  <2>3. CASE ~job.request.dry /\ Superfluous(h)
    <3>1. Done("completed", {job.request.locator.print})
      BY <1>8, <1>9, <2>1, <2>3 DEF Preflight
    <3>2. Aside /\ UNCHANGED <<held, userEdits>>
      BY <1>9 DEF Preflight, Aside, timeline, tracker
    <3>3. Finds
      BY <1>0, <1>8, <2>1, <2>3, <3>1, <3>2 DEF Finds, KeepsTask, CheckedStages
    <3>4. QED
      BY <3>3
  <2>4. CASE ~job.request.dry /\ ~Superfluous(h)
    <3>1. Passes
      BY <1>0, <1>9, <2>1, <2>4 DEF Preflight, Passes, KeepsTask, Aside, CheckedStages, timeline, tracker
    <3>2. QED
      BY <3>1
  <2>5. QED
    BY <2>2, <2>3, <2>4
<1>10. ASSUME NEW h \in Handles, EditHasNoEffect(h)
       PROVE  Goal
  <2>1. job.pc = "committed" /\ job.request.kind # "query" /\ Target(h) /\ Superfluous(h)
    BY <1>10 DEF EditHasNoEffect, At, IInv, RequestShaped, CheckedStages
  <2>2. job' = [job EXCEPT !.pc = "counted", !.outcome = "completed", !.prints = {job.request.locator.print}]
    BY <1>8, <1>10, <2>1 DEF EditHasNoEffect
  <2>3. Aside /\ UNCHANGED <<held, userEdits>>
    BY <1>10 DEF EditHasNoEffect, Aside, timeline, tracker
  <2>4. Finds
    BY <1>0, <1>8, <2>1, <2>2, <2>3 DEF Finds, KeepsTask, CheckedStages, JobFields
  <2>5. QED
    BY <2>4
<1>11. ASSUME NEW h \in Handles, EditSection(h)
       PROVE  Goal
  <2>1. job.pc = "committed" /\ job.request.kind # "query"
    BY <1>11 DEF EditSection, At, IInv, RequestShaped, CheckedStages
  <2>2. PICK verified \in BOOLEAN :
           job' = [job EXCEPT !.pc = "edited", !.changed = TRUE, !.outcome = Outcome(verified),
                              !.prints = IF verified /\ job.request.command.kind # "delete"
                                         THEN {Fingerprint(objects'[h])} ELSE {}]
    BY <1>11 DEF EditSection
  <2>3. Outcome(verified) \in {"completed", "partial"}
    BY DEF Outcome
  <2>4. /\ UNCHANGED <<locked, scene, generation, counter, held, userEdits>>
        /\ spent' = spent \cup {job.request.revision}
    BY <1>11 DEF EditSection, tracker
  <2>5. Edited(h)
    BY <1>0, <1>11, <2>1, <2>2, <2>3, <2>4 DEF Edited, KeepsTask, JobFields
  <2>6. QED
    BY <2>5
<1>12. QED
  BY <1>1, <1>2, <1>3, <1>4, <1>5, <1>6, <1>7, <1>9, <1>10, <1>11 DEF Works, Starts

\* A request begins with what its client holds.
Started ==
    /\ job.pc = "idle" /\ Aside /\ UNCHANGED <<held, userEdits>>
    /\ job'.pc = "started" /\ job'.client \in Clients /\ job'.generation = generation
    /\ job'.outcome = "unchanged" /\ job'.prints = {} /\ job'.changed = FALSE
    /\ job'.since = Moment
    /\ job'.request.kind # "query" =>
          /\ job'.request.command \in Commands
          /\ job'.request.revision = held[job'.client].revision
          /\ job'.request.since = held[job'.client].since
    /\ job'.request.kind = "edit" => job'.request.locator \in held[job'.client].locators

LEMMA StartKind ==
    ASSUME Starts
    PROVE  Started
<1>1. ASSUME NEW c \in Clients, NEW r, Start(c, r)
      PROVE  /\ job.pc = "idle" /\ Aside /\ UNCHANGED <<held, userEdits>>
             /\ job'.pc = "started" /\ job'.client = c /\ job'.generation = generation
             /\ job'.outcome = "unchanged" /\ job'.prints = {} /\ job'.changed = FALSE
             /\ job'.since = Moment /\ job'.request = r
  BY <1>1 DEF Start, At, Aside, timeline, tracker
<1>2. ASSUME NEW c \in Clients, StartQuery(c)
      PROVE  Started
  <2> DEFINE r == [kind |-> "query"]
  <2>1. Start(c, r) /\ r.kind = "query"
    BY <1>2 DEF StartQuery
  <2> HIDE DEF r
  <2>2. job'.request.kind = "query"
    BY <1>1, <2>1
  <2>3. QED
    BY <1>1, <2>1, <2>2 DEF Started
<1>3. ASSUME NEW c \in Clients, NEW cmd \in Commands, NEW dry \in BOOLEAN, StartCreate(c, cmd, dry)
      PROVE  Started
  <2> DEFINE r == [kind |-> "create", command |-> cmd, dry |-> dry,
                   revision |-> held[c].revision, since |-> held[c].since]
  <2>1. Start(c, r)
    BY <1>3 DEF StartCreate
  <2>2. /\ r.kind = "create" /\ r.command = cmd /\ r.revision = held[c].revision
        /\ r.since = held[c].since
    OBVIOUS
  <2> HIDE DEF r
  <2>3. QED
    BY <1>1, <2>1, <2>2 DEF Started
<1>4. ASSUME NEW c \in Clients, NEW cmd \in Commands, NEW dry \in BOOLEAN,
             NEW loc \in held[c].locators, StartEdit(c, cmd, loc, dry)
      PROVE  Started
  <2> DEFINE r == [kind |-> "edit", command |-> cmd, locator |-> loc, dry |-> dry,
                   revision |-> held[c].revision, since |-> held[c].since]
  <2>1. Start(c, r)
    BY <1>4 DEF StartEdit
  <2>2. /\ r.kind = "edit" /\ r.command = cmd /\ r.revision = held[c].revision
        /\ r.since = held[c].since /\ r.locator = loc
    OBVIOUS
  <2> HIDE DEF r
  <2>3. QED
    BY <1>1, <2>1, <2>2 DEF Started
<1>5. QED
  BY <1>2, <1>3, <1>4 DEF Starts

\* The answer is given, and the client may take it.
Responds ==
    /\ job.pc = "done" /\ job'.pc = "idle" /\ Aside /\ UNCHANGED userEdits
    /\ \/ held' = held
       \/ Informs /\ held' = [held EXCEPT ![job.client] = Taken(@)]

LEMMA RespondKind ==
    ASSUME Respond
    PROVE  Responds
BY DEF Respond, At, Responds, Aside, Idle, timeline, tracker

\* The user's part of a step, apart from the timeline.
Disturbs ==
    /\ UNCHANGED <<job, held, spent>>
    /\ \/ userEdits < MaxUserEdits /\ userEdits' = userEdits + 1 /\ UNCHANGED <<generation, counter>>
       \/ /\ generation < MaxLoads /\ generation' = generation + 1 /\ counter' = 0
          /\ userEdits' = userEdits

LEMMA UserKind ==
    ASSUME User
    PROVE  Disturbs
BY DEF User, UserMoves, UserSplits, UserRenames, UserDeletes, UserLocks, UserSwitchesScene,
       LoadProject, UserEdits, Disturbs, tracker

-----------------------------------------------------------------------------
(* Type correctness and the shape of the timeline. *)

HeldLocators == [generation : 0..MaxLoads, print : Fingerprints]
HeldRecords == [revision : Revisions, locators : SUBSET HeldLocators, since : Nat \X Nat]

\* A request quotes what its client holds: the client takes nothing else before the answer.
JobTyped ==
    job.pc # "idle" =>
        /\ job.client \in Clients /\ job.prints \subseteq Fingerprints
        /\ job.outcome \in {"unchanged", "completed", "partial"}
        /\ job.generation \in 0..generation /\ job.changed \in BOOLEAN /\ job.since \in Nat \X Nat
        /\ job.request.kind # "query" =>
              /\ job.request.command \in Commands
              /\ job.request.revision = held[job.client].revision
              /\ job.request.since = held[job.client].since
        /\ job.request.kind = "edit" => job.request.locator \in held[job.client].locators

StateInv ==
    /\ IInv
    /\ Timeline(objects) /\ locked \subseteq Scenes \X Layers /\ scene \in Scenes
    /\ generation \in 0..MaxLoads /\ userEdits \in 0..MaxUserEdits
    /\ held \in [Clients -> HeldRecords] /\ spent \subseteq Revisions
    /\ JobTyped

LEMMA PrintType ==
    ASSUME NEW o \in Object
    PROVE  Fingerprint(o) \in Fingerprints
BY DEF Object, Fingerprint, Fingerprints

LEMMA VisiblePrints ==
    ASSUME Timeline(objects)
    PROVE  \A h \in Visible : Fingerprint(objects[h]) \in Fingerprints
BY PrintType DEF Timeline, Visible

\* What a client takes from an answer.
LEMMA TakenFields ==
    ASSUME StateInv, job.pc # "idle"
    PROVE  /\ Taken(held[job.client]) \in HeldRecords
           /\ Taken(held[job.client]).revision = Revision
           /\ Taken(held[job.client]).since =
                 IF job.request.kind = "query" THEN job.since ELSE held[job.client].since
           /\ Taken(held[job.client]).locators =
                 IF job.request.kind = "query" THEN Fresh
                 ELSE (held[job.client].locators \
                          (IF job.request.kind = "edit" THEN {job.request.locator} ELSE {})) \cup Fresh
<1> DEFINE old == held[job.client]
<1>1. old \in HeldRecords /\ job.since \in Nat \X Nat
  BY DEF StateInv, JobTyped
<1>2. Revision \in Revisions
  BY DEF StateInv, IInv, Revision, Revisions
<1>3. Fresh \in SUBSET HeldLocators
  BY EditsAssumption DEF StateInv, JobTyped, Fresh, Locators, HeldLocators
<1> HIDE DEF old
<1>4. CASE job.request.kind = "query"
  <2>1. Taken(old) = [revision |-> Revision, locators |-> Fresh, since |-> job.since]
    BY <1>4 DEF Taken
  <2>2. QED
    BY <1>1, <1>2, <1>3, <1>4, <2>1 DEF HeldRecords, old
<1>5. CASE job.request.kind # "query"
  <2> DEFINE rest == (old.locators \
                          (IF job.request.kind = "edit" THEN {job.request.locator} ELSE {})) \cup Fresh
  <2>1. Taken(old) = [old EXCEPT !.revision = Revision, !.locators = rest]
    BY <1>5 DEF Taken
  <2>2. rest \in SUBSET HeldLocators
    BY <1>1, <1>3 DEF HeldRecords
  <2> HIDE DEF rest
  <2>3. /\ Taken(old) \in HeldRecords /\ Taken(old).revision = Revision
        /\ Taken(old).since = old.since /\ Taken(old).locators = rest
    BY <1>1, <1>2, <2>1, <2>2 DEF HeldRecords
  <2>4. QED
    BY <1>5, <2>3 DEF rest, old
<1>6. QED
  BY <1>4, <1>5

LEMMA InitStateInv == Init => StateInv
<1> SUFFICES ASSUME Init PROVE StateInv
  OBVIOUS
<1> USE EditsAssumption
<1>1. PICK p \in Projects : objects = p.objects /\ locked = p.locked /\ scene = p.scene
  BY DEF Init
<1>2. Timeline(objects) /\ locked \subseteq Scenes \X Layers /\ scene \in Scenes
  BY <1>1 DEF Timeline
<1>3. held \in [Clients -> HeldRecords]
  <2>1. [revision |-> <<0, 0>>, locators |-> {}, since |-> <<0, 0>>] \in HeldRecords
    BY DEF HeldRecords, Revisions
  <2>2. QED
    BY <2>1 DEF Init
<1>4. job.pc = "idle" /\ generation \in 0..MaxLoads /\ userEdits \in 0..MaxUserEdits /\ spent = {}
  BY DEF Init, Idle
<1>5. QED
  BY <1>2, <1>3, <1>4, InitIInv DEF StateInv, JobTyped

LEMMA NextStateInv ==
    ASSUME StateInv, [Next]_vars
    PROVE  StateInv'
<1> USE EditsAssumption
<1>0. IInv' /\ IInv
  BY NextIInv DEF StateInv
<1>1. CASE UNCHANGED vars
  <2>1. UNCHANGED <<objects, locked, scene, generation, counter, job, held, userEdits, spent>>
    BY <1>1 DEF vars, timeline, tracker
  <2>2. QED
    BY <1>0, <2>1 DEF StateInv, JobTyped
<1>2. CASE User
  <2>1. Timeline(objects') /\ Disturbs
    BY <1>2, UserTimeline, UserKind DEF StateInv
  <2>2. locked' \subseteq Scenes \X Layers /\ scene' \in Scenes
    <3>1. ASSUME NEW layer \in Layers, UserLocks(layer)
          PROVE  locked' \subseteq Scenes \X Layers /\ scene' \in Scenes
      BY <3>1 DEF StateInv, UserLocks, UserEdits
    <3>2. ASSUME NEW p \in Projects, LoadProject(p)
          PROVE  locked' \subseteq Scenes \X Layers /\ scene' \in Scenes
      BY <3>2 DEF LoadProject
    <3>3. ASSUME NEW s \in Scenes, UserSwitchesScene(s)
          PROVE  locked' \subseteq Scenes \X Layers /\ scene' \in Scenes
      BY <3>3 DEF StateInv, UserSwitchesScene
    <3>4. ASSUME locked' = locked, scene' = scene
          PROVE  locked' \subseteq Scenes \X Layers /\ scene' \in Scenes
      BY <3>4 DEF StateInv
    <3>5. QED
      BY <1>2, <3>1, <3>2, <3>3, <3>4
      DEF User, UserMoves, UserSplits, UserRenames, UserDeletes, UserEdits
  <2>3. /\ generation' \in 0..MaxLoads /\ userEdits' \in 0..MaxUserEdits
        /\ generation <= generation'
    BY <2>1 DEF StateInv, Disturbs
  <2>4. JobTyped'
    BY <2>1, <2>3 DEF StateInv, JobTyped, Disturbs
  <2>5. QED
    BY <1>0, <2>1, <2>2, <2>3, <2>4 DEF StateInv, Disturbs
<1>3. CASE Works
  <2>1. CASE Started
    <3>1. Moment \in Nat \X Nat
      BY DEF StateInv, Moment
    <3>2. generation \in 0..generation /\ generation' = generation
      BY <2>1 DEF StateInv, Started, Aside
    <3>3. job'.changed \in BOOLEAN
      BY <2>1 DEF Started
    <3>4. JobTyped'
      BY <2>1, <3>1, <3>2, <3>3 DEF JobTyped, Started
    <3>5. QED
      BY <1>0, <2>1, <3>4 DEF StateInv, Started, Aside
  <2>2. CASE Responds
    <3>1. held' \in [Clients -> HeldRecords]
      BY <2>2, TakenFields DEF StateInv, Responds
    <3>2. QED
      BY <1>0, <2>2, <3>1 DEF StateInv, Responds, Aside, JobTyped
  <2>3. CASE Passes \/ Refuses \/ Numbers
    <3>1. JobTyped'
      BY <2>3 DEF StateInv, JobTyped, Passes, Refuses, Numbers, KeepsTask, Aside
    <3>2. QED
      BY <1>0, <2>3, <3>1 DEF StateInv, Passes, Refuses, Numbers, KeepsTask, Aside
  <2>4. CASE Finds
    <3>1. job'.prints \subseteq Fingerprints
      BY <2>4, VisiblePrints DEF StateInv, Finds
    <3>2. JobTyped'
      BY <2>4, <3>1 DEF StateInv, JobTyped, Finds, KeepsTask, Aside
    <3>3. QED
      BY <1>0, <2>4, <3>2 DEF StateInv, Finds, KeepsTask, Aside
  <2>5. CASE Reads
    <3>1. job'.prints \subseteq Fingerprints /\ Moment \in Nat \X Nat
      BY <2>5, VisiblePrints DEF StateInv, Reads, Moment
    <3>2. JobTyped'
      BY <2>5, <3>1 DEF StateInv, JobTyped, Reads, KeepsTask, Aside
    <3>3. QED
      BY <1>0, <2>5, <3>2 DEF StateInv, Reads, KeepsTask, Aside
  <2>6. ASSUME NEW h \in Handles, Edited(h)
        PROVE  StateInv'
    <3>0. job.request.command \in Commands /\ job.pc # "idle" /\ job.request.kind # "query"
      BY <2>6 DEF StateInv, JobTyped, Edited
    <3>1. /\ Timeline(objects')
          /\ job.request.command.kind # "delete" => h \in DOMAIN objects' /\ objects'[h] \in Object
      BY <1>0, <2>6, <3>0, EditedObject DEF StateInv, Edited
    <3>2. job'.prints \subseteq Fingerprints
      BY <2>6, <3>1, PrintType DEF Edited
    <3>3. JobTyped'
      BY <2>6, <3>2 DEF StateInv, JobTyped, Edited, KeepsTask
    <3>4. spent' \subseteq Revisions
      <4>1. held[job.client].revision \in Revisions
        BY <3>0 DEF StateInv, JobTyped, HeldRecords
      <4>2. QED
        BY <2>6, <3>0, <4>1 DEF StateInv, JobTyped, Edited
    <3>5. QED
      BY <1>0, <2>6, <3>1, <3>3, <3>4 DEF StateInv, Edited, KeepsTask
  <2>7. CASE Counts
    <3>1. JobTyped'
      BY <2>7 DEF StateInv, JobTyped, Counts, KeepsTask
    <3>2. QED
      BY <1>0, <2>7, <3>1 DEF StateInv, Counts, KeepsTask
  <2>8. QED
    BY <1>0, <1>3, <2>1, <2>2, <2>3, <2>4, <2>5, <2>6, <2>7, WorkKinds, StartKind, RespondKind
<1>4. QED
  BY <1>1, <1>2, <1>3 DEF Next

LEMMA StateInductive == Spec => []StateInv
BY InitStateInv, NextStateInv, PTL DEF Spec

\* Every variable of the pipeline keeps its shape.
THEOREM TypeCorrect == Spec => []TypeOK
<1>1. StateInv => TypeOK
  <2> SUFFICES ASSUME StateInv PROVE TypeOK
    OBVIOUS
  <2>1. Revision \in Revisions
    BY DEF StateInv, IInv, Revision, Revisions
  <2>2. \/ job = Idle
        \/ /\ job.pc \in JobStages /\ job.client \in Clients /\ job.prints \subseteq Fingerprints
           /\ job.outcome \in {"unchanged", "completed", "partial"}
    BY DEF StateInv, IInv, JobShaped, JobTyped, JobStages
  <2>3. ASSUME NEW c \in Clients
        PROVE  /\ held[c].revision \in Revisions
               /\ \A loc \in held[c].locators : loc.generation \in 0..MaxLoads /\ loc.print \in Fingerprints
    BY DEF StateInv, HeldRecords, HeldLocators
  <2>4. QED
    BY <2>1, <2>2, <2>3 DEF StateInv, Timeline, TypeOK
<1>2. QED
  BY <1>1, StateInductive, PTL

\* Neither the user nor an edit of the Bridge makes two objects of a layer overlap or puts a section
\* out of order, whatever came between the preflight and the edit section.
THEOREM TimelineStaysWellFormed == Spec => []TimelineWellFormed
<1>1. StateInv => TimelineWellFormed
  BY DEF StateInv, Timeline, TimelineWellFormed
<1>2. QED
  BY <1>1, StateInductive, PTL

-----------------------------------------------------------------------------
(* What an edit is answered. *)

\* The end of a locator can be counted from 1 and its name fits, and so it is with the object of an
\* answer.
LocatorsLocatable == \A c \in Clients : \A loc \in held[c].locators : Locatable({loc.print})
AnswersLocatable == job.pc = "done" /\ job.outcome = "completed" => Locatable(job.prints)

\* What an edit may ask for that no locator can tell.
AsksTooMuch(r) == EndsBeyondNumbers(r) \/ GivesLongName(r)

\* What an edit that has changed the project is going to be answered.
ChangeIsKnown ==
    job.pc # "idle" /\ job.changed =>
        /\ job.pc \in {"edited", "counted", "done"} /\ job.request.kind # "query"
        /\ job.request.revision \in spent
        /\ job.pc # "done" =>
              /\ job.outcome \in {"completed", "partial"}
              /\ Locatable(job.prints) \/ AsksTooMuch(job.request)
        /\ job.outcome = "unchanged" => AsksTooMuch(job.request)

HonestInv == StateInv /\ LocatorsLocatable /\ AnswersLocatable /\ ChangeIsKnown

\* The name of the object that was edited: the one that was given, or the one it had.
LEMMA EditedLabel ==
    ASSUME IInv, Timeline(objects), NEW h \in Handles, EditSection(h), h \in DOMAIN objects',
           job.request.command \in Commands
    PROVE  LET c == job.request.command
           IN  objects'[h].label = IF c.kind \in {"create", "name"} THEN c.label ELSE objects[h].label
<1> DEFINE c == job.request.command
           o == objects[h]
<1>0. c.kind \in CommandKinds /\ objects' = Applied(c, h)
  BY EditsAssumption DEF EditSection
<1>1. c.kind # "create" => h \in DOMAIN objects /\ o \in Object
  BY EditTargets DEF Timeline
<1>2. \A m : objects' = With(h, m) => objects'[h] = m
  BY DEF With
<1>3. CASE c.kind = "create"
  BY <1>0, <1>2, <1>3 DEF Applied, New
<1>4. CASE c.kind = "move"
  <2>1. objects'[h] = Shifted(o, c.layer, c.frame)
    BY <1>0, <1>2, <1>4 DEF Applied
  <2>2. QED
    BY <1>1, <1>4, <2>1 DEF Shifted, Object
<1>5. CASE c.kind = "name"
  BY <1>0, <1>1, <1>2, <1>5 DEF Applied, Object
<1>6. CASE c.kind = "createSection"
  BY <1>0, <1>1, <1>2, <1>6 DEF Applied, Split, Object
<1>7. CASE c.kind = "deleteSection"
  BY <1>0, <1>1, <1>2, <1>7 DEF Applied, Object
<1>8. CASE c.kind = "moveSection"
  BY <1>0, <1>1, <1>2, <1>8 DEF Applied, Object
<1>9. c.kind # "delete"
  BY <1>0 DEF Applied, Without
<1>10. QED
  BY <1>0, <1>3, <1>4, <1>5, <1>6, <1>7, <1>8, <1>9 DEF CommandKinds

\* The object that was edited can be told, unless the edit asked for an end or a name that cannot.
LEMMA EditedCanBeTold ==
    ASSUME HonestInv, NEW h \in Handles, Edited(h)
    PROVE  Locatable(job'.prints) \/ AsksTooMuch(job.request)
<1> DEFINE r == job.request
<1>1. /\ IInv /\ EditSection(h) /\ scene \in Scenes /\ Timeline(objects) /\ r.command \in Commands
      /\ job.pc # "idle" /\ r.kind # "query" /\ r.kind \in {"query", "edit", "create"}
      /\ r.kind = "edit" => r.locator \in held[job.client].locators /\ job.client \in Clients
      /\ r.kind = "create" => r.command.kind = "create"
  BY DEF HonestInv, StateInv, JobTyped, Edited, IInv, RequestShaped
<1>2. \/ job'.prints = {}
      \/ h \in DOMAIN objects' /\ job'.prints = {Fingerprint(objects'[h])}
  BY <1>1, EditedObject DEF Edited
<1>3. CASE job'.prints = {}
  BY <1>3 DEF Locatable
<1>4. CASE h \in DOMAIN objects' /\ job'.prints = {Fingerprint(objects'[h])}
  <2>1. Locatable(job'.prints) <=> objects'[h].end <= FrameMax /\ objects'[h].label \notin LongLabels
    BY <1>4 DEF Locatable, Fingerprint
  <2>2. CASE r.kind = "create"
    <3>1. objects'[h].end <= FrameMax /\ objects'[h].label = r.command.label
      BY <1>1, <1>4, <2>2, EditedObject, EditedLabel
    <3>2. QED
      BY <1>1, <2>1, <2>2, <3>1 DEF AsksTooMuch, GivesLongName
  <2>3. CASE r.kind = "edit"
    <3>0. Fingerprint(objects[h]) = r.locator.print
      BY <1>1, <2>3, EditedObject
    <3>1. /\ objects[h].end = r.locator.print.end /\ objects[h].start = r.locator.print.start
          /\ objects[h].label = r.locator.print.label
          /\ objects'[h].end = IF r.command.kind = "move"
                               THEN r.command.frame + (objects[h].end - objects[h].start)
                               ELSE objects[h].end
          /\ objects'[h] \in Object
      BY <1>1, <1>4, <2>3, <3>0, EditedObject DEF Fingerprint
    <3>2. r.locator.print.end <= FrameMax /\ r.locator.print.label \notin LongLabels
      BY <1>1, <2>3 DEF HonestInv, LocatorsLocatable, Locatable
    <3>3. objects'[h].end \in Int /\ FrameMax \in Int
      BY <3>1, EditsAssumption DEF Object, SdkFrames
    <3>4. objects'[h].end <= FrameMax \/ EndsBeyondNumbers(r)
      <4>1. objects'[h].end <= FrameMax \/ objects'[h].end > FrameMax
        BY <3>3
      <4>2. QED
        BY <2>3, <3>1, <3>2, <4>1 DEF EndsBeyondNumbers
    <3>5. objects'[h].label = IF r.command.kind = "name" THEN r.command.label ELSE objects[h].label
      <4>1. r.command.kind # "create"
        BY <1>1, <2>3, EditTargets
      <4>2. QED
        BY <1>1, <1>4, <4>1, EditedLabel
    <3>6. objects'[h].label \notin LongLabels \/ GivesLongName(r)
      BY <3>1, <3>2, <3>5 DEF GivesLongName
    <3>7. QED
      BY <2>1, <3>4, <3>6 DEF AsksTooMuch
  <2>4. QED
    BY <1>1, <2>2, <2>3
<1>5. QED
  BY <1>2, <1>3, <1>4

LEMMA InitHonestInv == Init => HonestInv
<1> SUFFICES ASSUME Init PROVE HonestInv
  OBVIOUS
<1>1. job.pc = "idle" /\ \A c \in Clients : held[c].locators = {}
  BY DEF Init, Idle
<1>2. QED
  BY <1>1, InitStateInv DEF HonestInv, LocatorsLocatable, AnswersLocatable, ChangeIsKnown

LEMMA NextHonestInv ==
    ASSUME HonestInv, [Next]_vars
    PROVE  HonestInv'
<1>0. StateInv /\ StateInv' /\ IInv
  BY NextStateInv DEF HonestInv, StateInv
<1> DEFINE Goal == LocatorsLocatable' /\ AnswersLocatable' /\ ChangeIsKnown'
<1>1. CASE UNCHANGED vars
  <2>1. UNCHANGED <<job, held, spent>>
    BY <1>1 DEF vars
  <2>2. QED
    BY <1>0, <2>1 DEF HonestInv, LocatorsLocatable, AnswersLocatable, ChangeIsKnown
<1>2. CASE User
  <2>1. UNCHANGED <<job, held, spent>>
    BY <1>2, UserKind DEF Disturbs
  <2>2. QED
    BY <1>0, <2>1 DEF HonestInv, LocatorsLocatable, AnswersLocatable, ChangeIsKnown
<1>3. CASE Works
  <2>1. CASE Started
    BY <1>0, <2>1 DEF HonestInv, LocatorsLocatable, AnswersLocatable, ChangeIsKnown, Started
  <2>2. CASE Responds
    <3>1. LocatorsLocatable'
      <4>1. CASE held' = held
        BY <4>1 DEF HonestInv, LocatorsLocatable
      <4>2. CASE Informs /\ held' = [held EXCEPT ![job.client] = Taken(@)]
        <5>1. \A p \in job.prints : Locatable({p})
          BY <2>2, <4>2 DEF HonestInv, AnswersLocatable, Informs, Responds, Locatable
        <5>2. \A loc \in Fresh : Locatable({loc.print})
          BY <5>1 DEF Fresh, Locators
        <5>3. job.client \in Clients /\ job.pc # "idle"
          BY <1>0, <2>2 DEF StateInv, JobTyped, Responds
        <5>4. \A loc \in Taken(held[job.client]).locators :
                 loc \in held[job.client].locators \/ loc \in Fresh
          BY <1>0, <5>3, TakenFields
        <5>5. \A c \in Clients : held'[c] = IF c = job.client THEN Taken(held[c]) ELSE held[c]
          BY <1>0, <4>2 DEF StateInv
        <5>6. QED
          BY <5>2, <5>3, <5>4, <5>5 DEF HonestInv, LocatorsLocatable
      <4>3. QED
        BY <2>2, <4>1, <4>2 DEF Responds
    <3>2. QED
      BY <1>0, <2>2, <3>1 DEF HonestInv, AnswersLocatable, ChangeIsKnown, Responds
  <2>3. CASE Passes
    BY <1>0, <2>3 DEF HonestInv, LocatorsLocatable, AnswersLocatable, ChangeIsKnown, Passes, KeepsTask,
                CheckedStages
  <2>4. CASE Refuses
    BY <1>0, <2>4 DEF HonestInv, LocatorsLocatable, AnswersLocatable, ChangeIsKnown, Refuses, KeepsTask,
                Aside, CheckedStages
  <2>5. CASE Finds
    <3>1. Locatable(job'.prints)
      <4>1. job.request.kind = "edit" => Locatable({job.request.locator.print})
        BY <1>0, <2>5 DEF HonestInv, StateInv, JobTyped, LocatorsLocatable, Finds, KeepsTask
      <4>2. QED
        BY <2>5, <4>1 DEF Finds, Locatable
    <3>2. QED
      BY <1>0, <2>5, <3>1 DEF HonestInv, LocatorsLocatable, AnswersLocatable, ChangeIsKnown, Finds,
                        KeepsTask, CheckedStages
  <2>6. CASE Reads
    BY <1>0, <2>6 DEF HonestInv, LocatorsLocatable, AnswersLocatable, ChangeIsKnown, Reads, KeepsTask
  <2>7. CASE Numbers
    BY <1>0, <2>7 DEF HonestInv, LocatorsLocatable, AnswersLocatable, ChangeIsKnown, Numbers, KeepsTask,
                Aside
  <2>8. ASSUME NEW h \in Handles, Edited(h)
        PROVE  Goal
    <3>1. Locatable(job'.prints) \/ AsksTooMuch(job.request)
      BY <2>8, EditedCanBeTold
    <3>2. QED
      BY <2>8, <3>1 DEF HonestInv, LocatorsLocatable, AnswersLocatable, ChangeIsKnown, Edited,
                        KeepsTask
  <2>9. CASE Counts
    BY <1>0, <2>9 DEF HonestInv, LocatorsLocatable, AnswersLocatable, ChangeIsKnown, Counts, KeepsTask
  <2>10. QED
    BY <1>0, <1>3, <2>1, <2>2, <2>3, <2>4, <2>5, <2>6, <2>7, <2>8, <2>9,
       WorkKinds, StartKind, RespondKind DEF HonestInv
<1>4. QED
  BY <1>1, <1>2, <1>3 DEF Next

LEMMA HonestInductive == Spec => []HonestInv
BY InitHonestInv, NextHonestInv, PTL DEF Spec

\* When the answer of a request that changed the project is sent, the revision it quoted is past, and
\* it is called unchanged only if the move made an end that cannot be counted from 1, or the edit
\* gave a name that is too long for a locator.
THEOREM EditsAreAnsweredHonestly == Spec => []AnswersAreHonest
<1>1. HonestInv => AnswersAreHonest
  <2> SUFFICES ASSUME HonestInv, job.pc = "done", job.changed
               PROVE  /\ job.request.revision # Revision
                      /\ job.outcome = "unchanged" =>
                            EndsBeyondNumbers(job.request) \/ GivesLongName(job.request)
    BY DEF AnswersAreHonest, At
  <2>1. job.request.revision \in spent /\ (job.outcome = "unchanged" => AsksTooMuch(job.request))
    BY DEF HonestInv, ChangeIsKnown
  <2>2. job.request.revision # Revision
    BY <2>1 DEF HonestInv, StateInv, IInv, SpentBefore, Revision
  <2>3. QED
    BY <2>1, <2>2 DEF AsksTooMuch
<1>2. QED
  BY <1>1, HonestInductive, PTL

-----------------------------------------------------------------------------
(* What a client holds is there. *)

NotAfter(r) == r[1] < generation \/ (r[1] = generation /\ r[2] <= counter)

\* What a client holds is of the past: the revision it holds, and the reading before that.
HeldBefore ==
    \A c \in Clients : /\ NotAfter(held[c].revision)
                       /\ held[c].since[1] <= held[c].revision[1]
                       /\ held[c].since[2] <= userEdits

\* When the client of the request read the project, or the query itself did.
ReadAt == IF job.request.kind = "query" THEN job.since ELSE job.request.since
ReadBefore ==
    job.pc # "idle" =>
        /\ ReadAt[1] <= generation /\ ReadAt[2] <= userEdits
        /\ job.request.kind # "query" \/ (job.pc = "done" /\ job.outcome = "completed") =>
              ReadAt[1] <= job.generation

Shown(p) == \E h \in Visible : Fingerprint(objects[h]) = p
Known(loc) == loc.generation = generation /\ Shown(loc.print)

\* What the answer will tell is there, as long as nobody else edited since.
PrintsAreShown ==
    job.pc # "idle" /\ ReadAt = Moment => \A p \in job.prints : Shown(p)

\* An edit leaves the other objects its client holds.
OthersAreKnown ==
    job.pc # "idle" /\ job.changed /\ ReadAt = Moment =>
        \A loc \in held[job.client].locators :
            \/ job.request.kind = "edit" /\ loc = job.request.locator
            \/ Known(loc)

\* A request that was carried out without a change still quotes the current revision.
StillCurrent ==
    /\ job.pc = "edited" => job.changed
    /\ job.pc # "idle" /\ job.request.kind # "query" /\ job.outcome = "completed" /\ ~job.changed =>
          job.request.revision[1] < generation \/ job.request.revision = Revision

\* HeldLocatorsResolve, for one client and in terms of what is shown.
UpToDate(c) == held[c].revision = Revision /\ held[c].since = Moment
HeldIsKnown ==
    job.pc # "edited" =>
        \A c \in Clients : UpToDate(c) => \A loc \in held[c].locators : Known(loc)

HeldInv ==
    /\ HonestInv /\ HeldBefore /\ ReadBefore /\ PrintsAreShown /\ OthersAreKnown /\ StillCurrent
    /\ HeldIsKnown

\* The types the arithmetic on revisions and moments needs.
LEMMA HeldTypes ==
    ASSUME StateInv
    PROVE  /\ generation \in Nat /\ counter \in Nat /\ userEdits \in Nat
           /\ \A c \in Clients : /\ held[c].revision \in Nat \X Nat /\ held[c].since \in Nat \X Nat
                                 /\ held[c].locators \subseteq HeldLocators
           /\ job.pc # "idle" => /\ job.client \in Clients /\ job.since \in Nat \X Nat
                                 /\ job.generation \in Nat /\ job.generation <= generation
                                 /\ ReadAt \in Nat \X Nat
                                 /\ job.request.kind # "query" => job.request.revision \in Nat \X Nat
<1> USE EditsAssumption
<1>1. generation \in Nat /\ counter \in Nat /\ userEdits \in Nat
  BY DEF StateInv, IInv
<1>2. ASSUME NEW c \in Clients
      PROVE  /\ held[c].revision \in Nat \X Nat /\ held[c].since \in Nat \X Nat
             /\ held[c].locators \subseteq HeldLocators
  <2>1. held[c] \in HeldRecords
    BY DEF StateInv
  <2>2. QED
    BY <2>1 DEF HeldRecords, Revisions
<1>3. ASSUME job.pc # "idle"
      PROVE  /\ job.client \in Clients /\ job.since \in Nat \X Nat
             /\ job.generation \in Nat /\ job.generation <= generation
             /\ ReadAt \in Nat \X Nat
             /\ job.request.kind # "query" => job.request.revision \in Nat \X Nat
  <2>1. /\ job.client \in Clients /\ job.since \in Nat \X Nat /\ job.generation \in 0..generation
        /\ job.request.kind # "query" => /\ job.request.revision = held[job.client].revision
                                         /\ job.request.since = held[job.client].since
    BY <1>3 DEF StateInv, JobTyped
  <2>2. QED
    BY <1>1, <1>2, <2>1 DEF ReadAt
<1>4. QED
  BY <1>1, <1>2, <1>3

LEMMA InitHeldInv == Init => HeldInv
<1> SUFFICES ASSUME Init PROVE HeldInv
  OBVIOUS
<1>1. /\ job.pc = "idle" /\ generation = 0 /\ counter = 0 /\ userEdits = 0
      /\ \A c \in Clients : /\ held[c].locators = {} /\ held[c].revision = <<0, 0>>
                            /\ held[c].since = <<0, 0>>
  BY DEF Init, Idle
<1>2. HeldBefore
  BY <1>1 DEF HeldBefore, NotAfter
<1>3. QED
  BY <1>1, <1>2, InitHonestInv
  DEF HeldInv, ReadBefore, PrintsAreShown, OthersAreKnown, StillCurrent, HeldIsKnown

\* Nothing is known of the project as the user or a load leaves it, and nobody's reading is of now.
LEMMA DisturbKeepsHeld ==
    ASSUME HeldInv, HonestInv', Disturbs
    PROVE  HeldInv'
<1>0. StateInv /\ UNCHANGED <<job, held>>
  BY DEF HeldInv, HonestInv, Disturbs
<1>1. /\ generation \in Nat /\ counter \in Nat /\ userEdits \in Nat
      /\ \/ userEdits' = userEdits + 1 /\ generation' = generation /\ counter' = counter
         \/ generation' = generation + 1 /\ counter' = 0 /\ userEdits' = userEdits
  BY <1>0, HeldTypes DEF Disturbs
<1>2. ASSUME NEW c \in Clients
      PROVE  /\ NotAfter(held[c].revision)' /\ held[c].since[2] <= userEdits'
             /\ held[c].since # Moment'
  <2>1. /\ held[c].revision \in Nat \X Nat /\ held[c].since \in Nat \X Nat
        /\ NotAfter(held[c].revision) /\ held[c].since[1] <= held[c].revision[1]
        /\ held[c].since[2] <= userEdits
    BY <1>0, HeldTypes DEF HeldInv, HeldBefore
  <2>2. NotAfter(held[c].revision)'
    BY <1>0, <1>1, <2>1 DEF NotAfter
  <2>3. QED
    BY <1>1, <2>1, <2>2 DEF NotAfter, Moment
<1>3. HeldBefore' /\ HeldIsKnown'
  BY <1>0, <1>2 DEF HeldInv, HeldBefore, HeldIsKnown, UpToDate
<1>4. ReadBefore' /\ (job.pc # "idle" => ReadAt' # Moment')
  <2>1. ReadAt' = ReadAt
    BY <1>0 DEF ReadAt
  <2>2. CASE job.pc # "idle"
    <3>1. ReadAt \in Nat \X Nat /\ ReadAt[1] <= generation /\ ReadAt[2] <= userEdits
      BY <1>0, <2>2, HeldTypes DEF HeldInv, ReadBefore
    <3>2. QED
      BY <1>0, <1>1, <2>1, <2>2, <3>1 DEF HeldInv, ReadBefore, Moment
  <2>3. QED
    BY <1>0, <2>2 DEF ReadBefore
<1>5. PrintsAreShown' /\ OthersAreKnown'
  BY <1>0, <1>4 DEF PrintsAreShown, OthersAreKnown
<1>6. StillCurrent'
  BY <1>0, <1>1, HeldTypes DEF HeldInv, StillCurrent, Revision
<1>7. QED
  BY <1>3, <1>4, <1>5, <1>6 DEF HeldInv

\* Where timeline, revision and clients stay as they are, so does what is known.
LEMMA NothingMoves ==
    ASSUME Aside, UNCHANGED <<held, userEdits>>
    PROVE  /\ Moment' = Moment /\ Revision' = Revision
           /\ \A p : Shown(p)' <=> Shown(p)
           /\ \A loc : Known(loc)' <=> Known(loc)
           /\ HeldBefore => HeldBefore'
           /\ HeldIsKnown /\ job.pc # "edited" => HeldIsKnown'
<1>1. Moment' = Moment /\ Revision' = Revision /\ Visible' = Visible
  BY DEF Aside, Moment, Revision, Visible, Active
<1>2. \A p : Shown(p)' <=> Shown(p)
  BY <1>1 DEF Aside, Shown
<1>3. \A loc : Known(loc)' <=> Known(loc)
  BY <1>2 DEF Aside, Known
<1>4. HeldBefore => HeldBefore'
  BY DEF Aside, HeldBefore, NotAfter
<1>5. HeldIsKnown /\ job.pc # "edited" => HeldIsKnown'
  BY <1>1, <1>3 DEF HeldIsKnown, UpToDate
<1>6. QED
  BY <1>1, <1>2, <1>3, <1>4, <1>5

\* A request begins as of what its client holds.
LEMMA StartKeepsHeld ==
    ASSUME HeldInv, HonestInv', Started
    PROVE  HeldInv'
<1>0. /\ StateInv /\ StateInv' /\ Aside /\ UNCHANGED <<held, userEdits>>
      /\ job'.pc = "started" /\ job'.generation = generation /\ job'.changed = FALSE
      /\ job'.prints = {} /\ job'.outcome = "unchanged" /\ job.pc = "idle"
  BY DEF HeldInv, HonestInv, Started
<1>1. HeldBefore' /\ HeldIsKnown'
  BY <1>0, NothingMoves DEF HeldInv
<1>2. ReadBefore'
  <2>1. CASE job'.request.kind = "query"
    <3>1. ReadAt' = Moment
      BY <2>1 DEF ReadAt, Started
    <3>2. QED
      BY <1>0, <2>1, <3>1, HeldTypes DEF Moment, ReadBefore, Aside
  <2>2. CASE job'.request.kind # "query"
    <3>1. ReadAt' = held[job'.client].since /\ job'.client \in Clients
      BY <2>2 DEF ReadAt, Started
    <3>2. /\ held[job'.client].revision \in Nat \X Nat /\ held[job'.client].since \in Nat \X Nat
          /\ generation \in Nat
      BY <1>0, <3>1, HeldTypes
    <3>3. ReadAt'[1] <= generation /\ ReadAt'[2] <= userEdits
      BY <3>1, <3>2 DEF HeldInv, HeldBefore, NotAfter
    <3>4. QED
      BY <1>0, <3>3 DEF ReadBefore, Aside
  <2>3. QED
    BY <2>1, <2>2
<1>3. PrintsAreShown' /\ OthersAreKnown' /\ StillCurrent'
  BY <1>0 DEF PrintsAreShown, OthersAreKnown, StillCurrent
<1>4. QED
  BY <1>1, <1>2, <1>3 DEF HeldInv

\* The steps that only take the request further.
LEMMA QuietKeepsHeld ==
    ASSUME HeldInv, HonestInv', Passes \/ Refuses \/ Finds \/ Reads \/ Numbers
    PROVE  HeldInv'
<1>0. /\ StateInv /\ StateInv' /\ HonestInv /\ KeepsTask /\ Aside /\ UNCHANGED <<held, userEdits>>
      /\ job.pc # "idle" /\ job'.pc # "idle" /\ job.pc # "edited" /\ job'.pc # "edited"
      /\ job'.request = job.request /\ job'.client = job.client /\ job'.changed = job.changed
  BY DEF HeldInv, HonestInv, Passes, Refuses, Finds, Reads, Numbers, KeepsTask, CheckedStages
<1>1. HeldBefore' /\ HeldIsKnown'
  BY <1>0, NothingMoves DEF HeldInv
<1>2. Moment \in Nat \X Nat /\ Moment' = Moment /\ generation' = generation /\ Revision' = Revision
  BY <1>0, NothingMoves, HeldTypes DEF Moment, Aside
<1>3. \/ job'.since = job.since /\ ReadAt' = ReadAt
      \/ Reads /\ ReadAt' = Moment /\ job.request.kind = "query"
  BY <1>0 DEF ReadAt, Passes, Refuses, Finds, Reads, Numbers
<1>4. ReadBefore'
  <2>1. CASE Reads
    BY <1>0, <1>2, <1>3, <2>1, HeldTypes DEF HeldInv, ReadBefore, Reads, Moment, ReadAt
  <2>2. CASE ~Reads
    <3>1. /\ ReadAt' = ReadAt /\ ReadAt \in Nat \X Nat /\ generation \in Nat
          /\ ReadAt[1] <= generation /\ ReadAt[2] <= userEdits
      BY <1>0, <1>3, <2>2, HeldTypes DEF HeldInv, ReadBefore
    <3>2. ASSUME job.request.kind # "query" \/ (job'.pc = "done" /\ job'.outcome = "completed")
          PROVE  ReadAt[1] <= job'.generation
      BY <1>0, <2>2, <3>1, <3>2 DEF HeldInv, ReadBefore, Passes, Refuses, Finds, Numbers
    <3>3. QED
      BY <1>0, <1>2, <3>1, <3>2 DEF ReadBefore
  <2>3. QED
    BY <2>1, <2>2
<1>5. PrintsAreShown'
  <2> SUFFICES ASSUME ReadAt' = Moment' PROVE \A p \in job'.prints : Shown(p)
    BY <1>0, NothingMoves DEF PrintsAreShown
  <2>1. CASE Passes \/ Numbers
    <3>1. ReadAt' = ReadAt
      BY <1>0, <2>1 DEF ReadAt, Passes, Numbers
    <3>2. QED
      BY <1>0, <1>2, <2>1, <3>1 DEF HeldInv, PrintsAreShown, Passes, Numbers
  <2>2. CASE Refuses
    BY <2>2 DEF Refuses
  <2>3. CASE Finds
    BY <2>3 DEF Finds, Shown
  <2>4. CASE Reads
    BY <2>4 DEF Reads, Shown
  <2>5. QED
    BY <2>1, <2>2, <2>3, <2>4
<1>6. OthersAreKnown'
  <2> SUFFICES ASSUME job.changed, ReadAt' = Moment'
               PROVE  \A loc \in held[job.client].locators :
                         \/ job.request.kind = "edit" /\ loc = job.request.locator
                         \/ Known(loc)
    BY <1>0, NothingMoves DEF OthersAreKnown
  <2>1. job.request.kind # "query"
    BY <1>0 DEF HonestInv, ChangeIsKnown
  <2>2. ReadAt = Moment
    BY <1>2, <1>3, <2>1
  <2>3. QED
    BY <1>0, <2>2 DEF HeldInv, OthersAreKnown
<1>7. StillCurrent'
  <2> SUFFICES ASSUME job.request.kind # "query", job'.outcome = "completed", ~job.changed
               PROVE  job.request.revision[1] < generation \/ job.request.revision = Revision
    BY <1>0, <1>2 DEF StillCurrent
  <2>1. CASE Passes \/ Numbers
    BY <1>0, <2>1 DEF HeldInv, StillCurrent, Passes, Numbers
  <2>2. CASE Finds
    BY <1>0, <2>2 DEF Finds, StateInv, IInv, QuotedOnce
  <2>3. CASE Refuses \/ Reads
    BY <2>3 DEF Refuses, Reads
  <2>4. QED
    BY <2>1, <2>2, <2>3
<1>8. QED
  BY <1>1, <1>4, <1>5, <1>6, <1>7 DEF HeldInv

\* The edit leaves every other object where it is shown.
LEMMA EditKeepsHeld ==
    ASSUME HeldInv, HonestInv', NEW h \in Handles, Edited(h)
    PROVE  HeldInv'
<1> DEFINE r == job.request
<1>0. /\ StateInv /\ IInv /\ Timeline(objects) /\ KeepsTask /\ EditSection(h)
      /\ UNCHANGED <<held, userEdits, locked, scene, generation, counter>>
      /\ job.pc = "committed" /\ job'.pc = "edited" /\ job'.changed = TRUE
      /\ job'.request = r /\ job'.client = job.client /\ job.client \in Clients
      /\ job'.since = job.since /\ job'.generation = job.generation
      /\ r.kind # "query" /\ r.command \in Commands /\ scene \in Scenes
      /\ r.revision = held[job.client].revision /\ r.since = held[job.client].since
      /\ r.kind = "edit" => r.locator \in held[job.client].locators
  BY DEF HeldInv, HonestInv, StateInv, JobTyped, Edited, KeepsTask
<1>1. Moment' = Moment /\ Revision' = Revision /\ ReadAt' = ReadAt /\ ReadAt = r.since
  BY <1>0 DEF Moment, Revision, ReadAt
<1>2. /\ \A g \in DOMAIN objects \ {h} : g \in DOMAIN objects' /\ objects'[g] = objects[g]
      /\ \/ r.kind = "create" /\ h \notin DOMAIN objects /\ r.command.kind = "create"
            /\ r.command.scene = scene
         \/ /\ r.kind = "edit" /\ r.command.kind # "create" /\ h \in DOMAIN objects
            /\ objects[h].scene = scene /\ Fingerprint(objects[h]) = r.locator.print
  BY <1>0, EditSectionTouchesOne, EditTargets DEF MayCreate, MayEdit, Resolves, Visible, Active
<1>3. HeldBefore' /\ HeldIsKnown' /\ ReadBefore' /\ StillCurrent'
  BY <1>0, <1>1 DEF HeldInv, HeldBefore, NotAfter, HeldIsKnown, ReadBefore, StillCurrent
<1>4. PrintsAreShown'
  <2>1. CASE job'.prints = {}
    BY <2>1 DEF PrintsAreShown
  <2>2. CASE r.command.kind # "delete" /\ job'.prints = {Fingerprint(objects'[h])}
    <3>1. h \in DOMAIN objects'
      BY <1>0, <2>2, EditedObject
    <3>2. objects'[h].scene = scene
      BY <1>0, <1>2, <3>1, EditSectionTouchesOne
    <3>3. QED
      BY <1>0, <2>2, <3>1, <3>2 DEF PrintsAreShown, Shown, Visible, Active
  <2>3. QED
    BY <2>1, <2>2 DEF Edited
<1>5. OthersAreKnown'
  <2> SUFFICES ASSUME r.since = Moment, NEW loc \in held[job.client].locators,
                      ~(r.kind = "edit" /\ loc = r.locator)
               PROVE  Known(loc)'
    BY <1>0, <1>1 DEF OthersAreKnown
  <2>1. UpToDate(job.client)
    <3>1. r.revision[1] < generation \/ r.revision = Revision
      BY <1>0 DEF IInv, QuotedOnce, CheckedStages
    <3>2. generation <= r.revision[1]
      BY <1>0 DEF HeldInv, HeldBefore, Moment
    <3>3. generation \in Nat /\ r.revision \in Nat \X Nat
      BY <1>0, HeldTypes
    <3>4. QED
      BY <1>0, <3>1, <3>2, <3>3 DEF UpToDate
  <2>2. \A l \in held[job.client].locators : Known(l) /\ l \in HeldLocators
    BY <1>0, <2>1, HeldTypes DEF HeldInv, HeldIsKnown
  <2>3. PICK g \in Visible : Fingerprint(objects[g]) = loc.print
    BY <2>2 DEF Known, Shown
  <2>4. g # h
    <3>1. r.kind = "edit" /\ g = h => loc.print = r.locator.print /\ loc.generation = r.locator.generation
      BY <1>0, <1>2, <2>2, <2>3 DEF Known
    <3>2. r.kind = "edit" /\ g = h => loc = r.locator
      BY <1>0, <2>2, <3>1 DEF HeldLocators
    <3>3. QED
      BY <1>2, <2>3, <3>2 DEF Visible
  <2>5. g \in DOMAIN objects' /\ objects'[g] = objects[g] /\ objects[g].scene = scene
    BY <1>2, <2>3, <2>4 DEF Visible, Active
  <2>6. Shown(loc.print)'
    BY <1>0, <2>3, <2>5 DEF Shown, Visible, Active
  <2>7. QED
    BY <1>0, <2>2, <2>6 DEF Known
<1>6. QED
  BY <1>3, <1>4, <1>5 DEF HeldInv

\* Counting makes every revision that is held one of the past.
LEMMA CountKeepsHeld ==
    ASSUME HeldInv, HonestInv', Counts
    PROVE  HeldInv'
<1>0. /\ StateInv /\ UNCHANGED <<objects, scene, generation, held, userEdits>> /\ counter' = counter + 1
      /\ job.pc = "edited" /\ job'.pc = "counted" /\ job'.request = job.request
      /\ job'.client = job.client /\ job'.prints = job.prints /\ job'.outcome = job.outcome
      /\ job'.changed = job.changed /\ job'.generation = job.generation /\ job'.since = job.since
  BY DEF HeldInv, HonestInv, Counts, KeepsTask
<1>1. Moment' = Moment /\ ReadAt' = ReadAt /\ Visible' = Visible
  BY <1>0 DEF Moment, ReadAt, Visible, Active
<1>2. (\A p : Shown(p)' <=> Shown(p)) /\ (\A loc : Known(loc)' <=> Known(loc))
  BY <1>0, <1>1 DEF Shown, Known
<1>3. HeldBefore' /\ HeldIsKnown'
  <2>1. ASSUME NEW c \in Clients
        PROVE  NotAfter(held[c].revision)' /\ held[c].revision # Revision'
    <3>1. /\ held[c].revision \in Nat \X Nat /\ counter \in Nat /\ generation \in Nat
          /\ NotAfter(held[c].revision)
      BY <1>0, HeldTypes DEF HeldInv, HeldBefore
    <3>2. QED
      BY <1>0, <3>1 DEF NotAfter, Revision
  <2>2. QED
    BY <1>0, <2>1 DEF HeldInv, HeldBefore, HeldIsKnown, UpToDate
<1>4. ReadBefore' /\ PrintsAreShown' /\ OthersAreKnown' /\ StillCurrent'
  BY <1>0, <1>1, <1>2 DEF HeldInv, ReadBefore, PrintsAreShown, OthersAreKnown, StillCurrent
<1>5. QED
  BY <1>3, <1>4 DEF HeldInv

\* What a client takes from an answer is known, and what it keeps as well.
LEMMA RespondKeepsHeld ==
    ASSUME HeldInv, HonestInv', Responds
    PROVE  HeldInv'
<1>0. /\ StateInv /\ Aside /\ UNCHANGED userEdits /\ job.pc = "done" /\ job'.pc = "idle"
      /\ job.client \in Clients
  BY HeldTypes DEF HeldInv, HonestInv, Responds
<1>1. ReadBefore' /\ PrintsAreShown' /\ OthersAreKnown' /\ StillCurrent'
  BY <1>0 DEF ReadBefore, PrintsAreShown, OthersAreKnown, StillCurrent
<1>2. CASE held' = held
  BY <1>0, <1>1, <1>2, NothingMoves DEF HeldInv
<1>3. CASE Informs /\ held' = [held EXCEPT ![job.client] = Taken(@)]
  <2> DEFINE old == held[job.client]
             new == Taken(old)
             query == job.request.kind = "query"
  <2>1. /\ new.revision = Revision /\ new.since = ReadAt
        /\ new.locators = IF query THEN Fresh
                          ELSE (old.locators \
                                 (IF job.request.kind = "edit" THEN {job.request.locator} ELSE {})) \cup Fresh
        /\ ~query => old.since = ReadAt /\ job.request.revision = old.revision
    BY <1>0, TakenFields DEF ReadAt, StateInv, JobTyped
  <2>2. \A c \in Clients : held'[c] = IF c = job.client THEN new ELSE held[c]
    BY <1>0, <1>3 DEF StateInv
  <2> HIDE DEF new
  <2>3. /\ generation \in Nat /\ counter \in Nat /\ ReadAt \in Nat \X Nat /\ job.generation \in Nat
        /\ ReadAt[1] <= job.generation /\ job.generation <= generation /\ ReadAt[2] <= userEdits
        /\ job.outcome = "completed"
    BY <1>0, <1>3, HeldTypes DEF HeldInv, ReadBefore, Informs
  <2>4. HeldBefore'
    <3>1. NotAfter(Revision) /\ new.since[1] <= Revision[1] /\ new.since[2] <= userEdits
      BY <2>1, <2>3 DEF NotAfter, Revision
    <3>2. QED
      BY <1>0, <2>1, <2>2, <3>1 DEF HeldInv, HeldBefore, NotAfter, Aside
  <2>5. ASSUME ReadAt = Moment, NEW loc \in new.locators
        PROVE  Known(loc)
    <3>1. CASE loc \in Fresh
      <4>1. job.generation = generation
        BY <2>3, <2>5 DEF Moment
      <4>2. loc.generation = job.generation /\ loc.print \in job.prints
        BY <3>1 DEF Fresh, Locators
      <4>3. QED
        BY <1>0, <2>5, <4>1, <4>2 DEF HeldInv, PrintsAreShown, Known
    <3>2. CASE loc \notin Fresh
      <4>1. /\ ~query /\ loc \in old.locators
            /\ ~(job.request.kind = "edit" /\ loc = job.request.locator)
        BY <2>1, <2>5, <3>2
      <4>2. CASE job.changed
        BY <1>0, <2>5, <4>1, <4>2 DEF HeldInv, OthersAreKnown
      <4>3. CASE ~job.changed
        <5>1. old.revision[1] < generation \/ old.revision = Revision
          BY <1>0, <2>1, <2>3, <4>1, <4>3 DEF HeldInv, StillCurrent
        <5>2. old.revision \in Nat \X Nat /\ old.since[1] <= old.revision[1] /\ old.since = Moment
          BY <1>0, <2>1, <2>5, <4>1, HeldTypes DEF HeldInv, HeldBefore
        <5>3. UpToDate(job.client)
          BY <2>3, <5>1, <5>2 DEF UpToDate, Moment
        <5>4. QED
          BY <1>0, <4>1, <5>3 DEF HeldInv, HeldIsKnown
      <4>4. job.changed \in BOOLEAN
        BY <1>0 DEF StateInv, JobTyped
      <4>5. QED
        BY <4>2, <4>3, <4>4
    <3>3. QED
      BY <3>1, <3>2
  <2>6. HeldIsKnown'
    <3>1. Moment' = Moment /\ Revision' = Revision /\ \A loc : Known(loc) => Known(loc)'
      <4>1. Moment' = Moment /\ Revision' = Revision /\ Visible' = Visible
        BY <1>0 DEF Aside, Moment, Revision, Visible, Active
      <4>2. QED
        BY <1>0, <4>1 DEF Aside, Known, Shown
    <3>2. ASSUME NEW c \in Clients, UpToDate(c)', NEW loc \in held'[c].locators
          PROVE  Known(loc)'
      <4>1. CASE c = job.client
        <5>1. held'[c] = new
          BY <2>2, <4>1
        <5>2. new.since = Moment
          BY <3>1, <3>2, <5>1 DEF UpToDate
        <5>3. ReadAt = Moment /\ loc \in new.locators
          BY <2>1, <3>2, <5>1, <5>2
        <5>4. QED
          BY <2>5, <3>1, <5>3
      <4>2. CASE c # job.client
        <5>1. held'[c] = held[c] /\ UpToDate(c)
          BY <2>2, <3>1, <3>2, <4>2 DEF UpToDate
        <5>2. Known(loc)
          BY <1>0, <3>2, <5>1 DEF HeldInv, HeldIsKnown
        <5>3. QED
          BY <3>1, <5>2
      <4>3. QED
        BY <4>1, <4>2
    <3>3. QED
      BY <3>2 DEF HeldIsKnown
  <2>7. QED
    BY <1>1, <2>4, <2>6 DEF HeldInv
<1>4. QED
  BY <1>2, <1>3 DEF Responds

LEMMA NextHeldInv ==
    ASSUME HeldInv, [Next]_vars
    PROVE  HeldInv'
<1>1. HonestInv' /\ IInv
  BY NextHonestInv DEF HeldInv, HonestInv, StateInv
<1>2. CASE UNCHANGED vars
  <2>1. Aside /\ UNCHANGED <<job, held, userEdits>>
    BY <1>2 DEF vars, timeline, tracker, Aside
  <2>2. HeldBefore' /\ ReadAt' = ReadAt
    BY <2>1, NothingMoves DEF HeldInv, ReadAt
  <2>3. Moment' = Moment /\ Revision' = Revision /\ Visible' = Visible
    BY <2>1 DEF Aside, Moment, Revision, Visible, Active
  <2>4. (\A p : Shown(p)' <=> Shown(p)) /\ (\A loc : Known(loc)' <=> Known(loc))
    BY <2>1, NothingMoves
  <2>5. ReadBefore' /\ PrintsAreShown' /\ OthersAreKnown' /\ StillCurrent' /\ HeldIsKnown'
    BY <2>1, <2>2, <2>3, <2>4
    DEF HeldInv, ReadBefore, PrintsAreShown, OthersAreKnown, StillCurrent, HeldIsKnown, UpToDate, Aside
  <2>6. QED
    BY <1>1, <2>2, <2>5 DEF HeldInv
<1>3. CASE User
  BY <1>1, <1>3, UserKind, DisturbKeepsHeld
<1>4. CASE Works
  BY <1>1, <1>4, WorkKinds, StartKind, RespondKind, StartKeepsHeld, QuietKeepsHeld, EditKeepsHeld,
     CountKeepsHeld, RespondKeepsHeld
<1>5. QED
  BY <1>2, <1>3, <1>4 DEF Next

\* Whatever a client was told about is there as long as the revision it holds is current and nobody
\* outside of the Bridge edited: no edit of any client passes without a revision of its own.
THEOREM HeldStaysValid == Spec => []HeldLocatorsResolve
<1>1. HeldInv => HeldLocatorsResolve
  BY DEF HeldInv, HeldIsKnown, UpToDate, Known, Shown, HeldLocatorsResolve, Resolves, At
<1>2. QED
  BY <1>1, InitHeldInv, NextHeldInv, PTL DEF Spec
=============================================================================
