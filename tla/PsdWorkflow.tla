---------------------------- MODULE PsdWorkflow ----------------------------
(***************************************************************************)
(* psd.create and psd.createVoice.  The SDK cannot create these objects:   *)
(* the handler puts the cursor where they shall be, hands a file to the    *)
(* plug-in GCMZDrops by a window message with a timeout, and then looks    *)
(* for the objects until they are there or its own time is over.  A voice  *)
(* is an audio object and a voice object below it; the handler then sets   *)
(* the character of the voice and creates a subtitle below both.           *)
(*                                                                         *)
(* From the moment the drop was handed over the project may change, now or *)
(* later, so that every failure is answered "partial" and recorded.        *)
(***************************************************************************)
EXTENDS ProjectSave

IsPsd == request.kind \in {"psd", "voice"}
IsVoice == request.kind = "voice"

Place(i) == [scene |-> request.scene, layer |-> request.layer + i, frame |-> request.frame]
PsdFiles == {"psd", "psdNamed", "psdLong"}     \* one PSD file, under the names it may have
VoiceLabels == {"voice", "voiceCharacter"}     \* without and with the character asked for
PartsOf(c) == IF c.kind = "voice" THEN <<"audio", "voice">> ELSE <<"psd">>

psdVars == <<generation, saves, savePending, request, sent, userEvents, path>>
KeepProject == UNCHANGED <<project, content, view, drop, done>>

\* Fails before anything was handed over.
Refuse == ReplyUnchanged /\ KeepProject /\ UNCHANGED work
Proceed(step) == Goto(step) /\ UNCHANGED answer

\* create_external_partial_failure, after commit_content_change.
FailPartially == Commit({"content"}) /\ Reply("partial")

----------------------------------------------------------------------------
(* Before the drop *)

\* The profile of PSDToolKit2, query_status with the project path, query_project; a voice
\* captures the generation here.
Survey ==
    /\ pc = "survey"
    /\ \/ Refuse
       \/ /\ query_project.scene = request.scene
          /\ Proceed("occupied")
          /\ work' = [work EXCEPT !.path = path, !.generation = generation]
          /\ KeepProject
    /\ UNCHANGED psdVars

\* The scan of the placement, and the dry run of the subtitle below a voice.
IsVacant(i) == Found(project, Place(i), Labels) = {}
Occupied ==
    /\ pc = "occupied"
    /\ \/ Refuse
       \/ /\ \A i \in DOMAIN PartsOf(request) : IsVacant(i - 1)
          /\ IsVoice => request.scene = project.scene /\ Free(project, Place(2))
                        /\ ~Locked(project, Place(2))
          /\ Proceed("probe") /\ UNCHANGED work /\ KeepProject
    /\ UNCHANGED psdVars

\* evaluate_mapping: GCMZDrops must belong to this process and show this project.
Probe ==
    /\ pc = "probe"
    /\ \/ Refuse
       \/ /\ work.path = path /\ KeepProject /\ UNCHANGED work
          /\ \/ request.dryRun /\ Reply("planned")
             \/ ~request.dryRun /\ Proceed("commitPoint")
    /\ UNCHANGED psdVars

\* edit_view with the frame only, and commit_view_change; a load between the two would only
\* raise the counter of the new project.
PositionCursor ==
    /\ pc = "position" /\ UNCHANGED psdVars
    /\ \/ Refuse
       \/ /\ request.scene = project.scene
          /\ project' = [project EXCEPT !.cursor[project.scene] = request.frame]
          /\ view' = IF project' = project THEN view ELSE view + 1
          /\ Proceed("positioned") /\ UNCHANGED <<content, drop, done, work>>

\* query_project once more, as the user may have moved the cursor or opened a scene.
CheckPosition ==
    /\ pc = "positioned" /\ UNCHANGED psdVars
    /\ \/ Refuse
       \/ /\ query_project = [scene |-> request.scene, frame |-> request.frame]
          /\ Proceed("send") /\ KeepProject /\ UNCHANGED work

\* What the handler makes of a send that timed out: it is taken for sent.
\* Seeded fault: it is taken for a failure.
AfterSendTimeout_Fails == ReplyUnchanged

AfterSendTimeout == Proceed("poll")

\* The mutex of GCMZDrops is not free in time, another project is open, the message cannot
\* be delivered or is rejected: nothing was handed over.  Otherwise GCMZDrops has the drop,
\* whether its answer came in time or not.  psd.create captures the generation afterwards.
send_files ==
    /\ pc = "send" /\ UNCHANGED psdVars
    /\ \/ Refuse
       \/ /\ work.path = path /\ drop = NoDrop     \* bound: one drop at a time
          /\ drop' = [labels |-> PartsOf(request), layer |-> request.layer,
                      isTemporary |-> ~IsVoice \/ request.route = "object", number |-> sent]
          /\ Proceed("poll") \/ AfterSendTimeout
          /\ work' = IF IsVoice THEN work ELSE [work EXCEPT !.generation = generation]
          /\ UNCHANGED <<project, content, view, done>>

----------------------------------------------------------------------------
(* After the drop *)

\* find_created_psd_object; find_created_voice, for any character or the one asked for.
CreatedPsd == Found(project, Place(0), PsdFiles)
CreatedVoice(labels) ==
    IF Found(project, Place(0), Labels) = {} THEN {} ELSE Found(project, Place(1), labels)
Created == IF IsVoice THEN CreatedVoice(VoiceLabels) ELSE CreatedPsd

NamesIt == ~IsVoice /\ request.name # "none"

Remember(h) == work' = [work EXCEPT !.seen = <<project.objects[h]>>]
               /\ UNCHANGED <<content, view, done>>

\* poll_for_postcondition finds the objects; it fails on one that no locator can name, which
\* cannot be what GCMZDrops made ...
PollFinds ==
    /\ pc = "poll" /\ UNCHANGED psdVars /\ UNCHANGED <<project, drop>>
    /\ \E h \in Created :
          LET label == project.objects[h].label IN
          \/ label \in LongLabels /\ ReplyThrown /\ UNCHANGED <<content, view, done, work>>
          \/ IsVoice /\ Proceed("character") /\ Remember(h)
          \/ /\ label \notin LongLabels /\ NamesIt /\ label # request.name
             /\ Proceed("rename") /\ Remember(h)
          \/ /\ label \notin LongLabels /\ ~IsVoice /\ (NamesIt => label = request.name)
             /\ Commit({"content"}) /\ Reply("success") /\ UNCHANGED work

\* ... or its time is over.
PollGivesUp ==
    /\ pc = "poll" /\ FailPartially
    /\ UNCHANGED psdVars /\ UNCHANGED <<project, drop, work>>

\* A locator made of what the poll saw, with the generation that was captured then.
SeenAgain == {h \in Resolves(project, [object |-> work.seen[1], generation |-> work.generation],
                             work.generation) : ~Locked(project, PlaceOf(project.objects[h]))}

Relabel(label) ==
    \E h \in SeenAgain :
        Changes([project EXCEPT !.objects[h].label = label], {"content"})

Rename ==
    /\ pc = "rename" /\ UNCHANGED psdVars /\ UNCHANGED <<drop, work>>
    /\ \/ Relabel(request.name) /\ Proceed("renamed") /\ UNCHANGED <<content, view>>
       \/ FailPartially /\ UNCHANGED project

Renamed ==
    /\ pc = "renamed" /\ Commit({"content"})
    /\ IF request.name \in LongLabels THEN ReplyThrown ELSE Reply("success")
    /\ UNCHANGED psdVars /\ UNCHANGED <<project, drop, work>>

\* edit_effect, a dry run and the edit; either may fail, as may the edit's own check.
SetCharacter ==
    /\ pc = "character" /\ UNCHANGED psdVars /\ UNCHANGED <<drop, work>>
    /\ \/ Relabel("voiceCharacter") /\ Proceed("verifyCharacter") /\ UNCHANGED <<content, view>>
       \/ Relabel("voiceCharacter") /\ Proceed("failed") /\ UNCHANGED <<content, view>>
       \/ FailPartially /\ UNCHANGED project

\* The edit has changed something and failed: the handler commits and answers.
Failed ==
    /\ pc = "failed" /\ FailPartially
    /\ UNCHANGED psdVars /\ UNCHANGED <<project, drop, work>>

VerifyCharacter ==
    /\ pc = "verifyCharacter" /\ UNCHANGED psdVars /\ UNCHANGED <<project, drop, work>>
    /\ \/ /\ CreatedVoice({"voiceCharacter"}) # {} /\ Proceed("subtitle")
          /\ UNCHANGED <<content, view, done>>
       \/ FailPartially

\* create_objects for the alias of the subtitle.
CreateSubtitle ==
    /\ pc = "subtitle" /\ UNCHANGED psdVars /\ UNCHANGED <<drop, work>>
    /\ \/ /\ request.scene = project.scene /\ Free(project, Place(2)) /\ ~Locked(project, Place(2))
          /\ \E h \in Fresh(project) :
                Changes(Put(project, h, At(Place(2), "subtitle")), {"content"})
          /\ Proceed("pollSubtitle") \/ Proceed("failed")
          /\ UNCHANGED <<content, view>>
       \/ FailPartially /\ UNCHANGED project

PollSubtitle ==
    /\ pc = "pollSubtitle" /\ UNCHANGED psdVars /\ UNCHANGED <<project, drop, work>>
    /\ \/ /\ Found(project, Place(2), {"subtitle"}) # {}
          /\ Commit({"content"}) /\ Reply("success")
       \/ FailPartially

PsdSteps ==
    /\ IsPsd
    /\ \/ Survey \/ Occupied \/ Probe \/ CommitPoint("position") \/ PositionCursor
       \/ CheckPosition \/ send_files \/ PollFinds \/ PollGivesUp \/ Rename \/ Renamed
       \/ SetCharacter \/ Failed \/ VerifyCharacter \/ CreateSubtitle \/ PollSubtitle
=============================================================================
