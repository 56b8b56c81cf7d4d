---------------------------- MODULE ProjectSave ----------------------------
(***************************************************************************)
(* project.save: the handler checks the revision and the commit point;     *)
(* save_project of the SDK facade, on the gate worker, reads the status,   *)
(* notes the number of saves so far, sends AviUtl2 the menu command and    *)
(* waits until the save callback has counted one more.  Once the command   *)
(* was sent nothing but a success can be told from "unknown".              *)
(***************************************************************************)
EXTENDS EditHandlers

IsSave == request.kind = "save"
saveVars == <<project, generation, path, content, view, saves, drop, request, sent, userEvents>>

SaveStatus ==
    /\ pc = "status"
    /\ \/ SdkRefuses
       \/ Goto("sequence") /\ UNCHANGED answer
    /\ UNCHANGED saveVars /\ UNCHANGED <<savePending, work, done>>

CaptureSequence ==
    /\ pc = "sequence" /\ Goto("command") /\ work' = [work EXCEPT !.sequence = saves]
    /\ UNCHANGED saveVars /\ UNCHANGED <<savePending, answer, done>>

\* The menu has no such entry, or a disabled one; or the main thread takes the command, in
\* time or not.
dispatch_project_save_command ==
    /\ pc = "command"
    /\ \/ ReplyUnchanged /\ UNCHANGED <<savePending, done>>
       \/ /\ savePending' = TRUE /\ done' = [done EXCEPT !.command = TRUE]
          /\ \/ Goto("wait") /\ UNCHANGED answer
             \/ Reply("unknown")
    /\ UNCHANGED saveVars /\ UNCHANGED work

\* Seeded fault: the wait does not compare with the number noted before the command.
IsConfirmed_AnySave == saves >= work.sequence

IsConfirmed == saves > work.sequence

\* The waiter takes the path from the cache, when it has the lock again.
SaveConfirmed ==
    /\ pc = "wait" /\ IsConfirmed
    /\ pc' = "idle" /\ answer' = [NoAnswer EXCEPT !.outcome = "success", !.path = path]
    /\ UNCHANGED saveVars /\ UNCHANGED <<savePending, work, done>>

\* Seeded fault: the wait has no deadline.
SaveTimesOut_Never ==
    /\ pc = "wait" /\ IsConfirmed /\ Reply("unknown")
    /\ UNCHANGED saveVars /\ UNCHANGED <<savePending, work, done>>

\* The deadline that timeout_ms set passes first.
SaveTimesOut ==
    /\ pc = "wait" /\ Reply("unknown")
    /\ UNCHANGED saveVars /\ UNCHANGED <<savePending, work, done>>

SaveSteps ==
    /\ IsSave
    /\ \/ CommitPoint("status")
       \/ SaveStatus \/ CaptureSequence \/ dispatch_project_save_command
       \/ SaveConfirmed \/ SaveTimesOut
=============================================================================
