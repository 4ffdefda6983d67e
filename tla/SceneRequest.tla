---------------------------- MODULE SceneRequest ----------------------------
(***************************************************************************)
(* Scene changes: f_op_scene_req over the node requests of f_pc_node_req,  *)
(* the single overlap of f_op_overlap_mng and f_op_overlap_req, the fade   *)
(* process that covers the screen (d_ovlp_fade), and the pause flags of    *)
(* f_op_scene_pause.  A change asks for a fade, waits until the screen is  *)
(* covered, deletes the old scene and everything in it, creates the new    *)
(* one paused, asks the fade to open, and is done when the fade says so.   *)
(* The three parties speak through two request_base_class mailboxes (the   *)
(* overlap's and the fade's) and a static flag; each runs in another pass  *)
(* of the frame, and a message that is not collected is overwritten.       *)
(*                                                                         *)
(* Queues, layers and deletion are those of ProcessFramework, reduced to   *)
(* what a scene request sees: a scene is deletable when nothing is being   *)
(* made below it, creations and deletions take any number of frames.       *)
(***************************************************************************)
EXTENDS Integers, FiniteSets, Sequences

CONSTANTS
    Stages,       \* scenes under the root: play, logo, menu, name
    Rooms,        \* room scenes, each in the layer of a stage
    Fades,        \* overlap processes
    Requests,     \* node requests, one record each
    Names,        \* profiles a stage can be made from
    MayFail,      \* subset of {"scene", "fade"}: creations memory may not suffice for
    Peek,         \* i_peektime of a change
    FadeFrames,   \* frames a fade takes to close and to open
    None

Scenes == Stages \union Rooms
Procs  == Scenes \union Fades

ASSUME SceneAssumption ==
    /\ Stages \intersect Rooms = {} /\ Scenes \intersect Fades = {}
    /\ None \notin Procs \union Names \union Requests
    /\ MayFail \subseteq {"scene", "fade"}
    /\ Peek \in Nat /\ FadeFrames \in Nat \ {0}

VARIABLES
    pass, todo, current,    \* the pass of the frame, what it has not visited, the request in hand
    life,                   \* processes: free, requested, waiting (for its stage), running, dying
    parent, paused, made,   \* of scenes: the stage of a room, pause_flag, the profile
    req,                    \* node requests
    using, scnRqID,         \* l_fopScnRq_IsUsingOfOverlap, l_scnRqID
    ov,                     \* l_fopOvlpM_Request and l_fopOvlpM_overlap[0]
    fade, executeF,         \* overlap_task_class of each fade, dOvlpFd_execute_f
    failed                  \* history: scene, fade: what could not be created

sceneVars == <<parent, paused, made>>
fadeVars  == <<fade, executeF>>
vars == <<pass, todo, current, life, sceneVars, req, using, scnRqID, ov, fadeVars, failed>>

(* request_base_class: a command, or the word that it was done.            *)
Command(c) == [flag0 |-> 1, flag1 |-> 0, flag2 |-> c]
DoneMsg    == [flag0 |-> 0, flag1 |-> 1, flag2 |-> 0]
Collected(m) == [m EXCEPT !.flag1 = 0]

NoReq == [kind |-> "none", id |-> 0, node |-> None, layer |-> None, creating |-> None,
          name |-> None]

(* The phase tables: the node request's phases take the place of the scene *)
(* request's phase Execute.                                                *)
NodePhases(kind) ==
    CASE kind = "create" -> <<"Create", "IsCreated">>
      [] kind = "delete" -> <<"Delete", "IsDeleted">>
      [] kind = "change" -> <<"Delete", "IsDeleted", "Create", "IsCreated">>
      [] OTHER -> <<>>
(* Mutant: the old scene goes before the screen is covered.                *)
HastyTable(kind) ==
    IF kind = "change"
    THEN <<"IsDoingOverlap">> \o NodePhases(kind)
         \o <<"IsDoneOverlap", "ClearOverlap", "IsDoneOverlap", "Done">>
    ELSE NodePhases(kind) \o <<"Done">>
PhaseTable(kind) ==
    IF kind = "change"
    THEN <<"IsDoingOverlap", "IsDoneOverlap">> \o NodePhases(kind)
         \o <<"ClearOverlap", "IsDoneOverlap", "Done">>
    ELSE NodePhases(kind) \o <<"Done">>
Phase(r) == IF req[r].id = 0 THEN "none" ELSE PhaseTable(req[r].kind)[req[r].id]

Active(r)   == req[r].kind # "none"
Changing(r) == req[r].kind = "change"
Below(s)  == {s} \union {q \in Rooms : parent[q] = s /\ life[q] \in {"waiting", "running"}}

(* Something is being made in the layer of s: a node request was made in   *)
(* it, or a room is in the create queue.                                   *)
CreatingUnder(s) ==
    \/ \E r \in Requests : Active(r) /\ req[r].layer = s
    \/ \E q \in Rooms : parent[q] = s /\ life[q] = "requested"

Deletable(s) == life[s] = "running" /\ ~CreatingUnder(s)

(* fpcNdRq_IsPossibleTarget and fpcNdRq_IsIng.                             *)
PossibleTarget(s) == \A r \in Requests : req[r].kind \in {"delete", "change"} => req[r].node # s
IsIng(s) == \E r \in Requests : Active(r) /\ req[r].creating = s

Fresh(p) ==
    /\ life[p] = "free"
    /\ \A r \in Requests : p \notin {req[r].node, req[r].creating, req[r].layer}
    /\ \A f \in Fades : fade[f].scene # p
    /\ p # ov.proc

(* Mutant: the rooms of a stage stay paused when it starts.                *)
StageAloneStarts(s) == IF s \in Stages THEN [paused EXCEPT ![s] = FALSE] ELSE paused
(* fopScnPause_Disable: a room stays paused with its stage.                *)
PauseDisabled(s) ==
    CASE s \in Stages -> [q \in Scenes |-> paused[q] /\ q \notin Below(s)]
      [] s \in Rooms -> [paused EXCEPT ![s] = @ /\ (life[parent[s]] # "running" \/ paused[parent[s]])]
      [] OTHER -> paused
-----------------------------------------------------------------------------
NoOverlap == [used |-> FALSE, busy |-> FALSE, id |-> 0, task |-> None, proc |-> None,
              peek |-> FALSE, peektime |-> 0, linger |-> 0, base |-> Collected(DoneMsg)]

Init ==
    /\ pass = "between" /\ todo = {} /\ current = None
    /\ \E s \in Stages, n \in Names :
         /\ life = [p \in Procs |-> IF p = s THEN "running" ELSE "free"]
         /\ made = [p \in Stages |-> IF p = s THEN n ELSE None]
    /\ parent = [q \in Rooms |-> None]
    /\ paused = [s \in Scenes |-> FALSE]
    /\ req = [r \in Requests |-> NoReq]
    /\ using = FALSE /\ scnRqID = None
    /\ ov = NoOverlap
    /\ fade = [f \in Fades |-> [msg |-> Collected(DoneMsg), scene |-> None, timer |-> 0]]
    /\ executeF = "in" /\ failed = {}

(* The passes, in the order of fpcM_Management and fapGm_After.            *)
NextPass == [delete |-> "create", create |-> "execute", execute |-> "scenes",
             scenes |-> "overlap", between |-> "delete"]
Queue(p) ==
    CASE p = "delete"  -> {q \in Procs : life[q] = "dying"}
      [] p = "create"  -> {q \in Procs : life[q] = "requested"}
      [] p = "execute" -> {q \in Procs : life[q] = "running"}
      [] p = "scenes"  -> {r \in Requests : Active(r)}
      [] OTHER -> {}

PassEnds ==
    /\ pass \in DOMAIN NextPass /\ todo = {} /\ current = None
    /\ pass' = NextPass[pass] /\ todo' = Queue(pass')
    /\ UNCHANGED <<current, life, sceneVars, req, using, scnRqID, ov, fadeVars, failed>>

Visits(which, p) == pass = which /\ p \in todo
Visited(p) == todo' = todo \ {p} /\ UNCHANGED <<pass, current>>
-----------------------------------------------------------------------------
(* Delete pass.  A stage goes after its rooms.                             *)
Freed(p) ==
    /\ Visits("delete", p) /\ Visited(p)
    /\ \A q \in Rooms : parent[q] = p => life[q] = "free"
    /\ life' = [life EXCEPT ![p] = "free"]
    /\ parent' = [q \in Rooms |-> IF q = p THEN None ELSE parent[q]]
    /\ made' = [s \in Stages |-> IF s = p THEN None ELSE made[s]]
    /\ paused' = [s \in Scenes |-> IF s = p THEN FALSE ELSE paused[s]]
    /\ UNCHANGED <<req, using, scnRqID, ov, fadeVars, failed>>

(* The timer runs, the delete method answers 0, or the pass is left out.   *)
DeleteWaits(p) ==
    /\ Visits("delete", p) /\ Visited(p)
    /\ UNCHANGED <<life, sceneVars, req, using, scnRqID, ov, fadeVars, failed>>

(* Create pass.                                                            *)
CreateWaits(s) ==
    /\ s \in Scenes /\ Visits("create", s) /\ Visited(s)
    /\ UNCHANGED <<life, sceneVars, req, using, scnRqID, ov, fadeVars, failed>>

Told(s) == IF ov.used /\ ov.task # None THEN [fade EXCEPT ![ov.task].scene = s] ELSE fade

(* fopScnPause_Enable.  Mutant: only the stage is paused, not its layer.   *)
PausedAlone(s) == [paused EXCEPT ![s] = TRUE]
PauseEnabled(s) == [q \in Scenes |-> paused[q] \/ q \in Below(s)]

(* Completion: fpcSCtRq_phase_IsComplete waits for what is made below, the *)
(* post method is fopScnRq_PostMethod, then fpcEx_ToExecuteQ lines the     *)
(* stage and the rooms that wait in its layer.                             *)
StageCreated(s) ==
    /\ s \in Stages /\ Visits("create", s) /\ Visited(s) /\ ~CreatingUnder(s)
    /\ life' = [q \in Procs |-> IF q \in Below(s) THEN "running" ELSE life[q]]
    /\ IF \E r \in Requests : Changing(r) /\ req[r].creating = s
       THEN /\ paused' = PauseEnabled(s)
            /\ fade' = Told(s)
       ELSE UNCHANGED <<paused, fade>>
    /\ UNCHANGED <<parent, made, req, using, scnRqID, ov, executeF, failed>>

RoomCreated(q) ==
    /\ q \in Rooms /\ Visits("create", q) /\ Visited(q)
    /\ life' = [life EXCEPT ![q] = IF life[parent[q]] = "running" THEN "running" ELSE "waiting"]
    /\ UNCHANGED <<sceneVars, req, using, scnRqID, ov, fadeVars, failed>>

(* Out of memory, or an error of the create method (before it made rooms). *)
Failing(s) == failed' = IF s \in Stages THEN failed \union {"scene"} ELSE failed
SceneFails(s) ==
    /\ s \in Scenes /\ Visits("create", s) /\ Visited(s) /\ "scene" \in MayFail
    /\ ~CreatingUnder(s) /\ Below(s) = {s}
    /\ life' = [life EXCEPT ![s] = "dying"]
    /\ Failing(s)
    /\ UNCHANGED <<sceneVars, req, using, scnRqID, ov, fadeVars>>

FadeCreated(f) ==
    /\ f \in Fades /\ Visits("create", f) /\ Visited(f)
    /\ life' = [life EXCEPT ![f] = "running"]
    /\ fade' = [fade EXCEPT ![f] = [msg |-> Command(1), scene |-> None, timer |-> 0]]
    /\ executeF' = "in"
    /\ UNCHANGED <<sceneVars, req, using, scnRqID, ov, failed>>

FadeFails(f) ==
    /\ f \in Fades /\ Visits("create", f) /\ Visited(f) /\ "fade" \in MayFail
    /\ life' = [life EXCEPT ![f] = "free"]
    /\ failed' = failed \union {"fade"}
    /\ UNCHANGED <<sceneVars, req, using, scnRqID, ov, fadeVars>>
-----------------------------------------------------------------------------
(* Execute pass: the fade.                                                 *)
FadeExecutes(f) == f \in Fades /\ Visits("execute", f) /\ Visited(f)

(* The display is still busy with another fade.                            *)
FadeInNotReady(f) ==
    /\ FadeExecutes(f) /\ executeF = "in" /\ fade[f].timer = 0
    /\ UNCHANGED <<life, sceneVars, req, using, scnRqID, ov, fadeVars, failed>>

Remaining(f) == (IF fade[f].timer = 0 THEN FadeFrames ELSE fade[f].timer) - 1

FadeIn(f) ==
    /\ FadeExecutes(f) /\ executeF = "in"
    /\ fade' = [fade EXCEPT ![f].timer = Remaining(f),
                            ![f].msg = IF Remaining(f) = 0 THEN DoneMsg ELSE @]
    /\ executeF' = IF Remaining(f) = 0 THEN "wait" ELSE "in"
    /\ UNCHANGED <<life, sceneVars, req, using, scnRqID, ov, failed>>

FadeWait(f) ==
    /\ FadeExecutes(f) /\ executeF = "wait"
    /\ executeF' = IF fade[f].msg.flag2 = 2 THEN "out" ELSE "wait"
    /\ UNCHANGED <<life, sceneVars, req, using, scnRqID, ov, fade, failed>>

SceneStarted == IF ov.used /\ ov.task # None THEN PauseDisabled(fade[ov.task].scene) ELSE paused

FadeOut(f) ==
    /\ FadeExecutes(f) /\ executeF = "out"
    /\ paused' = SceneStarted
    /\ fade' = [fade EXCEPT ![f].timer = IF Remaining(f) = 0 THEN 1 ELSE Remaining(f),
                            ![f].msg = IF Remaining(f) = 0 THEN DoneMsg ELSE @]
    /\ UNCHANGED <<life, parent, made, req, using, scnRqID, ov, executeF, failed>>

(* Execute pass: scenes.  A scene that executes may call; so may a stage   *)
(* in its create method, for its rooms.                                    *)
SceneExecuted(s) ==
    /\ s \in Scenes /\ Visits("execute", s) /\ Visited(s)
    /\ UNCHANGED <<life, sceneVars, req, using, scnRqID, ov, fadeVars, failed>>

Executes(s) == Visits("execute", s) /\ ~paused[s] /\ life[s] = "running"
Calling(s) == UNCHANGED <<pass, todo, current, life, sceneVars, fadeVars, failed>>

Queued(r, kind, node, layer, name) ==
    [kind |-> kind, id |-> 1, node |-> node, layer |-> layer, creating |-> None, name |-> name]

(* fopOvlpM_Request.                                                       *)
OverlapGranted == ~using /\ ~ov.used /\ ~ov.busy

(* fopScnM_ChangeReq of a stage, with a fade.  Without the fade the node   *)
(* request is deleted at once.                                             *)
ChangeReq(s, r, n) ==
    /\ s \in Stages /\ Executes(s) /\ req[r].kind = "none"
    /\ PossibleTarget(s) /\ ~IsIng(s)
    /\ OverlapGranted
    /\ req' = [req EXCEPT ![r] = Queued(r, "change", s, None, n)]
    /\ ov' = [NoOverlap EXCEPT !.used = TRUE, !.busy = TRUE, !.id = 1, !.base = Command(1),
                               !.peektime = Peek, !.linger = 1]
    /\ using' = TRUE /\ scnRqID' = r
    /\ Calling(s)

(* fopScnM_ReRequest: dComIfG_changeOpeningScene gives a change that was   *)
(* asked for before another target.                                        *)
(* Mutant: also when the new scene is being made already.                  *)
CanRetargetLate(r) == Changing(r)
CanRetarget(r) == Changing(r) /\ req[r].creating = None
ReRequest(s, n) ==
    /\ s \in Stages /\ Executes(s)
    /\ scnRqID # None /\ CanRetarget(scnRqID)
    /\ req' = [req EXCEPT ![scnRqID].name = n]
    /\ UNCHANGED <<using, scnRqID, ov>> /\ Calling(s)

(* fopScnM_CreateReq(ROOM_SCENE) by a stage or in its create method.       *)
CreateRoomReq(s, r) ==
    /\ s \in Stages /\ req[r].kind = "none"
    /\ Executes(s) \/ Visits("create", s)
    /\ PossibleTarget(s)
    /\ req' = [req EXCEPT ![r] = Queued(r, "create", s, s, None)]
    /\ UNCHANGED <<using, scnRqID, ov>> /\ Calling(s)

(* fopScnM_DeleteReq by a room.                                            *)
DeleteRoomReq(q, r) ==
    /\ q \in Rooms /\ Executes(q) /\ req[r].kind = "none"
    /\ PossibleTarget(q) /\ ~IsIng(q)
    /\ req' = [req EXCEPT ![r] = Queued(r, "delete", q, parent[q], None)]
    /\ UNCHANGED <<using, scnRqID, ov>> /\ Calling(q)
-----------------------------------------------------------------------------
(* fopScnM_Management: each request runs its phases until one has to wait. *)
RequestVisited(r) ==
    /\ Visits("scenes", r) /\ current = None
    /\ todo' = todo \ {r}
    /\ IF req[r].id = 0    \* its phases were cleared by a cancel that was refused
       THEN req' = [req EXCEPT ![r] = NoReq] /\ UNCHANGED current
       ELSE current' = r /\ UNCHANGED req
    /\ UNCHANGED <<pass, life, sceneVars, using, scnRqID, ov, fadeVars, failed>>

InPhase(r, p) == pass = "scenes" /\ current = r /\ Phase(r) = p /\ UNCHANGED <<pass, scnRqID, fadeVars>>
Advanced(r)   == req' = [req EXCEPT ![r].id = @ + 1] /\ UNCHANGED <<current, todo>>
Blocked       == current' = None /\ UNCHANGED <<req, todo>>

IsDoingOverlap(r) ==
    /\ InPhase(r, "IsDoingOverlap")
    /\ IF ov.used /\ ov.busy THEN Advanced(r) ELSE Blocked
    /\ UNCHANGED <<life, sceneVars, using, ov, failed>>

IsDoneOverlap(r) ==
    /\ InPhase(r, "IsDoneOverlap")
    /\ IF ov.used /\ ov.base.flag1 = 1
       THEN Advanced(r) /\ ov' = [ov EXCEPT !.base = Collected(@)]
       ELSE Blocked /\ UNCHANGED ov
    /\ UNCHANGED <<life, sceneVars, using, failed>>

(* fpcNdRq_phase_Delete: retried until fpcDt_Delete takes the scene and    *)
(* all that is in it.                                                      *)
DeleteNode(r) ==
    /\ InPhase(r, "Delete")
    /\ IF Deletable(req[r].node)
       THEN /\ Advanced(r)
            /\ life' = [p \in Procs |-> IF p \in Below(req[r].node) THEN "dying" ELSE life[p]]
       ELSE Blocked /\ UNCHANGED life
    /\ UNCHANGED <<sceneVars, using, ov, failed>>

IsDeleted(r) ==
    /\ InPhase(r, "IsDeleted")
    /\ IF \E p \in Procs : life[p] = "dying" THEN Blocked ELSE Advanced(r)
    /\ UNCHANGED <<life, sceneVars, using, ov, failed>>

CreateNode(r) ==
    /\ InPhase(r, "Create")
    /\ \E s \in IF req[r].kind = "create" THEN Rooms ELSE Stages :
         /\ Fresh(s)
         /\ life' = [life EXCEPT ![s] = "requested"]
         /\ parent' = [q \in Rooms |-> IF q = s THEN req[r].layer ELSE parent[q]]
         /\ made' = [t \in Stages |-> IF t = s THEN req[r].name ELSE made[t]]
         /\ req' = [req EXCEPT ![r].creating = s, ![r].id = @ + 1]
    /\ UNCHANGED <<paused, current, todo, using, ov, failed>>

(* fopOvlpM_Cancel answers 1 when there is no overlap, or when the fade    *)
(* could be deleted (fpcM_Delete of NULL counts as done).                  *)
(* Mutants: the fade is forgotten; field_0x4 is not reset.                 *)
FadeForgotten == life
ClearedButBusy == [ov EXCEPT !.used = FALSE, !.task = None, !.proc = None, !.peek = FALSE]
FadeDeleted == [p \in Procs |-> IF p = ov.task THEN "dying" ELSE life[p]]
DeletableTask == ov.task = None \/ life[ov.task] = "running"
OverlapCancels == ~ov.used \/ DeletableTask
Cleared == [ov EXCEPT !.used = FALSE, !.busy = FALSE, !.task = None, !.proc = None,
                      !.peek = FALSE, !.peektime = 0]

(* fpcNdRq_Cancel with fopScnRq_Cancel: when it is refused the handler     *)
(* returns without visiting the rest of the queue.                         *)
Cancelled(r) ==
    /\ current' = None
    /\ IF ~Changing(r) \/ ~ov.used
       THEN req' = [req EXCEPT ![r] = NoReq] /\ UNCHANGED <<todo, life, ov>>
       ELSE IF DeletableTask
       THEN /\ req' = [req EXCEPT ![r] = NoReq] /\ UNCHANGED todo
            /\ life' = FadeDeleted /\ ov' = Cleared
       ELSE req' = [req EXCEPT ![r].id = 0] /\ todo' = {} /\ UNCHANGED <<life, ov>>

CreateNodeFails(r) ==
    /\ InPhase(r, "Create") /\ "scene" \in MayFail
    /\ Cancelled(r)
    /\ failed' = IF Changing(r) THEN failed \union {"scene"} ELSE failed
    /\ UNCHANGED <<sceneVars, using>>

(* fpcNdRq_phase_IsCreated.                                                *)
IsCreated(r) ==
    /\ InPhase(r, "IsCreated")
    /\ CASE life[req[r].creating] = "requested" -> Blocked /\ UNCHANGED <<life, ov>>
         [] life[req[r].creating] \in {"waiting", "running"} -> Advanced(r) /\ UNCHANGED <<life, ov>>
         [] OTHER -> Cancelled(r)
    /\ UNCHANGED <<sceneVars, using, failed>>

(* fopOvlpReq_OverlapClr: the fade is asked to open.  Mutant: the peek time *)
(* is tested the other way round.                                          *)
MayClearInPeektime == ov.base.flag0 # 1 /\ ov.peektime # 0
MayClear == ov.base.flag0 # 1 /\ ov.peektime = 0
ClearOverlap(r) ==
    /\ InPhase(r, "ClearOverlap")
    /\ IF ov.used /\ MayClear
       THEN Advanced(r) /\ ov' = [ov EXCEPT !.base = Command(2)]
       ELSE Blocked /\ UNCHANGED ov
    /\ UNCHANGED <<life, sceneVars, using, failed>>

(* fopScnRq_phase_Done, then fpcNdRq_Delete.                               *)
RequestDone(r) ==
    /\ InPhase(r, "Done")
    /\ paused' = IF req[r].kind = "delete" THEN paused ELSE PauseDisabled(req[r].creating)
    /\ using' = FALSE
    /\ req' = [req EXCEPT ![r] = NoReq]
    /\ current' = None
    /\ UNCHANGED <<todo, life, parent, made, ov, failed>>
-----------------------------------------------------------------------------
(* fopOvlpM_Management: the phases of the overlap.                         *)
OverlapPhase == <<"Create", "IsCreated", "IsComplete", "WaitOfFadeout", "IsWaitOfFadeout",
                  "IsDone", "Done">>
AtOverlap(p) ==
    /\ pass = "overlap" /\ ov.used /\ OverlapPhase[ov.id] = p
    /\ UNCHANGED <<current, sceneVars, req, using, scnRqID, executeF>>
FrameEnds == pass' = "between" /\ UNCHANGED todo
FrameGoesOn == UNCHANGED <<pass, todo>>

OverlapIdle ==
    /\ pass = "overlap" /\ ~ov.used /\ FrameEnds
    /\ UNCHANGED <<current, life, sceneVars, req, using, scnRqID, ov, fadeVars, failed>>

OverlapCreate ==
    /\ AtOverlap("Create") /\ FrameGoesOn
    /\ \E f \in Fades :
         /\ Fresh(f)
         /\ life' = [life EXCEPT ![f] = "requested"]
         /\ ov' = [ov EXCEPT !.proc = f, !.id = @ + 1]
    /\ UNCHANGED <<fade, failed>>

(* An error leaves field_0x4 as it is.                                     *)
OverlapIsCreated ==
    /\ AtOverlap("IsCreated")
    /\ CASE life[ov.proc] = "requested" -> UNCHANGED ov /\ FrameEnds
         [] life[ov.proc] = "running" ->
              ov' = [ov EXCEPT !.task = ov.proc, !.id = @ + 1] /\ FrameGoesOn
         [] OTHER -> ov' = [ov EXCEPT !.used = FALSE, !.proc = None] /\ FrameEnds
    /\ UNCHANGED <<life, fade, failed>>

TaskDone == fade[ov.task].msg.flag1 = 1
TaskCollected == fade' = [fade EXCEPT ![ov.task].msg = Collected(@)]

OverlapIsComplete ==
    /\ AtOverlap("IsComplete")
    /\ IF TaskDone
       THEN TaskCollected /\ ov' = [ov EXCEPT !.base = DoneMsg, !.id = @ + 1] /\ FrameGoesOn
       ELSE UNCHANGED <<fade, ov>> /\ FrameEnds
    /\ UNCHANGED <<life, failed>>

OverlapWaitOfFadeout ==
    /\ AtOverlap("WaitOfFadeout")
    /\ LET left == IF ov.peektime = 0 THEN 0 ELSE ov.peektime - 1
       IN IF ov.base.flag2 = 2 /\ left = 0
          THEN /\ fade' = [fade EXCEPT ![ov.task].msg = Command(2)]
               /\ ov' = [ov EXCEPT !.peektime = left, !.id = @ + 1] /\ FrameGoesOn
          ELSE /\ ov' = [ov EXCEPT !.peektime = left, !.peek = TRUE]
               /\ UNCHANGED fade /\ FrameEnds
    /\ UNCHANGED <<life, failed>>

OverlapIsWaitOfFadeout ==
    /\ AtOverlap("IsWaitOfFadeout")
    /\ IF TaskDone
       THEN TaskCollected /\ ov' = [ov EXCEPT !.peek = FALSE, !.id = @ + 1] /\ FrameGoesOn
       ELSE UNCHANGED <<fade, ov>> /\ FrameEnds
    /\ UNCHANGED <<life, failed>>

(* The word is repeated for a frame so that the scene request collects it. *)
Lingers == ov.linger > 0
OverlapIsDone ==
    /\ AtOverlap("IsDone")
    /\ ov' = [ov EXCEPT !.base = DoneMsg, !.linger = @ - 1, !.id = IF Lingers THEN @ ELSE @ + 1]
    /\ IF Lingers THEN FrameEnds ELSE FrameGoesOn
    /\ UNCHANGED <<life, fade, failed>>

OverlapDone ==
    /\ AtOverlap("Done")
    /\ IF DeletableTask THEN life' = FadeDeleted /\ ov' = Cleared ELSE UNCHANGED <<life, ov>>
    /\ FrameEnds
    /\ UNCHANGED <<fade, failed>>
-----------------------------------------------------------------------------
CreatePass(p) ==
    \/ CreateWaits(p) \/ StageCreated(p) \/ RoomCreated(p) \/ SceneFails(p)
    \/ FadeCreated(p) \/ FadeFails(p)
ExecutePass(p) ==
    \/ FadeInNotReady(p) \/ FadeIn(p) \/ FadeWait(p) \/ FadeOut(p) \/ SceneExecuted(p)
Management(r) ==
    \/ RequestVisited(r)
    \/ IsDoingOverlap(r) \/ IsDoneOverlap(r) \/ DeleteNode(r) \/ IsDeleted(r)
    \/ CreateNode(r) \/ CreateNodeFails(r) \/ IsCreated(r) \/ ClearOverlap(r) \/ RequestDone(r)
OverlapManagement ==
    \/ OverlapIdle \/ OverlapCreate \/ OverlapIsCreated \/ OverlapIsComplete
    \/ OverlapWaitOfFadeout \/ OverlapIsWaitOfFadeout \/ OverlapIsDone \/ OverlapDone
FrameStep ==
    \/ PassEnds
    \/ \E p \in Procs : Freed(p) \/ DeleteWaits(p) \/ CreatePass(p) \/ ExecutePass(p)
    \/ \E r \in Requests : Management(r)
    \/ OverlapManagement
Call ==
    \/ \E s \in Scenes, r \in Requests :
         \/ \E n \in Names : ChangeReq(s, r, n)
         \/ CreateRoomReq(s, r)
         \/ DeleteRoomReq(s, r)
    \/ \E s \in Scenes, n \in Names : ReRequest(s, n)

Next == FrameStep \/ Call
Spec == Init /\ [][Next]_vars

(* The main loop runs; deletions, creations and the display, which may     *)
(* make a frame wait, do not make every frame wait.                        *)
SomethingFreed == \E p \in Procs : Freed(p)
StageMade      == \E s \in Stages : StageCreated(s) \/ SceneFails(s)
RoomMade       == \E q \in Rooms : RoomCreated(q) \/ SceneFails(q)
FadeMoves      == \E f \in Fades : FadeIn(f)
FairSpec ==
    /\ Spec /\ WF_vars(FrameStep)
    /\ SF_vars(SomethingFreed) /\ SF_vars(FadeMoves)
    /\ SF_vars(StageMade) /\ SF_vars(RoomMade)
-----------------------------------------------------------------------------
Message == [flag0 : 0..1, flag1 : 0..1, flag2 : 0..2]
TypeOK ==
    /\ pass \in DOMAIN NextPass \union {"overlap"} /\ todo \subseteq Procs \union Requests
    /\ current \in Requests \union {None}
    /\ life \in [Procs -> {"free", "requested", "waiting", "running", "dying"}]
    /\ parent \in [Rooms -> Stages \union {None}] /\ paused \in [Scenes -> BOOLEAN]
    /\ made \in [Stages -> Names \union {None}]
    /\ req \in [Requests -> [kind : {"none", "create", "delete", "change"}, id : 0..9,
                             node : Scenes \union {None}, layer : Stages \union {None},
                             creating : Scenes \union {None}, name : Names \union {None}]]
    /\ using \in BOOLEAN /\ scnRqID \in Requests \union {None}
    /\ ov \in [used : BOOLEAN, busy : BOOLEAN, id : 0..7, task : Fades \union {None},
               proc : Fades \union {None}, peek : BOOLEAN, peektime : 0..Peek,
               linger : -1..1, base : Message]
    /\ fade \in [Fades -> [msg : Message, scene : Scenes \union {None}, timer : 0..FadeFrames]]
    /\ executeF \in {"in", "wait", "out"} /\ failed \subseteq {"scene", "fade"}

Replacing(r) == Changing(r) /\ Phase(r) \in {"Delete", "IsDeleted", "Create", "IsCreated", "ClearOverlap"}

(* The screen is covered from before the old scene goes until after the    *)
(* new one is there: the fade has closed and was not told to open.         *)
ClosedWhileReplacing ==
    \A r \in Requests : Replacing(r) =>
        ov.used /\ ov.task # None /\ life[ov.task] = "running" /\ executeF = "wait"

(* The new scene does not execute behind the closed fade, nor do its       *)
(* rooms; it starts with the fade's first opening frame.                   *)
HeldBehindFade ==
    \A r \in Requests : Changing(r) /\ req[r].creating # None /\ executeF # "out" =>
        \A s \in Scenes : life[s] = "running" /\ (s = req[r].creating \/
            (s \in Rooms /\ parent[s] = req[r].creating)) => paused[s]

(* Nothing stays paused once no change is under way.                       *)
NoneLeftPaused ==
    (\A r \in Requests : ~Changing(r)) => \A s \in Scenes : life[s] = "running" => ~paused[s]

(* Whoever follows overlap_task finds a fade there: the fade itself when   *)
(* it starts the scene, the scene's post method when it tells its id.  And *)
(* every fade is the overlap's, so the static dOvlpFd_execute_f is of one. *)
TaskFollowed ==
    /\ \A f \in Fades : life[f] = "running" =>
         ov.used /\ (ov.task = f \/ (ov.task = None /\ ov.proc = f /\ executeF # "out"))
    /\ \A r \in Requests : Changing(r) /\ req[r].creating # None /\ ov.used => ov.task # None

(* JUT_ASSERT(326, 0): the handler of the node requests succeeds, that is, *)
(* a request that is cancelled can always delete its fade.                 *)
CancelSucceeds ==
    \A r \in Requests : Changing(r) /\ Phase(r) \in {"Create", "IsCreated"} => OverlapCancels

(* The overlap's pointers: of their types, never NULL when followed, and   *)
(* good for a cancel.                                                      *)
OverlapSound == TypeOK /\ TaskFollowed /\ CancelSucceeds

(* When no change is under way another one can be asked for: the overlap,  *)
(* its flag and field_0x4 are free, or will be when the overlap ends.      *)
OverlapReturns ==
    (\A r \in Requests : ~Changing(r)) /\ failed = {} =>
        /\ ~using
        /\ ov.used \/ ~ov.busy
        /\ ov.used => OverlapPhase[ov.id] \in {"IsDone", "Done"}

(* A change that was given another target before the new scene was made    *)
(* makes that one.                                                         *)
RetargetHonoured ==
    \A r \in Requests : Changing(r) /\ req[r].creating # None /\ life[req[r].creating] # "free" =>
        made[req[r].creating] = req[r].name

(* A change ends, unless the fade for it could not be made.                *)
ChangeEnds ==
    (\E r \in Requests : Changing(r)) ~> (\A r \in Requests : ~Changing(r)) \/ "fade" \in failed

(* And so does the overlap that covers it: the fade opens and goes.        *)
OverlapEnds == ov.used ~> ~ov.used
(* The game comes to rest after a change of scene: the two together.       *)
SceneSettles == ChangeEnds /\ OverlapEnds
=============================================================================
