-------------------------- MODULE ProcessFramework --------------------------
(***************************************************************************)
(* The process framework of src/src/f_pc: every game object (a scene, a    *)
(* room, an actor, a camera, a fade) is a process that is requested,       *)
(* created over several frames, executed once a frame and deleted through  *)
(* a delayed queue.  A process made from a node profile owns a layer, the  *)
(* list of processes that live under it.  One thread runs everything; what *)
(* makes the code hard is that the methods of a process call back into the *)
(* framework while the framework is iterating its queues, and that         *)
(* requests, delete tags and priority changes keep raw pointers to layers  *)
(* that are freed with the node that owns them.                            *)
(*                                                                         *)
(* A frame is fpcM_Management: delete pass, priority changes, create pass, *)
(* execute pass, and then fapGm_After, scenes and fades.  A pass visits    *)
(* the entries of a queue one by one; the visit of a process whose method  *)
(* runs is split in two steps, and between them the method makes any of    *)
(* the framework calls that the game's methods make, in any order and      *)
(* number.                                                                 *)
(***************************************************************************)
EXTENDS Naturals, FiniteSets

CONSTANTS
    Proc,      \* process ids; fpcBs_MakeOfId never reuses one
    Node,      \* those made from a node profile (scenes and rooms)
    Refuser,   \* processes whose is_delete method may answer 0 while executing
    Fast,      \* those the game also makes with fpcM_FastCreate
    Overlap,   \* the fades, made and deleted by the overlap manager alone
    List0,     \* processes whose profile puts them in list 0 of a layer
    NodeReq,   \* node requests (fpcNdRq), the way scenes and rooms are made
    Root,      \* the layer without a node
    None

Leaf  == Proc \ Node
Layer == Node \union {Root}    \* a node's layer is named by the node

ASSUME FrameworkAssumption ==
    /\ Node \subseteq Proc /\ List0 \subseteq Proc
    /\ Refuser \subseteq Leaf /\ Overlap \subseteq Leaf /\ Fast \subseteq Leaf \ Overlap
    /\ IsFiniteSet(Proc) /\ IsFiniteSet(NodeReq)
    /\ Root \notin Proc /\ None \notin Proc /\ Root # None

VARIABLES
    phase, todo, next, cursor, made,     \* the pass of the frame being run
    curLayer, savedLayer,                \* l_fpcLy_CurrLayer_p, save_layer
    life, init, target, failed,          \* processes
    req, reqLayer, doing,                \* create requests
    layers, layerOf, inLayer, inLine,    \* layers and the line queue
    inDel, timer, delLayer,              \* delete tags
    prioTo,                              \* priority queue: the layer to move to
    createCount, deleteCount,            \* the counters of each layer
    nrPhase, nrKind, nrLayer, nrNode     \* node requests

frameVars   == <<phase, todo, next, cursor, made>>
currentVars == <<curLayer, savedLayer>>
requestVars == <<req, reqLayer, doing>>
layerVars   == <<layerOf, inLayer>>
deleteVars  == <<inDel, timer, delLayer, deleteCount>>
nodeReqVars == <<nrPhase, nrKind, nrLayer, nrNode>>
vars == <<frameVars, currentVars, life, init, target, failed, requestVars, layers,
          layerVars, inLine, deleteVars, prioTo, createCount, nodeReqVars>>

Maybe(S) == S \union {None}

(* Every field of the framework's records and queues stays in its range;   *)
(* the delete timer, which is counted down once a frame, never runs below  *)
(* zero.                                                                   *)
TypeOK ==
    /\ phase \in {"delete", "priority", "moved", "create", "execute"}
    /\ todo \subseteq Proc /\ made \subseteq Proc
    /\ next \in Maybe(Proc) /\ cursor \in Maybe(Proc)
    /\ curLayer \in Maybe(Layer) /\ savedLayer \in Maybe(Layer)
    /\ life \in [Proc -> {"unborn", "requested", "alive", "gone"}]
    /\ init \in [Proc -> 0 .. 3]
    /\ target \in [Proc -> Maybe(Layer)]
    /\ failed \subseteq Proc
    /\ req \in [Proc -> {"none", "load", "sub", "wait", "post", "fast", "dead"}]
    /\ reqLayer \in [Proc -> Maybe(Layer)]
    /\ doing \subseteq Proc
    /\ layers \subseteq Layer /\ Root \in layers
    /\ layerOf \in [Proc -> Maybe(Layer)]
    /\ inLayer \subseteq Proc /\ inLine \subseteq Proc /\ inDel \subseteq Proc
    /\ timer \in [Proc -> 0 .. 1]
    /\ delLayer \in [Proc -> Maybe(Layer)]
    /\ prioTo \in [Proc -> Maybe(Layer)]
    /\ createCount \in [Layer -> Nat] /\ deleteCount \in [Layer -> Nat]
    /\ nrPhase \in [NodeReq -> {"none", "delete", "deleted", "create", "created"}]
    /\ nrKind \in [NodeReq -> {"create", "delete", "change"}]
    /\ nrLayer \in [NodeReq -> Maybe(Layer)]
    /\ nrNode \in [NodeReq -> Maybe(Node)]

-----------------------------------------------------------------------------
(* Helpers                                                                 *)

Dec(c) == IF c > 0 THEN c - 1 ELSE c

(* The processes fpcDt_ToDeleteQ, fpcEx_ToLineQ and                        *)
(* fpcNd_IsCreatingFromUnder reach from n: n and, for a node, everything   *)
(* in its layer and in the layers of the nodes there.                      *)
ClosedUnder(S) == \A q \in inLayer : layerOf[q] \in S => q \in S
Under(n) == {q \in Proc : \A S \in SUBSET Proc : n \in S /\ ClosedUnder(S) => q \in S}

(* The layers above l, l included: where the scene or the room of a        *)
(* process requested in l is found.                                        *)
Above(l) == {k \in Layer : \A S \in SUBSET Layer :
                (l \in S /\ \A n \in S \ {Root} : reqLayer[n] \in S) => k \in S}

FirstOf(S) == IF S = {} THEN {None} ELSE S

(* cNdIt_Method: visiting p captures the entry after it before p's method  *)
(* runs; an entry appended later is visited in this pass unless p was the  *)
(* last one.  The order of the entries is left open.                       *)
Advance(p, appended) ==
    \E n \in FirstOf(todo \ {p}) :
        /\ next' = n
        /\ todo' = IF n = None THEN {} ELSE (todo \ {p}) \union appended
Appended(S) == IF next = None THEN todo ELSE todo \union S

Visiting(ph, p) == phase = ph /\ cursor = None /\ next = p
StartPass(ph, S) ==
    /\ phase' = ph /\ todo' = S /\ next' \in FirstOf(S)
    /\ UNCHANGED <<cursor, made>>
PassDone(ph) == phase = ph /\ cursor = None /\ next = None
AtomicVisit(p, appended) == Advance(p, appended) /\ UNCHANGED <<phase, cursor, made>>
MethodBegins(p) == Advance(p, {}) /\ cursor' = p /\ made' = {} /\ UNCHANGED phase
MethodEnds(appended) ==
    /\ cursor' = None /\ made' = {} /\ todo' = Appended(appended)
    /\ UNCHANGED <<phase, next>>

-----------------------------------------------------------------------------
(* Create requests                                                         *)

NewRequest(q, l, ph) ==
    /\ req' = [req EXCEPT ![q] = ph]
    /\ reqLayer' = [reqLayer EXCEPT ![q] = l]
    /\ createCount' = [createCount EXCEPT ![l] = @ + 1]

RequestUncounted(p) ==       \* mutant: the created message is not sent
    req' = [req EXCEPT ![p] = "none"] /\ UNCHANGED createCount

DeleteRequest(p) ==
    /\ req' = [req EXCEPT ![p] = "none"]
    /\ createCount' = [createCount EXCEPT ![reqLayer[p]] = Dec(@)]

(* fpcEx_ToLineQ: a process that enters l goes to the line queue, with all *)
(* that waits in its own layer, when the node of l is there.               *)
LinedAlone(p, l) == IF l = Root \/ l \in inLine THEN {p} ELSE {}    \* mutant
Lined(p, l) == IF l = Root \/ l \in inLine THEN Under(p) ELSE {}

(* fpcEx_ToExecuteQ, then fpcCtRq_Delete.  One that is already in the line *)
(* queue is thrown out of its layer (fpcEx_ToLineQ).                       *)
ToExecuteQ(p) ==
    LET l     == IF target[p] = None THEN layerOf[p] ELSE target[p]
        lined == Lined(p, l)
        cut   == lined \intersect inLine
    IN  /\ inLayer' = (inLayer \union {p}) \ cut
        /\ layerOf' = [q \in Proc |-> IF q \in cut THEN None
                                      ELSE IF q = p THEN l ELSE layerOf[q]]
        /\ inLine' = inLine \union lined
        /\ init' = [q \in Proc |-> IF q \in lined \ cut THEN 2 ELSE init[q]]
        /\ DeleteRequest(p)

-----------------------------------------------------------------------------
(* Deletion: fpcDt_ToDeleteQ                                               *)

IsCreatingInOwnLayer(n) == n \in Node /\ createCount[n] > 0    \* mutant: no recursion
IsCreatingFromUnder(n) == n \in Node /\ \E m \in Under(n) \intersect Node : createCount[m] > 0

(* Who refuses is up to the is_delete methods; a node is queued only when  *)
(* everything under it was.                                                *)
Refusals(n)   == SUBSET {q \in Under(n) \intersect Refuser : init[q] = 2}
QueuedAlone(n, R) == {n} \ R          \* mutant: the layer below is not deleted
Queued(n, R)  == {q \in Under(n) : Under(q) \intersect R = {}}

(* The request of a process still being created is cancelled with it,      *)
(* unless it was cancelled before and stayed in the queue ("dead"); "left" *)
(* is what becomes of a request that is not removed.                       *)
AbortedInMethod(n, R) ==     \* mutant: only while its create method is under way
    n \in Queued(n, R) /\ n \notin inLayer /\ n \in doing
Aborted(n, R) == n \in Queued(n, R) /\ n \notin inLayer /\ req[n] \notin {"none", "dead"}

(* fpcLy_Cancel drops the moves into the layers that are deleted, and      *)
(* fpcDt_ToQueue the moves of what is deleted.                             *)
DroppedOwnMoves(n, Q) == Q                          \* mutant: fpcLy_Cancel forgotten
DroppedMoves(n, Q) == Q \union {q \in Proc : prioTo[q] \in Under(n)}

ToDeleteQ(n, R, left) ==
    LET Q == Queued(n, R)
    IN  /\ inDel' = inDel \union Q
        /\ timer' = [q \in Proc |-> IF q \in Q THEN 1 ELSE timer[q]]
        /\ delLayer' = [q \in Proc |-> IF q \in Q THEN layerOf[q] ELSE delLayer[q]]
        /\ deleteCount' = [l \in Layer |->
                              deleteCount[l] + Cardinality({q \in Q : layerOf[q] = l})]
        /\ inLayer' = inLayer \ Q
        /\ layerOf' = [q \in Proc |-> IF q \in Q THEN None ELSE layerOf[q]]
        /\ target' = [q \in Proc |-> IF q \in Q THEN None ELSE target[q]]
        /\ init' = [q \in Proc |-> IF q \in Q THEN 3 ELSE init[q]]
        /\ prioTo' = [q \in Proc |-> IF q \in DroppedMoves(n, Q) THEN None ELSE prioTo[q]]
        /\ IF Aborted(n, R) THEN DeleteRequest(n)
           ELSE req' = [req EXCEPT ![n] = left] /\ UNCHANGED createCount

CanDelete(n) == life[n] = "alive" /\ n \notin doing /\ init[n] # 3

-----------------------------------------------------------------------------
(* The delete pass: fpcDt_Handler.  dPa_control_c may skip it for a frame. *)

StartDelete ==
    /\ PassDone("execute")
    /\ StartPass("delete", inDel)
    /\ UNCHANGED <<currentVars, life, init, target, failed, requestVars, layers,
                   layerVars, inLine, deleteVars, prioTo, createCount, nodeReqVars>>

SkipDelete ==
    /\ PassDone("execute") /\ phase' = "priority"
    /\ UNCHANGED <<todo, next, cursor, made, currentVars, life, init, target, failed,
                   requestVars, layers, layerVars, inLine, deleteVars, prioTo,
                   createCount, nodeReqVars>>

DueLate(p) == timer[p] < 0                         \* mutant: off by one
Due(p) == timer[p] = 0

DeleteTimer(p) ==
    /\ Visiting("delete", p) /\ ~Due(p)
    /\ timer' = [timer EXCEPT ![p] = @ - 1]
    /\ AtomicVisit(p, {})
    /\ UNCHANGED <<currentVars, life, init, target, failed, requestVars, layers,
                   layerVars, inLine, inDel, delLayer, deleteCount, prioTo,
                   createCount, nodeReqVars>>

(* fpcLy_IsDeletingMesg                                                    *)
ClearedTooSoon(p) == deleteCount[p] <= 1                    \* mutant: off by one
ClearedAround(p) == deleteCount[delLayer[p]] = 0    \* mutant: the layer it is in
LayerCleared(p) == deleteCount[p] = 0

(* fpcDt_deleteMethod makes the delete tag's layer the current one and     *)
(* cuts the line tag; a node whose layer still has processes to delete     *)
(* goes to the end of the queue (fpcNd_Delete).                            *)
DeleteWaits(p) ==
    /\ Visiting("delete", p) /\ Due(p)
    /\ p \in Node /\ ~LayerCleared(p)
    /\ curLayer' = delLayer[p]
    /\ inLine' = inLine \ {p}
    /\ timer' = [timer EXCEPT ![p] = 1]
    /\ AtomicVisit(p, {p})
    /\ UNCHANGED <<savedLayer, life, init, target, failed, requestVars, layers,
                   layerVars, inDel, delLayer, deleteCount, prioTo,
                   createCount, nodeReqVars>>

DeleteBegins(p) ==
    /\ Visiting("delete", p) /\ Due(p)
    /\ p \in Node => LayerCleared(p)
    /\ curLayer' = delLayer[p]
    /\ inLine' = inLine \ {p}
    /\ inDel' = inDel \ {p}
    /\ MethodBegins(p)
    /\ UNCHANGED <<savedLayer, life, init, target, failed, requestVars, layers,
                   layerVars, timer, delLayer, deleteCount, prioTo,
                   createCount, nodeReqVars>>

(* The delete method answers 1.  fpcLy_Delete looks at the first list of   *)
(* the layer and at the cancel list (the moves and requests into it).      *)
DeleteSucceeds(p) ==
    /\ phase = "delete" /\ cursor = p
    /\ p \in Node => /\ \A q \in inLayer \intersect List0 : layerOf[q] # p
                     /\ \A q \in Proc : prioTo[q] # p
                     /\ \A q \in Proc : req[q] # "none" => reqLayer[q] # p
                     /\ \A r \in NodeReq : nrLayer[r] # p
    /\ life' = [life EXCEPT ![p] = "gone"]
    /\ layers' = layers \ {p}
    /\ deleteCount' = [deleteCount EXCEPT ![delLayer[p]] = Dec(@)]
    /\ delLayer' = [delLayer EXCEPT ![p] = None]
    /\ reqLayer' = [reqLayer EXCEPT ![p] = None]
    /\ failed' = failed \ {p}
    /\ MethodEnds({})
    /\ UNCHANGED <<currentVars, init, target, req, doing, layerVars, inLine, inDel,
                   timer, prioTo, createCount, nodeReqVars>>

(* It answers 0, or the layer could not be deleted: back in the queue.     *)
DeleteRetries(p) ==
    /\ phase = "delete" /\ cursor = p
    /\ inDel' = inDel \union {p}
    /\ timer' = [timer EXCEPT ![p] = 1]
    /\ MethodEnds({p})
    /\ UNCHANGED <<currentVars, life, init, target, failed, requestVars, layers,
                   layerVars, inLine, delLayer, deleteCount, prioTo,
                   createCount, nodeReqVars>>

-----------------------------------------------------------------------------
(* The priority pass: fpcPi_Handler moves processes between layers, and    *)
(* stops at the first move it cannot make.                                 *)

AtPriority == phase = "priority" \/ PassDone("delete")

PriorityMove(p) ==
    /\ AtPriority /\ prioTo[p] # None
    /\ prioTo' = [prioTo EXCEPT ![p] = None]
    /\ IF prioTo[p] \in layers /\ p \in inLayer
       THEN /\ layerOf' = [layerOf EXCEPT ![p] = prioTo[p]]
            /\ target' = [target EXCEPT ![p] = prioTo[p]]
            /\ phase' = "priority"
       ELSE phase' = "moved" /\ UNCHANGED <<layerOf, target>>
    /\ UNCHANGED <<todo, next, cursor, made, currentVars, life, init, failed,
                   requestVars, layers, inLayer, inLine, deleteVars, createCount,
                   nodeReqVars>>

-----------------------------------------------------------------------------
(* The create pass: fpcCtRq_Handler.                                       *)

StartCreate ==
    /\ phase = "moved" \/ (AtPriority /\ \A p \in Proc : prioTo[p] = None)
    /\ StartPass("create", {p \in Proc : req[p] # "none"})
    /\ UNCHANGED <<currentVars, life, init, target, failed, requestVars, layers,
                   layerVars, inLine, deleteVars, prioTo, createCount, nodeReqVars>>

(* fpcBs_Create finds no memory: fpcCtRq_Cancel with no process yet.       *)
AllocFails(p) ==
    /\ Visiting("create", p) /\ req[p] = "load"
    /\ life' = [life EXCEPT ![p] = "gone"]
    /\ curLayer' = reqLayer[p]
    /\ DeleteRequest(p)
    /\ AtomicVisit(p, {})
    /\ UNCHANGED <<savedLayer, init, target, failed, reqLayer, doing, layers, layerVars,
                   inLine, deleteVars, prioTo, nodeReqVars>>

(* The create method runs: on the first visit the process is allocated in  *)
(* the request's layer and a node makes its own layer (fpcNd_Create).      *)
CreateBegins(p) ==
    /\ Visiting("create", p) /\ req[p] \in {"load", "sub"}
    /\ req' = [req EXCEPT ![p] = "sub"]
    /\ life' = [life EXCEPT ![p] = "alive"]
    /\ layerOf' = [layerOf EXCEPT ![p] = reqLayer[p]]
    /\ layers' = IF p \in Node THEN layers \union {p} ELSE layers
    /\ curLayer' = IF p \in Node THEN p ELSE reqLayer[p]
    /\ doing' = doing \union {p}
    /\ MethodBegins(p)
    /\ UNCHANGED <<savedLayer, init, target, failed, reqLayer, inLayer, inLine,
                   deleteVars, prioTo, createCount, nodeReqVars>>

(* cPhs_INIT: the method is called again in the next frame.                *)
CreateLoading(p) ==
    /\ phase = "create" /\ cursor = p
    /\ init' = [init EXCEPT ![p] = 1]
    /\ doing' = doing \ {p}
    /\ curLayer' = reqLayer[p]
    /\ MethodEnds({})
    /\ UNCHANGED <<savedLayer, life, target, failed, req, reqLayer, layers, layerVars,
                   inLine, deleteVars, prioTo, createCount, nodeReqVars>>

(* fpcCtRq_Cancel of a request whose create method failed.  When the       *)
(* process cannot be deleted, the cancelled request stays in the queue.    *)
CancelWhileDoing(p) ==    \* mutant: is_doing still set, fpcDt_Delete refuses
    /\ req' = [req EXCEPT ![p] = "dead"]
    /\ UNCHANGED <<deleteVars, layerVars, init, target, prioTo, createCount>>

CancelFailed(p) ==
    IF IsCreatingFromUnder(p)
    THEN /\ req' = [req EXCEPT ![p] = "dead"]
         /\ UNCHANGED <<deleteVars, layerVars, init, target, prioTo, createCount>>
    ELSE \E R \in Refusals(p) : ToDeleteQ(p, R, "dead")

CreateFails(p) ==
    /\ phase = "create" /\ cursor = p
    /\ failed' = failed \union {p}
    /\ doing' = doing \ {p}
    /\ curLayer' = reqLayer[p]
    /\ CancelFailed(p)
    /\ MethodEnds({})
    /\ UNCHANGED <<savedLayer, life, reqLayer, layers, inLine, nodeReqVars>>

(* After the create method: fpcSCtRq_phase_IsComplete holds a node back    *)
(* while anything is being created in its layer, the post method may ask   *)
(* to be called again, and then the process enters its layer.              *)
HeldBackByItsLayer(p) == req[p] # "post" /\ createCount[reqLayer[p]] > 0    \* mutant
HeldBack(p) == req[p] # "post" /\ p \in Node /\ createCount[p] > 0

CompletionPhases(p) ==
    \/ /\ HeldBack(p)
       /\ req' = [req EXCEPT ![p] = "wait"]
       /\ UNCHANGED <<layerVars, inLine, init, createCount>>
    \/ /\ ~HeldBack(p)
       /\ req' = [req EXCEPT ![p] = "post"]
       /\ UNCHANGED <<layerVars, inLine, init, createCount>>
    \/ ~HeldBack(p) /\ ToExecuteQ(p)

CreateSucceeds(p) ==
    /\ phase = "create" /\ cursor = p
    /\ doing' = doing \ {p}
    /\ curLayer' = reqLayer[p]
    /\ CompletionPhases(p)
    /\ MethodEnds({})
    /\ UNCHANGED <<savedLayer, life, target, failed, reqLayer, layers, deleteVars,
                   prioTo, nodeReqVars>>

CreateCompletes(p) ==
    /\ Visiting("create", p) /\ req[p] \in {"wait", "post"}
    /\ CompletionPhases(p)
    /\ AtomicVisit(p, {})
    /\ UNCHANGED <<currentVars, life, target, failed, reqLayer, doing, layers,
                   deleteVars, prioTo, nodeReqVars>>

(* A fast request created its process when it was made (fpcFCtRq_Do). A    *)
(* cancelled request that stayed has lost its phase table (cPhs_Do) or its *)
(* callback, and completes.                                                *)
FastCompletes(p) ==
    /\ Visiting("create", p) /\ req[p] \in {"fast", "dead"}
    /\ doing' = doing \ {p}
    /\ ToExecuteQ(p)
    /\ AtomicVisit(p, {})
    /\ UNCHANGED <<currentVars, life, target, failed, reqLayer, layers,
                   deleteVars, prioTo, nodeReqVars>>

FastFails(p) ==
    /\ Visiting("create", p) /\ req[p] = "fast"
    /\ doing' = doing \ {p}
    /\ failed' = failed \union {p}
    /\ CancelFailed(p)
    /\ AtomicVisit(p, {})
    /\ UNCHANGED <<currentVars, life, reqLayer, layers, inLine, nodeReqVars>>

-----------------------------------------------------------------------------
(* fapGm_After, at the end of a frame: fpcNdRq_Handler runs the phases of  *)
(* the node requests, fopOvlpM_Management makes and deletes the fade.      *)

InManage ==
    /\ PassDone("execute")
    /\ UNCHANGED <<frameVars, savedLayer, failed, doing, layers, inLine>>

NodeReqDelete(r) ==
    /\ InManage /\ nrPhase[r] = "delete"
    /\ CanDelete(nrNode[r]) /\ ~IsCreatingFromUnder(nrNode[r])
    /\ \E R \in Refusals(nrNode[r]) :
          /\ ToDeleteQ(nrNode[r], R, req[nrNode[r]])
          /\ nrPhase' = IF nrNode[r] \in Queued(nrNode[r], R)
                        THEN [nrPhase EXCEPT ![r] = "deleted"] ELSE nrPhase
    /\ UNCHANGED <<curLayer, life, reqLayer, nrKind, nrLayer, nrNode>>

(* fpcNdRq_phase_IsDeleted waits for the whole delete queue to be empty.   *)
NodeReqDeleted(r) ==
    /\ InManage /\ nrPhase[r] = "deleted" /\ nrKind[r] = "change" /\ inDel = {}
    /\ nrPhase' = [nrPhase EXCEPT ![r] = "create"]
    /\ nrNode' = [nrNode EXCEPT ![r] = None]
    /\ UNCHANGED <<curLayer, life, init, target, req, reqLayer, layerVars, deleteVars, prioTo,
                   createCount, nrKind, nrLayer>>

NodeReqCreate(r, n) ==
    /\ InManage /\ nrPhase[r] = "create" /\ life[n] = "unborn"
    /\ NewRequest(n, nrLayer[r], "load")
    /\ life' = [life EXCEPT ![n] = "requested"]
    /\ nrPhase' = [nrPhase EXCEPT ![r] = "created"]
    /\ nrNode' = [nrNode EXCEPT ![r] = n]
    /\ UNCHANGED <<curLayer, init, target, layerVars, deleteVars, prioTo, nrKind, nrLayer>>

(* fpcNdRq_Delete, also when the node was not created, for its creation    *)
(* failed or there is no memory for its request (fpcNdRq_Cancel).          *)
NodeReqEnds(r) ==
    /\ InManage
    /\ \/ nrPhase[r] = "create"
       \/ nrPhase[r] = "created" /\ req[nrNode[r]] = "none"
       \/ nrPhase[r] = "deleted" /\ nrKind[r] = "delete" /\ inDel = {}
    /\ createCount' = [createCount EXCEPT ![nrLayer[r]] = Dec(@)]
    /\ nrPhase' = [nrPhase EXCEPT ![r] = "none"]
    /\ nrKind' = [nrKind EXCEPT ![r] = "create"]
    /\ nrLayer' = [nrLayer EXCEPT ![r] = None]
    /\ nrNode' = [nrNode EXCEPT ![r] = None]
    /\ UNCHANGED <<curLayer, life, init, target, req, reqLayer, layerVars, deleteVars, prioTo>>

OverlapCreate(q) ==
    /\ InManage /\ q \in Overlap /\ life[q] = "unborn"
    /\ curLayer' = Root
    /\ NewRequest(q, Root, "load")
    /\ life' = [life EXCEPT ![q] = "requested"]
    /\ UNCHANGED <<init, target, layerVars, deleteVars, prioTo, nodeReqVars>>

OverlapDelete(q) ==
    /\ InManage /\ q \in Overlap /\ CanDelete(q)
    /\ ToDeleteQ(q, {}, req[q])
    /\ UNCHANGED <<curLayer, life, reqLayer, nodeReqVars>>

-----------------------------------------------------------------------------
(* The execute pass: fpcEx_Handler over the line queue.  A method runs in  *)
(* the layer of its process, a node's in its own; a process that is not    *)
(* executing, or is paused, is passed over.                                *)

StartExecute ==
    /\ PassDone("create")
    /\ StartPass("execute", inLine)
    /\ UNCHANGED <<currentVars, life, init, target, failed, requestVars, layers,
                   layerVars, inLine, deleteVars, prioTo, createCount, nodeReqVars>>

ExecuteSkips(p) ==
    /\ Visiting("execute", p)
    /\ AtomicVisit(p, {})
    /\ UNCHANGED <<currentVars, life, init, target, failed, requestVars, layers,
                   layerVars, inLine, deleteVars, prioTo, createCount, nodeReqVars>>

ExecuteBegins(p) ==
    /\ Visiting("execute", p) /\ init[p] = 2
    /\ savedLayer' = curLayer
    /\ curLayer' = IF p \in Node THEN p ELSE layerOf[p]
    /\ MethodBegins(p)
    /\ UNCHANGED <<life, init, target, failed, requestVars, layers,
                   layerVars, inLine, deleteVars, prioTo, createCount, nodeReqVars>>

ExecuteEnds ==
    /\ phase = "execute" /\ cursor # None
    /\ curLayer' = savedLayer /\ savedLayer' = None
    /\ MethodEnds({})
    /\ UNCHANGED <<life, init, target, failed, requestVars, layers,
                   layerVars, inLine, deleteVars, prioTo, createCount, nodeReqVars>>

-----------------------------------------------------------------------------
(* What the game's methods call.  Delete methods create nothing.           *)

InMethod(phases) ==
    /\ phase \in phases /\ cursor # None
    /\ UNCHANGED <<phase, next, cursor, currentVars, layers, inLine>>

Joins(S) == todo' = IF phase = "create" THEN Appended(S) ELSE todo

(* fpcM_Create: a request in the current layer.                            *)
CallCreate(q) ==
    /\ InMethod({"create", "execute"}) /\ q \in Leaf \ Overlap /\ life[q] = "unborn"
    /\ NewRequest(q, curLayer, "load")
    /\ life' = [life EXCEPT ![q] = "requested"]
    /\ Joins({q})
    /\ UNCHANGED <<made, init, target, failed, doing, layerVars, deleteVars, prioTo,
                   nodeReqVars>>

(* fpcM_FastCreate: allocates the process and calls its create method at   *)
(* once.  is_doing of the new request is never initialised: "stale" says   *)
(* that the memory held a non-zero byte there.  When the create method      *)
(* fails then, fpcCtRq_Cancel gives up at the process that seems to be      *)
(* creating something, and the cancelled request completes later.           *)
CallFastCreate(q, succeeds, stale) ==
    /\ InMethod({"create", "execute"}) /\ q \in Fast /\ life[q] = "unborn"
    /\ succeeds \/ stale
    /\ NewRequest(q, curLayer, IF succeeds THEN "fast" ELSE "dead")
    /\ life' = [life EXCEPT ![q] = "alive"]
    /\ layerOf' = [layerOf EXCEPT ![q] = curLayer]
    /\ doing' = IF stale THEN doing \union {q} ELSE doing
    /\ failed' = IF succeeds THEN failed ELSE failed \union {q}
    /\ made' = made \union {q}
    /\ Joins({q})
    /\ UNCHANGED <<init, target, inLayer, deleteVars, prioTo, nodeReqVars>>

(* Its create method failed and fpcCtRq_Cancel could delete the process.   *)
CallFastCreateFails(q) ==
    /\ InMethod({"create", "execute"}) /\ q \in Fast /\ life[q] = "unborn"
    /\ life' = [life EXCEPT ![q] = "alive"]
    /\ reqLayer' = [reqLayer EXCEPT ![q] = curLayer]
    /\ failed' = failed \union {q}
    /\ init' = [init EXCEPT ![q] = 3]
    /\ inDel' = inDel \union {q}
    /\ timer' = [timer EXCEPT ![q] = 1]
    /\ delLayer' = [delLayer EXCEPT ![q] = curLayer]
    /\ deleteCount' = [deleteCount EXCEPT ![curLayer] = @ + 1]
    /\ UNCHANGED <<todo, made, target, req, doing, layerVars, prioTo, createCount, nodeReqVars>>

(* A create method deletes processes it finds in a layer and the ones it   *)
(* has just made, never another one being created.                         *)
AnyAtHand(q) == TRUE                           \* mutant: the method has any process
AtHand(q) == phase = "create" => q \in inLayer \union made

(* fpcM_Delete of an actor.  A delete tag added during the delete pass     *)
(* joins the pass.                                                         *)
CallDelete(q) ==
    /\ InMethod({"delete", "create", "execute"}) /\ q \in Leaf \ Overlap /\ CanDelete(q) /\ AtHand(q)
    /\ ToDeleteQ(q, {}, req[q])
    /\ todo' = CASE phase = "delete"  -> Appended({q})
                 [] phase = "create"  -> todo \ {q}
                 [] phase = "execute" -> todo
    /\ UNCHANGED <<made, life, failed, reqLayer, doing, nodeReqVars>>

(* fpcM_ChangeLayerID (fopAcM_setStageLayer, fopAcM_setRoomLayer): at once *)
(* for a process that does not execute yet, which moves to a layer above   *)
(* its own; through the priority queue for one that does.                  *)
CallChangeLayer(q, l) ==
    /\ InMethod({"create", "execute"}) /\ q \in Leaf \ Overlap /\ l \in Node
    /\ life[q] = "alive" /\ init[q] # 3 /\ target[q] # l
    /\ IF init[q] < 2
       THEN /\ l \in Above(reqLayer[q])
            /\ target' = [target EXCEPT ![q] = l]
            /\ UNCHANGED prioTo
       ELSE /\ init[l] = 2 /\ prioTo[q] = None
            /\ prioTo' = [prioTo EXCEPT ![q] = l]
            /\ UNCHANGED target
    /\ UNCHANGED <<todo, made, life, init, failed, requestVars, layerVars, deleteVars,
                   createCount, nodeReqVars>>

NewNodeReq(r, kind, l, n) ==
    /\ nrPhase[r] = "none"
    /\ nrPhase' = [nrPhase EXCEPT ![r] = IF kind = "create" THEN "create" ELSE "delete"]
    /\ nrKind' = [nrKind EXCEPT ![r] = kind]
    /\ nrLayer' = [nrLayer EXCEPT ![r] = l]
    /\ nrNode' = [nrNode EXCEPT ![r] = n]
    /\ createCount' = [createCount EXCEPT ![l] = @ + 1]

AnyTarget(n) == TRUE                           \* mutant: no look at the requests
IsPossibleTarget(n) ==
    \A r \in NodeReq : ~(nrPhase[r] \in {"delete", "deleted"} /\ nrNode[r] = n)
IsIng(n) == \E r \in NodeReq : nrPhase[r] = "created" /\ nrNode[r] = n

(* fpcNdRq_CreateNode: a node in the current layer.                        *)
CallNodeCreate(r) ==
    /\ InMethod({"create", "execute"})
    /\ curLayer = Root \/ IsPossibleTarget(curLayer)
    /\ NewNodeReq(r, "create", curLayer, None)
    /\ UNCHANGED <<todo, made, life, init, target, failed, requestVars, layerVars, deleteVars,
                   prioTo>>

(* fpcNdRq_DeleteNode, fpcNdRq_ChangeNode: of a node found in a layer,     *)
(* counted in that layer.                                                  *)
CallNodeDelete(r, n, kind) ==
    /\ InMethod({"create", "execute"}) /\ n \in Node \intersect inLayer
    /\ IsPossibleTarget(n) /\ ~IsIng(n)
    /\ NewNodeReq(r, kind, layerOf[n], n)
    /\ UNCHANGED <<todo, made, life, init, target, failed, requestVars, layerVars, deleteVars,
                   prioTo>>

-----------------------------------------------------------------------------

(* The program starts with the root layer and one request for a scene.     *)
Init ==
    /\ phase = "execute" /\ todo = {} /\ next = None /\ cursor = None /\ made = {}
    /\ curLayer = Root /\ savedLayer = None
    /\ life = [p \in Proc |-> "unborn"] /\ init = [p \in Proc |-> 0]
    /\ target = [p \in Proc |-> None] /\ failed = {}
    /\ req = [p \in Proc |-> "none"] /\ reqLayer = [p \in Proc |-> None] /\ doing = {}
    /\ layers = {Root} /\ layerOf = [p \in Proc |-> None]
    /\ inLayer = {} /\ inLine = {} /\ inDel = {}
    /\ timer = [p \in Proc |-> 0] /\ delLayer = [p \in Proc |-> None]
    /\ prioTo = [p \in Proc |-> None]
    /\ deleteCount = [l \in Layer |-> 0]
    /\ createCount = [l \in Layer |-> IF l = Root THEN 1 ELSE 0]
    /\ \E r \in NodeReq :
          /\ nrPhase = [x \in NodeReq |-> IF x = r THEN "create" ELSE "none"]
          /\ nrLayer = [x \in NodeReq |-> IF x = r THEN Root ELSE None]
    /\ nrKind = [x \in NodeReq |-> "create"] /\ nrNode = [x \in NodeReq |-> None]

DeletePass(p) ==
    DeleteTimer(p) \/ DeleteWaits(p) \/ DeleteBegins(p) \/ DeleteSucceeds(p) \/ DeleteRetries(p)
CreatePass(p) ==
    \/ AllocFails(p) \/ CreateBegins(p) \/ CreateLoading(p) \/ CreateFails(p)
    \/ CreateSucceeds(p) \/ CreateCompletes(p) \/ FastCompletes(p) \/ FastFails(p)
ExecutePass(p) == ExecuteSkips(p) \/ ExecuteBegins(p)

(* The framework's own steps; the rest are the methods' and the game's.    *)
FrameStep ==
    \/ StartDelete \/ SkipDelete \/ StartCreate \/ StartExecute \/ ExecuteEnds
    \/ \E p \in Proc : PriorityMove(p) \/ DeletePass(p) \/ CreatePass(p) \/ ExecutePass(p)

Management ==
    \/ \E r \in NodeReq : \/ NodeReqDelete(r) \/ NodeReqDeleted(r) \/ NodeReqEnds(r)
                          \/ \E n \in Node : NodeReqCreate(r, n)
    \/ \E q \in Proc : OverlapCreate(q) \/ OverlapDelete(q)

Call ==
    \/ \E q \in Proc : \/ CallCreate(q) \/ CallDelete(q) \/ CallFastCreateFails(q)
                       \/ \E ok, stale \in BOOLEAN : CallFastCreate(q, ok, stale)
                       \/ \E l \in Node : CallChangeLayer(q, l)
    \/ \E r \in NodeReq : \/ CallNodeCreate(r)
                          \/ \E n \in Node, k \in {"delete", "change"} : CallNodeDelete(r, n, k)

Next == FrameStep \/ Management \/ Call

Spec == Init /\ [][Next]_vars

(* The main loop runs frame after frame, and a method returns.  The rest   *)
(* is what the game's methods owe: a create method called again and again  *)
(* succeeds or fails, a post method and a delete method answer 1 in the    *)
(* end, and the delete pass is not skipped in every frame.  A process does *)
(* each of these once, so that one condition for all of them is enough.    *)
Finishes(p) ==
    \/ DeleteSucceeds(p) \/ CreateSucceeds(p) \/ CreateFails(p)
    \/ CreateCompletes(p) /\ req'[p] = "none"
Fairness ==
    WF_vars(FrameStep) /\ SF_vars(StartDelete) /\ SF_vars(\E p \in Proc : Finishes(p))

FairSpec == Spec /\ Fairness

-----------------------------------------------------------------------------
(* Properties                                                              *)

(* The counters of a layer are exactly what they stand for: the requests   *)
(* and node requests made in it, and the deleted processes not yet freed.  *)
Creations(l) == {p \in Proc : req[p] # "none" /\ reqLayer[p] = l}
NodeRequests(l) == {r \in NodeReq : nrPhase[r] # "none" /\ nrLayer[r] = l}
Deletions(l) == {p \in Proc : life[p] = "alive" /\ init[p] = 3 /\ delLayer[p] = l}
CountsExact ==
    \A l \in Layer :
        /\ createCount[l] = Cardinality(Creations(l)) + Cardinality(NodeRequests(l))
        /\ deleteCount[l] = Cardinality(Deletions(l))

(* Every pointer to a layer that the framework will follow leads to a      *)
(* layer that still exists: the current layer, the layer of a process, of  *)
(* a request, of a delete tag, of a queued move, of a chosen target.       *)
LayersAlive ==
    /\ curLayer \in layers
    /\ savedLayer # None => savedLayer \in layers
    /\ \A p \in Proc :
        /\ life[p] = "alive" /\ init[p] # 3 => layerOf[p] \in layers
        /\ life[p] = "alive" /\ init[p] = 3 => delLayer[p] \in layers
        /\ req[p] # "none" => reqLayer[p] \in layers
        /\ req[p] # "none" /\ target[p] # None => target[p] \in layers
        /\ prioTo[p] # None => prioTo[p] \in layers
    /\ \A r \in NodeReq : nrPhase[r] # "none" => nrLayer[r] \in layers

(* Once a node has been queued for deletion nothing is in its layer, is    *)
(* being created in it, or is on its way into it.                          *)
DyingLayerEmpty ==
    \A n \in Node : life[n] = "alive" /\ init[n] = 3 =>
        /\ \A p \in inLayer : layerOf[p] # n
        /\ Creations(n) = {} /\ NodeRequests(n) = {}
        /\ \A p \in Proc : prioTo[p] # n /\ (req[p] # "none" => target[p] # n)

(* The assertion of fpcM_Management on fpcPi_Handler: every move that was   *)
(* queued can still be made when the handler comes to it, whatever was      *)
(* deleted in between; it leads from a living layer into a living one.      *)
MovesSucceed ==
    /\ phase # "moved"
    /\ \A p \in Proc : prioTo[p] # None => /\ p \in inLayer /\ prioTo[p] \in layers
                                          /\ init[prioTo[p]] = 2

(* The iterator's saved next entry stays in the list being iterated,       *)
(* whatever the running method creates and deletes.                        *)
IteratorSafe ==
    next # None => CASE phase = "delete" -> next \in inDel
                     [] phase = "create" -> req[next] # "none"
                     [] phase = "execute" -> next \in inLine
                     [] OTHER -> FALSE

(* A process executes only in a layer whose node executes, and everything  *)
(* in the layer of an executing node is in the line queue with it.         *)
LinedTogether ==
    /\ \A p \in Proc : init[p] = 2 => p \in inLine /\ p \in inLayer
    /\ \A p \in inLayer : p \in inLine <=> (layerOf[p] = Root \/ layerOf[p] \in inLine)

(* An actor or a camera whose create method failed does not get into a    *)
(* layer or the line queue later on.  The code has one exception, which    *)
(* fpcCtRq_Cancel leaves: the cancelled fast request whose is_doing, never *)
(* initialised, happens to be set.                                         *)
LeftStale(p) == req[p] = "dead" /\ p \in doing
FailedStaysOut ==
    [][\A p \in failed \intersect Leaf :
          p \in inLayer' \union inLine' => p \in inLayer \union inLine \/ LeftStale(p)]_vars

(* A node request keeps a pointer to the node it is to delete: the node is *)
(* not deleted behind its back.                                            *)
VictimAlive ==
    \A r \in NodeReq : nrPhase[r] = "delete" =>
        life[nrNode[r]] = "alive" /\ init[nrNode[r]] # 3

(* Deletion is final: a process in the delete queue does not come back to  *)
(* life, nor does it get back into a layer.                                *)
DeletionIsFinal ==
    [][\A p \in Proc : init[p] = 3 => init'[p] = 3 /\ p \notin inLayer']_vars

(* What is deleted is freed: a node waits for everything that was under it *)
(* and for nothing else.                                                   *)
DyingIsFreed == \A p \in Proc : life[p] = "alive" /\ init[p] = 3 ~> life[p] = "gone"

(* A request for an actor does not stay in the create queue for ever.      *)
LeafRequestEnds == \A p \in Leaf : req[p] # "none" ~> req[p] = "none"
=============================================================================
