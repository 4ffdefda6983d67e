------------------------ MODULE ProcessFramework_proofs ------------------------
(***************************************************************************)
(* What holds of ProcessFramework for any set of processes, nodes and node *)
(* requests.  The parts build on one another:                              *)
(*   - types (TypeCorrect);                                                *)
(*   - Lifecycle, what a request says of its process, from which deletion  *)
(*     is final (DyingStaysDying);                                         *)
(*   - Iteration, where the iterators stand (IteratorsSafe);               *)
(*   - TreeOK, how the records, the layers, the line queue, the counters   *)
(*     and the requests agree, and Current, where the current layer is.    *)
(*     With Lifecycle and Iteration they make TreeInv, the invariant of    *)
(*     the whole framework, from which the other invariants follow;        *)
(*   - the refinement of ProcessTree, step by step (TreeImplemented).      *)
(***************************************************************************)
EXTENDS ProcessFrameworkTree, FiniteSetTheorems, TLAPS

-----------------------------------------------------------------------------
(* What fpcDt_ToDeleteQ reaches.                                           *)

LEMMA UnderNode ==
  ASSUME NEW n \in Proc, inLayer \subseteq Proc
  PROVE  n \in Under(n) /\ Under(n) \subseteq inLayer \union {n}
<1>1. n \in Under(n)
  BY DEF Under
<1>2. ASSUME NEW q \in Under(n) PROVE q \in inLayer \union {n}
  <2> DEFINE S == inLayer \union {n}
  <2>1. S \in SUBSET Proc /\ n \in S
    OBVIOUS
  <2>2. ClosedUnder(S)
    BY DEF ClosedUnder
  <2> QED BY <1>2, <2>1, <2>2 DEF Under
<1> QED BY <1>1, <1>2

(* Nothing is under a process that is not a node.                          *)
LEMMA UnderLeaf ==
  ASSUME NEW n \in Leaf, inLayer \subseteq Proc, layerOf \in [Proc -> Maybe(Layer)]
  PROVE  Under(n) = {n}
<1>1. ClosedUnder({n})
  BY FrameworkAssumption DEF ClosedUnder, Leaf, Layer, Maybe
<1>2. {n} \in SUBSET Proc
  BY DEF Leaf
<1>3. Under(n) \subseteq {n}
  BY <1>1, <1>2 DEF Under
<1> QED BY <1>3, UnderNode DEF Leaf

-----------------------------------------------------------------------------
(* Type correctness                                                        *)

LEMMA DecType == ASSUME NEW c \in Nat PROVE Dec(c) \in Nat
  BY DEF Dec

(* The counts of what a deletion queues are numbers.                       *)
LEMMA CardinalityType == ASSUME NEW S \in SUBSET Proc PROVE Cardinality(S) \in Nat
  BY FS_Subset, FS_CardinalityType, FrameworkAssumption

LEMMA NewRequestType ==
  ASSUME TypeOK, NEW q \in Proc, NEW l \in Maybe(Layer), NEW ph \in {"load", "fast", "dead"},
         NewRequest(q, l, ph)
  PROVE  /\ req' \in [Proc -> {"none", "load", "sub", "wait", "post", "fast", "dead"}]
         /\ reqLayer' \in [Proc -> Maybe(Layer)]
         /\ createCount' \in [Layer -> Nat]
<1>1. /\ req' = [req EXCEPT ![q] = ph]
      /\ reqLayer' = [reqLayer EXCEPT ![q] = l]
      /\ createCount' = [createCount EXCEPT ![l] = createCount[l] + 1]
  BY DEF NewRequest
<1>2. \A k \in Layer : createCount[k] + 1 \in Nat
  BY DEF TypeOK
<1> QED BY <1>1, <1>2 DEF TypeOK

LEMMA DeleteRequestType ==
  ASSUME TypeOK, NEW p, DeleteRequest(p)
  PROVE  /\ req' \in [Proc -> {"none", "load", "sub", "wait", "post", "fast", "dead"}]
         /\ createCount' \in [Layer -> Nat]
<1>1. /\ req' = [req EXCEPT ![p] = "none"]
      /\ createCount' = [createCount EXCEPT ![reqLayer[p]] = Dec(createCount[reqLayer[p]])]
  BY DEF DeleteRequest
<1>2. \A l \in Layer : Dec(createCount[l]) \in Nat
  BY DecType DEF TypeOK
<1> QED BY <1>1, <1>2 DEF TypeOK

LEMMA ToExecuteQType ==
  ASSUME TypeOK, NEW p \in Proc, ToExecuteQ(p)
  PROVE  /\ inLayer' \subseteq Proc /\ inLine' \subseteq Proc
         /\ layerOf' \in [Proc -> Maybe(Layer)]
         /\ init' \in [Proc -> 0 .. 3]
         /\ req' \in [Proc -> {"none", "load", "sub", "wait", "post", "fast", "dead"}]
         /\ createCount' \in [Layer -> Nat]
<1> DEFINE l     == IF target[p] = None THEN layerOf[p] ELSE target[p]
           lined == Lined(p, l)
           cut   == lined \intersect inLine
<1>1. l \in Maybe(Layer)
  BY DEF TypeOK
<1>2. lined \subseteq Proc
  BY DEF Lined, Under
<1>3. /\ inLayer' = (inLayer \union {p}) \ cut
      /\ layerOf' = [q \in Proc |-> IF q \in cut THEN None
                                    ELSE IF q = p THEN l ELSE layerOf[q]]
      /\ inLine' = inLine \union lined
      /\ init' = [q \in Proc |-> IF q \in lined \ cut THEN 2 ELSE init[q]]
      /\ DeleteRequest(p)
  BY DEF ToExecuteQ
<1> HIDE DEF l, lined, cut
<1>4. inLayer' \subseteq Proc /\ inLine' \subseteq Proc
  BY <1>2, <1>3 DEF TypeOK
<1>5. layerOf' \in [Proc -> Maybe(Layer)]
  BY <1>1, <1>3 DEF TypeOK, Maybe
<1>6. init' \in [Proc -> 0 .. 3]
  BY <1>3 DEF TypeOK
<1> QED BY <1>3, <1>4, <1>5, <1>6, DeleteRequestType

(* What a deletion does, whatever else the definition says: the processes  *)
(* it queues are n or were in a layer, and are now in no layer.            *)
Deleted(Q) ==
    /\ inDel' = inDel \union Q
    /\ inLayer' = inLayer \ Q
    /\ init' = [q \in Proc |-> IF q \in Q THEN 3 ELSE init[q]]

LEMMA ToDeleteQType ==
  ASSUME TypeOK, NEW n, NEW R, NEW left, ToDeleteQ(n, R, left),
         left \in {"none", "load", "sub", "wait", "post", "fast", "dead"}
  PROVE  /\ inDel' \subseteq Proc /\ inLayer' \subseteq Proc
         /\ timer' \in [Proc -> 0 .. 1]
         /\ delLayer' \in [Proc -> Maybe(Layer)] /\ layerOf' \in [Proc -> Maybe(Layer)]
         /\ target' \in [Proc -> Maybe(Layer)] /\ prioTo' \in [Proc -> Maybe(Layer)]
         /\ init' \in [Proc -> 0 .. 3]
         /\ deleteCount' \in [Layer -> Nat] /\ createCount' \in [Layer -> Nat]
         /\ req' \in [Proc -> {"none", "load", "sub", "wait", "post", "fast", "dead"}]
<1> DEFINE Q == Queued(n, R)
           D == DroppedMoves(n, Q)
<1>1. Q \subseteq Proc
  BY DEF Queued, Under
<1>2. /\ inDel' = inDel \union Q
      /\ timer' = [q \in Proc |-> IF q \in Q THEN 1 ELSE timer[q]]
      /\ delLayer' = [q \in Proc |-> IF q \in Q THEN layerOf[q] ELSE delLayer[q]]
      /\ deleteCount' = [l \in Layer |->
                            deleteCount[l] + Cardinality({q \in Q : layerOf[q] = l})]
      /\ inLayer' = inLayer \ Q
      /\ layerOf' = [q \in Proc |-> IF q \in Q THEN None ELSE layerOf[q]]
      /\ target' = [q \in Proc |-> IF q \in Q THEN None ELSE target[q]]
      /\ init' = [q \in Proc |-> IF q \in Q THEN 3 ELSE init[q]]
      /\ prioTo' = [q \in Proc |-> IF q \in D THEN None ELSE prioTo[q]]
  BY DEF ToDeleteQ
<1>3. DeleteRequest(n) \/ (req' = [req EXCEPT ![n] = left] /\ UNCHANGED createCount)
  BY DEF ToDeleteQ
<1> HIDE DEF Q, D
<1>4. \A l \in Layer : Cardinality({q \in Q : layerOf[q] = l}) \in Nat
  BY <1>1, CardinalityType
<1>5. deleteCount' \in [Layer -> Nat]
  BY <1>2, <1>4 DEF TypeOK
<1>6. /\ inDel' \subseteq Proc /\ inLayer' \subseteq Proc
      /\ timer' \in [Proc -> 0 .. 1] /\ init' \in [Proc -> 0 .. 3]
  BY <1>1, <1>2 DEF TypeOK
<1>7. /\ delLayer' \in [Proc -> Maybe(Layer)] /\ layerOf' \in [Proc -> Maybe(Layer)]
      /\ target' \in [Proc -> Maybe(Layer)] /\ prioTo' \in [Proc -> Maybe(Layer)]
  BY <1>2 DEF TypeOK, Maybe
<1>8. /\ createCount' \in [Layer -> Nat]
      /\ req' \in [Proc -> {"none", "load", "sub", "wait", "post", "fast", "dead"}]
  BY <1>3, DeleteRequestType DEF TypeOK
<1> QED BY <1>5, <1>6, <1>7, <1>8

(* The position in the pass.                                               *)
FrameType ==
    /\ phase \in {"delete", "priority", "moved", "create", "execute"}
    /\ todo \subseteq Proc /\ made \subseteq Proc
    /\ next \in Maybe(Proc) /\ cursor \in Maybe(Proc)

LEMMA PassTypes ==
  ASSUME FrameType
  PROVE  /\ \A ph \in {"delete", "create", "execute"}, S \in SUBSET Proc :
               StartPass(ph, S) => FrameType'
         /\ \A p \in Proc, S \in SUBSET Proc : AtomicVisit(p, S) => FrameType'
         /\ \A p \in Proc : MethodBegins(p) => FrameType'
         /\ \A S \in SUBSET Proc : MethodEnds(S) => FrameType'
<1>1. ASSUME NEW ph \in {"delete", "create", "execute"}, NEW S \in SUBSET Proc,
             StartPass(ph, S)
      PROVE  FrameType'
  BY <1>1 DEF FrameType, StartPass, FirstOf, Maybe
<1>2. ASSUME NEW p \in Proc, NEW S \in SUBSET Proc, AtomicVisit(p, S)
      PROVE  FrameType'
  BY <1>2 DEF FrameType, AtomicVisit, Advance, FirstOf, Maybe
<1>3. ASSUME NEW p \in Proc, MethodBegins(p)
      PROVE  FrameType'
  BY <1>3 DEF FrameType, MethodBegins, Advance, FirstOf, Maybe
<1>4. ASSUME NEW S \in SUBSET Proc, MethodEnds(S)
      PROVE  FrameType'
  BY <1>4 DEF FrameType, MethodEnds, Appended, Maybe
<1> QED BY <1>1, <1>2, <1>3, <1>4

LEMMA DeletePassType ==
  ASSUME TypeOK, NEW p \in Proc, DeletePass(p)
  PROVE  TypeOK'
<1> USE DEF Maybe, currentVars, requestVars, layerVars, deleteVars, nodeReqVars
<1>1. FrameType
  BY DEF TypeOK, FrameType
<1>2. CASE DeleteTimer(p)
  <2>1. FrameType'
    BY <1>1, <1>2, PassTypes DEF DeleteTimer
  <2>2. timer' \in [Proc -> 0 .. 1]
    BY <1>2 DEF DeleteTimer, Due, TypeOK
  <2> QED BY <1>2, <2>1, <2>2 DEF DeleteTimer, TypeOK, FrameType
<1>3. CASE DeleteWaits(p)
  <2>1. FrameType'
    BY <1>1, <1>3, PassTypes DEF DeleteWaits
  <2> QED BY <1>3, <2>1 DEF DeleteWaits, TypeOK, FrameType
<1>4. CASE DeleteBegins(p)
  <2>1. FrameType'
    BY <1>1, <1>4, PassTypes DEF DeleteBegins
  <2> QED BY <1>4, <2>1 DEF DeleteBegins, TypeOK, FrameType
<1>5. CASE DeleteSucceeds(p)
  <2>1. FrameType'
    BY <1>1, <1>5, PassTypes DEF DeleteSucceeds
  <2>2. layers' \subseteq Layer /\ Root \in layers'
    BY <1>5, FrameworkAssumption DEF DeleteSucceeds, TypeOK
  <2>3. deleteCount' = [deleteCount EXCEPT ![delLayer[p]] = Dec(deleteCount[delLayer[p]])]
    BY <1>5 DEF DeleteSucceeds
  <2>4. \A l \in Layer : Dec(deleteCount[l]) \in Nat
    BY DecType DEF TypeOK
  <2>5. deleteCount' \in [Layer -> Nat]
    BY <2>3, <2>4 DEF TypeOK
  <2> QED BY <1>5, <2>1, <2>2, <2>5 DEF DeleteSucceeds, TypeOK, FrameType
<1>6. CASE DeleteRetries(p)
  <2>1. FrameType'
    BY <1>1, <1>6, PassTypes DEF DeleteRetries
  <2> QED BY <1>6, <2>1 DEF DeleteRetries, TypeOK, FrameType
<1> QED BY <1>2, <1>3, <1>4, <1>5, <1>6 DEF DeletePass

(* A create method fails or a fast one does: the process is deleted, or    *)
(* its request stays "dead".                                               *)
LEMMA CancelFailedType ==
  ASSUME TypeOK, NEW p \in Proc, CancelFailed(p)
  PROVE  /\ inDel' \subseteq Proc /\ inLayer' \subseteq Proc
         /\ timer' \in [Proc -> 0 .. 1]
         /\ delLayer' \in [Proc -> Maybe(Layer)] /\ layerOf' \in [Proc -> Maybe(Layer)]
         /\ target' \in [Proc -> Maybe(Layer)] /\ prioTo' \in [Proc -> Maybe(Layer)]
         /\ init' \in [Proc -> 0 .. 3]
         /\ deleteCount' \in [Layer -> Nat] /\ createCount' \in [Layer -> Nat]
         /\ req' \in [Proc -> {"none", "load", "sub", "wait", "post", "fast", "dead"}]
<1>1. CASE IsCreatingFromUnder(p)
  BY <1>1 DEF CancelFailed, TypeOK, deleteVars, layerVars
<1>2. CASE ~IsCreatingFromUnder(p)
  BY <1>2, ToDeleteQType DEF CancelFailed
<1> QED BY <1>1, <1>2

LEMMA CompletionType ==
  ASSUME TypeOK, NEW p \in Proc, CompletionPhases(p)
  PROVE  /\ inLayer' \subseteq Proc /\ inLine' \subseteq Proc
         /\ layerOf' \in [Proc -> Maybe(Layer)]
         /\ init' \in [Proc -> 0 .. 3]
         /\ req' \in [Proc -> {"none", "load", "sub", "wait", "post", "fast", "dead"}]
         /\ createCount' \in [Layer -> Nat]
<1>1. CASE ToExecuteQ(p)
  BY <1>1, ToExecuteQType
<1>2. CASE ~ToExecuteQ(p)
  BY <1>2 DEF CompletionPhases, TypeOK, layerVars
<1> QED BY <1>1, <1>2

LEMMA CreatePassType ==
  ASSUME TypeOK, NEW p \in Proc, CreatePass(p)
  PROVE  TypeOK'
<1> USE DEF Maybe, currentVars, requestVars, layerVars, deleteVars, nodeReqVars
<1>1. FrameType
  BY DEF TypeOK, FrameType
<1>2. CASE AllocFails(p)
  <2>1. FrameType'
    BY <1>1, <1>2, PassTypes DEF AllocFails
  <2>2. /\ createCount' \in [Layer -> Nat]
        /\ req' \in [Proc -> {"none", "load", "sub", "wait", "post", "fast", "dead"}]
    BY <1>2, DeleteRequestType DEF AllocFails
  <2> QED BY <1>2, <2>1, <2>2 DEF AllocFails, TypeOK, FrameType
<1>3. CASE CreateBegins(p)
  <2>1. FrameType'
    BY <1>1, <1>3, PassTypes DEF CreateBegins
  <2>2. layers' \subseteq Layer /\ Root \in layers' /\ curLayer' \in Maybe(Layer)
    BY <1>3 DEF CreateBegins, TypeOK, Layer
  <2> QED BY <1>3, <2>1, <2>2 DEF CreateBegins, TypeOK, FrameType
<1>4. CASE CreateLoading(p)
  <2>1. FrameType'
    BY <1>1, <1>4, PassTypes DEF CreateLoading
  <2> QED BY <1>4, <2>1 DEF CreateLoading, TypeOK, FrameType
<1>5. CASE CreateFails(p)
  <2>1. FrameType'
    BY <1>1, <1>5, PassTypes DEF CreateFails
  <2>2. CancelFailed(p)
    BY <1>5 DEF CreateFails
  <2> QED BY <1>5, <2>1, <2>2, CancelFailedType DEF CreateFails, TypeOK, FrameType
<1>6. CASE CreateSucceeds(p)
  <2>1. FrameType'
    BY <1>1, <1>6, PassTypes DEF CreateSucceeds
  <2>2. CompletionPhases(p)
    BY <1>6 DEF CreateSucceeds
  <2> QED BY <1>6, <2>1, <2>2, CompletionType DEF CreateSucceeds, TypeOK, FrameType
<1>7. CASE CreateCompletes(p)
  <2>1. FrameType'
    BY <1>1, <1>7, PassTypes DEF CreateCompletes
  <2>2. CompletionPhases(p)
    BY <1>7 DEF CreateCompletes
  <2> QED BY <1>7, <2>1, <2>2, CompletionType DEF CreateCompletes, TypeOK, FrameType
<1>8. CASE FastCompletes(p)
  <2>1. FrameType'
    BY <1>1, <1>8, PassTypes DEF FastCompletes
  <2>2. ToExecuteQ(p)
    BY <1>8 DEF FastCompletes
  <2> QED BY <1>8, <2>1, <2>2, ToExecuteQType DEF FastCompletes, TypeOK, FrameType
<1>9. CASE FastFails(p)
  <2>1. FrameType'
    BY <1>1, <1>9, PassTypes DEF FastFails
  <2>2. CancelFailed(p)
    BY <1>9 DEF FastFails
  <2> QED BY <1>9, <2>1, <2>2, CancelFailedType DEF FastFails, TypeOK, FrameType
<1> QED BY <1>2, <1>3, <1>4, <1>5, <1>6, <1>7, <1>8, <1>9 DEF CreatePass

LEMMA FrameStepType ==
  ASSUME TypeOK, FrameStep
  PROVE  TypeOK'
<1> USE DEF Maybe, currentVars, requestVars, layerVars, deleteVars, nodeReqVars
<1>1. FrameType
  BY DEF TypeOK, FrameType
<1>2. CASE StartDelete
  <2>1. FrameType'
    BY <1>1, <1>2, PassTypes DEF StartDelete, TypeOK
  <2> QED BY <1>2, <2>1 DEF StartDelete, TypeOK, FrameType
<1>3. CASE SkipDelete
  BY <1>3 DEF SkipDelete, TypeOK
<1>4. CASE StartCreate
  <2>1. FrameType'
    BY <1>1, <1>4, PassTypes DEF StartCreate
  <2> QED BY <1>4, <2>1 DEF StartCreate, TypeOK, FrameType
<1>5. CASE StartExecute
  <2>1. FrameType'
    BY <1>1, <1>5, PassTypes DEF StartExecute, TypeOK
  <2> QED BY <1>5, <2>1 DEF StartExecute, TypeOK, FrameType
<1>6. CASE ExecuteEnds
  <2>1. FrameType'
    BY <1>1, <1>6, PassTypes DEF ExecuteEnds
  <2> QED BY <1>6, <2>1 DEF ExecuteEnds, TypeOK, FrameType
<1>7. ASSUME NEW p \in Proc, PriorityMove(p) PROVE TypeOK'
  BY <1>7 DEF PriorityMove, AtPriority, TypeOK
<1>8. ASSUME NEW p \in Proc, ExecuteSkips(p) PROVE TypeOK'
  <2>1. FrameType'
    BY <1>1, <1>8, PassTypes DEF ExecuteSkips
  <2> QED BY <1>8, <2>1 DEF ExecuteSkips, TypeOK, FrameType
<1>9. ASSUME NEW p \in Proc, ExecuteBegins(p) PROVE TypeOK'
  <2>1. FrameType'
    BY <1>1, <1>9, PassTypes DEF ExecuteBegins
  <2>2. curLayer' \in Maybe(Layer) /\ savedLayer' \in Maybe(Layer)
    BY <1>9 DEF ExecuteBegins, TypeOK, Layer
  <2> QED BY <1>9, <2>1, <2>2 DEF ExecuteBegins, TypeOK, FrameType
<1> QED
  BY <1>2, <1>3, <1>4, <1>5, <1>6, <1>7, <1>8, <1>9, DeletePassType, CreatePassType
  DEF FrameStep, ExecutePass

LEMMA ManagementType ==
  ASSUME TypeOK, Management
  PROVE  TypeOK'
<1> USE DEF Maybe, InManage, frameVars, layerVars, deleteVars, nodeReqVars
<1>1. ASSUME NEW r \in NodeReq, NodeReqDelete(r) PROVE TypeOK'
  <2> DEFINE n == nrNode[r]
  <2>1. CASE n \in Proc
    <3>1. PICK R \in Refusals(n) : ToDeleteQ(n, R, req[n])
      BY <1>1 DEF NodeReqDelete
    <3>2. req[n] \in {"none", "load", "sub", "wait", "post", "fast", "dead"}
      BY <2>1 DEF TypeOK
    <3>3. nrPhase' \in [NodeReq -> {"none", "delete", "deleted", "create", "created"}]
      BY <1>1 DEF NodeReqDelete, TypeOK
    <3> HIDE DEF n
    <3> QED BY <1>1, <3>1, <3>2, <3>3, ToDeleteQType DEF NodeReqDelete, TypeOK
  <2>2. CASE n \notin Proc
    <3>1. PICK R \in Refusals(n) : ToDeleteQ(n, R, req[n])
      BY <1>1 DEF NodeReqDelete
    <3>2. ToDeleteQ(n, R, "none")
      BY <2>2, <3>1 DEF ToDeleteQ, TypeOK
    <3>3. nrPhase' \in [NodeReq -> {"none", "delete", "deleted", "create", "created"}]
      BY <1>1 DEF NodeReqDelete, TypeOK
    <3> HIDE DEF n
    <3> QED BY <1>1, <3>2, <3>3, ToDeleteQType DEF NodeReqDelete, TypeOK
  <2> QED BY <2>1, <2>2
<1>2. ASSUME NEW r \in NodeReq, NodeReqDeleted(r) PROVE TypeOK'
  BY <1>2 DEF NodeReqDeleted, TypeOK
<1>3. ASSUME NEW r \in NodeReq, NodeReqEnds(r) PROVE TypeOK'
  <2>1. createCount' = [createCount EXCEPT ![nrLayer[r]] = Dec(createCount[nrLayer[r]])]
    BY <1>3 DEF NodeReqEnds
  <2>2. \A l \in Layer : Dec(createCount[l]) \in Nat
    BY DecType DEF TypeOK
  <2>3. createCount' \in [Layer -> Nat]
    BY <2>1, <2>2 DEF TypeOK
  <2> QED BY <1>3, <2>3 DEF NodeReqEnds, TypeOK
<1>4. ASSUME NEW r \in NodeReq, NEW n \in Node, NodeReqCreate(r, n) PROVE TypeOK'
  <2>1. n \in Proc
    BY FrameworkAssumption
  <2>2. nrLayer[r] \in Maybe(Layer) /\ NewRequest(n, nrLayer[r], "load")
    BY <1>4 DEF NodeReqCreate, TypeOK
  <2> HIDE DEF Maybe
  <2>3. /\ req' \in [Proc -> {"none", "load", "sub", "wait", "post", "fast", "dead"}]
        /\ reqLayer' \in [Proc -> Maybe(Layer)]
        /\ createCount' \in [Layer -> Nat]
    BY <2>1, <2>2, NewRequestType
  <2> QED BY <1>4, <2>1, <2>3 DEF NodeReqCreate, TypeOK, Maybe
<1>5. ASSUME NEW q \in Proc, OverlapCreate(q) PROVE TypeOK'
  <2>1. Root \in Layer
    BY DEF Layer
  <2>2. /\ req' \in [Proc -> {"none", "load", "sub", "wait", "post", "fast", "dead"}]
        /\ reqLayer' \in [Proc -> Maybe(Layer)]
        /\ createCount' \in [Layer -> Nat]
    BY <1>5, <2>1, NewRequestType DEF OverlapCreate
  <2> QED BY <1>5, <2>1, <2>2 DEF OverlapCreate, TypeOK
<1>6. ASSUME NEW q \in Proc, OverlapDelete(q) PROVE TypeOK'
  <2>1. req[q] \in {"none", "load", "sub", "wait", "post", "fast", "dead"}
    BY DEF TypeOK
  <2> QED BY <1>6, <2>1, ToDeleteQType DEF OverlapDelete, TypeOK
<1> QED BY <1>1, <1>2, <1>3, <1>4, <1>5, <1>6 DEF Management

LEMMA NewNodeReqType ==
  ASSUME TypeOK, NEW r \in NodeReq, NEW kind \in {"create", "delete", "change"},
         NEW l \in Maybe(Layer), NEW n \in Maybe(Node), NewNodeReq(r, kind, l, n)
  PROVE  /\ createCount' \in [Layer -> Nat]
         /\ nrPhase' \in [NodeReq -> {"none", "delete", "deleted", "create", "created"}]
         /\ nrKind' \in [NodeReq -> {"create", "delete", "change"}]
         /\ nrLayer' \in [NodeReq -> Maybe(Layer)]
         /\ nrNode' \in [NodeReq -> Maybe(Node)]
<1>1. createCount' = [createCount EXCEPT ![l] = createCount[l] + 1]
  BY DEF NewNodeReq
<1>2. \A k \in Layer : createCount[k] + 1 \in Nat
  BY DEF TypeOK
<1>3. createCount' \in [Layer -> Nat]
  BY <1>1, <1>2 DEF TypeOK
<1> QED BY <1>3 DEF NewNodeReq, TypeOK

LEMMA CallType ==
  ASSUME TypeOK, Call
  PROVE  TypeOK'
<1> USE DEF InMethod, Joins, Appended, currentVars, requestVars, layerVars, deleteVars, nodeReqVars
<1>1. ASSUME NEW q \in Proc, CallCreate(q) PROVE TypeOK'
  <2>1. curLayer \in Maybe(Layer)
    BY DEF TypeOK
  <2>2. /\ req' \in [Proc -> {"none", "load", "sub", "wait", "post", "fast", "dead"}]
        /\ reqLayer' \in [Proc -> Maybe(Layer)]
        /\ createCount' \in [Layer -> Nat]
    BY <1>1, <2>1, NewRequestType DEF CallCreate
  <2> QED BY <1>1, <2>2 DEF CallCreate, TypeOK, Maybe
<1>2. ASSUME NEW q \in Proc, CallDelete(q) PROVE TypeOK'
  <2>1. req[q] \in {"none", "load", "sub", "wait", "post", "fast", "dead"}
    BY DEF TypeOK
  <2>2. todo' \subseteq Proc
    BY <1>2 DEF CallDelete, TypeOK
  <2> QED BY <1>2, <2>1, <2>2, ToDeleteQType DEF CallDelete, TypeOK
<1>3. ASSUME NEW q \in Proc, CallFastCreateFails(q) PROVE TypeOK'
  <2>1. deleteCount' = [deleteCount EXCEPT ![curLayer] = deleteCount[curLayer] + 1]
    BY <1>3 DEF CallFastCreateFails
  <2>2. \A k \in Layer : deleteCount[k] + 1 \in Nat
    BY DEF TypeOK
  <2>3. deleteCount' \in [Layer -> Nat]
    BY <2>1, <2>2 DEF TypeOK
  <2> QED BY <1>3, <2>3 DEF CallFastCreateFails, TypeOK
<1>4. ASSUME NEW q \in Proc, NEW ok \in BOOLEAN, NEW stale \in BOOLEAN,
             CallFastCreate(q, ok, stale)
      PROVE  TypeOK'
  <2>1. curLayer \in Maybe(Layer)
    BY DEF TypeOK
  <2>2. NewRequest(q, curLayer, "fast") \/ NewRequest(q, curLayer, "dead")
    BY <1>4 DEF CallFastCreate
  <2>3. /\ req' \in [Proc -> {"none", "load", "sub", "wait", "post", "fast", "dead"}]
        /\ reqLayer' \in [Proc -> Maybe(Layer)]
        /\ createCount' \in [Layer -> Nat]
    BY <2>1, <2>2, NewRequestType
  <2> QED BY <1>4, <2>3 DEF CallFastCreate, TypeOK, Maybe
<1>5. ASSUME NEW q \in Proc, NEW l \in Node, CallChangeLayer(q, l) PROVE TypeOK'
  <2>1. l \in Maybe(Layer)
    BY DEF Maybe, Layer
  <2>2. target' \in [Proc -> Maybe(Layer)] /\ prioTo' \in [Proc -> Maybe(Layer)]
    BY <1>5, <2>1 DEF CallChangeLayer, TypeOK
  <2> QED BY <1>5, <2>2 DEF CallChangeLayer, TypeOK
<1>6. ASSUME NEW r \in NodeReq, CallNodeCreate(r) PROVE TypeOK'
  <2>1. curLayer \in Maybe(Layer) /\ None \in Maybe(Node)
    BY DEF TypeOK, Maybe
  <2> QED BY <1>6, <2>1, NewNodeReqType DEF CallNodeCreate, TypeOK
<1>7. ASSUME NEW r \in NodeReq, NEW n \in Node, NEW k \in {"delete", "change"},
             CallNodeDelete(r, n, k)
      PROVE  TypeOK'
  <2>1. layerOf[n] \in Maybe(Layer) /\ n \in Maybe(Node)
    BY FrameworkAssumption DEF TypeOK, Maybe
  <2> QED BY <1>7, <2>1, NewNodeReqType DEF CallNodeDelete, TypeOK
<1> QED BY <1>1, <1>2, <1>3, <1>4, <1>5, <1>6, <1>7 DEF Call

LEMMA InitType == Init => TypeOK
  BY FrameworkAssumption DEF Init, TypeOK, Maybe, Layer

(* Every field keeps to its range, whatever the methods call.              *)
THEOREM TypeCorrect == Spec => []TypeOK
<1>1. TypeOK /\ [Next]_vars => TypeOK'
  <2> SUFFICES ASSUME TypeOK, [Next]_vars PROVE TypeOK'
    OBVIOUS
  <2>1. CASE Next
    BY <2>1, FrameStepType, ManagementType, CallType DEF Next
  <2>2. CASE UNCHANGED vars
    BY <2>2 DEF vars, frameVars, currentVars, requestVars, layerVars, deleteVars,
                nodeReqVars, TypeOK
  <2> QED BY <2>1, <2>2
<1> QED BY <1>1, InitType, PTL DEF Spec

-----------------------------------------------------------------------------
(* Deletion is final                                                       *)

(* A request belongs to a process that is in no layer and neither executes *)
(* nor dies, and the dead request of a leaf to one that fpcDt_Delete       *)
(* refuses; a create method runs with its is_doing set and no method runs  *)
(* while priorities change; a node that a node request will delete has no  *)
(* create request.                                                         *)
LifeOK ==
    \A p \in Proc :
        /\ req[p] # "none" => init[p] < 2 /\ p \notin inLayer /\ life[p] # "unborn"
        /\ init[p] >= 2 \/ p \in inLayer => life[p] # "unborn"
        /\ init[p] = 3 => p \notin inLayer
        /\ p \in Leaf /\ req[p] = "dead" => p \in doing
CursorOK ==
    /\ phase = "create" /\ cursor # None => cursor \in doing /\ req[cursor] = "sub"
    /\ phase \in {"priority", "moved"} => cursor = None
VictimOK ==
    \A r \in NodeReq : nrPhase[r] = "delete" =>
        nrNode[r] \in Node /\ req[nrNode[r]] = "none" /\ life[nrNode[r]] # "unborn"
Lifecycle == LifeOK /\ CursorOK /\ VictimOK

StaysDying == \A p \in Proc : init[p] = 3 => init'[p] = 3
LifeStep == Lifecycle' /\ StaysDying

(* What deleting n does, when a request of n is not dead: the processes it *)
(* queues are n or were in a layer, and have no request left.              *)
LEMMA ToDeleteQEffect ==
  ASSUME TypeOK, LifeOK, NEW n \in Proc, NEW R, NEW left, ToDeleteQ(n, R, left),
         req[n] # "dead", req[n] = "none" => left = "none"
  PROVE  \E Q \in SUBSET (inLayer \union {n}) :
            /\ Q = Queued(n, R)
            /\ inDel' = inDel \union Q
            /\ inLayer' = inLayer \ Q
            /\ init' = [q \in Proc |-> IF q \in Q THEN 3 ELSE init[q]]
            /\ \A q \in Proc \ {n} : req'[q] = req[q]
            /\ req'[n] = IF n \in Q THEN "none" ELSE left
<1> DEFINE Q == Queued(n, R)
<1>1. Q \in SUBSET (inLayer \union {n})
  BY UnderNode DEF Queued, TypeOK
<1>2. /\ inDel' = inDel \union Q
      /\ inLayer' = inLayer \ Q
      /\ init' = [q \in Proc |-> IF q \in Q THEN 3 ELSE init[q]]
  BY DEF ToDeleteQ
<1>3. req' = IF Aborted(n, R) THEN [req EXCEPT ![n] = "none"] ELSE [req EXCEPT ![n] = left]
  BY DEF ToDeleteQ, DeleteRequest
<1>4. \A q \in Proc \ {n} : req'[q] = req[q]
  BY <1>3 DEF TypeOK
<1>5. req'[n] = IF n \in Q THEN "none" ELSE left
  BY <1>3 DEF Aborted, LifeOK, TypeOK
<1> QED BY <1>1, <1>2, <1>4, <1>5

(* What putting p in its layer does: those it sets executing are p or were *)
(* in a layer.                                                             *)
LEMMA ToExecuteQEffect ==
  ASSUME TypeOK, NEW p \in Proc, ToExecuteQ(p)
  PROVE  \E L \in SUBSET (inLayer \union {p}) :
            /\ init' = [q \in Proc |-> IF q \in L THEN 2 ELSE init[q]]
            /\ inLayer' \subseteq inLayer \union {p}
            /\ inLine \subseteq inLine'
            /\ req' = [req EXCEPT ![p] = "none"]
<1> DEFINE l     == IF target[p] = None THEN layerOf[p] ELSE target[p]
           lined == Lined(p, l)
           cut   == lined \intersect inLine
<1>1. lined \subseteq inLayer \union {p}
  BY UnderNode DEF Lined, TypeOK
<1>2. /\ inLayer' = (inLayer \union {p}) \ cut
      /\ inLine' = inLine \union lined
      /\ init' = [q \in Proc |-> IF q \in lined \ cut THEN 2 ELSE init[q]]
      /\ req' = [req EXCEPT ![p] = "none"]
  BY DEF ToExecuteQ, DeleteRequest
<1> HIDE DEF l, lined, cut
<1> QED
  <2> DEFINE L == lined \ cut
  <2>1. L \in SUBSET (inLayer \union {p})
    BY <1>1
  <2> WITNESS L \in SUBSET (inLayer \union {p})
  <2> QED BY <1>2

LEMMA DeletePassLife ==
  ASSUME TypeOK, Lifecycle, NEW p \in Proc, DeletePass(p)
  PROVE  LifeStep
<1> USE DEF layerVars, requestVars, nodeReqVars, currentVars, deleteVars
<1>1. phase' = "delete"
  BY DEF DeletePass, DeleteTimer, DeleteWaits, DeleteBegins, DeleteSucceeds, DeleteRetries,
         Visiting, AtomicVisit, MethodBegins, MethodEnds
<1>2. /\ UNCHANGED <<req, init, inLayer, doing, nrPhase, nrNode>>
      /\ \A q \in Proc : life[q] # "unborn" => life'[q] # "unborn"
  BY DEF DeletePass, DeleteTimer, DeleteWaits, DeleteBegins, DeleteSucceeds, DeleteRetries, TypeOK
<1>3. \A q \in Node : q \in Proc
  BY FrameworkAssumption
<1> QED BY <1>1, <1>2, <1>3 DEF LifeStep, Lifecycle, LifeOK, CursorOK, VictimOK, StaysDying

(* The cancel of a failed creation.                                        *)
LEMMA CancelFailedLife ==
  ASSUME TypeOK, Lifecycle, NEW p \in Proc, CancelFailed(p), req[p] \in {"sub", "fast"},
         doing' = doing \ {p}, UNCHANGED <<life, nodeReqVars>>
  PROVE  LifeOK' /\ VictimOK' /\ StaysDying
<1> USE DEF layerVars, deleteVars, nodeReqVars
<1>1. init[p] < 2
  BY DEF Lifecycle, LifeOK
<1>2. CASE IsCreatingFromUnder(p)
  <2>1. p \in Node
    BY <1>2 DEF IsCreatingFromUnder
  <2>2. req' = [req EXCEPT ![p] = "dead"] /\ UNCHANGED <<inLayer, init>>
    BY <1>2 DEF CancelFailed
  <2>3. LifeOK'
    BY <2>1, <2>2 DEF Lifecycle, LifeOK, TypeOK, Leaf
  <2>4. VictimOK'
    BY <2>2, FrameworkAssumption DEF Lifecycle, VictimOK, TypeOK
  <2> QED BY <2>2, <2>3, <2>4 DEF StaysDying
<1>3. CASE ~IsCreatingFromUnder(p)
  <2>1. PICK R \in Refusals(p) : ToDeleteQ(p, R, "dead")
    BY <1>3 DEF CancelFailed
  <2>2. PICK Q \in SUBSET (inLayer \union {p}) :
            /\ Q = Queued(p, R)
            /\ inLayer' = inLayer \ Q
            /\ init' = [q \in Proc |-> IF q \in Q THEN 3 ELSE init[q]]
            /\ \A q \in Proc \ {p} : req'[q] = req[q]
            /\ req'[p] = IF p \in Q THEN "none" ELSE "dead"
    BY <2>1, ToDeleteQEffect DEF Lifecycle
  <2>3. p \in Leaf => p \in Q
    <3> SUFFICES ASSUME p \in Leaf PROVE p \in Q
      OBVIOUS
    <3>1. Under(p) = {p}
      BY UnderLeaf DEF TypeOK
    <3>2. R = {}
      BY <1>1, <2>1, <3>1 DEF Refusals
    <3> QED BY <2>2, <3>1, <3>2 DEF Queued
  <2>4. LifeOK'
    BY <2>2, <2>3 DEF Lifecycle, LifeOK, TypeOK
  <2>5. VictimOK'
    BY <2>2, FrameworkAssumption DEF Lifecycle, VictimOK, TypeOK
  <2> QED BY <2>2, <2>4, <2>5 DEF StaysDying, TypeOK
<1> QED BY <1>2, <1>3

LEMMA ToExecuteQLife ==
  ASSUME TypeOK, Lifecycle, NEW p \in Proc, ToExecuteQ(p), req[p] # "none",
         doing \ {p} \subseteq doing', UNCHANGED <<life, nodeReqVars>>
  PROVE  LifeOK' /\ VictimOK' /\ StaysDying
<1>1. PICK L \in SUBSET (inLayer \union {p}) :
            /\ init' = [q \in Proc |-> IF q \in L THEN 2 ELSE init[q]]
            /\ inLayer' \subseteq inLayer \union {p}
            /\ req' = [req EXCEPT ![p] = "none"]
  BY ToExecuteQEffect
<1>2. LifeOK'
  BY <1>1 DEF Lifecycle, LifeOK, TypeOK
<1>3. VictimOK'
  BY <1>1, FrameworkAssumption DEF Lifecycle, VictimOK, TypeOK, nodeReqVars
<1>4. StaysDying
  BY <1>1 DEF Lifecycle, LifeOK, StaysDying, TypeOK
<1> QED BY <1>2, <1>3, <1>4

LEMMA CompletionLife ==
  ASSUME TypeOK, Lifecycle, NEW p \in Proc, CompletionPhases(p),
         req[p] \in {"sub", "wait", "post"},
         doing \ {p} \subseteq doing', UNCHANGED <<life, nodeReqVars>>
  PROVE  LifeOK' /\ VictimOK' /\ StaysDying
<1>1. CASE ToExecuteQ(p)
  BY <1>1, ToExecuteQLife
<1>2. CASE ~ToExecuteQ(p)
  <2>1. PICK ph \in {"wait", "post"} : req' = [req EXCEPT ![p] = ph]
    BY <1>2 DEF CompletionPhases
  <2>2. UNCHANGED <<inLayer, init>>
    BY <1>2 DEF CompletionPhases, layerVars
  <2>3. LifeOK'
    BY <2>1, <2>2 DEF Lifecycle, LifeOK, TypeOK
  <2>4. VictimOK'
    BY <2>1, FrameworkAssumption DEF Lifecycle, VictimOK, TypeOK, nodeReqVars
  <2> QED BY <2>2, <2>3, <2>4 DEF StaysDying
<1> QED BY <1>1, <1>2

LEMMA CreatePassLife ==
  ASSUME TypeOK, Lifecycle, NEW p \in Proc, CreatePass(p)
  PROVE  LifeStep
<1> USE DEF layerVars, requestVars, nodeReqVars, currentVars, deleteVars
<1>1. ASSUME cursor' = None PROVE CursorOK'
  BY <1>1 DEF CursorOK
<1>2. CASE AllocFails(p)
  <2>1. req' = [req EXCEPT ![p] = "none"] /\ life' = [life EXCEPT ![p] = "gone"]
    BY <1>2 DEF AllocFails, DeleteRequest
  <2>2. cursor' = None /\ UNCHANGED <<init, inLayer, doing, nrPhase, nrNode>>
    BY <1>2 DEF AllocFails, AtomicVisit, Visiting
  <2>3. LifeOK'
    BY <2>1, <2>2 DEF Lifecycle, LifeOK, TypeOK
  <2>4. VictimOK'
    BY <2>1, <2>2, FrameworkAssumption DEF Lifecycle, VictimOK, TypeOK
  <2> QED BY <1>1, <2>2, <2>3, <2>4 DEF LifeStep, Lifecycle, StaysDying
<1>3. CASE CreateBegins(p)
  <2>1. /\ req[p] # "none" /\ req' = [req EXCEPT ![p] = "sub"]
        /\ life' = [life EXCEPT ![p] = "alive"]
        /\ doing' = doing \union {p} /\ cursor' = p /\ phase' = "create"
        /\ UNCHANGED <<init, inLayer, nrPhase, nrNode>>
    BY <1>3 DEF CreateBegins, MethodBegins, Visiting
  <2>2. LifeOK'
    BY <2>1 DEF Lifecycle, LifeOK, TypeOK
  <2>3. VictimOK'
    BY <2>1, FrameworkAssumption DEF Lifecycle, VictimOK, TypeOK
  <2>4. CursorOK'
    BY <2>1 DEF CursorOK, TypeOK
  <2> QED BY <2>1, <2>2, <2>3, <2>4 DEF LifeStep, Lifecycle, StaysDying
<1>4. CASE CreateLoading(p)
  <2>1. /\ req[p] = "sub" /\ cursor' = None
        /\ init' = [init EXCEPT ![p] = 1] /\ doing' = doing \ {p}
        /\ UNCHANGED <<req, life, inLayer, nrPhase, nrNode>>
    BY <1>4, FrameworkAssumption DEF CreateLoading, MethodEnds, Lifecycle, CursorOK
  <2>2. LifeOK' /\ StaysDying
    BY <2>1 DEF Lifecycle, LifeOK, TypeOK, StaysDying
  <2>3. VictimOK'
    BY <2>1 DEF Lifecycle, VictimOK
  <2> QED BY <1>1, <2>1, <2>2, <2>3 DEF LifeStep, Lifecycle
<1>5. CASE CreateFails(p)
  <2>1. req[p] = "sub" /\ cursor' = None
    BY <1>5, FrameworkAssumption DEF CreateFails, MethodEnds, Lifecycle, CursorOK
  <2>2. CancelFailed(p) /\ doing' = doing \ {p} /\ UNCHANGED <<life, nodeReqVars>>
    BY <1>5 DEF CreateFails
  <2> QED BY <1>1, <2>1, <2>2, CancelFailedLife DEF LifeStep, Lifecycle
<1>6. CASE CreateSucceeds(p)
  <2>1. req[p] = "sub" /\ cursor' = None
    BY <1>6, FrameworkAssumption DEF CreateSucceeds, MethodEnds, Lifecycle, CursorOK
  <2>2. CompletionPhases(p) /\ doing' = doing \ {p} /\ UNCHANGED <<life, nodeReqVars>>
    BY <1>6 DEF CreateSucceeds
  <2> QED BY <1>1, <2>1, <2>2, CompletionLife DEF LifeStep, Lifecycle
<1>7. CASE CreateCompletes(p)
  <2>1. req[p] \in {"wait", "post"} /\ cursor' = None
    BY <1>7 DEF CreateCompletes, AtomicVisit, Visiting
  <2>2. CompletionPhases(p) /\ doing' = doing /\ UNCHANGED <<life, nodeReqVars>>
    BY <1>7 DEF CreateCompletes
  <2> QED BY <1>1, <2>1, <2>2, CompletionLife DEF LifeStep, Lifecycle
<1>8. CASE FastCompletes(p)
  <2>1. req[p] # "none" /\ cursor' = None
    BY <1>8 DEF FastCompletes, AtomicVisit, Visiting
  <2>2. ToExecuteQ(p) /\ doing' = doing \ {p} /\ UNCHANGED <<life, nodeReqVars>>
    BY <1>8 DEF FastCompletes
  <2> QED BY <1>1, <2>1, <2>2, ToExecuteQLife DEF LifeStep, Lifecycle
<1>9. CASE FastFails(p)
  <2>1. req[p] = "fast" /\ cursor' = None
    BY <1>9 DEF FastFails, AtomicVisit, Visiting
  <2>2. CancelFailed(p) /\ doing' = doing \ {p} /\ UNCHANGED <<life, nodeReqVars>>
    BY <1>9 DEF FastFails
  <2> QED BY <1>1, <2>1, <2>2, CancelFailedLife DEF LifeStep, Lifecycle
<1> QED BY <1>2, <1>3, <1>4, <1>5, <1>6, <1>7, <1>8, <1>9 DEF CreatePass

LEMMA FrameStepLife ==
  ASSUME TypeOK, Lifecycle, FrameStep
  PROVE  LifeStep
<1> USE DEF layerVars, requestVars, nodeReqVars, currentVars, deleteVars
<1>1. ASSUME UNCHANGED <<req, init, inLayer, life, doing, nrPhase, nrNode>>, CursorOK'
      PROVE  LifeStep
  BY <1>1 DEF LifeStep, Lifecycle, LifeOK, VictimOK, StaysDying
<1>2. CASE StartDelete \/ SkipDelete \/ StartCreate \/ StartExecute \/ ExecuteEnds
  <2>1. CursorOK'
    <3>1. CASE StartDelete \/ SkipDelete \/ StartExecute
      BY <3>1 DEF StartDelete, SkipDelete, StartExecute, StartPass, PassDone, CursorOK
    <3>2. CASE StartCreate
      BY <3>2 DEF StartCreate, StartPass, AtPriority, PassDone, CursorOK, Lifecycle
    <3>3. CASE ExecuteEnds
      BY <3>3 DEF ExecuteEnds, MethodEnds, CursorOK
    <3> QED BY <1>2, <3>1, <3>2, <3>3
  <2> QED BY <1>1, <1>2, <2>1
          DEF StartDelete, SkipDelete, StartCreate, StartExecute, ExecuteEnds
<1>3. ASSUME NEW p \in Proc, PriorityMove(p) PROVE LifeStep
  BY <1>1, <1>3 DEF PriorityMove, AtPriority, PassDone, CursorOK, Lifecycle
<1>4. ASSUME NEW p \in Proc, ExecutePass(p) PROVE LifeStep
  <2>1. CursorOK'
    BY <1>4 DEF ExecutePass, ExecuteSkips, ExecuteBegins, AtomicVisit, MethodBegins,
                Visiting, CursorOK
  <2> QED BY <1>1, <1>4, <2>1 DEF ExecutePass, ExecuteSkips, ExecuteBegins
<1> QED BY <1>2, <1>3, <1>4, DeletePassLife, CreatePassLife DEF FrameStep

(* A deletion asked for by a node request, by the overlap manager or by a  *)
(* method.                                                                 *)
LEMMA DeleteLife ==
  ASSUME TypeOK, Lifecycle, NEW n \in Proc, NEW R, ToDeleteQ(n, R, req[n]),
         req[n] # "dead", life[n] # "unborn", UNCHANGED <<life, doing>>
  PROVE  /\ LifeOK' /\ StaysDying
         /\ \A q \in Proc : req[q] = "none" => req'[q] = "none"
         /\ \A q \in Proc \ {n} : req'[q] = req[q]
<1>1. PICK Q \in SUBSET (inLayer \union {n}) :
            /\ inLayer' = inLayer \ Q
            /\ init' = [q \in Proc |-> IF q \in Q THEN 3 ELSE init[q]]
            /\ \A q \in Proc \ {n} : req'[q] = req[q]
            /\ req'[n] = IF n \in Q THEN "none" ELSE req[n]
  BY ToDeleteQEffect DEF Lifecycle
<1>2. LifeOK'
  BY <1>1 DEF Lifecycle, LifeOK, TypeOK
<1>3. StaysDying
  BY <1>1 DEF StaysDying, TypeOK
<1> QED BY <1>1, <1>2, <1>3

(* The request of a leaf that can be deleted is not dead.                  *)
LEMMA LeafNotDead ==
  ASSUME Lifecycle, NEW q \in Leaf, CanDelete(q)
  PROVE  q \in Proc /\ req[q] # "dead" /\ life[q] # "unborn"
  BY DEF Lifecycle, LifeOK, CanDelete, Leaf

(* A new request for a process that was not there.                         *)
LEMMA NewRequestLife ==
  ASSUME TypeOK, Lifecycle, NEW q \in Proc, NEW l, NEW ph \in {"load", "fast", "dead"},
         NewRequest(q, l, ph), life[q] = "unborn", UNCHANGED <<init, inLayer>>,
         \A p \in Proc : p # q => life'[p] = life[p], life'[q] # "unborn",
         doing \subseteq doing', q \in Leaf /\ ph = "dead" => q \in doing'
  PROVE  /\ LifeOK' /\ StaysDying
         /\ \A p \in Proc : life[p] # "unborn" => req'[p] = req[p] /\ life'[p] # "unborn"
<1>1. req' = [req EXCEPT ![q] = ph]
  BY DEF NewRequest
<1>2. LifeOK'
  BY <1>1 DEF Lifecycle, LifeOK, TypeOK
<1> QED BY <1>1, <1>2 DEF StaysDying, TypeOK

LEMMA ManagementLife ==
  ASSUME TypeOK, Lifecycle, Management
  PROVE  LifeStep
<1> USE FrameworkAssumption
        DEF InManage, PassDone, frameVars, layerVars, deleteVars, nodeReqVars
<1>1. CursorOK'
  BY DEF CursorOK, Management, NodeReqDelete, NodeReqDeleted, NodeReqEnds, NodeReqCreate,
         OverlapCreate, OverlapDelete
<1>2. ASSUME NEW r \in NodeReq, NodeReqDelete(r) PROVE LifeStep
  <2> DEFINE n == nrNode[r]
  <2>1. n \in Proc /\ req[n] = "none" /\ life[n] # "unborn"
    BY <1>2 DEF NodeReqDelete, Lifecycle, VictimOK
  <2>2. PICK R \in Refusals(n) : ToDeleteQ(n, R, req[n])
    BY <1>2 DEF NodeReqDelete
  <2>3. UNCHANGED <<life, doing>>
    BY <1>2 DEF NodeReqDelete
  <2>4. /\ LifeOK' /\ StaysDying
        /\ \A q \in Proc : req[q] = "none" => req'[q] = "none"
    BY <2>1, <2>2, <2>3, DeleteLife
  <2>5. \A x \in NodeReq : nrPhase'[x] = "delete" => nrPhase[x] = "delete" /\ nrNode'[x] = nrNode[x]
    BY <1>2 DEF NodeReqDelete, TypeOK
  <2>6. VictimOK'
    BY <2>3, <2>4, <2>5 DEF Lifecycle, VictimOK
  <2> QED BY <1>1, <2>4, <2>6 DEF LifeStep, Lifecycle
<1>3. ASSUME NEW r \in NodeReq, NodeReqDeleted(r) \/ NodeReqEnds(r) PROVE LifeStep
  <2>1. UNCHANGED <<req, init, inLayer, life, doing>>
    BY <1>3 DEF NodeReqDeleted, NodeReqEnds
  <2>2. \A x \in NodeReq : nrPhase'[x] = "delete" => nrPhase[x] = "delete" /\ nrNode'[x] = nrNode[x]
    BY <1>3 DEF NodeReqDeleted, NodeReqEnds, TypeOK
  <2> QED BY <1>1, <2>1, <2>2 DEF LifeStep, Lifecycle, LifeOK, VictimOK, StaysDying
<1>4. ASSUME NEW r \in NodeReq, NEW n \in Node, NodeReqCreate(r, n) PROVE LifeStep
  <2>1. /\ LifeOK' /\ StaysDying
        /\ \A p \in Proc : life[p] # "unborn" => req'[p] = req[p] /\ life'[p] # "unborn"
    BY <1>4, NewRequestLife DEF NodeReqCreate, TypeOK
  <2>2. \A x \in NodeReq : nrPhase'[x] = "delete" => nrPhase[x] = "delete" /\ nrNode'[x] = nrNode[x]
    BY <1>4 DEF NodeReqCreate, TypeOK
  <2>3. VictimOK'
    BY <2>1, <2>2 DEF Lifecycle, VictimOK
  <2> QED BY <1>1, <2>1, <2>3 DEF LifeStep, Lifecycle
<1>5. ASSUME NEW q \in Proc, OverlapCreate(q) PROVE LifeStep
  <2>1. /\ LifeOK' /\ StaysDying
        /\ \A p \in Proc : life[p] # "unborn" => req'[p] = req[p] /\ life'[p] # "unborn"
    BY <1>5, NewRequestLife DEF OverlapCreate, TypeOK
  <2>2. VictimOK'
    BY <1>5, <2>1 DEF OverlapCreate, Lifecycle, VictimOK
  <2> QED BY <1>1, <2>1, <2>2 DEF LifeStep, Lifecycle
<1>6. ASSUME NEW q \in Proc, OverlapDelete(q) PROVE LifeStep
  <2>1. q \in Leaf /\ CanDelete(q) /\ ToDeleteQ(q, {}, req[q]) /\ UNCHANGED <<life, doing>>
    BY <1>6 DEF OverlapDelete
  <2>2. req[q] # "dead" /\ life[q] # "unborn"
    BY <2>1, LeafNotDead
  <2>3. /\ LifeOK' /\ StaysDying
        /\ \A p \in Proc : req[p] = "none" => req'[p] = "none"
    BY <2>1, <2>2, DeleteLife
  <2>4. VictimOK'
    BY <1>6, <2>3 DEF OverlapDelete, Lifecycle, VictimOK
  <2> QED BY <1>1, <2>3, <2>4 DEF LifeStep, Lifecycle
<1> QED BY <1>2, <1>3, <1>4, <1>5, <1>6 DEF Management

LEMMA CallLife ==
  ASSUME TypeOK, Lifecycle, Call
  PROVE  LifeStep
<1> USE FrameworkAssumption
        DEF InMethod, currentVars, requestVars, layerVars, deleteVars, nodeReqVars
<1>1. ASSUME NEW q \in Proc, CallCreate(q) PROVE LifeStep
  <2>1. /\ LifeOK' /\ StaysDying
        /\ \A p \in Proc : life[p] # "unborn" => req'[p] = req[p] /\ life'[p] # "unborn"
    BY <1>1, NewRequestLife DEF CallCreate, TypeOK
  <2>2. CursorOK' /\ VictimOK'
    BY <1>1, <2>1 DEF CallCreate, Lifecycle, LifeOK, CursorOK, VictimOK, TypeOK, Maybe
  <2> QED BY <2>1, <2>2 DEF LifeStep, Lifecycle
<1>2. ASSUME NEW q \in Proc, NEW ok \in BOOLEAN, NEW stale \in BOOLEAN,
             CallFastCreate(q, ok, stale)
      PROVE  LifeStep
  <2>1. /\ LifeOK' /\ StaysDying
        /\ \A p \in Proc : life[p] # "unborn" => req'[p] = req[p] /\ life'[p] # "unborn"
    <3> DEFINE ph == IF ok THEN "fast" ELSE "dead"
    <3>1. ph \in {"load", "fast", "dead"} /\ NewRequest(q, curLayer, ph)
      BY <1>2 DEF CallFastCreate
    <3>2. /\ life[q] = "unborn" /\ UNCHANGED <<init, inLayer>>
          /\ life' = [life EXCEPT ![q] = "alive"]
          /\ doing \subseteq doing' /\ (ph = "dead" => q \in doing')
      BY <1>2 DEF CallFastCreate
    <3> HIDE DEF ph
    <3> QED BY <3>1, <3>2, NewRequestLife DEF TypeOK
  <2>2. doing \subseteq doing' /\ UNCHANGED <<phase, cursor, nrPhase, nrNode>>
    BY <1>2 DEF CallFastCreate
  <2>3. CursorOK' /\ VictimOK'
    BY <2>1, <2>2 DEF Lifecycle, LifeOK, CursorOK, VictimOK, TypeOK, Maybe
  <2> QED BY <2>1, <2>3 DEF LifeStep, Lifecycle
<1>3. ASSUME NEW q \in Proc, CallFastCreateFails(q) PROVE LifeStep
  <2>1. /\ life[q] = "unborn" /\ life' = [life EXCEPT ![q] = "alive"]
        /\ init' = [init EXCEPT ![q] = 3]
        /\ UNCHANGED <<req, inLayer, doing, phase, cursor, nrPhase, nrNode>>
    BY <1>3 DEF CallFastCreateFails
  <2>2. LifeOK' /\ StaysDying
    BY <2>1 DEF Lifecycle, LifeOK, TypeOK, StaysDying
  <2>3. CursorOK' /\ VictimOK'
    BY <2>1 DEF Lifecycle, CursorOK, VictimOK, TypeOK
  <2> QED BY <2>2, <2>3 DEF LifeStep, Lifecycle
<1>4. ASSUME NEW q \in Proc, CallDelete(q) PROVE LifeStep
  <2>1. q \in Leaf /\ CanDelete(q) /\ ToDeleteQ(q, {}, req[q]) /\ UNCHANGED <<life, doing>>
    BY <1>4 DEF CallDelete
  <2>2. req[q] # "dead" /\ life[q] # "unborn"
    BY <2>1, LeafNotDead
  <2>3. /\ LifeOK' /\ StaysDying
        /\ \A p \in Proc : req[p] = "none" => req'[p] = "none"
        /\ \A p \in Proc \ {q} : req'[p] = req[p]
    BY <2>1, <2>2, DeleteLife
  <2>4. UNCHANGED <<phase, cursor, nrPhase, nrNode>> /\ q \notin doing
    BY <1>4 DEF CallDelete, CanDelete
  <2>5. CursorOK' /\ VictimOK'
    BY <2>1, <2>3, <2>4 DEF Lifecycle, CursorOK, VictimOK, TypeOK, Maybe
  <2> QED BY <2>3, <2>5 DEF LifeStep, Lifecycle
<1>5. ASSUME NEW q \in Proc, NEW l \in Node, CallChangeLayer(q, l) PROVE LifeStep
  BY <1>5 DEF CallChangeLayer, LifeStep, Lifecycle, LifeOK, CursorOK, VictimOK, StaysDying
<1>6. ASSUME NEW r \in NodeReq, CallNodeCreate(r) PROVE LifeStep
  <2>1. UNCHANGED <<req, init, inLayer, life, doing, phase, cursor>>
    BY <1>6 DEF CallNodeCreate
  <2>2. \A x \in NodeReq : nrPhase'[x] = "delete" => nrPhase[x] = "delete" /\ nrNode'[x] = nrNode[x]
    BY <1>6 DEF CallNodeCreate, NewNodeReq, TypeOK
  <2> QED BY <2>1, <2>2 DEF LifeStep, Lifecycle, LifeOK, CursorOK, VictimOK, StaysDying
<1>7. ASSUME NEW r \in NodeReq, NEW n \in Node, NEW k \in {"delete", "change"},
             CallNodeDelete(r, n, k)
      PROVE  LifeStep
  <2>1. UNCHANGED <<req, init, inLayer, life, doing, phase, cursor>> /\ n \in inLayer
    BY <1>7 DEF CallNodeDelete
  <2>2. nrNode' = [nrNode EXCEPT ![r] = n]
    BY <1>7 DEF CallNodeDelete, NewNodeReq
  <2>3. \A x \in NodeReq \ {r} : nrPhase'[x] = nrPhase[x]
    BY <1>7 DEF CallNodeDelete, NewNodeReq, TypeOK
  <2>4. req[n] = "none" /\ life[n] # "unborn"
    BY <2>1 DEF Lifecycle, LifeOK
  <2>5. VictimOK'
    BY <2>1, <2>2, <2>3, <2>4 DEF Lifecycle, VictimOK, TypeOK
  <2> QED BY <2>1, <2>5 DEF LifeStep, Lifecycle, LifeOK, CursorOK, StaysDying
<1> QED BY <1>1, <1>2, <1>3, <1>4, <1>5, <1>6, <1>7 DEF Call

LEMMA LifecycleStep == TypeOK /\ Lifecycle /\ [Next]_vars => LifeStep
<1> SUFFICES ASSUME TypeOK, Lifecycle, [Next]_vars PROVE LifeStep
  OBVIOUS
<1>1. CASE Next
  BY <1>1, FrameStepLife, ManagementLife, CallLife DEF Next
<1>2. CASE UNCHANGED vars
  BY <1>2 DEF vars, frameVars, requestVars, layerVars, nodeReqVars, LifeStep, Lifecycle, LifeOK,
              CursorOK, VictimOK, StaysDying
<1> QED BY <1>1, <1>2

LEMMA InitLifecycle == Init => Lifecycle
  BY DEF Init, Lifecycle, LifeOK, CursorOK, VictimOK

(* A process in the delete queue does not come back to life: no request of *)
(* it is left to complete, and a node that takes its layer into the line   *)
(* queue finds no dying process there.                                     *)
THEOREM DyingStaysDying == Spec => DeletionIsFinal
<1>1. Lifecycle /\ LifeStep => \A p \in Proc : init[p] = 3 => init'[p] = 3 /\ p \notin inLayer'
  BY DEF LifeStep, Lifecycle, LifeOK, StaysDying
<1>2. TypeOK /\ Lifecycle /\ [Next]_vars =>
          [\A p \in Proc : init[p] = 3 => init'[p] = 3 /\ p \notin inLayer']_vars
  BY <1>1, LifecycleStep
<1>3. TypeOK /\ Lifecycle /\ [Next]_vars => Lifecycle'
  BY LifecycleStep DEF LifeStep
<1> QED BY <1>2, <1>3, InitLifecycle, TypeCorrect, PTL DEF Spec, DeletionIsFinal

-----------------------------------------------------------------------------
(* The iterators                                                           *)

(* What is still to be visited is in the queue that is being iterated, the *)
(* saved next entry is one of them, and the entry whose method runs is     *)
(* not; in the create pass the saved entry is older than the method.       *)
Position ==
    /\ next = None => todo = {}
    /\ next # None => next \in todo
    /\ cursor # None => cursor \notin todo
    /\ cursor = None => made = {}
    /\ phase = "create" => next \notin made
    /\ phase \in {"priority", "moved"} => next = None
InQueue ==
    /\ phase = "delete"  => todo \subseteq inDel
    /\ phase = "create"  => \A p \in todo : req[p] # "none"
    /\ phase = "execute" => todo \subseteq inLine
QueueDying ==
    /\ \A p \in inDel : init[p] = 3
    /\ phase = "delete" /\ cursor # None => init[cursor] = 3
Iteration == Position /\ InQueue /\ QueueDying

(* How the position moves.                                                 *)
LEMMA VisitFacts ==
  ASSUME Position, todo \subseteq Proc, NEW p \in Proc, NEW S \in SUBSET Proc,
         cursor = None, AtomicVisit(p, S), phase \notin {"priority", "moved"}
  PROVE  Position' /\ todo' \subseteq (todo \ {p}) \union S /\ phase' = phase /\ cursor' = None
  BY FrameworkAssumption DEF Position, AtomicVisit, Advance, FirstOf

LEMMA BeginFacts ==
  ASSUME Position, todo \subseteq Proc, NEW p \in Proc,
         MethodBegins(p), phase \notin {"priority", "moved"}
  PROVE  Position' /\ todo' \subseteq todo \ {p} /\ phase' = phase /\ cursor' = p
  BY FrameworkAssumption DEF Position, MethodBegins, Advance, FirstOf

LEMMA EndFacts ==
  ASSUME Position, NEW S, MethodEnds(S), phase \notin {"priority", "moved"}
  PROVE  /\ Position' /\ todo' \subseteq todo \union S /\ phase' = phase /\ cursor' = None
         /\ next = None => todo' = {}
  BY DEF Position, MethodEnds, Appended

LEMMA DeletePassIter ==
  ASSUME TypeOK, Iteration, NEW p \in Proc, DeletePass(p)
  PROVE  Iteration'
<1> USE FrameworkAssumption DEF Visiting
<1>1. Position /\ todo \subseteq Proc
  BY DEF Iteration, TypeOK
<1>2. UNCHANGED init
  BY DEF DeletePass, DeleteTimer, DeleteWaits, DeleteBegins, DeleteSucceeds, DeleteRetries
<1>3. CASE DeleteTimer(p)
  <2>1. Position' /\ todo' \subseteq todo /\ phase' = "delete" /\ cursor' = None
    BY <1>1, <1>3, VisitFacts DEF DeleteTimer
  <2> QED BY <1>2, <1>3, <2>1 DEF DeleteTimer, Iteration, InQueue, QueueDying
<1>4. CASE DeleteWaits(p)
  <2>1. Position' /\ todo' \subseteq (todo \ {p}) \union {p} /\ phase' = "delete" /\ cursor' = None
    BY <1>1, <1>4, VisitFacts DEF DeleteWaits
  <2>2. p \in todo
    BY <1>1, <1>4 DEF DeleteWaits, Position
  <2> QED BY <1>2, <1>4, <2>1, <2>2 DEF DeleteWaits, Iteration, InQueue, QueueDying
<1>5. CASE DeleteBegins(p)
  <2>1. Position' /\ todo' \subseteq todo \ {p} /\ phase' = "delete" /\ cursor' = p
    BY <1>1, <1>5, BeginFacts DEF DeleteBegins
  <2>2. p \in todo
    BY <1>1, <1>5 DEF DeleteBegins, Position
  <2> QED BY <1>2, <1>5, <2>1, <2>2 DEF DeleteBegins, Iteration, InQueue, QueueDying
<1>6. CASE DeleteSucceeds(p)
  <2>1. Position' /\ todo' \subseteq todo /\ phase' = "delete" /\ cursor' = None
    BY <1>1, <1>6, EndFacts DEF DeleteSucceeds
  <2> QED BY <1>2, <1>6, <2>1 DEF DeleteSucceeds, Iteration, InQueue, QueueDying
<1>7. CASE DeleteRetries(p)
  <2>1. Position' /\ todo' \subseteq todo \union {p} /\ phase' = "delete" /\ cursor' = None
    BY <1>1, <1>7, EndFacts DEF DeleteRetries
  <2> QED BY <1>2, <1>7, <2>1 DEF DeleteRetries, Iteration, InQueue, QueueDying
<1> QED BY <1>3, <1>4, <1>5, <1>6, <1>7 DEF DeletePass

(* The create pass removes the request it visits and no other one.         *)
LEMMA CreatePassIter ==
  ASSUME TypeOK, Lifecycle, Iteration, NEW p \in Proc, CreatePass(p), LifeStep
  PROVE  Iteration'
<1> USE FrameworkAssumption DEF Visiting
<1>1. Position /\ todo \subseteq Proc
  BY DEF Iteration, TypeOK
<1>2. phase = "create"
  BY DEF CreatePass, AllocFails, CreateBegins, CreateLoading, CreateFails, CreateSucceeds,
         CreateCompletes, FastCompletes, FastFails
<1>3. Position' /\ phase' = "create" /\ todo' \subseteq todo \ {p}
  <2>1. CASE AllocFails(p) \/ CreateCompletes(p) \/ FastCompletes(p) \/ FastFails(p)
    BY <1>1, <1>2, <2>1, VisitFacts DEF AllocFails, CreateCompletes, FastCompletes, FastFails
  <2>2. CASE CreateBegins(p)
    BY <1>1, <1>2, <2>2, BeginFacts DEF CreateBegins
  <2>3. CASE CreateLoading(p) \/ CreateFails(p) \/ CreateSucceeds(p)
    <3>1. cursor = p /\ MethodEnds({})
      BY <2>3 DEF CreateLoading, CreateFails, CreateSucceeds
    <3>2. p \notin todo
      BY <1>1, <3>1 DEF Position
    <3> QED BY <1>1, <1>2, <3>1, <3>2, EndFacts
  <2> QED BY <2>1, <2>2, <2>3 DEF CreatePass
<1>4. /\ \A q \in Proc \ {p} : req'[q] = req[q]
      /\ \A q \in inDel' : q \in inDel \/ init'[q] = 3
  <2>1. CASE AllocFails(p) \/ CreateBegins(p) \/ CreateLoading(p)
    BY <2>1 DEF AllocFails, CreateBegins, CreateLoading, DeleteRequest, deleteVars, TypeOK
  <2>2. CASE CreateFails(p) \/ FastFails(p)
    <3>1. CancelFailed(p) /\ req[p] \in {"sub", "fast"}
      BY <2>2 DEF CreateFails, FastFails, Lifecycle, CursorOK
    <3>2. CASE IsCreatingFromUnder(p)
      BY <3>1, <3>2 DEF CancelFailed, deleteVars, TypeOK
    <3>3. CASE ~IsCreatingFromUnder(p)
      <4>1. PICK R \in Refusals(p) : ToDeleteQ(p, R, "dead")
        BY <3>1, <3>3 DEF CancelFailed
      <4>2. PICK Q \in SUBSET (inLayer \union {p}) :
                /\ inDel' = inDel \union Q
                /\ init' = [q \in Proc |-> IF q \in Q THEN 3 ELSE init[q]]
                /\ \A q \in Proc \ {p} : req'[q] = req[q]
        BY <3>1, <4>1, ToDeleteQEffect DEF Lifecycle
      <4> QED BY <4>2 DEF TypeOK
    <3> QED BY <3>2, <3>3
  <2>3. CASE CreateSucceeds(p) \/ CreateCompletes(p) \/ FastCompletes(p)
    <3>1. UNCHANGED inDel
      BY <2>3 DEF CreateSucceeds, CreateCompletes, FastCompletes, deleteVars
    <3>2. PICK ph : req' = [req EXCEPT ![p] = ph]
      BY <2>3 DEF CreateSucceeds, CreateCompletes, FastCompletes, CompletionPhases, ToExecuteQ,
                  DeleteRequest
    <3> QED BY <3>1, <3>2 DEF TypeOK
  <2> QED BY <2>1, <2>2, <2>3 DEF CreatePass
<1>5. InQueue'
  BY <1>1, <1>2, <1>3, <1>4 DEF Iteration, InQueue
<1>6. QueueDying'
  BY <1>3, <1>4 DEF Iteration, QueueDying, LifeStep, StaysDying, TypeOK
<1> QED BY <1>3, <1>5, <1>6 DEF Iteration

LEMMA FrameStepIter ==
  ASSUME TypeOK, Lifecycle, Iteration, FrameStep, LifeStep
  PROVE  Iteration'
<1> USE FrameworkAssumption DEF requestVars, deleteVars
<1>1. Position /\ todo \subseteq Proc
  BY DEF Iteration, TypeOK
<1>2. ASSUME NEW ph \in {"delete", "create", "execute"}, NEW S \in SUBSET Proc,
             StartPass(ph, S), cursor = None
      PROVE  Position'
  BY <1>1, <1>2 DEF StartPass, FirstOf, Position
<1>3. CASE StartDelete
  <2>1. Position'
    BY <1>2, <1>3 DEF StartDelete, PassDone, TypeOK
  <2> QED BY <1>3, <2>1 DEF StartDelete, StartPass, PassDone, Iteration, InQueue, QueueDying
<1>4. CASE SkipDelete
  BY <1>4 DEF SkipDelete, PassDone, Iteration, Position, InQueue, QueueDying
<1>5. CASE StartCreate
  <2>1. cursor = None
    BY <1>5 DEF StartCreate, AtPriority, PassDone, Lifecycle, CursorOK
  <2>2. Position'
    BY <1>2, <1>5, <2>1 DEF StartCreate
  <2> QED BY <1>5, <2>1, <2>2 DEF StartCreate, StartPass, Iteration, InQueue, QueueDying
<1>6. CASE StartExecute
  <2>1. Position'
    BY <1>2, <1>6 DEF StartExecute, PassDone, TypeOK
  <2> QED BY <1>6, <2>1 DEF StartExecute, StartPass, Iteration, InQueue, QueueDying
<1>7. CASE ExecuteEnds
  <2>1. Position' /\ todo' \subseteq todo /\ phase' = "execute" /\ cursor' = None
    BY <1>1, <1>7, EndFacts DEF ExecuteEnds
  <2> QED BY <1>7, <2>1 DEF ExecuteEnds, Iteration, InQueue, QueueDying
<1>8. ASSUME NEW p \in Proc, PriorityMove(p) PROVE Iteration'
  BY <1>8 DEF PriorityMove, AtPriority, PassDone, Iteration, Position, InQueue, QueueDying
<1>9. ASSUME NEW p \in Proc, ExecuteSkips(p) PROVE Iteration'
  <2>1. Position' /\ todo' \subseteq todo /\ phase' = "execute" /\ cursor' = None
    BY <1>1, <1>9, VisitFacts DEF ExecuteSkips, Visiting
  <2> QED BY <1>9, <2>1 DEF ExecuteSkips, Visiting, Iteration, InQueue, QueueDying
<1>10. ASSUME NEW p \in Proc, ExecuteBegins(p) PROVE Iteration'
  <2>1. Position' /\ todo' \subseteq todo /\ phase' = "execute" /\ cursor' = p
    BY <1>1, <1>10, BeginFacts DEF ExecuteBegins, Visiting
  <2> QED BY <1>10, <2>1 DEF ExecuteBegins, Visiting, Iteration, InQueue, QueueDying
<1> QED
  BY <1>3, <1>4, <1>5, <1>6, <1>7, <1>8, <1>9, <1>10, DeletePassIter, CreatePassIter
  DEF FrameStep, ExecutePass

(* Between the passes nothing is being visited.                            *)
LEMMA ManagementIter ==
  ASSUME TypeOK, Lifecycle, Iteration, Management, LifeStep
  PROVE  Iteration'
<1> USE FrameworkAssumption
<1>1. InManage
  BY DEF Management, NodeReqDelete, NodeReqDeleted, NodeReqEnds, NodeReqCreate,
         OverlapCreate, OverlapDelete
<1>2. \A q \in inDel' : q \in inDel \/ init'[q] = 3
  <2>1. ASSUME NEW n, NEW R, ToDeleteQ(n, R, req[n]) PROVE <1>2
    <3>1. Queued(n, R) \subseteq Proc
      BY DEF Queued, Under
    <3> QED BY <2>1, <3>1 DEF ToDeleteQ
  <2>2. CASE \E r \in NodeReq : NodeReqDelete(r)
    BY <2>1, <2>2 DEF NodeReqDelete
  <2>3. CASE \E q \in Proc : OverlapDelete(q)
    BY <2>1, <2>3 DEF OverlapDelete
  <2>4. CASE UNCHANGED inDel
    BY <2>4
  <2> QED
    BY <2>2, <2>3, <2>4
    DEF Management, NodeReqDeleted, NodeReqEnds, NodeReqCreate, OverlapCreate, deleteVars
<1>3. Position' /\ InQueue'
  BY <1>1 DEF InManage, PassDone, frameVars, Iteration, Position, InQueue
<1>4. QueueDying'
  BY <1>1, <1>2 DEF InManage, PassDone, frameVars, Iteration, QueueDying, LifeStep, StaysDying,
                    TypeOK
<1> QED BY <1>3, <1>4 DEF Iteration

(* What a method creates joins the create pass behind the saved entry, what*)
(* it deletes leaves it: the saved entry is neither.                       *)
LEMMA CallIter ==
  ASSUME TypeOK, Lifecycle, Iteration, Call, LifeStep
  PROVE  Iteration'
<1> USE FrameworkAssumption DEF InMethod
<1>1. /\ UNCHANGED <<phase, next, cursor, inLine>>
      /\ phase \in {"delete", "create", "execute"} /\ cursor # None /\ cursor \in Proc
  BY ZenonT(60) DEF Call, CallCreate, CallDelete, CallFastCreateFails, CallFastCreate, CallChangeLayer,
         CallNodeCreate, CallNodeDelete, TypeOK, Maybe
<1>2. ASSUME \A q \in inDel' : q \in inDel \/ init'[q] = 3 PROVE QueueDying'
  BY <1>1, <1>2 DEF Iteration, QueueDying, LifeStep, StaysDying, TypeOK
<1>3. ASSUME NEW q \in Proc, life[q] = "unborn", phase # "delete", Joins({q}),
             req'[q] # "none", \A p \in Proc \ {q} : req'[p] = req[p],
             made' \subseteq made \union {q}
      PROVE  Position' /\ InQueue'
  <2>1. phase = "create" => q # cursor /\ q # next
    BY <1>1, <1>3 DEF Lifecycle, LifeOK, CursorOK, Iteration, Position, InQueue
  <2>2. CASE phase = "create"
    <3>1. todo' = IF next = None THEN todo ELSE todo \union {q}
      BY <1>3, <2>2 DEF Joins, Appended
    <3> QED BY <1>1, <1>3, <2>1, <2>2, <3>1 DEF Iteration, Position, InQueue, TypeOK
  <2>3. CASE phase = "execute"
    BY <1>1, <1>3, <2>3 DEF Joins, Iteration, Position, InQueue
  <2> QED BY <1>1, <1>3, <2>2, <2>3
<1>4. ASSUME NEW q \in Proc, CallCreate(q) PROVE Iteration'
  <2>1. Position' /\ InQueue'
    BY <1>3, <1>4 DEF CallCreate, NewRequest, TypeOK
  <2> QED BY <1>2, <1>4, <2>1 DEF CallCreate, deleteVars, Iteration
<1>5. ASSUME NEW q \in Proc, NEW ok \in BOOLEAN, NEW stale \in BOOLEAN,
             CallFastCreate(q, ok, stale)
      PROVE  Iteration'
  <2>1. /\ req'[q] # "none" /\ \A p \in Proc \ {q} : req'[p] = req[p]
        /\ life[q] = "unborn" /\ Joins({q}) /\ made' = made \union {q} /\ phase # "delete"
    BY <1>5 DEF CallFastCreate, NewRequest, TypeOK
  <2>2. Position' /\ InQueue'
    BY <1>3, <2>1
  <2> QED BY <1>2, <1>5, <2>2 DEF CallFastCreate, deleteVars, Iteration
<1>6. ASSUME NEW q \in Proc, CallFastCreateFails(q) PROVE Iteration'
  <2>1. QueueDying'
    BY <1>2, <1>6 DEF CallFastCreateFails, TypeOK
  <2> QED BY <1>1, <1>6, <2>1 DEF CallFastCreateFails, Iteration, Position, InQueue
<1>7. ASSUME NEW q \in Proc, CallDelete(q) PROVE Iteration'
  <2>1. q \in Leaf /\ CanDelete(q) /\ AtHand(q) /\ ToDeleteQ(q, {}, req[q]) /\ made' = made
    BY <1>7 DEF CallDelete
  <2>2. req[q] # "dead"
    BY <2>1, LeafNotDead
  <2>3. PICK Q \in SUBSET (inLayer \union {q}) :
            /\ Q = Queued(q, {})
            /\ inDel' = inDel \union Q
            /\ init' = [p \in Proc |-> IF p \in Q THEN 3 ELSE init[p]]
            /\ \A p \in Proc \ {q} : req'[p] = req[p]
    BY <2>1, <2>2, ToDeleteQEffect DEF Lifecycle
  <2>4. q \in Q
    BY <2>3, UnderNode DEF Queued, TypeOK
  <2>5. QueueDying'
    BY <1>2, <2>3 DEF TypeOK
  <2>6. CASE phase = "delete"
    <3>1. todo' = IF next = None THEN todo ELSE todo \union {q}
      BY <1>7, <2>6 DEF CallDelete, Appended
    <3>2. q # cursor
      BY <2>1, <2>6, <1>1 DEF CanDelete, Iteration, QueueDying
    <3> QED BY <1>1, <2>1, <2>3, <2>4, <2>5, <2>6, <3>1, <3>2
            DEF Iteration, Position, InQueue
  <2>7. CASE phase = "create"
    <3>1. todo' = todo \ {q}
      BY <1>7, <2>7 DEF CallDelete
    <3>2. q # next
      BY <2>1, <2>7 DEF AtHand, Iteration, Position, InQueue, Lifecycle, LifeOK
    <3> QED BY <1>1, <2>1, <2>3, <2>5, <2>7, <3>1, <3>2
            DEF Iteration, Position, InQueue, TypeOK
  <2>8. CASE phase = "execute"
    <3>1. todo' = todo
      BY <1>7, <2>8 DEF CallDelete
    <3> QED BY <1>1, <2>1, <2>5, <2>8, <3>1 DEF Iteration, Position, InQueue
  <2> QED BY <1>1, <2>6, <2>7, <2>8
<1>8. CASE UNCHANGED <<todo, made, req, inDel>>
  <2>1. Position' /\ InQueue'
    BY <1>1, <1>8 DEF Iteration, Position, InQueue
  <2> QED BY <1>2, <1>8, <2>1 DEF Iteration
<1> QED
  BY <1>4, <1>5, <1>6, <1>7, <1>8
  DEF Call, CallChangeLayer, CallNodeCreate, CallNodeDelete, requestVars, deleteVars

LEMMA IterationStep == TypeOK /\ Lifecycle /\ Iteration /\ [Next]_vars => Iteration'
<1> SUFFICES ASSUME TypeOK, Lifecycle, Iteration, [Next]_vars PROVE Iteration'
  OBVIOUS
<1>1. CASE Next
  BY <1>1, LifecycleStep, FrameStepIter, ManagementIter, CallIter DEF Next
<1>2. CASE UNCHANGED vars
  BY <1>2 DEF vars, frameVars, requestVars, deleteVars, Iteration, Position, InQueue, QueueDying
<1> QED BY <1>1, <1>2

LEMMA InitIteration == Init => Iteration
  BY DEF Init, Iteration, Position, InQueue, QueueDying

(* cNdIt_Method never follows a dangling pointer: the entry it has saved   *)
(* while a method runs is in the queue when the method returns.            *)
THEOREM IteratorsSafe == Spec => []IteratorSafe
<1>1. TypeOK /\ Iteration => IteratorSafe
  BY FrameworkAssumption DEF Iteration, Position, InQueue, IteratorSafe, TypeOK
<1>2. TypeOK /\ Lifecycle /\ [Next]_vars => Lifecycle'
  BY LifecycleStep DEF LifeStep
<1> QED
  BY <1>1, <1>2, IterationStep, InitLifecycle, InitIteration, TypeCorrect, PTL DEF Spec

-----------------------------------------------------------------------------
(* The tree: where processes are, and what keeps it so                     *)

(* A layer that things may be in: the root's, or one of a node that is in  *)
(* memory and not dying.                                                   *)
LiveLayer(l) == l = Root \/ (l \in Node /\ life[l] = "alive" /\ init[l] # 3)
Placed(p) == life[p] = "alive" /\ init[p] # 3

(* What the records of a process say of one another.                       *)
Records ==
    \A p \in Proc :
        /\ life[p] = "requested" <=> req[p] = "load"
        /\ req[p] \notin {"none", "load"} => life[p] = "alive"
        /\ p \in inLayer => life[p] = "alive"
        /\ Placed(p) => p \in inLayer \/ req[p] # "none"
        /\ Placed(p) /\ (p \in Node \/ req[p] # "none") => layerOf[p] = reqLayer[p]
        /\ init[p] = 3 => life[p] \in {"alive", "gone"}
        /\ target[p] # None => p \in Leaf /\ Placed(p)
        /\ delLayer[p] # None => life[p] = "alive" /\ init[p] = 3

(* A move is pending for a leaf that executes, to a node that does.        *)
Moves ==
    \A p \in Proc : prioTo[p] # None =>
        p \in Leaf /\ init[p] = 2 /\ prioTo[p] \in Node /\ init[prioTo[p]] = 2

Lines == LinedTogether /\ \A p \in inLine : init[p] >= 2

(* Everything that is not dying is in a layer that is not dying either, and*)
(* a dying process was in one that is still there.                         *)
LayersOf ==
    \A p \in Proc :
        /\ Placed(p) => LiveLayer(layerOf[p]) /\ layerOf[p] # p
        /\ req[p] # "none" => LiveLayer(reqLayer[p]) /\ reqLayer[p] # p
Targets ==
    \A p \in Proc : req[p] # "none" /\ target[p] # None => target[p] \in Above(reqLayer[p])
DyingIn ==
    \A p \in Proc : life[p] = "alive" /\ init[p] = 3 => delLayer[p] \in layers /\ delLayer[p] # p
Requested == \A r \in NodeReq : nrPhase[r] # "none" => LiveLayer(nrLayer[r])

Layers == layers = {Root} \union {n \in Node : life[n] = "alive"}
Current ==
    /\ curLayer \in layers
    /\ phase \in {"create", "execute"} /\ cursor # None => LiveLayer(curLayer)
    /\ IF phase = "execute" /\ cursor # None THEN savedLayer \in layers ELSE savedLayer = None
    /\ phase = "delete" /\ cursor # None =>
          /\ life[cursor] = "alive" /\ cursor \notin inDel
          /\ curLayer = delLayer[cursor] /\ \A q \in Proc : delLayer[q] # cursor
    /\ \A p \in inDel : life[p] = "alive"

(* The node that a node request waits to delete is in the layer the request*)
(* is counted in, and no other request waits for it.                       *)
Victims ==
    \A r \in NodeReq : nrPhase[r] = "delete" =>
        /\ nrNode[r] \in Node \intersect inLayer /\ nrLayer[r] = layerOf[nrNode[r]]
        /\ \A s \in NodeReq : nrPhase[s] = "delete" /\ nrNode[s] = nrNode[r] => s = r
(* A leaf whose create method failed is dying, or its request was left     *)
(* behind by fpcCtRq_Cancel, or that request has completed since.          *)
CancelledOrGone(p) == req[p] \in {"dead", "none"}
FailedDying ==
    \A p \in failed \intersect Leaf : init[p] = 3 \/ (life[p] # "unborn" /\ CancelledOrGone(p))

CreateExact ==
    \A l \in Layer : createCount[l] = Cardinality(Creations(l)) + Cardinality(NodeRequests(l))
DeleteExact == \A l \in Layer : deleteCount[l] = Cardinality(Deletions(l))

-----------------------------------------------------------------------------
(* More on what a deletion reaches                                         *)

LEMMA UnderClosed ==
  ASSUME NEW n \in Proc, inLayer \subseteq Proc,
         NEW q \in inLayer, layerOf[q] \in Under(n)
  PROVE  q \in Under(n)
<1> SUFFICES ASSUME NEW S \in SUBSET Proc, n \in S, ClosedUnder(S) PROVE q \in S
  BY DEF Under
<1> QED BY DEF Under, ClosedUnder

LEMMA UnderTransitive ==
  ASSUME NEW n \in Proc, NEW m \in Under(n)
  PROVE  m \in Proc /\ Under(m) \subseteq Under(n)
<1> SUFFICES ASSUME NEW q \in Under(m), NEW S \in SUBSET Proc, n \in S, ClosedUnder(S)
             PROVE  q \in S
  BY DEF Under
<1>1. m \in S
  BY DEF Under
<1> QED BY <1>1 DEF Under

LEMMA UnderParent ==
  ASSUME NEW n \in Proc, inLayer \subseteq Proc, NEW q \in Under(n), q # n
  PROVE  q \in inLayer /\ layerOf[q] \in Under(n)
<1> DEFINE S == {n} \union {x \in Under(n) \intersect inLayer : layerOf[x] \in Under(n)}
<1>1. S \in SUBSET Proc /\ n \in S /\ S \subseteq Under(n)
  BY UnderNode
<1>2. ClosedUnder(S)
  BY <1>1, UnderClosed DEF ClosedUnder
<1>3. q \in S
  BY <1>1, <1>2 DEF Under
<1> QED BY <1>3

(* What a deletion queues is closed downwards, though parts of it refuse.  *)
LEMMA QueuedClosed ==
  ASSUME NEW n \in Proc, inLayer \subseteq Proc, NEW R,
         NEW q \in inLayer, layerOf[q] \in Queued(n, R)
  PROVE  q \in Queued(n, R)
<1> DEFINE m == layerOf[q]
<1>1. m \in Under(n) /\ Under(m) \intersect R = {}
  BY DEF Queued
<1>2. m \in Proc /\ m \in Under(m)
  BY <1>1, UnderTransitive, UnderNode
<1>3. q \in Under(n) /\ q \in Under(m)
  BY <1>1, <1>2, UnderClosed
<1>4. Under(q) \subseteq Under(m)
  BY <1>2, <1>3, UnderTransitive
<1> QED BY <1>1, <1>3, <1>4 DEF Queued

-----------------------------------------------------------------------------
(* Counting                                                                *)

LEMMA Finite ==
  /\ \A l : IsFiniteSet(Creations(l)) /\ IsFiniteSet(NodeRequests(l)) /\ IsFiniteSet(Deletions(l))
  /\ \A S \in SUBSET Proc : IsFiniteSet(S)
<1>1. \A S \in SUBSET Proc : IsFiniteSet(S)
  BY FS_Subset, FrameworkAssumption
<1>2. \A S \in SUBSET NodeReq : IsFiniteSet(S)
  BY FS_Subset, FrameworkAssumption
<1>3. ASSUME NEW l
      PROVE  Creations(l) \in SUBSET Proc /\ Deletions(l) \in SUBSET Proc
             /\ NodeRequests(l) \in SUBSET NodeReq
  BY DEF Creations, Deletions, NodeRequests
<1> QED BY <1>1, <1>2, <1>3

(* A count of zero means that there is nothing.                            *)
LEMMA CountZero ==
  ASSUME TypeOK, CreateExact, NEW l \in Layer, createCount[l] = 0
  PROVE  Creations(l) = {} /\ NodeRequests(l) = {}
<1>1. Cardinality(Creations(l)) \in Nat /\ Cardinality(NodeRequests(l)) \in Nat
  BY Finite, FS_CardinalityType
<1>2. Cardinality(Creations(l)) = 0 /\ Cardinality(NodeRequests(l)) = 0
  BY <1>1 DEF CreateExact
<1> QED BY <1>2, Finite, FS_EmptySet

(* The counts move with the sets.                                          *)
LEMMA OneMore ==
  ASSUME NEW S, IsFiniteSet(S), NEW x, x \notin S
  PROVE  Cardinality(S \union {x}) = Cardinality(S) + 1 /\ Cardinality(S) \in Nat
  BY FS_AddElement, FS_CardinalityType

LEMMA OneLess ==
  ASSUME NEW S, IsFiniteSet(S), NEW x \in S
  PROVE  Cardinality(S \ {x}) = Dec(Cardinality(S)) /\ Cardinality(S) \in Nat
         /\ Cardinality(S) > 0
<1>1. Cardinality(S \ {x}) = Cardinality(S) - 1 /\ Cardinality(S \ {x}) \in Nat
      /\ Cardinality(S) \in Nat
  BY FS_RemoveElement, FS_CardinalityType
<1> QED BY <1>1 DEF Dec

LEMMA CreateKept ==
  ASSUME CreateExact, UNCHANGED createCount,
         \A l \in Layer : Creations(l)' = Creations(l) /\ NodeRequests(l)' = NodeRequests(l)
  PROVE  CreateExact'
  BY DEF CreateExact

(* A request is made.                                                      *)
LEMMA CreationAdded ==
  ASSUME TypeOK, CreateExact, NEW q \in Proc, NEW l \in Layer, NEW ph \in {"load", "fast", "dead"},
         NewRequest(q, l, ph), req[q] = "none",
         \A k \in Layer : NodeRequests(k)' = NodeRequests(k)
  PROVE  CreateExact'
<1>1. /\ req' = [req EXCEPT ![q] = ph] /\ reqLayer' = [reqLayer EXCEPT ![q] = l]
      /\ createCount' = [createCount EXCEPT ![l] = createCount[l] + 1]
  BY DEF NewRequest
<1>2. ASSUME NEW k \in Layer
      PROVE  createCount'[k] = Cardinality(Creations(k)') + Cardinality(NodeRequests(k)')
  <2>1. q \notin Creations(k) /\ Creations(k)' = IF k = l THEN Creations(k) \union {q} ELSE Creations(k)
    BY <1>1 DEF Creations, TypeOK
  <2>2. createCount[k] = Cardinality(Creations(k)) + Cardinality(NodeRequests(k))
    BY DEF CreateExact
  <2>3. createCount'[k] = IF k = l THEN createCount[k] + 1 ELSE createCount[k]
    BY <1>1 DEF TypeOK
  <2>4. /\ Cardinality(Creations(k) \union {q}) = Cardinality(Creations(k)) + 1
        /\ Cardinality(Creations(k)) \in Nat
    BY <2>1, Finite, OneMore
  <2>5. Cardinality(NodeRequests(k)) \in Nat /\ NodeRequests(k)' = NodeRequests(k)
    BY Finite, FS_CardinalityType
  <2> QED BY <2>1, <2>2, <2>3, <2>4, <2>5
<1> QED BY <1>2 DEF CreateExact

(* A request goes.                                                         *)
LEMMA CreationDropped ==
  ASSUME TypeOK, CreateExact, NEW p \in Proc, DeleteRequest(p), req[p] # "none",
         reqLayer[p] \in Layer, UNCHANGED reqLayer,
         \A k \in Layer : NodeRequests(k)' = NodeRequests(k)
  PROVE  CreateExact'
<1> DEFINE l == reqLayer[p]
<1>1. /\ req' = [req EXCEPT ![p] = "none"]
      /\ createCount' = [createCount EXCEPT ![l] = Dec(createCount[l])]
  BY DEF DeleteRequest
<1>2. ASSUME NEW k \in Layer
      PROVE  createCount'[k] = Cardinality(Creations(k)') + Cardinality(NodeRequests(k)')
  <2>1. /\ k = l => p \in Creations(k)
        /\ Creations(k)' = IF k = l THEN Creations(k) \ {p} ELSE Creations(k)
    BY <1>1 DEF Creations, TypeOK
  <2>2. createCount[k] = Cardinality(Creations(k)) + Cardinality(NodeRequests(k))
    BY DEF CreateExact
  <2>3. createCount'[k] = IF k = l THEN Dec(createCount[k]) ELSE createCount[k]
    BY <1>1 DEF TypeOK
  <2>4. k = l => /\ Cardinality(Creations(k) \ {p}) = Dec(Cardinality(Creations(k)))
                 /\ Cardinality(Creations(k)) \in Nat /\ Cardinality(Creations(k)) > 0
    BY <2>1, Finite, OneLess
  <2>5. Cardinality(NodeRequests(k)) \in Nat /\ NodeRequests(k)' = NodeRequests(k)
    BY Finite, FS_CardinalityType
  <2>6. CASE k = l
    BY <2>1, <2>2, <2>3, <2>4, <2>5, <2>6 DEF Dec
  <2>7. CASE k # l
    BY <2>1, <2>2, <2>3, <2>5, <2>7
  <2> QED BY <2>6, <2>7
<1> QED BY <1>2 DEF CreateExact

LEMMA NodeRequestAdded ==
  ASSUME TypeOK, CreateExact, NEW r \in NodeReq, NEW kind, NEW l \in Layer, NEW n,
         NewNodeReq(r, kind, l, n), UNCHANGED <<req, reqLayer>>
  PROVE  CreateExact'
<1>1. /\ nrPhase[r] = "none" /\ nrLayer' = [nrLayer EXCEPT ![r] = l]
      /\ createCount' = [createCount EXCEPT ![l] = createCount[l] + 1]
  BY DEF NewNodeReq
<1>2. nrPhase'[r] # "none" /\ \A s \in NodeReq \ {r} : nrPhase'[s] = nrPhase[s]
  BY DEF NewNodeReq, TypeOK
<1>3. ASSUME NEW k \in Layer
      PROVE  createCount'[k] = Cardinality(Creations(k)') + Cardinality(NodeRequests(k)')
  <2>1. /\ r \notin NodeRequests(k)
        /\ NodeRequests(k)' = IF k = l THEN NodeRequests(k) \union {r} ELSE NodeRequests(k)
    BY <1>1, <1>2 DEF NodeRequests, TypeOK
  <2>2. createCount[k] = Cardinality(Creations(k)) + Cardinality(NodeRequests(k))
    BY DEF CreateExact
  <2>3. createCount'[k] = IF k = l THEN createCount[k] + 1 ELSE createCount[k]
    BY <1>1 DEF TypeOK
  <2>4. /\ Cardinality(NodeRequests(k) \union {r}) = Cardinality(NodeRequests(k)) + 1
        /\ Cardinality(NodeRequests(k)) \in Nat
    BY <2>1, Finite, OneMore
  <2>5. Creations(k)' = Creations(k)
    BY DEF Creations
  <2>6. Cardinality(Creations(k)) \in Nat
    BY Finite, FS_CardinalityType
  <2> QED BY <2>1, <2>2, <2>3, <2>4, <2>5, <2>6
<1> QED BY <1>3 DEF CreateExact

LEMMA NodeRequestDropped ==
  ASSUME TypeOK, CreateExact, NEW r \in NodeReq, NodeReqEnds(r),
         nrPhase[r] # "none", nrLayer[r] \in Layer
  PROVE  CreateExact'
<1> DEFINE l == nrLayer[r]
<1>1. /\ createCount' = [createCount EXCEPT ![l] = Dec(createCount[l])]
      /\ nrPhase' = [nrPhase EXCEPT ![r] = "none"] /\ nrLayer' = [nrLayer EXCEPT ![r] = None]
      /\ UNCHANGED <<req, reqLayer>>
  BY DEF NodeReqEnds
<1>2. ASSUME NEW k \in Layer
      PROVE  createCount'[k] = Cardinality(Creations(k)') + Cardinality(NodeRequests(k)')
  <2>1. /\ k = l => r \in NodeRequests(k)
        /\ NodeRequests(k)' = IF k = l THEN NodeRequests(k) \ {r} ELSE NodeRequests(k)
    BY <1>1 DEF NodeRequests, TypeOK
  <2>2. createCount[k] = Cardinality(Creations(k)) + Cardinality(NodeRequests(k))
    BY DEF CreateExact
  <2>3. createCount'[k] = IF k = l THEN Dec(createCount[k]) ELSE createCount[k]
    BY <1>1 DEF TypeOK
  <2>4. k = l => /\ Cardinality(NodeRequests(k) \ {r}) = Dec(Cardinality(NodeRequests(k)))
                 /\ Cardinality(NodeRequests(k)) \in Nat /\ Cardinality(NodeRequests(k)) > 0
    BY <2>1, Finite, OneLess
  <2>5. Creations(k)' = Creations(k)
    BY <1>1 DEF Creations
  <2>6. Cardinality(Creations(k)) \in Nat
    BY Finite, FS_CardinalityType
  <2>7. CASE k = l
    BY <2>1, <2>2, <2>3, <2>4, <2>5, <2>6, <2>7 DEF Dec
  <2>8. CASE k # l
    BY <2>1, <2>2, <2>3, <2>5, <2>8
  <2> QED BY <2>7, <2>8
<1> QED BY <1>2 DEF CreateExact

LEMMA DeleteKept ==
  ASSUME DeleteExact, UNCHANGED deleteCount, \A l \in Layer : Deletions(l)' = Deletions(l)
  PROVE  DeleteExact'
  BY DEF DeleteExact

(* A set of processes, none of them dying, is put into the delete queue.   *)
LEMMA DeletionsAdded ==
  ASSUME TypeOK, DeleteExact, NEW Q \in SUBSET Proc, UNCHANGED life,
         \A q \in Q : life[q] = "alive" /\ init[q] # 3,
         init' = [q \in Proc |-> IF q \in Q THEN 3 ELSE init[q]],
         delLayer' = [q \in Proc |-> IF q \in Q THEN layerOf[q] ELSE delLayer[q]],
         deleteCount' = [l \in Layer |->
                            deleteCount[l] + Cardinality({q \in Q : layerOf[q] = l})]
  PROVE  DeleteExact'
<1> SUFFICES ASSUME NEW l \in Layer PROVE deleteCount'[l] = Cardinality(Deletions(l)')
  BY DEF DeleteExact
<1> DEFINE D == {q \in Q : layerOf[q] = l}
<1>1. Deletions(l)' = Deletions(l) \union D /\ Deletions(l) \intersect D = {}
  BY DEF Deletions
<1>2. IsFiniteSet(D) /\ IsFiniteSet(Deletions(l))
  BY Finite
<1>3. Cardinality(D) \in Nat /\ Cardinality(Deletions(l)) \in Nat
  BY <1>2, FS_CardinalityType
<1>4. Cardinality(Deletions(l) \union D)
          = Cardinality(Deletions(l)) + Cardinality(D) - Cardinality({})
  BY <1>1, <1>2, FS_Union
<1>5. deleteCount'[l] = Cardinality(Deletions(l)) + Cardinality(D)
  BY DEF DeleteExact
<1> HIDE DEF D
<1> QED BY <1>1, <1>3, <1>4, <1>5, FS_EmptySet

(* A process that could not be created is put there at once.               *)
LEMMA DeletionAdded ==
  ASSUME TypeOK, DeleteExact, NEW q \in Proc, NEW k \in Layer, life[q] # "alive",
         life' = [life EXCEPT ![q] = "alive"], init' = [init EXCEPT ![q] = 3],
         delLayer' = [delLayer EXCEPT ![q] = k],
         deleteCount' = [deleteCount EXCEPT ![k] = deleteCount[k] + 1]
  PROVE  DeleteExact'
<1> SUFFICES ASSUME NEW l \in Layer PROVE deleteCount'[l] = Cardinality(Deletions(l)')
  BY DEF DeleteExact
<1>1. /\ q \notin Deletions(l)
      /\ Deletions(l)' = IF l = k THEN Deletions(l) \union {q} ELSE Deletions(l)
  BY DEF Deletions, TypeOK
<1>2. deleteCount'[l] = IF l = k THEN deleteCount[l] + 1 ELSE deleteCount[l]
  BY DEF TypeOK
<1>3. Cardinality(Deletions(l) \union {q}) = Cardinality(Deletions(l)) + 1
  BY <1>1, Finite, OneMore
<1> QED BY <1>1, <1>2, <1>3 DEF DeleteExact

(* One is freed.                                                           *)
LEMMA DeletionDropped ==
  ASSUME TypeOK, DeleteExact, NEW p \in Proc, life[p] = "alive", init[p] = 3, UNCHANGED init,
         life' = [life EXCEPT ![p] = "gone"], delLayer' = [delLayer EXCEPT ![p] = None],
         deleteCount' = [deleteCount EXCEPT ![delLayer[p]] = Dec(deleteCount[delLayer[p]])]
  PROVE  DeleteExact'
<1> SUFFICES ASSUME NEW l \in Layer PROVE deleteCount'[l] = Cardinality(Deletions(l)')
  BY DEF DeleteExact
<1>1. /\ l = delLayer[p] => p \in Deletions(l)
      /\ Deletions(l)' = IF l = delLayer[p] THEN Deletions(l) \ {p} ELSE Deletions(l)
  BY DEF Deletions, TypeOK
<1>2. deleteCount'[l] = IF l = delLayer[p] THEN Dec(deleteCount[l]) ELSE deleteCount[l]
  BY DEF TypeOK
<1>3. l = delLayer[p] => Cardinality(Deletions(l) \ {p}) = Dec(Cardinality(Deletions(l)))
  BY <1>1, Finite, OneLess
<1> QED BY <1>1, <1>2, <1>3 DEF DeleteExact

-----------------------------------------------------------------------------
(* The layers above one                                                    *)

LEMMA LiveIsLayer ==
  ASSUME Layers, NEW l, LiveLayer(l)
  PROVE  l \in Layer /\ l \in layers /\ l # None
  BY FrameworkAssumption DEF LiveLayer, Layers, Layer

LEMMA AboveLive ==
  ASSUME Layers, Records, LayersOf, NEW l, LiveLayer(l), NEW k \in Above(l)
  PROVE  LiveLayer(k)
<1> DEFINE S == {x \in Layer : LiveLayer(x)}
<1>1. l \in S
  BY LiveIsLayer
<1>2. ASSUME NEW n \in S \ {Root} PROVE reqLayer[n] \in S
  <2>1. n \in Node /\ n \in Proc /\ Placed(n)
    BY FrameworkAssumption DEF LiveLayer, Placed
  <2>2. reqLayer[n] = layerOf[n] /\ LiveLayer(layerOf[n])
    BY <2>1 DEF Records, LayersOf
  <2> QED BY <2>2, LiveIsLayer
<1>3. S \in SUBSET Layer
  OBVIOUS
<1> HIDE DEF S
<1>4. k \in S
  BY <1>1, <1>2, <1>3 DEF Above
<1> QED BY <1>4 DEF S

(* A layer stays above another one as long as the nodes between them stay. *)
LEMMA AboveKept ==
  ASSUME Layers, Records, LayersOf, NEW l, LiveLayer(l), NEW k \in Above(l),
         \A n \in Node : Placed(n) => reqLayer'[n] = reqLayer[n]
  PROVE  k \in Above(l)'
<1> SUFFICES ASSUME NEW S \in SUBSET Layer, l \in S, \A n \in S \ {Root} : reqLayer'[n] \in S
             PROVE  k \in S
  BY DEF Above
<1> DEFINE T == {x \in S : LiveLayer(x)}
<1>1. l \in T /\ T \in SUBSET Layer
  OBVIOUS
<1>2. ASSUME NEW n \in T \ {Root} PROVE reqLayer[n] \in T
  <2>1. n \in Node /\ n \in Proc /\ Placed(n) /\ n \in S
    BY FrameworkAssumption DEF LiveLayer, Placed
  <2>2. reqLayer[n] = layerOf[n] /\ LiveLayer(layerOf[n])
    BY <2>1 DEF Records, LayersOf
  <2> QED BY <2>1, <2>2
<1> HIDE DEF T
<1>3. k \in T
  BY <1>1, <1>2 DEF Above
<1> QED BY <1>3 DEF T

LEMMA TargetsKept ==
  ASSUME Layers, Records, LayersOf, Targets,
         \A p \in Proc : req'[p] # "none" /\ target'[p] # None =>
             req[p] # "none" /\ target[p] = target'[p] /\ reqLayer[p] = reqLayer'[p],
         \A n \in Node : Placed(n) => reqLayer'[n] = reqLayer[n]
  PROVE  Targets'
<1> SUFFICES ASSUME NEW p \in Proc, req'[p] # "none", target'[p] # None
             PROVE  target'[p] \in Above(reqLayer[p])' /\ reqLayer'[p] = reqLayer[p]
  BY DEF Targets, Above
<1>1. req[p] # "none" /\ target[p] = target'[p] /\ reqLayer[p] = reqLayer'[p]
  OBVIOUS
<1> DEFINE l == reqLayer[p]
           k == target[p]
<1>2. LiveLayer(l) /\ k \in Above(l)
  BY <1>1 DEF LayersOf, Targets
<1>3. ASSUME NEW x, x = l, NEW y, y = k PROVE y \in Above(x)'
  BY <1>2, <1>3, AboveKept
<1>4. PICK x : x = l
  OBVIOUS
<1>5. PICK y : y = k
  OBVIOUS
<1>6. y \in Above(x)'
  BY <1>3, <1>4, <1>5
<1> QED BY <1>1, <1>4, <1>5, <1>6 DEF Above

-----------------------------------------------------------------------------
(* What the invariant says of the tree, without the position in the frame. *)
TreeOK ==
    /\ Records /\ Moves /\ Lines /\ LayersOf /\ Targets /\ DyingIn /\ Requested /\ Layers
    /\ Victims /\ CreateExact /\ DeleteExact

(* Deletion                                                                *)

(* fpcNd_IsCreatingFromUnder looks at counts; as these are exact, nothing  *)
(* that is being created is in a layer below, nor will it go to one.       *)
LEMMA NothingUnder ==
  ASSUME TypeOK, TreeOK, NEW n \in Proc, ~IsCreatingFromUnder(n)
  PROVE  /\ \A p \in Proc : req[p] # "none" => reqLayer[p] \notin Under(n)
         /\ \A r \in NodeReq : nrPhase[r] # "none" => nrLayer[r] \notin Under(n)
         /\ \A p \in Proc : req[p] # "none" /\ target[p] # None => target[p] \notin Under(n)
<1>0. Records /\ LayersOf /\ Targets /\ Requested /\ Layers /\ CreateExact
  BY DEF TreeOK
<1>1. ASSUME NEW m \in Under(n) \intersect Layer
      PROVE  Creations(m) = {} /\ NodeRequests(m) = {}
  <2>1. m \in Node
    BY UnderTransitive, FrameworkAssumption DEF Layer
  <2>2. n \in Node
    BY <2>1, UnderLeaf DEF Leaf, TypeOK
  <2>3. createCount[m] = 0
    BY <2>1, <2>2 DEF IsCreatingFromUnder, TypeOK
  <2> QED BY <1>0, <2>3, CountZero
<1>2. ASSUME NEW p \in Proc, req[p] # "none" PROVE reqLayer[p] \notin Under(n)
  <2>1. reqLayer[p] \in Layer
    BY <1>0, <1>2, LiveIsLayer DEF LayersOf
  <2> QED BY <1>1, <1>2, <2>1 DEF Creations
<1>3. ASSUME NEW r \in NodeReq, nrPhase[r] # "none" PROVE nrLayer[r] \notin Under(n)
  <2>1. nrLayer[r] \in Layer
    BY <1>0, <1>3, LiveIsLayer DEF Requested
  <2> QED BY <1>1, <1>3, <2>1 DEF NodeRequests
<1>4. ASSUME NEW p \in Proc, req[p] # "none", target[p] # None PROVE target[p] \notin Under(n)
  <2> DEFINE S == {x \in Layer : LiveLayer(x) /\ x \notin Under(n)}
  <2>1. reqLayer[p] \in S
    BY <1>0, <1>2, <1>4, LiveIsLayer DEF LayersOf
  <2>2. ASSUME NEW k \in S \ {Root} PROVE reqLayer[k] \in S
    <3>1. k \in Node /\ k \in Proc /\ Placed(k) /\ k \notin Under(n)
      BY <2>2, FrameworkAssumption DEF LiveLayer, Placed
    <3>2. reqLayer[k] = layerOf[k] /\ LiveLayer(layerOf[k]) /\ layerOf[k] \in Layer
      BY <1>0, <3>1, LiveIsLayer DEF Records, LayersOf
    <3>3. reqLayer[k] \notin Under(n)
      <4>1. CASE req[k] # "none"
        BY <1>2, <3>1, <4>1
      <4>2. CASE req[k] = "none"
        BY <1>0, <3>1, <3>2, <4>2, UnderClosed DEF Records, TypeOK
      <4> QED BY <4>1, <4>2
    <3> QED BY <3>2, <3>3
  <2>3. S \in SUBSET Layer
    OBVIOUS
  <2> HIDE DEF S
  <2>4. target[p] \in S
    BY <1>0, <1>4, <2>1, <2>2, <2>3 DEF Targets, Above
  <2> QED BY <2>4 DEF S
<1> QED BY <1>2, <1>3, <1>4

(* What a deletion leaves: a set of processes is dying, everything that was*)
(* in their layers with them, and nothing is on its way there.             *)
Deletes(n, Q) ==
    /\ Q \in SUBSET (inLayer \union {n})
    /\ \A q \in Q : Placed(q)
    /\ \A q \in inLayer : layerOf[q] \in Q => q \in Q
    /\ \A p \in Proc : req[p] # "none" =>
          reqLayer[p] \notin Q /\ (target[p] # None => target[p] \notin Q)
    /\ \A r \in NodeReq : nrPhase[r] # "none" => nrLayer[r] \notin Q
    /\ \A r \in NodeReq : nrPhase[r] = "delete" /\ nrNode[r] \in Q => nrNode[r] = n
    /\ inDel' = inDel \union Q
    /\ inLayer' = inLayer \ Q
    /\ init' = [q \in Proc |-> IF q \in Q THEN 3 ELSE init[q]]
    /\ delLayer' = [q \in Proc |-> IF q \in Q THEN layerOf[q] ELSE delLayer[q]]
    /\ layerOf' = [q \in Proc |-> IF q \in Q THEN None ELSE layerOf[q]]
    /\ target' = [q \in Proc |-> IF q \in Q THEN None ELSE target[q]]
    /\ \A q \in Proc : prioTo'[q] # None => q \notin Q /\ prioTo[q] \notin Q /\ prioTo'[q] = prioTo[q]

LEMMA ToDeleteQDeletes ==
  ASSUME TypeOK, LifeOK, TreeOK, NEW n \in Proc, Placed(n), ~IsCreatingFromUnder(n),
         NEW R, NEW left, ToDeleteQ(n, R, left)
  PROVE  Deletes(n, Queued(n, R))
<1> DEFINE Q == Queued(n, R)
<1>0. Records /\ Victims /\ Layers /\ Requested
  BY DEF TreeOK
<1>1. Q \subseteq Under(n) /\ Under(n) \subseteq inLayer \union {n}
  BY UnderNode DEF Queued, TypeOK
<1>2. \A q \in Q : Placed(q)
  BY <1>0, <1>1 DEF Records, LifeOK, Placed, TypeOK
<1>3. \A q \in inLayer : layerOf[q] \in Q => q \in Q
  BY QueuedClosed DEF TypeOK
<1>4. /\ \A p \in Proc : req[p] # "none" =>
             reqLayer[p] \notin Q /\ (target[p] # None => target[p] \notin Q)
      /\ \A r \in NodeReq : nrPhase[r] # "none" => nrLayer[r] \notin Under(n)
  BY <1>1, NothingUnder
<1>5. \A r \in NodeReq : nrPhase[r] = "delete" /\ nrNode[r] \in Q => nrNode[r] = n
  <2> SUFFICES ASSUME NEW r \in NodeReq, nrPhase[r] = "delete", nrNode[r] \in Q, nrNode[r] # n
               PROVE  FALSE
    OBVIOUS
  <2>1. nrLayer[r] = layerOf[nrNode[r]]
    BY <1>0 DEF Victims
  <2>2. layerOf[nrNode[r]] \in Under(n)
    BY <1>1, UnderParent DEF TypeOK
  <2> QED BY <1>4, <2>1, <2>2
<1>6. /\ inDel' = inDel \union Q
      /\ inLayer' = inLayer \ Q
      /\ init' = [q \in Proc |-> IF q \in Q THEN 3 ELSE init[q]]
      /\ delLayer' = [q \in Proc |-> IF q \in Q THEN layerOf[q] ELSE delLayer[q]]
      /\ layerOf' = [q \in Proc |-> IF q \in Q THEN None ELSE layerOf[q]]
      /\ target' = [q \in Proc |-> IF q \in Q THEN None ELSE target[q]]
      /\ prioTo' = [q \in Proc |-> IF q \in DroppedMoves(n, Q) THEN None ELSE prioTo[q]]
  BY DEF ToDeleteQ
<1>7. \A q \in Proc : prioTo'[q] # None => q \notin Q /\ prioTo[q] \notin Q /\ prioTo'[q] = prioTo[q]
  BY <1>1, <1>6 DEF DroppedMoves
<1> HIDE DEF Q
<1>8. Q \in SUBSET (inLayer \union {n}) /\ \A r \in NodeReq : nrPhase[r] # "none" => nrLayer[r] \notin Q
  BY <1>1, <1>4
<1> QED BY <1>2, <1>3, <1>4, <1>5, <1>6, <1>7, <1>8 DEF Deletes, Q

(* The tree after a deletion.                                              *)
LEMMA DeletesTree ==
  ASSUME TypeOK, LifeOK, TreeOK, NEW n \in Proc, Placed(n), NEW Q, Deletes(n, Q),
         UNCHANGED <<life, layers, reqLayer, inLine, nrLayer, nrNode>>,
         \A p \in Proc \ {n} : req'[p] = req[p],
         n \in Q => req'[n] = "none",
         req[n] = "none" => req'[n] = "none", req'[n] \in {req[n], "dead", "none"},
         n \notin Q => (req'[n] = "none" => req[n] = "none"),
         \A r \in NodeReq : nrPhase'[r] = "none" <=> nrPhase[r] = "none",
         \A r \in NodeReq : nrPhase'[r] = "delete" =>
             nrPhase[r] = "delete" /\ (n \in Q => nrNode[r] # n)
  PROVE  Records' /\ Moves' /\ Lines' /\ LayersOf' /\ Targets' /\ DyingIn' /\ Requested' /\ Layers'
         /\ Victims'
<1>0. /\ Records /\ Moves /\ Lines /\ LayersOf /\ Targets /\ DyingIn /\ Requested /\ Layers
      /\ Victims
  BY DEF TreeOK
<1>2. \A q \in Proc : /\ q \in Q => Placed(q) /\ init'[q] = 3 /\ delLayer'[q] = layerOf[q]
                                    /\ layerOf'[q] = None /\ target'[q] = None /\ q \notin inLayer'
                      /\ q \notin Q => /\ init'[q] = init[q] /\ delLayer'[q] = delLayer[q]
                                       /\ layerOf'[q] = layerOf[q] /\ target'[q] = target[q]
                                       /\ q \in inLayer' <=> q \in inLayer
  BY DEF Deletes
<1>3. \A q \in Proc : /\ req'[q] # "none" => req[q] # "none" /\ q \notin Q
                      /\ q \notin Q => (req'[q] = "none" <=> req[q] = "none")
  BY DEF Deletes, LifeOK
<1>4. \A q \in Proc : req'[q] # req[q] => q = n /\ req[n] # "none" /\ req'[n] \in {"dead", "none"}
  OBVIOUS
<1>5. Records'
  <2> SUFFICES ASSUME NEW p \in Proc
        PROVE  /\ life[p] = "requested" <=> req'[p] = "load"
               /\ req'[p] \notin {"none", "load"} => life[p] = "alive"
               /\ p \in inLayer' => life[p] = "alive"
               /\ Placed(p)' => p \in inLayer' \/ req'[p] # "none"
               /\ Placed(p)' /\ (p \in Node \/ req'[p] # "none") => layerOf'[p] = reqLayer[p]
               /\ init'[p] = 3 => life[p] \in {"alive", "gone"}
               /\ target'[p] # None => p \in Leaf /\ Placed(p)'
               /\ delLayer'[p] # None => life[p] = "alive" /\ init'[p] = 3
    BY DEF Records
  <2>1. life[p] = "requested" <=> req'[p] = "load"
    BY <1>0, <1>4 DEF Records, Placed
  <2>2. req'[p] \notin {"none", "load"} => life[p] = "alive"
    BY <1>0, <1>4 DEF Records, Placed
  <2>3. p \in inLayer' => life[p] = "alive"
    BY <1>0, <1>2 DEF Records
  <2>4. Placed(p)' => Placed(p) /\ p \notin Q
    BY <1>2 DEF Placed
  <2>5. Placed(p)' => p \in inLayer' \/ req'[p] # "none"
    BY <1>0, <1>2, <1>3, <2>4 DEF Records
  <2>6. Placed(p)' /\ (p \in Node \/ req'[p] # "none") => layerOf'[p] = reqLayer[p]
    BY <1>0, <1>2, <1>3, <2>4 DEF Records
  <2>7. init'[p] = 3 => life[p] \in {"alive", "gone"}
    BY <1>0, <1>2 DEF Records, Placed
  <2>8. target'[p] # None => p \in Leaf /\ Placed(p)'
    BY <1>0, <1>2 DEF Records, Placed
  <2>9. delLayer'[p] # None => life[p] = "alive" /\ init'[p] = 3
    BY <1>0, <1>2 DEF Records, Placed
  <2> QED BY <2>1, <2>2, <2>3, <2>5, <2>6, <2>7, <2>8, <2>9
<1>6. Moves'
  <2>1. \A q \in Proc : prioTo'[q] # None =>
            q \notin Q /\ prioTo[q] \notin Q /\ prioTo'[q] = prioTo[q]
    BY DEF Deletes
  <2> QED BY <1>0, <1>2, <2>1, FrameworkAssumption DEF Moves
<1>7. Lines'
  <2>1. inLayer' \subseteq inLayer /\ inLayer' \subseteq Proc /\ inLine \subseteq Proc
    BY DEF Deletes, TypeOK
  <2> QED BY <1>0, <1>2, <2>1 DEF Lines, LinedTogether, TypeOK
<1>8. ASSUME NEW l, LiveLayer(l), l \notin Q PROVE LiveLayer(l)'
  BY <1>2, <1>8, FrameworkAssumption DEF LiveLayer
<1>9. LayersOf'
  <2> SUFFICES ASSUME NEW p \in Proc
        PROVE  /\ Placed(p)' => LiveLayer(layerOf[p])' /\ layerOf'[p] # p /\ layerOf'[p] = layerOf[p]
               /\ req'[p] # "none" => LiveLayer(reqLayer[p])' /\ reqLayer'[p] # p
    BY DEF LayersOf, LiveLayer
  <2>1. req'[p] # "none" => LiveLayer(reqLayer[p]) /\ reqLayer[p] # p /\ reqLayer[p] \notin Q
    BY <1>0, <1>3 DEF LayersOf, Deletes
  <2>2. ASSUME Placed(p)'
        PROVE  LiveLayer(layerOf[p]) /\ layerOf[p] # p /\ layerOf[p] \notin Q /\ layerOf'[p] = layerOf[p]
    <3>1. p \notin Q /\ Placed(p)
      BY <1>2, <2>2 DEF Placed
    <3>2. layerOf[p] \notin Q
      BY <1>0, <3>1 DEF Records, Deletes
    <3> QED BY <1>0, <1>2, <3>1, <3>2 DEF LayersOf
  <2> QED BY <1>2, <2>1, <2>2, FrameworkAssumption DEF LiveLayer
<1>10. Targets'
  BY <1>0, <1>2, <1>3, TargetsKept
<1>11. DyingIn'
  <2> SUFFICES ASSUME NEW p \in Proc, life[p] = "alive", init'[p] = 3
               PROVE  delLayer'[p] \in layers /\ delLayer'[p] # p
    BY DEF DyingIn
  <2>1. CASE p \in Q
    BY <1>0, <1>2, <2>1, LiveIsLayer DEF LayersOf
  <2>2. CASE p \notin Q
    BY <1>0, <1>2, <2>2 DEF DyingIn
  <2> QED BY <2>1, <2>2
<1>12. Requested'
  <2> SUFFICES ASSUME NEW r \in NodeReq, nrPhase'[r] # "none" PROVE LiveLayer(nrLayer[r])'
    BY DEF Requested, LiveLayer
  <2>1. LiveLayer(nrLayer[r]) /\ nrLayer[r] \notin Q
    BY <1>0 DEF Requested, Deletes
  <2> QED BY <1>2, <2>1, FrameworkAssumption DEF LiveLayer
<1>13. Layers'
  BY <1>0 DEF Layers
<1>14. Victims'
  <2> SUFFICES ASSUME NEW r \in NodeReq, nrPhase'[r] = "delete"
        PROVE  /\ nrNode[r] \in Node \intersect inLayer' /\ nrLayer[r] = layerOf'[nrNode[r]]
               /\ \A s \in NodeReq : nrPhase'[s] = "delete" /\ nrNode[s] = nrNode[r] => s = r
    BY DEF Victims
  <2>1. nrPhase[r] = "delete" /\ nrNode[r] \notin Q
    BY DEF Deletes
  <2> QED BY <1>0, <1>2, <2>1, FrameworkAssumption DEF Victims
<1> QED BY <1>5, <1>6, <1>7, <1>9, <1>10, <1>11, <1>12, <1>13, <1>14

(* A request that is aborted leaves the counts right.                      *)
LEMMA ToDeleteQTree ==
  ASSUME TypeOK, LifeOK, TreeOK, NEW n \in Proc, Placed(n), ~IsCreatingFromUnder(n),
         NEW R, NEW left, ToDeleteQ(n, R, left),
         req[n] # "dead", left = req[n] \/ (left = "dead" /\ req[n] # "none"),
         UNCHANGED <<life, layers, reqLayer, inLine, nrLayer, nrNode>>,
         \A r \in NodeReq : nrPhase'[r] = "none" <=> nrPhase[r] = "none",
         \A r \in NodeReq : nrPhase'[r] = "delete" =>
             nrPhase[r] = "delete" /\ (n \in Queued(n, R) => nrNode[r] # n)
  PROVE  TreeOK' /\ Deletes(n, Queued(n, R))
<1> DEFINE Q == Queued(n, R)
<1>1. Deletes(n, Q)
  BY ToDeleteQDeletes
<1>2. req[n] = "none" => left = "none"
  OBVIOUS
<1>3. /\ \A q \in Proc \ {n} : req'[q] = req[q]
      /\ req'[n] = IF n \in Q THEN "none" ELSE left
  BY <1>2, ToDeleteQEffect
<1>4. Records' /\ Moves' /\ Lines' /\ LayersOf' /\ Targets' /\ DyingIn' /\ Requested' /\ Layers'
      /\ Victims'
  <2> HIDE DEF Q
  <2> QED BY <1>1, <1>3, DeletesTree DEF Q
<1>5. \A k \in Layer : NodeRequests(k)' = NodeRequests(k)
  BY DEF NodeRequests
<1>6. CreateExact /\ DeleteExact
  BY DEF TreeOK
<1>7. CreateExact'
  <2>1. CASE Aborted(n, R)
    <3>1. DeleteRequest(n) /\ req[n] # "none"
      BY <2>1 DEF ToDeleteQ, Aborted
    <3>2. reqLayer[n] \in Layer
      BY <3>1, LiveIsLayer DEF TreeOK, LayersOf
    <3> QED BY <1>5, <1>6, <3>1, <3>2, CreationDropped
  <2>2. CASE ~Aborted(n, R)
    <3>1. UNCHANGED createCount /\ req' = [req EXCEPT ![n] = left]
      BY <2>2 DEF ToDeleteQ
    <3>2. \A q \in Proc : req'[q] = "none" <=> req[q] = "none"
      BY <3>1 DEF TypeOK
    <3>3. \A k \in Layer : Creations(k)' = Creations(k)
      BY <3>2 DEF Creations
    <3> QED BY <1>5, <1>6, <3>1, <3>3, CreateKept
  <2> QED BY <2>1, <2>2
<1>8. DeleteExact'
  <2>1. /\ init' = [q \in Proc |-> IF q \in Q THEN 3 ELSE init[q]]
        /\ delLayer' = [q \in Proc |-> IF q \in Q THEN layerOf[q] ELSE delLayer[q]]
        /\ deleteCount' = [l \in Layer |->
                            deleteCount[l] + Cardinality({q \in Q : layerOf[q] = l})]
    BY DEF ToDeleteQ
  <2>2. Q \in SUBSET Proc /\ \A q \in Q : life[q] = "alive" /\ init[q] # 3
    BY <1>1 DEF Deletes, Placed, TypeOK
  <2> HIDE DEF Q
  <2> QED BY <1>6, <2>1, <2>2, DeletionsAdded
<1> QED BY <1>1, <1>4, <1>7, <1>8 DEF TreeOK

-----------------------------------------------------------------------------
(* Entering a layer                                                        *)

(* What is below a process that does not execute does not execute either.  *)
LEMMA UnderNotLined ==
  ASSUME TypeOK, Lines, NEW p \in Proc, p \notin inLine
  PROVE  Under(p) \intersect inLine = {}
<1> DEFINE S == Proc \ inLine
<1>1. S \in SUBSET Proc /\ p \in S
  OBVIOUS
<1>2. ClosedUnder(S)
  <2> SUFFICES ASSUME NEW q \in inLayer, layerOf[q] \in S PROVE q \in S
    BY DEF ClosedUnder
  <2>1. layerOf[q] # Root /\ layerOf[q] \notin inLine
    BY FrameworkAssumption
  <2> QED BY <2>1 DEF Lines, LinedTogether, TypeOK
<1>3. Under(p) \subseteq S
  BY <1>1, <1>2 DEF Under
<1> QED BY <1>3

(* A process enters a living layer and is lined, with all that waits below *)
(* it, if the node of the layer is; nothing is thrown out of its layer.    *)
Enters(p, l, L) ==
    /\ LiveLayer(l) /\ l # p /\ (p \in Node => l = reqLayer[p])
    /\ L = IF l = Root \/ l \in inLine THEN Under(p) ELSE {}
    /\ L \subseteq inLayer \union {p} /\ L \intersect inLine = {} 
    /\ p \notin inLine /\ p \notin inLayer /\ Placed(p)
    /\ inLayer' = inLayer \union {p}
    /\ layerOf' = [layerOf EXCEPT ![p] = l]
    /\ inLine' = inLine \union L
    /\ init' = [q \in Proc |-> IF q \in L THEN 2 ELSE init[q]]
    /\ DeleteRequest(p)

LEMMA ToExecuteQEnters ==
  ASSUME TypeOK, LifeOK, TreeOK, NEW p \in Proc, req[p] \notin {"none", "load"}, ToExecuteQ(p)
  PROVE  \E l \in Layer, L \in SUBSET Proc : Enters(p, l, L)
<1>0. Records /\ LayersOf /\ Targets /\ Lines /\ Layers
  BY DEF TreeOK
<1> DEFINE l     == IF target[p] = None THEN layerOf[p] ELSE target[p]
           lined == Lined(p, l)
           cut   == lined \intersect inLine
<1>1. Placed(p) /\ p \notin inLayer /\ layerOf[p] = reqLayer[p]
  BY <1>0 DEF Records, LifeOK, Placed, TypeOK
<1>2. p \notin inLine
  BY <1>0 DEF Lines, LifeOK, TypeOK
<1>3. LiveLayer(l) /\ l # p /\ (p \in Node => l = reqLayer[p])
  <2>1. CASE target[p] = None
    BY <1>0, <1>1, <2>1 DEF LayersOf
  <2>2. CASE target[p] # None
    <3>1. p \notin Node /\ target[p] \in Above(reqLayer[p]) /\ LiveLayer(reqLayer[p])
      BY <1>0, <2>2 DEF Records, Targets, LayersOf, Leaf
    <3>2. LiveLayer(target[p])
      BY <1>0, <3>1, AboveLive
    <3>3. target[p] # p
      BY <3>1, <3>2, FrameworkAssumption DEF LiveLayer
    <3> QED BY <2>2, <3>1, <3>2, <3>3
  <2> QED BY <2>1, <2>2
<1>4. lined = IF l = Root \/ l \in inLine THEN Under(p) ELSE {}
  BY DEF Lined
<1>5. lined \subseteq inLayer \union {p} /\ cut = {}
  BY <1>0, <1>2, <1>4, UnderNode, UnderNotLined DEF TypeOK
<1>6. /\ inLayer' = (inLayer \union {p}) \ cut
      /\ layerOf' = [q \in Proc |-> IF q \in cut THEN None
                                    ELSE IF q = p THEN l ELSE layerOf[q]]
      /\ inLine' = inLine \union lined
      /\ init' = [q \in Proc |-> IF q \in lined \ cut THEN 2 ELSE init[q]]
      /\ DeleteRequest(p)
  BY DEF ToExecuteQ
<1>7. l \in Layer
  BY <1>0, <1>3, LiveIsLayer
<1> HIDE DEF l, lined
<1>8. /\ inLayer' = inLayer \union {p} /\ layerOf' = [layerOf EXCEPT ![p] = l]
      /\ init' = [q \in Proc |-> IF q \in lined THEN 2 ELSE init[q]]
  BY <1>5, <1>6 DEF TypeOK
<1>9. lined \in SUBSET Proc
  BY <1>5 DEF TypeOK
<1>10. Enters(p, l, lined)
  BY <1>1, <1>2, <1>3, <1>4, <1>5, <1>6, <1>8 DEF Enters
<1> QED BY <1>7, <1>9, <1>10

LEMMA EntersTree ==
  ASSUME TypeOK, LifeOK, TreeOK, NEW p \in Proc, req[p] \notin {"none", "load"},
         NEW l \in Layer, NEW L \in SUBSET Proc, Enters(p, l, L),
         UNCHANGED <<life, target, reqLayer, layers, delLayer, deleteCount, prioTo, nodeReqVars>>
  PROVE  TreeOK'
<1> USE DEF nodeReqVars
<1>0. /\ Records /\ Moves /\ Lines /\ LayersOf /\ Targets /\ DyingIn /\ Requested /\ Layers
      /\ Victims /\ CreateExact /\ DeleteExact
  BY DEF TreeOK
<1>1. /\ LiveLayer(l) /\ l # p /\ (p \in Node => l = reqLayer[p])
      /\ p \notin inLine /\ p \notin inLayer /\ Placed(p)
      /\ inLayer' = inLayer \union {p}
      /\ inLine' = inLine \union L
      /\ DeleteRequest(p)
  BY DEF Enters
<1>2. L \subseteq inLayer \union {p} /\ L \intersect inLine = {}
  BY DEF Enters
<1>3. \A q \in Proc : /\ q = p => layerOf'[q] = l /\ req'[q] = "none"
                      /\ q # p => layerOf'[q] = layerOf[q] /\ req'[q] = req[q]
  BY <1>1 DEF Enters, DeleteRequest, TypeOK
<1>4. \A q \in Proc : init'[q] = IF q \in L THEN 2 ELSE init[q]
  BY DEF Enters
<1>5. \A q \in Proc : init'[q] = 3 <=> init[q] = 3
  BY <1>1, <1>2, <1>4 DEF LifeOK, Placed
<1>6. \A q \in Proc : Placed(q)' <=> Placed(q)
  BY <1>5 DEF Placed
<1>7. ASSUME NEW k, LiveLayer(k) PROVE LiveLayer(k)'
  BY <1>5, <1>7, FrameworkAssumption DEF LiveLayer
<1>8. Records'
  BY <1>0, <1>1, <1>3, <1>5, <1>6 DEF Records, Placed
<1>9. Moves'
  BY <1>0, <1>4, FrameworkAssumption DEF Moves
<1>10. Lines'
  <2>1. ASSUME NEW q \in Proc, init'[q] = 2 PROVE q \in inLine' /\ q \in inLayer'
    BY <1>0, <1>1, <1>2, <1>4, <2>1 DEF Lines, LinedTogether
  <2>2. ASSUME NEW q \in inLine' PROVE init'[q] >= 2
    BY <1>0, <1>1, <1>4, <2>2 DEF Lines, TypeOK
  <2>3. ASSUME NEW q \in inLayer'
        PROVE  q \in inLine' <=> (layerOf'[q] = Root \/ layerOf'[q] \in inLine')
    <3>0. q \in Proc /\ (q \in inLayer \/ q = p)
      BY <1>1, <2>3 DEF TypeOK
    <3>1. CASE l = Root \/ l \in inLine
      <4>1. L = Under(p) /\ p \in L
        BY <3>1, UnderNode DEF Enters, TypeOK
      <4>2. CASE q = p
        BY <1>1, <1>3, <3>0, <3>1, <4>1, <4>2
      <4>3. CASE q # p /\ q \in L
        <5>1. layerOf'[q] \in L
          BY <1>3, <3>0, <4>1, <4>3, UnderParent DEF TypeOK
        <5> QED BY <1>1, <4>3, <5>1
      <4>4. CASE q \notin L
        <5>1. q \in inLayer /\ layerOf[q] \notin L /\ layerOf'[q] = layerOf[q]
          BY <1>3, <3>0, <4>1, <4>4, UnderClosed DEF TypeOK
        <5> QED BY <1>0, <1>1, <4>4, <5>1 DEF Lines, LinedTogether
      <4> QED BY <4>2, <4>3, <4>4
    <3>2. CASE ~(l = Root \/ l \in inLine)
      <4>1. L = {} /\ inLine' = inLine
        BY <1>1, <3>2 DEF Enters
      <4>2. CASE q = p
        BY <1>1, <1>3, <3>0, <3>2, <4>1, <4>2
      <4>3. CASE q # p
        BY <1>0, <1>3, <3>0, <4>1, <4>3 DEF Lines, LinedTogether
      <4> QED BY <4>2, <4>3
    <3> QED BY <3>1, <3>2
  <2> QED BY <2>1, <2>2, <2>3 DEF Lines, LinedTogether
<1>11. LayersOf'
  <2> SUFFICES ASSUME NEW q \in Proc
        PROVE  /\ Placed(q)' => LiveLayer(layerOf[q])' /\ layerOf'[q] # q
               /\ req'[q] # "none" => LiveLayer(reqLayer[q])' /\ reqLayer'[q] # q
    BY DEF LayersOf, LiveLayer
  <2>1. Placed(q)' => LiveLayer(layerOf'[q]) /\ layerOf'[q] # q
    BY <1>0, <1>1, <1>3, <1>6 DEF LayersOf
  <2>2. req'[q] # "none" => LiveLayer(reqLayer[q]) /\ reqLayer[q] # q
    BY <1>0, <1>3 DEF LayersOf
  <2> QED BY <1>5, <2>1, <2>2, FrameworkAssumption DEF LiveLayer
<1>12. Targets'
  BY <1>0, <1>3, TargetsKept
<1>13. DyingIn'
  BY <1>0, <1>5 DEF DyingIn
<1>14. Requested'
  <2> SUFFICES ASSUME NEW r \in NodeReq, nrPhase[r] # "none" PROVE LiveLayer(nrLayer[r])'
    BY DEF Requested, LiveLayer
  <2>1. LiveLayer(nrLayer[r])
    BY <1>0 DEF Requested
  <2> QED BY <1>5, <2>1, FrameworkAssumption DEF LiveLayer
<1>15. Layers'
  BY <1>0 DEF Layers
<1>16. Victims'
  BY <1>0, <1>1, <1>3, FrameworkAssumption DEF Victims
<1>17. CreateExact'
  <2>1. \A k \in Layer : NodeRequests(k)' = NodeRequests(k)
    BY DEF NodeRequests
  <2>2. reqLayer[p] \in Layer /\ req[p] # "none"
    BY <1>0, LiveIsLayer DEF LayersOf
  <2> QED BY <1>0, <1>1, <2>1, <2>2, CreationDropped
<1>18. DeleteExact'
  <2>1. \A k \in Layer : Deletions(k)' = Deletions(k)
    BY <1>5 DEF Deletions
  <2> QED BY <1>0, <2>1, DeleteKept
<1> QED
  BY <1>8, <1>9, <1>10, <1>11, <1>12, <1>13, <1>14, <1>15, <1>16, <1>17, <1>18 DEF TreeOK

-----------------------------------------------------------------------------
(* The tree, action by action                                              *)

LEMMA TreeKept ==
  ASSUME TreeOK, UNCHANGED <<life, init, target, req, reqLayer, layers, layerOf, inLayer, inLine,
             delLayer, deleteCount, prioTo, createCount, nrPhase, nrKind, nrLayer, nrNode>>
  PROVE  TreeOK'
<1>1. /\ Records /\ Moves /\ Lines /\ LayersOf /\ Targets /\ DyingIn /\ Requested /\ Layers
      /\ Victims /\ CreateExact /\ DeleteExact
  BY DEF TreeOK
<1>2. Records' /\ Moves' /\ Lines' /\ DyingIn' /\ Requested' /\ Layers' /\ Victims'
  BY <1>1 DEF Records, Placed, Moves, Lines, LinedTogether, DyingIn, Requested, Layers, Victims,
              LiveLayer
<1>3. LayersOf' /\ Targets'
  BY <1>1 DEF LayersOf, Placed, LiveLayer, Targets, Above
<1>4. CreateExact' /\ DeleteExact'
  BY <1>1 DEF CreateExact, DeleteExact, Creations, NodeRequests, Deletions
<1> QED BY <1>2, <1>3, <1>4 DEF TreeOK

(* The line tag of a dying process is cut: nothing is in its layer.        *)
LEMMA LineCutTree ==
  ASSUME TypeOK, LifeOK, TreeOK, NEW p \in Proc, init[p] = 3, inLine' = inLine \ {p},
         UNCHANGED <<life, init, target, req, reqLayer, layers, layerOf, inLayer,
             delLayer, deleteCount, prioTo, createCount, nrPhase, nrKind, nrLayer, nrNode>>
  PROVE  TreeOK'
<1>1. /\ Records /\ Moves /\ Lines /\ LayersOf /\ Targets /\ DyingIn /\ Requested /\ Layers
      /\ Victims /\ CreateExact /\ DeleteExact
  BY DEF TreeOK
<1>2. \A q \in inLayer : q # p /\ layerOf[q] # p
  BY <1>1, FrameworkAssumption DEF Records, LayersOf, LifeOK, Placed, LiveLayer, TypeOK
<1>3. Lines'
  BY <1>1, <1>2 DEF Lines, LinedTogether
<1>4. Records' /\ Moves' /\ DyingIn' /\ Requested' /\ Layers' /\ Victims'
  BY <1>1 DEF Records, Placed, Moves, DyingIn, Requested, Layers, Victims, LiveLayer
<1>5. LayersOf' /\ Targets'
  BY <1>1 DEF LayersOf, Placed, LiveLayer, Targets, Above
<1>6. CreateExact' /\ DeleteExact'
  BY <1>1 DEF CreateExact, DeleteExact, Creations, NodeRequests, Deletions
<1> QED BY <1>3, <1>4, <1>5, <1>6 DEF TreeOK

(* A dying process is freed when nothing is left that was in its layer.    *)
LEMMA DeleteSucceedsTree ==
  ASSUME TypeOK, LifeOK, TreeOK, NEW p \in Proc, DeleteSucceeds(p),
         life[p] = "alive", init[p] = 3, \A q \in Proc : delLayer[q] # p
  PROVE  TreeOK'
<1> USE DEF layerVars, nodeReqVars
<1>1. /\ Records /\ Moves /\ Lines /\ LayersOf /\ Targets /\ DyingIn /\ Requested /\ Layers
      /\ Victims /\ CreateExact /\ DeleteExact
  BY DEF TreeOK
<1>2. /\ life' = [life EXCEPT ![p] = "gone"] /\ layers' = layers \ {p}
      /\ deleteCount' = [deleteCount EXCEPT ![delLayer[p]] = Dec(deleteCount[delLayer[p]])]
      /\ delLayer' = [delLayer EXCEPT ![p] = None] /\ reqLayer' = [reqLayer EXCEPT ![p] = None]
      /\ UNCHANGED <<init, target, req, layerOf, inLayer, inLine, prioTo, createCount,
                     nrPhase, nrKind, nrLayer, nrNode>>
  BY DEF DeleteSucceeds
<1>3. req[p] = "none" /\ p \notin inLayer
  BY DEF LifeOK
<1>4. \A q \in Proc : /\ Placed(q)' <=> Placed(q)
                      /\ Placed(q) => q # p
                      /\ req[q] # "none" => q # p
                      /\ q # p => life'[q] = life[q] /\ delLayer'[q] = delLayer[q]
                                  /\ reqLayer'[q] = reqLayer[q]
  BY <1>2, <1>3 DEF Placed, TypeOK
<1>5. ASSUME NEW k PROVE LiveLayer(k)' <=> LiveLayer(k)
  BY <1>2, FrameworkAssumption DEF LiveLayer, TypeOK
<1>6. Records'
  BY <1>1, <1>2, <1>3, <1>4, FrameworkAssumption DEF Records, TypeOK, Placed
<1>7. Moves' /\ Lines' /\ Victims'
  BY <1>1, <1>2 DEF Moves, Lines, LinedTogether, Victims
<1>8. LayersOf'
  <2> SUFFICES ASSUME NEW q \in Proc
        PROVE  /\ Placed(q)' => LiveLayer(layerOf[q])' /\ layerOf'[q] # q
               /\ req'[q] # "none" => LiveLayer(reqLayer[q])' /\ reqLayer'[q] # q
    BY DEF LayersOf, LiveLayer
  <2>1. Placed(q)' => LiveLayer(layerOf[q]) /\ layerOf[q] # q
    BY <1>1, <1>4 DEF LayersOf
  <2>2. req'[q] # "none" => LiveLayer(reqLayer[q]) /\ reqLayer[q] # q /\ reqLayer'[q] = reqLayer[q]
    BY <1>1, <1>2, <1>4 DEF LayersOf
  <2> QED BY <1>2, <2>1, <2>2, FrameworkAssumption DEF LiveLayer, TypeOK
<1>9. Targets'
  <2>1. \A n \in Node : Placed(n) => reqLayer'[n] = reqLayer[n]
    BY <1>4, FrameworkAssumption
  <2>2. \A q \in Proc : req'[q] # "none" /\ target'[q] # None =>
             req[q] # "none" /\ target[q] = target'[q] /\ reqLayer[q] = reqLayer'[q]
    BY <1>2, <1>4
  <2> QED BY <1>1, <2>1, <2>2, TargetsKept
<1>10. DyingIn'
  BY <1>1, <1>2, <1>4 DEF DyingIn, TypeOK
<1>11. Requested'
  <2> SUFFICES ASSUME NEW r \in NodeReq, nrPhase[r] # "none" PROVE LiveLayer(nrLayer[r])'
    BY <1>2 DEF Requested, LiveLayer
  <2>1. LiveLayer(nrLayer[r])
    BY <1>1 DEF Requested
  <2> QED BY <1>2, <2>1, FrameworkAssumption DEF LiveLayer, TypeOK
<1>12. Layers'
  BY <1>1, <1>2, FrameworkAssumption DEF Layers, TypeOK
<1>13. CreateExact'
  <2>1. \A k \in Layer : Creations(k)' = Creations(k) /\ NodeRequests(k)' = NodeRequests(k)
    BY <1>2, <1>4 DEF Creations, NodeRequests
  <2> QED BY <1>1, <1>2, <2>1, CreateKept
<1>14. DeleteExact'
  BY <1>1, <1>2, DeletionDropped
<1> QED
  BY <1>6, <1>7, <1>8, <1>9, <1>10, <1>11, <1>12, <1>13, <1>14 DEF TreeOK

LEMMA AllocFailsTree ==
  ASSUME TypeOK, LifeOK, TreeOK, NEW p \in Proc, AllocFails(p)
  PROVE  TreeOK'
<1> USE DEF layerVars, nodeReqVars, deleteVars
<1>1. /\ Records /\ Moves /\ Lines /\ LayersOf /\ Targets /\ DyingIn /\ Requested /\ Layers
      /\ Victims /\ CreateExact /\ DeleteExact
  BY DEF TreeOK
<1>2. /\ req[p] = "load" /\ DeleteRequest(p)
      /\ life' = [life EXCEPT ![p] = "gone"] /\ req' = [req EXCEPT ![p] = "none"]
      /\ UNCHANGED <<init, target, reqLayer, layers, layerOf, inLayer, inLine,
                     delLayer, deleteCount, prioTo, nrPhase, nrKind, nrLayer, nrNode>>
  BY DEF AllocFails, DeleteRequest
<1>3. life[p] = "requested" /\ p \notin inLayer /\ init[p] < 2
  BY <1>1, <1>2 DEF Records, LifeOK
<1>4. \A q \in Proc : /\ Placed(q)' <=> Placed(q)
                      /\ Placed(q) => q # p
                      /\ q # p => life'[q] = life[q] /\ req'[q] = req[q]
  BY <1>2, <1>3 DEF Placed, TypeOK
<1>5. Records'
  BY <1>1, <1>2, <1>3, <1>4 DEF Records, TypeOK, Placed
<1>6. Moves' /\ Lines' /\ Victims'
  BY <1>1, <1>2 DEF Moves, Lines, LinedTogether, Victims
<1>7. LayersOf'
  <2> SUFFICES ASSUME NEW q \in Proc
        PROVE  /\ Placed(q)' => LiveLayer(layerOf[q])' /\ layerOf'[q] # q
               /\ req'[q] # "none" => LiveLayer(reqLayer[q])' /\ reqLayer'[q] # q
    BY DEF LayersOf, LiveLayer
  <2>1. Placed(q)' => LiveLayer(layerOf[q]) /\ layerOf[q] # q
    BY <1>1, <1>4 DEF LayersOf
  <2>2. req'[q] # "none" => LiveLayer(reqLayer[q]) /\ reqLayer[q] # q
    BY <1>1, <1>2 DEF LayersOf, TypeOK
  <2> QED BY <1>2, <1>3, <2>1, <2>2, FrameworkAssumption DEF LiveLayer, TypeOK
<1>8. Targets'
  <2>1. \A q \in Proc : req'[q] # "none" /\ target'[q] # None =>
             req[q] # "none" /\ target[q] = target'[q] /\ reqLayer[q] = reqLayer'[q]
    BY <1>2 DEF TypeOK
  <2> QED BY <1>1, <1>2, <2>1, TargetsKept
<1>9. DyingIn' /\ Layers'
  BY <1>1, <1>2, <1>3 DEF DyingIn, Layers, TypeOK
<1>10. Requested'
  <2> SUFFICES ASSUME NEW r \in NodeReq, nrPhase[r] # "none" PROVE LiveLayer(nrLayer[r])'
    BY <1>2 DEF Requested, LiveLayer
  <2>1. LiveLayer(nrLayer[r])
    BY <1>1 DEF Requested
  <2> QED BY <1>2, <1>3, <2>1, FrameworkAssumption DEF LiveLayer, TypeOK
<1>11. CreateExact'
  <2>1. \A k \in Layer : NodeRequests(k)' = NodeRequests(k)
    BY <1>2 DEF NodeRequests
  <2>2. reqLayer[p] \in Layer
    BY <1>1, <1>2, LiveIsLayer DEF LayersOf
  <2> QED BY <1>1, <1>2, <2>1, <2>2, CreationDropped
<1>12. DeleteExact'
  <2>1. \A k \in Layer : Deletions(k)' = Deletions(k)
    BY <1>2, <1>3 DEF Deletions, TypeOK
  <2> QED BY <1>1, <1>2, <2>1, DeleteKept
<1> QED BY <1>5, <1>6, <1>7, <1>8, <1>9, <1>10, <1>11, <1>12 DEF TreeOK

(* A request that goes on to another phase changes nothing else.           *)
LEMMA PhaseTree ==
  ASSUME TypeOK, TreeOK, NEW p \in Proc, NEW ph \in {"sub", "wait", "post", "dead"},
         req[p] \notin {"none", "load"}, req' = [req EXCEPT ![p] = ph],
         UNCHANGED <<life, init, target, reqLayer, layers, layerOf, inLayer, inLine,
             delLayer, deleteCount, prioTo, createCount, nrPhase, nrKind, nrLayer, nrNode>>
  PROVE  TreeOK'
<1>1. \A q \in Proc : /\ req'[q] = "none" <=> req[q] = "none"
                      /\ req'[q] = "load" <=> req[q] = "load"
  BY DEF TypeOK
<1>2. /\ Records /\ Moves /\ Lines /\ LayersOf /\ Targets /\ DyingIn /\ Requested /\ Layers
      /\ Victims /\ CreateExact /\ DeleteExact
  BY DEF TreeOK
<1>3. Records'
  BY <1>1, <1>2 DEF Records, Placed
<1>4. Moves' /\ Lines' /\ DyingIn' /\ Requested' /\ Layers' /\ Victims'
  BY <1>2 DEF Moves, Lines, LinedTogether, DyingIn, Requested, Layers, Victims, LiveLayer
<1>5. LayersOf'
  BY <1>1, <1>2 DEF LayersOf, Placed, LiveLayer
<1>6. Targets'
  BY <1>1, <1>2, TargetsKept
<1>7. \A k \in Layer : /\ Creations(k)' = Creations(k) /\ NodeRequests(k)' = NodeRequests(k)
                       /\ Deletions(k)' = Deletions(k)
  BY <1>1 DEF Creations, NodeRequests, Deletions
<1>8. CreateExact' /\ DeleteExact'
  BY <1>2, <1>7, CreateKept, DeleteKept
<1> QED BY <1>3, <1>4, <1>5, <1>6, <1>8 DEF TreeOK

LEMMA CompletionTree ==
  ASSUME TypeOK, LifeOK, TreeOK, NEW p \in Proc, req[p] \notin {"none", "load"},
         CompletionPhases(p),
         UNCHANGED <<life, target, reqLayer, layers, delLayer, deleteCount, prioTo, nodeReqVars>>
  PROVE  TreeOK'
<1>1. CASE ToExecuteQ(p)
  BY <1>1, ToExecuteQEnters, EntersTree
<1>2. CASE ~ToExecuteQ(p)
  <2>1. PICK ph \in {"wait", "post"} : req' = [req EXCEPT ![p] = ph]
    BY <1>2 DEF CompletionPhases
  <2>2. UNCHANGED <<layerVars, inLine, init, createCount>>
    BY <1>2 DEF CompletionPhases
  <2> QED BY <2>1, <2>2, PhaseTree DEF layerVars, nodeReqVars
<1> QED BY <1>1, <1>2

LEMMA CancelFailedTree ==
  ASSUME TypeOK, LifeOK, VictimOK, TreeOK, NEW p \in Proc, CancelFailed(p), req[p] \in {"sub", "fast"},
         UNCHANGED <<life, layers, reqLayer, inLine, nrPhase, nrKind, nrLayer, nrNode>>
  PROVE  TreeOK'
<1> USE DEF layerVars, deleteVars
<1>1. CASE IsCreatingFromUnder(p)
  <2>1. /\ req' = [req EXCEPT ![p] = "dead"]
        /\ UNCHANGED <<init, target, layerOf, inLayer, delLayer, deleteCount, prioTo, createCount>>
    BY <1>1 DEF CancelFailed
  <2> QED BY <2>1, PhaseTree
<1>2. CASE ~IsCreatingFromUnder(p)
  <2>1. PICK R \in Refusals(p) : ToDeleteQ(p, R, "dead")
    BY <1>2 DEF CancelFailed
  <2>2. Placed(p)
    BY DEF TreeOK, Records, LifeOK, Placed
  <2>3. \A r \in NodeReq : nrPhase'[r] = "delete" => nrPhase[r] = "delete" /\ nrNode[r] # p
    BY DEF VictimOK
  <2> QED BY <1>2, <2>1, <2>2, <2>3, ToDeleteQTree
<1> QED BY <1>1, <1>2

(* A request for a process that was not there, in a living layer; a fast   *)
(* one makes the process with it.                                          *)
LEMMA NewRequestTree ==
  ASSUME TypeOK, LifeOK, TreeOK, NEW q \in Proc, NEW l \in Layer, NEW ph \in {"load", "fast", "dead"},
         NewRequest(q, l, ph), life[q] = "unborn", LiveLayer(l),
         life' = [life EXCEPT ![q] = IF ph = "load" THEN "requested" ELSE "alive"],
         IF ph = "load" THEN layerOf' = layerOf
         ELSE q \in Leaf /\ layerOf' = [layerOf EXCEPT ![q] = l],
         UNCHANGED <<init, target, inLayer, inLine, layers, delLayer, deleteCount, prioTo, nrLayer>>,
         \A r \in NodeReq : nrPhase'[r] = "none" <=> nrPhase[r] = "none",
         \A r \in NodeReq : nrPhase'[r] = "delete" => nrPhase[r] = "delete" /\ nrNode'[r] = nrNode[r]
  PROVE  TreeOK'
<1>0. /\ Records /\ Moves /\ Lines /\ LayersOf /\ Targets /\ DyingIn /\ Requested /\ Layers
      /\ Victims /\ CreateExact /\ DeleteExact
  BY DEF TreeOK
<1>1. req' = [req EXCEPT ![q] = ph] /\ reqLayer' = [reqLayer EXCEPT ![q] = l]
  BY DEF NewRequest
<1>2. /\ req[q] = "none" /\ init[q] < 2 /\ q \notin inLayer /\ target[q] = None
      /\ delLayer[q] = None /\ l # q /\ l # None
  <2>1. init[q] < 2 /\ q \notin inLayer
    BY DEF LifeOK, TypeOK
  <2>2. req[q] = "none" /\ target[q] = None /\ delLayer[q] = None
    BY <1>0 DEF Records, Placed
  <2>3. l # q /\ l # None
    BY FrameworkAssumption DEF LiveLayer, Layer
  <2> QED BY <2>1, <2>2, <2>3
<1>3. \A p \in Proc : p # q => /\ life'[p] = life[p] /\ req'[p] = req[p]
                               /\ reqLayer'[p] = reqLayer[p] /\ layerOf'[p] = layerOf[p]
  BY <1>1 DEF TypeOK
<1>4. /\ req'[q] = ph /\ reqLayer'[q] = l
      /\ ph = "load" => life'[q] = "requested"
      /\ ph # "load" => life'[q] = "alive" /\ layerOf'[q] = l /\ q \in Leaf
  BY <1>1 DEF TypeOK
<1>5. Records'
  BY <1>0, <1>2, <1>3, <1>4 DEF Records, Placed, Leaf
<1>6. Moves'
  BY <1>0 DEF Moves
<1>16. Lines'
  <2>1. \A p \in inLayer : layerOf'[p] = layerOf[p]
    BY <1>2, <1>3 DEF TypeOK
  <2> QED BY <1>0, <2>1 DEF Lines, LinedTogether
<1>7. ASSUME NEW k, LiveLayer(k) PROVE LiveLayer(k)'
  BY <1>3, <1>7, FrameworkAssumption DEF LiveLayer
<1>8. LayersOf'
  <2> SUFFICES ASSUME NEW p \in Proc
        PROVE  /\ Placed(p)' => LiveLayer(layerOf[p])' /\ layerOf'[p] # p
               /\ req'[p] # "none" => LiveLayer(reqLayer[p])' /\ reqLayer'[p] # p
    BY DEF LayersOf, LiveLayer
  <2>1. Placed(p)' => LiveLayer(layerOf'[p]) /\ layerOf'[p] # p
    BY <1>0, <1>2, <1>3, <1>4 DEF LayersOf, Placed
  <2>2. req'[p] # "none" => LiveLayer(reqLayer'[p]) /\ reqLayer'[p] # p
    BY <1>0, <1>2, <1>3, <1>4 DEF LayersOf
  <2> QED BY <1>3, <2>1, <2>2, FrameworkAssumption DEF LiveLayer
<1>9. Targets'
  <2>1. \A p \in Proc : req'[p] # "none" /\ target'[p] # None =>
             req[p] # "none" /\ target[p] = target'[p] /\ reqLayer[p] = reqLayer'[p]
    BY <1>2, <1>3
  <2>2. \A n \in Node : Placed(n) => reqLayer'[n] = reqLayer[n]
    BY <1>3, FrameworkAssumption DEF Placed
  <2> QED BY <1>0, <2>1, <2>2, TargetsKept
<1>10. DyingIn'
  BY <1>0, <1>2, <1>3 DEF DyingIn
<1>11. Requested'
  <2> SUFFICES ASSUME NEW r \in NodeReq, nrPhase'[r] # "none" PROVE LiveLayer(nrLayer[r])'
    BY DEF Requested, LiveLayer
  <2>1. LiveLayer(nrLayer[r])
    BY <1>0 DEF Requested
  <2> QED BY <1>3, <2>1, FrameworkAssumption DEF LiveLayer
<1>12. Layers'
  BY <1>0, <1>3, <1>4, FrameworkAssumption DEF Layers, Leaf
<1>13. Victims'
  <2>1. \A p \in inLayer : layerOf'[p] = layerOf[p]
    BY <1>2, <1>3 DEF TypeOK
  <2> QED BY <1>0, <2>1 DEF Victims
<1>14. CreateExact'
  <2>1. \A k \in Layer : NodeRequests(k)' = NodeRequests(k)
    BY DEF NodeRequests
  <2> QED BY <1>0, <1>2, <2>1, CreationAdded
<1>15. DeleteExact'
  <2>1. \A k \in Layer : Deletions(k)' = Deletions(k)
    BY <1>2, <1>3 DEF Deletions
  <2> QED BY <1>0, <2>1, DeleteKept
<1> QED
  BY <1>5, <1>6, <1>16, <1>8, <1>9, <1>10, <1>11, <1>12, <1>13, <1>14, <1>15 DEF TreeOK

(* A fast creation that fails leaves a dying process.                      *)
LEMMA CallFastCreateFailsTree ==
  ASSUME TypeOK, LifeOK, TreeOK, NEW q \in Proc, CallFastCreateFails(q),
         curLayer \in layers
  PROVE  TreeOK'
<1> USE DEF layerVars, nodeReqVars
<1>0. /\ Records /\ Moves /\ Lines /\ LayersOf /\ Targets /\ DyingIn /\ Requested /\ Layers
      /\ Victims /\ CreateExact /\ DeleteExact
  BY DEF TreeOK
<1> DEFINE k == curLayer
<1>1. /\ q \in Fast /\ life[q] = "unborn"
      /\ life' = [life EXCEPT ![q] = "alive"] /\ init' = [init EXCEPT ![q] = 3]
      /\ reqLayer' = [reqLayer EXCEPT ![q] = k] /\ delLayer' = [delLayer EXCEPT ![q] = k]
      /\ deleteCount' = [deleteCount EXCEPT ![k] = deleteCount[k] + 1]
      /\ UNCHANGED <<target, req, layerOf, inLayer, inLine, layers, prioTo, createCount,
                     nrPhase, nrKind, nrLayer, nrNode>>
  BY DEF CallFastCreateFails, InMethod
<1>2. /\ q \in Leaf /\ q \notin Node /\ k \in Layer /\ k # q /\ k # None
  BY <1>0, <1>1, FrameworkAssumption DEF Layers, Leaf, Layer
<1>3. req[q] = "none" /\ target[q] = None /\ q \notin inLayer /\ init[q] < 2
  <2>1. init[q] < 2 /\ q \notin inLayer
    BY <1>1 DEF LifeOK, TypeOK
  <2>2. req[q] = "none" /\ target[q] = None
    BY <1>0, <1>1 DEF Records, Placed
  <2> QED BY <2>1, <2>2
<1>4. \A p \in Proc : p # q => /\ life'[p] = life[p] /\ init'[p] = init[p]
                               /\ reqLayer'[p] = reqLayer[p] /\ delLayer'[p] = delLayer[p]
  BY <1>1 DEF TypeOK
<1>5. life'[q] = "alive" /\ init'[q] = 3 /\ delLayer'[q] = k
  BY <1>1 DEF TypeOK
<1>6. Records'
  BY <1>0, <1>1, <1>3, <1>4, <1>5 DEF Records, Placed
<1>7. Moves'
  BY <1>0, <1>1, <1>3, <1>4, FrameworkAssumption DEF Moves, TypeOK
<1>8. Lines'
  BY <1>0, <1>1, <1>3, <1>4, <1>5 DEF Lines, LinedTogether, TypeOK
<1>9. ASSUME NEW l, LiveLayer(l) PROVE LiveLayer(l)'
  BY <1>1, <1>4, <1>9, FrameworkAssumption DEF LiveLayer
<1>10. LayersOf'
  <2> SUFFICES ASSUME NEW p \in Proc
        PROVE  /\ Placed(p)' => LiveLayer(layerOf[p])' /\ layerOf'[p] # p
               /\ req'[p] # "none" => LiveLayer(reqLayer[p])' /\ reqLayer'[p] # p
    BY DEF LayersOf, LiveLayer
  <2>1. Placed(p)' => LiveLayer(layerOf[p]) /\ layerOf[p] # p
    BY <1>0, <1>4, <1>5 DEF LayersOf, Placed
  <2>2. req'[p] # "none" => LiveLayer(reqLayer[p]) /\ reqLayer[p] # p /\ reqLayer'[p] = reqLayer[p]
    BY <1>0, <1>1, <1>3, <1>4 DEF LayersOf
  <2> QED BY <1>1, <1>4, <2>1, <2>2, FrameworkAssumption DEF LiveLayer
<1>11. Targets'
  <2>1. \A p \in Proc : req'[p] # "none" /\ target'[p] # None =>
             req[p] # "none" /\ target[p] = target'[p] /\ reqLayer[p] = reqLayer'[p]
    BY <1>1, <1>3, <1>4
  <2>2. \A n \in Node : Placed(n) => reqLayer'[n] = reqLayer[n]
    BY <1>2, <1>4, FrameworkAssumption
  <2> QED BY <1>0, <2>1, <2>2, TargetsKept
<1>12. DyingIn'
  BY <1>0, <1>1, <1>2, <1>4, <1>5 DEF DyingIn
<1>13. Requested'
  <2> SUFFICES ASSUME NEW r \in NodeReq, nrPhase[r] # "none" PROVE LiveLayer(nrLayer[r])'
    BY <1>1 DEF Requested, LiveLayer
  <2>1. LiveLayer(nrLayer[r])
    BY <1>0 DEF Requested
  <2> QED BY <1>1, <1>4, <2>1, FrameworkAssumption DEF LiveLayer
<1>14. Layers' /\ Victims'
  BY <1>0, <1>1, <1>2, <1>4, FrameworkAssumption DEF Layers, Victims
<1>15. CreateExact'
  <2>1. \A l \in Layer : Creations(l)' = Creations(l) /\ NodeRequests(l)' = NodeRequests(l)
    BY <1>1, <1>3, <1>4 DEF Creations, NodeRequests
  <2> QED BY <1>0, <1>1, <2>1, CreateKept
<1>16. DeleteExact'
  <2> HIDE DEF k
  <2> QED BY <1>0, <1>1, <1>2, DeletionAdded
<1> QED
  BY <1>6, <1>7, <1>8, <1>10, <1>11, <1>12, <1>13, <1>14, <1>15, <1>16 DEF TreeOK

(* A process is allocated; a node makes its layer.                         *)
LEMMA CreateBeginsTree ==
  ASSUME TypeOK, LifeOK, TreeOK, NEW p \in Proc, CreateBegins(p)
  PROVE  TreeOK'
<1> USE DEF deleteVars, nodeReqVars
<1>0. /\ Records /\ Moves /\ Lines /\ LayersOf /\ Targets /\ DyingIn /\ Requested /\ Layers
      /\ Victims /\ CreateExact /\ DeleteExact
  BY DEF TreeOK
<1>1. /\ req[p] \in {"load", "sub"} /\ req' = [req EXCEPT ![p] = "sub"]
      /\ life' = [life EXCEPT ![p] = "alive"] /\ layerOf' = [layerOf EXCEPT ![p] = reqLayer[p]]
      /\ layers' = IF p \in Node THEN layers \union {p} ELSE layers
      /\ UNCHANGED <<init, target, reqLayer, inLayer, inLine, delLayer, deleteCount, prioTo,
                     createCount, nrPhase, nrKind, nrLayer, nrNode>>
  BY DEF CreateBegins
<1>2. init[p] < 2 /\ p \notin inLayer /\ LiveLayer(reqLayer[p]) /\ reqLayer[p] # p
  BY <1>0, <1>1 DEF LifeOK, LayersOf
<1>3. \A q \in Proc : /\ q # p => life'[q] = life[q] /\ req'[q] = req[q] /\ layerOf'[q] = layerOf[q]
                      /\ req'[q] = "none" <=> req[q] = "none"
  BY <1>1 DEF TypeOK
<1>4. life'[p] = "alive" /\ req'[p] = "sub" /\ layerOf'[p] = reqLayer[p]
  BY <1>1 DEF TypeOK
<1>5. Records'
  <2>1. target[p] # None => p \in Leaf
    BY <1>0 DEF Records
  <2>2. delLayer[p] = None
    BY <1>0, <1>2 DEF Records, TypeOK
  <2> QED BY <1>0, <1>1, <1>2, <1>3, <1>4, <2>1, <2>2 DEF Records, Placed
<1>6. Moves'
  BY <1>0, <1>1 DEF Moves
<1>7. \A q \in inLayer : layerOf'[q] = layerOf[q]
  BY <1>2, <1>3 DEF TypeOK
<1>8. Lines' /\ Victims'
  BY <1>0, <1>1, <1>7 DEF Lines, LinedTogether, Victims
<1>9. ASSUME NEW k, LiveLayer(k) PROVE LiveLayer(k)'
  BY <1>1, <1>3, <1>4, <1>9, FrameworkAssumption DEF LiveLayer
<1>10. LayersOf'
  <2> SUFFICES ASSUME NEW q \in Proc
        PROVE  /\ Placed(q)' => LiveLayer(layerOf[q])' /\ layerOf'[q] # q
               /\ req'[q] # "none" => LiveLayer(reqLayer[q])' /\ reqLayer'[q] # q
    BY DEF LayersOf, LiveLayer
  <2>1. Placed(q)' => LiveLayer(layerOf'[q]) /\ layerOf'[q] # q
    BY <1>0, <1>1, <1>2, <1>3, <1>4 DEF LayersOf, Placed
  <2>2. req'[q] # "none" => LiveLayer(reqLayer[q]) /\ reqLayer[q] # q
    BY <1>0, <1>3 DEF LayersOf
  <2> QED BY <1>1, <1>3, <1>4, <2>1, <2>2, FrameworkAssumption DEF LiveLayer
<1>11. Targets'
  BY <1>0, <1>1, <1>3, TargetsKept
<1>12. DyingIn'
  BY <1>0, <1>1, <1>2, <1>3 DEF DyingIn
<1>13. Requested'
  <2> SUFFICES ASSUME NEW r \in NodeReq, nrPhase[r] # "none" PROVE LiveLayer(nrLayer[r])'
    BY <1>1 DEF Requested, LiveLayer
  <2>1. LiveLayer(nrLayer[r])
    BY <1>0 DEF Requested
  <2> QED BY <1>1, <1>3, <1>4, <2>1, FrameworkAssumption DEF LiveLayer
<1>14. Layers'
  BY <1>0, <1>1, <1>3, <1>4, FrameworkAssumption DEF Layers
<1>15. \A k \in Layer : /\ Creations(k)' = Creations(k) /\ NodeRequests(k)' = NodeRequests(k)
                        /\ Deletions(k)' = Deletions(k)
  BY <1>1, <1>2, <1>3 DEF Creations, NodeRequests, Deletions
<1>16. CreateExact' /\ DeleteExact'
  BY <1>0, <1>1, <1>15, CreateKept, DeleteKept
<1> QED
  BY <1>5, <1>6, <1>8, <1>10, <1>11, <1>12, <1>13, <1>14, <1>16 DEF TreeOK

LEMMA CreateLoadingTree ==
  ASSUME TypeOK, LifeOK, TreeOK, NEW p \in Proc, CreateLoading(p), req[p] = "sub"
  PROVE  TreeOK'
<1> USE DEF layerVars, deleteVars, nodeReqVars
<1>0. /\ Records /\ Moves /\ Lines /\ LayersOf /\ Targets /\ DyingIn /\ Requested /\ Layers
      /\ Victims /\ CreateExact /\ DeleteExact
  BY DEF TreeOK
<1>1. /\ init' = [init EXCEPT ![p] = 1]
      /\ UNCHANGED <<life, target, req, reqLayer, layers, layerOf, inLayer, inLine, delLayer,
                     deleteCount, prioTo, createCount, nrPhase, nrKind, nrLayer, nrNode>>
  BY DEF CreateLoading
<1>2. init[p] < 2 /\ p \notin inLayer /\ p \notin inLine
  BY <1>0 DEF LifeOK, Lines, TypeOK
<1>3. \A q \in Proc : init'[q] = IF q = p THEN 1 ELSE init[q]
  BY <1>1 DEF TypeOK
<1>4. \A q \in Proc : (init'[q] = 3 <=> init[q] = 3) /\ (init'[q] = 2 <=> init[q] = 2)
  BY <1>2, <1>3
<1>5. Records'
  BY <1>0, <1>1, <1>4 DEF Records, Placed
<1>6. Moves'
  BY <1>0, <1>1, <1>4, FrameworkAssumption DEF Moves
<1>7. Lines'
  BY <1>0, <1>1, <1>2, <1>3 DEF Lines, LinedTogether, TypeOK
<1>8. LayersOf'
  <2> SUFFICES ASSUME NEW q \in Proc
        PROVE  /\ Placed(q)' => LiveLayer(layerOf[q])' /\ layerOf'[q] # q
               /\ req'[q] # "none" => LiveLayer(reqLayer[q])' /\ reqLayer'[q] # q
    BY DEF LayersOf, LiveLayer
  <2>1. Placed(q)' => LiveLayer(layerOf[q]) /\ layerOf[q] # q
    BY <1>0, <1>1, <1>4 DEF LayersOf, Placed
  <2>2. req[q] # "none" => LiveLayer(reqLayer[q]) /\ reqLayer[q] # q
    BY <1>0 DEF LayersOf
  <2> QED BY <1>1, <1>4, <2>1, <2>2, FrameworkAssumption DEF LiveLayer
<1>9. Targets'
  BY <1>0, <1>1, TargetsKept
<1>10. DyingIn' /\ Layers' /\ Victims'
  BY <1>0, <1>1, <1>4 DEF DyingIn, Layers, Victims
<1>11. Requested'
  <2> SUFFICES ASSUME NEW r \in NodeReq, nrPhase[r] # "none" PROVE LiveLayer(nrLayer[r])'
    BY <1>1 DEF Requested, LiveLayer
  <2>1. LiveLayer(nrLayer[r])
    BY <1>0 DEF Requested
  <2> QED BY <1>1, <1>4, <2>1, FrameworkAssumption DEF LiveLayer
<1>12. \A k \in Layer : /\ Creations(k)' = Creations(k) /\ NodeRequests(k)' = NodeRequests(k)
                        /\ Deletions(k)' = Deletions(k)
  BY <1>1, <1>4 DEF Creations, NodeRequests, Deletions
<1>13. CreateExact' /\ DeleteExact'
  BY <1>0, <1>1, <1>12, CreateKept, DeleteKept
<1> QED BY <1>5, <1>6, <1>7, <1>8, <1>9, <1>10, <1>11, <1>13 DEF TreeOK

(* A pending move can be made: both layers execute.                        *)
LEMMA MovePossible ==
  ASSUME TypeOK, TreeOK, NEW p \in Proc, prioTo[p] # None
  PROVE  /\ p \in Leaf /\ p \in inLayer \intersect inLine /\ Placed(p)
         /\ prioTo[p] \in Node /\ prioTo[p] \in layers /\ prioTo[p] \in inLine
         /\ init[prioTo[p]] = 2 /\ LiveLayer(prioTo[p])
<1>0. Records /\ Moves /\ Lines /\ Layers
  BY DEF TreeOK
<1>1. p \in Leaf /\ init[p] = 2 /\ prioTo[p] \in Node /\ prioTo[p] \in Proc /\ init[prioTo[p]] = 2
  BY <1>0, FrameworkAssumption DEF Moves
<1>2. p \in inLine /\ p \in inLayer /\ prioTo[p] \in inLine /\ prioTo[p] \in inLayer
  BY <1>0, <1>1 DEF Lines, LinedTogether
<1>3. life[p] = "alive" /\ life[prioTo[p]] = "alive"
  BY <1>0, <1>1, <1>2 DEF Records
<1> QED BY <1>0, <1>1, <1>2, <1>3 DEF Placed, LiveLayer, Layers

LEMMA PriorityMoveTree ==
  ASSUME TypeOK, LifeOK, TreeOK, NEW p \in Proc, PriorityMove(p)
  PROVE  TreeOK' /\ phase' = "priority"
<1> USE DEF deleteVars, nodeReqVars, requestVars
<1>0. /\ Records /\ Moves /\ Lines /\ LayersOf /\ Targets /\ DyingIn /\ Requested /\ Layers
      /\ Victims /\ CreateExact /\ DeleteExact
  BY DEF TreeOK
<1> DEFINE l == prioTo[p]
<1>1. /\ p \in Leaf /\ p \in inLayer /\ p \in inLine /\ Placed(p)
      /\ l \in Node /\ l \in layers /\ l \in inLine /\ LiveLayer(l)
  BY MovePossible DEF PriorityMove
<1>2. /\ phase' = "priority" /\ prioTo' = [prioTo EXCEPT ![p] = None]
      /\ layerOf' = [layerOf EXCEPT ![p] = l] /\ target' = [target EXCEPT ![p] = l]
      /\ UNCHANGED <<life, init, req, reqLayer, layers, inLayer, inLine, delLayer, deleteCount,
                     createCount, nrPhase, nrKind, nrLayer, nrNode>>
  BY <1>1 DEF PriorityMove
<1>3. req[p] = "none" /\ l # p /\ p \notin Node
  BY <1>1 DEF LifeOK, Leaf
<1>4. \A q \in Proc : q # p => layerOf'[q] = layerOf[q] /\ target'[q] = target[q]
                               /\ prioTo'[q] = prioTo[q]
  BY <1>2 DEF TypeOK
<1>5. layerOf'[p] = l /\ target'[p] = l /\ prioTo'[p] = None
  BY <1>2 DEF TypeOK
<1> HIDE DEF l
<1>6. Records'
  BY <1>0, <1>1, <1>2, <1>3, <1>4 DEF Records, Placed
<1>7. Moves'
  BY <1>0, <1>2, <1>4, <1>5 DEF Moves
<1>8. Lines'
  BY <1>0, <1>1, <1>2, <1>4, <1>5 DEF Lines, LinedTogether, TypeOK
<1>9. LayersOf'
  <2> SUFFICES ASSUME NEW q \in Proc
        PROVE  /\ Placed(q)' => LiveLayer(layerOf[q])' /\ layerOf'[q] # q
               /\ req'[q] # "none" => LiveLayer(reqLayer[q])' /\ reqLayer'[q] # q
    BY DEF LayersOf, LiveLayer
  <2>1. Placed(q)' => LiveLayer(layerOf'[q]) /\ layerOf'[q] # q
    BY <1>0, <1>1, <1>2, <1>3, <1>4, <1>5 DEF LayersOf, Placed
  <2>2. req[q] # "none" => LiveLayer(reqLayer[q]) /\ reqLayer[q] # q
    BY <1>0 DEF LayersOf
  <2> QED BY <1>2, <2>1, <2>2 DEF LiveLayer
<1>10. Targets'
  <2>1. \A q \in Proc : req'[q] # "none" /\ target'[q] # None =>
             req[q] # "none" /\ target[q] = target'[q] /\ reqLayer[q] = reqLayer'[q]
    BY <1>2, <1>3, <1>4
  <2> QED BY <1>0, <1>2, <2>1, TargetsKept
<1>11. DyingIn' /\ Requested' /\ Layers'
  BY <1>0, <1>2 DEF DyingIn, Requested, Layers, LiveLayer
<1>12. Victims'
  BY <1>0, <1>2, <1>3, <1>4, FrameworkAssumption DEF Victims
<1>13. CreateExact' /\ DeleteExact'
  BY <1>0, <1>2 DEF CreateExact, DeleteExact, Creations, NodeRequests, Deletions
<1> QED BY <1>2, <1>6, <1>7, <1>8, <1>9, <1>10, <1>11, <1>12, <1>13 DEF TreeOK

(* A target is above the request, and a move is queued between executing   *)
(* layers.                                                                 *)
LEMMA CallChangeLayerTree ==
  ASSUME TypeOK, LifeOK, TreeOK, NEW q \in Proc, NEW l \in Node, CallChangeLayer(q, l)
  PROVE  TreeOK'
<1> USE DEF layerVars, deleteVars, nodeReqVars, requestVars
<1>0. /\ Records /\ Moves /\ Lines /\ LayersOf /\ Targets /\ DyingIn /\ Requested /\ Layers
      /\ Victims /\ CreateExact /\ DeleteExact
  BY DEF TreeOK
<1>1. /\ q \in Leaf /\ Placed(q)
      /\ UNCHANGED <<life, init, req, reqLayer, layers, layerOf, inLayer, inLine, delLayer,
                     deleteCount, createCount, nrPhase, nrKind, nrLayer, nrNode>>
  BY DEF CallChangeLayer, InMethod, Placed
<1>2. Lines' /\ DyingIn' /\ Requested' /\ Layers' /\ Victims' /\ CreateExact' /\ DeleteExact'
  BY <1>0, <1>1 DEF Lines, LinedTogether, DyingIn, Requested, Layers, Victims, LiveLayer,
     CreateExact, DeleteExact, Creations, NodeRequests, Deletions
<1>3. LayersOf'
  BY <1>0, <1>1 DEF LayersOf, Placed, LiveLayer
<1>4. CASE init[q] < 2
  <2>1. l \in Above(reqLayer[q]) /\ target' = [target EXCEPT ![q] = l] /\ prioTo' = prioTo
    BY <1>4 DEF CallChangeLayer
  <2>2. \A p \in Proc : target'[p] = IF p = q THEN l ELSE target[p]
    BY <2>1 DEF TypeOK
  <2>3. Records' /\ Moves'
    BY <1>0, <1>1, <2>1, <2>2 DEF Records, Placed, Moves
  <2>4. Targets'
    BY <1>0, <1>1, <2>1, <2>2 DEF Targets, Above
  <2> QED BY <1>2, <1>3, <2>3, <2>4 DEF TreeOK
<1>5. CASE ~(init[q] < 2)
  <2>1. init[l] = 2 /\ prioTo' = [prioTo EXCEPT ![q] = l] /\ target' = target
    BY <1>5 DEF CallChangeLayer
  <2>2. \A p \in Proc : prioTo'[p] = IF p = q THEN l ELSE prioTo[p]
    BY <2>1 DEF TypeOK
  <2>3. init[q] = 2
    BY <1>1, <1>5 DEF Placed, TypeOK
  <2>4. Records'
    BY <1>0, <1>1, <2>1 DEF Records, Placed
  <2>5. Moves'
    BY <1>0, <1>1, <2>1, <2>2, <2>3 DEF Moves
  <2>6. Targets'
    BY <1>0, <1>1, <2>1 DEF Targets, Above
  <2> QED BY <1>2, <1>3, <2>4, <2>5, <2>6 DEF TreeOK
<1> QED BY <1>4, <1>5

(* The node requests                                                       *)
LEMMA NodeRequestTree ==
  ASSUME TypeOK, TreeOK, NEW r \in NodeReq, NEW kind \in {"create", "delete", "change"},
         NEW l \in Layer, NEW n \in Maybe(Node), NewNodeReq(r, kind, l, n), LiveLayer(l),
         kind # "create" => n \in Node \intersect inLayer /\ l = layerOf[n] /\ IsPossibleTarget(n),
         UNCHANGED <<life, init, target, req, reqLayer, layers, layerOf, inLayer, inLine,
             delLayer, deleteCount, prioTo>>
  PROVE  TreeOK'
<1>0. /\ Records /\ Moves /\ Lines /\ LayersOf /\ Targets /\ DyingIn /\ Requested /\ Layers
      /\ Victims /\ CreateExact /\ DeleteExact
  BY DEF TreeOK
<1>1. Records' /\ Moves' /\ Lines' /\ DyingIn' /\ Layers' /\ DeleteExact'
  BY <1>0 DEF Records, Placed, Moves, Lines, LinedTogether, DyingIn, Layers, DeleteExact, Deletions
<1>2. LayersOf' /\ Targets'
  BY <1>0 DEF LayersOf, Placed, LiveLayer, Targets, Above
<1>3. /\ nrPhase' = [nrPhase EXCEPT ![r] = IF kind = "create" THEN "create" ELSE "delete"]
      /\ nrLayer' = [nrLayer EXCEPT ![r] = l] /\ nrNode' = [nrNode EXCEPT ![r] = n]
  BY DEF NewNodeReq
<1>4. \A s \in NodeReq : IF s = r THEN /\ nrPhase'[s] = IF kind = "create" THEN "create" ELSE "delete"
                                       /\ nrLayer'[s] = l /\ nrNode'[s] = n
                         ELSE nrPhase'[s] = nrPhase[s] /\ nrLayer'[s] = nrLayer[s]
                              /\ nrNode'[s] = nrNode[s]
  BY <1>3 DEF TypeOK
<1>5. Requested'
  <2> SUFFICES ASSUME NEW s \in NodeReq, nrPhase'[s] # "none" PROVE LiveLayer(nrLayer[s])'
    BY DEF Requested, LiveLayer
  <2>1. LiveLayer(nrLayer'[s])
    BY <1>0, <1>4 DEF Requested
  <2> QED BY <2>1 DEF LiveLayer
<1>6. Victims'
  BY <1>0, <1>4 DEF Victims, IsPossibleTarget
<1>7. CreateExact'
  BY <1>0, NodeRequestAdded
<1> QED BY <1>1, <1>2, <1>5, <1>6, <1>7 DEF TreeOK

LEMMA NodeReqEndsTree ==
  ASSUME TypeOK, TreeOK, NEW r \in NodeReq, NodeReqEnds(r)
  PROVE  TreeOK'
<1> USE DEF layerVars, deleteVars
<1>0. /\ Records /\ Moves /\ Lines /\ LayersOf /\ Targets /\ DyingIn /\ Requested /\ Layers
      /\ Victims /\ CreateExact /\ DeleteExact
  BY DEF TreeOK
<1>1. /\ nrPhase[r] # "none" /\ nrPhase' = [nrPhase EXCEPT ![r] = "none"]
      /\ nrLayer' = [nrLayer EXCEPT ![r] = None] /\ nrNode' = [nrNode EXCEPT ![r] = None]
      /\ UNCHANGED <<life, init, target, req, reqLayer, layers, layerOf, inLayer, inLine,
             delLayer, deleteCount, prioTo>>
  BY DEF NodeReqEnds, InManage
<1>2. Records' /\ Moves' /\ Lines' /\ DyingIn' /\ Layers' /\ DeleteExact'
  BY <1>0, <1>1 DEF Records, Placed, Moves, Lines, LinedTogether, DyingIn, Layers, DeleteExact,
                    Deletions
<1>3. LayersOf' /\ Targets'
  BY <1>0, <1>1 DEF LayersOf, Placed, LiveLayer, Targets, Above
<1>4. \A s \in NodeReq : IF s = r THEN nrPhase'[s] = "none"
                         ELSE nrPhase'[s] = nrPhase[s] /\ nrLayer'[s] = nrLayer[s]
                              /\ nrNode'[s] = nrNode[s]
  BY <1>1 DEF TypeOK
<1>5. Requested'
  <2> SUFFICES ASSUME NEW s \in NodeReq, nrPhase'[s] # "none" PROVE LiveLayer(nrLayer[s])'
    BY DEF Requested, LiveLayer
  <2>1. LiveLayer(nrLayer'[s])
    BY <1>0, <1>4 DEF Requested
  <2> QED BY <1>1, <2>1 DEF LiveLayer
<1>6. Victims'
  BY <1>0, <1>1, <1>4 DEF Victims
<1>7. CreateExact'
  <2>1. nrLayer[r] \in Layer
    BY <1>0, <1>1, LiveIsLayer DEF Requested
  <2> QED BY <1>0, <1>1, <2>1, NodeRequestDropped
<1> QED BY <1>2, <1>3, <1>5, <1>6, <1>7 DEF TreeOK

LEMMA NodeReqDeletedTree ==
  ASSUME TypeOK, TreeOK, NEW r \in NodeReq, NodeReqDeleted(r)
  PROVE  TreeOK'
<1> USE DEF layerVars, deleteVars
<1>0. /\ Records /\ Moves /\ Lines /\ LayersOf /\ Targets /\ DyingIn /\ Requested /\ Layers
      /\ Victims /\ CreateExact /\ DeleteExact
  BY DEF TreeOK
<1>1. /\ nrPhase[r] = "deleted" /\ nrPhase' = [nrPhase EXCEPT ![r] = "create"]
      /\ nrNode' = [nrNode EXCEPT ![r] = None]
      /\ UNCHANGED <<life, init, target, req, reqLayer, layers, layerOf, inLayer, inLine,
             delLayer, deleteCount, prioTo, createCount, nrLayer>>
  BY DEF NodeReqDeleted, InManage
<1>2. Records' /\ Moves' /\ Lines' /\ DyingIn' /\ Layers' /\ DeleteExact'
  BY <1>0, <1>1 DEF Records, Placed, Moves, Lines, LinedTogether, DyingIn, Layers, DeleteExact,
                    Deletions
<1>3. LayersOf' /\ Targets'
  BY <1>0, <1>1 DEF LayersOf, Placed, LiveLayer, Targets, Above
<1>4. \A s \in NodeReq : /\ nrPhase'[s] = "none" <=> nrPhase[s] = "none"
                         /\ nrPhase'[s] = "delete" => nrPhase[s] = "delete" /\ nrNode'[s] = nrNode[s]
  BY <1>1 DEF TypeOK
<1>5. Requested' /\ Victims'
  BY <1>0, <1>1, <1>4 DEF Requested, LiveLayer, Victims
<1>6. CreateExact'
  <2>1. \A k \in Layer : Creations(k)' = Creations(k) /\ NodeRequests(k)' = NodeRequests(k)
    BY <1>1, <1>4 DEF Creations, NodeRequests
  <2> QED BY <1>0, <1>1, <2>1, CreateKept
<1> QED BY <1>2, <1>3, <1>5, <1>6 DEF TreeOK

(* An actor is deleted by a method or by the overlap manager.              *)
LEMMA LeafDeletedTree ==
  ASSUME TypeOK, Lifecycle, TreeOK, NEW q \in Leaf, CanDelete(q), ToDeleteQ(q, {}, req[q]),
         UNCHANGED <<life, layers, reqLayer, inLine, nrPhase, nrKind, nrLayer, nrNode>>
  PROVE  TreeOK' /\ Deletes(q, Queued(q, {}))
<1>1. q \in Proc /\ q \notin Node /\ Placed(q) /\ req[q] # "dead" /\ ~IsCreatingFromUnder(q)
  BY LeafNotDead DEF CanDelete, Placed, IsCreatingFromUnder, Leaf
<1>2. \A r \in NodeReq : nrPhase'[r] = "delete" => nrPhase[r] = "delete" /\ nrNode[r] # q
  BY <1>1 DEF Lifecycle, VictimOK
<1> QED BY <1>1, <1>2, ToDeleteQTree DEF Lifecycle

LEMMA NodeReqDeleteTree ==
  ASSUME TypeOK, Lifecycle, TreeOK, NEW r \in NodeReq, NodeReqDelete(r)
  PROVE  TreeOK' /\ \E R : Deletes(nrNode[r], Queued(nrNode[r], R))
<1> DEFINE n == nrNode[r]
<1>1. /\ nrPhase[r] = "delete" /\ n \in Proc /\ Placed(n) /\ req[n] = "none"
      /\ ~IsCreatingFromUnder(n)
  BY FrameworkAssumption DEF NodeReqDelete, Lifecycle, VictimOK, CanDelete, Placed
<1>2. PICK R \in Refusals(n) :
          /\ ToDeleteQ(n, R, req[n])
          /\ nrPhase' = IF n \in Queued(n, R) THEN [nrPhase EXCEPT ![r] = "deleted"] ELSE nrPhase
  BY DEF NodeReqDelete
<1>3. UNCHANGED <<life, layers, reqLayer, inLine, nrLayer, nrNode>>
  BY DEF NodeReqDelete, InManage
<1>4. \A s \in NodeReq : nrPhase'[s] = "none" <=> nrPhase[s] = "none"
  BY <1>1, <1>2 DEF TypeOK
<1>5. \A s \in NodeReq : nrPhase'[s] = "delete" =>
          nrPhase[s] = "delete" /\ (n \in Queued(n, R) => nrNode[s] # n)
  BY <1>1, <1>2 DEF TreeOK, Victims, TypeOK
<1> HIDE DEF n
<1>6. req[n] # "dead"
  BY <1>1
<1>7. TreeOK' /\ Deletes(n, Queued(n, R))
  BY <1>1, <1>2, <1>3, <1>4, <1>5, <1>6, ToDeleteQTree DEF Lifecycle
<1> QED BY <1>7 DEF n

LEMMA DeletePassTree ==
  ASSUME TypeOK, Lifecycle, Iteration, Current, TreeOK, NEW p \in Proc, DeletePass(p)
  PROVE  TreeOK'
<1> USE DEF layerVars, nodeReqVars, deleteVars, requestVars
<1>1. LifeOK /\ todo \subseteq Proc
  BY DEF Lifecycle, TypeOK
<1>2. CASE DeleteTimer(p) \/ DeleteRetries(p)
  BY <1>2, TreeKept DEF DeleteTimer, DeleteRetries
<1>3. CASE DeleteWaits(p) \/ DeleteBegins(p)
  <2>1. next = p /\ phase = "delete"
    BY <1>3 DEF DeleteWaits, DeleteBegins, Visiting
  <2>2. init[p] = 3
    BY <2>1, FrameworkAssumption DEF Iteration, Position, InQueue, QueueDying
  <2> QED BY <1>1, <1>3, <2>2, LineCutTree DEF DeleteWaits, DeleteBegins
<1>4. CASE DeleteSucceeds(p)
  <2>1. phase = "delete" /\ cursor = p /\ p # None
    BY <1>4, FrameworkAssumption DEF DeleteSucceeds
  <2>2. life[p] = "alive" /\ init[p] = 3 /\ \A q \in Proc : delLayer[q] # p
    BY <2>1 DEF Current, Iteration, QueueDying
  <2> QED BY <1>1, <1>4, <2>2, DeleteSucceedsTree
<1> QED BY <1>2, <1>3, <1>4 DEF DeletePass

LEMMA CreatePassTree ==
  ASSUME TypeOK, Lifecycle, TreeOK, NEW p \in Proc, CreatePass(p)
  PROVE  TreeOK'
<1> USE DEF layerVars, nodeReqVars, deleteVars, requestVars
<1>1. LifeOK /\ VictimOK /\ (phase = "create" /\ cursor = p => req[p] = "sub")
  BY FrameworkAssumption DEF Lifecycle, CursorOK
<1>2. CASE AllocFails(p) \/ CreateBegins(p)
  BY <1>1, <1>2, AllocFailsTree, CreateBeginsTree
<1>3. CASE CreateLoading(p)
  BY <1>1, <1>3, CreateLoadingTree DEF CreateLoading
<1>4. CASE CreateFails(p) \/ FastFails(p)
  <2>1. req[p] \in {"sub", "fast"} /\ CancelFailed(p)
    BY <1>1, <1>4 DEF CreateFails, FastFails
  <2>2. UNCHANGED <<life, layers, reqLayer, inLine, nrPhase, nrKind, nrLayer, nrNode>>
    BY <1>4 DEF CreateFails, FastFails
  <2> QED BY <1>1, <2>1, <2>2, CancelFailedTree
<1>5. CASE CreateSucceeds(p) \/ CreateCompletes(p)
  <2>1. req[p] \notin {"none", "load"} /\ CompletionPhases(p)
    BY <1>1, <1>5 DEF CreateSucceeds, CreateCompletes
  <2>2. UNCHANGED <<life, target, reqLayer, layers, delLayer, deleteCount, prioTo, nodeReqVars>>
    BY <1>5 DEF CreateSucceeds, CreateCompletes
  <2> QED BY <1>1, <2>1, <2>2, CompletionTree
<1>6. CASE FastCompletes(p)
  <2>1. req[p] \notin {"none", "load"} /\ ToExecuteQ(p)
    BY <1>6 DEF FastCompletes
  <2>2. UNCHANGED <<life, target, reqLayer, layers, delLayer, deleteCount, prioTo, nodeReqVars>>
    BY <1>6 DEF FastCompletes
  <2> QED BY <1>1, <2>1, <2>2, ToExecuteQEnters, EntersTree
<1> QED BY <1>2, <1>3, <1>4, <1>5, <1>6 DEF CreatePass

LEMMA FrameStepTree ==
  ASSUME TypeOK, Lifecycle, Iteration, Current, TreeOK, FrameStep
  PROVE  TreeOK'
<1> USE DEF layerVars, nodeReqVars, deleteVars, requestVars
<1>1. CASE StartDelete \/ SkipDelete \/ StartCreate \/ StartExecute \/ ExecuteEnds
  BY <1>1, TreeKept DEF StartDelete, SkipDelete, StartCreate, StartExecute, ExecuteEnds
<1>2. ASSUME NEW p \in Proc, PriorityMove(p) PROVE TreeOK'
  BY <1>2, PriorityMoveTree DEF Lifecycle
<1>3. ASSUME NEW p \in Proc, ExecutePass(p) PROVE TreeOK'
  BY <1>3, TreeKept DEF ExecutePass, ExecuteSkips, ExecuteBegins
<1> QED BY <1>1, <1>2, <1>3, DeletePassTree, CreatePassTree DEF FrameStep

LEMMA ManagementTree ==
  ASSUME TypeOK, Lifecycle, TreeOK, Management
  PROVE  TreeOK'
<1> USE DEF layerVars, nodeReqVars, deleteVars, InManage
<1>1. LifeOK /\ LiveLayer(Root) /\ Root \in Layer
  BY DEF Lifecycle, LiveLayer, Layer
<1>2. ASSUME NEW r \in NodeReq, NodeReqDelete(r) \/ NodeReqDeleted(r) \/ NodeReqEnds(r)
      PROVE  TreeOK'
  BY <1>2, NodeReqDeleteTree, NodeReqDeletedTree, NodeReqEndsTree
<1>3. ASSUME NEW r \in NodeReq, NEW n \in Node, NodeReqCreate(r, n) PROVE TreeOK'
  <2> DEFINE l == nrLayer[r]
  <2>1. nrPhase[r] = "create" /\ nrPhase' = [nrPhase EXCEPT ![r] = "created"]
        /\ nrNode' = [nrNode EXCEPT ![r] = n]
    BY <1>3 DEF NodeReqCreate
  <2>2. \A s \in NodeReq : /\ nrPhase'[s] = "none" <=> nrPhase[s] = "none"
                           /\ nrPhase'[s] = "delete" => nrPhase[s] = "delete" /\ nrNode'[s] = nrNode[s]
    BY <2>1 DEF TypeOK
  <2>3. LiveLayer(l) /\ l \in Layer /\ n \in Proc
    BY <2>1, LiveIsLayer, FrameworkAssumption DEF TreeOK, Requested
  <2>4. NewRequest(n, l, "load") /\ life[n] = "unborn" /\ life' = [life EXCEPT ![n] = "requested"]
        /\ UNCHANGED <<init, target, inLayer, inLine, layers, layerOf, delLayer, deleteCount, prioTo,
                       nrLayer>>
    BY <1>3 DEF NodeReqCreate
  <2> HIDE DEF l
  <2> QED BY <1>1, <2>2, <2>3, <2>4, NewRequestTree
<1>4. ASSUME NEW q \in Proc, OverlapCreate(q) PROVE TreeOK'
  <2>1. NewRequest(q, Root, "load") /\ life[q] = "unborn" /\ life' = [life EXCEPT ![q] = "requested"]
        /\ UNCHANGED <<init, target, inLayer, inLine, layers, layerOf, delLayer, deleteCount, prioTo,
                       nrPhase, nrNode, nrLayer>>
    BY <1>4 DEF OverlapCreate
  <2> QED BY <1>1, <2>1, NewRequestTree
<1>5. ASSUME NEW q \in Proc, OverlapDelete(q) PROVE TreeOK'
  BY <1>5, LeafDeletedTree, FrameworkAssumption DEF OverlapDelete
<1> QED BY <1>2, <1>3, <1>4, <1>5 DEF Management

LEMMA CallTree ==
  ASSUME TypeOK, Lifecycle, Current, TreeOK, Call
  PROVE  TreeOK'
<1> USE DEF layerVars, nodeReqVars, deleteVars, requestVars, InMethod
<1>1. LifeOK /\ (phase \in {"create", "execute"} /\ cursor # None =>
                    LiveLayer(curLayer) /\ curLayer \in Layer /\ curLayer \in layers)
  BY LiveIsLayer DEF Lifecycle, Current, TreeOK
<1>2. ASSUME NEW q \in Proc, CallCreate(q) PROVE TreeOK'
  <2>1. NewRequest(q, curLayer, "load") /\ life[q] = "unborn" /\ life' = [life EXCEPT ![q] = "requested"]
        /\ UNCHANGED <<init, target, inLayer, inLine, layers, layerOf, delLayer, deleteCount, prioTo,
                       nrPhase, nrNode, nrLayer>>
    BY <1>2 DEF CallCreate
  <2>2. LiveLayer(curLayer) /\ curLayer \in Layer
    BY <1>1, <1>2 DEF CallCreate
  <2> QED BY <1>1, <2>1, <2>2, NewRequestTree
<1>3. ASSUME NEW q \in Proc, NEW ok \in BOOLEAN, NEW stale \in BOOLEAN, CallFastCreate(q, ok, stale)
      PROVE  TreeOK'
  <2> DEFINE ph == IF ok THEN "fast" ELSE "dead"
  <2>1. /\ NewRequest(q, curLayer, ph) /\ ph \in {"fast", "dead"} /\ q \in Fast
        /\ life[q] = "unborn" /\ life' = [life EXCEPT ![q] = "alive"]
        /\ layerOf' = [layerOf EXCEPT ![q] = curLayer]
        /\ UNCHANGED <<init, target, inLayer, inLine, layers, delLayer, deleteCount, prioTo,
                       nrPhase, nrNode, nrLayer>>
    BY <1>3 DEF CallFastCreate
  <2>2. LiveLayer(curLayer) /\ curLayer \in Layer
    BY <1>1, <1>3 DEF CallFastCreate
  <2>3. q \in Leaf
    BY <2>1, FrameworkAssumption
  <2> HIDE DEF ph
  <2> QED BY <1>1, <2>1, <2>2, <2>3, NewRequestTree
<1>4. ASSUME NEW q \in Proc, CallFastCreateFails(q) PROVE TreeOK'
  BY <1>1, <1>4, CallFastCreateFailsTree DEF CallFastCreateFails
<1>5. ASSUME NEW q \in Proc, CallDelete(q) PROVE TreeOK'
  BY <1>5, LeafDeletedTree DEF CallDelete
<1>6. ASSUME NEW q \in Proc, NEW l \in Node, CallChangeLayer(q, l) PROVE TreeOK'
  BY <1>1, <1>6, CallChangeLayerTree
<1>7. ASSUME NEW r \in NodeReq, CallNodeCreate(r) PROVE TreeOK'
  <2>1. /\ NewNodeReq(r, "create", curLayer, None) /\ None \in Maybe(Node)
        /\ UNCHANGED <<life, init, target, req, reqLayer, layers, layerOf, inLayer, inLine,
                       delLayer, deleteCount, prioTo>>
    BY <1>7 DEF CallNodeCreate, Maybe
  <2>2. LiveLayer(curLayer) /\ curLayer \in Layer
    BY <1>1, <1>7 DEF CallNodeCreate
  <2> QED BY <2>1, <2>2, NodeRequestTree
<1>8. ASSUME NEW r \in NodeReq, NEW n \in Node, NEW k \in {"delete", "change"}, CallNodeDelete(r, n, k)
      PROVE  TreeOK'
  <2> DEFINE l == layerOf[n]
  <2>1. /\ NewNodeReq(r, k, l, n) /\ n \in Maybe(Node) /\ n \in Node \intersect inLayer
        /\ IsPossibleTarget(n)
        /\ UNCHANGED <<life, init, target, req, reqLayer, layers, layerOf, inLayer, inLine,
                       delLayer, deleteCount, prioTo>>
    BY <1>8 DEF CallNodeDelete, Maybe
  <2>2. LiveLayer(l) /\ l \in Layer
    BY <1>1, <2>1, LiveIsLayer, FrameworkAssumption DEF TreeOK, Records, LayersOf, LifeOK, Placed
  <2> QED BY <2>1, <2>2, NodeRequestTree
<1> QED BY <1>2, <1>3, <1>4, <1>5, <1>6, <1>7, <1>8 DEF Call

LEMMA TreeStep == TypeOK /\ Lifecycle /\ Iteration /\ Current /\ TreeOK /\ [Next]_vars => TreeOK'
<1> SUFFICES ASSUME TypeOK, Lifecycle, Iteration, Current, TreeOK, [Next]_vars PROVE TreeOK'
  OBVIOUS
<1>1. CASE Next
  BY <1>1, FrameStepTree, ManagementTree, CallTree DEF Next
<1>2. CASE UNCHANGED vars
  BY <1>2, TreeKept DEF vars, requestVars, layerVars, deleteVars, nodeReqVars
<1> QED BY <1>1, <1>2

-----------------------------------------------------------------------------
(* The current layer                                                       *)

(* Where no method runs, only the layer has to be there.                   *)
LEMMA CurrentAtRest ==
  ASSUME cursor' = None, curLayer' \in layers', savedLayer' = None,
         \A p \in inDel' : life'[p] = "alive"
  PROVE  Current'
  BY DEF Current

(* The layer of a node is deleted when nothing is left that was in it.     *)
LEMMA NothingDyingIn ==
  ASSUME TypeOK, TreeOK, NEW p \in Proc, p \in Node => LayerCleared(p)
  PROVE  \A q \in Proc : delLayer[q] # p
<1>0. Records /\ DyingIn /\ Layers /\ DeleteExact
  BY DEF TreeOK
<1> SUFFICES ASSUME NEW q \in Proc, delLayer[q] = p PROVE FALSE
  OBVIOUS
<1>1. delLayer[q] # None /\ life[q] = "alive" /\ init[q] = 3
  BY <1>0, FrameworkAssumption DEF Records
<1>2. p \in Node
  BY <1>0, <1>1, FrameworkAssumption DEF DyingIn, Layers
<1>3. Cardinality(Deletions(p)) = 0
  BY <1>0, <1>2 DEF LayerCleared, DeleteExact, Layer
<1>4. Deletions(p) = {}
  BY <1>3, Finite, FS_EmptySet
<1> QED BY <1>1, <1>4 DEF Deletions

LEMMA DeletePassCurrent ==
  ASSUME TypeOK, Lifecycle, Iteration, Current, TreeOK, NEW p \in Proc, DeletePass(p)
  PROVE  Current'
<1> USE FrameworkAssumption
<1>1. /\ phase = "delete" /\ savedLayer = None /\ curLayer \in layers
      /\ \A q \in inDel : life[q] = "alive" /\ init[q] = 3
      /\ \A q \in Proc : life[q] = "alive" /\ init[q] = 3 => delLayer[q] \in layers
  <2>1. phase = "delete"
    BY DEF DeletePass, DeleteTimer, DeleteWaits, DeleteBegins, DeleteSucceeds, DeleteRetries, Visiting
  <2> QED BY <2>1 DEF Current, TreeOK, DyingIn, Iteration, QueueDying
<1>2. Visiting("delete", p) => life[p] = "alive" /\ delLayer[p] \in layers
  BY <1>1 DEF Visiting, Iteration, Position, InQueue
<1>3. CASE DeleteTimer(p)
  <2>1. cursor' = None /\ UNCHANGED <<curLayer, savedLayer, layers, inDel, life>>
    BY <1>3 DEF DeleteTimer, AtomicVisit, Visiting, currentVars
  <2> QED BY <1>1, <2>1, CurrentAtRest
<1>4. CASE DeleteWaits(p)
  <2>1. cursor' = None /\ curLayer' = delLayer[p] /\ UNCHANGED <<savedLayer, layers, inDel, life>>
    BY <1>4 DEF DeleteWaits, AtomicVisit, Visiting
  <2>2. delLayer[p] \in layers
    BY <1>2, <1>4 DEF DeleteWaits
  <2> QED BY <1>1, <2>1, <2>2, CurrentAtRest
<1>5. CASE DeleteBegins(p)
  <2>1. /\ cursor' = p /\ phase' = "delete" /\ curLayer' = delLayer[p] /\ inDel' = inDel \ {p}
        /\ UNCHANGED <<savedLayer, layers, life, delLayer>>
    BY <1>1, <1>5 DEF DeleteBegins, MethodBegins
  <2>2. life[p] = "alive" /\ delLayer[p] \in layers
    BY <1>2, <1>5 DEF DeleteBegins
  <2>3. \A q \in Proc : delLayer[q] # p
    BY <1>5, NothingDyingIn DEF DeleteBegins
  <2> QED BY <1>1, <2>1, <2>2, <2>3 DEF Current
<1>6. CASE DeleteSucceeds(p)
  <2>1. /\ cursor = p /\ cursor' = None /\ layers' = layers \ {p}
        /\ life' = [life EXCEPT ![p] = "gone"] /\ UNCHANGED <<curLayer, savedLayer, inDel>>
    BY <1>6 DEF DeleteSucceeds, MethodEnds, currentVars
  <2>2. p \notin inDel /\ curLayer # p
    BY <1>1, <2>1 DEF Current
  <2>3. \A q \in inDel' : life'[q] = "alive"
    BY <1>1, <2>1, <2>2 DEF TypeOK
  <2> QED BY <1>1, <2>1, <2>2, <2>3, CurrentAtRest
<1>7. CASE DeleteRetries(p)
  <2>1. /\ cursor = p /\ cursor' = None /\ inDel' = inDel \union {p}
        /\ UNCHANGED <<curLayer, savedLayer, layers, life>>
    BY <1>7 DEF DeleteRetries, MethodEnds, currentVars
  <2>2. life[p] = "alive"
    BY <1>1, <2>1 DEF Current
  <2> QED BY <1>1, <2>1, <2>2, CurrentAtRest
<1> QED BY <1>3, <1>4, <1>5, <1>6, <1>7 DEF DeletePass

LEMMA CreatePassCurrent ==
  ASSUME TypeOK, Lifecycle, Iteration, Current, TreeOK, NEW p \in Proc, CreatePass(p)
  PROVE  Current'
<1> USE FrameworkAssumption DEF layerVars, nodeReqVars, deleteVars, requestVars, currentVars
<1>0. Records /\ LayersOf /\ Layers /\ LifeOK
  BY DEF TreeOK, Lifecycle
<1>1. /\ phase = "create" /\ savedLayer = None /\ curLayer \in layers
      /\ \A q \in inDel : life[q] = "alive" /\ init[q] = 3
  <2>1. phase = "create"
    BY DEF CreatePass, AllocFails, CreateBegins, CreateLoading, CreateFails, CreateSucceeds,
           CreateCompletes, FastCompletes, FastFails, Visiting
  <2> QED BY <2>1 DEF Current, Iteration, QueueDying
<1>2. req[p] # "none"
  BY DEF CreatePass, AllocFails, CreateBegins, CreateLoading, CreateFails, CreateSucceeds,
         CreateCompletes, FastCompletes, FastFails, Lifecycle, CursorOK
<1>3. LiveLayer(reqLayer[p]) /\ reqLayer[p] # p /\ reqLayer[p] \in layers /\ init[p] < 2
  BY <1>0, <1>2, LiveIsLayer DEF LayersOf, LifeOK
<1>4. CASE AllocFails(p)
  <2>1. /\ cursor' = None /\ curLayer' = reqLayer[p] /\ life' = [life EXCEPT ![p] = "gone"]
        /\ UNCHANGED <<savedLayer, layers, inDel>>
    BY <1>4 DEF AllocFails, AtomicVisit, Visiting
  <2>2. \A q \in inDel' : life'[q] = "alive"
    BY <1>1, <1>3, <2>1 DEF TypeOK
  <2> QED BY <1>1, <1>3, <2>1, <2>2, CurrentAtRest
<1>5. CASE CreateBegins(p)
  <2>1. /\ cursor' = p /\ phase' = "create" /\ life' = [life EXCEPT ![p] = "alive"]
        /\ curLayer' = IF p \in Node THEN p ELSE reqLayer[p]
        /\ layers' = IF p \in Node THEN layers \union {p} ELSE layers
        /\ UNCHANGED <<savedLayer, inDel, init>>
    BY <1>1, <1>5 DEF CreateBegins, MethodBegins
  <2>2. \A q \in Proc : life'[q] = IF q = p THEN "alive" ELSE life[q]
    BY <2>1 DEF TypeOK
  <2>3. LiveLayer(curLayer)' /\ curLayer' \in layers'
    BY <1>3, <2>1, <2>2 DEF LiveLayer
  <2>4. \A q \in inDel' : life'[q] = "alive"
    BY <1>1, <2>1, <2>2 DEF TypeOK
  <2> QED BY <1>1, <2>1, <2>3, <2>4 DEF Current
<1>6. CASE CreateLoading(p) \/ CreateSucceeds(p) \/ CreateCompletes(p) \/ FastCompletes(p)
  <2>1. /\ cursor' = None /\ curLayer' \in {reqLayer[p], curLayer}
        /\ UNCHANGED <<savedLayer, layers, inDel, life>>
    BY <1>6 DEF CreateLoading, CreateSucceeds, CreateCompletes, FastCompletes, AtomicVisit, MethodEnds,
                Visiting
  <2> QED BY <1>1, <1>3, <2>1, CurrentAtRest
<1>7. CASE CreateFails(p) \/ FastFails(p)
  <2>1. /\ cursor' = None /\ curLayer' \in {reqLayer[p], curLayer} /\ CancelFailed(p)
        /\ UNCHANGED <<savedLayer, layers, life>>
    BY <1>7 DEF CreateFails, FastFails, AtomicVisit, MethodEnds, Visiting
  <2>2. req[p] \in {"sub", "fast"}
    BY <1>7 DEF CreateFails, FastFails, Lifecycle, CursorOK
  <2>3. \A q \in inDel' : life[q] = "alive"
    <3>1. CASE IsCreatingFromUnder(p)
      BY <1>1, <2>1, <3>1 DEF CancelFailed
    <3>2. CASE ~IsCreatingFromUnder(p)
      <4>1. PICK R \in Refusals(p) : ToDeleteQ(p, R, "dead")
        BY <2>1, <3>2 DEF CancelFailed
      <4>2. PICK Q \in SUBSET (inLayer \union {p}) : inDel' = inDel \union Q
        BY <1>0, <2>2, <4>1, ToDeleteQEffect
      <4>3. \A q \in inLayer \union {p} : life[q] = "alive"
        BY <1>0, <2>2 DEF Records, TypeOK
      <4> QED BY <1>1, <4>2, <4>3
    <3> QED BY <3>1, <3>2
  <2> QED BY <1>1, <1>3, <2>1, <2>3, CurrentAtRest
<1> QED BY <1>4, <1>5, <1>6, <1>7 DEF CreatePass

LEMMA FrameStepCurrent ==
  ASSUME TypeOK, Lifecycle, Iteration, Current, TreeOK, FrameStep
  PROVE  Current'
<1> USE FrameworkAssumption DEF layerVars, nodeReqVars, deleteVars, requestVars, currentVars
<1>1. curLayer \in layers /\ \A q \in inDel : life[q] = "alive"
  BY DEF Current
<1>2. CASE StartDelete \/ SkipDelete \/ StartCreate \/ StartExecute \/ \E p \in Proc : PriorityMove(p)
  <2>1. cursor = None
    BY <1>2 DEF StartDelete, SkipDelete, StartCreate, StartExecute, PriorityMove, AtPriority, PassDone,
                Lifecycle, CursorOK
  <2>2. cursor' = cursor /\ UNCHANGED <<curLayer, savedLayer, layers, inDel, life>>
    BY <1>2 DEF StartDelete, SkipDelete, StartCreate, StartExecute, PriorityMove, StartPass
  <2>3. savedLayer = None
    BY <2>1 DEF Current
  <2> QED BY <1>1, <2>1, <2>2, <2>3, CurrentAtRest
<1>3. CASE ExecuteEnds
  <2>1. savedLayer \in layers
    BY <1>3 DEF ExecuteEnds, Current
  <2> QED BY <1>1, <1>3, <2>1, CurrentAtRest DEF ExecuteEnds, MethodEnds
<1>4. ASSUME NEW p \in Proc, ExecuteSkips(p) PROVE Current'
  <2>1. cursor = None /\ cursor' = None /\ UNCHANGED <<curLayer, savedLayer, layers, inDel, life>>
    BY <1>4 DEF ExecuteSkips, AtomicVisit, Visiting
  <2>2. savedLayer = None
    BY <2>1 DEF Current
  <2> QED BY <1>1, <2>1, <2>2, CurrentAtRest
<1>5. ASSUME NEW p \in Proc, ExecuteBegins(p) PROVE Current'
  <2>1. /\ init[p] = 2 /\ savedLayer' = curLayer /\ cursor' = p /\ phase' = "execute"
        /\ curLayer' = IF p \in Node THEN p ELSE layerOf[p]
        /\ UNCHANGED <<layers, inDel, life, init>>
    BY <1>5 DEF ExecuteBegins, MethodBegins, Visiting
  <2>2. Placed(p)
    BY <2>1 DEF TreeOK, Lines, LinedTogether, Records, Placed
  <2>3. LiveLayer(curLayer')
    BY <2>1, <2>2 DEF TreeOK, LayersOf, LiveLayer, Placed
  <2>4. curLayer' \in layers
    BY <2>3, LiveIsLayer DEF TreeOK
  <2>5. LiveLayer(curLayer)'
    BY <2>1, <2>3 DEF LiveLayer
  <2> QED BY <1>1, <2>1, <2>4, <2>5 DEF Current
<1> QED
  BY <1>2, <1>3, <1>4, <1>5, DeletePassCurrent, CreatePassCurrent DEF FrameStep, ExecutePass

LEMMA ManagementCurrent ==
  ASSUME TypeOK, Lifecycle, Current, TreeOK, Management
  PROVE  Current'
<1> USE FrameworkAssumption
<1>1. InManage /\ cursor' = None /\ savedLayer' = None /\ layers' = layers /\ curLayer' \in {curLayer, Root}
  BY DEF Management, NodeReqDelete, NodeReqDeleted, NodeReqEnds, NodeReqCreate,
         OverlapCreate, OverlapDelete, InManage, PassDone, frameVars, Current
<1>2. curLayer' \in layers'
  BY <1>1 DEF Current, TypeOK
<1>3. \A q \in inDel : life[q] = "alive"
  BY DEF Current
<1>4. \A q \in inDel' : life'[q] = "alive"
  <2>1. ASSUME NEW n, NEW Q, Deletes(n, Q), UNCHANGED life PROVE <1>4
    BY <1>3, <2>1 DEF Deletes, Placed
  <2>2. CASE \E r \in NodeReq : NodeReqDelete(r)
    BY <2>1, <2>2, NodeReqDeleteTree DEF NodeReqDelete
  <2>3. CASE \E q \in Proc : OverlapDelete(q)
    <3>1. PICK q \in Proc : OverlapDelete(q)
      BY <2>3
    <3>2. Deletes(q, Queued(q, {})) /\ UNCHANGED life
      BY <3>1, LeafDeletedTree DEF OverlapDelete, InManage, nodeReqVars
    <3> QED BY <2>1, <3>2
  <2>4. CASE UNCHANGED inDel /\ \A q \in Proc : life[q] = "alive" => life'[q] = "alive"
    BY <1>3, <2>4 DEF TypeOK
  <2>5. ASSUME NEW r \in NodeReq, NodeReqDeleted(r) \/ NodeReqEnds(r) \/ \E n \in Node : NodeReqCreate(r, n)
        PROVE  <1>4
    BY <2>4, <2>5 DEF NodeReqDeleted, NodeReqEnds, NodeReqCreate, deleteVars, TypeOK
  <2>6. ASSUME NEW q \in Proc, OverlapCreate(q) PROVE <1>4
    BY <2>4, <2>6 DEF OverlapCreate, deleteVars, TypeOK
  <2> QED BY <2>2, <2>3, <2>5, <2>6 DEF Management
<1> QED BY <1>1, <1>2, <1>4, CurrentAtRest

(* A method deletes actors, never its layer; a process being deleted       *)
(* remains the last that was in its layer.                                 *)
LEMMA CallCurrent ==
  ASSUME TypeOK, Lifecycle, Iteration, Current, TreeOK, Call
  PROVE  Current'
<1> USE FrameworkAssumption DEF InMethod, layerVars, nodeReqVars, deleteVars, requestVars, currentVars
<1>1. /\ phase \in {"delete", "create", "execute"} /\ cursor # None /\ cursor \in Proc
      /\ UNCHANGED <<phase, cursor, curLayer, savedLayer, layers>>
  BY ZenonT(60) DEF Call, CallCreate, CallDelete, CallFastCreateFails, CallFastCreate, CallChangeLayer,
         CallNodeCreate, CallNodeDelete, TypeOK, Maybe
<1>2. /\ curLayer \in layers /\ \A p \in inDel : life[p] = "alive"
      /\ phase \in {"create", "execute"} => LiveLayer(curLayer)
      /\ IF phase = "execute" THEN savedLayer \in layers ELSE savedLayer = None
  BY <1>1 DEF Current
<1>3. ASSUME phase # "delete", \A n \in Node : life[n] = "alive" => life'[n] = "alive" /\ init'[n] = init[n],
             \A p \in inDel' : life'[p] = "alive"
      PROVE  Current'
  <2>1. LiveLayer(curLayer)'
    BY <1>1, <1>2, <1>3 DEF LiveLayer
  <2> QED BY <1>1, <1>2, <1>3, <2>1 DEF Current
<1>4. ASSUME NEW q \in Proc, CallDelete(q) PROVE Current'
  <2>1. q \in Leaf /\ q \notin Node /\ CanDelete(q) /\ ToDeleteQ(q, {}, req[q]) /\ UNCHANGED life
    BY <1>4 DEF CallDelete, Leaf
  <2>2. Deletes(q, Queued(q, {}))
    BY <1>4, <2>1, LeafDeletedTree DEF CallDelete
  <2>3. Queued(q, {}) = {q}
    BY <2>1, UnderLeaf DEF Queued, TypeOK
  <2>4. /\ inDel' = inDel \union {q} /\ life[q] = "alive" /\ init[q] # 3
        /\ init' = [p \in Proc |-> IF p = q THEN 3 ELSE init[p]]
        /\ delLayer' = [p \in Proc |-> IF p = q THEN layerOf[q] ELSE delLayer[p]]
    BY <2>1, <2>2, <2>3 DEF Deletes, CanDelete
  <2>5. CASE phase # "delete"
    BY <1>2, <1>3, <2>1, <2>4, <2>5
  <2>6. CASE phase = "delete"
    <3>1. init[cursor] = 3 /\ cursor # q
      BY <1>1, <2>4, <2>6 DEF Iteration, QueueDying
    <3>2. layerOf[q] # cursor
      BY <1>1, <2>4, <3>1 DEF TreeOK, LayersOf, Placed, LiveLayer
    <3>3. /\ life[cursor] = "alive" /\ cursor \notin inDel
          /\ curLayer = delLayer[cursor] /\ \A p \in Proc : delLayer[p] # cursor
      BY <1>1, <2>6 DEF Current
    <3>4. /\ life'[cursor'] = "alive" /\ cursor' \notin inDel'
          /\ curLayer' = delLayer'[cursor'] /\ \A p \in Proc : delLayer'[p] # cursor'
      BY <1>1, <2>1, <2>4, <3>1, <3>2, <3>3
    <3> QED BY <1>1, <1>2, <2>1, <2>4, <2>6, <3>4 DEF Current
  <2> QED BY <2>5, <2>6
<1>5. ASSUME NEW q \in Proc, CallFastCreateFails(q) PROVE Current'
  <2>1. /\ phase # "delete" /\ q \notin Node /\ life' = [life EXCEPT ![q] = "alive"]
        /\ init' = [init EXCEPT ![q] = 3] /\ inDel' = inDel \union {q}
    BY <1>5 DEF CallFastCreateFails, Leaf
  <2> QED BY <1>2, <1>3, <2>1 DEF TypeOK
<1>6. ASSUME NEW q \in Proc,
             CallCreate(q) \/ (\E ok, stale \in BOOLEAN : CallFastCreate(q, ok, stale))
             \/ \E l \in Node : CallChangeLayer(q, l)
      PROVE  Current'
  <2>1. /\ phase # "delete" /\ UNCHANGED <<init, inDel>>
        /\ \A p \in Proc : life[p] = "alive" => life'[p] = "alive"
    BY <1>6 DEF CallCreate, CallFastCreate, CallChangeLayer, TypeOK
  <2> QED BY <1>2, <1>3, <2>1 DEF TypeOK
<1>7. ASSUME NEW r \in NodeReq,
             CallNodeCreate(r) \/ \E n \in Node, k \in {"delete", "change"} : CallNodeDelete(r, n, k)
      PROVE  Current'
  <2>1. phase # "delete" /\ UNCHANGED <<init, inDel, life>>
    BY <1>7 DEF CallNodeCreate, CallNodeDelete
  <2> QED BY <1>2, <1>3, <2>1
<1> QED BY <1>4, <1>5, <1>6, <1>7 DEF Call

LEMMA CurrentStep == TypeOK /\ Lifecycle /\ Iteration /\ Current /\ TreeOK /\ [Next]_vars => Current'
<1> SUFFICES ASSUME TypeOK, Lifecycle, Iteration, Current, TreeOK, [Next]_vars PROVE Current'
  OBVIOUS
<1>1. CASE Next
  BY <1>1, FrameStepCurrent, ManagementCurrent, CallCurrent DEF Next
<1>2. CASE UNCHANGED vars
  BY <1>2 DEF vars, frameVars, currentVars, deleteVars, Current, LiveLayer
<1> QED BY <1>1, <1>2

-----------------------------------------------------------------------------
(* Failed creations                                                        *)

(* A leaf whose creation fails is queued for deletion: it refuses only when*)
(* it executes.                                                            *)
LEMMA FailedIsDying ==
  ASSUME TypeOK, Lifecycle, NEW p \in Leaf, req[p] \in {"sub", "fast"}, CancelFailed(p)
  PROVE  init'[p] = 3
<1>1. p \in Proc /\ init[p] < 2 /\ ~IsCreatingFromUnder(p)
  BY DEF Lifecycle, LifeOK, IsCreatingFromUnder, Leaf
<1>2. PICK R \in Refusals(p) : ToDeleteQ(p, R, "dead")
  BY <1>1 DEF CancelFailed
<1>3. Under(p) = {p}
  BY UnderLeaf DEF TypeOK
<1>4. R = {}
  BY <1>1, <1>3 DEF Refusals
<1>5. p \in Queued(p, R)
  BY <1>3, <1>4 DEF Queued
<1>6. init' = [q \in Proc |-> IF q \in Queued(p, R) THEN 3 ELSE init[q]]
  BY <1>2 DEF ToDeleteQ
<1> QED BY <1>1, <1>5, <1>6

(* A request that is cancelled or gone does not come back.                 *)
LEMMA CancelledStays ==
  ASSUME TypeOK, Lifecycle, Next, NEW p \in Proc, life[p] # "unborn", CancelledOrGone(p)
  PROVE  life'[p] # "unborn" /\ CancelledOrGone(p)'
<1> USE FrameworkAssumption DEF CancelledOrGone
<1>1. ASSUME life' = life, NEW n \in Proc, NEW R, NEW left, ToDeleteQ(n, R, left),
             left \in {"dead", req[n]}
      PROVE  life'[p] # "unborn" /\ req'[p] \in {"dead", "none"}
  BY <1>1 DEF ToDeleteQ, DeleteRequest, TypeOK
<1>2. ASSUME NEW q \in Proc, life[q] = "unborn",
             \A x \in Proc \ {q} : life'[x] = life[x] /\ req'[x] = req[x]
      PROVE  life'[p] # "unborn" /\ req'[p] \in {"dead", "none"}
  BY <1>2
<1>3. ASSUME UNCHANGED <<life, req>>
      PROVE  life'[p] # "unborn" /\ req'[p] \in {"dead", "none"}
  BY <1>3
<1>4. ASSUME NEW q \in Proc, CreatePass(q)
      PROVE  life'[p] # "unborn" /\ req'[p] \in {"dead", "none"}
  <2>1. CASE AllocFails(q) \/ CreateBegins(q) \/ CreateLoading(q)
    BY <2>1 DEF AllocFails, CreateBegins, CreateLoading, DeleteRequest, TypeOK
  <2>2. CASE CreateFails(q) \/ FastFails(q)
    <3>1. life' = life /\ CancelFailed(q)
      BY <2>2 DEF CreateFails, FastFails
    <3>2. CASE req' = [req EXCEPT ![q] = "dead"]
      BY <3>1, <3>2 DEF TypeOK
    <3>3. CASE \E R \in Refusals(q) : ToDeleteQ(q, R, "dead")
      BY <1>1, <3>1, <3>3
    <3> QED BY <3>1, <3>2, <3>3 DEF CancelFailed
  <2>3. CASE CreateSucceeds(q) \/ CreateCompletes(q) \/ FastCompletes(q)
    <3>1. life' = life /\ ((CompletionPhases(q) /\ ~CancelledOrGone(q)) \/ ToExecuteQ(q))
      BY <2>3 DEF CreateSucceeds, CreateCompletes, FastCompletes, Lifecycle, CursorOK
    <3>2. CASE ToExecuteQ(q)
      BY <3>1, <3>2 DEF ToExecuteQ, DeleteRequest, TypeOK
    <3>3. CASE CompletionPhases(q) /\ ~CancelledOrGone(q) /\ ~ToExecuteQ(q)
      BY <3>1, <3>3 DEF CompletionPhases, TypeOK
    <3> QED BY <3>1, <3>2, <3>3
  <2> QED BY <1>4, <2>1, <2>2, <2>3 DEF CreatePass
<1>5. ASSUME NEW q \in Proc, DeletePass(q) \/ PriorityMove(q) \/ ExecutePass(q)
      PROVE  life'[p] # "unborn" /\ req'[p] \in {"dead", "none"}
  BY <1>5 DEF DeletePass, DeleteTimer, DeleteWaits, DeleteBegins, DeleteSucceeds, DeleteRetries,
              PriorityMove, ExecutePass, ExecuteSkips, ExecuteBegins, requestVars, TypeOK
<1>6. CASE StartDelete \/ SkipDelete \/ StartCreate \/ StartExecute \/ ExecuteEnds
  BY <1>3, <1>6 DEF StartDelete, SkipDelete, StartCreate, StartExecute, ExecuteEnds, requestVars
<1>7. CASE FrameStep
  BY <1>4, <1>5, <1>6, <1>7 DEF FrameStep
<1>8. CASE Management
  <2>1. ASSUME NEW r \in NodeReq, NodeReqDelete(r)
        PROVE  life'[p] # "unborn" /\ req'[p] \in {"dead", "none"}
    <3>1. nrNode[r] \in Proc /\ life' = life
          /\ \E R \in Refusals(nrNode[r]) : ToDeleteQ(nrNode[r], R, req[nrNode[r]])
      BY <2>1 DEF NodeReqDelete, Lifecycle, VictimOK
    <3> QED BY <1>1, <3>1
  <2>2. ASSUME NEW r \in NodeReq, NodeReqDeleted(r) \/ NodeReqEnds(r)
        PROVE  life'[p] # "unborn" /\ req'[p] \in {"dead", "none"}
    BY <1>3, <2>2 DEF NodeReqDeleted, NodeReqEnds
  <2>3. ASSUME NEW r \in NodeReq, NEW n \in Node, NodeReqCreate(r, n)
        PROVE  life'[p] # "unborn" /\ req'[p] \in {"dead", "none"}
    BY <1>2, <2>3 DEF NodeReqCreate, NewRequest, TypeOK
  <2>4. ASSUME NEW q \in Proc, OverlapCreate(q)
        PROVE  life'[p] # "unborn" /\ req'[p] \in {"dead", "none"}
    BY <1>2, <2>4 DEF OverlapCreate, NewRequest, TypeOK
  <2>5. ASSUME NEW q \in Proc, OverlapDelete(q)
        PROVE  life'[p] # "unborn" /\ req'[p] \in {"dead", "none"}
    BY <1>1, <2>5 DEF OverlapDelete
  <2> QED BY <1>8, <2>1, <2>2, <2>3, <2>4, <2>5 DEF Management
<1>9. CASE Call
  <2>1. ASSUME NEW q \in Proc, CallCreate(q) \/ CallFastCreateFails(q)
        PROVE  life'[p] # "unborn" /\ req'[p] \in {"dead", "none"}
    BY <1>2, <2>1 DEF CallCreate, CallFastCreateFails, NewRequest, TypeOK
  <2>2. ASSUME NEW q \in Proc, NEW ok \in BOOLEAN, NEW stale \in BOOLEAN,
               CallFastCreate(q, ok, stale)
        PROVE  life'[p] # "unborn" /\ req'[p] \in {"dead", "none"}
    BY <1>2, <2>2 DEF CallFastCreate, NewRequest, TypeOK
  <2>3. ASSUME NEW q \in Proc, CallDelete(q)
        PROVE  life'[p] # "unborn" /\ req'[p] \in {"dead", "none"}
    BY <1>1, <2>3 DEF CallDelete
  <2>4. ASSUME NEW q \in Proc, NEW l \in Node, CallChangeLayer(q, l)
        PROVE  life'[p] # "unborn" /\ req'[p] \in {"dead", "none"}
    BY <1>3, <2>4 DEF CallChangeLayer, requestVars
  <2>5. ASSUME NEW r \in NodeReq,
               CallNodeCreate(r) \/ \E n \in Node, k \in {"delete", "change"} : CallNodeDelete(r, n, k)
        PROVE  life'[p] # "unborn" /\ req'[p] \in {"dead", "none"}
    BY <1>3, <2>5 DEF CallNodeCreate, CallNodeDelete, requestVars
  <2> QED BY <1>9, <2>1, <2>2, <2>3, <2>4, <2>5 DEF Call
<1> QED BY <1>7, <1>8, <1>9 DEF Next

(* What gets into a layer or the line queue was there before, or is        *)
(* completed by its request.                                               *)
LEMMA EntersByRequest ==
  ASSUME TypeOK, Lifecycle, TreeOK, Next
  PROVE  \A q \in inLayer' \union inLine' : q \in inLayer \union inLine \/ req[q] # "none"
<1> USE FrameworkAssumption
<1>1. ASSUME NEW p \in Proc, ToExecuteQ(p), req[p] # "none"
      PROVE  \A q \in inLayer' \union inLine' : q \in inLayer \union inLine \/ req[q] # "none"
  <2>1. Lined(p, IF target[p] = None THEN layerOf[p] ELSE target[p]) \subseteq inLayer \union {p}
    BY UnderNode DEF Lined, TypeOK
  <2>2. /\ inLine' = inLine \union Lined(p, IF target[p] = None THEN layerOf[p] ELSE target[p])
        /\ inLayer' \subseteq inLayer \union {p}
    BY <1>1 DEF ToExecuteQ
  <2> QED BY <1>1, <2>1, <2>2
<1>2. ASSUME inLayer' \subseteq inLayer, inLine' \subseteq inLine
      PROVE  \A q \in inLayer' \union inLine' : q \in inLayer \union inLine \/ req[q] # "none"
  BY <1>2
<1>3. ASSUME NEW n \in Proc, NEW R, NEW left, ToDeleteQ(n, R, left) PROVE inLayer' \subseteq inLayer
  BY <1>3 DEF ToDeleteQ
<1>4. ASSUME NEW p \in Proc, CreatePass(p)
      PROVE  \A q \in inLayer' \union inLine' : q \in inLayer \union inLine \/ req[q] # "none"
  <2>1. CASE AllocFails(p) \/ CreateBegins(p) \/ CreateLoading(p)
    BY <1>2, <2>1 DEF AllocFails, CreateBegins, CreateLoading, layerVars
  <2>2. CASE CreateFails(p) \/ FastFails(p)
    <3>1. inLine' = inLine /\ CancelFailed(p)
      BY <2>2 DEF CreateFails, FastFails
    <3>2. inLayer' \subseteq inLayer
      BY <1>3, <3>1 DEF CancelFailed, layerVars
    <3> QED BY <1>2, <3>1, <3>2
  <2>3. CASE CreateSucceeds(p) \/ CreateCompletes(p) \/ FastCompletes(p)
    <3>1. req[p] # "none" /\ (CompletionPhases(p) \/ ToExecuteQ(p))
      BY <2>3 DEF CreateSucceeds, CreateCompletes, FastCompletes, Lifecycle, CursorOK
    <3>2. ToExecuteQ(p) \/ UNCHANGED <<layerVars, inLine>>
      BY <3>1 DEF CompletionPhases
    <3> QED BY <1>1, <1>2, <3>1, <3>2 DEF layerVars
  <2> QED BY <1>4, <2>1, <2>2, <2>3 DEF CreatePass
<1>5. ASSUME NEW p \in Proc, DeletePass(p) \/ PriorityMove(p) \/ ExecutePass(p)
      PROVE  inLayer' \subseteq inLayer /\ inLine' \subseteq inLine
  BY <1>5 DEF DeletePass, DeleteTimer, DeleteWaits, DeleteBegins, DeleteSucceeds, DeleteRetries,
              PriorityMove, ExecutePass, ExecuteSkips, ExecuteBegins, layerVars
<1>6. CASE StartDelete \/ SkipDelete \/ StartCreate \/ StartExecute \/ ExecuteEnds
  BY <1>2, <1>6 DEF StartDelete, SkipDelete, StartCreate, StartExecute, ExecuteEnds, layerVars
<1>7. CASE FrameStep
  BY <1>2, <1>4, <1>5, <1>6, <1>7 DEF FrameStep
<1>8. CASE Management
  <2>1. ASSUME NEW r \in NodeReq, NodeReqDelete(r)
        PROVE  inLayer' \subseteq inLayer /\ inLine' \subseteq inLine
    <3>1. nrNode[r] \in Proc /\ inLine' = inLine
          /\ \E R \in Refusals(nrNode[r]) : ToDeleteQ(nrNode[r], R, req[nrNode[r]])
      BY <2>1 DEF NodeReqDelete, InManage, Lifecycle, VictimOK
    <3> QED BY <1>3, <3>1
  <2>2. ASSUME NEW q \in Proc, OverlapDelete(q)
        PROVE  inLayer' \subseteq inLayer /\ inLine' \subseteq inLine
    BY <1>3, <2>2 DEF OverlapDelete, InManage
  <2>3. ASSUME NEW r \in NodeReq,
               NodeReqDeleted(r) \/ NodeReqEnds(r) \/ \E n \in Node : NodeReqCreate(r, n)
        PROVE  inLayer' \subseteq inLayer /\ inLine' \subseteq inLine
    BY <2>3 DEF NodeReqDeleted, NodeReqEnds, NodeReqCreate, InManage, layerVars
  <2>4. ASSUME NEW q \in Proc, OverlapCreate(q)
        PROVE  inLayer' \subseteq inLayer /\ inLine' \subseteq inLine
    BY <2>4 DEF OverlapCreate, InManage, layerVars
  <2> QED BY <1>2, <1>8, <2>1, <2>2, <2>3, <2>4 DEF Management
<1>9. CASE Call
  <2>1. ASSUME NEW q \in Proc, CallDelete(q)
        PROVE  inLayer' \subseteq inLayer /\ inLine' \subseteq inLine
    BY <1>3, <2>1 DEF CallDelete, InMethod
  <2>2. ASSUME NEW q \in Proc,
               CallCreate(q) \/ CallFastCreateFails(q) \/ \E l \in Node : CallChangeLayer(q, l)
        PROVE  inLayer' \subseteq inLayer /\ inLine' \subseteq inLine
    BY <2>2 DEF CallCreate, CallFastCreateFails, CallChangeLayer, InMethod, layerVars
  <2>3. ASSUME NEW q \in Proc, NEW ok \in BOOLEAN, NEW stale \in BOOLEAN,
               CallFastCreate(q, ok, stale)
        PROVE  inLayer' \subseteq inLayer /\ inLine' \subseteq inLine
    BY <2>3 DEF CallFastCreate, InMethod
  <2>4. ASSUME NEW r \in NodeReq,
               CallNodeCreate(r) \/ \E n \in Node, k \in {"delete", "change"} : CallNodeDelete(r, n, k)
        PROVE  inLayer' \subseteq inLayer /\ inLine' \subseteq inLine
    BY <2>4 DEF CallNodeCreate, CallNodeDelete, InMethod, layerVars
  <2> QED BY <1>2, <1>9, <2>1, <2>2, <2>3, <2>4 DEF Call
<1> QED BY <1>7, <1>8, <1>9 DEF Next

LEMMA FailedStep ==
  ASSUME TypeOK, Lifecycle, FailedDying, Next, StaysDying
  PROVE  FailedDying'
<1> USE FrameworkAssumption
<1>1. ASSUME \A p \in failed' \intersect Leaf :
                 p \in failed \/ init'[p] = 3 \/ (life'[p] # "unborn" /\ CancelledOrGone(p)')
      PROVE  FailedDying'
  BY <1>1, CancelledStays DEF FailedDying, StaysDying, Leaf
<1>2. ASSUME NEW p \in Proc, CreateFails(p) \/ FastFails(p) PROVE FailedDying'
  <2>1. CancelFailed(p) /\ req[p] \in {"sub", "fast"} /\ failed' = failed \union {p}
    BY <1>2 DEF CreateFails, FastFails, Lifecycle, CursorOK
  <2> QED BY <1>1, <2>1, FailedIsDying
<1>3. ASSUME failed' \subseteq failed PROVE FailedDying'
  BY <1>1, <1>3
<1>4. ASSUME NEW p \in Proc, CreatePass(p) PROVE FailedDying'
  <2>1. CASE failed' = failed
    BY <1>3, <2>1
  <2> QED BY <1>2, <1>4, <2>1
          DEF CreatePass, AllocFails, CreateBegins, CreateLoading, CreateSucceeds, CreateCompletes,
              FastCompletes
<1>5. ASSUME NEW p \in Proc, DeletePass(p) \/ PriorityMove(p) \/ ExecutePass(p) PROVE FailedDying'
  BY <1>3, <1>5 DEF DeletePass, DeleteTimer, DeleteWaits, DeleteBegins, DeleteSucceeds, DeleteRetries,
                    PriorityMove, ExecutePass, ExecuteSkips, ExecuteBegins
<1>6. CASE StartDelete \/ SkipDelete \/ StartCreate \/ StartExecute \/ ExecuteEnds
  BY <1>3, <1>6 DEF StartDelete, SkipDelete, StartCreate, StartExecute, ExecuteEnds
<1>7. CASE FrameStep
  BY <1>4, <1>5, <1>6, <1>7 DEF FrameStep
<1>8. CASE Management
  BY <1>3, <1>8 DEF Management, NodeReqDelete, NodeReqDeleted, NodeReqEnds, NodeReqCreate,
                    OverlapCreate, OverlapDelete, InManage
<1>9. CASE Call
  <2>1. ASSUME NEW q \in Proc, CallFastCreateFails(q) PROVE FailedDying'
    <3>1. failed' = failed \union {q} /\ init'[q] = 3
      BY <2>1 DEF CallFastCreateFails, TypeOK
    <3> QED BY <1>1, <3>1
  <2>2. ASSUME NEW q \in Proc, NEW ok \in BOOLEAN, NEW stale \in BOOLEAN,
               CallFastCreate(q, ok, stale)
        PROVE  FailedDying'
    <3>1. CASE ok
      BY <1>3, <2>2, <3>1 DEF CallFastCreate
    <3>2. CASE ~ok
      <4>1. failed' = failed \union {q} /\ req'[q] = "dead" /\ life'[q] = "alive"
        BY <2>2, <3>2 DEF CallFastCreate, NewRequest, TypeOK
      <4> QED BY <1>1, <4>1 DEF CancelledOrGone
    <3> QED BY <3>1, <3>2
  <2>3. CASE UNCHANGED failed
    BY <1>3, <2>3
  <2> QED BY <1>9, <2>1, <2>2, <2>3
          DEF Call, CallCreate, CallDelete, CallChangeLayer, CallNodeCreate, CallNodeDelete
<1> QED BY <1>7, <1>8, <1>9 DEF Next

(* No move fails.                                                          *)
LEMMA NoMoveFails ==
  ASSUME TypeOK, Lifecycle, TreeOK, phase # "moved", Next
  PROVE  phase' # "moved"
<1>1. ASSUME NEW p \in Proc, PriorityMove(p) PROVE phase' # "moved"
  BY <1>1, PriorityMoveTree DEF Lifecycle
<1>2. ASSUME NEW p \in Proc, CreatePass(p) PROVE phase' # "moved"
  BY <1>2 DEF CreatePass, AllocFails, CreateBegins, CreateLoading, CreateFails, CreateSucceeds,
     CreateCompletes, FastCompletes, FastFails, AtomicVisit, MethodBegins, MethodEnds
<1>3. ASSUME NEW p \in Proc, DeletePass(p) \/ ExecutePass(p) PROVE phase' # "moved"
  BY <1>3 DEF DeletePass, DeleteTimer, DeleteWaits, DeleteBegins, DeleteSucceeds, DeleteRetries,
     ExecutePass, ExecuteSkips, ExecuteBegins, AtomicVisit, MethodBegins, MethodEnds
<1>4. CASE StartDelete \/ SkipDelete \/ StartCreate \/ StartExecute \/ ExecuteEnds
  BY <1>4 DEF StartDelete, SkipDelete, StartCreate, StartExecute, ExecuteEnds, StartPass, MethodEnds
<1>5. CASE FrameStep
  BY <1>1, <1>2, <1>3, <1>4, <1>5 DEF FrameStep
<1>6. CASE Management
  BY <1>6 DEF Management, NodeReqDelete, NodeReqDeleted, NodeReqEnds, NodeReqCreate,
              OverlapCreate, OverlapDelete, InManage, frameVars
<1>7. CASE Call
  BY <1>7 DEF Call, CallCreate, CallDelete, CallFastCreateFails, CallFastCreate,
              CallChangeLayer, CallNodeCreate, CallNodeDelete, InMethod
<1> QED BY <1>5, <1>6, <1>7 DEF Next

-----------------------------------------------------------------------------
(* The invariant of the whole framework                                    *)
TreeInv == Lifecycle /\ Iteration /\ TreeOK /\ Current /\ FailedDying /\ phase # "moved"

LEMMA InitTree == Init => TreeInv
<1> SUFFICES ASSUME Init PROVE TreeInv
  OBVIOUS
<1> USE FrameworkAssumption
<1>1. Lifecycle /\ Iteration
  BY InitLifecycle, InitIteration
<1>2. Records /\ Moves /\ Lines /\ LayersOf /\ Targets /\ DyingIn
  BY DEF Init, Records, Placed, Moves, Lines, LinedTogether, LayersOf, Targets, DyingIn
<1>3. PICK r \in NodeReq :
          /\ nrPhase = [x \in NodeReq |-> IF x = r THEN "create" ELSE "none"]
          /\ nrLayer = [x \in NodeReq |-> IF x = r THEN Root ELSE None]
  BY DEF Init
<1>4. Requested /\ Victims
  BY <1>3 DEF Requested, LiveLayer, Victims
<1>5. Layers /\ Current /\ FailedDying /\ phase # "moved"
  BY DEF Init, Layers, Current, FailedDying
<1>6. CreateExact
  <2> SUFFICES ASSUME NEW l \in Layer
               PROVE  createCount[l] = Cardinality(Creations(l)) + Cardinality(NodeRequests(l))
    BY DEF CreateExact
  <2>1. Creations(l) = {}
    BY DEF Init, Creations
  <2>2. NodeRequests(l) = IF l = Root THEN {r} ELSE {}
    BY <1>3 DEF NodeRequests, Layer
  <2>3. Cardinality({}) = 0 /\ Cardinality({r}) = 1
    BY FS_EmptySet, FS_Singleton
  <2>4. createCount[l] = IF l = Root THEN 1 ELSE 0
    BY DEF Init
  <2> QED BY <2>1, <2>2, <2>3, <2>4
<1>7. DeleteExact
  <2> SUFFICES ASSUME NEW l \in Layer PROVE deleteCount[l] = Cardinality(Deletions(l))
    BY DEF DeleteExact
  <2>1. Deletions(l) = {} /\ deleteCount[l] = 0
    BY DEF Init, Deletions
  <2> QED BY <2>1, FS_EmptySet
<1> QED BY <1>1, <1>2, <1>4, <1>5, <1>6, <1>7 DEF TreeInv, TreeOK

LEMMA TreeInvStep == TypeOK /\ TreeInv /\ [Next]_vars => TreeInv'
<1> SUFFICES ASSUME TypeOK, TreeInv, [Next]_vars PROVE TreeInv'
  OBVIOUS
<1>1. Lifecycle /\ Iteration /\ TreeOK /\ Current /\ FailedDying /\ phase # "moved"
  BY DEF TreeInv
<1>2. LifeStep /\ Iteration' /\ TreeOK' /\ Current'
  BY <1>1, LifecycleStep, IterationStep, TreeStep, CurrentStep
<1>3. Lifecycle' /\ StaysDying
  BY <1>2 DEF LifeStep
<1>4. CASE Next
  BY <1>1, <1>2, <1>3, <1>4, FailedStep, NoMoveFails DEF TreeInv
<1>5. CASE UNCHANGED vars
  <2>1. FailedDying' /\ phase' # "moved"
    BY <1>1, <1>5 DEF vars, frameVars, requestVars, FailedDying, CancelledOrGone
  <2> QED BY <1>2, <1>3, <2>1 DEF TreeInv
<1> QED BY <1>4, <1>5

(* The parts of the invariant hold together, and only together: the counts *)
(* are exact because what is deleted has no request below it, which is so  *)
(* because the counts are exact.                                           *)
THEOREM TreeInvariant == Spec => []TreeInv
  BY InitTree, TreeInvStep, TypeCorrect, PTL DEF Spec

(* The counters of a layer are what they stand for, whatever is created and*)
(* deleted while other things are (fpcLy_CreatingMesg, fpcLy_DeletingMesg).*)
THEOREM CountersExact == Spec => []CountsExact
<1>1. TreeInv => CountsExact
  BY DEF TreeInv, TreeOK, CreateExact, DeleteExact, CountsExact
<1> QED BY <1>1, TreeInvariant, PTL

(* No pointer to a layer dangles: the current layer and the layers that    *)
(* processes, requests, delete tags, moves and node requests keep are those*)
(* of nodes that have not been freed.                                      *)
THEOREM PointersAlive == Spec => []LayersAlive
<1>1. TypeOK /\ TreeInv => LayersAlive
  <2> SUFFICES ASSUME TypeOK, TreeInv PROVE LayersAlive
    OBVIOUS
  <2>0. Records /\ Layers /\ LayersOf /\ DyingIn /\ Targets /\ Requested /\ Current
    BY DEF TreeInv, TreeOK
  <2>1. curLayer \in layers /\ (savedLayer # None => savedLayer \in layers)
    BY <2>0 DEF Current
  <2>2. ASSUME NEW p \in Proc
        PROVE  /\ life[p] = "alive" /\ init[p] # 3 => layerOf[p] \in layers
               /\ life[p] = "alive" /\ init[p] = 3 => delLayer[p] \in layers
               /\ req[p] # "none" => reqLayer[p] \in layers
    BY <2>0, LiveIsLayer DEF LayersOf, DyingIn, Placed
  <2>3. ASSUME NEW p \in Proc, req[p] # "none", target[p] # None PROVE target[p] \in layers
    BY <2>0, <2>3, AboveLive, LiveIsLayer DEF LayersOf, Targets
  <2>4. ASSUME NEW p \in Proc, prioTo[p] # None PROVE prioTo[p] \in layers
    BY <2>4, MovePossible DEF TreeInv
  <2>5. ASSUME NEW r \in NodeReq, nrPhase[r] # "none" PROVE nrLayer[r] \in layers
    BY <2>0, <2>5, LiveIsLayer DEF Requested
  <2> QED BY <2>1, <2>2, <2>3, <2>4, <2>5 DEF LayersAlive
<1> QED BY <1>1, TreeInvariant, TypeCorrect, PTL

(* Nothing lives in, or heads for, the layer of a dying node, for          *)
(* fpcNd_IsCreatingFromUnder asks the exact counts of all layers below.    *)
THEOREM DyingLayersEmpty == Spec => []DyingLayerEmpty
<1>1. TypeOK /\ TreeInv => DyingLayerEmpty
  <2> SUFFICES ASSUME TypeOK, TreeInv, NEW n \in Node, init[n] = 3
        PROVE  /\ \A p \in inLayer : layerOf[p] # n
               /\ Creations(n) = {} /\ NodeRequests(n) = {}
               /\ \A p \in Proc : prioTo[p] # n /\ (req[p] # "none" => target[p] # n)
    BY DEF DyingLayerEmpty
  <2>0. Records /\ Layers /\ LayersOf /\ Targets /\ Requested /\ LifeOK
    BY DEF TreeInv, TreeOK, Lifecycle
  <2>1. ~LiveLayer(n) /\ n # None
    BY FrameworkAssumption DEF LiveLayer
  <2>2. \A p \in inLayer : layerOf[p] # n
    BY <2>0, <2>1 DEF LayersOf, Records, LifeOK, Placed, TypeOK
  <2>3. Creations(n) = {} /\ NodeRequests(n) = {}
    BY <2>0, <2>1 DEF Creations, NodeRequests, LayersOf, Requested
  <2>4. \A p \in Proc : prioTo[p] # n
    BY <2>1, MovePossible DEF TreeInv
  <2>5. \A p \in Proc : req[p] # "none" => target[p] # n
    BY <2>0, <2>1, AboveLive DEF LayersOf, Targets
  <2> QED BY <2>2, <2>3, <2>4, <2>5
<1> QED BY <1>1, TreeInvariant, TypeCorrect, PTL

(* A process executes exactly when the node of its layer does: the line    *)
(* queue takes a node's layer with it, and a deletion leaves nothing there.*)
THEOREM RunsTogether == Spec => []LinedTogether
<1>1. TreeInv => LinedTogether
  BY DEF TreeInv, TreeOK, Lines
<1> QED BY <1>1, TreeInvariant, PTL

(* The node that a node request is to delete is there when its turn comes: *)
(* nothing else deletes it, alone or with the node above it.               *)
THEOREM VictimsAlive == Spec => []VictimAlive
<1>1. TypeOK /\ TreeInv => VictimAlive
  BY DEF TreeInv, TreeOK, Victims, Records, Lifecycle, LifeOK, VictimAlive, TypeOK
<1> QED BY <1>1, TreeInvariant, TypeCorrect, PTL

(* The assertion of fpcM_Management: no queued move fails, for fpcLy_Cancel*)
(* drops the moves into what is deleted.                                   *)
THEOREM MovesAlwaysSucceed == Spec => []MovesSucceed
<1>1. TypeOK /\ TreeInv => MovesSucceed
  BY MovePossible DEF TreeInv, MovesSucceed
<1> QED BY <1>1, TreeInvariant, TypeCorrect, PTL

(* A leaf whose create method failed stays out of the layers and of the    *)
(* line queue, but for the fast request that fpcCtRq_Cancel gave up because*)
(* of its stale is_doing.                                                  *)
THEOREM FailedLeafStaysOut == Spec => FailedStaysOut
<1>1. TypeOK /\ TreeInv /\ TreeInv' /\ [Next]_vars =>
          [\A p \in failed \intersect Leaf :
               p \in inLayer' \union inLine' => p \in inLayer \union inLine \/ LeftStale(p)]_vars
  <2> SUFFICES ASSUME TypeOK, TreeInv, TreeInv', Next, NEW p \in failed \intersect Leaf,
                      p \in inLayer' \union inLine', p \notin inLayer \union inLine
               PROVE  LeftStale(p)
    OBVIOUS
  <2>1. p \in Proc /\ req[p] # "none" /\ init[p] < 2
    BY EntersByRequest DEF TreeInv, Lifecycle, LifeOK, Leaf
  <2>2. req[p] = "dead"
    BY <2>1 DEF TreeInv, FailedDying, CancelledOrGone
  <2> QED BY <2>1, <2>2 DEF TreeInv, Lifecycle, LifeOK, LeftStale
<1>2. TypeOK /\ TreeInv /\ [Next]_vars => TreeInv'
  BY TreeInvStep
<1> QED BY <1>1, <1>2, TreeInvariant, TypeCorrect, PTL DEF Spec, FailedStaysOut

-----------------------------------------------------------------------------
(* The framework implements the tree                                       *)

LEMMA StatusIs ==
  ASSUME TypeOK, NEW p \in Proc
  PROVE  /\ StatusOf(p) = "absent"    <=> life[p] = "unborn"
         /\ StatusOf(p) = "requested" <=> life[p] = "requested"
         /\ StatusOf(p) = "gone"      <=> life[p] = "gone"
         /\ StatusOf(p) = "dying"     <=> life[p] = "alive" /\ init[p] = 3
         /\ StatusOf(p) = "running"   <=> life[p] = "alive" /\ init[p] = 2
         /\ StatusOf(p) = "ready"     <=> life[p] = "alive" /\ init[p] < 2 /\ p \in inLayer
         /\ StatusOf(p) = "creating"  <=> life[p] = "alive" /\ init[p] < 2 /\ p \notin inLayer
         /\ StatusOf(p) \in Tree!Status
<1>1. life[p] \in {"unborn", "requested", "alive", "gone"} /\ init[p] \in 0 .. 3
  BY DEF TypeOK
<1> QED BY <1>1 DEF StatusOf, StageOf, Tree!Status

LEMMA StatusWillBe ==
  ASSUME TypeOK', NEW p \in Proc
  PROVE  /\ StatusOf(p)' = "absent"    <=> life'[p] = "unborn"
         /\ StatusOf(p)' = "requested" <=> life'[p] = "requested"
         /\ StatusOf(p)' = "gone"      <=> life'[p] = "gone"
         /\ StatusOf(p)' = "dying"     <=> life'[p] = "alive" /\ init'[p] = 3
         /\ StatusOf(p)' = "running"   <=> life'[p] = "alive" /\ init'[p] = 2
         /\ StatusOf(p)' = "ready"     <=> life'[p] = "alive" /\ init'[p] < 2 /\ p \in inLayer'
         /\ StatusOf(p)' = "creating"  <=> life'[p] = "alive" /\ init'[p] < 2 /\ p \notin inLayer'
<1>1. life'[p] \in {"unborn", "requested", "alive", "gone"} /\ init'[p] \in 0 .. 3
  BY DEF TypeOK
<1> QED BY <1>1 DEF StatusOf, StageOf

LEMMA ParentIs ==
  ASSUME NEW p \in Proc
  PROVE  /\ life[p] = "requested" => ParentOf(p) = reqLayer[p]
         /\ life[p] = "alive" /\ init[p] = 3 => ParentOf(p) = delLayer[p]
         /\ life[p] = "alive" /\ init[p] # 3 => ParentOf(p) = layerOf[p]
         /\ life[p] \in {"unborn", "gone"} => ParentOf(p) = None
  BY DEF ParentOf

LEMMA ParentWillBe ==
  ASSUME NEW p \in Proc
  PROVE  /\ life'[p] = "requested" => ParentOf(p)' = reqLayer'[p]
         /\ life'[p] = "alive" /\ init'[p] = 3 => ParentOf(p)' = delLayer'[p]
         /\ life'[p] = "alive" /\ init'[p] # 3 => ParentOf(p)' = layerOf'[p]
         /\ life'[p] \in {"unborn", "gone"} => ParentOf(p)' = None
  BY DEF ParentOf

(* A process whose fields stay keeps its place.                            *)
LEMMA PlaceKept ==
  ASSUME TypeOK, TypeOK', NEW p \in Proc, life'[p] = life[p],
         life[p] = "requested" => reqLayer'[p] = reqLayer[p],
         life[p] = "alive" => /\ init'[p] = init[p] /\ (p \in inLayer' <=> p \in inLayer)
                              /\ init[p] = 3 => delLayer'[p] = delLayer[p]
                              /\ init[p] # 3 => layerOf'[p] = layerOf[p]
  PROVE  StatusOf(p)' = StatusOf(p) /\ ParentOf(p)' = ParentOf(p)
<1>1. life[p] \in {"unborn", "requested", "alive", "gone"} /\ init[p] \in 0 .. 3
  BY DEF TypeOK
<1>2. StatusOf(p)' = StatusOf(p)
  BY <1>1 DEF StatusOf, StageOf
<1>3. ParentOf(p)' = ParentOf(p)
  BY <1>1 DEF ParentOf
<1> QED BY <1>2, <1>3

TreeStepOK == UNCHANGED Tree!vars \/ Tree!Next

LEMMA TreeStutters ==
  ASSUME \A p \in Proc : StatusOf(p)' = StatusOf(p) /\ ParentOf(p)' = ParentOf(p)
  PROVE  TreeStepOK
  BY DEF TreeStepOK, Tree!vars

LEMMA LiveInTree ==
  ASSUME TypeOK, NEW l, LiveLayer(l)
  PROVE  Tree!IsLive(l)
  BY StatusIs, FrameworkAssumption DEF LiveLayer, Tree!IsLive, Tree!Living, Tree!Status

(* How each step of the tree is recognised.                                *)
LEMMA TreeRequests ==
  ASSUME TypeOK, TypeOK', NEW q \in Proc, NEW l \in Layer, LiveLayer(l),
         NEW s \in {"requested", "creating", "dying"},
         life[q] = "unborn", StatusOf(q)' = s, ParentOf(q)' = l,
         \A p \in Proc \ {q} : StatusOf(p)' = StatusOf(p) /\ ParentOf(p)' = ParentOf(p)
  PROVE  TreeStepOK
<1>1. Tree!IsLive(l) /\ l \in Tree!Layer
  BY LiveInTree DEF Layer, Tree!Layer
<1>2. StatusOf(q) = "absent"
  BY StatusIs
<1>3. Tree!Request(q, l, s)
  BY <1>1, <1>2 DEF Tree!Request
<1> QED BY <1>1, <1>3 DEF TreeStepOK, Tree!Next

LEMMA TreeStarts ==
  ASSUME NEW p \in Proc, StatusOf(p) = "requested", StatusOf(p)' = "creating",
         \A q \in Proc \ {p} : StatusOf(q)' = StatusOf(q),
         \A q \in Proc : ParentOf(q)' = ParentOf(q)
  PROVE  TreeStepOK
<1>1. Tree!Start(p)
  BY DEF Tree!Start
<1> QED BY <1>1 DEF TreeStepOK, Tree!Next

LEMMA TreeFrees ==
  ASSUME TypeOK, NEW p \in Proc, StatusOf(p) \in {"requested", "dying"},
         \A q \in Proc : /\ life[q] = "requested" => reqLayer[q] # p
                         /\ life[q] = "alive" /\ init[q] = 3 => delLayer[q] # p
                         /\ life[q] = "alive" /\ init[q] # 3 => layerOf[q] # p,
         StatusOf(p)' = "gone", ParentOf(p)' = None,
         \A q \in Proc \ {p} : StatusOf(q)' = StatusOf(q) /\ ParentOf(q)' = ParentOf(q)
  PROVE  TreeStepOK
<1>1. Tree!Childless(p)
  <2> SUFFICES ASSUME NEW q \in Proc, StatusOf(q) \in Tree!Present PROVE ParentOf(q) # p
    BY DEF Tree!Childless
  <2>1. life[q] \in {"requested", "alive"}
    BY StatusIs DEF Tree!Present, Tree!Living, TypeOK
  <2> QED BY <2>1, ParentIs
<1>2. Tree!Abandon(p) \/ Tree!Free(p)
  BY <1>1 DEF Tree!Abandon, Tree!Free
<1> QED BY <1>2 DEF TreeStepOK, Tree!Next

LEMMA TreeDeletes ==
  ASSUME TypeOK, TypeOK', Records, NEW n \in Proc, NEW Q, Deletes(n, Q), UNCHANGED <<life, reqLayer>>
  PROVE  TreeStepOK
<1>1. /\ Q \in SUBSET Proc
      /\ \A q \in Q : Placed(q)
      /\ \A q \in inLayer : layerOf[q] \in Q => q \in Q
      /\ \A p \in Proc : req[p] # "none" => reqLayer[p] \notin Q
      /\ \A q \in Proc : /\ init'[q] = IF q \in Q THEN 3 ELSE init[q]
                         /\ delLayer'[q] = IF q \in Q THEN layerOf[q] ELSE delLayer[q]
                         /\ layerOf'[q] = IF q \in Q THEN None ELSE layerOf[q]
      /\ inLayer' = inLayer \ Q
  BY DEF Deletes, TypeOK
<1>2. \A q \in Q : StatusOf(q) \in {"creating", "ready", "running"}
  BY <1>1, StatusIs DEF Placed, TypeOK
<1>3. ASSUME NEW q \in Proc, StatusOf(q) \in Tree!Living, ParentOf(q) \in Q PROVE q \in Q
  <2>1. life[q] = "requested" \/ Placed(q)
    BY <1>3, StatusIs DEF Tree!Living, Placed, TypeOK
  <2>2. CASE life[q] = "requested"
    BY <1>1, <1>3, <2>2, ParentIs DEF Records
  <2>3. CASE Placed(q)
    BY <1>1, <1>3, <2>3, ParentIs DEF Records, Placed
  <2> QED BY <2>1, <2>2, <2>3
<1>4. ASSUME NEW q \in Proc
      PROVE  /\ StatusOf(q)' = IF q \in Q THEN "dying" ELSE StatusOf(q)
             /\ ParentOf(q)' = ParentOf(q)
  <2>1. CASE q \in Q
    BY <1>1, <2>1, StatusWillBe, ParentIs, ParentWillBe DEF Placed
  <2>2. CASE q \notin Q
    BY <1>1, <2>2, PlaceKept
  <2> QED BY <2>1, <2>2
<1>5. Tree!Delete(Q)
  BY <1>2, <1>3, <1>4, <1>1 DEF Tree!Delete
<1> QED BY <1>1, <1>5 DEF TreeStepOK, Tree!Next

(* What is in a layer executes exactly when the node of the layer does.    *)
LEMMA TreeInStep ==
  ASSUME TypeOK', LifeOK', TreeOK'
  PROVE  \A q \in Proc : StatusOf(q)' \in {"ready", "running"} =>
             (StatusOf(q)' = "running" <=>
                 (ParentOf(q)' # Root => ParentOf(q)' \in Proc /\ StatusOf(ParentOf(q))' = "running"))
<1>0. Lines' /\ Records' /\ LayersOf'
  BY DEF TreeOK
<1>1. ASSUME NEW q \in Proc, life'[q] = "alive", init'[q] # 3
      PROVE  q \in inLine' <=> init'[q] = 2
  BY <1>0, <1>1 DEF Lines, LinedTogether, TypeOK
<1> SUFFICES ASSUME NEW q \in Proc, StatusOf(q)' \in {"ready", "running"}
             PROVE  StatusOf(q)' = "running" <=>
                 (ParentOf(q)' # Root => ParentOf(q)' \in Proc /\ StatusOf(ParentOf(q))' = "running")
  OBVIOUS
<1>2. q \in inLayer' /\ Placed(q)' /\ life'[q] = "alive" /\ init'[q] # 3
  BY <1>0, StatusWillBe DEF Lines, LinedTogether, Placed, TypeOK
<1> DEFINE l == layerOf'[q]
<1>3. ParentOf(q)' = l
  BY <1>2, ParentWillBe
<1>4. l = Root \/ (l \in Node /\ l \in Proc /\ life'[l] = "alive" /\ init'[l] # 3)
  BY <1>0, <1>2, FrameworkAssumption DEF LayersOf, LiveLayer
<1>5. StatusOf(q)' = "running" <=> q \in inLine'
  BY <1>1, <1>2, StatusWillBe
<1>6. q \in inLine' <=> (l = Root \/ l \in inLine')
  BY <1>0, <1>2 DEF Lines, LinedTogether
<1>7. ASSUME NEW k \in Proc, k = l PROVE StatusOf(k)' = "running" <=> init'[k] = 2 /\ life'[k] = "alive"
  BY StatusWillBe
<1> QED
  <2>1. CASE l = Root
    BY <1>3, <1>5, <1>6, <2>1
  <2>2. CASE l # Root
    BY <1>1, <1>3, <1>4, <1>5, <1>6, <2>2, StatusWillBe
  <2> QED BY <2>1, <2>2

LEMMA TreeEnters ==
  ASSUME TypeOK, TypeOK', LifeOK, LifeOK', TreeOK, TreeOK', NEW p \in Proc, req[p] \notin {"none", "load"},
         NEW l \in Layer, NEW L \in SUBSET Proc, Enters(p, l, L),
         UNCHANGED <<life, reqLayer, delLayer>>
  PROVE  TreeStepOK
<1>0. Records /\ Lines
  BY DEF TreeOK
<1>1. /\ LiveLayer(l) /\ (p \in Node => l = reqLayer[p])
      /\ L \subseteq inLayer \union {p} /\ L \intersect inLine = {}
      /\ p \notin inLayer /\ Placed(p)
      /\ inLayer' = inLayer \union {p}
      /\ L = IF l = Root \/ l \in inLine THEN Under(p) ELSE {}
  BY DEF Enters
<1>2. \A q \in Proc : /\ layerOf'[q] = IF q = p THEN l ELSE layerOf[q]
                      /\ init'[q] = IF q \in L THEN 2 ELSE init[q]
  BY DEF Enters, TypeOK
<1>3. init[p] < 2 /\ layerOf[p] = reqLayer[p] /\ life[p] = "alive"
  BY <1>0, <1>1 DEF LifeOK, Records, Placed
<1>4. StatusOf(p) = "creating" /\ ParentOf(p) = reqLayer[p]
  BY <1>1, <1>3, StatusIs, ParentIs
<1>5. \A q \in L \ {p} : q \in inLayer /\ life[q] = "alive" /\ init[q] < 2
  BY <1>0, <1>1 DEF Records, Lines, LinedTogether, LifeOK, TypeOK
<1>6. \A q \in L : q = p \/ StatusOf(q) = "ready"
  BY <1>5, StatusIs
<1>7. \A q \in Proc : ParentOf(q)' = IF q = p THEN l ELSE ParentOf(q)
  <2> SUFFICES ASSUME NEW q \in Proc PROVE ParentOf(q)' = IF q = p THEN l ELSE ParentOf(q)
    OBVIOUS
  <2>1. CASE q = p
    BY <1>2, <1>3, <2>1, ParentWillBe
  <2>2. CASE q # p
    <3>1. init'[q] = 3 <=> init[q] = 3
      BY <1>2, <1>5, <2>2
    <3>2. life[q] \in {"unborn", "requested", "alive", "gone"}
      BY DEF TypeOK
    <3> QED BY <1>2, <2>2, <3>1, <3>2, ParentIs, ParentWillBe
  <2> QED BY <2>1, <2>2
<1>8. \A q \in Proc : StatusOf(q)' = IF q \in L THEN "running" ELSE IF q = p THEN "ready" ELSE StatusOf(q)
  <2> SUFFICES ASSUME NEW q \in Proc
        PROVE  StatusOf(q)' = IF q \in L THEN "running" ELSE IF q = p THEN "ready" ELSE StatusOf(q)
    OBVIOUS
  <2>1. CASE q \in L
    BY <1>2, <1>3, <1>5, <2>1, StatusWillBe
  <2>2. CASE q \notin L /\ q = p
    BY <1>1, <1>2, <1>3, <2>2, StatusWillBe
  <2>3. CASE q \notin L /\ q # p
    BY <1>1, <1>2, <2>3, PlaceKept
  <2> QED BY <2>1, <2>2, <2>3
<1>9. Tree!Enter(p, l, L)
  <2>1. l \in Tree!Layer /\ Tree!IsLive(l)
    BY <1>1, LiveInTree DEF Layer, Tree!Layer
  <2>2. Tree!MayEnter(p, l)
    BY <1>1, <1>4, <2>1 DEF Tree!MayEnter
  <2> DEFINE s == [q \in Proc |-> StatusOf(q)]
             par == [q \in Proc |-> ParentOf(q)]
  <2>3. Tree!InStep(s', par')
    <3> SUFFICES ASSUME NEW q \in Proc, StatusOf(q)' \in {"ready", "running"}
                 PROVE  StatusOf(q)' = "running" <=> Tree!Runs(s', ParentOf(q)')
      BY DEF Tree!InStep
    <3>1. StatusOf(q)' = "running" <=>
                 (ParentOf(q)' # Root => ParentOf(q)' \in Proc /\ StatusOf(ParentOf(q))' = "running")
      BY TreeInStep
    <3>2. ASSUME NEW k, k = ParentOf(q)'
          PROVE  Tree!Runs(s', k) <=> (k # Root => k \in Proc /\ s'[k] = "running")
      <4>1. ParentOf(q)' = Root \/ ParentOf(q)' \in Proc
        <5>1. life'[q] = "alive" /\ init'[q] # 3
          BY StatusWillBe
        <5>2. ParentOf(q)' = layerOf'[q] /\ Placed(q)'
          BY <5>1, ParentWillBe DEF Placed
        <5> QED BY <5>2, FrameworkAssumption DEF TreeOK, LayersOf, LiveLayer
      <4> QED BY <3>2, <4>1 DEF Tree!Runs
    <3>3. ParentOf(q)' \in Proc => s'[ParentOf(q)'] = StatusOf(ParentOf(q))'
      OBVIOUS
    <3> QED BY <3>1, <3>2, <3>3
  <2>4. /\ par' = [par EXCEPT ![p] = l]
        /\ s' = [q \in Proc |-> IF q \in L THEN "running" ELSE IF q = p THEN "ready" ELSE s[q]]
    BY <1>7, <1>8
  <2>5. s[p] = "creating" /\ \A q \in L : q = p \/ s[q] = "ready"
    BY <1>4, <1>6
  <2> HIDE DEF s, par
  <2> QED BY <2>1, <2>2, <2>3, <2>4, <2>5 DEF Tree!Enter, s, par
<1> QED BY <1>9 DEF TreeStepOK, Tree!Next, Tree!Layer, Layer

(* A step that changes nothing of what places a process.                   *)
LEMMA TreeIdle ==
  ASSUME TypeOK, TypeOK', UNCHANGED <<life, init, reqLayer, layerOf, inLayer, delLayer>>
  PROVE  TreeStepOK
<1>1. ASSUME NEW p \in Proc PROVE StatusOf(p)' = StatusOf(p) /\ ParentOf(p)' = ParentOf(p)
  BY PlaceKept
<1> QED BY <1>1, TreeStutters

LEMMA TreeMoves ==
  ASSUME TypeOK, TypeOK', TreeOK, NEW p \in Proc, PriorityMove(p)
  PROVE  TreeStepOK
<1> DEFINE l == prioTo[p]
<1>1. /\ p \in Leaf /\ p \in inLayer /\ Placed(p) /\ l \in Node /\ l \in layers /\ init[l] = 2
      /\ LiveLayer(l) /\ l \in Proc /\ l # Root
  BY MovePossible, FrameworkAssumption DEF PriorityMove
<1>2. init[p] = 2
  BY <1>1 DEF TreeOK, Moves, PriorityMove
<1>3. /\ layerOf' = [layerOf EXCEPT ![p] = l]
      /\ UNCHANGED <<life, init, reqLayer, inLayer, delLayer>>
  BY <1>1 DEF PriorityMove, deleteVars, requestVars
<1>4. StatusOf(p) = "running" /\ StatusOf(l) = "running"
  BY <1>1, <1>2, StatusIs DEF Placed, LiveLayer
<1>5. \A q \in Proc : q # p => layerOf'[q] = layerOf[q]
  BY <1>3 DEF TypeOK
<1>6. layerOf'[p] = l
  BY <1>3 DEF TypeOK
<1> HIDE DEF l
<1>7. \A q \in Proc : q # p => StatusOf(q)' = StatusOf(q) /\ ParentOf(q)' = ParentOf(q)
  BY <1>3, <1>5, PlaceKept
<1>8. StatusOf(p)' = "running" /\ ParentOf(p)' = l
  BY <1>1, <1>2, <1>3, <1>6, StatusWillBe, ParentWillBe DEF Placed
<1>9. Tree!Move(p, l)
  BY <1>1, <1>4, <1>7, <1>8 DEF Tree!Move, Leaf
<1>10. l \in Tree!Layer
  BY <1>1 DEF Tree!Layer
<1> QED BY <1>9, <1>10 DEF TreeStepOK, Tree!Next

LEMMA DeleteSucceedsFrees ==
  ASSUME TypeOK, TypeOK', LifeOK, TreeOK, NEW p \in Proc, DeleteSucceeds(p),
         life[p] = "alive", init[p] = 3, \A q \in Proc : delLayer[q] # p
  PROVE  TreeStepOK
<1>0. Records /\ LayersOf
  BY DEF TreeOK
<1>1. /\ life' = [life EXCEPT ![p] = "gone"] /\ delLayer' = [delLayer EXCEPT ![p] = None]
      /\ reqLayer' = [reqLayer EXCEPT ![p] = None]
      /\ UNCHANGED <<init, layerOf, inLayer>>
  BY DEF DeleteSucceeds, layerVars
<1>2. /\ life'[p] = "gone"
      /\ \A q \in Proc : q # p => /\ life'[q] = life[q] /\ delLayer'[q] = delLayer[q]
                                  /\ reqLayer'[q] = reqLayer[q]
  BY <1>1 DEF TypeOK
<1>3. \A l : LiveLayer(l) => l # p
  BY FrameworkAssumption DEF LiveLayer
<1>4. \A q \in Proc : /\ life[q] = "requested" => reqLayer[q] # p
                      /\ life[q] = "alive" /\ init[q] = 3 => delLayer[q] # p
                      /\ life[q] = "alive" /\ init[q] # 3 => layerOf[q] # p
  BY <1>0, <1>3 DEF Records, LayersOf, Placed
<1>5. \A q \in Proc \ {p} : StatusOf(q)' = StatusOf(q) /\ ParentOf(q)' = ParentOf(q)
  BY <1>1, <1>2, PlaceKept
<1>6. StatusOf(p) = "dying" /\ StatusOf(p)' = "gone" /\ ParentOf(p)' = None
  BY <1>2, StatusIs, StatusWillBe, ParentWillBe
<1> QED BY <1>4, <1>5, <1>6, TreeFrees

LEMMA AllocFailsFrees ==
  ASSUME TypeOK, TypeOK', LifeOK, TreeOK, NEW p \in Proc, AllocFails(p)
  PROVE  TreeStepOK
<1>0. Records /\ LayersOf /\ DyingIn /\ Layers
  BY DEF TreeOK
<1>1. /\ life' = [life EXCEPT ![p] = "gone"] /\ req[p] = "load"
      /\ UNCHANGED <<init, reqLayer, layerOf, inLayer, delLayer>>
  BY DEF AllocFails, layerVars, deleteVars
<1>2. life'[p] = "gone" /\ \A q \in Proc : q # p => life'[q] = life[q]
  BY <1>1 DEF TypeOK
<1>3. life[p] = "requested"
  BY <1>0, <1>1 DEF Records
<1>4. /\ \A l : LiveLayer(l) => l # p
      /\ p \notin layers
  BY <1>0, <1>3, FrameworkAssumption DEF LiveLayer, Layers
<1>5. \A q \in Proc : /\ life[q] = "requested" => reqLayer[q] # p
                      /\ life[q] = "alive" /\ init[q] = 3 => delLayer[q] # p
                      /\ life[q] = "alive" /\ init[q] # 3 => layerOf[q] # p
  BY <1>0, <1>4 DEF Records, LayersOf, DyingIn, Placed
<1>6. \A q \in Proc \ {p} : StatusOf(q)' = StatusOf(q) /\ ParentOf(q)' = ParentOf(q)
  BY <1>1, <1>2, PlaceKept
<1>7. StatusOf(p) = "requested" /\ StatusOf(p)' = "gone" /\ ParentOf(p)' = None
  BY <1>2, <1>3, StatusIs, StatusWillBe, ParentWillBe
<1> QED BY <1>5, <1>6, <1>7, TreeFrees

LEMMA DeletePassInTree ==
  ASSUME TypeOK, TypeOK', TreeInv, NEW p \in Proc, DeletePass(p)
  PROVE  TreeStepOK
<1>1. LifeOK /\ TreeOK /\ Current /\ QueueDying
  BY DEF TreeInv, Lifecycle, Iteration
<1>2. CASE DeleteTimer(p) \/ DeleteRetries(p) \/ DeleteWaits(p) \/ DeleteBegins(p)
  BY <1>2, TreeIdle DEF DeleteTimer, DeleteRetries, DeleteWaits, DeleteBegins,
                        layerVars, requestVars
<1>3. CASE DeleteSucceeds(p)
  <2>1. phase = "delete" /\ cursor = p /\ p # None
    BY <1>3, FrameworkAssumption DEF DeleteSucceeds
  <2>2. life[p] = "alive" /\ init[p] = 3 /\ \A q \in Proc : delLayer[q] # p
    BY <1>1, <2>1 DEF Current, QueueDying
  <2> QED BY <1>1, <1>3, <2>2, DeleteSucceedsFrees
<1> QED BY <1>2, <1>3 DEF DeletePass

(* The first visit makes the process; later ones change nothing of it.     *)
LEMMA CreateBeginsInTree ==
  ASSUME TypeOK, TypeOK', LifeOK, TreeOK, NEW p \in Proc, CreateBegins(p)
  PROVE  TreeStepOK
<1>0. Records
  BY DEF TreeOK
<1>1. /\ life' = [life EXCEPT ![p] = "alive"] /\ layerOf' = [layerOf EXCEPT ![p] = reqLayer[p]]
      /\ req[p] \in {"load", "sub"}
      /\ UNCHANGED <<init, reqLayer, inLayer, delLayer>>
  BY DEF CreateBegins, deleteVars
<1>2. /\ life'[p] = "alive" /\ layerOf'[p] = reqLayer[p]
      /\ \A q \in Proc : q # p => life'[q] = life[q] /\ layerOf'[q] = layerOf[q]
  BY <1>1 DEF TypeOK
<1>3. init[p] < 2 /\ p \notin inLayer
  BY <1>1 DEF LifeOK
<1>4. \A q \in Proc \ {p} : StatusOf(q)' = StatusOf(q) /\ ParentOf(q)' = ParentOf(q)
  BY <1>1, <1>2, PlaceKept
<1>5. init'[p] < 2 /\ init'[p] # 3 /\ p \notin inLayer'
  BY <1>1, <1>3 DEF TypeOK
<1>6. StatusOf(p)' = "creating" /\ ParentOf(p)' = reqLayer[p]
  BY <1>2, <1>5, StatusWillBe, ParentWillBe
<1>7. CASE req[p] = "load"
  <2>1. life[p] = "requested"
    BY <1>0, <1>7 DEF Records
  <2>2. StatusOf(p) = "requested" /\ ParentOf(p) = reqLayer[p]
    BY <2>1, StatusIs, ParentIs
  <2> QED BY <1>4, <1>6, <2>2, TreeStarts
<1>8. CASE req[p] = "sub"
  <2>1. life[p] = "alive" /\ layerOf[p] = reqLayer[p] /\ init[p] # 3
    BY <1>0, <1>3, <1>8 DEF Records, Placed, TypeOK
  <2>2. StatusOf(p) = "creating" /\ ParentOf(p) = reqLayer[p]
    BY <1>3, <2>1, StatusIs, ParentIs
  <2> QED BY <1>4, <1>6, <2>2, TreeStutters
<1> QED BY <1>1, <1>7, <1>8

LEMMA CreateLoadingInTree ==
  ASSUME TypeOK, TypeOK', LifeOK, TreeOK, NEW p \in Proc, CreateLoading(p), req[p] = "sub"
  PROVE  TreeStepOK
<1>0. Records
  BY DEF TreeOK
<1>1. init' = [init EXCEPT ![p] = 1] /\ UNCHANGED <<life, reqLayer, layerOf, inLayer, delLayer>>
  BY DEF CreateLoading, layerVars, deleteVars
<1>2. init'[p] = 1 /\ \A q \in Proc : q # p => init'[q] = init[q]
  BY <1>1 DEF TypeOK
<1>3. init[p] < 2 /\ init[p] # 3 /\ p \notin inLayer /\ life[p] = "alive"
  BY <1>0 DEF LifeOK, Records, TypeOK
<1>4. \A q \in Proc \ {p} : StatusOf(q)' = StatusOf(q) /\ ParentOf(q)' = ParentOf(q)
  BY <1>1, <1>2, PlaceKept
<1>5. StatusOf(p) = "creating" /\ ParentOf(p) = layerOf[p]
  BY <1>3, StatusIs, ParentIs
<1>6. StatusOf(p)' = "creating" /\ ParentOf(p)' = layerOf[p]
  BY <1>1, <1>2, <1>3, StatusWillBe, ParentWillBe
<1> QED BY <1>4, <1>5, <1>6, TreeStutters

LEMMA CancelFailedInTree ==
  ASSUME TypeOK, TypeOK', LifeOK, TreeOK, NEW p \in Proc, CancelFailed(p), req[p] \in {"sub", "fast"},
         UNCHANGED <<life, reqLayer>>
  PROVE  TreeStepOK
<1>0. Records
  BY DEF TreeOK
<1>1. CASE IsCreatingFromUnder(p)
  BY <1>1, TreeIdle DEF CancelFailed, deleteVars, layerVars
<1>2. CASE ~IsCreatingFromUnder(p)
  <2>1. PICK R \in Refusals(p) : ToDeleteQ(p, R, "dead")
    BY <1>2 DEF CancelFailed
  <2>2. Placed(p)
    BY <1>0 DEF Records, LifeOK, Placed
  <2>3. Deletes(p, Queued(p, R))
    BY <1>2, <2>1, <2>2, ToDeleteQDeletes
  <2> QED BY <1>0, <2>3, TreeDeletes
<1> QED BY <1>1, <1>2

LEMMA ToExecuteQInTree ==
  ASSUME TypeOK, TypeOK', LifeOK, LifeOK', TreeOK, TreeOK', NEW p \in Proc,
         req[p] \notin {"none", "load"}, ToExecuteQ(p), UNCHANGED <<life, reqLayer, delLayer>>
  PROVE  TreeStepOK
<1>1. PICK l \in Layer, L \in SUBSET Proc : Enters(p, l, L)
  BY ToExecuteQEnters
<1> QED BY <1>1, TreeEnters

LEMMA CompletionInTree ==
  ASSUME TypeOK, TypeOK', LifeOK, LifeOK', TreeOK, TreeOK', NEW p \in Proc,
         req[p] \notin {"none", "load"}, CompletionPhases(p), UNCHANGED <<life, reqLayer, delLayer>>
  PROVE  TreeStepOK
<1>1. CASE ToExecuteQ(p)
  BY <1>1, ToExecuteQInTree
<1>2. CASE ~ToExecuteQ(p)
  BY <1>2, TreeIdle DEF CompletionPhases, layerVars
<1> QED BY <1>1, <1>2

LEMMA CreatePassInTree ==
  ASSUME TypeOK, TypeOK', TreeInv, TreeInv', NEW p \in Proc, CreatePass(p)
  PROVE  TreeStepOK
<1> USE DEF layerVars, deleteVars
<1>1. /\ LifeOK /\ LifeOK' /\ TreeOK /\ TreeOK'
      /\ phase = "create" /\ cursor = p => req[p] = "sub"
  BY FrameworkAssumption DEF TreeInv, Lifecycle, CursorOK
<1>2. CASE AllocFails(p) \/ CreateBegins(p)
  BY <1>1, <1>2, AllocFailsFrees, CreateBeginsInTree
<1>3. CASE CreateLoading(p)
  BY <1>1, <1>3, CreateLoadingInTree DEF CreateLoading
<1>4. CASE CreateFails(p) \/ FastFails(p)
  <2>1. req[p] \in {"sub", "fast"} /\ CancelFailed(p) /\ UNCHANGED <<life, reqLayer>>
    BY <1>1, <1>4 DEF CreateFails, FastFails
  <2> QED BY <1>1, <2>1, CancelFailedInTree
<1>5. CASE CreateSucceeds(p) \/ CreateCompletes(p)
  <2>1. req[p] \notin {"none", "load"} /\ CompletionPhases(p)
        /\ UNCHANGED <<life, reqLayer, delLayer>>
    BY <1>1, <1>5 DEF CreateSucceeds, CreateCompletes
  <2> QED BY <1>1, <2>1, CompletionInTree
<1>6. CASE FastCompletes(p)
  <2>1. req[p] \notin {"none", "load"} /\ ToExecuteQ(p) /\ UNCHANGED <<life, reqLayer, delLayer>>
    BY <1>6 DEF FastCompletes
  <2> QED BY <1>1, <2>1, ToExecuteQInTree
<1> QED BY <1>2, <1>3, <1>4, <1>5, <1>6 DEF CreatePass

LEMMA FrameStepInTree ==
  ASSUME TypeOK, TypeOK', TreeInv, TreeInv', FrameStep
  PROVE  TreeStepOK
<1> USE DEF layerVars, deleteVars, requestVars
<1>1. CASE StartDelete \/ SkipDelete \/ StartCreate \/ StartExecute \/ ExecuteEnds
  BY <1>1, TreeIdle DEF StartDelete, SkipDelete, StartCreate, StartExecute, ExecuteEnds
<1>2. ASSUME NEW p \in Proc, PriorityMove(p) PROVE TreeStepOK
  BY <1>2, TreeMoves DEF TreeInv
<1>3. ASSUME NEW p \in Proc, ExecutePass(p) PROVE TreeStepOK
  BY <1>3, TreeIdle DEF ExecutePass, ExecuteSkips, ExecuteBegins
<1> QED BY <1>1, <1>2, <1>3, DeletePassInTree, CreatePassInTree DEF FrameStep

(* A process is requested, or made at once, in a living layer.             *)
LEMMA NewRequestInTree ==
  ASSUME TypeOK, TypeOK', LifeOK, TreeOK, NEW q \in Proc, NEW l \in Layer,
         NEW ph \in {"load", "fast", "dead"},
         NewRequest(q, l, ph), life[q] = "unborn", LiveLayer(l),
         life' = [life EXCEPT ![q] = IF ph = "load" THEN "requested" ELSE "alive"],
         IF ph = "load" THEN layerOf' = layerOf ELSE layerOf' = [layerOf EXCEPT ![q] = l],
         UNCHANGED <<init, inLayer, delLayer>>
  PROVE  TreeStepOK
<1>1. init[q] < 2 /\ q \notin inLayer
  BY DEF LifeOK, TypeOK
<1>2. /\ reqLayer'[q] = l
      /\ life'[q] = IF ph = "load" THEN "requested" ELSE "alive"
      /\ ph # "load" => layerOf'[q] = l
      /\ \A p \in Proc : p # q => /\ life'[p] = life[p] /\ reqLayer'[p] = reqLayer[p]
                                  /\ layerOf'[p] = layerOf[p]
  BY DEF NewRequest, TypeOK
<1>3. \A p \in Proc \ {q} : StatusOf(p)' = StatusOf(p) /\ ParentOf(p)' = ParentOf(p)
  BY <1>2, PlaceKept
<1>4. init'[q] < 2 /\ init'[q] # 3 /\ q \notin inLayer'
  BY <1>1 DEF TypeOK
<1>5. CASE ph = "load"
  <2>1. StatusOf(q)' = "requested" /\ ParentOf(q)' = l
    BY <1>2, <1>5, StatusWillBe, ParentWillBe
  <2> QED BY <1>3, <2>1, TreeRequests
<1>6. CASE ph # "load"
  <2>1. StatusOf(q)' = "creating" /\ ParentOf(q)' = l
    BY <1>2, <1>4, <1>6, StatusWillBe, ParentWillBe
  <2> QED BY <1>3, <2>1, TreeRequests
<1> QED BY <1>5, <1>6

LEMMA FastCreateFailsInTree ==
  ASSUME TypeOK, TypeOK', TreeOK, NEW q \in Proc, CallFastCreateFails(q), LiveLayer(curLayer),
         curLayer \in Layer
  PROVE  TreeStepOK
<1>1. /\ life[q] = "unborn" /\ life' = [life EXCEPT ![q] = "alive"]
      /\ reqLayer' = [reqLayer EXCEPT ![q] = curLayer]
      /\ init' = [init EXCEPT ![q] = 3] /\ delLayer' = [delLayer EXCEPT ![q] = curLayer]
      /\ UNCHANGED <<layerOf, inLayer>>
  BY DEF CallFastCreateFails, layerVars
<1>2. /\ life'[q] = "alive" /\ init'[q] = 3 /\ delLayer'[q] = curLayer
      /\ \A p \in Proc : p # q => /\ life'[p] = life[p] /\ reqLayer'[p] = reqLayer[p]
                                  /\ init'[p] = init[p] /\ delLayer'[p] = delLayer[p]
  BY <1>1 DEF TypeOK
<1>3. \A p \in Proc \ {q} : StatusOf(p)' = StatusOf(p) /\ ParentOf(p)' = ParentOf(p)
  BY <1>1, <1>2, PlaceKept
<1>4. StatusOf(q)' = "dying" /\ ParentOf(q)' = curLayer
  BY <1>2, StatusWillBe, ParentWillBe
<1> QED BY <1>1, <1>3, <1>4, TreeRequests

LEMMA LeafDeletedInTree ==
  ASSUME TypeOK, TypeOK', Lifecycle, TreeOK, NEW q \in Leaf, CanDelete(q), ToDeleteQ(q, {}, req[q]),
         UNCHANGED <<life, reqLayer>>
  PROVE  TreeStepOK
<1>1. q \in Proc /\ Placed(q) /\ ~IsCreatingFromUnder(q)
  BY DEF CanDelete, Placed, IsCreatingFromUnder, Leaf
<1>2. Deletes(q, Queued(q, {}))
  BY <1>1, ToDeleteQDeletes DEF Lifecycle
<1> QED BY <1>1, <1>2, TreeDeletes DEF TreeOK

LEMMA ManagementInTree ==
  ASSUME TypeOK, TypeOK', TreeInv, Management
  PROVE  TreeStepOK
<1> USE DEF layerVars, deleteVars
<1>1. Lifecycle /\ LifeOK /\ TreeOK /\ LiveLayer(Root) /\ Root \in Layer
  BY DEF TreeInv, Lifecycle, LiveLayer, Layer
<1>2. ASSUME NEW r \in NodeReq, NodeReqDelete(r) PROVE TreeStepOK
  <2>1. PICK R : Deletes(nrNode[r], Queued(nrNode[r], R))
    BY <1>1, <1>2, NodeReqDeleteTree
  <2>2. nrNode[r] \in Proc /\ UNCHANGED <<life, reqLayer>>
    BY <1>1, <1>2, FrameworkAssumption DEF NodeReqDelete, Lifecycle, VictimOK
  <2> QED BY <1>1, <2>1, <2>2, TreeDeletes DEF TreeOK
<1>3. ASSUME NEW r \in NodeReq, NodeReqDeleted(r) \/ NodeReqEnds(r) PROVE TreeStepOK
  BY <1>3, TreeIdle DEF NodeReqDeleted, NodeReqEnds
<1>4. ASSUME NEW r \in NodeReq, NEW n \in Node, NodeReqCreate(r, n) PROVE TreeStepOK
  <2>1. nrPhase[r] = "create"
    BY <1>4 DEF NodeReqCreate
  <2>2. LiveLayer(nrLayer[r]) /\ nrLayer[r] \in Layer /\ n \in Proc
    BY <1>1, <2>1, LiveIsLayer, FrameworkAssumption DEF TreeOK, Requested
  <2>3. NewRequest(n, nrLayer[r], "load") /\ life[n] = "unborn" /\ life' = [life EXCEPT ![n] = "requested"]
        /\ UNCHANGED <<init, inLayer, layerOf, delLayer>>
    BY <1>4 DEF NodeReqCreate
  <2> QED BY <1>1, <2>2, <2>3, NewRequestInTree
<1>5. ASSUME NEW q \in Proc, OverlapCreate(q) PROVE TreeStepOK
  <2>1. NewRequest(q, Root, "load") /\ life[q] = "unborn" /\ life' = [life EXCEPT ![q] = "requested"]
        /\ UNCHANGED <<init, inLayer, layerOf, delLayer>>
    BY <1>5 DEF OverlapCreate
  <2> QED BY <1>1, <2>1, NewRequestInTree
<1>6. ASSUME NEW q \in Proc, OverlapDelete(q) PROVE TreeStepOK
  BY <1>1, <1>6, LeafDeletedInTree, FrameworkAssumption DEF OverlapDelete
<1> QED BY <1>2, <1>3, <1>4, <1>5, <1>6 DEF Management

LEMMA CallInTree ==
  ASSUME TypeOK, TypeOK', TreeInv, Call
  PROVE  TreeStepOK
<1> USE DEF layerVars, deleteVars, requestVars
<1>1. /\ Lifecycle /\ LifeOK /\ TreeOK
      /\ phase \in {"create", "execute"} /\ cursor # None =>
             LiveLayer(curLayer) /\ curLayer \in Layer
  BY LiveIsLayer DEF TreeInv, Lifecycle, Current, TreeOK
<1>2. ASSUME NEW q \in Proc, CallCreate(q) PROVE TreeStepOK
  <2>1. NewRequest(q, curLayer, "load") /\ life[q] = "unborn" /\ life' = [life EXCEPT ![q] = "requested"]
        /\ UNCHANGED <<init, inLayer, layerOf, delLayer>>
    BY <1>2 DEF CallCreate
  <2>2. LiveLayer(curLayer) /\ curLayer \in Layer
    BY <1>1, <1>2 DEF CallCreate, InMethod
  <2> QED BY <1>1, <2>1, <2>2, NewRequestInTree
<1>3. ASSUME NEW q \in Proc, NEW ok \in BOOLEAN, NEW stale \in BOOLEAN, CallFastCreate(q, ok, stale)
      PROVE  TreeStepOK
  <2> DEFINE ph == IF ok THEN "fast" ELSE "dead"
  <2>1. /\ NewRequest(q, curLayer, ph) /\ ph \in {"fast", "dead"}
        /\ life[q] = "unborn" /\ life' = [life EXCEPT ![q] = "alive"]
        /\ layerOf' = [layerOf EXCEPT ![q] = curLayer]
        /\ UNCHANGED <<init, inLayer, delLayer>>
    BY <1>3 DEF CallFastCreate
  <2>2. LiveLayer(curLayer) /\ curLayer \in Layer
    BY <1>1, <1>3 DEF CallFastCreate, InMethod
  <2> HIDE DEF ph
  <2> QED BY <1>1, <2>1, <2>2, NewRequestInTree
<1>4. ASSUME NEW q \in Proc, CallFastCreateFails(q) PROVE TreeStepOK
  BY <1>1, <1>4, FastCreateFailsInTree DEF CallFastCreateFails, InMethod
<1>5. ASSUME NEW q \in Proc, CallDelete(q) PROVE TreeStepOK
  BY <1>1, <1>5, LeafDeletedInTree DEF CallDelete
<1>6. ASSUME NEW q \in Proc, NEW l \in Node, CallChangeLayer(q, l) PROVE TreeStepOK
  BY <1>6, TreeIdle DEF CallChangeLayer
<1>7. ASSUME NEW r \in NodeReq, CallNodeCreate(r) PROVE TreeStepOK
  BY <1>7, TreeIdle DEF CallNodeCreate
<1>8. ASSUME NEW r \in NodeReq, NEW n \in Node, NEW k \in {"delete", "change"}, CallNodeDelete(r, n, k)
      PROVE  TreeStepOK
  BY <1>8, TreeIdle DEF CallNodeDelete
<1> QED BY <1>2, <1>3, <1>4, <1>5, <1>6, <1>7, <1>8 DEF Call

LEMMA StepInTree == TypeOK /\ TypeOK' /\ TreeInv /\ TreeInv' /\ [Next]_vars => TreeStepOK
<1> SUFFICES ASSUME TypeOK, TypeOK', TreeInv, TreeInv', [Next]_vars PROVE TreeStepOK
  OBVIOUS
<1>1. CASE Next
  BY <1>1, FrameStepInTree, ManagementInTree, CallInTree DEF Next
<1>2. CASE UNCHANGED vars
  BY <1>2, TreeIdle DEF vars, requestVars, layerVars, deleteVars
<1> QED BY <1>1, <1>2

LEMMA InitInTree == Init => Tree!Init
<1> SUFFICES ASSUME Init PROVE Tree!Init
  OBVIOUS
<1>1. ASSUME NEW p \in Proc PROVE StatusOf(p) = "absent" /\ ParentOf(p) = None
  BY DEF Init, StatusOf, ParentOf
<1> QED BY <1>1 DEF Tree!Init

(* Queues, tags, counters and frames implement the tree of processes:      *)
(* what the framework does to a process, one call or one visit at a time,  *)
(* is always a request, a creation, an entry into a layer, a move, the     *)
(* deletion of a whole branch or the freeing of a childless process.       *)
THEOREM TreeImplemented == Spec => ImplementsTree
<1>1. Init => Tree!Init
  BY InitInTree
<1>2. TypeOK /\ TypeOK' /\ TreeInv /\ TreeInv' /\ [Next]_vars
      => [UNCHANGED Tree!vars \/ Tree!Next]_(Tree!vars)
  BY StepInTree DEF TreeStepOK
<1> QED BY <1>1, <1>2, TypeCorrect, TreeInvariant, PTL DEF Spec, ImplementsTree
=============================================================================
