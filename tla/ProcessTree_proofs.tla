-------------------------- MODULE ProcessTree_proofs --------------------------
(***************************************************************************)
(* ProcessTree keeps a tree, whatever the processes and the nodes are.     *)
(* The invariant that carries the proof is TypeOK, TreeOK and Rooted with  *)
(* Placed: a process that exists has a layer at all (the parent of one     *)
(* that does not exist is None, of which status says nothing).             *)
(***************************************************************************)
EXTENDS ProcessTree, TLAPS

Placed == \A p \in Proc : status[p] \in Present => parent[p] \in Layer

TreeInv == TypeOK /\ Placed /\ TreeOK
Inv == TreeInv /\ Rooted

(* The statuses that take part in the tree.                                *)
LEMMA Statuses ==
    /\ Living \subseteq Present /\ Present \subseteq Status
    /\ "dying" \notin Living /\ "dying" \in Present
    /\ "absent" \notin Present /\ "gone" \notin Present
  BY DEF Living, Present, Status

LEMMA InitInv == Init => Inv
<1> SUFFICES ASSUME Init PROVE Inv
  OBVIOUS
<1>1. \A p \in Proc : status[p] = "absent"
  BY DEF Init
<1>2. TypeOK
  BY DEF Init, TypeOK, Status
<1>3. Placed /\ TreeOK
  BY <1>1, Statuses DEF Placed, TreeOK
<1>4. Rooted
  BY <1>1, Statuses DEF Rooted
<1> QED BY <1>2, <1>3, <1>4 DEF Inv, TreeInv

(* Each kind of step keeps the tree.                                       *)
LEMMA RequestTree ==
  ASSUME TreeInv, NEW p \in Proc, NEW l \in Layer,
         NEW s \in {"requested", "creating", "dying"}, Request(p, l, s)
  PROVE  TreeInv'
<1> USE TreeAssumption
<1>1. TypeOK'
  BY DEF TreeInv, TypeOK, Request, Status, Layer
<1>2. Placed'
  BY DEF TreeInv, TypeOK, Placed, Request, Layer
<1>3. \A q \in Proc : parent[q] = p => status[q] \notin Present
  BY Statuses DEF TreeInv, TypeOK, TreeOK, Placed, Request
<1>4. TreeOK'
  BY <1>3, Statuses DEF TreeInv, TypeOK, TreeOK, Placed, Request, Layer, IsLive
<1> QED BY <1>1, <1>2, <1>4 DEF TreeInv

LEMMA StartTree ==
  ASSUME TreeInv, NEW p \in Proc, Start(p)
  PROVE  TreeInv'
<1> USE TreeAssumption
<1>1. TypeOK'
  BY DEF TreeInv, TypeOK, Start, Status
<1>2. \A q \in Proc : /\ status'[q] \in Living <=> status[q] \in Living
                      /\ status'[q] \in Present <=> status[q] \in Present
  BY DEF TreeInv, TypeOK, Start, Living, Present
<1>3. Placed' /\ TreeOK'
  BY <1>2 DEF TreeInv, TypeOK, Placed, TreeOK, Start, Layer
<1> QED BY <1>1, <1>3 DEF TreeInv

LEMMA FreeTree ==
  ASSUME TreeInv, NEW p \in Proc, Abandon(p) \/ Free(p)
  PROVE  TreeInv'
<1> USE TreeAssumption
<1>1. /\ status' = [status EXCEPT ![p] = "gone"]
      /\ parent' = [parent EXCEPT ![p] = None]
      /\ Childless(p)
  BY DEF Abandon, Free
<1>2. TypeOK'
  BY <1>1 DEF TreeInv, TypeOK, Status
<1>3. Placed'
  BY <1>1, Statuses DEF TreeInv, TypeOK, Placed
<1>4. TreeOK'
  BY <1>1, Statuses DEF TreeInv, TypeOK, TreeOK, Placed, Childless, Layer
<1> QED BY <1>2, <1>3, <1>4 DEF TreeInv

LEMMA EnterTree ==
  ASSUME TreeInv, NEW p \in Proc, NEW l \in Layer, NEW W \in SUBSET Proc, Enter(p, l, W)
  PROVE  TreeInv'
<1> USE TreeAssumption
<1>1. TypeOK'
  BY DEF TreeInv, TypeOK, Enter, Status
<1>2. \A q \in Proc : /\ status'[q] \in Living <=> status[q] \in Living
                      /\ status'[q] \in Present <=> status[q] \in Present
  BY DEF TreeInv, TypeOK, Enter, Living, Present
<1>3. /\ IsLive(l) /\ parent'[p] = l
      /\ \A q \in Proc : q # p => parent'[q] = parent[q]
  BY DEF TreeInv, TypeOK, Enter, MayEnter
<1>4. Placed'
  BY <1>2, <1>3 DEF TreeInv, Placed
<1>5. TreeOK'
  BY <1>2, <1>3, Statuses DEF TreeInv, TreeOK, Placed, Layer, IsLive
<1> QED BY <1>1, <1>4, <1>5 DEF TreeInv

LEMMA MoveTree ==
  ASSUME TreeInv, NEW p \in Proc, NEW l \in Layer, Move(p, l)
  PROVE  TreeInv'
<1> USE TreeAssumption
<1>1. TypeOK'
  BY DEF TreeInv, TypeOK, Move
<1>2. Placed'
  BY DEF TreeInv, TypeOK, Placed, Move
<1>3. "running" \in Living
  BY DEF Living
<1>4. TreeOK'
  BY <1>3, Statuses DEF TreeInv, TypeOK, TreeOK, Placed, Move, Layer
<1> QED BY <1>1, <1>2, <1>4 DEF TreeInv

LEMMA DeleteTree ==
  ASSUME TreeInv, NEW S \in SUBSET Proc, Delete(S)
  PROVE  TreeInv'
<1> USE TreeAssumption
<1>1. TypeOK'
  BY DEF TreeInv, TypeOK, Delete, Status
<1>2. \A q \in Proc : /\ status'[q] \in Living <=> status[q] \in Living /\ q \notin S
                      /\ status'[q] \in Present <=> status[q] \in Present
  BY DEF TreeInv, TypeOK, Delete, Living, Present
<1>3. Placed'
  BY <1>2 DEF TreeInv, Placed, Delete
<1>4. TreeOK'
  BY <1>2, Statuses DEF TreeInv, TypeOK, TreeOK, Placed, Delete, Layer
<1> QED BY <1>1, <1>3, <1>4 DEF TreeInv

(* A step keeps processes rooted when it leaves all parents alone and      *)
(* adds nothing, or gives a parent to a process that has nothing under it. *)
LEMMA SameParents ==
  ASSUME Rooted,
         \A q \in Proc : status'[q] \in Present => /\ status[q] \in Present
                                                   /\ parent'[q] = parent[q]
  PROVE  Rooted'
  BY DEF Rooted

LEMMA OneNewParent ==
  ASSUME Rooted, NEW p \in Proc, parent'[p] # p,
         \A q \in Proc : status[q] \in Present => parent[q] # p,
         \A q \in Proc \ {p} : status'[q] \in Present => /\ status[q] \in Present
                                                         /\ parent'[q] = parent[q]
  PROVE  Rooted'
<1> SUFFICES ASSUME NEW S \in SUBSET {q \in Proc : status'[q] \in Present}, S # {}
             PROVE  \E q \in S : parent'[q] \notin S
  BY DEF Rooted
<1> DEFINE T == S \ {p}
<1>1. CASE T = {}
  <2>1. S = {p}
    BY <1>1
  <2> QED BY <2>1
<1>2. CASE T # {}
  <2>1. T \in SUBSET {q \in Proc : status[q] \in Present}
    OBVIOUS
  <2>2. PICK q \in T : parent[q] \notin T
    BY <1>2, <2>1 DEF Rooted
  <2>3. parent[q] # p /\ parent'[q] = parent[q]
    OBVIOUS
  <2> QED BY <2>2, <2>3
<1> QED BY <1>1, <1>2

LEMMA StepRooted ==
  ASSUME Inv, Next
  PROVE  Rooted'
<1> USE TreeAssumption
<1>1. ASSUME NEW p \in Proc, NEW l \in Layer, NEW s \in {"requested", "creating", "dying"},
             Request(p, l, s)
      PROVE  Rooted'
  <2>1. \A q \in Proc : status[q] \in Present => parent[q] # p
    BY <1>1, Statuses DEF Inv, TreeInv, TypeOK, TreeOK, Request
  <2>2. parent'[p] = l /\ l # p
    BY <1>1, Statuses DEF Inv, TreeInv, TypeOK, Request, IsLive
  <2>3. \A q \in Proc \ {p} : status'[q] = status[q] /\ parent'[q] = parent[q]
    BY <1>1 DEF Inv, TreeInv, TypeOK, Request
  <2> QED BY <2>1, <2>2, <2>3, OneNewParent DEF Inv
<1>2. ASSUME NEW p \in Proc, Start(p)
      PROVE  Rooted'
  BY <1>2, SameParents DEF Inv, TreeInv, TypeOK, Start, Living, Present
<1>3. ASSUME NEW p \in Proc, Abandon(p) \/ Free(p)
      PROVE  Rooted'
  BY <1>3, SameParents, Statuses DEF Inv, TreeInv, TypeOK, Abandon, Free
<1>4. ASSUME NEW p \in Proc, NEW l \in Layer, NEW W \in SUBSET Proc, Enter(p, l, W)
      PROVE  Rooted'
  <2>1. \A q \in Proc : status'[q] \in Present <=> status[q] \in Present
    BY <1>4 DEF Inv, TreeInv, TypeOK, Enter, Living, Present
  <2>2. parent' = [parent EXCEPT ![p] = l]
    BY <1>4 DEF Enter
  <2>3. CASE p \in Node
    <3>1. parent' = parent
      BY <1>4, <2>2, <2>3 DEF Inv, TreeInv, TypeOK, Enter, MayEnter
    <3> QED BY <2>1, <3>1, SameParents DEF Inv
  <2>4. CASE p \notin Node
    <3>1. \A q \in Proc : status[q] \in Present => parent[q] # p
      BY <2>4 DEF Inv, TreeInv, Placed, Layer
    <3>2. parent'[p] # p
      BY <2>2, <2>4 DEF Inv, TreeInv, TypeOK, Layer
    <3> QED BY <2>1, <2>2, <3>1, <3>2, OneNewParent DEF Inv, TreeInv, TypeOK
  <2> QED BY <2>3, <2>4
<1>5. ASSUME NEW p \in Proc, NEW l \in Layer, Move(p, l)
      PROVE  Rooted'
  <2>1. \A q \in Proc : status[q] \in Present => parent[q] # p
    BY <1>5 DEF Inv, TreeInv, Placed, Layer, Move
  <2>2. parent'[p] # p
    BY <1>5 DEF Inv, TreeInv, TypeOK, Move
  <2> QED BY <1>5, <2>1, <2>2, OneNewParent DEF Inv, TreeInv, TypeOK, Move
<1>6. ASSUME NEW S \in SUBSET Proc, Delete(S)
      PROVE  Rooted'
  BY <1>6, SameParents DEF Inv, TreeInv, TypeOK, Delete, Present, Living
<1> QED BY <1>1, <1>2, <1>3, <1>4, <1>5, <1>6 DEF Next

LEMMA NextInv == Inv /\ [Next]_vars => Inv'
<1> SUFFICES ASSUME Inv, [Next]_vars PROVE Inv'
  OBVIOUS
<1>1. CASE Next
  <2>1. TreeInv
    BY DEF Inv
  <2>2. TreeInv'
    BY <1>1, <2>1, RequestTree, StartTree, FreeTree, EnterTree, MoveTree, DeleteTree DEF Next
  <2> QED BY <1>1, <2>2, StepRooted DEF Inv
<1>2. CASE UNCHANGED vars
  BY <1>2 DEF vars, Inv, TreeInv, TypeOK, Placed, TreeOK, Rooted
<1> QED BY <1>1, <1>2

(* Every process that exists is under a layer that exists, and a living    *)
(* one under a living layer: what a pointer to a layer relies on.          *)
THEOREM TreeCorrect == Spec => []TreeOK
<1>1. Inv => TreeOK
  BY DEF Inv, TreeInv
<1> QED BY <1>1, InitInv, NextInv, PTL DEF Spec

(* The processes stay a tree: going up from any of them ends at the root.  *)
THEOREM TreeRooted == Spec => []Rooted
<1>1. Inv => Rooted
  BY DEF Inv
<1> QED BY <1>1, InitInv, NextInv, PTL DEF Spec
===============================================================================
