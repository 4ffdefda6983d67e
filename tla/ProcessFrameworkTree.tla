------------------------ MODULE ProcessFrameworkTree ------------------------
(* ProcessFramework implements ProcessTree.                                *)
EXTENDS ProcessFramework

(* What the fields of a process say of its place in the tree.              *)
StageOf(p) ==
    IF init[p] = 3 THEN "dying"
    ELSE IF init[p] = 2 THEN "running"
    ELSE IF p \in inLayer THEN "ready" ELSE "creating"
StatusOf(p) ==
    CASE life[p] = "unborn"    -> "absent"
      [] life[p] = "requested" -> "requested"
      [] life[p] = "alive"     -> StageOf(p)
      [] life[p] = "gone"      -> "gone"

ParentOf(p) ==
    CASE life[p] \in {"unborn", "gone"} -> None
      [] life[p] = "requested"          -> reqLayer[p]
      [] OTHER -> IF init[p] = 3 THEN delLayer[p] ELSE layerOf[p]

Tree == INSTANCE ProcessTree WITH
            status <- [p \in Proc |-> StatusOf(p)],
            parent <- [p \in Proc |-> ParentOf(p)]

(* Every step of the framework is a step of the tree, or leaves it alone:  *)
(* Tree!Spec, with the stuttering, which most steps are, tried first.      *)
ImplementsTree ==
    Tree!Init /\ [][UNCHANGED Tree!vars \/ Tree!Next]_(Tree!vars)
=============================================================================
