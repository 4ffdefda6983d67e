----------------------------- MODULE ProcessTree -----------------------------
(***************************************************************************)
(* What the process framework promises, without queues, tags, counters or  *)
(* frames: processes form a tree whose inner points are nodes.  A process  *)
(* is requested under a node, is created, enters its layer (an actor may   *)
(* choose another one), runs as soon as its node runs, is deleted with     *)
(* everything under it and is freed when nothing is under it any more.     *)
(* ProcessFramework implements this.                                       *)
(***************************************************************************)
EXTENDS Naturals

CONSTANTS Proc, Node, Root, None

ASSUME TreeAssumption ==
    Node \subseteq Proc /\ Root \notin Proc /\ None \notin Proc /\ Root # None

VARIABLES status, parent
vars == <<status, parent>>

Layer  == Node \union {Root}
Status == {"absent", "requested", "creating", "ready", "running", "dying", "gone"}
Living == {"requested", "creating", "ready", "running"}
Present == Living \union {"dying"}

IsLive(l) == l # Root => status[l] \in Living
Runs(s, l) == l # Root => s[l] = "running"

(* Processes in a layer run exactly when their node does.                  *)
InStep(s, par) ==
    \A q \in Proc : s[q] \in {"ready", "running"} => (s[q] = "running" <=> Runs(s, par[q]))

ChildlessIfLiving(p) ==       \* mutant: the dying ones below are forgotten
    \A q \in Proc : status[q] \in Living => parent[q] # p
Childless(p) == \A q \in Proc : status[q] \in Present => parent[q] # p

EnterAnywhere(p, l) == IsLive(l)               \* mutant: a node moves too
MayEnter(p, l) == IsLive(l) /\ (p \in Node => l = parent[p])

Init ==
    /\ status = [p \in Proc |-> "absent"]
    /\ parent = [p \in Proc |-> None]

(* A request, or a process made at once, or one that fails at once.        *)
Request(p, l, s) ==
    /\ status[p] = "absent" /\ l \in Layer /\ IsLive(l)
    /\ s \in {"requested", "creating", "dying"}
    /\ status' = [status EXCEPT ![p] = s]
    /\ parent' = [parent EXCEPT ![p] = l]

Start(p) ==
    /\ status[p] = "requested"
    /\ status' = [status EXCEPT ![p] = "creating"]
    /\ UNCHANGED parent

(* No memory: the request disappears with nothing made.                    *)
Abandon(p) ==
    /\ status[p] = "requested" /\ Childless(p)
    /\ status' = [status EXCEPT ![p] = "gone"]
    /\ parent' = [parent EXCEPT ![p] = None]

(* A created process enters a layer.  W are those it sets running: itself  *)
(* and all that wait below it, when its node runs.                         *)
Enter(p, l, W) ==
    /\ status[p] = "creating" /\ l \in Layer /\ MayEnter(p, l)
    /\ \A q \in W : q = p \/ status[q] = "ready"
    /\ parent' = [parent EXCEPT ![p] = l]
    /\ status' = [q \in Proc |-> IF q \in W THEN "running"
                                 ELSE IF q = p THEN "ready" ELSE status[q]]
    /\ InStep(status', parent')

Move(p, l) ==
    /\ status[p] = "running" /\ p \notin Node
    /\ l \in Node /\ status[l] = "running"
    /\ parent' = [parent EXCEPT ![p] = l]
    /\ UNCHANGED status

(* S is deleted together; nothing that lives is left under any of them.    *)
Delete(S) ==
    /\ \A p \in S : status[p] \in {"creating", "ready", "running"}
    /\ \A q \in Proc : status[q] \in Living /\ parent[q] \in S => q \in S
    /\ status' = [q \in Proc |-> IF q \in S THEN "dying" ELSE status[q]]
    /\ UNCHANGED parent

Free(p) ==
    /\ status[p] = "dying" /\ Childless(p)
    /\ status' = [status EXCEPT ![p] = "gone"]
    /\ parent' = [parent EXCEPT ![p] = None]

Next ==
    \/ \E p \in Proc :
          \/ Start(p) \/ Abandon(p) \/ Free(p)
          \/ \E l \in Layer : \/ \E s \in {"requested", "creating", "dying"} : Request(p, l, s)
                              \/ \E W \in SUBSET Proc : Enter(p, l, W)
                              \/ Move(p, l)
    \/ \E S \in SUBSET Proc : Delete(S)

Spec == Init /\ [][Next]_vars

-----------------------------------------------------------------------------
TypeOK ==
    /\ status \in [Proc -> Status]
    /\ parent \in [Proc -> Layer \union {None}]

(* Every process that exists is under a layer that exists, and a living    *)
(* one under a living layer.                                               *)
TreeOK ==
    \A p \in Proc :
        /\ status[p] \in Present => parent[p] = Root \/ status[parent[p]] \in Present
        /\ status[p] \in Living  => parent[p] = Root \/ status[parent[p]] \in Living

(* Processes form a tree: going up from any of them ends at the root, for  *)
(* no set of them has all its members under members of the set.            *)
Rooted ==
    \A S \in SUBSET {p \in Proc : status[p] \in Present} :
        S # {} => \E p \in S : parent[p] \notin S
=============================================================================
