-------------------------- MODULE SceneRequest_proofs --------------------------
(***************************************************************************)
(* What holds of SceneRequest for any stages, rooms, fades and requests,   *)
(* any peek time and any length of fade.  The safety properties of a scene *)
(* change are not inductive one by one: that the screen is closed while    *)
(* the scene is replaced rests on where the overlap is in each phase of    *)
(* the change, that on what the mailboxes hold, and that on where the fade *)
(* is, which only holds because there is one fade and one change.  SceneInv*)
(* is that agreement, in parts:                                            *)
(*   - ReqShape, InQueue: what a request and a queue hold in each phase;   *)
(*   - OverlapOK, FadesOK: the overlap's pointers, the fade and its mailbox*)
(*     in each phase of the overlap;                                       *)
(*   - OneChange, ChangeOK, OverlapNeeded, Using: the change and its       *)
(*     overlap, phase by phase;                                            *)
(*   - RoomsOK, LayersOK: the scenes that requests work on are there;      *)
(*   - PausedOK, Held: who is paused, and who must be.                     *)
(***************************************************************************)
EXTENDS SceneRequest, SequenceTheorems, TLAPS

-----------------------------------------------------------------------------
(* A mailbox whose word was collected.                                     *)
Quiet == Collected(DoneMsg)

(* What a request says in each of its phases.                              *)
RequestOK(r) ==
    /\ req[r].kind = "none" => req[r].id = 0 /\ req[r].creating = None /\ req[r].layer = None
    /\ req[r].kind = "create" => /\ req[r].id \in 1..3 /\ req[r].layer \in Stages
                                 /\ IF req[r].id = 1 THEN req[r].creating = None
                                                     ELSE req[r].creating \in Rooms
    /\ req[r].kind = "delete" => /\ req[r].id \in 1..3 /\ req[r].node \in Rooms
                                 /\ req[r].layer \in Stages /\ req[r].creating = None
    /\ Changing(r) => /\ req[r].id \in 1..9 /\ req[r].node \in Stages /\ req[r].layer = None
                      /\ IF req[r].id \in 1..5 THEN req[r].creating = None
                                               ELSE req[r].creating \in Stages
ReqShape == \A r \in Requests : RequestOK(r)

(* A pass visits what is in its queue.                                     *)
InQueue ==
    \A p \in Procs : p \in todo =>
        /\ pass = "delete" => life[p] = "dying"
        /\ pass = "create" => life[p] = "requested"
        /\ pass = "execute" => life[p] = "running"

(* The overlap has a fade from its second phase on.                        *)
OverlapOK ==
    /\ ov.used => /\ ov.id \in 1..7 /\ ov.busy
                  /\ ov.id = 1 => ov.proc = None
                  /\ ov.id >= 2 => ov.proc \in Fades
                  /\ ov.id >= 3 => ov.task = ov.proc /\ life[ov.proc] = "running"
                  /\ ov.id < 6 => ov.linger = 1
                  /\ ov.id = 6 => ov.linger \in {0, 1}
                  /\ ov.id = 2 => life[ov.proc] \in {"requested", "running"} \/ "fade" \in failed
    /\ ~ov.used \/ ov.id < 3 => ov.task = None
    /\ ov.busy /\ ~ov.used => "fade" \in failed

(* Where a fade is that belongs to an overlap in phase n.                  *)
FadeAt(n, msg) ==
    /\ n \in 2..3 => \/ executeF = "in" /\ msg = Command(1)
                     \/ executeF = "wait" /\ msg = DoneMsg
    /\ n = 4 => executeF = "wait" /\ msg = Quiet
    /\ n = 5 => \/ executeF \in {"wait", "out"} /\ msg = Command(2)
                \/ executeF = "out" /\ msg = DoneMsg
    /\ n > 5 => executeF = "out"

(* There is one fade, the overlap's.                                       *)
FadesOK ==
    \A f \in Fades :
        /\ life[f] # "waiting"
        /\ life[f] = "requested" => ov.used /\ ov.id = 2 /\ ov.proc = f
        /\ life[f] = "running" => ov.used /\ ov.id >= 2 /\ ov.proc = f /\ FadeAt(ov.id, fade[f].msg)

(* One change at a time, and where the overlap is in each of its phases.   *)
OneChange == \A r, s \in Requests : Changing(r) /\ Changing(s) => r = s
(* Expected: the request has yet to be visited in this frame.              *)
Expected(r) == pass # "overlap" /\ (pass = "scenes" => r \in todo \/ current = r)
Together(r) ==
    LET i == req[r].id IN
    /\ i \in 1..2 => (ov.id \in 1..3 /\ ov.base = Command(1)) \/ (ov.id = 4 /\ ov.base = DoneMsg)
    /\ i \in 3..7 => ov.id = 4 /\ ov.base = Quiet
    /\ i = 8 => \/ ov.id \in 4..5 /\ ov.base = Command(2)
                \/ ov.id = 6 /\ ov.linger = 1 /\ ov.base = Command(2)
                \/ ov.id = 6 /\ ov.linger = 0 /\ ov.base = DoneMsg /\ Expected(r)
    /\ i = 9 => ov.id = 6 /\ ov.linger = 0 /\ pass = "scenes" /\ current = r
ChangeOK ==
    \A r \in Requests : Changing(r) =>
        ov.busy /\ (IF ov.used THEN Together(r) ELSE req[r].id \in 1..2)
(* The overlap outlives its change in its last phases only, and so does the*)
(* flag l_fopScnRq_IsUsingOfOverlap, but for a failure.                    *)
OverlapNeeded == ov.used /\ ov.id < 6 => \E r \in Requests : Changing(r)
Using == using => (\E r \in Requests : Changing(r)) \/ failed # {}

(* A room is what its stage lets it be.                                    *)
RoomsOK ==
    \A q \in Rooms :
        /\ life[q] # "free" => parent[q] \in Stages
        /\ life[q] = "requested" => life[parent[q]] \in {"requested", "running"}
        /\ life[q] = "waiting" => life[parent[q]] = "requested"
        /\ life[q] = "running" => life[parent[q]] = "running"
(* The scene in whose layer a request was made is there, and so is the one *)
(* that a change makes, unless its creation failed.                        *)
LayersOK ==
    /\ \A s \in Stages : life[s] # "waiting"
    /\ \A r \in Requests : req[r].layer # None => life[req[r].layer] \in {"requested", "running"}
    /\ \A r \in Requests : Changing(r) /\ req[r].creating # None =>
           life[req[r].creating] \in {"requested", "running"} \/ "scene" \in failed

(* What is paused is, or is in, a scene that a change has made.            *)
In(x, s) == x = s \/ (x \in Rooms /\ parent[x] = s)
PausedOK ==
    \A x \in Scenes : paused[x] =>
        /\ life[x] \in {"running", "dying"}
        /\ life[x] = "running" => \E r \in Requests : Changing(r) /\ In(x, req[r].creating)
(* Until the fade opens, what runs of that scene is paused, and nothing in *)
(* it is being made that could start unpaused.                             *)
Held ==
    \A r \in Requests : Changing(r) /\ req[r].creating # None /\ executeF # "out"
                        /\ life[req[r].creating] = "running" =>
        /\ ~CreatingUnder(req[r].creating)
        /\ \A x \in Scenes : In(x, req[r].creating) /\ life[x] = "running" => paused[x]

SceneInv == TypeOK /\ ReqShape /\ InQueue /\ OverlapOK /\ FadesOK /\ OneChange /\ ChangeOK /\ OverlapNeeded
            /\ Using /\ RoomsOK /\ LayersOK /\ PausedOK /\ Held

-----------------------------------------------------------------------------
(* The phase tables.                                                       *)

PhaseNames == {"IsDoingOverlap", "IsDoneOverlap", "Delete", "IsDeleted", "Create", "IsCreated",
               "ClearOverlap", "Done"}

(* A sequence is a concatenation when it has its length and its elements.  *)
LEMMA ConcatIs ==
  ASSUME NEW s \in Seq(PhaseNames), NEW t \in Seq(PhaseNames), NEW u \in Seq(PhaseNames),
         Len(u) = Len(s) + Len(t),
         \A i \in 1..Len(u) : u[i] = IF i <= Len(s) THEN s[i] ELSE t[i - Len(s)]
  PROVE  s \o t = u
  BY ConcatProperties, SeqEqual

(* The phases of a change: fopScnRq_Request's table with fpcNdRq's inside. *)
LEMMA ChangeTable ==
  PhaseTable("change") = <<"IsDoingOverlap", "IsDoneOverlap", "Delete", "IsDeleted", "Create",
                           "IsCreated", "ClearOverlap", "IsDoneOverlap", "Done">>
<1> DEFINE s == <<"IsDoingOverlap", "IsDoneOverlap">>
           t == <<"Delete", "IsDeleted", "Create", "IsCreated">>
           st == <<"IsDoingOverlap", "IsDoneOverlap", "Delete", "IsDeleted", "Create", "IsCreated">>
           u == <<"ClearOverlap", "IsDoneOverlap", "Done">>
           stu == <<"IsDoingOverlap", "IsDoneOverlap", "Delete", "IsDeleted", "Create",
                    "IsCreated", "ClearOverlap", "IsDoneOverlap", "Done">>
<1>1. /\ s \in Seq(PhaseNames) /\ t \in Seq(PhaseNames) /\ u \in Seq(PhaseNames)
      /\ st \in Seq(PhaseNames) /\ stu \in Seq(PhaseNames)
  BY DEF PhaseNames
<1>2. PhaseTable("change") = (s \o t) \o u
  BY DEF PhaseTable, NodePhases
<1>3. s \o t = st
  <2>1. Len(st) = Len(s) + Len(t) /\ \A i \in 1..Len(st) : st[i] = IF i <= Len(s) THEN s[i] ELSE t[i - Len(s)]
    OBVIOUS
  <2> HIDE DEF s, t, st
  <2> QED BY <1>1, <2>1, ConcatIs
<1>4. st \o u = stu
  <2>1. Len(stu) = Len(st) + Len(u) /\ \A i \in 1..Len(stu) : stu[i] = IF i <= Len(st) THEN st[i] ELSE u[i - Len(st)]
    OBVIOUS
  <2> HIDE DEF st, u, stu
  <2> QED BY <1>1, <2>1, ConcatIs
<1> QED BY <1>2, <1>3, <1>4

(* The phases of a creation and of a deletion.                             *)
LEMMA OtherTables ==
  /\ PhaseTable("create") = <<"Create", "IsCreated", "Done">>
  /\ PhaseTable("delete") = <<"Delete", "IsDeleted", "Done">>
<1> DEFINE c == <<"Create", "IsCreated">>
           d == <<"Delete", "IsDeleted">>
           e == <<"Done">>
           ce == <<"Create", "IsCreated", "Done">>
           de == <<"Delete", "IsDeleted", "Done">>
<1>1. /\ c \in Seq(PhaseNames) /\ d \in Seq(PhaseNames) /\ e \in Seq(PhaseNames)
      /\ ce \in Seq(PhaseNames) /\ de \in Seq(PhaseNames)
  BY DEF PhaseNames
<1>2. PhaseTable("create") = c \o e /\ PhaseTable("delete") = d \o e
  BY DEF PhaseTable, NodePhases
<1>3. /\ Len(ce) = Len(c) + Len(e) /\ \A i \in 1..Len(ce) : ce[i] = IF i <= Len(c) THEN c[i] ELSE e[i - Len(c)]
      /\ Len(de) = Len(d) + Len(e) /\ \A i \in 1..Len(de) : de[i] = IF i <= Len(d) THEN d[i] ELSE e[i - Len(d)]
  OBVIOUS
<1>4. c \o e = ce /\ d \o e = de
  <2> HIDE DEF c, d, e, ce, de
  <2> QED BY <1>1, <1>3, ConcatIs
<1> QED BY <1>2, <1>4

(* The phase of a request by the number it has come to.                    *)
LEMMA Phases ==
  ASSUME TypeOK, ReqShape, NEW r \in Requests
  PROVE  /\ Phase(r) = "IsDoingOverlap" <=> Changing(r) /\ req[r].id = 1
         /\ Phase(r) = "IsDoneOverlap" <=> Changing(r) /\ req[r].id \in {2, 8}
         /\ Phase(r) = "ClearOverlap" <=> Changing(r) /\ req[r].id = 7
         /\ Phase(r) = "Delete" <=> (Changing(r) /\ req[r].id = 3) \/ (req[r].kind = "delete" /\ req[r].id = 1)
         /\ Phase(r) = "IsDeleted" <=> (Changing(r) /\ req[r].id = 4) \/ (req[r].kind = "delete" /\ req[r].id = 2)
         /\ Phase(r) = "Create" <=> (Changing(r) /\ req[r].id = 5) \/ (req[r].kind = "create" /\ req[r].id = 1)
         /\ Phase(r) = "IsCreated" <=> (Changing(r) /\ req[r].id = 6) \/ (req[r].kind = "create" /\ req[r].id = 2)
         /\ Phase(r) = "Done" <=> (Changing(r) /\ req[r].id = 9) \/ (req[r].kind \in {"create", "delete"} /\ req[r].id = 3)
<1>1. req[r].kind \in {"none", "create", "delete", "change"}
  BY DEF TypeOK
<1>2. CASE req[r].kind = "none"
  BY <1>2 DEF ReqShape, RequestOK, Phase, Changing
<1>3. CASE req[r].kind = "create"
  <2>1. req[r].id \in 1..3 /\ Phase(r) = <<"Create", "IsCreated", "Done">>[req[r].id]
    BY <1>3, OtherTables DEF ReqShape, RequestOK, Phase
  <2> QED BY <1>3, <2>1 DEF Changing
<1>4. CASE req[r].kind = "delete"
  <2>1. req[r].id \in 1..3 /\ Phase(r) = <<"Delete", "IsDeleted", "Done">>[req[r].id]
    BY <1>4, OtherTables DEF ReqShape, RequestOK, Phase
  <2> QED BY <1>4, <2>1 DEF Changing
<1>5. CASE req[r].kind = "change"
  <2>1. /\ req[r].id \in 1..9
        /\ Phase(r) = <<"IsDoingOverlap", "IsDoneOverlap", "Delete", "IsDeleted", "Create",
                           "IsCreated", "ClearOverlap", "IsDoneOverlap", "Done">>[req[r].id]
    BY <1>5, ChangeTable DEF ReqShape, RequestOK, Phase, Changing
  <2> QED BY <1>5, <2>1 DEF Changing
<1> QED BY <1>1, <1>2, <1>3, <1>4, <1>5

-----------------------------------------------------------------------------
(* What the steps do to the requests.                                      *)

ReqRecord == [kind : {"none", "create", "delete", "change"}, id : 0..9,
              node : Scenes \union {None}, layer : Stages \union {None},
              creating : Scenes \union {None}, name : Names \union {None}]

(* What the ways in which a request goes on do to the requests.            *)
LEMMA AdvancedIs ==
  ASSUME req \in [Requests -> ReqRecord], NEW r \in Requests, Advanced(r)
  PROVE  /\ \A x \in Requests : x # r => req'[x] = req[x]
         /\ req'[r] = [req[r] EXCEPT !.id = req[r].id + 1]
         /\ UNCHANGED <<current, todo>>
  BY DEF Advanced

(* What the end of a request does to the requests.                         *)
LEMMA DroppedIs ==
  ASSUME req \in [Requests -> ReqRecord], NEW r \in Requests, req' = [req EXCEPT ![r] = NoReq]
  PROVE  /\ \A x \in Requests : x # r => req'[x] = req[x]
         /\ req'[r] = NoReq
         /\ req'[r].kind = "none" /\ req'[r].id = 0 /\ req'[r].creating = None
         /\ req'[r].layer = None
         /\ ~Changing(r)'
  BY DEF NoReq, Changing

(* A change that fails takes its fade with it.                             *)
LEMMA CancelledIs ==
  ASSUME OverlapOK, ChangeOK, NEW r \in Requests, Changing(r) => req[r].id \in 5..6, Cancelled(r)
  PROVE  /\ req' = [req EXCEPT ![r] = NoReq]
         /\ current' = None /\ todo' = todo
         /\ Changing(r) => ov.used /\ life' = FadeDeleted /\ ov' = Cleared
         /\ ~Changing(r) => UNCHANGED <<life, ov>>
<1>1. Changing(r) => ov.used /\ ov.id = 4
  BY DEF ChangeOK, Together
<1>2. Changing(r) => ov.task = ov.proc /\ life[ov.proc] = "running"
  BY <1>1 DEF OverlapOK
<1>3. Changing(r) => DeletableTask
  BY <1>2 DEF DeletableTask
<1> QED BY <1>1, <1>3 DEF Cancelled

(* The steps of a scene request, by what they do to it.                    *)
Advances(r) == Advanced(r) /\ Phase(r) \in {"IsDoingOverlap", "IsDoneOverlap", "Delete", "IsDeleted", "IsCreated", "ClearOverlap"}
Creates(r) ==
    /\ Phase(r) = "Create"
    /\ \E s \in IF req[r].kind = "create" THEN Rooms ELSE Stages :
         req' = [req EXCEPT ![r].creating = s, ![r].id = @ + 1]
Drops(r) == req' = [req EXCEPT ![r] = NoReq]
Asks(r) ==
    /\ req[r].kind = "none"
    /\ \/ \E s \in Stages, n \in Names : req' = [req EXCEPT ![r] = Queued(r, "change", s, None, n)]
       \/ \E s \in Stages : req' = [req EXCEPT ![r] = Queued(r, "create", s, s, None)]
       \/ \E q \in Rooms : life[q] = "running" /\ req' = [req EXCEPT ![r] = Queued(r, "delete", q, parent[q], None)]
Renames == \E n \in Names : req' = [req EXCEPT ![scnRqID].name = n]

(* Every step leaves the requests alone, renames one or moves one on.      *)
LEMMA RequestSteps ==
  ASSUME TypeOK, ReqShape, OverlapOK, ChangeOK, Next
  PROVE  req' = req \/ Renames \/ \E r \in Requests : Advances(r) \/ Creates(r) \/ Drops(r) \/ Asks(r)
<1>1. ASSUME NEW r \in Requests, Management(r)
      PROVE  req' = req \/ Advances(r) \/ Creates(r) \/ Drops(r)
  <2>1. CASE RequestVisited(r)
    BY <2>1 DEF RequestVisited, Drops
  <2>2. CASE IsDoingOverlap(r) \/ IsDoneOverlap(r) \/ DeleteNode(r) \/ IsDeleted(r) \/ ClearOverlap(r)
    BY <2>2 DEF IsDoingOverlap, IsDoneOverlap, DeleteNode, IsDeleted, ClearOverlap, InPhase,
       Blocked,
                Advances, Advanced
  <2>3. CASE CreateNode(r)
    BY <2>3 DEF CreateNode, Creates, InPhase
  <2>4. CASE CreateNodeFails(r) \/ (IsCreated(r) /\ Cancelled(r))
    <3>1. Cancelled(r) /\ (Changing(r) => req[r].id \in 5..6)
      BY <2>4, Phases DEF CreateNodeFails, IsCreated, InPhase, Changing
    <3> QED BY <3>1, CancelledIs DEF Drops
  <2>5. CASE IsCreated(r) /\ ~Cancelled(r)
    BY <2>5 DEF IsCreated, InPhase, Blocked, Advances, Advanced
  <2>6. CASE RequestDone(r)
    BY <2>6 DEF RequestDone, Drops
  <2> QED BY <1>1, <2>1, <2>2, <2>3, <2>4, <2>5, <2>6 DEF Management
<1>2. CASE FrameStep
  <2>1. CASE PassEnds
    BY <2>1 DEF PassEnds
  <2>2. CASE OverlapManagement
    BY <2>2 DEF OverlapManagement, OverlapIdle, OverlapCreate, OverlapIsCreated,
       OverlapIsComplete,
       OverlapWaitOfFadeout, OverlapIsWaitOfFadeout, OverlapIsDone, OverlapDone, AtOverlap
  <2>3. ASSUME NEW p \in Procs, Freed(p) \/ DeleteWaits(p) \/ CreatePass(p) \/ ExecutePass(p)
        PROVE  req' = req
    BY <2>3 DEF Freed, DeleteWaits, CreatePass, CreateWaits, StageCreated, RoomCreated,
       SceneFails,
       FadeCreated, FadeFails, ExecutePass, FadeInNotReady, FadeIn, FadeWait, FadeOut,
       SceneExecuted
  <2> QED BY <1>1, <1>2, <2>1, <2>2, <2>3 DEF FrameStep
<1>3. CASE Call
  <2>1. ASSUME NEW s \in Scenes, NEW r \in Requests, NEW n \in Names, ChangeReq(s, r, n)
        PROVE  Asks(r)
    BY <2>1 DEF ChangeReq, Asks
  <2>2. ASSUME NEW s \in Scenes, NEW r \in Requests, CreateRoomReq(s, r) PROVE Asks(r)
    BY <2>2 DEF CreateRoomReq, Asks
  <2>3. ASSUME NEW s \in Scenes, NEW r \in Requests, DeleteRoomReq(s, r) PROVE Asks(r)
    BY <2>3 DEF DeleteRoomReq, Asks, Executes
  <2>4. ASSUME NEW s \in Scenes, NEW n \in Names, ReRequest(s, n) PROVE Renames
    BY <2>4 DEF ReRequest, Renames
  <2> QED BY <1>3, <2>1, <2>2, <2>3, <2>4 DEF Call
<1> QED BY <1>2, <1>3 DEF Next

(* The type of the requests.                                               *)
LEMMA ReqTyped == ASSUME TypeOK PROVE req \in [Requests -> ReqRecord]
  BY DEF TypeOK, ReqRecord

(* Another request, and what it asks.                                      *)
LEMMA AskedIs ==
  ASSUME TypeOK, RoomsOK, NEW r \in Requests, Asks(r)
  PROVE  /\ \A x \in Requests : x # r => req'[x] = req[x]
         /\ req'[r] \in ReqRecord /\ req'[r].id = 1 /\ req'[r].creating = None
         /\ \/ req'[r].kind = "change" /\ req'[r].node \in Stages /\ req'[r].layer = None
            \/ req'[r].kind = "create" /\ req'[r].layer \in Stages
            \/ req'[r].kind = "delete" /\ req'[r].node \in Rooms /\ req'[r].layer \in Stages
<1>1. CASE \E s \in Stages, n \in Names : req' = [req EXCEPT ![r] = Queued(r, "change", s, None, n)]
  BY <1>1 DEF TypeOK, Queued, ReqRecord, Scenes
<1>2. CASE \E s \in Stages : req' = [req EXCEPT ![r] = Queued(r, "create", s, s, None)]
  BY <1>2 DEF TypeOK, Queued, ReqRecord, Scenes
<1>3. CASE \E q \in Rooms : life[q] = "running" /\ req' = [req EXCEPT ![r] = Queued(r, "delete", q, parent[q], None)]
  BY <1>3 DEF TypeOK, Queued, ReqRecord, RoomsOK, Scenes
<1> QED BY <1>1, <1>2, <1>3 DEF Asks

(* fopScnM_ReRequest touches a name only.                                  *)
LEMMA RenamedIs ==
  ASSUME TypeOK, Renames
  PROVE  \A x \in Requests : /\ req'[x] \in ReqRecord /\ req'[x].kind = req[x].kind /\ req'[x].id = req[x].id
                             /\ req'[x].node = req[x].node /\ req'[x].layer = req[x].layer
                             /\ req'[x].creating = req[x].creating
  BY DEF TypeOK, Renames, ReqRecord

(* What the creation of a scene does to the requests.                      *)
LEMMA CreatesIs ==
  ASSUME TypeOK, NEW r \in Requests, NEW s,
         req' = [req EXCEPT ![r].creating = s, ![r].id = @ + 1]
  PROVE  /\ \A x \in Requests : x # r => req'[x] = req[x]
         /\ req'[r] = [req[r] EXCEPT !.creating = s, !.id = req[r].id + 1]
  BY DEF TypeOK

(* Every step leaves each request what its phase says.                     *)
LEMMA ReqShapeStep ==
  ASSUME TypeOK, ReqShape, OverlapOK, ChangeOK, RoomsOK, Next
  PROVE  ReqShape' /\ req' \in [Requests -> ReqRecord]
<1> USE DEF Changing
<1>0. req \in [Requests -> ReqRecord] /\ DOMAIN req' = Requests
  BY ReqTyped, RequestSteps DEF Renames, Advances, Advanced, Creates, Drops, Asks, TypeOK
<1>1. CASE req' = req
  BY <1>0, <1>1 DEF ReqShape, RequestOK
<1>2. ASSUME Renames PROVE ReqShape'
  <2> SUFFICES ASSUME NEW x \in Requests PROVE RequestOK(x)'
    BY DEF ReqShape
  <2> QED BY <1>2, RenamedIs DEF ReqShape, RequestOK
<1>3. ASSUME NEW r \in Requests, Advances(r)
      PROVE  ReqShape' /\ \A x \in Requests : req'[x] \in ReqRecord
  <2>1. /\ \A x \in Requests : x # r => req'[x] = req[x]
        /\ req'[r] = [req[r] EXCEPT !.id = req[r].id + 1]
    BY <1>0, <1>3, AdvancedIs DEF Advances
  <2>2. \/ req[r].kind = "change" /\ req[r].id \in {1, 2, 3, 4, 6, 7, 8}
        \/ req[r].kind = "create" /\ req[r].id = 2
        \/ req[r].kind = "delete" /\ req[r].id \in {1, 2}
    BY <1>3, Phases DEF Advances
  <2>3. req[r] \in ReqRecord
    BY <1>0
  <2> QED BY <1>0, <2>1, <2>2, <2>3 DEF ReqShape, RequestOK, ReqRecord
<1>4. ASSUME NEW r \in Requests, Creates(r)
      PROVE  ReqShape' /\ \A x \in Requests : req'[x] \in ReqRecord
  <2>1. PICK s \in IF req[r].kind = "create" THEN Rooms ELSE Stages :
            req' = [req EXCEPT ![r].creating = s, ![r].id = @ + 1]
    BY <1>4 DEF Creates
  <2>2. /\ \A x \in Requests : x # r => req'[x] = req[x]
        /\ req'[r] = [req[r] EXCEPT !.creating = s, !.id = req[r].id + 1]
    BY <2>1, CreatesIs
  <2>3. \/ req[r].kind = "change" /\ req[r].id = 5
        \/ req[r].kind = "create" /\ req[r].id = 1
    BY <1>4, Phases DEF Creates
  <2>4. req[r] \in ReqRecord /\ s \in Scenes
    BY <1>0 DEF Scenes
  <2> QED BY <1>0, <2>1, <2>2, <2>3, <2>4 DEF ReqShape, RequestOK, ReqRecord
<1>5. ASSUME NEW r \in Requests, Drops(r)
      PROVE  ReqShape' /\ \A x \in Requests : req'[x] \in ReqRecord
  <2>1. NoReq \in ReqRecord
    BY DEF NoReq, ReqRecord
  <2>2. /\ \A x \in Requests : x # r => req'[x] = req[x]
        /\ req'[r] = NoReq
        /\ req'[r].kind = "none" /\ req'[r].id = 0 /\ req'[r].creating = None
        /\ req'[r].layer = None
    BY <1>0, <1>5, DroppedIs DEF Drops
  <2>3. ReqShape'
    BY <2>2 DEF ReqShape, RequestOK
  <2>4. \A x \in Requests : req'[x] \in ReqRecord
    BY <1>0, <2>1, <2>2
  <2> QED BY <2>3, <2>4
<1>6. ASSUME NEW r \in Requests, Asks(r)
      PROVE  ReqShape' /\ \A x \in Requests : req'[x] \in ReqRecord
  BY <1>0, <1>6, AskedIs DEF ReqShape, RequestOK
<1>7. ReqShape' /\ \A x \in Requests : req'[x] \in ReqRecord
  BY <1>0, <1>1, <1>2, <1>3, <1>4, <1>5, <1>6, RenamedIs, RequestSteps
<1>8. req' = [x \in Requests |-> req'[x]]
  BY <1>0, RequestSteps DEF Renames, Advances, Advanced, Creates, Drops, Asks
<1> QED BY <1>7, <1>8

-----------------------------------------------------------------------------
(* The overlap's phases, and the types.                                    *)

(* The overlap's phase by its number.                                      *)
LEMMA OverlapPhases ==
  ASSUME OverlapOK, ov.used
  PROVE  /\ OverlapPhase[ov.id] = "Create" <=> ov.id = 1
         /\ OverlapPhase[ov.id] = "IsCreated" <=> ov.id = 2
         /\ OverlapPhase[ov.id] = "IsComplete" <=> ov.id = 3
         /\ OverlapPhase[ov.id] = "WaitOfFadeout" <=> ov.id = 4
         /\ OverlapPhase[ov.id] = "IsWaitOfFadeout" <=> ov.id = 5
         /\ OverlapPhase[ov.id] = "IsDone" <=> ov.id = 6
         /\ OverlapPhase[ov.id] = "Done" <=> ov.id = 7
<1>1. ov.id \in 1..7
  BY DEF OverlapOK
<1> QED BY <1>1 DEF OverlapPhase

(* The actions that are not of the kind a lemma is about.                  *)
PassSteps(p) == Freed(p) \/ DeleteWaits(p) \/ CreatePass(p) \/ ExecutePass(p)

OvRecord == [used : BOOLEAN, busy : BOOLEAN, id : 0..7, task : Fades \union {None},
             proc : Fades \union {None}, peek : BOOLEAN, peektime : 0..Peek,
             linger : -1..1, base : Message]
FadeRecord == [msg : Message, scene : Scenes \union {None}, timer : 0..FadeFrames]
LifeStates == {"free", "requested", "waiting", "running", "dying"}

(* The messages are what they look like.                                   *)
LEMMA Messages ==
  /\ Command(1) \in Message /\ Command(2) \in Message /\ DoneMsg \in Message
  /\ \A m \in Message : Collected(m) \in Message
  BY DEF Command, DoneMsg, Collected, Message

(* The types, a group of variables at a time.                              *)
LEMMA LifeTyped ==
  ASSUME TypeOK, Next PROVE life' \in [Procs -> LifeStates]
<1>0. life \in [Procs -> LifeStates]
  BY DEF TypeOK, LifeStates
<1>1. CASE UNCHANGED life
  BY <1>0, <1>1
<1>2. ASSUME NEW p \in Procs, PassSteps(p) PROVE life' \in [Procs -> LifeStates]
  BY <1>0, <1>2 DEF PassSteps, Freed, DeleteWaits, CreatePass, CreateWaits, StageCreated,
     RoomCreated, SceneFails,
       FadeCreated, FadeFails, ExecutePass, FadeInNotReady, FadeIn, FadeWait, FadeOut,
       SceneExecuted, LifeStates
<1>3. ASSUME NEW r \in Requests, Management(r) PROVE life' \in [Procs -> LifeStates]
  <2>1. Cancelled(r) => life' \in [Procs -> LifeStates]
    BY <1>0 DEF Cancelled, FadeDeleted, LifeStates
  <2>2. CreateNode(r) => life' \in [Procs -> LifeStates]
    BY <1>0 DEF CreateNode, LifeStates
  <2>3. DeleteNode(r) => life' \in [Procs -> LifeStates]
    BY <1>0 DEF DeleteNode, LifeStates
  <2> QED BY <1>0, <1>3, <2>1, <2>2, <2>3 DEF Management, RequestVisited, IsDoingOverlap,
             IsDoneOverlap, IsDeleted,
        CreateNodeFails, IsCreated, ClearOverlap, RequestDone
<1>4. ASSUME OverlapManagement PROVE life' \in [Procs -> LifeStates]
  BY <1>0, <1>4 DEF OverlapManagement, OverlapIdle, OverlapCreate, OverlapIsCreated,
     OverlapIsComplete,
       OverlapWaitOfFadeout, OverlapIsWaitOfFadeout, OverlapIsDone, OverlapDone, FadeDeleted,
       LifeStates
<1> QED BY <1>1, <1>2, <1>3, <1>4 DEF Next, FrameStep, PassEnds, Call, ChangeReq, CreateRoomReq,
           DeleteRoomReq, ReRequest,
          Calling, PassSteps

(* The pass of the frame and its queue.                                    *)
LEMMA PassTyped ==
  ASSUME TypeOK, Next
  PROVE  pass' \in DOMAIN NextPass \union {"overlap"} /\ todo' \subseteq Procs \union Requests
         /\ current' \in Requests \union {None}
<1>0. pass \in DOMAIN NextPass \union {"overlap"} /\ todo \subseteq Procs \union Requests
         /\ current \in Requests \union {None}
  BY DEF TypeOK
<1>1. CASE UNCHANGED <<pass, todo, current>>
  BY <1>0, <1>1
<1>2. ASSUME NEW p \in Procs, PassSteps(p)
      PROVE  UNCHANGED <<pass, current>> /\ todo' \subseteq todo
  BY <1>0, <1>2 DEF PassSteps, Freed, DeleteWaits, CreatePass, CreateWaits, StageCreated,
     RoomCreated, SceneFails,
       FadeCreated, FadeFails, ExecutePass, FadeInNotReady, FadeIn, FadeWait, FadeOut,
       SceneExecuted, Visited, FadeExecutes
<1>3. ASSUME NEW r \in Requests, Management(r)
      PROVE  pass' = pass /\ todo' \subseteq todo /\ current' \in {current, r, None}
  <2>1. Cancelled(r) => todo' \subseteq todo /\ current' = None
    BY <1>0 DEF Cancelled
  <2> QED BY <1>0, <1>3, <2>1 DEF Management, RequestVisited, IsDoingOverlap, IsDoneOverlap,
             IsDeleted, InPhase, Advanced, Blocked,
        CreateNode, DeleteNode, CreateNodeFails, IsCreated, ClearOverlap, RequestDone
<1>4. ASSUME OverlapManagement PROVE pass' \in {pass, "between"} /\ UNCHANGED <<todo, current>>
  BY <1>0, <1>4 DEF OverlapManagement, OverlapIdle, OverlapCreate, OverlapIsCreated,
     OverlapIsComplete, FrameGoesOn, FrameEnds, AtOverlap,
       OverlapWaitOfFadeout, OverlapIsWaitOfFadeout, OverlapIsDone, OverlapDone
<1>5. ASSUME PassEnds
      PROVE  pass' \in DOMAIN NextPass \union {"overlap"} /\ todo' \subseteq Procs \union Requests /\ current' = current
  <2>1. pass' \in DOMAIN NextPass \union {"overlap"}
    BY <1>5 DEF PassEnds, NextPass
  <2>2. Queue(pass)' \subseteq Procs \union Requests
    BY <1>5 DEF Queue
  <2> QED BY <1>5, <2>1, <2>2 DEF PassEnds, Queue
<1>6. Call => UNCHANGED <<pass, todo, current>>
  BY DEF Call, ChangeReq, CreateRoomReq, DeleteRoomReq, ReRequest, Calling
<1>7. "between" \in DOMAIN NextPass
  BY DEF NextPass
<1> QED BY <1>0, <1>1, <1>2, <1>3, <1>4, <1>5, <1>6, <1>7 DEF Next, FrameStep, PassSteps

(* What is kept of the scenes.                                             *)
LEMMA SceneTyped ==
  ASSUME TypeOK, ReqShape, Next
  PROVE  /\ parent' \in [Rooms -> Stages \union {None}] /\ paused' \in [Scenes -> BOOLEAN]
         /\ made' \in [Stages -> Names \union {None}]
<1> DEFINE Goal == /\ parent' \in [Rooms -> Stages \union {None}] /\ paused' \in [Scenes -> BOOLEAN]
                   /\ made' \in [Stages -> Names \union {None}]
<1>0. /\ parent \in [Rooms -> Stages \union {None}] /\ paused \in [Scenes -> BOOLEAN]
      /\ made \in [Stages -> Names \union {None}]
  BY DEF TypeOK
<1>1. ASSUME UNCHANGED sceneVars PROVE Goal
  BY <1>0, <1>1 DEF sceneVars
<1>2. ASSUME NEW p \in Procs, Freed(p) PROVE Goal
  BY <1>0, <1>2 DEF Freed
<1>3. ASSUME NEW s PROVE PauseDisabled(s) \in [Scenes -> BOOLEAN]
  BY <1>0 DEF PauseDisabled
<1>4. ASSUME NEW p \in Procs, PassSteps(p), ~Freed(p) PROVE Goal
  <2>1. CASE StageCreated(p)
    BY <1>0, <2>1 DEF StageCreated, PauseEnabled
  <2>2. CASE FadeOut(p)
    BY <1>0, <1>3, <2>2 DEF FadeOut, SceneStarted
  <2>3. CASE ~StageCreated(p) /\ ~FadeOut(p)
    BY <1>1, <1>4, <2>3 DEF PassSteps, DeleteWaits, CreatePass, CreateWaits, RoomCreated,
       SceneFails,
       FadeCreated, FadeFails, ExecutePass, FadeInNotReady, FadeIn, FadeWait, SceneExecuted
  <2> QED BY <2>1, <2>2, <2>3
<1>5. ASSUME NEW r \in Requests, Management(r) PROVE Goal
  <2>1. CASE CreateNode(r)
    <3>1. req[r].layer \in Stages \union {None} /\ req[r].name \in Names \union {None}
      BY DEF TypeOK
    <3> QED BY <1>0, <2>1, <3>1 DEF CreateNode
  <2>2. CASE RequestDone(r)
    BY <1>0, <1>3, <2>2 DEF RequestDone
  <2>3. CASE ~CreateNode(r) /\ ~RequestDone(r)
    BY <1>1, <1>5, <2>3 DEF Management, RequestVisited, IsDoingOverlap, IsDoneOverlap, IsDeleted,
        DeleteNode, CreateNodeFails, IsCreated, ClearOverlap
  <2> QED BY <2>1, <2>2, <2>3
<1>6. OverlapManagement \/ PassEnds \/ Call => UNCHANGED sceneVars
  BY DEF OverlapManagement, OverlapIdle, OverlapCreate, OverlapIsCreated, OverlapIsComplete,
     AtOverlap,
       OverlapWaitOfFadeout, OverlapIsWaitOfFadeout, OverlapIsDone, OverlapDone, PassEnds,
       Call, ChangeReq, CreateRoomReq, DeleteRoomReq, ReRequest, Calling
<1> HIDE DEF Goal
<1>7. Goal BY <1>1, <1>2, <1>4, <1>5, <1>6 DEF Next, FrameStep, PassSteps
<1> QED BY <1>7 DEF Goal

(* The ways in which an overlap request is rewritten keep its type.        *)
LEMMA OvUpdates ==
  /\ \A o \in OvRecord, f \in Fades \union {None}, i \in 0..7 : [o EXCEPT !.proc = f, !.id = i] \in OvRecord
  /\ \A o \in OvRecord, f \in Fades \union {None}, i \in 0..7 : [o EXCEPT !.task = f, !.id = i] \in OvRecord
  /\ \A o \in OvRecord, b \in BOOLEAN, f \in Fades \union {None} : [o EXCEPT !.used = b, !.proc = f] \in OvRecord
  /\ \A o \in OvRecord, m \in Message, i \in 0..7 : [o EXCEPT !.base = m, !.id = i] \in OvRecord
  /\ \A o \in OvRecord, n \in 0..Peek, i \in 0..7 : [o EXCEPT !.peektime = n, !.id = i] \in OvRecord
  /\ \A o \in OvRecord, n \in 0..Peek, b \in BOOLEAN : [o EXCEPT !.peektime = n, !.peek = b] \in OvRecord
  /\ \A o \in OvRecord, b \in BOOLEAN, i \in 0..7 : [o EXCEPT !.peek = b, !.id = i] \in OvRecord
  /\ \A o \in OvRecord, m \in Message, l \in -1..1, i \in 0..7 :
       [o EXCEPT !.base = m, !.linger = l, !.id = i] \in OvRecord
  BY DEF OvRecord

(* Clearing an overlap request keeps its type.                             *)
LEMMA OvClears ==
  ASSUME NEW o \in OvRecord, 0 \in 0..Peek
  PROVE  [o EXCEPT !.used = FALSE, !.busy = FALSE, !.task = None, !.proc = None,
                      !.peek = FALSE, !.peektime = 0] \in OvRecord
<1>1. [o EXCEPT !.used = FALSE, !.busy = FALSE, !.task = None] \in OvRecord
  BY DEF OvRecord
<1> DEFINE o1 == [o EXCEPT !.used = FALSE, !.busy = FALSE, !.task = None]
<1>2. [o EXCEPT !.used = FALSE, !.busy = FALSE, !.task = None, !.proc = None,
                      !.peek = FALSE, !.peektime = 0] = [o1 EXCEPT !.proc = None,
                      !.peek = FALSE, !.peektime = 0]
  OBVIOUS
<1> HIDE DEF o1
<1>3. [o1 EXCEPT !.proc = None, !.peek = FALSE, !.peektime = 0] \in OvRecord
  BY <1>1 DEF OvRecord, o1
<1> QED BY <1>2, <1>3

(* The overlap request.                                                    *)
LEMMA OvTyped ==
  ASSUME TypeOK, OverlapOK, SceneAssumption, Next PROVE ov' \in OvRecord
<1>0. ov \in OvRecord /\ DoneMsg \in Message /\ Command(1) \in Message /\ Command(2) \in Message
      /\ Collected(ov.base) \in Message /\ Collected(DoneMsg) \in Message
  BY Messages DEF TypeOK, OvRecord
<1>1. ASSUME UNCHANGED ov PROVE ov' \in OvRecord
  BY <1>0, <1>1
<1>z. 0 \in 0..Peek /\ Peek \in 0..Peek
  BY SceneAssumption
<1>i. 2 \in 0..7 /\ 3 \in 0..7 /\ 4 \in 0..7 /\ 5 \in 0..7 /\ 6 \in 0..7
  OBVIOUS
<1>b. TRUE \in BOOLEAN /\ FALSE \in BOOLEAN /\ None \in Fades \union {None}
  OBVIOUS
<1>2. Cleared \in OvRecord
  BY <1>0, <1>z, OvClears DEF Cleared
<1>3. ASSUME NEW r \in Requests, Management(r) PROVE ov' \in OvRecord
  <2>1. CASE IsDoneOverlap(r)
    BY <1>0, <2>1 DEF IsDoneOverlap, OvRecord
  <2>2. CASE ClearOverlap(r)
    BY <1>0, <2>2 DEF ClearOverlap, OvRecord
  <2>3. CASE Cancelled(r)
    BY <1>0, <1>2, <2>3 DEF Cancelled
  <2>4. CASE ~IsDoneOverlap(r) /\ ~ClearOverlap(r) /\ ~Cancelled(r)
    BY <1>1, <1>3, <2>4 DEF Management, RequestVisited, IsDoingOverlap, IsDeleted, DeleteNode,
       CreateNode,
        CreateNodeFails, IsCreated, RequestDone
  <2> QED BY <2>1, <2>2, <2>3, <2>4
<1>4. ASSUME OverlapManagement PROVE ov' \in OvRecord
  <2>0. ov.used => ov.id \in 1..7 /\ (ov.id < 6 => ov.linger = 1) /\ (ov.id = 6 => ov.linger \in {0, 1})
    BY DEF OverlapOK
  <2>1. CASE OverlapIdle
    BY <1>1, <2>1 DEF OverlapIdle
  <2>2. CASE OverlapCreate
    <3>1. ov.id = 1 BY <2>2, OverlapPhases DEF OverlapCreate, AtOverlap
    <3>2. PICK f \in Fades : ov' = [ov EXCEPT !.proc = f, !.id = @ + 1]
      BY <2>2 DEF OverlapCreate
    <3>3. ov' = [ov EXCEPT !.proc = f, !.id = 2]
      BY <3>1, <3>2
    <3> QED BY <1>0, <1>i, <1>b, <3>3, OvUpdates
  <2>3. CASE OverlapIsCreated
    <3>1. ov.id = 2 BY <2>3, OverlapPhases DEF OverlapIsCreated, AtOverlap
    <3>2. \/ ov' = ov
          \/ ov' = [ov EXCEPT !.task = ov.proc, !.id = 3]
          \/ ov' = [ov EXCEPT !.used = FALSE, !.proc = None]
      BY <2>3, <3>1 DEF OverlapIsCreated
    <3>3. ov.proc \in Fades \union {None} BY <1>0 DEF OvRecord
    <3>4. [ov EXCEPT !.task = ov.proc, !.id = 3] \in OvRecord BY <1>0, <1>i, <3>3, OvUpdates
    <3>5. [ov EXCEPT !.used = FALSE, !.proc = None] \in OvRecord BY <1>0, <1>b, OvUpdates
    <3> QED BY <1>0, <3>2, <3>4, <3>5
  <2>4. CASE OverlapIsComplete
    <3>1. ov.id = 3 BY <2>4, OverlapPhases DEF OverlapIsComplete, AtOverlap
    <3>2. ov' = ov \/ ov' = [ov EXCEPT !.base = DoneMsg, !.id = 4]
      BY <2>4, <3>1 DEF OverlapIsComplete
    <3>3. [ov EXCEPT !.base = DoneMsg, !.id = 4] \in OvRecord BY <1>0, <1>i, OvUpdates
    <3> QED BY <1>0, <3>2, <3>3
  <2>5. CASE OverlapWaitOfFadeout
    <3>1. ov.id = 4 BY <2>5, OverlapPhases DEF OverlapWaitOfFadeout, AtOverlap
    <3>2. ov.peektime \in 0..Peek /\ Peek \in Nat BY <1>0, SceneAssumption DEF OvRecord
    <3> DEFINE left == IF ov.peektime = 0 THEN 0 ELSE ov.peektime - 1
    <3>3. left \in 0..Peek BY <3>2
    <3>4. ov' = [ov EXCEPT !.peektime = left, !.id = 5] \/ ov' = [ov EXCEPT !.peektime = left, !.peek = TRUE]
      BY <2>5, <3>1 DEF OverlapWaitOfFadeout
    <3> HIDE DEF left
    <3>5. [ov EXCEPT !.peektime = left, !.id = 5] \in OvRecord BY <1>0, <1>i, <3>3, OvUpdates
    <3>6. [ov EXCEPT !.peektime = left, !.peek = TRUE] \in OvRecord BY <1>0, <1>b, <3>3, OvUpdates
    <3> QED BY <3>4, <3>5, <3>6
  <2>6. CASE OverlapIsWaitOfFadeout
    <3>1. ov.id = 5 BY <2>6, OverlapPhases DEF OverlapIsWaitOfFadeout, AtOverlap
    <3>2. ov' = ov \/ ov' = [ov EXCEPT !.peek = FALSE, !.id = 6]
      BY <2>6, <3>1 DEF OverlapIsWaitOfFadeout
    <3>3. [ov EXCEPT !.peek = FALSE, !.id = 6] \in OvRecord BY <1>0, <1>i, <1>b, OvUpdates
    <3> QED BY <1>0, <3>2, <3>3
  <2>7. CASE OverlapIsDone
    <3>1. ov.used /\ ov.id = 6 BY <2>7, OverlapPhases DEF OverlapIsDone, AtOverlap
    <3>2. ov.linger - 1 \in -1..1 /\ 6 \in 0..7 /\ 7 \in 0..7 BY <2>0, <3>1
    <3>3. ov' = [ov EXCEPT !.base = DoneMsg, !.linger = ov.linger - 1, !.id = IF Lingers THEN 6 ELSE 7]
      BY <2>7, <3>1 DEF OverlapIsDone
    <3> QED BY <1>0, <1>i, <1>b, <3>2, <3>3, OvUpdates
  <2>8. CASE OverlapDone
    BY <1>1, <1>2, <2>8 DEF OverlapDone
  <2> QED BY <1>4, <2>1, <2>2, <2>3, <2>4, <2>5, <2>6, <2>7, <2>8 DEF OverlapManagement
<1>5. ASSUME NEW p \in Procs, PassSteps(p) PROVE ov' = ov
  BY <1>5 DEF PassSteps, Freed, DeleteWaits, CreatePass, CreateWaits, StageCreated, RoomCreated,
     SceneFails,
       FadeCreated, FadeFails, ExecutePass, FadeInNotReady, FadeIn, FadeWait, FadeOut,
       SceneExecuted
<1>6. ASSUME Call PROVE ov' \in OvRecord
  <2>1. ASSUME NEW s \in Scenes, NEW r \in Requests, NEW n \in Names, ChangeReq(s, r, n)
        PROVE  ov' \in OvRecord
    <3>1. ov' = [used |-> TRUE, busy |-> TRUE, id |-> 1, task |-> None, proc |-> None,
                 peek |-> FALSE, peektime |-> Peek, linger |-> 1, base |-> Command(1)]
      BY <2>1 DEF ChangeReq, NoOverlap
    <3> QED BY <1>0, <1>z, <3>1 DEF OvRecord
  <2> QED BY <1>1, <1>6, <2>1 DEF Call, CreateRoomReq, DeleteRoomReq, ReRequest
<1> QED BY <1>1, <1>3, <1>4, <1>5, <1>6 DEF Next, FrameStep, PassEnds, PassSteps

(* The fades.                                                              *)
LEMMA FadeTyped ==
  ASSUME TypeOK, OverlapOK, ReqShape, SceneAssumption, Next PROVE fade' \in [Fades -> FadeRecord]
<1>0. fade \in [Fades -> FadeRecord]
  BY DEF TypeOK, FadeRecord
<1>1. ASSUME UNCHANGED fade PROVE fade' \in [Fades -> FadeRecord]
  BY <1>0, <1>1
<1>2. ASSUME NEW p \in Procs, PassSteps(p) PROVE fade' \in [Fades -> FadeRecord]
  <2>1. CASE StageCreated(p)
    <3>1. p \in Scenes \union {None} BY <2>1 DEF StageCreated, Scenes
    <3>2. Told(p) \in [Fades -> FadeRecord]
      BY <1>0, <3>1 DEF Told, FadeRecord
    <3> QED BY <1>0, <2>1, <3>2 DEF StageCreated
  <2>2. CASE FadeCreated(p)
    <3>1. [msg |-> Command(1), scene |-> None, timer |-> 0] \in FadeRecord
      BY Messages, SceneAssumption DEF FadeRecord
    <3> QED BY <1>0, <2>2, <3>1 DEF FadeCreated
  <2>3. ASSUME NEW f \in Fades PROVE Remaining(f) \in 0..FadeFrames /\ 1 \in 0..FadeFrames
    <3>1. fade[f].timer \in 0..FadeFrames /\ FadeFrames \in Nat \ {0}
      BY <1>0, SceneAssumption DEF FadeRecord
    <3> QED BY <3>1 DEF Remaining
  <2>4. CASE FadeIn(p)
    <3>1. p \in Fades /\ fade[p] \in FadeRecord BY <1>0, <2>4 DEF FadeIn, FadeExecutes
    <3>2. [fade[p] EXCEPT !.timer = Remaining(p), !.msg = IF Remaining(p) = 0 THEN DoneMsg ELSE @] \in FadeRecord
      BY <2>3, <3>1, Messages DEF FadeRecord
    <3>3. fade' = [fade EXCEPT ![p] = [fade[p] EXCEPT !.timer = Remaining(p), !.msg = IF Remaining(p) = 0 THEN DoneMsg ELSE @]]
      BY <2>4 DEF FadeIn
    <3> QED BY <1>0, <3>1, <3>2, <3>3
  <2>5. CASE FadeOut(p)
    <3>1. p \in Fades /\ fade[p] \in FadeRecord BY <1>0, <2>5 DEF FadeOut, FadeExecutes
    <3>2. [fade[p] EXCEPT !.timer = IF Remaining(p) = 0 THEN 1 ELSE Remaining(p),
                          !.msg = IF Remaining(p) = 0 THEN DoneMsg ELSE @] \in FadeRecord
      BY <2>3, <3>1, Messages DEF FadeRecord
    <3>3. fade' = [fade EXCEPT ![p] = [fade[p] EXCEPT !.timer = IF Remaining(p) = 0 THEN 1 ELSE Remaining(p),
                          !.msg = IF Remaining(p) = 0 THEN DoneMsg ELSE @]]
      BY <2>5 DEF FadeOut
    <3> QED BY <1>0, <3>1, <3>2, <3>3
  <2>6. CASE ~StageCreated(p) /\ ~FadeCreated(p) /\ ~FadeIn(p) /\ ~FadeOut(p)
    BY <1>1, <1>2, <2>6 DEF PassSteps, Freed, DeleteWaits, CreatePass, CreateWaits, RoomCreated,
       SceneFails,
       FadeFails, ExecutePass, FadeInNotReady, FadeWait, SceneExecuted, fadeVars
  <2> QED BY <2>1, <2>2, <2>4, <2>5, <2>6
<1>3. ASSUME NEW r \in Requests, Management(r) PROVE fade' = fade
    BY <1>3 DEF Management, RequestVisited, IsDoingOverlap, IsDoneOverlap, IsDeleted, InPhase,
       fadeVars,
        CreateNode, DeleteNode, CreateNodeFails, IsCreated, ClearOverlap, RequestDone
<1>4. ASSUME OverlapManagement PROVE fade' \in [Fades -> FadeRecord]
  <2>1. CASE TaskCollected
    <3>1. \A f \in Fades : Collected(fade[f].msg) \in Message
      BY <1>0, Messages DEF FadeRecord
    <3> QED BY <1>0, <2>1, <3>1 DEF TaskCollected, FadeRecord
  <2>2. CASE fade' = [fade EXCEPT ![ov.task].msg = Command(2)]
    BY <1>0, <2>2, Messages DEF FadeRecord
  <2>3. CASE ~TaskCollected /\ ~(fade' = [fade EXCEPT ![ov.task].msg = Command(2)])
    BY <1>1, <1>4, <2>3 DEF OverlapManagement, OverlapIdle, OverlapCreate, OverlapIsCreated,
       OverlapIsComplete, fadeVars,
       OverlapWaitOfFadeout, OverlapIsWaitOfFadeout, OverlapIsDone, OverlapDone
  <2> QED BY <2>1, <2>2, <2>3
<1>5. PassEnds \/ Call => fade' = fade
  BY DEF PassEnds, Call, ChangeReq, CreateRoomReq, DeleteRoomReq, ReRequest, Calling, fadeVars
<1> QED BY <1>1, <1>2, <1>3, <1>4, <1>5 DEF Next, FrameStep, PassSteps

(* The flags.                                                              *)
LEMMA RestTyped ==
  ASSUME TypeOK, Next
  PROVE  /\ using' \in BOOLEAN /\ scnRqID' \in Requests \union {None}
         /\ executeF' \in {"in", "wait", "out"} /\ failed' \subseteq {"scene", "fade"}
<1>0. /\ using \in BOOLEAN /\ scnRqID \in Requests \union {None}
      /\ executeF \in {"in", "wait", "out"} /\ failed \subseteq {"scene", "fade"}
  BY DEF TypeOK
<1>1. ASSUME NEW p \in Procs, PassSteps(p)
      PROVE  /\ UNCHANGED <<using, scnRqID>> /\ executeF' \in {"in", "wait", "out"}
             /\ failed' \subseteq {"scene", "fade"}
  BY <1>0, <1>1 DEF PassSteps, Freed, DeleteWaits, CreatePass, CreateWaits, StageCreated,
     RoomCreated, SceneFails, Failing, fadeVars,
       FadeCreated, FadeFails, ExecutePass, FadeInNotReady, FadeIn, FadeWait, FadeOut,
       SceneExecuted
<1>2. ASSUME NEW r \in Requests, Management(r)
      PROVE  /\ using' \in BOOLEAN /\ UNCHANGED <<scnRqID, executeF>>
             /\ failed' \subseteq {"scene", "fade"}
  BY <1>0, <1>2 DEF Management, RequestVisited, IsDoingOverlap, IsDoneOverlap, IsDeleted, InPhase,
     fadeVars,
        CreateNode, DeleteNode, CreateNodeFails, IsCreated, ClearOverlap, RequestDone
<1>3. OverlapManagement => UNCHANGED <<using, scnRqID, executeF, failed>>
  BY DEF OverlapManagement, OverlapIdle, OverlapCreate, OverlapIsCreated, OverlapIsComplete,
     fadeVars, AtOverlap,
       OverlapWaitOfFadeout, OverlapIsWaitOfFadeout, OverlapIsDone, OverlapDone
<1>4. PassEnds => UNCHANGED <<using, scnRqID, executeF, failed>>
  BY DEF PassEnds, fadeVars
<1>5. Call => using' \in BOOLEAN /\ scnRqID' \in Requests \union {None} /\ UNCHANGED <<executeF, failed>>
  BY <1>0 DEF Call, ChangeReq, CreateRoomReq, DeleteRoomReq, ReRequest, Calling, fadeVars
<1> QED BY <1>0, <1>1, <1>2, <1>3, <1>4, <1>5 DEF Next, FrameStep, PassSteps

(* Every step keeps the types.                                             *)
LEMMA TypeStep ==
  ASSUME TypeOK, ReqShape, OverlapOK, ChangeOK, RoomsOK, SceneAssumption, Next PROVE TypeOK'
<1>1. /\ life' \in [Procs -> LifeStates] /\ ov' \in OvRecord /\ fade' \in [Fades -> FadeRecord]
      /\ req' \in [Requests -> ReqRecord]
  BY LifeTyped, OvTyped, FadeTyped, ReqShapeStep
<1>2. /\ life' \in [Procs -> {"free", "requested", "waiting", "running", "dying"}]
      /\ req' \in [Requests -> [kind : {"none", "create", "delete", "change"}, id : 0..9,
                             node : Scenes \union {None}, layer : Stages \union {None},
                             creating : Scenes \union {None}, name : Names \union {None}]]
      /\ ov' \in [used : BOOLEAN, busy : BOOLEAN, id : 0..7, task : Fades \union {None},
               proc : Fades \union {None}, peek : BOOLEAN, peektime : 0..Peek,
               linger : -1..1, base : Message]
      /\ fade' \in [Fades -> [msg : Message, scene : Scenes \union {None}, timer : 0..FadeFrames]]
  BY <1>1, Zenon DEF LifeStates, OvRecord, FadeRecord, ReqRecord
<1> QED BY <1>2, PassTyped, SceneTyped, RestTyped, Zenon DEF TypeOK

-----------------------------------------------------------------------------
(* The passes and the queue.                                               *)

(* In which pass a step is, and what it leaves of the queue.               *)
LEMMA InPass ==
  ASSUME InQueue, NEW p \in Procs, PassSteps(p)
  PROVE  /\ todo' = todo \ {p} /\ UNCHANGED <<pass, current, req, using, scnRqID, ov>>
         /\ \/ pass = "delete" /\ life[p] = "dying" /\ (Freed(p) \/ DeleteWaits(p))
            \/ pass = "create" /\ life[p] = "requested" /\ CreatePass(p)
            \/ pass = "execute" /\ life[p] = "running" /\ ExecutePass(p)
<1>1. ASSUME Freed(p) \/ DeleteWaits(p)
      PROVE  Visits("delete", p) /\ Visited(p) /\ UNCHANGED <<req, using, scnRqID, ov>>
  BY <1>1 DEF Freed, DeleteWaits
<1>2. ASSUME CreatePass(p)
      PROVE  Visits("create", p) /\ Visited(p) /\ UNCHANGED <<req, using, scnRqID, ov>>
  BY <1>2 DEF CreatePass, CreateWaits, StageCreated, RoomCreated, SceneFails, FadeCreated,
     FadeFails
<1>3. ASSUME ExecutePass(p)
      PROVE  Visits("execute", p) /\ Visited(p) /\ UNCHANGED <<req, using, scnRqID, ov>>
  BY <1>3 DEF ExecutePass, FadeInNotReady, FadeIn, FadeWait, FadeOut, SceneExecuted, FadeExecutes
<1> QED BY <1>1, <1>2, <1>3 DEF PassSteps, Visits, Visited, InQueue

(* Scene requests are visited in their own pass.                           *)
LEMMA InManagement ==
  ASSUME NEW r \in Requests, Management(r)
  PROVE  /\ pass = "scenes" /\ pass' = pass /\ todo' \subseteq todo
         /\ UNCHANGED <<scnRqID, fade, executeF>>
  BY DEF Management, RequestVisited, IsDoingOverlap, IsDoneOverlap, IsDeleted, InPhase, fadeVars,
     Visits, Advanced, Blocked,
        CreateNode, DeleteNode, CreateNodeFails, IsCreated, ClearOverlap, RequestDone, Cancelled

(* So is the overlap.                                                      *)
LEMMA InOverlap ==
  ASSUME OverlapManagement
  PROVE  pass = "overlap" /\ pass' \in {"overlap", "between"}
         /\ UNCHANGED <<todo, current, sceneVars, req, using, scnRqID, executeF, failed>>
  BY DEF OverlapManagement, OverlapIdle, OverlapCreate, OverlapIsCreated, OverlapIsComplete,
     AtOverlap, FrameEnds, FrameGoesOn, fadeVars,
       OverlapWaitOfFadeout, OverlapIsWaitOfFadeout, OverlapIsDone, OverlapDone

(* A call only queues requests.                                            *)
LEMMA InCall ==
  ASSUME Call PROVE UNCHANGED <<pass, todo, current, life, sceneVars, fadeVars, failed>>
  BY DEF Call, ChangeReq, CreateRoomReq, DeleteRoomReq, ReRequest, Calling

(* What the create pass makes of the processes.                            *)
LEMMA CreatePassLife ==
  ASSUME TypeOK, NEW p \in Procs, CreatePass(p), life[p] = "requested"
  PROVE  \A q \in Procs : q # p /\ life[q] # "waiting" => life'[q] = life[q]
<1>1. CASE CreateWaits(p)
  BY <1>1 DEF CreateWaits
<1>2. CASE StageCreated(p)
  BY <1>2 DEF StageCreated, Below
<1>3. CASE RoomCreated(p) \/ SceneFails(p) \/ FadeCreated(p) \/ FadeFails(p)
  BY <1>3 DEF RoomCreated, SceneFails, FadeCreated, FadeFails, TypeOK
<1> QED BY <1>1, <1>2, <1>3 DEF CreatePass

(* Every step leaves the passes what is theirs in the queue.               *)
LEMMA InQueueStep ==
  ASSUME TypeOK, InQueue, Next PROVE InQueue'
<1>1. CASE PassEnds
  <2>1. life' = life /\ todo' = Queue(pass)'
    BY <1>1 DEF PassEnds, Queue
  <2>2. \A p \in Procs : p \in todo' => /\ pass' = "delete" => life[p] = "dying"
                                        /\ pass' = "create" => life[p] = "requested"
                                        /\ pass' = "execute" => life[p] = "running"
    BY <2>1 DEF Queue
  <2> QED BY <2>1, <2>2 DEF InQueue
<1>2. ASSUME NEW p \in Procs, PassSteps(p) PROVE InQueue'
  <2>1. CASE pass = "delete" /\ (Freed(p) \/ DeleteWaits(p))
    <3>1. todo' = todo \ {p} /\ pass' = pass
      BY <1>2, InPass
    <3>2. \A q \in Procs : q # p => life'[q] = life[q]
      BY <2>1 DEF Freed, DeleteWaits, TypeOK
    <3> QED BY <2>1, <3>1, <3>2 DEF InQueue
  <2>2. CASE pass = "create" /\ life[p] = "requested" /\ CreatePass(p)
    <3>1. todo' = todo \ {p} /\ pass' = pass /\ \A q \in Procs : q # p /\ life[q] = "requested" => life'[q] = life[q]
      BY <2>2, <1>2, InPass, CreatePassLife
    <3> QED BY <2>2, <3>1 DEF InQueue
  <2>3. CASE pass = "execute" /\ ExecutePass(p)
    <3>1. todo' = todo \ {p} /\ pass' = pass /\ life' = life
      BY <2>3, <1>2, InPass DEF ExecutePass, FadeInNotReady, FadeIn, FadeWait, FadeOut,
         SceneExecuted
    <3> QED BY <2>3, <3>1 DEF InQueue
  <2> QED BY <1>2, <2>1, <2>2, <2>3, InPass
<1>3. ASSUME NEW r \in Requests, Management(r) PROVE InQueue'
  BY <1>3, InManagement DEF InQueue
<1>4. CASE OverlapManagement
  <2>1. pass' = "overlap" \/ pass' = "between"
    BY <1>4, InOverlap
  <2> QED BY <2>1 DEF InQueue
<1>5. CASE Call
  BY <1>5, InCall DEF InQueue
<1> QED BY <1>1, <1>2, <1>3, <1>4, <1>5 DEF Next, FrameStep, PassSteps

-----------------------------------------------------------------------------
(* The overlap and its fade.                                               *)

(* Steps on behalf of other processes do not touch a fade.                 *)
LEMMA FadesInPass ==
  ASSUME TypeOK, SceneAssumption, InQueue, NEW p \in Procs, PassSteps(p)
  PROVE  /\ \A f \in Fades : f # p => life'[f] = life[f]
         /\ p \in Fades => \/ life'[p] = life[p]
                           \/ life[p] = "dying" /\ life'[p] = "free"
                           \/ life[p] = "requested" /\ life'[p] = "running" /\ FadeCreated(p)
                           \/ life[p] = "requested" /\ life'[p] = "free" /\ "fade" \in failed'
         /\ failed \subseteq failed'
<1>1. CASE pass = "delete" /\ life[p] = "dying" /\ (Freed(p) \/ DeleteWaits(p))
  <2>1. CASE Freed(p)
    BY <1>1, <2>1 DEF Freed, TypeOK
  <2>2. CASE DeleteWaits(p)
    BY <2>2 DEF DeleteWaits
  <2> QED BY <1>1, <2>1, <2>2
<1>2. CASE life[p] = "requested" /\ CreatePass(p)
  <2>1. CASE CreateWaits(p)
    BY <2>1 DEF CreateWaits
  <2>2. CASE StageCreated(p)
    <3>1. \A f \in Fades : f \notin Below(p) /\ f # p
      BY <2>2, SceneAssumption DEF StageCreated, Below, Scenes
    <3> QED BY <2>2, <3>1 DEF StageCreated, Procs
  <2>3. CASE RoomCreated(p)
    BY <2>3, SceneAssumption DEF RoomCreated, TypeOK, Scenes
  <2>4. CASE SceneFails(p)
    BY <2>4, SceneAssumption DEF SceneFails, Failing, TypeOK
  <2>5. CASE FadeCreated(p)
    BY <1>2, <2>5 DEF FadeCreated, TypeOK
  <2>6. CASE FadeFails(p)
    BY <1>2, <2>6 DEF FadeFails, TypeOK
  <2> QED BY <1>2, <2>1, <2>2, <2>3, <2>4, <2>5, <2>6 DEF CreatePass
<1>3. CASE ExecutePass(p)
  BY <1>3 DEF ExecutePass, FadeInNotReady, FadeIn, FadeWait, FadeOut, SceneExecuted
<1> QED BY <1>1, <1>2, <1>3, InPass

(* Of the fades a scene request can but delete the overlap's.              *)
LEMMA FadesInManagement ==
  ASSUME TypeOK, SceneAssumption, ReqShape, OverlapOK, ChangeOK, NEW r \in Requests, Management(r)
  PROVE  /\ failed \subseteq failed'
         /\ \/ Changing(r) /\ ov.used /\ life' = FadeDeleted /\ ov' = Cleared /\ req' = [req EXCEPT ![r] = NoReq]
               /\ req[r].id \in 5..6 /\ current' = None
            \/ (\A f \in Fades : life'[f] = life[f])
               /\ (ov' = ov \/ \E m \in {Collected(ov.base), Command(2)} : ov' = [ov EXCEPT !.base = m])
<1>1. CASE RequestVisited(r)
  BY <1>1 DEF RequestVisited
<1>2. CASE IsDoingOverlap(r) \/ IsDeleted(r) \/ RequestDone(r)
  BY <1>2 DEF IsDoingOverlap, IsDeleted, RequestDone
<1>3. CASE IsDoneOverlap(r)
  BY <1>3 DEF IsDoneOverlap
<1>4. CASE ClearOverlap(r)
  BY <1>4 DEF ClearOverlap
<1>5. CASE DeleteNode(r)
  <2>1. req[r].node \in Scenes
    BY <1>5, Phases DEF DeleteNode, InPhase, ReqShape, RequestOK, Scenes, Changing
  <2>2. \A f \in Fades : f \notin Below(req[r].node)
    BY <2>1, SceneAssumption DEF Below, Scenes
  <2> QED BY <1>5, <2>2 DEF DeleteNode, Procs
<1>6. CASE CreateNode(r)
  BY <1>6, SceneAssumption DEF CreateNode, TypeOK, Scenes
<1>7. CASE (CreateNodeFails(r) \/ IsCreated(r)) /\ Cancelled(r)
  <2>1. Changing(r) => req[r].id \in 5..6
    BY <1>7, Phases DEF CreateNodeFails, IsCreated, InPhase, Changing
  <2>2. failed \subseteq failed'
    BY <1>7 DEF CreateNodeFails, IsCreated
  <2> QED BY <1>7, <2>1, <2>2, CancelledIs
<1>8. CASE IsCreated(r) /\ ~Cancelled(r)
  BY <1>8 DEF IsCreated
<1> QED BY <1>1, <1>2, <1>3, <1>4, <1>5, <1>6, <1>7, <1>8 DEF Management, CreateNodeFails

(* Every step leaves the overlap with its fade.                            *)
LEMMA OverlapOKStep ==
  ASSUME TypeOK, SceneAssumption, ReqShape, InQueue, OverlapOK, ChangeOK, Next
  PROVE  OverlapOK'
<1>0. ov \in OvRecord
  BY DEF TypeOK, OvRecord
<1>1. CASE UNCHANGED <<life, ov, failed>>
  BY <1>1 DEF OverlapOK
<1>2. ASSUME NEW p \in Procs, PassSteps(p) PROVE OverlapOK'
  <2>1. ov' = ov
    BY <1>2, InPass
  <2>2. ov.used /\ ov.id >= 3 => life'[ov.proc] = "running"
    BY <1>2, FadesInPass DEF OverlapOK
  <2>3. ov.used /\ ov.id = 2 => life'[ov.proc] \in {"requested", "running"} \/ "fade" \in failed'
    BY <1>2, FadesInPass DEF OverlapOK
  <2>4. failed \subseteq failed'
    BY <1>2, FadesInPass
  <2> QED BY <2>1, <2>2, <2>3, <2>4 DEF OverlapOK
<1>3. ASSUME NEW r \in Requests, Management(r) PROVE OverlapOK'
  <2>1. failed \subseteq failed'
    BY <1>3, FadesInManagement
  <2>2. CASE ov' = Cleared
    BY <1>0, <2>2 DEF Cleared, OverlapOK, OvRecord
  <2>3. CASE (\A f \in Fades : life'[f] = life[f])
               /\ (ov' = ov \/ \E m \in {Collected(ov.base), Command(2)} : ov' = [ov EXCEPT !.base = m])
    <3>1. /\ ov'.used = ov.used /\ ov'.id = ov.id /\ ov'.busy = ov.busy /\ ov'.task = ov.task
          /\ ov'.proc = ov.proc /\ ov'.linger = ov.linger
      BY <1>0, <2>3 DEF OvRecord
    <3>2. ov.used /\ ov.id >= 2 => life'[ov.proc] = life[ov.proc]
      BY <2>3 DEF OverlapOK
    <3> QED BY <2>1, <3>1, <3>2 DEF OverlapOK
  <2> QED BY <1>3, <2>2, <2>3, FadesInManagement
<1>4. ASSUME OverlapManagement PROVE OverlapOK'
  <2>0. failed' = failed
    BY <1>4, InOverlap
  <2>1. CASE OverlapIdle
    BY <1>1, <2>1 DEF OverlapIdle
  <2>2. CASE OverlapCreate
    <3>1. ov.id = 1 /\ ov.used BY <2>2, OverlapPhases DEF OverlapCreate, AtOverlap
    <3>2. PICK f \in Fades : life' = [life EXCEPT ![f] = "requested"] /\ ov' = [ov EXCEPT !.proc = f, !.id = @ + 1]
      BY <2>2 DEF OverlapCreate
    <3>3. /\ ov'.used /\ ov'.id = 2 /\ ov'.busy = ov.busy /\ ov'.task = ov.task
          /\ ov'.proc = f /\ ov'.linger = ov.linger
      BY <1>0, <3>1, <3>2 DEF OvRecord
    <3>4. life'[f] = "requested"
      BY <3>2 DEF TypeOK, Procs
    <3> QED BY <3>1, <3>3, <3>4 DEF OverlapOK
  <2>3. CASE OverlapIsCreated
    <3>1. ov.id = 2 /\ ov.used /\ life' = life
      BY <2>3, OverlapPhases DEF OverlapIsCreated, AtOverlap
    <3>2. \/ ov' = ov
          \/ life[ov.proc] = "running" /\ ov' = [ov EXCEPT !.task = ov.proc, !.id = 3]
          \/ "fade" \in failed /\ ov' = [ov EXCEPT !.used = FALSE, !.proc = None]
      BY <2>3, <3>1 DEF OverlapIsCreated, OverlapOK
    <3>3. CASE life[ov.proc] = "running" /\ ov' = [ov EXCEPT !.task = ov.proc, !.id = 3]
      <4>1. /\ ov'.used /\ ov'.id = 3 /\ ov'.busy = ov.busy /\ ov'.task = ov.proc
            /\ ov'.proc = ov.proc /\ ov'.linger = ov.linger
        BY <1>0, <3>1, <3>3 DEF OvRecord
      <4> QED BY <3>1, <3>3, <4>1 DEF OverlapOK
    <3>4. CASE "fade" \in failed /\ ov' = [ov EXCEPT !.used = FALSE, !.proc = None]
      <4>1. ~ov'.used /\ ov'.task = ov.task
        BY <1>0, <3>4 DEF OvRecord
      <4> QED BY <2>0, <3>1, <3>4, <4>1 DEF OverlapOK
    <3> QED BY <1>1, <2>0, <3>1, <3>2, <3>3, <3>4
  <2>4. CASE OverlapIsComplete
    <3>1. ov.id = 3 /\ ov.used /\ life' = life
      BY <2>4, OverlapPhases DEF OverlapIsComplete, AtOverlap
    <3>2. ov' = ov \/ ov' = [ov EXCEPT !.base = DoneMsg, !.id = 4]
      BY <2>4, <3>1 DEF OverlapIsComplete
    <3>3. /\ ov'.used /\ ov'.id \in {3, 4} /\ ov'.busy = ov.busy /\ ov'.task = ov.task
          /\ ov'.proc = ov.proc /\ ov'.linger = ov.linger
      BY <1>0, <3>1, <3>2 DEF OvRecord
    <3> QED BY <3>1, <3>3 DEF OverlapOK
  <2>5. CASE OverlapWaitOfFadeout
    <3>1. ov.id = 4 /\ ov.used /\ life' = life
      BY <2>5, OverlapPhases DEF OverlapWaitOfFadeout, AtOverlap
    <3> DEFINE n == IF ov.peektime = 0 THEN 0 ELSE ov.peektime - 1
    <3>2. ov' = [ov EXCEPT !.peektime = n, !.id = 5] \/ ov' = [ov EXCEPT !.peektime = n, !.peek = TRUE]
      BY <2>5, <3>1 DEF OverlapWaitOfFadeout
    <3> HIDE DEF n
    <3>3. /\ ov'.used /\ ov'.id \in {4, 5} /\ ov'.busy = ov.busy /\ ov'.task = ov.task
          /\ ov'.proc = ov.proc /\ ov'.linger = ov.linger
      BY <1>0, <3>1, <3>2 DEF OvRecord
    <3> QED BY <3>1, <3>3 DEF OverlapOK
  <2>6. CASE OverlapIsWaitOfFadeout
    <3>1. ov.id = 5 /\ ov.used /\ life' = life
      BY <2>6, OverlapPhases DEF OverlapIsWaitOfFadeout, AtOverlap
    <3>2. ov' = ov \/ ov' = [ov EXCEPT !.peek = FALSE, !.id = 6]
      BY <2>6, <3>1 DEF OverlapIsWaitOfFadeout
    <3>3. /\ ov'.used /\ ov'.id \in {5, 6} /\ ov'.busy = ov.busy /\ ov'.task = ov.task
          /\ ov'.proc = ov.proc /\ ov'.linger = ov.linger
      BY <1>0, <3>1, <3>2 DEF OvRecord
    <3> QED BY <3>1, <3>3 DEF OverlapOK
  <2>7. CASE OverlapIsDone
    <3>1. ov.used /\ ov.id = 6 /\ life' = life BY <2>7, OverlapPhases DEF OverlapIsDone, AtOverlap
    <3>2. ov' = [ov EXCEPT !.base = DoneMsg, !.linger = ov.linger - 1, !.id = IF ov.linger > 0 THEN 6 ELSE 7]
      BY <2>7, <3>1 DEF OverlapIsDone, Lingers
    <3>3. /\ ov'.used /\ ov'.id = (IF ov.linger > 0 THEN 6 ELSE 7) /\ ov'.busy = ov.busy /\ ov'.task = ov.task
          /\ ov'.proc = ov.proc /\ ov'.linger = ov.linger - 1
      BY <1>0, <3>1, <3>2 DEF OvRecord
    <3> QED BY <3>1, <3>3 DEF OverlapOK
  <2>8. CASE OverlapDone
    <3>1. ov' = Cleared \/ (ov' = ov /\ life' = life)
      BY <2>8 DEF OverlapDone
    <3> QED BY <1>0, <1>1, <2>0, <3>1 DEF Cleared, OverlapOK, OvRecord
  <2> QED BY <1>4, <2>1, <2>2, <2>3, <2>4, <2>5, <2>6, <2>7, <2>8 DEF OverlapManagement
<1>5. CASE Call
  <2>1. ASSUME NEW s \in Scenes, NEW r \in Requests, NEW n \in Names, ChangeReq(s, r, n)
        PROVE  OverlapOK'
    <3>1. ov' = [used |-> TRUE, busy |-> TRUE, id |-> 1, task |-> None, proc |-> None,
                 peek |-> FALSE, peektime |-> Peek, linger |-> 1, base |-> Command(1)]
      BY <2>1 DEF ChangeReq, NoOverlap
    <3> QED BY <3>1 DEF OverlapOK
  <2>2. UNCHANGED ov \/ \E s \in Scenes, r \in Requests, n \in Names : ChangeReq(s, r, n)
    BY <1>5 DEF Call, CreateRoomReq, DeleteRoomReq, ReRequest
  <2> QED BY <1>1, <1>5, <2>1, <2>2, InCall
<1> QED BY <1>1, <1>2, <1>3, <1>4, <1>5 DEF Next, FrameStep, PassSteps, PassEnds

(* There is one fade.                                                      *)
LEMMA OnlyFade ==
  ASSUME FadesOK, NEW f \in Fades, NEW g \in Fades, life[f] \in {"requested", "running"},
         life[g] \in {"requested", "running"}
  PROVE  f = g
  BY DEF FadesOK

(* What a step of the execute pass does to the fade that takes it.         *)
LEMMA FadeMovesOn ==
  ASSUME TypeOK, FadesOK, NEW p \in Fades, life[p] = "running", ExecutePass(p)
  PROVE  FadeAt(ov.id, fade[p].msg)'
<1>0. ov.used /\ ov.id >= 2 /\ ov.id \in 0..7 /\ FadeAt(ov.id, fade[p].msg)
  BY DEF FadesOK, TypeOK
<1>1. CASE FadeInNotReady(p) \/ SceneExecuted(p)
  BY <1>0, <1>1 DEF FadeInNotReady, SceneExecuted, fadeVars, FadeAt, TypeOK
<1>2. CASE FadeIn(p)
  <2>1. executeF = "in" /\ ov.id \in 2..3 /\ fade[p].msg = Command(1)
    BY <1>0, <1>2 DEF FadeIn, FadeAt
  <2>2. /\ fade'[p].msg = (IF Remaining(p) = 0 THEN DoneMsg ELSE fade[p].msg)
        /\ executeF' = IF Remaining(p) = 0 THEN "wait" ELSE "in"
        /\ ov' = ov
    BY <1>2 DEF FadeIn, TypeOK
  <2> QED BY <2>1, <2>2 DEF FadeAt
<1>3. CASE FadeWait(p)
  <2>1. executeF = "wait" /\ executeF' = (IF fade[p].msg.flag2 = 2 THEN "out" ELSE "wait") /\ UNCHANGED <<ov, fade>>
    BY <1>3 DEF FadeWait
  <2> QED BY <1>0, <2>1 DEF FadeAt, Command, DoneMsg, Quiet, Collected, TypeOK
<1>4. CASE FadeOut(p)
  <2>1. executeF = "out" /\ ov.id \in 5..7 /\ (ov.id = 5 => fade[p].msg \in {Command(2), DoneMsg})
    BY <1>0, <1>4 DEF FadeOut, FadeAt
  <2>2. /\ fade'[p].msg = (IF Remaining(p) = 0 THEN DoneMsg ELSE fade[p].msg)
        /\ UNCHANGED <<executeF, ov>>
    BY <1>4 DEF FadeOut, TypeOK
  <2> QED BY <2>1, <2>2 DEF FadeAt
<1> QED BY <1>1, <1>2, <1>3, <1>4 DEF ExecutePass

(* The steps that leave every fade's message and the static flag alone.    *)
LEMMA FadeKept ==
  ASSUME TypeOK, SceneAssumption, InQueue, NEW p \in Procs, PassSteps(p),
         p \notin Fades \/ (~FadeCreated(p) /\ ~ExecutePass(p))
  PROVE  executeF' = executeF /\ \A f \in Fades : fade'[f].msg = fade[f].msg
<1>1. CASE StageCreated(p)
  BY <1>1, SMTT(60) DEF StageCreated, Told, TypeOK
<1>2. CASE ~StageCreated(p)
  BY <1>2 DEF PassSteps, Freed, DeleteWaits, CreatePass, CreateWaits, RoomCreated, SceneFails,
     FadeFails, FadeCreated,
              ExecutePass, FadeInNotReady, FadeIn, FadeWait, FadeOut, SceneExecuted, FadeExecutes,
              fadeVars
<1> QED BY <1>1, <1>2

(* The passes leave the one fade where the overlap expects it.             *)
LEMMA FadesOKInPass ==
  ASSUME TypeOK, SceneAssumption, InQueue, OverlapOK, FadesOK, NEW p \in Procs, PassSteps(p)
  PROVE  FadesOK'
<1>0. ov' = ov
  BY InPass
<1> SUFFICES ASSUME NEW f \in Fades
             PROVE  /\ life'[f] # "waiting"
                    /\ life'[f] = "requested" => ov.used /\ ov.id = 2 /\ ov.proc = f
                    /\ life'[f] = "running" => ov.used /\ ov.id >= 2 /\ ov.proc = f /\ FadeAt(ov.id, fade[f].msg)'
  BY <1>0 DEF FadesOK
<1>1. /\ life[f] # "waiting"
      /\ life[f] = "requested" => ov.used /\ ov.id = 2 /\ ov.proc = f
      /\ life[f] = "running" => ov.used /\ ov.id >= 2 /\ ov.proc = f /\ FadeAt(ov.id, fade[f].msg)
  BY DEF FadesOK
<1>2. CASE p \notin Fades \/ (~FadeCreated(p) /\ ~ExecutePass(p))
  <2>1. executeF' = executeF /\ fade'[f].msg = fade[f].msg
    BY <1>2, FadeKept
  <2>2. life'[f] \in {life[f], "free"}
    BY <1>2, FadesInPass
  <2> QED BY <1>0, <1>1, <2>1, <2>2 DEF FadeAt
<1>3. CASE p \in Fades /\ FadeCreated(p)
  <2>1. life[p] = "requested" /\ life' = [life EXCEPT ![p] = "running"] /\ fade' = [fade EXCEPT ![p] = [msg |-> Command(1), scene |-> None, timer |-> 0]]
        /\ executeF' = "in"
    BY <1>3 DEF FadeCreated, Visits, InQueue
  <2>2. CASE f = p
    <3>1. ov.used /\ ov.id = 2 /\ ov.proc = f /\ life'[f] = "running" /\ fade'[f].msg = Command(1)
      BY <1>1, <2>1, <2>2 DEF TypeOK
    <3> QED BY <1>0, <2>1, <3>1 DEF FadeAt
  <2>3. CASE f # p
    <3>1. life'[f] = life[f] /\ life[f] \notin {"requested", "running"}
      BY <1>3, <2>1, <2>3, OnlyFade DEF TypeOK
    <3> QED BY <1>1, <3>1
  <2> QED BY <2>2, <2>3
<1>4. CASE p \in Fades /\ ExecutePass(p)
  <2>1. life[p] = "running" /\ life' = life
    BY <1>4 DEF InQueue, Visits, ExecutePass, FadeInNotReady, FadeIn, FadeWait, FadeOut,
       SceneExecuted, FadeExecutes
  <2>2. FadeAt(ov.id, fade[p].msg)'
    BY <1>4, <2>1, FadeMovesOn
  <2> QED BY <1>1, <1>4, <2>1, <2>2, OnlyFade DEF FadeAt
<1> QED BY <1>2, <1>3, <1>4

(* The fade goes with the overlap.                                         *)
LEMMA FadeGoes ==
  ASSUME TypeOK, OverlapOK, FadesOK, ov.used, ov.id >= 3, life' = FadeDeleted, ov' = Cleared
  PROVE  FadesOK'
<1> SUFFICES ASSUME NEW f \in Fades PROVE life'[f] \notin {"waiting", "requested", "running"}
  BY DEF FadesOK
<1>1. ov.task = ov.proc /\ ov.proc \in Fades /\ life[ov.proc] = "running"
  BY DEF OverlapOK, TypeOK
<1>2. life'[f] = IF f = ov.task THEN "dying" ELSE life[f]
  BY DEF FadeDeleted, Procs
<1> QED BY <1>1, <1>2, OnlyFade DEF FadesOK

(* Nothing but the overlap's request was rewritten, within the same phase. *)
LEMMA FadesOKKept ==
  ASSUME FadesOK, \A f \in Fades : life'[f] = life[f], UNCHANGED <<fade, executeF>>,
         ov'.used = ov.used, ov'.id = ov.id, ov'.proc = ov.proc
  PROVE  FadesOK'
  BY DEF FadesOK, FadeAt

(* So does each phase of the overlap.                                      *)
LEMMA FadesOKInOverlap ==
  ASSUME TypeOK, OverlapOK, FadesOK, OverlapManagement PROVE FadesOK'
<1>0. ov \in OvRecord /\ fade \in [Fades -> FadeRecord] /\ executeF' = executeF
  BY InOverlap DEF TypeOK, OvRecord, FadeRecord
<1>1. CASE OverlapIdle
  BY <1>1, FadesOKKept DEF OverlapIdle, fadeVars
<1>2. CASE OverlapCreate
  <2>1. ov.id = 1 /\ ov.used BY <1>2, OverlapPhases DEF OverlapCreate, AtOverlap
  <2>2. PICK f \in Fades : Fresh(f) /\ life' = [life EXCEPT ![f] = "requested"] /\ ov' = [ov EXCEPT !.proc = f, !.id = @ + 1]
    BY <1>2 DEF OverlapCreate
  <2>3. ov'.used /\ ov'.id = 2 /\ ov'.proc = f
    BY <1>0, <2>1, <2>2 DEF OvRecord
  <2>4. \A g \in Fades : IF g = f THEN life'[g] = "requested" ELSE life'[g] \notin {"waiting", "requested", "running"}
    BY <2>1, <2>2 DEF FadesOK, TypeOK, Procs
  <2> QED BY <2>3, <2>4 DEF FadesOK
<1>3. CASE OverlapIsCreated
  <2>1. ov.id = 2 /\ ov.used /\ life' = life /\ fade' = fade
    BY <1>3, OverlapPhases DEF OverlapIsCreated, AtOverlap
  <2>2. \/ ov' = ov
        \/ life[ov.proc] = "running" /\ ov' = [ov EXCEPT !.task = ov.proc, !.id = 3]
        \/ life[ov.proc] \notin {"requested", "running"} /\ ov' = [ov EXCEPT !.used = FALSE, !.proc = None]
    BY <1>3, <2>1 DEF OverlapIsCreated
  <2>3. CASE ov' = ov
    BY <1>0, <2>1, <2>3, FadesOKKept
  <2>4. CASE life[ov.proc] = "running" /\ ov' = [ov EXCEPT !.task = ov.proc, !.id = 3]
    <3>1. ov'.used /\ ov'.id = 3 /\ ov'.proc = ov.proc
      BY <1>0, <2>1, <2>4 DEF OvRecord
    <3>2. \A f \in Fades : life[f] = "requested" => f = ov.proc /\ ov.id = 2
      BY DEF FadesOK
    <3>3. \A f \in Fades : life[f] # "waiting" /\ (life[f] = "requested" => f = ov.proc)
      BY <2>1, <3>2 DEF FadesOK
    <3>4. ov.proc \in Fades /\ life[ov.proc] = "running"
      BY <2>1, <2>4 DEF OverlapOK
    <3>5. FadeAt(2, fade[ov.proc].msg)
      BY <2>1, <3>4 DEF FadesOK
    <3>6. FadeAt(ov.id, fade[ov.proc].msg)'
      BY <1>0, <2>1, <3>1, <3>5 DEF FadeAt
    <3>7. \A f \in Fades : life[f] = "running" => f = ov.proc
      BY DEF FadesOK
    <3> QED BY <2>1, <3>1, <3>3, <3>4, <3>6, <3>7 DEF FadesOK
  <2>5. CASE life[ov.proc] \notin {"requested", "running"} /\ ov' = [ov EXCEPT !.used = FALSE, !.proc = None]
    <3>1. \A f \in Fades : life'[f] \notin {"waiting", "requested", "running"}
      BY <2>1, <2>5 DEF FadesOK
    <3> QED BY <3>1 DEF FadesOK
  <2> QED BY <2>2, <2>3, <2>4, <2>5
<1>4. CASE OverlapIsComplete
  <2>1. ov.id = 3 /\ ov.used /\ life' = life
    BY <1>4, OverlapPhases DEF OverlapIsComplete, AtOverlap
  <2>2. CASE TaskDone
    <3>1. ov' = [ov EXCEPT !.base = DoneMsg, !.id = 4] /\ fade' = [fade EXCEPT ![ov.task].msg = Collected(@)]
      BY <1>4, <2>1, <2>2 DEF OverlapIsComplete, TaskCollected
    <3>2. ov'.used /\ ov'.id = 4 /\ ov'.proc = ov.proc
      BY <1>0, <2>1, <3>1 DEF OvRecord
    <3>3. /\ ov.task = ov.proc /\ ov.proc \in Fades /\ life[ov.proc] = "running"
          /\ FadeAt(ov.id, fade[ov.proc].msg)
      BY <2>1 DEF OverlapOK, FadesOK
    <3>4. executeF = "wait" /\ fade[ov.proc].msg = DoneMsg
      BY <2>1, <2>2, <3>3 DEF FadeAt, TaskDone, Command
    <3>5. fade'[ov.proc].msg = Quiet
      BY <1>0, <3>1, <3>3, <3>4 DEF Quiet, FadeRecord
    <3>6. \A f \in Fades : life[f] # "waiting" /\ life[f] # "requested" /\ (life[f] = "running" => f = ov.proc)
      BY <2>1 DEF FadesOK
    <3> QED BY <1>0, <2>1, <3>2, <3>4, <3>5, <3>6 DEF FadesOK, FadeAt
  <2>3. CASE ~TaskDone
    BY <1>0, <1>4, <2>1, <2>3, FadesOKKept DEF OverlapIsComplete
  <2> QED BY <2>2, <2>3
<1>5. CASE OverlapWaitOfFadeout
  <2>1. ov.id = 4 /\ ov.used /\ life' = life
    BY <1>5, OverlapPhases DEF OverlapWaitOfFadeout, AtOverlap
  <2> DEFINE n == IF ov.peektime = 0 THEN 0 ELSE ov.peektime - 1
  <2>2. \/ ov' = [ov EXCEPT !.peektime = n, !.id = 5] /\ fade' = [fade EXCEPT ![ov.task].msg = Command(2)]
        \/ ov' = [ov EXCEPT !.peektime = n, !.peek = TRUE] /\ fade' = fade
    BY <1>5, <2>1 DEF OverlapWaitOfFadeout
  <2> HIDE DEF n
  <2>3. CASE ov' = [ov EXCEPT !.peektime = n, !.id = 5] /\ fade' = [fade EXCEPT ![ov.task].msg = Command(2)]
    <3>2. ov'.used /\ ov'.id = 5 /\ ov'.proc = ov.proc
      BY <1>0, <2>1, <2>3 DEF OvRecord
    <3>3. /\ ov.task = ov.proc /\ ov.proc \in Fades /\ life[ov.proc] = "running"
          /\ FadeAt(ov.id, fade[ov.proc].msg)
      BY <2>1 DEF OverlapOK, FadesOK
    <3>4. executeF = "wait"
      BY <2>1, <3>3 DEF FadeAt
    <3>5. fade'[ov.proc].msg = Command(2)
      BY <1>0, <2>3, <3>3 DEF FadeRecord
    <3>6. \A f \in Fades : life[f] # "waiting" /\ life[f] # "requested" /\ (life[f] = "running" => f = ov.proc)
      BY <2>1 DEF FadesOK
    <3> QED BY <1>0, <2>1, <3>2, <3>4, <3>5, <3>6 DEF FadesOK, FadeAt
  <2>4. CASE ov' = [ov EXCEPT !.peektime = n, !.peek = TRUE] /\ fade' = fade
    <3>1. ov'.used = ov.used /\ ov'.id = ov.id /\ ov'.proc = ov.proc
      BY <1>0, <2>4 DEF OvRecord
    <3> QED BY <1>0, <2>1, <2>4, <3>1, FadesOKKept
  <2> QED BY <2>2, <2>3, <2>4
<1>6. CASE OverlapIsWaitOfFadeout
  <2>1. ov.id = 5 /\ ov.used /\ life' = life
    BY <1>6, OverlapPhases DEF OverlapIsWaitOfFadeout, AtOverlap
  <2>2. CASE TaskDone
    <3>1. ov' = [ov EXCEPT !.peek = FALSE, !.id = 6]
      BY <1>6, <2>1, <2>2 DEF OverlapIsWaitOfFadeout
    <3>2. ov'.used /\ ov'.id = 6 /\ ov'.proc = ov.proc
      BY <1>0, <2>1, <3>1 DEF OvRecord
    <3>3. ov.task = ov.proc /\ ov.proc \in Fades /\ FadeAt(ov.id, fade[ov.proc].msg)
      BY <2>1 DEF OverlapOK, FadesOK
    <3>4. executeF = "out"
      BY <2>1, <2>2, <3>3 DEF FadeAt, TaskDone, Command
    <3>6. \A f \in Fades : life[f] # "waiting" /\ life[f] # "requested" /\ (life[f] = "running" => f = ov.proc)
      BY <2>1 DEF FadesOK
    <3> QED BY <1>0, <2>1, <3>2, <3>4, <3>6 DEF FadesOK, FadeAt
  <2>3. CASE ~TaskDone
    BY <1>0, <1>6, <2>1, <2>3, FadesOKKept DEF OverlapIsWaitOfFadeout
  <2> QED BY <2>2, <2>3
<1>7. CASE OverlapIsDone
  <2>1. ov.used /\ ov.id = 6 /\ life' = life /\ fade' = fade
    BY <1>7, OverlapPhases DEF OverlapIsDone, AtOverlap
  <2>2. ov' = [ov EXCEPT !.base = DoneMsg, !.linger = ov.linger - 1, !.id = IF ov.linger > 0 THEN 6 ELSE 7]
    BY <1>7, <2>1 DEF OverlapIsDone, Lingers
  <2>3. /\ ov'.used /\ ov'.id \in {6, 7} /\ ov'.proc = ov.proc
    BY <1>0, <2>1, <2>2 DEF OvRecord
  <2> QED BY <1>0, <2>1, <2>3 DEF FadesOK, FadeAt
<1>8. CASE OverlapDone
  <2>1. ov.used /\ ov.id = 7 BY <1>8, OverlapPhases DEF OverlapDone, AtOverlap
  <2>2. CASE DeletableTask
    BY <1>8, <2>1, <2>2, FadeGoes DEF OverlapDone
  <2>3. CASE ~DeletableTask
    BY <1>0, <1>8, <2>1, <2>3, FadesOKKept DEF OverlapDone
  <2> QED BY <2>2, <2>3
<1> QED BY <1>1, <1>2, <1>3, <1>4, <1>5, <1>6, <1>7, <1>8 DEF OverlapManagement

(* Every step leaves the one fade where the overlap expects it.            *)
LEMMA FadesOKStep ==
  ASSUME TypeOK, SceneAssumption, ReqShape, InQueue, OverlapOK, ChangeOK, FadesOK, Next
  PROVE  FadesOK'
<1>0. ov \in OvRecord
  BY DEF TypeOK, OvRecord
<1>1. ASSUME NEW r \in Requests, Management(r) PROVE FadesOK'
  <2>1. UNCHANGED <<fade, executeF>>
    BY <1>1, InManagement
  <2>2. CASE Changing(r) /\ ov.used /\ life' = FadeDeleted /\ ov' = Cleared /\ req[r].id \in 5..6
    <3>1. ov.id = 4
      BY <2>2 DEF ChangeOK, Together
    <3> QED BY <2>2, <3>1, FadeGoes
  <2>3. CASE (\A f \in Fades : life'[f] = life[f])
               /\ (ov' = ov \/ \E m \in {Collected(ov.base), Command(2)} : ov' = [ov EXCEPT !.base = m])
    <3>1. ov'.used = ov.used /\ ov'.id = ov.id /\ ov'.proc = ov.proc
      BY <1>0, <2>3 DEF OvRecord
    <3> QED BY <2>1, <2>3, <3>1, FadesOKKept
  <2> QED BY <1>1, <2>2, <2>3, FadesInManagement
<1>2. CASE Call
  <2>1. UNCHANGED <<life, fade, executeF>>
    BY <1>2, InCall DEF fadeVars
  <2>2. ASSUME NEW s \in Scenes, NEW r \in Requests, NEW n \in Names, ChangeReq(s, r, n)
        PROVE  FadesOK'
    <3>1. ~ov.used
      BY <2>2 DEF ChangeReq, OverlapGranted
    <3> QED BY <2>1, <3>1 DEF FadesOK
  <2>3. UNCHANGED ov \/ \E s \in Scenes, r \in Requests, n \in Names : ChangeReq(s, r, n)
    BY <1>2 DEF Call, CreateRoomReq, DeleteRoomReq, ReRequest
  <2> QED BY <2>1, <2>2, <2>3, FadesOKKept
<1>3. CASE PassEnds
  BY <1>3, FadesOKKept DEF PassEnds, fadeVars
<1> QED BY <1>1, <1>2, <1>3, FadesOKInPass, FadesOKInOverlap DEF Next, FrameStep, PassSteps

-----------------------------------------------------------------------------
(* The scenes and their rooms.                                             *)

(* No process is of two kinds.                                             *)
LEMMA Disjoint ==
  ASSUME SceneAssumption
  PROVE  /\ \A s \in Stages : s \notin Rooms /\ s \notin Fades /\ s # None
         /\ \A q \in Rooms : q \notin Stages /\ q \notin Fades /\ q # None
         /\ \A f \in Fades : f \notin Scenes /\ f # None
  BY SceneAssumption DEF Scenes, Procs

(* The overlap has no hand in the life of a scene.                         *)
LEMMA ScenesInOverlap ==
  ASSUME TypeOK, SceneAssumption, OverlapOK, OverlapManagement
  PROVE  \A s \in Scenes : life'[s] = life[s]
<1>1. CASE OverlapCreate
  BY <1>1, Disjoint DEF OverlapCreate, TypeOK
<1>2. CASE OverlapDone
  <2>1. ov.task \in Fades \union {None}
    BY DEF TypeOK
  <2>2. \A s \in Scenes : s # ov.task
    BY <2>1, Disjoint DEF Scenes
  <2> QED BY <1>2, <2>2 DEF OverlapDone, FadeDeleted, Procs
<1> QED BY <1>1, <1>2 DEF OverlapManagement, OverlapIdle, OverlapIsCreated, OverlapIsComplete,
       OverlapWaitOfFadeout, OverlapIsWaitOfFadeout, OverlapIsDone

(* Of a scene request only the deletion and the creation have.             *)
LEMMA ScenesInManagement ==
  ASSUME TypeOK, SceneAssumption, NEW r \in Requests, Management(r)
  PROVE  \/ \A s \in Scenes : life'[s] = life[s]
         \/ DeleteNode(r) /\ Deletable(req[r].node)
         \/ CreateNode(r)
<1>1. CASE Cancelled(r)
  <2>1. ov.task \in Fades \union {None}
    BY DEF TypeOK
  <2>2. \A s \in Scenes : s # ov.task
    BY <2>1, Disjoint DEF Scenes
  <2> QED BY <1>1, <2>2 DEF Cancelled, FadeDeleted, Procs
<1>2. CASE ~Cancelled(r) /\ ~DeleteNode(r) /\ ~CreateNode(r)
  BY <1>2 DEF Management, RequestVisited, IsDoingOverlap, IsDoneOverlap, IsDeleted,
        CreateNodeFails, IsCreated, ClearOverlap, RequestDone
<1>3. CASE DeleteNode(r)
  BY <1>3 DEF DeleteNode
<1> QED BY <1>1, <1>2, <1>3

(* Rooms agree with their stages when neither moves.                       *)
LEMMA RoomsOKKept ==
  ASSUME RoomsOK, parent \in [Rooms -> Stages \union {None}],
         \A s \in Scenes : life'[s] = life[s], parent' = parent
  PROVE  RoomsOK'
  BY DEF RoomsOK, Scenes

(* A room dies before its stage and starts with it or after it.            *)
LEMMA RoomsOKInPass ==
  ASSUME TypeOK, SceneAssumption, InQueue, RoomsOK, NEW p \in Procs, PassSteps(p)
  PROVE  RoomsOK'
<1>0. /\ life \in [Procs -> LifeStates] /\ parent \in [Rooms -> Stages \union {None}]
      /\ Rooms \subseteq Procs /\ Stages \subseteq Procs
  BY DEF TypeOK, LifeStates, Procs, Scenes
<1>1. CASE Freed(p)
  <2>1. /\ \A q \in Rooms : parent[q] = p => life[q] = "free"
        /\ \A q \in Procs : life'[q] = IF q = p THEN "free" ELSE life[q]
        /\ \A q \in Rooms : parent'[q] = IF q = p THEN None ELSE parent[q]
    BY <1>0, <1>1 DEF Freed
  <2> QED BY <1>0, <2>1 DEF RoomsOK
<1>2. CASE StageCreated(p)
  <2>1. /\ \A q \in Procs : life'[q] = IF q \in Below(p) THEN "running" ELSE life[q]
        /\ \A q \in Rooms : parent'[q] = parent[q]
        /\ \A q \in Rooms : parent[q] = p => life[q] # "requested"
        /\ p \in Stages
    BY <1>2 DEF StageCreated, CreatingUnder
  <2>2. /\ \A q \in Rooms : q \in Below(p) <=> parent[q] = p /\ life[q] \in {"waiting", "running"}
        /\ \A s \in Stages : s \in Below(p) <=> s = p
    BY <2>1, Disjoint DEF Below
  <2> SUFFICES ASSUME NEW q \in Rooms
               PROVE  /\ life'[q] # "free" => parent[q] \in Stages
                      /\ life'[q] = "requested" => life'[parent[q]] \in {"requested", "running"}
                      /\ life'[q] = "waiting" => life'[parent[q]] = "requested"
                      /\ life'[q] = "running" => life'[parent[q]] = "running"
    BY <2>1 DEF RoomsOK
  <2>3. /\ life[q] # "free" => parent[q] \in Stages
        /\ life[q] = "requested" => life[parent[q]] \in {"requested", "running"}
        /\ life[q] = "waiting" => life[parent[q]] = "requested"
        /\ life[q] = "running" => life[parent[q]] = "running"
    BY DEF RoomsOK
  <2>4. CASE parent[q] = p
    BY <1>0, <2>1, <2>2, <2>3, <2>4
  <2>5. CASE parent[q] # p
    BY <1>0, <2>1, <2>2, <2>3, <2>5
  <2> QED BY <2>4, <2>5
<1>3. CASE RoomCreated(p)
  <2>1. /\ p \in Rooms /\ life[p] = "requested" /\ parent' = parent
        /\ \A q \in Procs : life'[q] = IF q = p THEN IF life[parent[p]] = "running" THEN "running" ELSE "waiting" ELSE life[q]
    BY <1>0, <1>3 DEF RoomCreated, Visits, InQueue, sceneVars
  <2>2. parent[p] \in Stages /\ parent[p] # p /\ life[parent[p]] \in {"requested", "running"}
    BY <2>1, Disjoint DEF RoomsOK
  <2> QED BY <1>0, <2>1, <2>2, Disjoint DEF RoomsOK
<1>4. CASE SceneFails(p)
  <2>1. /\ parent' = parent /\ \A q \in Procs : life'[q] = IF q = p THEN "dying" ELSE life[q]
        /\ \A q \in Rooms : parent[q] = p => life[q] # "requested"
        /\ \A q \in Rooms : parent[q] = p => q = p \/ life[q] \notin {"waiting", "running"}
    BY <1>0, <1>4 DEF SceneFails, CreatingUnder, Below, sceneVars
  <2> SUFFICES ASSUME NEW q \in Rooms
               PROVE  /\ life'[q] # "free" => parent[q] \in Stages
                      /\ life'[q] = "requested" => life'[parent[q]] \in {"requested", "running"}
                      /\ life'[q] = "waiting" => life'[parent[q]] = "requested"
                      /\ life'[q] = "running" => life'[parent[q]] = "running"
    BY <2>1 DEF RoomsOK
  <2>3. /\ life[q] # "free" => parent[q] \in Stages
        /\ life[q] = "requested" => life[parent[q]] \in {"requested", "running"}
        /\ life[q] = "waiting" => life[parent[q]] = "requested"
        /\ life[q] = "running" => life[parent[q]] = "running"
    BY DEF RoomsOK
  <2>4. CASE parent[q] = p
    BY <1>0, <2>1, <2>3, <2>4
  <2>5. CASE parent[q] # p
    <3>1. life[q] # "free" => life'[parent[q]] = life[parent[q]]
      BY <1>0, <2>1, <2>3, <2>5
    <3>2. life'[q] = life[q] \/ life'[q] = "dying"
      BY <1>0, <2>1
    <3>3. life'[q] = "dying" => life[q] # "free"
      BY <1>0, <1>4, <2>1 DEF SceneFails, Visits, InQueue
    <3> QED BY <2>3, <3>1, <3>2, <3>3
  <2> QED BY <2>4, <2>5
<1>5. CASE ~Freed(p) /\ ~StageCreated(p) /\ ~RoomCreated(p) /\ ~SceneFails(p)
  <2>1. parent' = parent /\ \A s \in Scenes : life'[s] = life[s]
    BY <1>0, <1>5, SceneAssumption DEF PassSteps, DeleteWaits, CreatePass, CreateWaits, FadeFails,
       FadeCreated, sceneVars,
              ExecutePass, FadeInNotReady, FadeIn, FadeWait, FadeOut, SceneExecuted, FadeExecutes,
              Procs
  <2> QED BY <1>0, <2>1, RoomsOKKept
<1> QED BY <1>1, <1>2, <1>3, <1>4, <1>5

(* What is deleted with a scene, and what a creation makes.                *)
LEMMA NodeDeleted ==
  ASSUME TypeOK, SceneAssumption, ReqShape, NEW r \in Requests, DeleteNode(r),
         Deletable(req[r].node)
  PROVE  /\ Advanced(r) /\ UNCHANGED <<parent, paused, ov, failed>>
         /\ req[r].node \in Scenes /\ life[req[r].node] = "running" /\ ~CreatingUnder(req[r].node)
         /\ \A p \in Procs : life'[p] = IF p \in Below(req[r].node) THEN "dying" ELSE life[p]
         /\ (Changing(r) /\ req[r].id = 3 /\ req[r].creating = None /\ req[r].node \in Stages)
              \/ (req[r].kind = "delete" /\ req[r].node \in Rooms)
  BY Phases DEF DeleteNode, InPhase, ReqShape, RequestOK, Scenes, Changing, Deletable, sceneVars

(* What fpcNdRq_phase_Create makes.                                        *)
LEMMA NodeCreated ==
  ASSUME TypeOK, SceneAssumption, ReqShape, NEW r \in Requests, CreateNode(r)
  PROVE  \E s \in Scenes :
           /\ Fresh(s) /\ life[s] = "free"
           /\ \A p \in Procs : life'[p] = IF p = s THEN "requested" ELSE life[p]
           /\ \A q \in Rooms : parent'[q] = IF q = s THEN req[r].layer ELSE parent[q]
           /\ \A x \in Requests : x # r => req'[x] = req[x]
           /\ req'[r] = [req[r] EXCEPT !.creating = s, !.id = req[r].id + 1]
           /\ UNCHANGED <<paused, ov, using, failed, current, todo>>
           /\ \/ Changing(r) /\ req[r].id = 5 /\ req[r].layer = None /\ s \in Stages
              \/ req[r].kind = "create" /\ s \in Rooms /\ req[r].layer \in Stages
<1>1. (Changing(r) /\ req[r].id = 5) \/ (req[r].kind = "create" /\ req[r].id = 1)
  BY Phases DEF CreateNode, InPhase
<1>2. PICK s \in IF req[r].kind = "create" THEN Rooms ELSE Stages :
         /\ Fresh(s)
         /\ life' = [life EXCEPT ![s] = "requested"]
         /\ parent' = [q \in Rooms |-> IF q = s THEN req[r].layer ELSE parent[q]]
         /\ req' = [req EXCEPT ![r].creating = s, ![r].id = @ + 1]
  BY DEF CreateNode
<1>3. \A p \in Procs : life'[p] = IF p = s THEN "requested" ELSE life[p]
  BY <1>2 DEF TypeOK
<1>4. \A q \in Rooms : parent'[q] = IF q = s THEN req[r].layer ELSE parent[q]
  BY <1>2
<1>5. /\ \A x \in Requests : x # r => req'[x] = req[x]
      /\ req'[r] = [req[r] EXCEPT !.creating = s, !.id = req[r].id + 1]
  BY <1>2, CreatesIs
<1>6. \/ Changing(r) /\ req[r].id = 5 /\ req[r].layer = None /\ s \in Stages
      \/ req[r].kind = "create" /\ s \in Rooms /\ req[r].layer \in Stages
  BY <1>1 DEF ReqShape, RequestOK, Changing
<1>7. /\ s \in Scenes /\ Fresh(s) /\ life[s] = "free"
      /\ UNCHANGED <<paused, ov, using, failed, current, todo>>
  BY <1>2 DEF Fresh, CreateNode, Scenes
<1> QED BY <1>3, <1>4, <1>5, <1>6, <1>7

(* Every step leaves the rooms what their stages let them be.              *)
LEMMA RoomsOKStep ==
  ASSUME TypeOK, SceneAssumption, ReqShape, InQueue, OverlapOK, RoomsOK, LayersOK, Next
  PROVE  RoomsOK'
<1>0. /\ parent \in [Rooms -> Stages \union {None}]
      /\ Rooms \subseteq Procs /\ Stages \subseteq Procs
  BY DEF TypeOK, Procs, Scenes
<1>1. ASSUME NEW r \in Requests, Management(r) PROVE RoomsOK'
  <2>1. CASE DeleteNode(r) /\ Deletable(req[r].node)
    <3>1. /\ \A p \in Procs : life'[p] = IF p \in Below(req[r].node) THEN "dying" ELSE life[p]
          /\ parent' = parent /\ req[r].node \in Scenes
          /\ \A q \in Rooms : parent[q] = req[r].node => life[q] # "requested"
      BY <2>1, NodeDeleted DEF CreatingUnder
    <3>2. \A p \in Procs : p \in Below(req[r].node) <=> p = req[r].node \/ (p \in Rooms /\ parent[p] = req[r].node /\ life[p] \in {"waiting", "running"})
      BY <3>1 DEF Below
    <3>3. \A s \in Stages : s \notin Rooms
      BY Disjoint
    <3> SUFFICES ASSUME NEW q \in Rooms
                 PROVE  /\ life'[q] # "free" => parent[q] \in Stages
                        /\ life'[q] = "requested" => life'[parent[q]] \in {"requested", "running"}
                        /\ life'[q] = "waiting" => life'[parent[q]] = "requested"
                        /\ life'[q] = "running" => life'[parent[q]] = "running"
      BY <3>1 DEF RoomsOK
    <3>4. /\ life[q] # "free" => parent[q] \in Stages
          /\ life[q] = "requested" => life[parent[q]] \in {"requested", "running"}
          /\ life[q] = "waiting" => life[parent[q]] = "requested"
          /\ life[q] = "running" => life[parent[q]] = "running"
      BY DEF RoomsOK
    <3>5. CASE parent[q] = req[r].node
      BY <1>0, <3>1, <3>2, <3>4, <3>5
    <3>6. CASE parent[q] # req[r].node
      <4>1. life[q] # "free" => life'[parent[q]] = life[parent[q]]
        BY <1>0, <3>1, <3>2, <3>3, <3>4, <3>6
      <4>2. life'[q] = life[q] \/ (life'[q] = "dying" /\ life[q] # "free")
        BY <1>0, <2>1, <3>1, <3>2 DEF Deletable
      <4> QED BY <3>4, <4>1, <4>2
    <3> QED BY <3>5, <3>6
  <2>2. CASE CreateNode(r)
    <3>1. PICK s \in Scenes :
           /\ life[s] = "free"
           /\ \A p \in Procs : life'[p] = IF p = s THEN "requested" ELSE life[p]
           /\ \A q \in Rooms : parent'[q] = IF q = s THEN req[r].layer ELSE parent[q]
           /\ s \in Stages \/ (s \in Rooms /\ req[r].layer \in Stages)
      BY <2>2, NodeCreated
    <3>2. req[r].layer \in Stages => life[req[r].layer] \in {"requested", "running"} /\ req[r].layer # None
      BY Disjoint DEF LayersOK
    <3> QED BY <1>0, <3>1, <3>2, Disjoint DEF RoomsOK
  <2>3. CASE ~CreateNode(r) /\ ~(DeleteNode(r) /\ Deletable(req[r].node))
    <3>1. parent' = parent
      BY <1>1, <2>3 DEF Management, RequestVisited, IsDoingOverlap, IsDoneOverlap, IsDeleted,
         sceneVars,
        DeleteNode, CreateNodeFails, IsCreated, ClearOverlap, RequestDone
    <3> QED BY <1>0, <1>1, <2>3, <3>1, ScenesInManagement, RoomsOKKept
  <2> QED BY <2>1, <2>2, <2>3
<1>2. CASE OverlapManagement
  BY <1>0, <1>2, ScenesInOverlap, InOverlap, RoomsOKKept DEF sceneVars
<1>3. CASE PassEnds \/ Call
  BY <1>0, <1>3, InCall, RoomsOKKept DEF sceneVars, PassEnds
<1> QED BY <1>1, <1>2, <1>3, RoomsOKInPass DEF Next, FrameStep, PassSteps

-----------------------------------------------------------------------------
(* One change at a time.                                                   *)

(* What a visit makes of the request it is of.                             *)
LEMMA ReqInManagement ==
  ASSUME TypeOK, SceneAssumption, ReqShape, OverlapOK, ChangeOK, NEW r \in Requests, Management(r)
  PROVE  /\ \A x \in Requests : x # r => req'[x] = req[x]
         /\ \/ req'[r] = req[r]
            \/ req'[r] = NoReq
            \/ req'[r] = [req[r] EXCEPT !.id = req[r].id + 1]
            \/ CreateNode(r)
<1>0. req \in [Requests -> ReqRecord]
  BY ReqTyped
<1>1. CASE RequestVisited(r) \/ RequestDone(r)
  BY <1>0, <1>1 DEF RequestVisited, RequestDone
<1>2. CASE IsDoingOverlap(r) \/ IsDoneOverlap(r) \/ DeleteNode(r) \/ IsDeleted(r) \/ ClearOverlap(r) \/ (IsCreated(r) /\ ~Cancelled(r))
  <2>1. Advanced(r) \/ req' = req
    BY <1>2 DEF IsDoingOverlap, IsDoneOverlap, DeleteNode, IsDeleted, ClearOverlap, IsCreated,
       Blocked
  <2> QED BY <1>0, <2>1, AdvancedIs
<1>3. CASE (CreateNodeFails(r) \/ IsCreated(r)) /\ Cancelled(r)
  <2>1. Changing(r) => req[r].id \in 5..6
    BY <1>3, Phases DEF CreateNodeFails, IsCreated, InPhase, Changing
  <2>2. req' = [req EXCEPT ![r] = NoReq]
    BY <1>3, <2>1, CancelledIs
  <2> QED BY <1>0, <2>2
<1>4. CASE CreateNode(r)
  <2>1. PICK s : req' = [req EXCEPT ![r].creating = s, ![r].id = @ + 1]
    BY <1>4 DEF CreateNode
  <2> QED BY <1>4, <2>1, CreatesIs
<1> QED BY <1>1, <1>2, <1>3, <1>4 DEF Management, CreateNodeFails

(* What a call asks for.                                                   *)
LEMMA ReqInCall ==
  ASSUME TypeOK, SceneAssumption, Call
  PROVE  \/ /\ \A x \in Requests : req'[x].kind = req[x].kind /\ req'[x].id = req[x].id /\ req'[x].layer = req[x].layer
                                   /\ req'[x].creating = req[x].creating
            /\ \E s \in Scenes, n \in Names : ReRequest(s, n)
         \/ \E r \in Requests :
              /\ req[r].kind = "none" /\ req'[r].creating = None /\ req'[r].id = 1
              /\ \A x \in Requests : x # r => req'[x] = req[x]
              /\ \/ (\E s \in Scenes, n \in Names : ChangeReq(s, r, n)) /\ Changing(r)' /\ req'[r].layer = None
                 \/ (\E s \in Scenes : CreateRoomReq(s, r) /\ s \in Stages /\ req'[r].layer = s) /\ ~Changing(r)'
                 \/ (\E q \in Scenes : DeleteRoomReq(q, r) /\ q \in Rooms /\ req'[r].layer = parent[q]) /\ ~Changing(r)'
<1>0. req \in [Requests -> ReqRecord]
  BY ReqTyped
<1>1. ASSUME NEW s \in Scenes, NEW r \in Requests, NEW n \in Names, ChangeReq(s, r, n)
      PROVE  /\ req[r].kind = "none" /\ req'[r].creating = None /\ req'[r].id = 1
             /\ \A x \in Requests : x # r => req'[x] = req[x]
             /\ Changing(r)' /\ req'[r].layer = None
  BY <1>0, <1>1 DEF ChangeReq, Queued, Changing
<1>2. ASSUME NEW s \in Scenes, NEW r \in Requests, CreateRoomReq(s, r)
      PROVE  /\ req[r].kind = "none" /\ req'[r].creating = None /\ req'[r].id = 1
             /\ \A x \in Requests : x # r => req'[x] = req[x]
             /\ s \in Stages /\ req'[r].layer = s /\ ~Changing(r)'
  BY <1>0, <1>2 DEF CreateRoomReq, Queued, Changing
<1>3. ASSUME NEW s \in Scenes, NEW r \in Requests, DeleteRoomReq(s, r)
      PROVE  /\ req[r].kind = "none" /\ req'[r].creating = None /\ req'[r].id = 1
             /\ \A x \in Requests : x # r => req'[x] = req[x]
             /\ s \in Rooms /\ req'[r].layer = parent[s] /\ ~Changing(r)'
  BY <1>0, <1>3 DEF DeleteRoomReq, Queued, Changing
<1>4. ASSUME NEW s \in Scenes, NEW n \in Names, ReRequest(s, n)
      PROVE  \A x \in Requests : req'[x].kind = req[x].kind /\ req'[x].id = req[x].id /\ req'[x].layer = req[x].layer
                                   /\ req'[x].creating = req[x].creating
  BY <1>0, <1>4 DEF ReRequest, ReqRecord
<1>5. CASE \E s \in Scenes, r \in Requests, n \in Names : ChangeReq(s, r, n)
  BY <1>1, <1>5
<1>6. CASE \E s \in Scenes, r \in Requests : CreateRoomReq(s, r)
  BY <1>2, <1>6
<1>7. CASE \E s \in Scenes, r \in Requests : DeleteRoomReq(s, r)
  BY <1>3, <1>7
<1>8. CASE \E s \in Scenes, n \in Names : ReRequest(s, n)
  BY <1>4, <1>8
<1> QED BY <1>5, <1>6, <1>7, <1>8 DEF Call

(* Requests change where they are visited and where they are asked for.    *)
LEMMA ReqElsewhere ==
  ASSUME InQueue, Next
  PROVE  req' = req \/ (\E r \in Requests : Management(r)) \/ Call
  BY InPass, InOverlap DEF Next, FrameStep, PassEnds, PassSteps

(* Every step leaves one change at most: the overlap is granted to one.    *)
LEMMA OneChangeStep ==
  ASSUME TypeOK, SceneAssumption, ReqShape, InQueue, OverlapOK, ChangeOK, OneChange, Next
  PROVE  OneChange'
<1> USE DEF Changing
<1>1. CASE req' = req
  BY <1>1 DEF OneChange
<1>2. ASSUME NEW r \in Requests, Management(r) PROVE OneChange'
  <2>1. \A x \in Requests : x # r => req'[x] = req[x]
    BY <1>2, ReqInManagement
  <2>2. req'[r].kind \in {req[r].kind, "none"}
    <3>0. req[r] \in ReqRecord
      BY ReqTyped
    <3>1. CASE CreateNode(r)
      <4>1. PICK s : req' = [req EXCEPT ![r].creating = s, ![r].id = @ + 1]
        BY <3>1 DEF CreateNode
      <4>2. req'[r] = [req[r] EXCEPT !.creating = s, !.id = req[r].id + 1]
        BY <4>1, CreatesIs
      <4> QED BY <3>0, <4>2 DEF ReqRecord
    <3>2. CASE req'[r] = [req[r] EXCEPT !.id = req[r].id + 1]
      BY <3>0, <3>2 DEF ReqRecord
    <3>3. CASE req'[r] = NoReq
      BY <3>3 DEF NoReq
    <3> QED BY <1>2, <3>1, <3>2, <3>3, ReqInManagement
  <2> QED BY <2>1, <2>2 DEF OneChange
<1>3. CASE Call
  <2>1. CASE \A x \in Requests : req'[x].kind = req[x].kind
    BY <2>1 DEF OneChange
  <2>2. ASSUME NEW r \in Requests, \A x \in Requests : x # r => req'[x] = req[x],
               (\E s \in Scenes, n \in Names : ChangeReq(s, r, n)) \/ req'[r].kind # "change"
        PROVE  OneChange'
    <3>1. CASE \E s \in Scenes, n \in Names : ChangeReq(s, r, n)
      <4>1. ~ov.busy
        BY <3>1 DEF ChangeReq, OverlapGranted
      <4>2. \A x \in Requests : req[x].kind # "change"
        BY <4>1 DEF ChangeOK
      <4> QED BY <2>2, <4>2 DEF OneChange
    <3>2. CASE req'[r].kind # "change"
      BY <2>2, <3>2 DEF OneChange
    <3> QED BY <2>2, <3>1, <3>2
  <2> QED BY <1>3, <2>1, <2>2, ReqInCall
<1> QED BY <1>1, <1>2, <1>3, ReqElsewhere

-----------------------------------------------------------------------------
(* Requests and the stages they work on.                                   *)

(* A stage that is there, or is being made, stays, but for a failure.      *)
LEMMA StagesInPass ==
  ASSUME TypeOK, SceneAssumption, InQueue, LayersOK, NEW p \in Procs, PassSteps(p),
         NEW s \in Stages
  PROVE  /\ life'[s] # "waiting"
         /\ life[s] \in {"requested", "running"} => life'[s] \in {"requested", "running"} \/ (s = p /\ SceneFails(s))
<1>0. /\ life \in [Procs -> LifeStates] /\ s \in Procs /\ life[s] # "waiting" /\ s \notin Rooms
      /\ s \notin Fades
  BY Disjoint DEF TypeOK, LifeStates, Procs, Scenes, LayersOK
<1>1. CASE Freed(p)
  BY <1>0, <1>1 DEF Freed, Visits, InQueue
<1>2. CASE StageCreated(p)
  BY <1>0, <1>2 DEF StageCreated
<1>3. CASE RoomCreated(p) \/ FadeCreated(p) \/ FadeFails(p)
  BY <1>0, <1>3 DEF RoomCreated, FadeCreated, FadeFails
<1>4. CASE SceneFails(p)
  BY <1>0, <1>4 DEF SceneFails
<1>5. CASE ~Freed(p) /\ ~StageCreated(p) /\ ~RoomCreated(p) /\ ~SceneFails(p) /\ ~FadeCreated(p) /\ ~FadeFails(p)
  <2>1. life' = life
    BY <1>5 DEF PassSteps, DeleteWaits, CreatePass, CreateWaits,
              ExecutePass, FadeInNotReady, FadeIn, FadeWait, FadeOut, SceneExecuted, FadeExecutes
  <2> QED BY <1>0, <2>1
<1> QED BY <1>1, <1>2, <1>3, <1>4, <1>5

(* The passes leave every request the stage it works on.                   *)
LEMMA LayersOKInPass ==
  ASSUME TypeOK, SceneAssumption, ReqShape, InQueue, LayersOK, NEW p \in Procs, PassSteps(p)
  PROVE  LayersOK'
<1>0. req' = req /\ failed \subseteq failed'
  BY InPass, FadesInPass
<1>1. ASSUME NEW r \in Requests, req[r].layer # None
      PROVE  life'[req[r].layer] \in {"requested", "running"}
  <2>1. req[r].layer \in Stages /\ Active(r)
    BY <1>1 DEF TypeOK, ReqShape, RequestOK, Active
  <2>2. life[req[r].layer] \in {"requested", "running"}
    BY <1>1 DEF LayersOK
  <2>3. ~SceneFails(req[r].layer)
    BY <2>1 DEF SceneFails, CreatingUnder
  <2> QED BY <2>1, <2>2, <2>3, StagesInPass
<1>2. ASSUME NEW r \in Requests, Changing(r), req[r].creating # None
      PROVE  life'[req[r].creating] \in {"requested", "running"} \/ "scene" \in failed'
  <2>1. req[r].creating \in Stages
    BY <1>2 DEF ReqShape, RequestOK
  <2>2. life[req[r].creating] \in {"requested", "running"} \/ "scene" \in failed
    BY <1>2 DEF LayersOK
  <2>3. SceneFails(req[r].creating) => "scene" \in failed'
    BY <2>1 DEF SceneFails, Failing
  <2> QED BY <1>0, <2>1, <2>2, <2>3, StagesInPass
<1>3. \A s \in Stages : life'[s] # "waiting"
  BY StagesInPass
<1> QED BY <1>0, <1>1, <1>2, <1>3 DEF LayersOK, Changing

(* The requests' scenes keep their lives and no request took others.       *)
LEMMA LayersOKKept ==
  ASSUME TypeOK, ReqShape, LayersOK, \A s \in Stages : life'[s] = life[s],
         failed \subseteq failed',
         \A x \in Requests : /\ req'[x].layer # None => req'[x].layer = req[x].layer
                             /\ Changing(x)' /\ req'[x].creating # None => Changing(x) /\ req'[x].creating = req[x].creating
  PROVE  LayersOK'
<1>1. \A x \in Requests : req[x].layer # None => req[x].layer \in Stages
  BY DEF TypeOK
<1>2. \A x \in Requests : Changing(x) /\ req[x].creating # None => req[x].creating \in Stages
  BY DEF ReqShape, RequestOK
<1> QED BY <1>1, <1>2 DEF LayersOK

(* So do the visits to the requests: a stage that is being made below, or  *)
(* that makes, is not deleted.                                             *)
LEMMA LayersOKInManagement ==
  ASSUME TypeOK, SceneAssumption, ReqShape, InQueue, OverlapOK, ChangeOK, OneChange, LayersOK,
         NEW r \in Requests, Management(r)
  PROVE  LayersOK'
<1> USE DEF Changing
<1>0. /\ req \in [Requests -> ReqRecord] /\ req[r] \in ReqRecord /\ failed \subseteq failed'
      /\ \A x \in Requests : x # r => req'[x] = req[x]
  BY ReqTyped, FadesInManagement, ReqInManagement
<1>1. CASE CreateNode(r)
  <2>1. PICK s \in Scenes :
           /\ life[s] = "free"
           /\ \A p \in Procs : life'[p] = IF p = s THEN "requested" ELSE life[p]
           /\ req'[r] = [req[r] EXCEPT !.creating = s, !.id = req[r].id + 1]
    BY <1>1, NodeCreated
  <2>2. req'[r].layer = req[r].layer /\ req'[r].kind = req[r].kind /\ req'[r].creating = s
    BY <1>0, <2>1 DEF ReqRecord
  <2>3. \A x \in Requests : req'[x].layer = req[x].layer /\ (req[x].layer # None => req[x].layer \in Stages /\ life'[req[x].layer] = life[req[x].layer])
    <3>1. \A x \in Requests : req'[x].layer = req[x].layer
      BY <1>0, <2>2
    <3>2. \A x \in Requests : req[x].layer # None => req[x].layer \in Procs /\ req[x].layer \in Stages
      BY DEF TypeOK, Procs, Scenes
    <3>3. \A x \in Requests : req[x].layer # None => req[x].layer # s
      BY <2>1 DEF LayersOK
    <3> QED BY <2>1, <3>1, <3>2, <3>3
  <2>4. \A t \in Stages : life'[t] # "waiting"
    BY <2>1 DEF LayersOK, Procs, Scenes
  <2>5. ASSUME NEW x \in Requests, Changing(x)', req'[x].creating # None
        PROVE  life'[req'[x].creating] \in {"requested", "running"} \/ "scene" \in failed'
    <3>1. CASE x = r
      BY <2>1, <2>2, <3>1 DEF Procs
    <3>2. CASE x # r
      <4>1. req[x].creating \in Stages /\ (life[req[x].creating] \in {"requested", "running"} \/ "scene" \in failed)
        BY <1>0, <2>5, <3>2 DEF ReqShape, RequestOK, LayersOK
      <4>2. req[x].creating \in Procs
        BY <4>1 DEF Procs, Scenes
      <4> QED BY <1>0, <2>1, <3>2, <4>1, <4>2
    <3> QED BY <3>1, <3>2
  <2>6. \A x \in Requests : req'[x].layer # None => life'[req'[x].layer] \in {"requested", "running"}
    BY <2>3 DEF LayersOK
  <2> QED BY <2>4, <2>5, <2>6 DEF LayersOK
<1>2. CASE DeleteNode(r) /\ Deletable(req[r].node)
  <2>1. /\ ~CreatingUnder(req[r].node) /\ req[r].node \in Scenes
        /\ \A p \in Procs : life'[p] = IF p \in Below(req[r].node) THEN "dying" ELSE life[p]
        /\ (req[r].kind = "change" /\ req[r].creating = None /\ req[r].node \in Stages)
           \/ (req[r].kind = "delete" /\ req[r].node \in Rooms)
    BY <1>2, NodeDeleted
  <2>2. \A s \in Stages : life'[s] = IF s = req[r].node THEN "dying" ELSE life[s]
    BY <2>1, Disjoint DEF Below, Procs, Scenes
  <2>3. req' = req \/ req'[r] = [req[r] EXCEPT !.id = req[r].id + 1]
    BY <1>0, <1>2, NodeDeleted, AdvancedIs
  <2>4. \A x \in Requests : req'[x].layer = req[x].layer /\ req'[x].creating = req[x].creating /\ req'[x].kind = req[x].kind
    BY <1>0, <2>3 DEF ReqRecord
  <2>5. \A x \in Requests : req[x].layer # None => req[x].layer \in Stages /\ req[x].layer # req[r].node
    <3>1. \A x \in Requests : req[x].layer # None => req[x].layer \in Stages /\ Active(x)
      BY DEF TypeOK, ReqShape, RequestOK, Active
    <3> QED BY <2>1, <3>1 DEF CreatingUnder
  <2>6. \A x \in Requests : Changing(x) /\ req[x].creating # None => req[x].creating \in Stages /\ req[x].creating # req[r].node
    <3> SUFFICES ASSUME NEW x \in Requests, Changing(x), req[x].creating # None
                 PROVE  req[x].creating \in Stages /\ req[x].creating # req[r].node
      OBVIOUS
    <3>1. req[x].creating \in Stages
      BY DEF ReqShape, RequestOK
    <3>2. req[r].kind # "change"
      BY <2>1 DEF OneChange
    <3> QED BY <2>1, <3>1, <3>2, Disjoint
  <2>7. \A s \in Stages : life'[s] # "waiting"
    BY <2>2 DEF LayersOK
  <2>8. \A x \in Requests : req'[x].layer # None => life'[req'[x].layer] \in {"requested", "running"}
    BY <2>2, <2>4, <2>5 DEF LayersOK
  <2>9. \A x \in Requests : Changing(x)' /\ req'[x].creating # None =>
           life'[req'[x].creating] \in {"requested", "running"} \/ "scene" \in failed'
    BY <1>0, <2>2, <2>4, <2>6 DEF LayersOK
  <2> QED BY <2>7, <2>8, <2>9 DEF LayersOK
<1>3. CASE ~CreateNode(r) /\ ~(DeleteNode(r) /\ Deletable(req[r].node))
  <2>1. \A s \in Stages : life'[s] = life[s]
    BY <1>3, ScenesInManagement DEF Scenes
  <2>2. req'[r] = req[r] \/ req'[r] = NoReq \/ req'[r] = [req[r] EXCEPT !.id = req[r].id + 1]
    BY <1>3, ReqInManagement
  <2>3. CASE req'[r] = NoReq
    <3>1. req'[r].layer = None /\ req'[r].creating = None
      BY <2>3 DEF NoReq
    <3> QED BY <1>0, <2>1, <3>1, LayersOKKept
  <2>4. CASE req'[r] # NoReq
    <3>1. /\ req'[r].layer = req[r].layer /\ req'[r].creating = req[r].creating
          /\ req'[r].kind = req[r].kind
      BY <1>0, <2>2, <2>4 DEF ReqRecord
    <3>2. \A x \in Requests : req'[x].layer = req[x].layer /\ req'[x].creating = req[x].creating /\ req'[x].kind = req[x].kind
      BY <1>0, <3>1
    <3> QED BY <1>0, <2>1, <3>2, LayersOKKept
  <2> QED BY <2>3, <2>4
<1> QED BY <1>1, <1>2, <1>3

(* And the calls: a scene asks for rooms while it is there.                *)
LEMMA LayersOKInCall ==
  ASSUME TypeOK, SceneAssumption, ReqShape, InQueue, RoomsOK, LayersOK, Call
  PROVE  LayersOK'
<1>0. life' = life /\ failed' = failed
  BY InCall
<1>1. CASE \E s \in Scenes, n \in Names : ReRequest(s, n)
  <2>1. PICK s \in Scenes, n \in Names : req' = [req EXCEPT ![scnRqID].name = n]
    BY <1>1 DEF ReRequest
  <2>2. \A x \in Requests : req'[x].layer = req[x].layer /\ req'[x].creating = req[x].creating /\ req'[x].kind = req[x].kind
    BY <2>1, ReqTyped DEF ReqRecord
  <2> QED BY <1>0, <2>2, LayersOKKept DEF Changing
<1>2. ASSUME NEW r \in Requests, req'[r].creating = None,
             \A x \in Requests : x # r => req'[x] = req[x],
             req'[r].layer # None => life[req'[r].layer] \in {"requested", "running"}
      PROVE  LayersOK'
  <2>1. \A s \in Stages : life'[s] # "waiting"
    BY <1>0 DEF LayersOK
  <2>2. \A x \in Requests : req'[x].layer # None => life'[req'[x].layer] \in {"requested", "running"}
    BY <1>0, <1>2 DEF LayersOK
  <2>3. \A x \in Requests : Changing(x)' /\ req'[x].creating # None =>
           life'[req'[x].creating] \in {"requested", "running"} \/ "scene" \in failed'
    BY <1>0, <1>2 DEF LayersOK, Changing
  <2> QED BY <2>1, <2>2, <2>3 DEF LayersOK
<1>3. ASSUME NEW s \in Scenes, NEW r \in Requests, CreateRoomReq(s, r)
      PROVE  life[s] \in {"requested", "running"}
  BY <1>3 DEF CreateRoomReq, Executes, Visits, InQueue, Procs
<1>4. ASSUME NEW q \in Scenes, NEW r \in Requests, DeleteRoomReq(q, r)
      PROVE  life[parent[q]] \in {"requested", "running"}
  BY <1>4 DEF DeleteRoomReq, Executes, RoomsOK
<1>5. ASSUME ~\E s \in Scenes, n \in Names : ReRequest(s, n) PROVE LayersOK'
  <2>1. PICK r \in Requests :
              /\ req'[r].creating = None
              /\ \A x \in Requests : x # r => req'[x] = req[x]
              /\ \/ req'[r].layer = None
                 \/ \E s \in Scenes : CreateRoomReq(s, r) /\ req'[r].layer = s
                 \/ \E q \in Scenes : DeleteRoomReq(q, r) /\ req'[r].layer = parent[q]
    BY <1>5, ReqInCall
  <2>2. req'[r].layer # None => life[req'[r].layer] \in {"requested", "running"}
    BY <2>1, <1>3, <1>4
  <2> QED BY <1>2, <2>1, <2>2
<1> QED BY <1>1, <1>5

(* Every step leaves every request the stage it works on.                  *)
LEMMA LayersOKStep ==
  ASSUME TypeOK, SceneAssumption, ReqShape, InQueue, OverlapOK, ChangeOK, OneChange, RoomsOK,
         LayersOK, Next
  PROVE  LayersOK'
<1>1. CASE OverlapManagement
  BY <1>1, ScenesInOverlap, InOverlap, LayersOKKept DEF Scenes, Changing
<1>2. CASE PassEnds
  BY <1>2, LayersOKKept DEF PassEnds, Changing
<1> QED BY <1>1, <1>2, LayersOKInPass, LayersOKInManagement, LayersOKInCall DEF Next, FrameStep,
           PassSteps

-----------------------------------------------------------------------------
(* A change and its overlap.                                               *)

(* The messages can be told apart.                                         *)
LEMMA MessagesDiffer ==
  /\ DoneMsg.flag1 = 1 /\ Command(1).flag1 = 0 /\ Command(2).flag1 = 0 /\ Quiet.flag1 = 0
  /\ DoneMsg.flag2 = 0 /\ Command(1).flag2 = 1 /\ Command(2).flag2 = 2 /\ Quiet.flag2 = 0
  /\ Collected(DoneMsg) = Quiet
  BY DEF DoneMsg, Command, Quiet, Collected

(* Steps that touch neither requests nor the overlap.                      *)
LEMMA ChangeOKInPass ==
  ASSUME InQueue, ChangeOK, NEW p \in Procs, PassSteps(p)
  PROVE  ChangeOK'
<1>1. pass \in {"delete", "create", "execute"} /\ pass' = pass /\ req' = req /\ ov' = ov
  BY InPass
<1> SUFFICES ASSUME NEW r \in Requests, Changing(r),
                    ov.busy /\ (IF ov.used THEN Together(r) ELSE req[r].id \in 1..2)
             PROVE  ov.used => Together(r)'
  BY <1>1 DEF ChangeOK, Changing
<1> QED BY <1>1 DEF Together, Expected

(* The overlap's word waits for the next pass of the scenes.               *)
LEMMA ChangeOKInPassEnds ==
  ASSUME TypeOK, SceneAssumption, ChangeOK, PassEnds PROVE ChangeOK'
<1>1. /\ todo = {} /\ current = None /\ pass \in DOMAIN NextPass /\ pass' = NextPass[pass]
      /\ todo' = Queue(pass)'
      /\ req' = req /\ ov' = ov
  BY DEF PassEnds, Queue
<1> SUFFICES ASSUME NEW r \in Requests, Changing(r),
                    ov.busy /\ (IF ov.used THEN Together(r) ELSE req[r].id \in 1..2)
             PROVE  ov.used => Together(r)'
  BY <1>1 DEF ChangeOK, Changing
<1>2. Expected(r) => Expected(r)'
  <2>1. ASSUME Expected(r) PROVE pass # "scenes"
    BY <1>1, <2>1, SceneAssumption DEF Expected
  <2>2. pass # "scenes" => pass' # "overlap"
    BY <1>1 DEF NextPass
  <2>3. pass' = "scenes" => r \in todo'
    BY <1>1 DEF Queue, Active, Changing
  <2> QED BY <2>1, <2>2, <2>3 DEF Expected
<1>3. req[r].id = 9 => ~ov.used
  BY <1>1, SceneAssumption DEF Together
<1> QED BY <1>1, <1>2, <1>3 DEF Together

(* The overlap's phases answer the change's.                               *)
LEMMA ChangeOKInOverlap ==
  ASSUME TypeOK, ReqShape, OverlapOK, ChangeOK, OverlapManagement PROVE ChangeOK'
<1>0. ov \in OvRecord /\ pass = "overlap" /\ req' = req
  BY InOverlap DEF TypeOK, OvRecord
<1> SUFFICES ASSUME NEW r \in Requests, Changing(r),
                    ov.busy /\ (IF ov.used THEN Together(r) ELSE req[r].id \in 1..2)
             PROVE  ov'.busy /\ (IF ov'.used THEN Together(r)' ELSE req[r].id \in 1..2)
  BY <1>0 DEF ChangeOK, Changing
<1>1. ov.used => /\ req[r].id \in 1..2 => (ov.id \in 1..3 /\ ov.base = Command(1)) \/ (ov.id = 4 /\ ov.base = DoneMsg)
                 /\ req[r].id \in 3..7 => ov.id = 4 /\ ov.base = Quiet
                 /\ req[r].id = 8 => \/ ov.id \in 4..5 /\ ov.base = Command(2)
                                     \/ ov.id = 6 /\ ov.linger = 1 /\ ov.base = Command(2)
                 /\ req[r].id # 9
  BY <1>0 DEF Together, Expected
<1>2. req[r].id \in 1..9
  BY DEF ReqShape, RequestOK
<1>3. CASE ov' = ov
  BY <1>0, <1>1, <1>3 DEF Together
<1>4. CASE OverlapIdle
  BY <1>3, <1>4 DEF OverlapIdle
<1>5. CASE OverlapCreate
  <2>1. ov.used /\ ov.id = 1 BY <1>5, OverlapPhases DEF OverlapCreate, AtOverlap
  <2>2. PICK f \in Fades : ov' = [ov EXCEPT !.proc = f, !.id = @ + 1]
    BY <1>5 DEF OverlapCreate
  <2>3. ov'.used /\ ov'.id = 2 /\ ov'.base = ov.base /\ ov'.busy
    BY <1>0, <2>1, <2>2 DEF OvRecord
  <2> QED BY <1>0, <1>1, <1>2, <2>1, <2>3 DEF Together
<1>6. CASE OverlapIsCreated
  <2>1. ov.used /\ ov.id = 2 BY <1>6, OverlapPhases DEF OverlapIsCreated, AtOverlap
  <2>2. ov' = ov \/ ov' = [ov EXCEPT !.task = ov.proc, !.id = 3] \/ ov' = [ov EXCEPT !.used = FALSE, !.proc = None]
    BY <1>6, <2>1 DEF OverlapIsCreated
  <2>3. ov' = ov \/ (ov'.used /\ ov'.id = 3 /\ ov'.base = ov.base /\ ov'.busy) \/ (~ov'.used /\ ov'.busy)
    BY <1>0, <2>1, <2>2 DEF OvRecord
  <2> QED BY <1>0, <1>1, <1>2, <1>3, <2>1, <2>3 DEF Together
<1>7. CASE OverlapIsComplete
  <2>1. ov.used /\ ov.id = 3 BY <1>7, OverlapPhases DEF OverlapIsComplete, AtOverlap
  <2>2. ov' = ov \/ ov' = [ov EXCEPT !.base = DoneMsg, !.id = 4]
    BY <1>7, <2>1 DEF OverlapIsComplete
  <2>3. ov' = ov \/ (ov'.used /\ ov'.id = 4 /\ ov'.base = DoneMsg /\ ov'.busy)
    BY <1>0, <2>1, <2>2 DEF OvRecord
  <2> QED BY <1>0, <1>1, <1>2, <1>3, <2>1, <2>3 DEF Together
<1>8. CASE OverlapWaitOfFadeout
  <2>1. ov.used /\ ov.id = 4 BY <1>8, OverlapPhases DEF OverlapWaitOfFadeout, AtOverlap
  <2> DEFINE n == IF ov.peektime = 0 THEN 0 ELSE ov.peektime - 1
  <2>2. \/ ov.base.flag2 = 2 /\ ov' = [ov EXCEPT !.peektime = n, !.id = 5]
        \/ ov' = [ov EXCEPT !.peektime = n, !.peek = TRUE]
    BY <1>8, <2>1 DEF OverlapWaitOfFadeout
  <2> HIDE DEF n
  <2>3. /\ ov'.used /\ ov'.base = ov.base /\ ov'.busy /\ ov'.linger = ov.linger
        /\ ov'.id = 4 \/ (ov'.id = 5 /\ ov.base.flag2 = 2)
    BY <1>0, <2>1, <2>2 DEF OvRecord
  <2>4. ov.base.flag2 = 2 => ov.base # DoneMsg /\ ov.base # Quiet
    BY MessagesDiffer
  <2> QED BY <1>0, <1>1, <1>2, <2>1, <2>3, <2>4 DEF Together
<1>9. CASE OverlapIsWaitOfFadeout
  <2>1. ov.used /\ ov.id = 5 /\ ov.linger = 1
    BY <1>9, OverlapPhases DEF OverlapIsWaitOfFadeout, AtOverlap, OverlapOK
  <2>2. ov' = ov \/ ov' = [ov EXCEPT !.peek = FALSE, !.id = 6]
    BY <1>9, <2>1 DEF OverlapIsWaitOfFadeout
  <2>3. ov' = ov \/ (ov'.used /\ ov'.id = 6 /\ ov'.base = ov.base /\ ov'.busy /\ ov'.linger = 1)
    BY <1>0, <2>1, <2>2 DEF OvRecord
  <2> QED BY <1>0, <1>1, <1>2, <1>3, <2>1, <2>3 DEF Together
<1>10. CASE OverlapIsDone
  <2>1. ov.used /\ ov.id = 6 BY <1>10, OverlapPhases DEF OverlapIsDone, AtOverlap
  <2>2. req[r].id = 8 /\ ov.linger = 1
    BY <1>1, <1>2, <2>1
  <2>3. ov' = [ov EXCEPT !.base = DoneMsg, !.linger = 0, !.id = 6] /\ pass' = "between"
    BY <1>10, <2>1, <2>2 DEF OverlapIsDone, Lingers, FrameEnds
  <2>4. ov'.used /\ ov'.id = 6 /\ ov'.base = DoneMsg /\ ov'.busy /\ ov'.linger = 0
    BY <1>0, <2>1, <2>3 DEF OvRecord
  <2> QED BY <1>0, <2>2, <2>3, <2>4 DEF Together, Expected
<1>11. CASE OverlapDone
  <2>1. ov.used /\ ov.id = 7 BY <1>11, OverlapPhases DEF OverlapDone, AtOverlap
  <2> QED BY <1>1, <1>2, <2>1
<1> QED BY <1>4, <1>5, <1>6, <1>7, <1>8, <1>9, <1>10, <1>11 DEF OverlapManagement

(* A step of another request leaves a change what the overlap makes of it. *)
LEMMA OtherRequest ==
  ASSUME TypeOK, SceneAssumption, ReqShape, OverlapOK, ChangeOK, OneChange, NEW r \in Requests,
         Management(r),
         NEW x \in Requests, x # r, Changing(x)
  PROVE  /\ req'[x] = req[x] /\ ov' = ov /\ pass = "scenes" /\ pass' = pass
         /\ Expected(x) => Expected(x)'
         /\ current # x
<1>0. ~Changing(r) /\ req'[x] = req[x] /\ pass = "scenes" /\ pass' = pass
  BY ReqInManagement, InManagement DEF OneChange
<1>1. ov' = ov
  <2>2. ~IsDoneOverlap(r) /\ ~ClearOverlap(r)
    BY <1>0, Phases DEF IsDoneOverlap, ClearOverlap, InPhase
  <2>3. Cancelled(r) => ov' = ov
    BY <1>0 DEF Cancelled
  <2> QED BY <2>2, <2>3 DEF Management, RequestVisited, IsDoingOverlap, DeleteNode, IsDeleted,
             CreateNode,
        CreateNodeFails, IsCreated, RequestDone
<1>2. (current = None \/ current = r) /\ todo \ {r} \subseteq todo'
  <2>1. Cancelled(r) => todo' = todo
    BY <1>0 DEF Cancelled
  <2> QED BY <2>1 DEF Management, RequestVisited, IsDoingOverlap, IsDoneOverlap, DeleteNode,
             IsDeleted, CreateNode,
        CreateNodeFails, IsCreated, ClearOverlap, RequestDone, InPhase, Advanced, Blocked
<1>3. current # x
  BY <1>2, SceneAssumption
<1> QED BY <1>0, <1>1, <1>2, <1>3 DEF Expected

(* The change's phases answer the overlap's.                               *)
LEMMA ChangeOKInManagement ==
  ASSUME TypeOK, SceneAssumption, ReqShape, OverlapOK, ChangeOK, OneChange, NEW r \in Requests,
         Management(r)
  PROVE  ChangeOK'
<1>0. /\ ov \in OvRecord /\ req \in [Requests -> ReqRecord] /\ req[r] \in ReqRecord
      /\ pass = "scenes" /\ pass' = pass
  BY InManagement, ReqTyped DEF TypeOK, OvRecord
<1> SUFFICES ASSUME NEW x \in Requests, Changing(x)'
             PROVE  ov'.busy /\ (IF ov'.used THEN Together(x)' ELSE req'[x].id \in 1..2)
  BY DEF ChangeOK
<1>1. CASE x # r
  <2>0. Changing(x)
    BY <1>1, ReqInManagement DEF Changing
  <2>1. /\ req'[x] = req[x] /\ ov' = ov /\ pass = "scenes" /\ pass' = pass
        /\ Expected(x) => Expected(x)'
        /\ current # x
    BY <1>1, <2>0, OtherRequest
  <2>2. ov.busy /\ (IF ov.used THEN Together(x) ELSE req[x].id \in 1..2)
    BY <2>0 DEF ChangeOK
  <2> QED BY <2>1, <2>2 DEF Together
<1>2. CASE x = r
  <2>0. Changing(r)' BY <1>2
  <2> DEFINE Goal == ov'.busy /\ (IF ov'.used THEN Together(r)' ELSE req'[r].id \in 1..2)
  <2>a. req'[r] # NoReq
    BY <2>0 DEF NoReq, Changing
  <2>b. ~Drops(r)
    BY <1>0, <2>a, DroppedIs DEF Drops
  <2>1. CASE RequestVisited(r)
    <3>1. req' = req /\ current' = r /\ ov' = ov /\ current = None
      BY <2>1, <2>b DEF RequestVisited, Drops
    <3>2. ov.busy /\ (IF ov.used THEN Together(r) ELSE req[r].id \in 1..2)
      BY <2>0, <3>1 DEF ChangeOK, Changing
    <3> QED BY <1>0, <1>2, <3>1, <3>2, SceneAssumption DEF Together, Expected
  <2>2. CASE IsDoingOverlap(r)
    <3>1. Changing(r) /\ req[r].id = 1 /\ ov' = ov
      BY <2>2, Phases DEF IsDoingOverlap, InPhase
    <3>2. ov.busy /\ (IF ov.used THEN Together(r) ELSE req[r].id \in 1..2)
      BY <3>1 DEF ChangeOK
    <3>3. req' = req \/ (ov.used /\ req'[r] = [req[r] EXCEPT !.id = req[r].id + 1])
      BY <1>0, <2>2, AdvancedIs DEF IsDoingOverlap, Blocked
    <3>4. req'[r].id = 1 \/ (ov.used /\ req'[r].id = 2)
      BY <1>0, <3>1, <3>3 DEF ReqRecord
    <3> QED BY <1>2, <3>1, <3>2, <3>4 DEF Together
  <2>3. CASE IsDoneOverlap(r)
    <3>1. Changing(r) /\ req[r].id \in {2, 8} /\ current = r
      BY <2>3, Phases DEF IsDoneOverlap, InPhase
    <3>2. ov.busy /\ (IF ov.used THEN Together(r) ELSE req[r].id \in 1..2)
      BY <3>1 DEF ChangeOK
    <3>3. CASE ov.used /\ ov.base.flag1 = 1
      <4>1. Advanced(r) /\ ov' = [ov EXCEPT !.base = Collected(@)]
        BY <2>3, <3>3 DEF IsDoneOverlap
      <4>2. current' = r /\ req'[r] = [req[r] EXCEPT !.id = req[r].id + 1]
        BY <1>0, <3>1, <4>1, AdvancedIs
      <4>3. req'[r].id = req[r].id + 1
        BY <1>0, <4>2 DEF ReqRecord
      <4>4. /\ ov'.used /\ ov'.busy /\ ov'.id = ov.id /\ ov'.linger = ov.linger
            /\ ov'.base = Collected(ov.base)
        BY <1>0, <3>2, <3>3, <4>1 DEF OvRecord
      <4>5. ov.base # Command(1) /\ ov.base # Command(2) /\ ov.base # Quiet
        BY <3>3, MessagesDiffer
      <4>6. IF req[r].id = 2 THEN ov.id = 4 /\ ov.base = DoneMsg ELSE ov.id = 6 /\ ov.linger = 0 /\ ov.base = DoneMsg
        BY <3>1, <3>2, <3>3, <4>5 DEF Together
      <4> QED BY <1>0, <1>2, <3>1, <4>2, <4>3, <4>4, <4>6, MessagesDiffer DEF Together
    <3>4. CASE ~(ov.used /\ ov.base.flag1 = 1)
      <4>1. req' = req /\ ov' = ov
        BY <2>3, <3>4 DEF IsDoneOverlap, Blocked
      <4>2. ov.used => ov.base # DoneMsg
        BY <3>4, MessagesDiffer
      <4> QED BY <1>2, <3>1, <3>2, <4>1, <4>2 DEF Together
    <3> QED BY <3>3, <3>4
  <2>4. CASE DeleteNode(r) \/ IsDeleted(r) \/ (IsCreated(r) /\ ~Cancelled(r))
    <3>1. req'[r].kind = req[r].kind /\ req'[r].id \in {req[r].id, req[r].id + 1} /\ ov' = ov
      <4>1. Advanced(r) \/ req' = req
        BY <2>4 DEF DeleteNode, IsDeleted, IsCreated, Blocked
      <4>2. ov' = ov
        BY <2>4 DEF DeleteNode, IsDeleted, IsCreated
      <4>3. req'[r] = [req[r] EXCEPT !.id = req[r].id + 1] \/ req'[r] = req[r]
        BY <1>0, <4>1, AdvancedIs
      <4> QED BY <1>0, <4>2, <4>3 DEF ReqRecord
    <3>2. Changing(r) /\ req[r].id \in {3, 4, 6}
      BY <2>0, <2>4, <3>1, Phases DEF DeleteNode, IsDeleted, IsCreated, InPhase, Changing
    <3>3. ov.busy /\ ov.used /\ Together(r)
      BY <3>2 DEF ChangeOK
    <3> QED BY <1>2, <3>1, <3>2, <3>3 DEF Together
  <2>5. CASE CreateNode(r)
    <3>1. PICK s \in Scenes : req'[r] = [req[r] EXCEPT !.creating = s, !.id = req[r].id + 1] /\ ov' = ov
      BY <2>5, NodeCreated
    <3>2. req'[r].kind = req[r].kind /\ req'[r].id = req[r].id + 1
      BY <1>0, <3>1 DEF ReqRecord
    <3>3. Changing(r) /\ req[r].id = 5
      BY <2>0, <2>5, <3>2, Phases DEF CreateNode, InPhase, Changing
    <3>4. ov.busy /\ ov.used /\ Together(r)
      BY <3>3 DEF ChangeOK
    <3> QED BY <1>2, <3>1, <3>2, <3>3, <3>4 DEF Together
  <2>6. CASE (CreateNodeFails(r) \/ IsCreated(r)) /\ Cancelled(r)
    <3>1. Changing(r) => req[r].id \in 5..6
      BY <2>6, Phases DEF CreateNodeFails, IsCreated, InPhase, Changing
    <3> QED BY <2>6, <2>b, <3>1, CancelledIs DEF Drops
  <2>7. CASE ClearOverlap(r)
    <3>1. Changing(r) /\ req[r].id = 7
      BY <2>7, Phases DEF ClearOverlap, InPhase
    <3>2. ov.busy /\ ov.used /\ Together(r)
      BY <3>1 DEF ChangeOK
    <3>3. CASE ov.used /\ MayClear
      <4>1. Advanced(r) /\ ov' = [ov EXCEPT !.base = Command(2)]
        BY <2>7, <3>3 DEF ClearOverlap
      <4>2. req'[r] = [req[r] EXCEPT !.id = req[r].id + 1]
        BY <1>0, <4>1, AdvancedIs
      <4>3. req'[r].id = 8
        BY <1>0, <3>1, <4>2 DEF ReqRecord
      <4>4. ov'.used /\ ov'.busy /\ ov'.id = ov.id /\ ov'.base = Command(2)
        BY <1>0, <3>2, <3>3, <4>1 DEF OvRecord
      <4> QED BY <1>2, <3>1, <3>2, <4>3, <4>4 DEF Together
    <3>4. CASE ~(ov.used /\ MayClear)
      <4>1. req' = req /\ ov' = ov
        BY <2>7, <3>4 DEF ClearOverlap, Blocked
      <4> QED BY <1>2, <3>1, <3>2, <4>1 DEF Together
    <3> QED BY <3>3, <3>4
  <2>8. CASE RequestDone(r)
    BY <2>8, <2>b DEF RequestDone, Drops
  <2> QED BY <2>1, <2>2, <2>3, <2>4, <2>5, <2>6, <2>7, <2>8 DEF Management, CreateNodeFails
<1> QED BY <1>1, <1>2

(* A change begins with an overlap in its first phase.                     *)
LEMMA ChangeOKInCall ==
  ASSUME TypeOK, SceneAssumption, ChangeOK, Call PROVE ChangeOK'
<1>0. UNCHANGED <<pass, todo, current>>
  BY InCall
<1>1. ASSUME NEW s \in Scenes, NEW r \in Requests, NEW n \in Names, ChangeReq(s, r, n)
      PROVE  ChangeOK'
  <2>1. ov' = [used |-> TRUE, busy |-> TRUE, id |-> 1, task |-> None, proc |-> None,
               peek |-> FALSE, peektime |-> Peek, linger |-> 1, base |-> Command(1)]
    BY <1>1 DEF ChangeReq, NoOverlap
  <2>2. req'[r].id = 1 /\ \A x \in Requests : x # r => req'[x] = req[x]
    BY <1>1, ReqTyped DEF ChangeReq, Queued
  <2>3. \A x \in Requests : ~Changing(x)
    BY <1>1 DEF ChangeReq, OverlapGranted, ChangeOK
  <2> QED BY <2>1, <2>2, <2>3 DEF ChangeOK, Together, Changing
<1>2. ASSUME UNCHANGED ov,
             \A x \in Requests : Changing(x)' => Changing(x) /\ req'[x].id = req[x].id
      PROVE  ChangeOK'
  <2>1. SUFFICES ASSUME NEW x \in Requests, Changing(x), req'[x].id = req[x].id,
                        ov.busy /\ (IF ov.used THEN Together(x) ELSE req[x].id \in 1..2)
                 PROVE  ov.used => Together(x)'
    BY <1>2 DEF ChangeOK
  <2> QED BY <1>0, <1>2, <2>1 DEF Together, Expected
<1>3. ASSUME ~\E s \in Scenes, r \in Requests, n \in Names : ChangeReq(s, r, n) PROVE UNCHANGED ov
  BY <1>3 DEF Call, CreateRoomReq, DeleteRoomReq, ReRequest
<1>4. ASSUME ~\E s \in Scenes, r \in Requests, n \in Names : ChangeReq(s, r, n)
      PROVE \A x \in Requests : Changing(x)' => Changing(x) /\ req'[x].id = req[x].id
  BY <1>4, ReqInCall DEF Changing
<1> QED BY <1>1, <1>2, <1>3, <1>4

(* Every step leaves the change and its overlap together.                  *)
LEMMA ChangeOKStep ==
  ASSUME TypeOK, SceneAssumption, ReqShape, InQueue, OverlapOK, ChangeOK, OneChange, Next
  PROVE  ChangeOK'
BY ChangeOKInPass, ChangeOKInPassEnds, ChangeOKInOverlap, ChangeOKInManagement, ChangeOKInCall
   DEF Next, FrameStep, PassSteps

-----------------------------------------------------------------------------
(* The end of a change, the overlap's and the flag's.                      *)

(* How a change can end.                                                   *)
LEMMA ChangesInManagement ==
  ASSUME TypeOK, SceneAssumption, ReqShape, OverlapOK, ChangeOK, LayersOK, NEW r \in Requests,
         Management(r)
  PROVE  \/ \A x \in Requests : Changing(x) => Changing(x)' /\ (req'[x].creating = req[x].creating \/ CreateNode(x))
         \/ /\ Changing(r) /\ Cancelled(r) /\ "scene" \in failed' /\ ov' = Cleared /\ UNCHANGED sceneVars
            /\ req[r].creating # None => life[req[r].creating] \notin {"requested", "waiting", "running"}
         \/ Changing(r) /\ RequestDone(r) /\ req[r].id = 9
<1>0. /\ req[r] \in ReqRecord /\ \A x \in Requests : x # r => req'[x] = req[x]
  BY ReqTyped, ReqInManagement
<1>1. CASE CreateNode(r)
  <2>1. PICK s \in Scenes : req'[r] = [req[r] EXCEPT !.creating = s, !.id = req[r].id + 1]
    BY <1>1, NodeCreated
  <2>2. req'[r].kind = req[r].kind
    BY <1>0, <2>1 DEF ReqRecord
  <2> QED BY <1>0, <1>1, <2>2 DEF Changing
<1>2. CASE req'[r] = req[r] \/ req'[r] = [req[r] EXCEPT !.id = req[r].id + 1]
  <2>1. req'[r].kind = req[r].kind /\ req'[r].creating = req[r].creating
    BY <1>0, <1>2 DEF ReqRecord
  <2> QED BY <1>0, <2>1 DEF Changing
<1>3. CASE req'[r] = NoReq /\ ~CreateNode(r) /\ ~(req'[r] = req[r]) /\ ~(req'[r] = [req[r] EXCEPT !.id = req[r].id + 1])
  <2>1. CASE ~Changing(r)
    BY <1>0, <2>1 DEF Changing
  <2>2. CASE Changing(r) /\ Cancelled(r) /\ (CreateNodeFails(r) \/ IsCreated(r))
    <3>1. req[r].id \in 5..6 /\ (IsCreated(r) => req[r].id = 6) /\ (CreateNodeFails(r) => req[r].id = 5)
      BY <2>2, Phases DEF CreateNodeFails, IsCreated, InPhase, Changing
    <3>2. ov' = Cleared
      BY <2>2, <3>1, CancelledIs
    <3>3. CASE CreateNodeFails(r)
      <4>1. req[r].creating = None
        BY <2>2, <3>1, <3>3 DEF ReqShape, RequestOK
      <4> QED BY <2>2, <3>2, <3>3, <4>1 DEF CreateNodeFails
    <3>4. CASE IsCreated(r)
      <4>1. req[r].creating \in Stages /\ req[r].creating # None
        BY <2>2, <3>1, <3>4, Disjoint DEF ReqShape, RequestOK
      <4>2. req[r].id # req[r].id + 1
        BY <3>1
      <4>3. ~Blocked /\ ~Advanced(r)
        BY <1>3, AdvancedIs, ReqTyped DEF Blocked
      <4>4. life[req[r].creating] \notin {"requested", "waiting", "running"}
        BY <3>4, <4>3 DEF IsCreated
      <4>5. "scene" \in failed /\ failed' = failed /\ UNCHANGED sceneVars
        BY <2>2, <3>4, <4>1, <4>4 DEF LayersOK, IsCreated
      <4> QED BY <2>2, <3>2, <4>4, <4>5
    <3> QED BY <2>2, <3>3, <3>4
  <2>3. CASE Changing(r) /\ RequestDone(r)
    BY <2>3, Phases DEF RequestDone, InPhase, Changing
  <2>4. CASE Changing(r) /\ RequestVisited(r)
    BY <1>3, <2>4 DEF RequestVisited, ReqShape, RequestOK
  <2>5. CASE IsDoingOverlap(r) \/ IsDoneOverlap(r) \/ DeleteNode(r) \/ IsDeleted(r) \/ ClearOverlap(r) \/ (IsCreated(r) /\ ~Cancelled(r))
    <3>1. Advanced(r) \/ req' = req
      BY <2>5 DEF IsDoingOverlap, IsDoneOverlap, DeleteNode, IsDeleted, ClearOverlap, IsCreated,
         Blocked
    <3> QED BY <1>3, <3>1, AdvancedIs, ReqTyped
  <2> QED BY <1>3, <2>1, <2>2, <2>3, <2>4, <2>5 DEF Management, CreateNodeFails
<1> QED BY <1>1, <1>2, <1>3, ReqInManagement

(* A call ends no change.                                                  *)
LEMMA ChangesInCall ==
  ASSUME TypeOK, SceneAssumption, Call
  PROVE  /\ \A x \in Requests : Changing(x) => Changing(x)'
         /\ UNCHANGED <<ov, using>> \/ \E x \in Requests : Changing(x)'
<1>1. \A x \in Requests : Changing(x) => Changing(x)'
  BY ReqInCall DEF Changing
<1>2. ASSUME NEW s \in Scenes, NEW r \in Requests, NEW n \in Names, ChangeReq(s, r, n)
      PROVE  Changing(r)'
  BY <1>2, ReqTyped DEF ChangeReq, Queued, Changing
<1>3. UNCHANGED <<ov, using>> \/ \E s \in Scenes, r \in Requests, n \in Names : ChangeReq(s, r, n)
  BY DEF Call, CreateRoomReq, DeleteRoomReq, ReRequest
<1> QED BY <1>1, <1>2, <1>3

(* An overlap outlives its change only when it has nothing to do but go.   *)
LEMMA OverlapNeededStep ==
  ASSUME TypeOK, SceneAssumption, ReqShape, InQueue, OverlapOK, ChangeOK, LayersOK, OverlapNeeded,
         Next
  PROVE  OverlapNeeded'
<1>0. ov \in OvRecord
  BY DEF TypeOK, OvRecord
<1>1. CASE UNCHANGED <<req, ov>>
  BY <1>1 DEF OverlapNeeded, Changing
<1>2. ASSUME NEW r \in Requests, Management(r) PROVE OverlapNeeded'
  <2>0. ov' = Cleared \/ (ov'.used = ov.used /\ ov'.id = ov.id)
    <3>1. CASE \E m \in {Collected(ov.base), Command(2)} : ov' = [ov EXCEPT !.base = m]
      BY <1>0, <3>1 DEF OvRecord
    <3> QED BY <1>2, <3>1, FadesInManagement
  <2>1. ov' = Cleared => ~ov'.used
    BY <1>0 DEF Cleared, OvRecord
  <2>2. CASE \A x \in Requests : Changing(x) => Changing(x)'
    BY <2>0, <2>1, <2>2 DEF OverlapNeeded
  <2>3. CASE ov' = Cleared
    BY <2>1, <2>3 DEF OverlapNeeded
  <2>4. CASE Changing(r) /\ req[r].id = 9
    <3>1. ov.used => ov.id = 6
      BY <2>4 DEF ChangeOK, Together
    <3>2. CASE ov' = Cleared
      BY <2>1, <3>2 DEF OverlapNeeded
    <3>3. CASE ov'.used = ov.used /\ ov'.id = ov.id
      <4>1. ov'.used => ov'.id = 6
        BY <3>1, <3>3
      <4> QED BY <4>1 DEF OverlapNeeded
    <3> QED BY <2>0, <3>2, <3>3
  <2> QED BY <1>2, <2>2, <2>3, <2>4, ChangesInManagement
<1>3. CASE OverlapManagement
  <2>1. req' = req
    BY <1>3, InOverlap
  <2>2. ov'.used /\ ov'.id < 6 => ov.used /\ ov.id < 6
    <3>0. ov.used => ov.id \in 1..7
      BY DEF OverlapOK
    <3>1. CASE OverlapIdle \/ OverlapCreate \/ OverlapIsCreated \/ OverlapIsComplete
      <4>1. CASE OverlapCreate
        <5>1. ov.used /\ ov.id = 1 BY <4>1, OverlapPhases DEF OverlapCreate, AtOverlap
        <5> QED BY <5>1
      <4>2. CASE OverlapIsCreated
        <5>1. ov.used /\ ov.id = 2 BY <4>2, OverlapPhases DEF OverlapIsCreated, AtOverlap
        <5> QED BY <5>1
      <4>3. CASE OverlapIsComplete
        <5>1. ov.used /\ ov.id = 3 BY <4>3, OverlapPhases DEF OverlapIsComplete, AtOverlap
        <5> QED BY <5>1
      <4> QED BY <3>1, <4>1, <4>2, <4>3 DEF OverlapIdle
    <3>2. CASE OverlapWaitOfFadeout \/ OverlapIsWaitOfFadeout
      <4>1. ov.used /\ ov.id \in 4..5
        BY <3>2, OverlapPhases DEF OverlapWaitOfFadeout, OverlapIsWaitOfFadeout, AtOverlap
      <4> QED BY <4>1
    <3>3. CASE OverlapIsDone
      <4>1. ov.used /\ ov.id = 6 BY <3>3, OverlapPhases DEF OverlapIsDone, AtOverlap
      <4>2. ov' = [ov EXCEPT !.base = DoneMsg, !.linger = ov.linger - 1, !.id = IF ov.linger > 0 THEN 6 ELSE 7]
        BY <3>3, <4>1 DEF OverlapIsDone, Lingers
      <4>3. ov'.id \in {6, 7}
        BY <1>0, <4>2 DEF OvRecord
      <4> QED BY <4>3
    <3>4. CASE OverlapDone
      <4>1. ov' = ov \/ ov' = Cleared
        BY <3>4 DEF OverlapDone
      <4> QED BY <1>0, <4>1 DEF Cleared, OvRecord
    <3> QED BY <1>3, <3>1, <3>2, <3>3, <3>4 DEF OverlapManagement
  <2> QED BY <2>1, <2>2 DEF OverlapNeeded, Changing
<1>4. CASE Call
  BY <1>4, ChangesInCall DEF OverlapNeeded
<1> QED BY <1>1, <1>2, <1>3, <1>4, InPass DEF Next, FrameStep, PassEnds, PassSteps

(* l_fopScnRq_IsUsingOfOverlap is set for a change, or after a failure.    *)
LEMMA UsingStep ==
  ASSUME TypeOK, SceneAssumption, ReqShape, InQueue, OverlapOK, ChangeOK, LayersOK, Using, Next
  PROVE  Using'
<1>1. ASSUME UNCHANGED <<req, using>>, failed \subseteq failed' PROVE Using'
  BY <1>1 DEF Using, Changing
<1>2. ASSUME NEW r \in Requests, Management(r) PROVE Using'
  <2>1. using' \in {using, FALSE}
    BY <1>2 DEF Management, RequestVisited, IsDoingOverlap, IsDoneOverlap, IsDeleted,
        CreateNode, DeleteNode, CreateNodeFails, IsCreated, ClearOverlap, RequestDone
  <2>2. failed \subseteq failed'
    BY <1>2, FadesInManagement
  <2>3. CASE \A x \in Requests : Changing(x) => Changing(x)'
    BY <2>1, <2>2, <2>3 DEF Using
  <2>4. CASE "scene" \in failed'
    BY <2>4 DEF Using
  <2>5. CASE RequestDone(r)
    BY <2>5 DEF RequestDone, Using
  <2> QED BY <1>2, <2>3, <2>4, <2>5, ChangesInManagement
<1>3. ASSUME Call PROVE Using'
  <2>1. failed' = failed
    BY <1>3, InCall
  <2> QED BY <1>3, <2>1, ChangesInCall DEF Using
<1> QED BY <1>1, <1>2, <1>3, InPass, FadesInPass, InOverlap DEF Next, FrameStep, PassEnds,
           PassSteps

-----------------------------------------------------------------------------
(* Pauses.                                                                 *)

(* Fewer scenes are paused, by the same change.                            *)
LEMMA PausedOKKept ==
  ASSUME PausedOK, \A x \in Scenes : paused'[x] => paused[x],
         \A x \in Scenes : paused'[x] => life'[x] = life[x],
         \A x \in Scenes : paused'[x] /\ x \in Rooms => parent'[x] = parent[x],
         \A r \in Requests : Changing(r) => Changing(r)' /\ req'[r].creating = req[r].creating
  PROVE  PausedOK'
<1> SUFFICES ASSUME NEW x \in Scenes, paused'[x]
             PROVE  /\ life'[x] \in {"running", "dying"}
                    /\ life'[x] = "running" => \E r \in Requests : Changing(r)' /\ In(x, req[r].creating)'
  BY DEF PausedOK
<1>1. /\ life[x] \in {"running", "dying"} /\ life'[x] = life[x]
      /\ life[x] = "running" => \E r \in Requests : Changing(r) /\ In(x, req[r].creating)
  BY DEF PausedOK
<1> QED BY <1>1 DEF In

(* fopScnPause_Disable pauses nothing.                                     *)
LEMMA PauseDisabledLess ==
  ASSUME NEW s \in Scenes \union {None}, NEW x \in Scenes, paused \in [Scenes -> BOOLEAN],
         PauseDisabled(s)[x]
  PROVE  paused[x]
  BY DEF PauseDisabled, Scenes

(* fopScnRq_PostMethod pauses what a change has made.                      *)
LEMMA PausedOKInPass ==
  ASSUME TypeOK, SceneAssumption, ReqShape, InQueue, PausedOK, NEW p \in Procs, PassSteps(p)
  PROVE  PausedOK'
<1>0. /\ life \in [Procs -> LifeStates] /\ Scenes \subseteq Procs /\ req' = req
      /\ \A x \in Scenes : paused[x] => life[x] \in {"running", "dying"}
      /\ paused \in [Scenes -> BOOLEAN]
  BY InPass DEF TypeOK, LifeStates, Procs, PausedOK
<1>a. \A r \in Requests : Changing(r) => Changing(r)' /\ req'[r].creating = req[r].creating
  BY <1>0 DEF Changing
<1>1. CASE Freed(p)
  <2>1. /\ \A q \in Procs : q # p => life'[q] = life[q]
        /\ \A q \in Rooms : q # p => parent'[q] = parent[q]
        /\ \A x \in Scenes : paused'[x] => x # p /\ paused[x]
    BY <1>0, <1>1 DEF Freed
  <2> QED BY <1>0, <1>a, <2>1, PausedOKKept
<1>2. CASE StageCreated(p)
  <2>1. /\ \A q \in Procs : life'[q] = IF q \in Below(p) THEN "running" ELSE life[q]
        /\ parent' = parent /\ p \in Stages
    BY <1>2 DEF StageCreated
  <2>2. life[p] = "requested"
    BY <1>2 DEF StageCreated, Visits, InQueue
  <2>3. \A x \in Scenes : x \in Below(p) <=> x = p \/ (x \in Rooms /\ parent[x] = p /\ life[x] \in {"waiting", "running"})
    BY DEF Below
  <2>4. \A x \in Scenes : paused[x] => life'[x] = life[x]
    BY <1>0, <2>1, <2>2, <2>3
  <2>5. CASE paused' = paused
    BY <1>a, <2>1, <2>4, <2>5, PausedOKKept
  <2>6. CASE paused' # paused
    <3>1. PICK r \in Requests : Changing(r) /\ req[r].creating = p
      BY <1>2, <2>6 DEF StageCreated
    <3>2. \A x \in Scenes : paused'[x] => paused[x] \/ x \in Below(p)
      BY <1>2, <2>6 DEF StageCreated, PauseEnabled
    <3> SUFFICES ASSUME NEW x \in Scenes, paused'[x]
                 PROVE  /\ life'[x] \in {"running", "dying"}
                        /\ life'[x] = "running" => \E y \in Requests : Changing(y) /\ In(x, req[y].creating)
      BY <1>0, <2>1 DEF PausedOK, Changing, In
    <3>3. CASE x \in Below(p)
      BY <1>0, <2>1, <2>3, <3>1, <3>3 DEF In
    <3>4. CASE paused[x]
      BY <2>4, <3>4 DEF PausedOK
    <3> QED BY <3>2, <3>3, <3>4
  <2> QED BY <2>5, <2>6
<1>3. CASE FadeOut(p)
  <2>1. life' = life /\ parent' = parent /\ paused' = SceneStarted
    BY <1>3 DEF FadeOut
  <2>2. \A f \in Fades : fade[f].scene \in Scenes \union {None}
    BY DEF TypeOK
  <2>3. ov.task # None => ov.task \in Fades
    BY DEF TypeOK
  <2>4. \A x \in Scenes : paused'[x] => paused[x]
    BY <1>0, <2>1, <2>2, <2>3, PauseDisabledLess DEF SceneStarted
  <2> QED BY <1>a, <2>1, <2>4, PausedOKKept
<1>4. CASE ~Freed(p) /\ ~StageCreated(p) /\ ~FadeOut(p)
  <2>1. UNCHANGED sceneVars
    BY <1>4 DEF PassSteps, DeleteWaits, CreatePass, CreateWaits, RoomCreated, SceneFails,
       FadeCreated, FadeFails,
              ExecutePass, FadeInNotReady, FadeIn, FadeWait, SceneExecuted, FadeExecutes
  <2>2. life' = life \/ (life[p] = "requested" /\ \A q \in Procs : q # p => life'[q] = life[q])
    BY <1>0, <1>4 DEF PassSteps, DeleteWaits, CreatePass, CreateWaits, RoomCreated, SceneFails,
       FadeCreated, FadeFails, Visits, InQueue,
              ExecutePass, FadeInNotReady, FadeIn, FadeWait, SceneExecuted, FadeExecutes
  <2> QED BY <1>0, <1>a, <2>1, <2>2, PausedOKKept DEF sceneVars
<1> QED BY <1>1, <1>2, <1>3, <1>4

(* A change that ends, or fails, leaves nothing paused that still runs.    *)
LEMMA PausedOKInManagement ==
  ASSUME TypeOK, SceneAssumption, ReqShape, OverlapOK, ChangeOK, OneChange, RoomsOK, LayersOK,
         PausedOK,
         NEW r \in Requests, Management(r)
  PROVE  PausedOK'
<1>0. /\ life \in [Procs -> LifeStates] /\ Scenes \subseteq Procs
      /\ paused \in [Scenes -> BOOLEAN] /\ parent \in [Rooms -> Stages \union {None}]
  BY DEF TypeOK, LifeStates, Procs
<1>1. CASE CreateNode(r)
  <2>1. PICK s \in Scenes :
           /\ Fresh(s) /\ life[s] = "free"
           /\ \A p \in Procs : life'[p] = IF p = s THEN "requested" ELSE life[p]
           /\ \A q \in Rooms : parent'[q] = IF q = s THEN req[r].layer ELSE parent[q]
           /\ \A x \in Requests : x # r => req'[x] = req[x]
           /\ req'[r] = [req[r] EXCEPT !.creating = s, !.id = req[r].id + 1]
           /\ UNCHANGED <<paused, ov, using, failed, current, todo>>
           /\ \/ Changing(r) /\ req[r].id = 5 /\ req[r].layer = None /\ s \in Stages
              \/ req[r].kind = "create" /\ s \in Rooms /\ req[r].layer \in Stages
    BY <1>1, NodeCreated, Zenon
  <2>2. Changing(r) => req[r].creating = None
    <3>1. Changing(r) => req[r].id = 5
      BY <1>1, Phases DEF CreateNode, InPhase, Changing
    <3> QED BY <3>1 DEF ReqShape, RequestOK
  <2> SUFFICES ASSUME NEW x \in Scenes, paused[x]
               PROVE  /\ life'[x] \in {"running", "dying"}
                      /\ life'[x] = "running" => \E y \in Requests : Changing(y)' /\ In(x, req[y].creating)'
    BY <2>1 DEF PausedOK
  <2>3. life'[x] = life[x] /\ x # s /\ life[x] \in {"running", "dying"} /\ (x \in Rooms => parent'[x] = parent[x])
    BY <1>0, <2>1 DEF PausedOK
  <2>4. ASSUME life[x] = "running"
        PROVE  \E y \in Requests : Changing(y)' /\ In(x, req[y].creating)'
    <3>1. PICK y \in Requests : Changing(y) /\ In(x, req[y].creating)
      BY <2>4 DEF PausedOK
    <3>2. x # None /\ (x \in Rooms => parent[x] # None)
      BY <2>4, Disjoint DEF RoomsOK, Scenes
    <3>3. y # r
      BY <2>2, <3>1, <3>2 DEF In
    <3> QED BY <2>1, <2>3, <3>1, <3>3 DEF In, Changing
  <2> QED BY <2>3, <2>4
<1>2. CASE DeleteNode(r) /\ Deletable(req[r].node)
  <2>1. /\ UNCHANGED <<parent, paused>>
        /\ \A p \in Procs : life'[p] = life[p] \/ life'[p] = "dying"
        /\ Advanced(r) /\ ~CreateNode(r)
    BY <1>2, NodeDeleted, Phases DEF DeleteNode, CreateNode, InPhase
  <2>2. /\ \A x \in Requests : x # r => req'[x] = req[x]
        /\ req'[r] = [req[r] EXCEPT !.id = req[r].id + 1] /\ req[r] \in ReqRecord
    BY <2>1, AdvancedIs, ReqTyped
  <2>3. \A x \in Requests : req'[x].kind = req[x].kind /\ req'[x].creating = req[x].creating
    BY <2>2 DEF ReqRecord
  <2> SUFFICES ASSUME NEW x \in Scenes, paused[x]
               PROVE  /\ life'[x] \in {"running", "dying"}
                      /\ life'[x] = "running" => \E y \in Requests : Changing(y) /\ In(x, req[y].creating)
    BY <2>1, <2>3 DEF PausedOK, Changing, In
  <2> QED BY <1>0, <2>1 DEF PausedOK
<1>3. CASE RequestDone(r)
  <2>1. /\ UNCHANGED <<life, parent>> /\ req' = [req EXCEPT ![r] = NoReq]
        /\ paused' = IF req[r].kind = "delete" THEN paused ELSE PauseDisabled(req[r].creating)
    BY <1>3 DEF RequestDone
  <2>2. req[r].creating \in Scenes \union {None}
    BY DEF TypeOK
  <2>3. \A x \in Scenes : paused'[x] => paused[x]
    BY <2>1, <2>2, <1>0, PauseDisabledLess
  <2>4. \A x \in Requests : x # r => req'[x] = req[x]
    BY <2>1, ReqTyped
  <2>5. CASE ~Changing(r)
    BY <2>1, <2>3, <2>4, <2>5, PausedOKKept DEF Changing
  <2>6. CASE Changing(r)
    <3>1. req[r].id = 9
      BY <1>3, <2>6, Phases DEF RequestDone, InPhase, Changing
    <3>2. req[r].creating \in Stages
      BY <2>6, <3>1 DEF ReqShape, RequestOK
    <3>3. \A x \in Scenes : paused'[x] => x \notin Below(req[r].creating)
      BY <2>1, <2>6, <3>2 DEF PauseDisabled, Changing
    <3> SUFFICES ASSUME NEW x \in Scenes, paused'[x] PROVE life[x] = "dying"
      BY <2>1 DEF PausedOK
    <3>4. paused[x] /\ x \notin Below(req[r].creating) /\ life[x] \in {"running", "dying"}
      BY <2>3, <3>3 DEF PausedOK
    <3>5. ASSUME life[x] = "running" PROVE FALSE
      <4>1. PICK y \in Requests : Changing(y) /\ In(x, req[y].creating)
        BY <3>4, <3>5 DEF PausedOK
      <4>2. y = r
        BY <2>6, <4>1 DEF OneChange
      <4> QED BY <3>4, <3>5, <4>1, <4>2 DEF In, Below
    <3> QED BY <3>4, <3>5
  <2> QED BY <2>5, <2>6
<1>4. CASE ~CreateNode(r) /\ ~(DeleteNode(r) /\ Deletable(req[r].node)) /\ ~RequestDone(r)
  <2>1. UNCHANGED sceneVars
    BY <1>4 DEF Management, RequestVisited, IsDoingOverlap, IsDoneOverlap, IsDeleted,
        DeleteNode, CreateNodeFails, IsCreated, ClearOverlap
  <2>2. \A x \in Scenes : life'[x] = life[x]
    BY <1>4, ScenesInManagement
  <2>3. CASE \A x \in Requests : Changing(x) => Changing(x)' /\ (req'[x].creating = req[x].creating \/ CreateNode(x))
    <3>1. \A x \in Requests : x # r => req'[x] = req[x]
      BY ReqInManagement
    <3>2. \A x \in Requests : Changing(x) => Changing(x)' /\ req'[x].creating = req[x].creating
      BY <1>4, <2>3, <3>1
    <3> QED BY <2>1, <2>2, <3>2, PausedOKKept DEF sceneVars
  <2>4. CASE Changing(r) /\ (req[r].creating # None => life[req[r].creating] \notin {"requested", "waiting", "running"})
    <3>1. \A x \in Requests : x # r => req'[x] = req[x]
      BY ReqInManagement
    <3> SUFFICES ASSUME NEW x \in Scenes, paused[x] PROVE life[x] = "dying"
      BY <2>1, <2>2 DEF PausedOK, sceneVars
    <3>2. life[x] \in {"running", "dying"}
      BY DEF PausedOK
    <3>3. ASSUME life[x] = "running" PROVE FALSE
      <4>1. PICK y \in Requests : Changing(y) /\ In(x, req[y].creating)
        BY <3>3 DEF PausedOK
      <4>2. y = r
        BY <2>4, <4>1 DEF OneChange
      <4>3. x # None /\ (x \in Rooms => parent[x] # None /\ life[parent[x]] = "running")
        BY <3>3, Disjoint DEF RoomsOK, Scenes
      <4> QED BY <2>4, <3>3, <4>1, <4>2, <4>3 DEF In
    <3> QED BY <3>2, <3>3
  <2> QED BY <1>4, <2>3, <2>4, ChangesInManagement
<1> QED BY <1>1, <1>2, <1>3, <1>4

(* Every step leaves only the scenes of a change paused.                   *)
LEMMA PausedOKStep ==
  ASSUME TypeOK, SceneAssumption, ReqShape, InQueue, OverlapOK, ChangeOK, OneChange, RoomsOK,
         LayersOK, PausedOK, Next
  PROVE  PausedOK'
<1>1. CASE OverlapManagement
  BY <1>1, ScenesInOverlap, InOverlap, PausedOKKept DEF sceneVars, Changing
<1>2. CASE PassEnds
  BY <1>2, PausedOKKept DEF PassEnds, sceneVars, Changing
<1>3. CASE Call
  <2>1. UNCHANGED <<life, sceneVars>>
    BY <1>3, InCall
  <2>2. \A x \in Requests : Changing(x) => Changing(x)' /\ req'[x].creating = req[x].creating
    BY <1>3, ReqInCall DEF Changing
  <2> QED BY <2>1, <2>2, PausedOKKept DEF sceneVars
<1> QED BY <1>1, <1>2, <1>3, PausedOKInPass, PausedOKInManagement DEF Next, FrameStep, PassSteps

-----------------------------------------------------------------------------
(* What is held behind the fade.                                           *)

(* A change holds what it has made until the fade opens.                   *)
HeldBy(r) == Changing(r) /\ req[r].creating # None /\ executeF # "out" /\ life[req[r].creating] = "running"
HeldOK(c) ==
    /\ ~CreatingUnder(c)
    /\ \A x \in Scenes : In(x, c) /\ life[x] = "running" => paused[x]

(* Held, by the change that holds.                                         *)
LEMMA HeldIs == Held <=> \A r \in Requests : HeldBy(r) => HeldOK(req[r].creating)
  BY DEF Held, HeldBy, HeldOK

(* The same of the next state.                                             *)
LEMMA HeldIsNext == Held' <=> \A r \in Requests : HeldBy(r)' => HeldOK(req[r].creating)'
  BY DEF Held, HeldBy, HeldOK

(* Nothing comes to be made, or runs, in the layer of c that did not.      *)
LEMMA HeldOKKept ==
  ASSUME NEW c, HeldOK(c),
         \A x \in Requests : Active(x)' /\ req'[x].layer = c => Active(x) /\ req[x].layer = c,
         \A q \in Rooms : parent'[q] = c /\ life'[q] = "requested" => parent[q] = c /\ life[q] = "requested",
         \A x \in Scenes : (x = c \/ (x \in Rooms /\ parent'[x] = c)) /\ life'[x] = "running" =>
                              In(x, c) /\ life[x] = "running" /\ (paused[x] => paused'[x])
  PROVE  HeldOK(c)'
  BY DEF HeldOK, CreatingUnder, In

(* A stage is paused with its rooms when it starts, and nothing is made    *)
(* in its layer while the fade is closed.                                  *)
LEMMA HeldInPass ==
  ASSUME TypeOK, SceneAssumption, ReqShape, InQueue, OverlapOK, FadesOK, ChangeOK, RoomsOK,
         LayersOK, Held, NEW p \in Procs, PassSteps(p)
  PROVE  Held'
<1>0. /\ life \in [Procs -> LifeStates] /\ Scenes \subseteq Procs /\ req' = req
      /\ parent \in [Rooms -> Stages \union {None}]
      /\ paused \in [Scenes -> BOOLEAN] /\ Rooms \subseteq Scenes /\ Stages \subseteq Scenes
  BY InPass DEF TypeOK, LifeStates, Procs, Scenes
<1> SUFFICES ASSUME NEW r \in Requests, HeldBy(r)' PROVE HeldOK(req[r].creating)'
  BY HeldIsNext
<1>1. /\ Changing(r) /\ req[r].creating # None /\ executeF' # "out"
      /\ life'[req[r].creating] = "running"
  BY <1>0 DEF HeldBy, Changing
<1> DEFINE c == req[r].creating
<1>2. c \in Stages /\ c \in Scenes /\ c \in Procs /\ c \notin Rooms /\ c' = c
  BY <1>0, <1>1, Disjoint DEF ReqShape, RequestOK
<1>3. executeF # "out" /\ life[c] = "running" => HeldOK(c)
  BY <1>1, HeldIs DEF HeldBy
<1>4. \A x \in Requests : Active(x)' /\ req'[x].layer = c => Active(x) /\ req[x].layer = c
  BY <1>0 DEF Active
<1> HIDE DEF c
<1>g. HeldOK(c)'  => HeldOK(req[r].creating)'
  BY <1>0 DEF c
<1>5. CASE Freed(p)
  <2>1. /\ \A q \in Procs : life'[q] = IF q = p THEN "free" ELSE life[q]
        /\ \A q \in Rooms : parent'[q] = IF q = p THEN None ELSE parent[q]
        /\ \A x \in Scenes : x # p => paused'[x] = paused[x]
        /\ executeF' = executeF
    BY <1>0, <1>5 DEF Freed, fadeVars
  <2>2. HeldOK(c)
    BY <1>1, <1>2, <1>3, <2>1 DEF c
  <2>3. c # None
    BY <1>1 DEF c
  <2>4. \A q \in Rooms : parent'[q] = c /\ life'[q] = "requested" => parent[q] = c /\ life[q] = "requested"
    BY <1>0, <2>1, <2>3
  <2>5. \A x \in Scenes : (x = c \/ (x \in Rooms /\ parent'[x] = c)) /\ life'[x] = "running" =>
                              In(x, c) /\ life[x] = "running" /\ (paused[x] => paused'[x])
    BY <1>0, <2>1, <2>3 DEF In
  <2> QED BY <1>4, <1>g, <1>2, <2>2, <2>4, <2>5, HeldOKKept
<1>6. CASE StageCreated(p)
  <2>1. /\ \A q \in Procs : life'[q] = IF q \in Below(p) THEN "running" ELSE life[q]
        /\ parent' = parent /\ p \in Stages /\ executeF' = executeF /\ ~CreatingUnder(p)
        /\ life[p] = "requested"
    BY <1>6 DEF StageCreated, Visits, InQueue
  <2>2. \A x \in Procs : x \in Below(p) <=> x = p \/ (x \in Rooms /\ parent[x] = p /\ life[x] \in {"waiting", "running"})
    BY DEF Below
  <2>3. CASE p = c
    <3>1. \A x \in Scenes : paused'[x] = (paused[x] \/ x \in Below(p))
      BY <1>1, <1>6, <2>3 DEF StageCreated, PauseEnabled, c
    <3>2. ~CreatingUnder(c)'
      BY <1>0, <1>2, <2>1, <2>2, <2>3 DEF CreatingUnder, Active
    <3>3. \A x \in Scenes : (x = c \/ (x \in Rooms /\ parent'[x] = c)) /\ life'[x] = "running" => x \in Below(p)
      <4> SUFFICES ASSUME NEW x \in Scenes, x # c, x \in Rooms, parent[x] = c, life'[x] = "running" PROVE x \in Below(p)
        BY <1>0, <2>1, <2>2, <2>3
      <4> QED BY <1>0, <2>1, <2>2, <2>3
    <3>4. \A x \in Scenes : In(x, c)' /\ life'[x] = "running" => paused'[x]
      BY <1>2, <3>1, <3>3 DEF In
    <3> QED BY <1>g, <3>2, <3>4 DEF HeldOK
  <2>4. CASE p # c
    <3>1. life[c] = "running" /\ HeldOK(c)
      BY <1>1, <1>2, <1>3, <2>1, <2>2, <2>4 DEF c
    <3>2. \A q \in Rooms : parent'[q] = c /\ life'[q] = "requested" => parent[q] = c /\ life[q] = "requested"
      BY <1>0, <2>1
    <3>3. \A x \in Scenes : (x = c \/ (x \in Rooms /\ parent'[x] = c)) /\ life'[x] = "running" =>
                              In(x, c) /\ life[x] = "running"
      BY <1>0, <1>2, <2>1, <2>2, <2>4 DEF In
    <3>4. \A x \in Scenes : paused[x] => paused'[x]
      BY <1>6 DEF StageCreated, PauseEnabled
    <3> QED BY <1>4, <1>g, <1>2, <3>1, <3>2, <3>3, <3>4, HeldOKKept
  <2> QED BY <2>3, <2>4
<1>7. CASE RoomCreated(p)
  <2>1. /\ p \in Rooms /\ life[p] = "requested" /\ parent' = parent /\ paused' = paused
        /\ executeF' = executeF
        /\ \A q \in Procs : q # p => life'[q] = life[q]
        /\ life'[p] # "requested"
    BY <1>0, <1>7 DEF RoomCreated, Visits, InQueue, sceneVars, fadeVars
  <2>2. HeldOK(c)
    BY <1>1, <1>2, <1>3, <2>1 DEF c
  <2>3. parent[p] # c
    BY <2>1, <2>2 DEF HeldOK, CreatingUnder
  <2>4. \A q \in Rooms : parent'[q] = c /\ life'[q] = "requested" => parent[q] = c /\ life[q] = "requested"
    BY <1>0, <2>1
  <2>5. \A x \in Scenes : (x = c \/ (x \in Rooms /\ parent'[x] = c)) /\ life'[x] = "running" =>
                              In(x, c) /\ life[x] = "running" /\ (paused[x] => paused'[x])
    BY <1>0, <1>2, <2>1, <2>3 DEF In
  <2> QED BY <1>4, <1>g, <1>2, <2>2, <2>4, <2>5, HeldOKKept
<1>8. CASE FadeCreated(p)
  <2>1. p \in Fades /\ life[p] = "requested"
    BY <1>8 DEF FadeCreated, Visits, InQueue
  <2>2. ov.used /\ ov.id = 2
    BY <2>1 DEF FadesOK
  <2>3. req[r].id \in 6..9
    BY <1>1 DEF ReqShape, RequestOK
  <2>4. Together(r)
    BY <1>1, <2>2 DEF ChangeOK
  <2> QED BY <2>2, <2>3, <2>4 DEF Together
<1>9. CASE SceneFails(p) \/ FadeFails(p)
  <2>1. /\ UNCHANGED <<parent, paused, executeF>>
        /\ \A q \in Procs : q # p => life'[q] = life[q]
        /\ life'[p] \notin {"requested", "running"}
    BY <1>0, <1>9 DEF SceneFails, FadeFails, sceneVars, fadeVars
  <2>2. HeldOK(c)
    BY <1>1, <1>2, <1>3, <2>1 DEF c
  <2>4. \A q \in Rooms : parent'[q] = c /\ life'[q] = "requested" => parent[q] = c /\ life[q] = "requested"
    BY <1>0, <2>1
  <2>5. \A x \in Scenes : (x = c \/ (x \in Rooms /\ parent'[x] = c)) /\ life'[x] = "running" =>
                              In(x, c) /\ life[x] = "running" /\ (paused[x] => paused'[x])
    BY <1>0, <1>2, <2>1 DEF In
  <2> QED BY <1>4, <1>g, <1>2, <2>2, <2>4, <2>5, HeldOKKept
<1>10. CASE ExecutePass(p) \/ DeleteWaits(p) \/ CreateWaits(p)
  <2>1. UNCHANGED <<life, parent>> /\ ~(executeF' # "out" /\ executeF = "out") /\ (paused' = paused \/ executeF' = "out")
    BY <1>10 DEF DeleteWaits, CreateWaits, ExecutePass, FadeInNotReady, FadeIn, FadeWait, FadeOut,
       SceneExecuted, FadeExecutes,
                 sceneVars, fadeVars
  <2>2. paused' = paused /\ HeldOK(c)
    BY <1>1, <1>3, <2>1 DEF c
  <2>4. \A q \in Rooms : parent'[q] = c /\ life'[q] = "requested" => parent[q] = c /\ life[q] = "requested"
    BY <2>1
  <2>5. \A x \in Scenes : (x = c \/ (x \in Rooms /\ parent'[x] = c)) /\ life'[x] = "running" =>
                              In(x, c) /\ life[x] = "running" /\ (paused[x] => paused'[x])
    BY <2>1, <2>2 DEF In
  <2> QED BY <1>4, <1>g, <1>2, <2>2, <2>4, <2>5, HeldOKKept
<1> QED BY <1>5, <1>6, <1>7, <1>8, <1>9, <1>10 DEF PassSteps, CreatePass

(* The end of a change does not start a scene behind the fade.             *)
LEMMA HeldInManagement ==
  ASSUME TypeOK, SceneAssumption, ReqShape, OverlapOK, ChangeOK, OneChange, RoomsOK, LayersOK,
         Held,
         NEW r \in Requests, Management(r)
  PROVE  Held'
<1>0. /\ life \in [Procs -> LifeStates] /\ Scenes \subseteq Procs
      /\ parent \in [Rooms -> Stages \union {None}]
      /\ paused \in [Scenes -> BOOLEAN] /\ Rooms \subseteq Scenes /\ Stages \subseteq Scenes
      /\ executeF' = executeF /\ req[r] \in ReqRecord
  BY InManagement, ReqTyped DEF TypeOK, LifeStates, Procs, Scenes
<1> SUFFICES ASSUME NEW h \in Requests, HeldBy(h)' PROVE HeldOK(req[h].creating)'
  BY HeldIsNext
<1>1. /\ Changing(h)' /\ req'[h].creating # None /\ executeF # "out"
      /\ life'[req'[h].creating] = "running"
  BY <1>0 DEF HeldBy
<1>2. \A x \in Requests : x # r => req'[x] = req[x]
  BY ReqInManagement
<1>3. CASE CreateNode(r)
  <2>1. PICK s \in Scenes :
           /\ Fresh(s) /\ life[s] = "free"
           /\ \A p \in Procs : life'[p] = IF p = s THEN "requested" ELSE life[p]
           /\ \A q \in Rooms : parent'[q] = IF q = s THEN req[r].layer ELSE parent[q]
           /\ \A x \in Requests : x # r => req'[x] = req[x]
           /\ req'[r] = [req[r] EXCEPT !.creating = s, !.id = req[r].id + 1]
           /\ UNCHANGED <<paused, ov, using, failed, current, todo>>
           /\ \/ Changing(r) /\ req[r].id = 5 /\ req[r].layer = None /\ s \in Stages
              \/ req[r].kind = "create" /\ s \in Rooms /\ req[r].layer \in Stages
    BY <1>3, NodeCreated, Zenon
  <2>2. req'[r].kind = req[r].kind /\ req'[r].layer = req[r].layer /\ req'[r].creating = s
    BY <1>0, <2>1 DEF ReqRecord
  <2>3. h # r
    BY <1>0, <1>1, <2>1, <2>2
  <2>4. Changing(h) /\ req'[h] = req[h] /\ req[h].creating # None
    BY <1>1, <1>2, <2>3 DEF Changing
  <2>5. req[h].creating \in Stages /\ req[h].creating \in Procs
    BY <1>0, <2>4 DEF ReqShape, RequestOK
  <2>6. life[req[h].creating] = "running"
    BY <1>1, <2>1, <2>4, <2>5
  <2>7. HeldOK(req[h].creating)
    BY <1>1, <2>4, <2>6, HeldIs DEF HeldBy
  <2>8. ~Changing(r) /\ req[r].kind = "create" /\ s \in Rooms
    BY <2>1, <2>3, <2>4 DEF OneChange
  <2>9. req[r].layer # req[h].creating
    BY <2>7, <2>8 DEF HeldOK, CreatingUnder, Active
  <2>10. \A x \in Requests : Active(x)' /\ req'[x].layer = req[h].creating => Active(x) /\ req[x].layer = req[h].creating
    BY <1>2, <2>2 DEF Active
  <2>11. \A q \in Rooms : parent'[q] = req[h].creating /\ life'[q] = "requested" => parent[q] = req[h].creating /\ life[q] = "requested"
    BY <1>0, <2>1, <2>9
  <2>12. \A x \in Scenes : (x = req[h].creating \/ (x \in Rooms /\ parent'[x] = req[h].creating)) /\ life'[x] = "running" =>
                              In(x, req[h].creating) /\ life[x] = "running" /\ (paused[x] => paused'[x])
    BY <1>0, <2>1, <2>9 DEF In
  <2> DEFINE c == req[h].creating
  <2>13. HeldOK(c) /\ c = req'[h].creating
    BY <2>4, <2>7
  <2>14. ~CreatingUnder(req[h].creating)'
    BY <2>7, <2>10, <2>11, <2>4 DEF HeldOK, CreatingUnder
  <2>15. \A x \in Scenes : In(x, req[h].creating)' /\ life'[x] = "running" => paused'[x]
    BY <2>4, <2>7, <2>12 DEF HeldOK, In
  <2> QED BY <2>14, <2>15 DEF HeldOK
<1>4. CASE ~CreateNode(r)
  <2>1. req'[r] = req[r] \/ req'[r] = NoReq \/ req'[r] = [req[r] EXCEPT !.id = req[r].id + 1]
    BY <1>4, ReqInManagement
  <2>2. \/ req'[r].kind = "none" /\ req'[r].creating = None /\ req'[r].layer = None
        \/ req'[r].kind = req[r].kind /\ req'[r].creating = req[r].creating /\ req'[r].layer = req[r].layer
    <3>1. CASE req'[r] = NoReq
      BY <3>1 DEF NoReq
    <3>2. CASE req'[r] # NoReq
      BY <1>0, <2>1, <3>2 DEF ReqRecord
    <3> QED BY <3>1, <3>2
  <2>3. Changing(h) /\ req'[h].creating = req[h].creating /\ req[h].creating # None
    BY <1>1, <1>2, <2>2 DEF Changing
  <2>4. req[h].creating \in Stages /\ req[h].creating \in Procs /\ req[h].creating \in Scenes
    BY <1>0, <2>3 DEF ReqShape, RequestOK
  <2>5. parent' = parent /\ \A x \in Scenes : life'[x] = life[x] \/ life'[x] = "dying"
    <3>1. CASE DeleteNode(r) /\ Deletable(req[r].node)
      BY <1>0, <3>1, NodeDeleted
    <3>2. CASE ~(DeleteNode(r) /\ Deletable(req[r].node))
      <4>1. parent' = parent
        BY <1>4, <3>2 DEF Management, RequestVisited, IsDoingOverlap, IsDoneOverlap, IsDeleted,
           sceneVars,
          DeleteNode, CreateNodeFails, IsCreated, ClearOverlap, RequestDone
      <4> QED BY <1>4, <3>2, <4>1, ScenesInManagement
    <3> QED BY <3>1, <3>2
  <2>6. life[req[h].creating] = "running"
    BY <1>1, <2>3, <2>4, <2>5
  <2>7. HeldOK(req[h].creating)
    BY <1>1, <2>3, <2>6, HeldIs DEF HeldBy
  <2>8. \A x \in Requests : Active(x)' /\ req'[x].layer = req[h].creating => Active(x) /\ req[x].layer = req[h].creating
    BY <1>2, <2>2 DEF Active
  <2>9. \A x \in Scenes : In(x, req[h].creating) /\ life[x] = "running" /\ paused[x] => paused'[x]
    <3>1. CASE paused' = paused
      BY <3>1
    <3>2. CASE RequestDone(r)
      <4>1. req' = [req EXCEPT ![r] = NoReq] /\ paused' = IF req[r].kind = "delete" THEN paused ELSE PauseDisabled(req[r].creating)
        BY <3>2 DEF RequestDone
      <4>2. r # h
        BY <1>1, <4>1, ReqTyped DEF Changing, NoReq
      <4>3. ~Changing(r)
        BY <2>3, <4>2 DEF OneChange
      <4>4. req[r].kind \in {"create", "delete"} /\ (req[r].kind = "create" => req[r].creating \in Rooms)
        <5>1. (req[r].kind \in {"create", "delete"} /\ req[r].id = 3)
          BY <3>2, <4>3, Phases DEF RequestDone, InPhase
        <5> QED BY <5>1 DEF ReqShape, RequestOK
      <4>5. CASE req[r].kind = "create"
        <5> DEFINE q == req[r].creating
        <5>1. q \in Rooms /\ q \notin Stages
          BY <4>4, <4>5, Disjoint
        <5>2. paused' = [paused EXCEPT ![q] = @ /\ (life[parent[q]] # "running" \/ paused[parent[q]])]
          BY <4>1, <4>5, <5>1 DEF PauseDisabled
        <5>3. \A x \in Scenes : In(x, req[h].creating) /\ life[x] = "running" => paused[x]
          BY <2>7 DEF HeldOK
        <5>4. paused[req[h].creating]
          BY <2>4, <2>6, <5>3 DEF In
        <5>5. In(q, req[h].creating) => parent[q] = req[h].creating
          BY <2>4, <5>1 DEF In
        <5> HIDE DEF q
        <5>6. In(q, req[h].creating) /\ paused[q] => paused'[q]
          BY <1>0, <5>1, <5>2, <5>4, <5>5
        <5>7. \A x \in Scenes : x # q => paused'[x] = paused[x]
          BY <1>0, <5>2
        <5> QED BY <5>6, <5>7
      <4> QED BY <4>1, <4>4, <4>5
    <3>3. CASE ~RequestDone(r)
      <4>1. paused' = paused
        BY <1>4, <3>3 DEF Management, RequestVisited, IsDoingOverlap, IsDoneOverlap, IsDeleted,
           sceneVars,
          DeleteNode, CreateNodeFails, IsCreated, ClearOverlap
      <4> QED BY <3>1, <4>1
    <3> QED BY <3>2, <3>3
  <2>10. ~CreatingUnder(req[h].creating)'
    BY <1>0, <2>3, <2>5, <2>7, <2>8 DEF HeldOK, CreatingUnder
  <2>11. \A x \in Scenes : In(x, req[h].creating)' /\ life'[x] = "running" => paused'[x]
    BY <2>3, <2>5, <2>7, <2>9 DEF HeldOK, In
  <2> QED BY <2>10, <2>11 DEF HeldOK
<1> QED BY <1>3, <1>4

(* What is paused does not execute and asks for nothing.                   *)
LEMMA HeldInCall ==
  ASSUME TypeOK, SceneAssumption, ReqShape, InQueue, RoomsOK, Held, Call
  PROVE  Held'
<1>0. UNCHANGED <<life, parent, paused, executeF>>
  BY InCall DEF sceneVars, fadeVars
<1> SUFFICES ASSUME NEW h \in Requests, HeldBy(h)' PROVE HeldOK(req[h].creating)'
  BY HeldIsNext
<1>1. Changing(h) /\ req'[h].creating = req[h].creating /\ req[h].creating # None
  BY ReqInCall DEF HeldBy, Changing
<1>2. life[req[h].creating] = "running" /\ HeldOK(req[h].creating)
  BY <1>0, <1>1, HeldIs DEF HeldBy
<1>3. req[h].creating \in Stages /\ req[h].creating \in Scenes /\ paused[req[h].creating]
  BY <1>1, <1>2 DEF ReqShape, RequestOK, HeldOK, In, Scenes
<1>4. ASSUME NEW s \in Scenes, NEW r \in Requests, CreateRoomReq(s, r) PROVE s # req[h].creating
  BY <1>2, <1>3, <1>4 DEF CreateRoomReq, Executes, Visits, InQueue, Procs
<1>5. ASSUME NEW q \in Scenes, NEW r \in Requests, DeleteRoomReq(q, r)
      PROVE  parent[q] # req[h].creating
  BY <1>2, <1>5 DEF DeleteRoomReq, Executes, HeldOK, In
<1>6. \A x \in Requests : Active(x)' /\ req'[x].layer = req[h].creating => Active(x) /\ req[x].layer = req[h].creating
  <2>1. CASE \A x \in Requests : req'[x].kind = req[x].kind /\ req'[x].layer = req[x].layer
    BY <2>1 DEF Active
  <2>2. ASSUME NEW r \in Requests, \A x \in Requests : x # r => req'[x] = req[x],
               req'[r].layer # req[h].creating
        PROVE  \A x \in Requests : Active(x)' /\ req'[x].layer = req[h].creating => Active(x) /\ req[x].layer = req[h].creating
    BY <2>2 DEF Active
  <2>3. \/ \A x \in Requests : req'[x].kind = req[x].kind /\ req'[x].layer = req[x].layer
        \/ \E r \in Requests : (\A x \in Requests : x # r => req'[x] = req[x]) /\ req'[r].layer # req[h].creating
    BY <1>1, <1>4, <1>5, ReqInCall
  <2> QED BY <2>1, <2>2, <2>3
<1>7. ~CreatingUnder(req[h].creating)'
  BY <1>0, <1>1, <1>2, <1>6 DEF HeldOK, CreatingUnder
<1>8. \A x \in Scenes : In(x, req[h].creating)' /\ life'[x] = "running" => paused'[x]
  BY <1>0, <1>1, <1>2 DEF HeldOK, In
<1> QED BY <1>7, <1>8 DEF HeldOK

(* Every step leaves the new scene held.                                   *)
LEMMA HeldStep ==
  ASSUME TypeOK, SceneAssumption, ReqShape, InQueue, OverlapOK, FadesOK, ChangeOK, OneChange,
         RoomsOK, LayersOK, Held, Next
  PROVE  Held'
<1>1. ASSUME UNCHANGED <<sceneVars, req, executeF>>, \A s \in Scenes : life'[s] = life[s]
      PROVE  Held'
  <2> SUFFICES ASSUME NEW h \in Requests, HeldBy(h)' PROVE HeldOK(req[h].creating)'
    BY HeldIsNext
  <2>1. /\ Changing(h) /\ req[h].creating # None /\ executeF # "out"
        /\ life'[req[h].creating] = "running"
    BY <1>1 DEF HeldBy, Changing
  <2>2. req[h].creating \in Scenes /\ Rooms \subseteq Scenes
    BY <2>1 DEF ReqShape, RequestOK, Scenes
  <2>3. HeldOK(req[h].creating)
    BY <1>1, <2>1, <2>2, HeldIs DEF HeldBy
  <2> QED BY <1>1, <2>2, <2>3 DEF HeldOK, CreatingUnder, In, Active, sceneVars
<1>2. CASE OverlapManagement
  BY <1>1, <1>2, ScenesInOverlap, InOverlap
<1>3. CASE PassEnds
  BY <1>1, <1>3 DEF PassEnds, fadeVars
<1> QED BY <1>2, <1>3, HeldInPass, HeldInManagement, HeldInCall DEF Next, FrameStep, PassSteps

-----------------------------------------------------------------------------
(* The profile that is made.                                               *)

(* Steps that make nothing and retarget nothing.                           *)
LEMMA RetargetKept ==
  ASSUME TypeOK, ReqShape, RetargetHonoured,
         \A s \in Stages : life'[s] # "free" => life[s] # "free" /\ made'[s] = made[s],
         \A x \in Requests : Changing(x)' /\ req'[x].creating # None =>
             Changing(x) /\ req'[x].creating = req[x].creating /\ req'[x].name = req[x].name
  PROVE  RetargetHonoured'
<1> SUFFICES ASSUME NEW x \in Requests, Changing(x)', req'[x].creating # None,
                    life'[req'[x].creating] # "free"
             PROVE  made'[req'[x].creating] = req'[x].name
  BY DEF RetargetHonoured
<1>1. Changing(x) /\ req'[x].creating = req[x].creating /\ req'[x].name = req[x].name
  OBVIOUS
<1>2. req[x].creating \in Stages
  BY <1>1 DEF ReqShape, RequestOK
<1> QED BY <1>1, <1>2 DEF RetargetHonoured

(* Every step makes what was last asked for.                               *)
LEMMA RetargetHonouredStep ==
  ASSUME TypeOK, SceneAssumption, ReqShape, InQueue, OverlapOK, ChangeOK, OneChange, LayersOK,
         RetargetHonoured, Next
  PROVE  RetargetHonoured'
<1>0. /\ life \in [Procs -> LifeStates] /\ made \in [Stages -> Names \union {None}]
      /\ Stages \subseteq Procs /\ Stages \subseteq Scenes
  BY DEF TypeOK, LifeStates, Procs, Scenes
<1>1. ASSUME NEW p \in Procs, PassSteps(p) PROVE RetargetHonoured'
  <2>1. req' = req
    BY <1>1, InPass
  <2>2. \A s \in Stages : life'[s] # "free" => life[s] # "free" /\ made'[s] = made[s]
    <3>1. CASE Freed(p)
      BY <1>0, <3>1 DEF Freed
    <3>2. CASE ~Freed(p)
      <4>1. made' = made
        BY <1>1, <3>2 DEF PassSteps, DeleteWaits, CreatePass, CreateWaits, StageCreated,
           RoomCreated, SceneFails,
           FadeCreated, FadeFails, ExecutePass, FadeInNotReady, FadeIn, FadeWait, FadeOut,
           SceneExecuted, FadeExecutes, sceneVars
      <4>2. CASE StageCreated(p)
        <5>1. life[p] = "requested" /\ \A q \in Procs : life'[q] = IF q \in Below(p) THEN "running" ELSE life[q]
          BY <4>2 DEF StageCreated, Visits, InQueue
        <5>2. \A s \in Stages : s \in Below(p) <=> s = p
          BY Disjoint DEF Below
        <5> QED BY <1>0, <4>1, <5>1, <5>2
      <4>3. CASE ~StageCreated(p)
        <5>1. life' = life \/ (life[p] = "requested" /\ \A q \in Procs : q # p => life'[q] = life[q])
          BY <1>0, <1>1, <3>2, <4>3 DEF PassSteps, DeleteWaits, CreatePass, CreateWaits,
             RoomCreated, SceneFails, FadeCreated, FadeFails, Visits, InQueue,
              ExecutePass, FadeInNotReady, FadeIn, FadeWait, FadeOut, SceneExecuted, FadeExecutes
        <5> QED BY <1>0, <4>1, <5>1
      <4> QED BY <4>2, <4>3
    <3> QED BY <3>1, <3>2
  <2> QED BY <2>1, <2>2, RetargetKept DEF Changing
<1>2. ASSUME NEW r \in Requests, Management(r) PROVE RetargetHonoured'
  <2>0. req[r] \in ReqRecord /\ \A x \in Requests : x # r => req'[x] = req[x]
    BY <1>2, ReqTyped, ReqInManagement
  <2>1. CASE CreateNode(r)
    <3>1. PICK s \in IF req[r].kind = "create" THEN Rooms ELSE Stages :
         /\ Fresh(s)
         /\ life' = [life EXCEPT ![s] = "requested"]
         /\ made' = [t \in Stages |-> IF t = s THEN req[r].name ELSE made[t]]
         /\ req' = [req EXCEPT ![r].creating = s, ![r].id = @ + 1]
      BY <2>1 DEF CreateNode
    <3>2. req'[r] = [req[r] EXCEPT !.creating = s, !.id = req[r].id + 1]
      BY <3>1, CreatesIs
    <3>3. req'[r].creating = s /\ req'[r].name = req[r].name /\ req'[r].kind = req[r].kind
      BY <2>0, <3>2 DEF ReqRecord
    <3> SUFFICES ASSUME NEW x \in Requests, Changing(x)', req'[x].creating # None,
                        life'[req'[x].creating] # "free"
                 PROVE  made'[req'[x].creating] = req'[x].name
      BY DEF RetargetHonoured
    <3>4. CASE x = r
      <4>1. s \in Stages
        BY <3>1, <3>3, <3>4 DEF Changing
      <4> QED BY <3>1, <3>3, <3>4, <4>1
    <3>5. CASE x # r
      <4>1. Changing(x) /\ req'[x] = req[x] /\ req[x].creating \in Stages /\ req[x].creating # s
        BY <2>0, <3>1, <3>5, ZenonT(60) DEF ReqShape, RequestOK, Changing, Fresh
      <4>2. /\ life'[req[x].creating] = life[req[x].creating]
            /\ made'[req[x].creating] = made[req[x].creating]
        BY <1>0, <3>1, <4>1
      <4> QED BY <4>1, <4>2 DEF RetargetHonoured
    <3> QED BY <3>4, <3>5
  <2>2. CASE ~CreateNode(r)
    <3>1. made' = made
      BY <1>2, <2>2 DEF Management, RequestVisited, IsDoingOverlap, IsDoneOverlap, IsDeleted,
         sceneVars,
          DeleteNode, CreateNodeFails, IsCreated, ClearOverlap, RequestDone
    <3>2. \A s \in Stages : life'[s] # "free" => life[s] # "free"
      <4>1. CASE DeleteNode(r) /\ Deletable(req[r].node)
        <5>1. /\ \A p \in Procs : life'[p] = IF p \in Below(req[r].node) THEN "dying" ELSE life[p]
              /\ life[req[r].node] = "running"
          BY <4>1, NodeDeleted
        <5>2. \A s \in Stages : s \in Below(req[r].node) <=> s = req[r].node
          BY Disjoint DEF Below
        <5> QED BY <1>0, <5>1, <5>2
      <4>2. CASE ~(DeleteNode(r) /\ Deletable(req[r].node))
        BY <1>0, <1>2, <2>2, <4>2, ScenesInManagement
      <4> QED BY <4>1, <4>2
    <3>3. req'[r] = req[r] \/ req'[r] = NoReq \/ req'[r] = [req[r] EXCEPT !.id = req[r].id + 1]
      BY <1>2, <2>2, ReqInManagement
    <3>4. \/ req'[r].kind = "none"
          \/ req'[r].kind = req[r].kind /\ req'[r].creating = req[r].creating /\ req'[r].name = req[r].name
      <4>1. CASE req'[r] = NoReq
        BY <4>1 DEF NoReq
      <4>2. CASE req'[r] # NoReq
        BY <2>0, <3>3, <4>2 DEF ReqRecord
      <4> QED BY <4>1, <4>2
    <3>5. \A x \in Requests : Changing(x)' /\ req'[x].creating # None =>
             Changing(x) /\ req'[x].creating = req[x].creating /\ req'[x].name = req[x].name
      BY <2>0, <3>4 DEF Changing
    <3> QED BY <3>1, <3>2, <3>5, RetargetKept
  <2> QED BY <2>1, <2>2
<1>3. CASE Call
  <2>1. UNCHANGED <<life, made>>
    BY <1>3, InCall DEF sceneVars
  <2>2. ASSUME NEW s \in Scenes, NEW n \in Names, ReRequest(s, n)
        PROVE  \A x \in Requests : Changing(x)' /\ req'[x].creating # None =>
             Changing(x) /\ req'[x].creating = req[x].creating /\ req'[x].name = req[x].name
    <3>1. req' = [req EXCEPT ![scnRqID].name = n] /\ scnRqID # None /\ req[scnRqID].creating = None
      BY <2>2 DEF ReRequest, CanRetarget
    <3>2. scnRqID \in Requests
      BY <3>1 DEF TypeOK
    <3>3. req'[scnRqID].creating = None /\ \A x \in Requests : x # scnRqID => req'[x] = req[x]
      BY <3>1, <3>2, ReqTyped DEF ReqRecord
    <3> QED BY <3>3 DEF Changing
  <2>3. ASSUME ~\E s \in Scenes, n \in Names : ReRequest(s, n)
        PROVE  \A x \in Requests : Changing(x)' /\ req'[x].creating # None =>
             Changing(x) /\ req'[x].creating = req[x].creating /\ req'[x].name = req[x].name
    BY <1>3, <2>3, ReqInCall DEF Changing
  <2> QED BY <2>1, <2>2, <2>3, RetargetKept
<1>4. CASE OverlapManagement
  <2>1. req' = req /\ made' = made /\ \A s \in Stages : life'[s] = life[s]
    BY <1>0, <1>4, ScenesInOverlap, InOverlap DEF sceneVars
  <2> QED BY <2>1, RetargetKept DEF Changing
<1>5. CASE PassEnds
  BY <1>5, RetargetKept DEF PassEnds, sceneVars, Changing
<1> QED BY <1>1, <1>2, <1>3, <1>4, <1>5 DEF Next, FrameStep, PassSteps

(* The invariant of the scene changes holds at the start,                  *)
LEMMA SceneInit == ASSUME SceneAssumption, Init PROVE SceneInv
<1>0. 0 \in 0..Peek /\ 0 \in 0..FadeFrames /\ Collected(DoneMsg) \in Message
  BY SceneAssumption, Messages
<1>1. PICK s \in Stages, n \in Names :
         /\ life = [p \in Procs |-> IF p = s THEN "running" ELSE "free"]
         /\ made = [p \in Stages |-> IF p = s THEN n ELSE None]
  BY DEF Init
<1>a. s \notin Rooms /\ s \notin Fades
  BY Disjoint
<1>2. \A r \in Requests : /\ req[r].kind = "none" /\ req[r].id = 0 /\ req[r].creating = None /\ req[r].layer = None
                          /\ ~Changing(r)
  BY DEF Init, NoReq, Changing
<1>3. TypeOK
  <2>1. req \in [Requests -> [kind : {"none", "create", "delete", "change"}, id : 0..9,
                             node : Scenes \union {None}, layer : Stages \union {None},
                             creating : Scenes \union {None}, name : Names \union {None}]]
    BY DEF Init, NoReq
  <2>2. ov \in [used : BOOLEAN, busy : BOOLEAN, id : 0..7, task : Fades \union {None},
               proc : Fades \union {None}, peek : BOOLEAN, peektime : 0..Peek,
               linger : -1..1, base : Message]
    BY <1>0 DEF Init, NoOverlap
  <2>3. fade \in [Fades -> [msg : Message, scene : Scenes \union {None}, timer : 0..FadeFrames]]
    BY <1>0 DEF Init
  <2>4. /\ life \in [Procs -> {"free", "requested", "waiting", "running", "dying"}]
        /\ parent \in [Rooms -> Stages \union {None}] /\ paused \in [Scenes -> BOOLEAN]
        /\ made \in [Stages -> Names \union {None}]
    BY <1>1 DEF Init
  <2>5. /\ pass \in DOMAIN NextPass \union {"overlap"} /\ todo \subseteq Procs \union Requests
        /\ current \in Requests \union {None}
        /\ using \in BOOLEAN /\ scnRqID \in Requests \union {None}
        /\ executeF \in {"in", "wait", "out"} /\ failed \subseteq {"scene", "fade"}
    BY DEF Init, NextPass
  <2> QED BY <2>1, <2>2, <2>3, <2>4, <2>5 DEF TypeOK
<1>4. ReqShape
  BY <1>2 DEF ReqShape, RequestOK
<1>5. InQueue /\ OverlapOK
  BY DEF Init, InQueue, OverlapOK, NoOverlap
<1>6. FadesOK
  BY <1>1, <1>a DEF FadesOK, Procs
<1>7. OneChange /\ ChangeOK
  BY <1>2 DEF OneChange, ChangeOK
<1>8. OverlapNeeded /\ Using
  BY DEF Init, OverlapNeeded, Using, NoOverlap
<1>9. RoomsOK /\ LayersOK
  BY <1>1, <1>2, <1>a DEF RoomsOK, LayersOK, Procs, Scenes
<1>10. PausedOK /\ Held
  BY <1>2 DEF Init, PausedOK, Held
<1> QED BY <1>3, <1>4, <1>5, <1>6, <1>7, <1>8, <1>9, <1>10 DEF SceneInv

(* every step keeps it,                                                    *)
LEMMA SceneStep == ASSUME SceneAssumption, SceneInv, Next PROVE SceneInv'
<1>1. /\ TypeOK /\ ReqShape /\ InQueue /\ OverlapOK /\ FadesOK /\ OneChange /\ ChangeOK
      /\ OverlapNeeded
      /\ Using /\ RoomsOK /\ LayersOK /\ PausedOK /\ Held
  BY DEF SceneInv
<1>2. TypeOK' BY <1>1, TypeStep
<1>3. ReqShape' BY <1>1, ReqShapeStep
<1>4. InQueue' BY <1>1, InQueueStep
<1>5. OverlapOK' BY <1>1, OverlapOKStep
<1>6. FadesOK' BY <1>1, FadesOKStep
<1>7. OneChange' BY <1>1, OneChangeStep
<1>8. ChangeOK' BY <1>1, ChangeOKStep
<1>9. OverlapNeeded' BY <1>1, OverlapNeededStep
<1>10. Using' BY <1>1, UsingStep
<1>11. RoomsOK' BY <1>1, RoomsOKStep
<1>12. LayersOK' BY <1>1, LayersOKStep
<1>13. PausedOK' BY <1>1, PausedOKStep
<1>14. Held' BY <1>1, HeldStep
<1> QED BY <1>2, <1>3, <1>4, <1>5, <1>6, <1>7, <1>8, <1>9, <1>10, <1>11, <1>12, <1>13, <1>14
           DEF SceneInv

(* and so does a stutter.                                                  *)
LEMMA SceneStutters == ASSUME SceneInv, UNCHANGED vars PROVE SceneInv'
<1> USE DEF vars, sceneVars, fadeVars, Changing
<1>1. /\ TypeOK /\ ReqShape /\ InQueue /\ OverlapOK /\ FadesOK /\ OneChange /\ ChangeOK
      /\ OverlapNeeded
      /\ Using /\ RoomsOK /\ LayersOK /\ PausedOK /\ Held
  BY DEF SceneInv
<1>2. TypeOK' BY <1>1 DEF TypeOK
<1>3. ReqShape' BY <1>1 DEF ReqShape, RequestOK
<1>4. InQueue' BY <1>1 DEF InQueue
<1>5. OverlapOK' BY <1>1 DEF OverlapOK
<1>6. FadesOK' BY <1>1 DEF FadesOK, FadeAt
<1>7. OneChange' BY <1>1 DEF OneChange
<1>8. ChangeOK' BY <1>1 DEF ChangeOK, Together, Expected
<1>9. OverlapNeeded' BY <1>1 DEF OverlapNeeded
<1>10. Using' BY <1>1 DEF Using
<1>11. RoomsOK' BY <1>1 DEF RoomsOK
<1>12. LayersOK' BY <1>1 DEF LayersOK
<1>13. PausedOK' BY <1>1 DEF PausedOK, In
<1>14. Held' BY <1>1 DEF Held, In, CreatingUnder, Active
<1> QED BY <1>2, <1>3, <1>4, <1>5, <1>6, <1>7, <1>8, <1>9, <1>10, <1>11, <1>12, <1>13, <1>14
           DEF SceneInv

(* The requests of f_op_scene_req, the overlap of f_op_overlap_mng, the    *)
(* fade of d_ovlp_fade and the pause flags of f_op_scene_pause agree, each *)
(* where the phase of the others puts it, in every state.                  *)
THEOREM SceneInvariant == Spec => []SceneInv
<1>1. Init => SceneInv
  BY SceneInit, SceneAssumption
<1>2. SceneInv /\ [Next]_vars => SceneInv'
  BY SceneStep, SceneStutters, SceneAssumption
<1> QED BY <1>1, <1>2, PTL DEF Spec

(* overlap_task points to the running fade whenever fopOvlpM_SceneIsStart  *)
(* or fopOvlpM_ToldAboutID follow it, every fade is the overlap's, and a   *)
(* change that fopScnRq_Cancel takes back can always delete its fade: the  *)
(* assertion of the node requests' handler is never reached.               *)
THEOREM OverlapIsSound == Spec => []OverlapSound
<1>1. SceneInv => OverlapSound
  <2> SUFFICES ASSUME SceneInv PROVE OverlapSound
    OBVIOUS
  <2>1. TypeOK /\ ReqShape /\ OverlapOK /\ FadesOK /\ ChangeOK
    BY DEF SceneInv
  <2>2. ASSUME NEW f \in Fades, life[f] = "running"
        PROVE  ov.used /\ (ov.task = f \/ (ov.task = None /\ ov.proc = f /\ executeF # "out"))
    <3>1. ov.used /\ ov.id >= 2 /\ ov.proc = f /\ FadeAt(ov.id, fade[f].msg) /\ ov.id \in 1..7
      BY <2>1, <2>2 DEF FadesOK, OverlapOK
    <3>2. CASE ov.id = 2
      BY <2>1, <3>1, <3>2 DEF OverlapOK, FadeAt
    <3>3. CASE ov.id # 2
      BY <2>1, <3>1, <3>3 DEF OverlapOK
    <3> QED BY <3>2, <3>3
  <2>3. ASSUME NEW r \in Requests, Changing(r), req[r].id >= 5, ov.used
        PROVE  ov.id >= 4 /\ ov.task = ov.proc /\ ov.proc \in Fades /\ life[ov.proc] = "running"
    <3>1. Together(r) /\ req[r].id \in 5..9
      BY <2>1, <2>3 DEF ChangeOK, ReqShape, RequestOK
    <3>2. ov.id \in 4..6
      BY <3>1 DEF Together
    <3> QED BY <2>1, <2>3, <3>2 DEF OverlapOK
  <2>4. ASSUME NEW r \in Requests, Changing(r), req[r].creating # None, ov.used
        PROVE  ov.task # None
    <3>1. req[r].id >= 5
      BY <2>1, <2>4 DEF ReqShape, RequestOK
    <3> QED BY <2>3, <2>4, <3>1, Disjoint, SceneAssumption
  <2>5. ASSUME NEW r \in Requests, Changing(r), Phase(r) \in {"Create", "IsCreated"}
        PROVE  OverlapCancels
    <3>1. req[r].id >= 5
      BY <2>1, <2>5, Phases DEF Changing
    <3> QED BY <2>3, <2>5, <3>1 DEF OverlapCancels, DeletableTask
  <2> QED BY <2>1, <2>2, <2>4, <2>5 DEF OverlapSound, TaskFollowed, CancelSucceeds
<1> QED BY <1>1, SceneInvariant, PTL

(* While fopScnRq deletes the old scene and makes the new one, d_ovlp_fade *)
(* is there, has closed the screen and has not begun to open it.           *)
THEOREM ScreenStaysClosed == Spec => []ClosedWhileReplacing
<1>1. SceneInv => ClosedWhileReplacing
  <2> SUFFICES ASSUME SceneInv, NEW r \in Requests, Replacing(r)
               PROVE  ov.used /\ ov.task # None /\ life[ov.task] = "running" /\ executeF = "wait"
    BY DEF ClosedWhileReplacing
  <2>1. TypeOK /\ ReqShape /\ OverlapOK /\ FadesOK /\ ChangeOK
    BY DEF SceneInv
  <2>2. Changing(r) /\ req[r].id \in 3..7
    BY <2>1, Phases DEF Replacing, Changing
  <2>3. ov.used /\ ov.id = 4
    BY <2>1, <2>2 DEF ChangeOK, Together
  <2>4. ov.task = ov.proc /\ ov.proc \in Fades /\ life[ov.proc] = "running"
    BY <2>1, <2>3 DEF OverlapOK
  <2>5. FadeAt(4, fade[ov.proc].msg)
    BY <2>1, <2>3, <2>4 DEF FadesOK
  <2> QED BY <2>3, <2>4, <2>5, Disjoint, SceneAssumption DEF FadeAt
<1> QED BY <1>1, SceneInvariant, PTL

(* The scene that a change makes, and every room of it that runs, stays    *)
(* under fopScnPause until the fade's first opening frame.                 *)
THEOREM HeldUntilFadeOpens == Spec => []HeldBehindFade
<1>1. SceneInv => HeldBehindFade
  <2> SUFFICES ASSUME SceneInv, NEW r \in Requests, Changing(r), req[r].creating # None,
                      executeF # "out",
                      NEW s \in Scenes, life[s] = "running", In(s, req[r].creating)
               PROVE  paused[s]
    BY DEF HeldBehindFade, In
  <2>1. RoomsOK /\ Held
    BY DEF SceneInv
  <2>2. life[req[r].creating] = "running"
    BY <2>1 DEF In, RoomsOK
  <2> QED BY <2>1, <2>2 DEF Held
<1> QED BY <1>1, SceneInvariant, PTL

(* When no change is under way no running scene is left paused, whether    *)
(* the change was done or failed.                                          *)
THEOREM PausesEnd == Spec => []NoneLeftPaused
<1>1. SceneInv => NoneLeftPaused
  <2>1. SceneInv => PausedOK
    BY DEF SceneInv
  <2> QED BY <2>1 DEF NoneLeftPaused, PausedOK
<1> QED BY <1>1, SceneInvariant, PTL

(* When no change is under way, and none has failed, fopOvlpM_Request can  *)
(* be granted again, or will be when the overlap has gone.                 *)
THEOREM OverlapComesBack == Spec => []OverlapReturns
<1>1. SceneInv => OverlapReturns
  <2> SUFFICES ASSUME SceneInv, \A r \in Requests : ~Changing(r), failed = {}
               PROVE  ~using /\ (ov.used \/ ~ov.busy) /\ (ov.used => OverlapPhase[ov.id] \in {"IsDone", "Done"})
    BY DEF OverlapReturns
  <2>1. OverlapOK /\ OverlapNeeded /\ Using
    BY DEF SceneInv
  <2>2. ~using /\ (ov.used \/ ~ov.busy)
    BY <2>1 DEF Using, OverlapOK
  <2>3. ov.used => ov.id \in 6..7
    BY <2>1 DEF OverlapNeeded, OverlapOK
  <2>4. ov.used => OverlapPhase[ov.id] \in {"IsDone", "Done"}
    BY <2>3 DEF OverlapPhase
  <2> QED BY <2>2, <2>4
<1> QED BY <1>1, SceneInvariant, PTL

(* fopScnM_ReRequest is honoured: the scene that a change makes is of the  *)
(* profile that was asked for last.                                        *)
THEOREM RetargetIsMade == Spec => []RetargetHonoured
<1>1. Init => RetargetHonoured
  BY DEF Init, NoReq, Changing, RetargetHonoured
<1>2. SceneInv /\ RetargetHonoured /\ [Next]_vars => RetargetHonoured'
  <2>1. CASE Next
    BY <2>1, RetargetHonouredStep, SceneAssumption DEF SceneInv
  <2>2. CASE UNCHANGED vars
    BY <2>2 DEF vars, sceneVars, Changing, RetargetHonoured
  <2> QED BY <2>1, <2>2
<1> QED BY <1>1, <1>2, SceneInvariant, PTL DEF Spec
=============================================================================
