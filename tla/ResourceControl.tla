-------------------------- MODULE ResourceControl --------------------------
(***************************************************************************)
(* The resource control (d_resorce.cpp): archives shared by name, counted, *)
(* mounted by a command of the DVD thread, and turned into resources when  *)
(* a requester looks (syncRes).  Its users here are actors, which load by  *)
(* dComIfG_resLoad, frame by frame, and let go by dComIfG_resDelete, and   *)
(* Link, who changes clothes and shield while the game runs and keeps      *)
(* their archives in heaps of his own (d_a_alink_swindow.inc).  The DVD    *)
(* thread is the CommandQueue it implements.                               *)
(***************************************************************************)
EXTENDS Naturals, Sequences, FiniteSets, FiniteSetsExt

CONSTANTS
    Slots,       \* mObjectInfo: an interval from 1; a command is named by its slot
    Names,       \* the archives somebody asks for
    Missing,     \* those that are not on the disc
    Actors, Wants,   \* the actors, and the archives they ask for
    Gears, Wardrobe, \* of clothes, shield: the gear Link changes; the archives of each
    Fails,       \* what may fail: "mount", "heap", "load", and "gearLoad", Link's
    Impatient,   \* whether clothes are also changed by who does not look at the timer
    MaxCount     \* bounds the counts

ASSUME ResourceAssumption ==
    /\ IsFiniteSet(Slots) /\ Slots = 1..Cardinality(Slots) /\ IsFiniteSet(Actors)
    /\ Missing \subseteq Names
    /\ Wants \subseteq Names
    /\ Gears \subseteq {"clothes", "shield"} /\ Wardrobe \in [Gears -> SUBSET Names]
    /\ \A g \in Gears : Wardrobe[g] # {} /\ Wardrobe[g] \intersect Missing = {}
    /\ \A g \in Gears : Wants \intersect Wardrobe[g] = {}
    /\ \A g, h \in Gears : g # h => Wardrobe[g] \intersect Wardrobe[h] = {}
    /\ Fails \subseteq {"mount", "heap", "load", "gearLoad"} /\ Impatient \in BOOLEAN
    /\ MaxCount \in Nat \ {0}

VARIABLES
    info,       \* mObjectInfo; mArchive is none, whole, or part: loadResource failed on it
    fetched,    \* the slots whose command has mounted an archive
    queue, running, done,   \* the DVD thread
    actor,      \* an actor's archive and phase request, and how far it is
    link, gear, \* how far Link is; of each gear its timer, archive and phase request
    freed,      \* the slots whose heap was freed under their command or archive
    full        \* a slot was wanted and there was none

NoSlot == 0       \* no slot
NoName == ""      \* of a slot or an actor that asks for nothing
Dvd == INSTANCE CommandQueue WITH Commands <- Slots, None <- NoSlot, dropping <- FALSE
dvdVars == <<queue, running, done>>
resources == <<info, fetched, dvdVars>>
resourceVars == <<resources, actor, link, gear, freed, full>>

NoInfo == [mCount |-> 0, name |-> NoName, mDMCommand |-> FALSE, mArchive |-> "none", mDataHeap |-> FALSE]
Gone == [at |-> "gone", name |-> NoName, id |-> 0]

ResourceInit ==
    /\ info = [s \in Slots |-> NoInfo] /\ fetched = {}
    /\ Dvd!Init
    /\ actor = [a \in Actors |-> Gone]
    /\ link = "creating"
    /\ gear \in [Gears -> [timer : {0}, name : Names, id : {0}]]
    /\ \A g \in Gears : gear[g].name \in Wardrobe[g]
    /\ freed = {} /\ full = FALSE
-----------------------------------------------------------------------------
(* The DVD thread executes; a mount may fail for want of memory.           *)

DvdBegins == Dvd!Begin /\ UNCHANGED <<info, fetched, actor, link, gear, freed, full>>
DvdEnds ==
    /\ Dvd!End
    /\ \/ fetched' = fetched \union {running}
       \/ "mount" \in Fails /\ UNCHANGED fetched
    /\ UNCHANGED <<info, actor, link, gear, freed, full>>
-----------------------------------------------------------------------------
(* dRes_control_c and dRes_info_c.  Every operator is one call, made by a  *)
(* step of the game thread; ret is what it answers.                        *)

InfosOf(n) == {s \in Slots : info[s].mCount # 0 /\ info[s].name = n}
getResInfo(n) == IF InfosOf(n) = {} THEN NoSlot ELSE Min(InfosOf(n))
FreeInfos == {s \in Slots : info[s].mCount = 0}

(* setRes(name) finds the archive registered, and counts another requester *)
(* in, or makes its command in a free slot.  Without a free slot the code  *)
(* calls the destructor of NULL.                                           *)
(* Mutant: who finds the archive registered is not counted.                *)
Uncounted(s) == info[s]
Counted(s) == [info[s] EXCEPT !.mCount = @ + 1]
Refused(n) ==
    /\ getResInfo(n) = NoSlot /\ (FreeInfos = {} \/ n \in Missing)
    /\ full' = (FreeInfos = {}) /\ UNCHANGED resources
Registers(n) ==
    /\ getResInfo(n) = NoSlot /\ FreeInfos # {} /\ n \notin Missing
    /\ LET new == Min(FreeInfos) IN
        /\ info' = [info EXCEPT ![new] = [NoInfo EXCEPT !.name = n, !.mCount = 1, !.mDMCommand = TRUE]]
        /\ Dvd!Give(new)
    /\ UNCHANGED <<fetched, full>>

(* dRes_info_c::setRes() of slot s, info, with a command that is done:     *)
(* what becomes of the slot.  The archives of gear are mounted in heaps of *)
(* Link's own.                                                             *)
OwnHeap(n) == \E g \in Gears : n \in Wardrobe[g]
Mounted(s, inf) ==
    LET i == [inf EXCEPT !.mDMCommand = FALSE] IN
    IF s \notin fetched THEN {[i |-> i, ret |-> "failed"]}
    ELSE {[i |-> [i EXCEPT !.mArchive = "whole", !.mDataHeap = TRUE], ret |-> "ready"]}
         \union {[i |-> [i EXCEPT !.mArchive = "part", !.mDataHeap = (f # "heap")], ret |-> "failed"] :
                 f \in Fails \intersect (IF OwnHeap(i.name) THEN {"gearLoad"} ELSE {"heap", "load"})}

(* The mount failed: nothing will come any more, whoever asks.             *)
Unreadable(s) == info[s].mArchive = "none" /\ ~info[s].mDMCommand
Synced(s, inf) ==
    CASE Unreadable(s) -> {[i |-> inf, ret |-> "failed"]}
      [] inf.mArchive # "none" -> {[i |-> inf, ret |-> "ready"]}
      [] OTHER -> IF s \in done THEN Mounted(s, inf) ELSE {[i |-> inf, ret |-> "waiting"]}
syncRes(s, inf, ret) ==
    \E m \in Synced(s, inf) :
        /\ m.ret = ret /\ info' = [info EXCEPT ![s] = m.i]
        /\ IF inf.mDMCommand /\ ~m.i.mDMCommand
           THEN Dvd!Destroy(s) /\ fetched' = fetched \ {s}
           ELSE UNCHANGED <<dvdVars, fetched>>

(* syncAllRes: every slot with a command, up to the first that is not done.*)
syncAllRes ==
    LET pending == {s \in Slots : info[s].mDMCommand}
        looked == {s \in pending : \A p \in pending : p <= s => p \in done}
    IN \E m \in [looked -> UNION {Mounted(s, info[s]) : s \in looked}] :
        /\ \A s \in looked : m[s] \in Mounted(s, info[s])
        /\ looked # {}
        /\ info' = [s \in Slots |-> IF s \in looked THEN m[s].i ELSE info[s]]
        /\ done' = done \ looked /\ fetched' = fetched \ looked
        /\ UNCHANGED <<queue, running>>

(* The destructor of a slot nobody counts any more: a command that is not  *)
(* done is destroyed all the same.                                         *)
(* Mutant: the slot is torn down though others count on it.                *)
AlwaysLast(s) == TRUE
LastOf(s) == info[s].mCount = 1
deleteRes(n) ==
    LET s == getResInfo(n) IN
    IF s = NoSlot THEN UNCHANGED resources
    ELSE IF ~LastOf(s) THEN
        info' = [info EXCEPT ![s].mCount = @ - 1] /\ UNCHANGED <<fetched, dvdVars>>
    ELSE
        /\ info' = [info EXCEPT ![s] = NoInfo] /\ fetched' = fetched \ {s}
        /\ done' = done \ {s} /\ UNCHANGED <<queue, running>>
-----------------------------------------------------------------------------
(* One call of dComIfG_resLoad for archive n by a phase request at id; o   *)
(* is where the request is afterwards and what the caller gets.  The       *)
(* phases follow one another at once; in a heap of one's own the last one  *)
(* answers INIT.  A new command is not done yet when it is first looked at.*)

Complete == [id |-> 2, phase |-> "COMPLEATE"]
Ready    == [id |-> 2, phase |-> "INIT"]
StillWaiting == [id |-> 1, phase |-> "INIT"]
Error    == [id |-> 0, phase |-> "ERROR"]
Outcomes == {Complete, Ready, StillWaiting, Error}

Looks(s, inf, o) ==
    /\ \/ o = (IF OwnHeap(inf.name) THEN Ready ELSE Complete) /\ syncRes(s, inf, "ready")
       \/ o = StillWaiting /\ syncRes(s, inf, "waiting")
       \/ o = Error /\ syncRes(s, inf, "failed")
    /\ UNCHANGED full
resLoad(n, id, o) ==
    \/ id = 2 /\ o = Complete /\ UNCHANGED <<resources, full>>
    \/ id = 0 /\ o = Error /\ Refused(n)
    \/ id = 0 /\ o = StillWaiting /\ Registers(n)
    \/ \E s \in {getResInfo(n)} \ {NoSlot} :
        \/ id = 0 /\ info[s].mCount < MaxCount /\ Looks(s, Counted(s), o)
        \/ id = 1 /\ Looks(s, info[s], o)
    \/ id = 1 /\ o = Error /\ getResInfo(n) = NoSlot /\ UNCHANGED <<resources, full>>

(* dComIfG_resDelete: only a request that was through gives its count back.*)
(* Mutant: only one that is still loading does.                            *)
GivesBackAtOne(id) == id = 1
GivesBack(id) == id = 2
resDelete(n, id) == IF GivesBack(id) THEN deleteRes(n) ELSE UNCHANGED resources
-----------------------------------------------------------------------------
(* An actor: requested, created frame by frame, deleted at any time.  An   *)
(* error gets it deleted, too.  No more than MaxCount of an archive.       *)

ActorRequested(a) ==
    /\ actor[a].at = "gone"
    /\ \E n \in Wants :
        /\ \A s \in InfosOf(n) :
            info[s].mCount + Cardinality({b \in Actors : actor[b].at = "creating"}) < MaxCount
        /\ actor' = [actor EXCEPT ![a] = [at |-> "creating", name |-> n, id |-> 0]]
    /\ UNCHANGED <<resources, link, gear, freed, full>>
ActorCreates(a) ==
    /\ actor[a].at = "creating"
    /\ \E o \in Outcomes :
        /\ resLoad(actor[a].name, actor[a].id, o)
        /\ actor' = [actor EXCEPT ![a].id = o.id, ![a].at =
               CASE o = Complete -> "created" [] o = Error -> "failed" [] OTHER -> "creating"]
    /\ UNCHANGED <<link, gear, freed>>
ActorDeleted(a) ==
    /\ actor[a].at # "gone" /\ resDelete(actor[a].name, actor[a].id)
    /\ actor' = [actor EXCEPT ![a] = Gone]
    /\ UNCHANGED <<link, gear, freed, full>>

(* The play scene waits for everything that is being loaded.               *)
SceneSyncs == syncAllRes /\ UNCHANGED <<actor, link, gear, freed, full>>
-----------------------------------------------------------------------------
(* Link.                                                                   *)

(* One frame of a load of gear g; timer is 0 while Link is created.  An    *)
(* error is not told from waiting: the load begins anew.                   *)
(* Mutant: the timer is not cleared when the load is complete.             *)
NotCleared(o, again) == again
TimerAfter(o, again) == IF o.phase = "COMPLEATE" THEN 0 ELSE again
GearLoads(g, again) ==
    /\ \E o \in Outcomes :
        /\ resLoad(gear[g].name, gear[g].id, o)
        /\ gear' = [gear EXCEPT ![g].id = o.id, ![g].timer = TimerAfter(o, again)]
    /\ UNCHANGED <<actor, link, freed>>

(* daAlink_c::create: the clothes, then the shield.                        *)
Unloaded == {g \in Gears : gear[g].id # 2}
LinkCreates ==
    /\ link = "creating"
    /\ IF Unloaded = {} THEN link' = "playing" /\ UNCHANGED <<resources, actor, gear, freed, full>>
       ELSE GearLoads(IF "clothes" \in Unloaded THEN "clothes" ELSE "shield", 0)

(* setClothesChange, setShieldChange.  The collection screen waits until   *)
(* the last change is through.  The port's save editors, which change the  *)
(* clothes only, do not.                                                   *)
GearChanged(g) ==
    /\ link = "playing" /\ (gear[g].timer = 0 \/ (Impatient /\ g = "clothes"))
    /\ gear' = [gear EXCEPT ![g].timer = 4]
    /\ UNCHANGED <<resources, actor, link, freed, full>>

(* Freeing a heap of Link's takes the commands and archives that are still *)
(* registered in it along.                                                 *)
HeapFreed(g) == freed' = freed \union
    {s \in Slots : info'[s].name \in Wardrobe[g] /\ (info'[s].mDMCommand \/ info'[s].mArchive # "none")}

(* Before the heap is freed, the port unregisters the clothes by force if  *)
(* resDelete did nothing; not the shield.                                  *)
ByForce(g) == g = "clothes" /\ ~GivesBack(gear[g].id)
Unregister(g) ==
    IF ByForce(g) THEN deleteRes(gear[g].name) ELSE resDelete(gear[g].name, gear[g].id)

(* loadModelDVD, loadShieldModelDVD: the frames of a change.  They run on  *)
(* while Link is leaving: the delete method calls them.  The wrestling suit*)
(* (FLG2_UNK_280000), put on and taken off while the clothes are loaded,   *)
(* lets go of nothing: its last two frames, which only count down, are one.*)
GearFrame(g) ==
    /\ link \in {"playing", "leaving"}
    /\ \/ /\ gear[g].timer = 4 /\ gear' = [gear EXCEPT ![g].timer = 3]
          /\ UNCHANGED <<resources, actor, link, freed, full>>
       \/ /\ gear[g].timer = 3 /\ Unregister(g) /\ HeapFreed(g)
          /\ \E n \in Wardrobe[g] :
                gear' = [gear EXCEPT ![g] = [timer |-> 2, name |-> n, id |-> 0]]
          /\ UNCHANGED <<actor, link, full>>
       \/ /\ g = "clothes" /\ gear[g].timer = 3 /\ gear[g].id = 2
          /\ gear' = [gear EXCEPT ![g].timer = 0]
          /\ UNCHANGED <<resources, actor, link, freed, full>>
       \/ gear[g].timer = 2 /\ GearLoads(g, 2)

LinkLeaves ==
    /\ link = "playing" /\ link' = "leaving"
    /\ UNCHANGED <<resources, actor, gear, freed, full>>
(* ~daAlink_c, once no change is under way; a new Link is created later.   *)
LinkDeleted(g) ==
    /\ link = "leaving" /\ \A h \in Gears : gear[h].timer = 0
    /\ gear[g].id = 2 /\ resDelete(gear[g].name, gear[g].id) /\ HeapFreed(g)
    /\ gear' = [gear EXCEPT ![g].id = 0]
    /\ UNCHANGED <<actor, link, full>>
LinkRequested ==
    /\ link = "leaving" /\ \A g \in Gears : gear[g].timer = 0 /\ gear[g].id = 0
    /\ link' = "creating"
    /\ UNCHANGED <<resources, actor, gear, freed, full>>
-----------------------------------------------------------------------------
(* A command that was destroyed before it was done: the DVD thread has it. *)
Dangling == {s \in Dvd!Queued \union ({running} \ {NoSlot}) : ~info[s].mDMCommand}

(* What the program does after undefined behaviour is not described.       *)
Sound == Dangling = {} /\ freed = {} /\ ~full

Loads == DvdBegins \/ DvdEnds
Frame == \/ SceneSyncs \/ LinkCreates \/ LinkLeaves \/ LinkRequested
         \/ \E a \in Actors : ActorRequested(a) \/ ActorCreates(a) \/ ActorDeleted(a)
         \/ \E g \in Gears : GearChanged(g) \/ GearFrame(g) \/ LinkDeleted(g)
ResourceNext == Sound /\ (Loads \/ Frame)
ResourceSpec == ResourceInit /\ [][ResourceNext]_resourceVars

(* The DVD thread runs, and every actor and Link have their frames.        *)
FairResourceSpec ==
    /\ ResourceSpec /\ WF_resourceVars(Sound /\ Loads) /\ WF_resourceVars(Sound /\ LinkCreates)
    /\ \A a \in Actors : WF_resourceVars(Sound /\ ActorCreates(a))
    /\ \A g \in Gears : WF_resourceVars(Sound /\ GearFrame(g))
-----------------------------------------------------------------------------
ResourceTypeOK ==
    /\ info \in [Slots -> [mCount : 0..MaxCount, name : Names \union {NoName}, mDMCommand : BOOLEAN,
                           mArchive : {"none", "part", "whole"}, mDataHeap : BOOLEAN]]
    /\ \A s \in Slots : info[s].mCount = 0 => info[s] = NoInfo
    /\ queue \in Seq(Slots) /\ running \in Slots \union {NoSlot} /\ done \subseteq Slots
    /\ fetched \subseteq done
    /\ actor \in [Actors -> [at : {"gone", "creating", "created", "failed"},
                             name : Names \union {NoName}, id : 0..2]]
    /\ link \in {"creating", "playing", "leaving"}
    /\ gear \in [Gears -> [timer : {0, 2, 3, 4}, name : Names, id : 0..2]]
    /\ freed \subseteq Slots /\ full \in BOOLEAN

(* An archive is registered in one slot at most, and counted by at least   *)
(* as many as load or hold it, whatever errors, deletions in the middle of *)
(* a load and syncAllRes did: who lets go never takes it from another.     *)
Requests(n) ==
    Cardinality({a \in Actors : actor[a].name = n /\ actor[a].id # 0})
    + Cardinality({g \in Gears : gear[g].name = n /\ gear[g].id # 0})
EveryRequestCounted ==
    \A n \in Names :
        /\ Cardinality(InfosOf(n)) <= 1
        /\ Requests(n) # 0 => \E s \in InfosOf(n) : info[s].mCount >= Requests(n)

(* The commands the DVD thread knows are exactly those a slot points to:   *)
(* none is destroyed while it is queued or executed, and none is forgotten.*)
CommandsOwned == Dvd!Given = {s \in Slots : info[s].mDMCommand}

(* The bookkeeping of the slots: requests are counted, commands owned.     *)
SlotsAgree == ResourceTypeOK /\ EveryRequestCounted /\ CommandsOwned

(* While somebody holds an archive, it stays mounted in the same slot: the *)
(* pointers getObjectRes gave out stay good.                               *)
Held(n) ==
    \/ \E a \in Actors : actor[a].name = n /\ actor[a].id = 2
    \/ \E g \in Gears : gear[g].name = n /\ gear[g].id = 2
HeldStays ==
    [][\A n \in Names : Held(n) /\ Held(n)' =>
        /\ getResInfo(n) # NoSlot /\ getResInfo(n)' = getResInfo(n)
        /\ info[getResInfo(n)].mArchive # "none"
        /\ info'[getResInfo(n)].mArchive = info[getResInfo(n)].mArchive]_resourceVars

(* No heap of Link's is freed under a command of the DVD thread, nor under *)
(* an archive that was read whole.  Under one whose resources could not be *)
(* made it is: the load that failed is counted and never gives its count   *)
(* back, so that the next change of gear does not unregister the archive.  *)
OnlyFailedIsFreed == \A s \in freed : ~info[s].mDMCommand /\ info[s].mArchive = "part"

(* Every load of an actor ends, also when the mount failed.  (The model    *)
(* goes no further than a heap that was freed under an archive.)           *)
LoadEnds == \A a \in Actors :
    actor[a].at = "creating" ~> actor[a].at # "creating" \/ freed # {}

(* Every change of gear ends, unless a mount of its archive failed once:   *)
(* the failed slot stays counted, and Link asks for it for ever.           *)
GearEnds == \A g \in Gears :
    gear[g].timer # 0 ~>
        \/ gear[g].timer = 0
        \/ \E s \in InfosOf(gear[g].name) : Unreadable(s)
        \/ freed # {}
(* Nobody waits for an archive for ever: the two together.                 *)
WaitsEnd == LoadEnds /\ GearEnds

(* What the destructor of mDoDvdThd_command_c warns of does not happen: no *)
(* command is destroyed before it is done.                                 *)
NeverDestroyedEarly == Dangling = {}
=============================================================================
