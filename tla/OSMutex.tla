------------------------------ MODULE OSMutex ------------------------------
(***************************************************************************)
(* The port's OSMutex and OSCond (dusk/OSMutex.cpp): a recursive host      *)
(* mutex (owner, depth) beside the two GameCube fields the game can read,  *)
(* thread and count, which follow it.  A step is one call of the host or   *)
(* one assignment of the fields, so that another thread may run between    *)
(* any two.  OSWaitCond is only called by the holder of the mutex, as      *)
(* every caller does.                                                      *)
(***************************************************************************)
EXTENDS Naturals

CONSTANTS Threads, None, MaxDepth   \* MaxDepth bounds the recursion

ASSUME MutexAssumption == None \notin Threads /\ MaxDepth \in Nat \ {0}

VARIABLES
    owner, depth,     \* nativeMutex
    thread, count,    \* OSMutex::thread, OSMutex::count
    pc, savedCount    \* where each thread is, and its local in OSWaitCond

vars == <<owner, depth, thread, count, pc, savedCount>>

Points == {"run", "lock", "locked", "unlock", "wait", "asleep", "woken", "relock"}
Waits == {"wait", "asleep", "woken", "relock"}

Init ==
    /\ owner = None /\ depth = 0
    /\ thread = None /\ count = 0
    /\ pc = [t \in Threads |-> "run"]
    /\ savedCount = [t \in Threads |-> 0]

Goes(t, from, to) == pc[t] = from /\ pc' = [pc EXCEPT ![t] = to]

NativeLock(t) ==
    /\ owner \in {t, None}
    /\ owner' = t /\ depth' = depth + 1
NativeUnlock(t) ==
    /\ owner = t
    /\ depth' = depth - 1 /\ owner' = IF depth = 1 THEN None ELSE t

OSLockMutex(t) ==
    /\ Goes(t, "run", "lock") /\ (owner = t => depth < MaxDepth)
    /\ UNCHANGED <<owner, depth, thread, count, savedCount>>
HasLock(t) ==
    /\ Goes(t, "lock", "locked") /\ NativeLock(t)
    /\ UNCHANGED <<thread, count, savedCount>>

OSTryLockMutex(t) ==
    /\ pc[t] = "run" /\ (owner = t => depth < MaxDepth)
    /\ \/ Goes(t, "run", "locked") /\ NativeLock(t)
       \/ owner \notin {t, None} /\ UNCHANGED <<pc, owner, depth>>
    /\ UNCHANGED <<thread, count, savedCount>>

SetFields(t) ==
    /\ Goes(t, "locked", "run")
    /\ thread' = t /\ count' = count + 1
    /\ UNCHANGED <<owner, depth, savedCount>>

(* Whose fields OSUnlockMutex changes: only the holder's are.              *)
(* Mutant: the test of the thread is gone.                                 *)
MayUnlockAny(t) == thread # None
MayUnlock(t) == thread = t
OSUnlockMutex(t) ==
    /\ MayUnlock(t) /\ Goes(t, "run", "unlock")
    /\ count' = count - 1 /\ thread' = IF count = 1 THEN None ELSE thread
    /\ UNCHANGED <<owner, depth, savedCount>>
HasUnlocked(t) ==
    /\ Goes(t, "unlock", "run") /\ NativeUnlock(t)
    /\ UNCHANGED <<thread, count, savedCount>>

OSWaitCond(t) ==
    /\ thread = t /\ Goes(t, "run", "wait")
    /\ savedCount' = [savedCount EXCEPT ![t] = count]
    /\ thread' = None /\ count' = 0
    /\ UNCHANGED <<owner, depth>>

(* The loop that gives the levels back, one at a time, down to KeptLevels. *)
(* Mutant: the mutex is unlocked before the wait, which lets others in.    *)
KeptNone == 0
KeptLevels == 1
GivesLevel(t) ==
    /\ pc[t] = "wait" /\ depth > KeptLevels /\ NativeUnlock(t)
    /\ UNCHANGED <<thread, count, pc, savedCount>>
Sleeps(t) ==
    /\ Goes(t, "wait", "asleep")
    /\ IF owner = t THEN depth = KeptLevels /\ NativeUnlock(t)
       ELSE UNCHANGED <<owner, depth>>
    /\ UNCHANGED <<thread, count, savedCount>>

(* notify_all, by OSSignalCond or the shutdown's ClearCondMap.             *)
OSSignalCond ==
    /\ \E t \in Threads : pc[t] = "asleep"
    /\ pc' = [t \in Threads |-> IF pc[t] = "asleep" THEN "woken" ELSE pc[t]]
    /\ UNCHANGED <<owner, depth, thread, count, savedCount>>
SpuriousWake(t) ==
    /\ Goes(t, "asleep", "woken")
    /\ UNCHANGED <<owner, depth, thread, count, savedCount>>

(* cv.wait has the mutex again; then the other levels, then the fields.    *)
WaitReturns(t) ==
    /\ Goes(t, "woken", "relock") /\ owner = None /\ NativeLock(t)
    /\ UNCHANGED <<thread, count, savedCount>>
LevelsLeft(t) == depth < savedCount[t]
TakesLevel(t) ==
    /\ pc[t] = "relock" /\ LevelsLeft(t) /\ NativeLock(t)
    /\ UNCHANGED <<thread, count, pc, savedCount>>
RestoresFields(t) ==
    /\ Goes(t, "relock", "run") /\ ~LevelsLeft(t)
    /\ thread' = t /\ count' = savedCount[t]
    /\ savedCount' = [savedCount EXCEPT ![t] = 0]
    /\ UNCHANGED <<owner, depth>>

Step(t) ==
    \/ OSLockMutex(t) \/ HasLock(t) \/ OSTryLockMutex(t) \/ SetFields(t)
    \/ OSUnlockMutex(t) \/ HasUnlocked(t)
    \/ OSWaitCond(t) \/ GivesLevel(t) \/ Sleeps(t) \/ SpuriousWake(t)
    \/ WaitReturns(t) \/ TakesLevel(t) \/ RestoresFields(t)
Next == OSSignalCond \/ \E t \in Threads : Step(t)
Spec == Init /\ [][Next]_vars
-----------------------------------------------------------------------------
TypeOK ==
    /\ owner \in Threads \union {None} /\ depth \in 0..MaxDepth
    /\ thread \in Threads \union {None} /\ count \in 0..MaxDepth
    /\ pc \in [Threads -> Points]
    /\ savedCount \in [Threads -> 0..MaxDepth]

(* Between its calls a thread reads fields that agree with the host mutex: *)
(* thread is it exactly when it owns the mutex, count times.  They name    *)
(* nobody else at any time, and are clear while nobody owns it, also while *)
(* others sleep in OSWaitCond.                                             *)
FieldsAgree ==
    /\ thread # None => owner = thread
    /\ owner = None => count = 0
    /\ \A t \in Threads : pc[t] = "run" /\ owner = t => thread = t /\ count = depth

Level ==
    IF owner = None THEN 0
    ELSE IF pc[owner] \in Waits THEN savedCount[owner] ELSE depth
Mon == INSTANCE Monitor WITH
    holder <- owner, level <- Level,
    waiting <- {t \in Threads : pc[t] = "asleep"},
    signalled <- {t \in Threads : pc[t] = "woken"},
    levels <- [t \in Threads |-> IF pc[t] \in {"asleep", "woken"} THEN savedCount[t] ELSE 0]

(* Every step is a step of the monitor: OSWaitCond releases the mutex and  *)
(* joins the waiting at once, though it gives its levels back one by one   *)
(* (the comment in OSWaitCond: "a window where a signal is lost"), and     *)
(* comes back with all of them.                                            *)
ImplementsMonitor == Mon!Spec
=============================================================================
