--------------------------- MODULE OSMutex_proofs ---------------------------
(***************************************************************************)
(* Proofs about OSMutex: the fields follow the host mutex, and the whole   *)
(* implements the Monitor, for every set of threads and every depth.       *)
(***************************************************************************)
EXTENDS OSMutex, TLAPS

(* Where a thread is, against the host mutex and the fields.               *)
Placed(t) ==
    /\ pc[t] \in {"locked", "unlock"} => owner = t /\ depth = count + 1
    /\ pc[t] \in {"wait", "relock"} => owner = t /\ thread = None /\ depth <= savedCount[t]
    /\ pc[t] \in {"asleep", "woken"} => owner # t /\ savedCount[t] # 0
    /\ pc[t] \in {"run", "lock"} /\ owner = t => thread = t /\ count = depth
    /\ pc[t] = "lock" /\ owner = t => depth < MaxDepth
    /\ pc[t] \in {"run", "lock", "locked", "unlock"} => savedCount[t] = 0

(* The inductive invariant: FieldsAgree says nothing of the levels that    *)
(* are given back and taken again around a wait.                           *)
IInv ==
    /\ TypeOK
    /\ owner = None <=> depth = 0
    /\ thread = None <=> count = 0
    /\ thread # None => owner = thread
    /\ \A t \in Threads : Placed(t)

LEMMA InitIInv == Init => IInv
  BY MutexAssumption, SMT DEF Init, IInv, TypeOK, Placed, Points

LEMMA NextIInv == IInv /\ [Next]_vars => IInv'
<1> SUFFICES ASSUME IInv, [Next]_vars PROVE IInv'
  OBVIOUS
<1> USE MutexAssumption
<1>0. UNCHANGED vars => IInv'
  BY SMT DEF IInv, TypeOK, Placed, vars, Points
<1>1. ASSUME OSSignalCond PROVE IInv'
  BY <1>1, SMT DEF IInv, TypeOK, Placed, Points, OSSignalCond
<1>2. ASSUME NEW t \in Threads, OSLockMutex(t) PROVE IInv'
  BY <1>2, SMT DEF IInv, TypeOK, Placed, Points, OSLockMutex, Goes
<1>3. ASSUME NEW t \in Threads, HasLock(t) PROVE IInv'
  BY <1>3, SMT DEF IInv, TypeOK, Placed, Points, HasLock, Goes, NativeLock
<1>4. ASSUME NEW t \in Threads, OSTryLockMutex(t) PROVE IInv'
  BY <1>4, SMT DEF IInv, TypeOK, Placed, Points, OSTryLockMutex, Goes, NativeLock
<1>5. ASSUME NEW t \in Threads, SetFields(t) PROVE IInv'
  BY <1>5, SMT DEF IInv, TypeOK, Placed, Points, SetFields, Goes
<1>6. ASSUME NEW t \in Threads, OSUnlockMutex(t) PROVE IInv'
  BY <1>6, SMT DEF IInv, TypeOK, Placed, Points, OSUnlockMutex, MayUnlock, Goes
<1>7. ASSUME NEW t \in Threads, HasUnlocked(t) PROVE IInv'
  BY <1>7, SMT DEF IInv, TypeOK, Placed, Points, HasUnlocked, Goes, NativeUnlock
<1>8. ASSUME NEW t \in Threads, OSWaitCond(t) PROVE IInv'
  BY <1>8, SMT DEF IInv, TypeOK, Placed, Points, OSWaitCond, Goes
<1>9. ASSUME NEW t \in Threads, GivesLevel(t) PROVE IInv'
  BY <1>9, SMT DEF IInv, TypeOK, Placed, Points, GivesLevel, NativeUnlock, KeptLevels
<1>10. ASSUME NEW t \in Threads, Sleeps(t) PROVE IInv'
  BY <1>10, SMT DEF IInv, TypeOK, Placed, Points, Sleeps, Goes, NativeUnlock, KeptLevels
<1>11. ASSUME NEW t \in Threads, SpuriousWake(t) PROVE IInv'
  BY <1>11, SMT DEF IInv, TypeOK, Placed, Points, SpuriousWake, Goes
<1>12. ASSUME NEW t \in Threads, WaitReturns(t) PROVE IInv'
  BY <1>12, SMT DEF IInv, TypeOK, Placed, Points, WaitReturns, Goes, NativeLock
<1>13. ASSUME NEW t \in Threads, TakesLevel(t) PROVE IInv'
  BY <1>13, SMT DEF IInv, TypeOK, Placed, Points, TakesLevel, LevelsLeft, NativeLock
<1>14. ASSUME NEW t \in Threads, RestoresFields(t) PROVE IInv'
  BY <1>14, SMT DEF IInv, TypeOK, Placed, Points, RestoresFields, LevelsLeft, Goes
<1> QED
  BY <1>0, <1>1, <1>2, <1>3, <1>4, <1>5, <1>6, <1>7, <1>8, <1>9, <1>10, <1>11, <1>12, <1>13,
     <1>14 DEF Next, Step

LEMMA SpecIInv == Spec => []IInv
  BY InitIInv, NextIInv, PTL DEF Spec

(* The variables keep their types; the depth never passes MaxDepth.        *)
THEOREM MutexTypeOK == Spec => []TypeOK
<1>1. IInv => TypeOK
  BY DEF IInv
<1> QED
  BY <1>1, SpecIInv, PTL

(* The fields of OSMutex agree with the host mutex between two calls, and  *)
(* never name a thread that does not own it.                               *)
THEOREM MutexFieldsAgree == Spec => []FieldsAgree
<1>1. IInv => FieldsAgree
  BY MutexAssumption, SMT DEF IInv, TypeOK, Placed, Points, FieldsAgree
<1> QED
  BY <1>1, SpecIInv, PTL
-----------------------------------------------------------------------------
(* The refinement.  Only these steps are seen by the Monitor; the others   *)
(* stutter, because Level counts the levels a waiting thread gave back.    *)

Asleep == {t \in Threads : pc[t] = "asleep"}
Woken == {t \in Threads : pc[t] = "woken"}
Levels == [t \in Threads |-> IF pc[t] \in {"asleep", "woken"} THEN savedCount[t] ELSE 0]

LEMMA InitRefines == Init => Mon!Init
  BY MutexAssumption, SMT DEF Init, Mon!Init, Level, Waits

LEMMA LockRefines ==
  ASSUME IInv, NEW t \in Threads, HasLock(t) \/ OSTryLockMutex(t)
  PROVE  [Mon!Lock(t)]_(Mon!vars)
<1> USE MutexAssumption
<1>1. CASE pc[t] \in {"run", "lock"} /\ NativeLock(t) /\ pc' = [pc EXCEPT ![t] = "locked"]
  <2>1. savedCount' = savedCount
    BY DEF HasLock, OSTryLockMutex
  <2>2. Level' = Level + 1
    BY <1>1, <2>1, SMT DEF IInv, TypeOK, Placed, Points, NativeLock, Level, Waits
  <2>3. Asleep' = Asleep /\ Woken' = Woken /\ Levels' = Levels
    BY <1>1, <2>1, SMT DEF IInv, TypeOK, Points, Asleep, Woken, Levels
  <2>4. t \notin Asleep \union Woken
    BY <1>1 DEF Asleep, Woken
  <2> QED
    BY <1>1, <2>2, <2>3, <2>4 DEF Mon!Lock, Mon!Active, NativeLock, Asleep, Woken, Levels
<1>2. CASE UNCHANGED <<pc, owner, depth, savedCount>>
  BY <1>2 DEF Mon!vars, Level
<1> QED
  BY <1>1, <1>2, SMT DEF HasLock, OSTryLockMutex, Goes, IInv, TypeOK

LEMMA UnlockRefines ==
  ASSUME IInv, NEW t \in Threads, HasUnlocked(t)
  PROVE  Mon!Unlock(t)
<1> USE MutexAssumption
<1>1. Level = depth /\ Level' = depth - 1
  BY SMT DEF IInv, TypeOK, Placed, Points, HasUnlocked, Goes, NativeUnlock, Level, Waits
<1>2. Asleep' = Asleep /\ Woken' = Woken /\ Levels' = Levels
  BY SMT DEF IInv, TypeOK, Points, HasUnlocked, Goes, Asleep, Woken, Levels
<1>3. t \notin Asleep \union Woken
  BY DEF HasUnlocked, Goes, Asleep, Woken
<1> QED
  BY <1>1, <1>2, <1>3 DEF Mon!Unlock, Mon!Active, HasUnlocked, NativeUnlock, Asleep, Woken, Levels

LEMMA SleepRefines ==
  ASSUME IInv, NEW t \in Threads, Sleeps(t)
  PROVE  Mon!Wait(t)
<1> USE MutexAssumption
<1>1. owner = t /\ pc[t] = "wait" /\ owner' = None /\ depth' = 0
  BY SMT DEF IInv, TypeOK, Placed, Sleeps, Goes, NativeUnlock, KeptLevels
<1>2. Level = savedCount[t] /\ Level' = 0
  BY <1>1 DEF Level, Waits
<1>3. Asleep' = Asleep \union {t} /\ Woken' = Woken
  BY SMT DEF IInv, TypeOK, Points, Sleeps, Goes, Asleep, Woken
<1>4. Levels' = [Levels EXCEPT ![t] = Level]
  <2>1. savedCount' = savedCount /\ \A u \in Threads : pc'[u] = IF u = t THEN "asleep" ELSE pc[u]
    BY SMT DEF IInv, TypeOK, Sleeps, Goes
  <2>2. \A u \in Threads : Levels'[u] = IF u = t THEN Level ELSE Levels[u]
    BY <1>2, <2>1 DEF Levels
  <2>3. Levels = [u \in Threads |-> Levels[u]] /\ Levels' = [u \in Threads |-> Levels'[u]]
    BY DEF Levels
  <2> QED
    BY <2>2, <2>3, Zenon
<1>5. t \notin Asleep \union Woken
  BY <1>1 DEF Asleep, Woken
<1> QED
  BY <1>1, <1>2, <1>3, <1>4, <1>5 DEF Mon!Wait, Mon!Active, Asleep, Woken, Levels

LEMMA WakeRefines ==
  ASSUME IInv, NEW t \in Threads, SpuriousWake(t)
  PROVE  Mon!Wake(t)
<1> USE MutexAssumption
<1>1. Level' = Level
  BY SMT DEF IInv, TypeOK, Placed, Points, SpuriousWake, Goes, Level, Waits
<1>2. Asleep' = Asleep \ {t} /\ Woken' = Woken \union {t} /\ Levels' = Levels /\ t \in Asleep
  BY SMT DEF IInv, TypeOK, Points, SpuriousWake, Goes, Asleep, Woken, Levels
<1> QED
  BY <1>1, <1>2 DEF Mon!Wake, SpuriousWake, Asleep, Woken, Levels

LEMMA SignalRefines ==
  ASSUME IInv, OSSignalCond
  PROVE  Mon!Signal
<1> USE MutexAssumption
<1>1. Level' = Level
  BY SMT DEF IInv, TypeOK, Placed, Points, OSSignalCond, Level, Waits
<1>2. Woken' = Woken \union Asleep /\ Asleep' = {} /\ Levels' = Levels
  BY SMT DEF IInv, TypeOK, Points, OSSignalCond, Asleep, Woken, Levels
<1> QED
  BY <1>1, <1>2 DEF Mon!Signal, OSSignalCond, Asleep, Woken, Levels

LEMMA ReturnRefines ==
  ASSUME IInv, NEW t \in Threads, WaitReturns(t)
  PROVE  Mon!Return(t)
<1> USE MutexAssumption
<1>1. owner = None /\ owner' = t /\ pc[t] = "woken" /\ Level' = savedCount[t] /\ Levels[t] = savedCount[t]
  BY SMT DEF IInv, TypeOK, Points, WaitReturns, Goes, NativeLock, Level, Waits, Levels
<1>2. Woken' = Woken \ {t} /\ Asleep' = Asleep /\ t \in Woken
  BY SMT DEF IInv, TypeOK, Points, WaitReturns, Goes, Asleep, Woken
<1>3. Levels' = [Levels EXCEPT ![t] = 0]
  <2>1. savedCount' = savedCount /\ \A u \in Threads : pc'[u] = IF u = t THEN "relock" ELSE pc[u]
    BY SMT DEF IInv, TypeOK, WaitReturns, Goes
  <2>2. \A u \in Threads : Levels'[u] = IF u = t THEN 0 ELSE Levels[u]
    BY <2>1 DEF Levels
  <2>3. Levels = [u \in Threads |-> Levels[u]] /\ Levels' = [u \in Threads |-> Levels'[u]]
    BY DEF Levels
  <2> QED
    BY <2>2, <2>3, Zenon
<1> QED
  BY <1>1, <1>2, <1>3 DEF Mon!Return, Asleep, Woken, Levels

(* The steps of one thread the Monitor does not see.                       *)
LEMMA StepStutters ==
  ASSUME IInv, NEW t \in Threads,
         OSLockMutex(t) \/ SetFields(t) \/ OSUnlockMutex(t) \/ OSWaitCond(t)
         \/ GivesLevel(t) \/ TakesLevel(t) \/ RestoresFields(t)
  PROVE  UNCHANGED Mon!vars
<1> USE MutexAssumption
<1>1. owner' = owner
  BY SMT DEF IInv, TypeOK, Placed, Points, OSLockMutex, SetFields, OSUnlockMutex, OSWaitCond,
     GivesLevel, TakesLevel, RestoresFields, Goes, NativeLock, NativeUnlock, KeptLevels
<1>2. Asleep' = Asleep /\ Woken' = Woken /\ Levels' = Levels
  BY SMT DEF IInv, TypeOK, Points, OSLockMutex, SetFields, OSUnlockMutex, OSWaitCond,
     GivesLevel, TakesLevel, RestoresFields, Goes, Asleep, Woken, Levels
<1>3. Level' = Level
  <2>1. CASE OSLockMutex(t) \/ SetFields(t) \/ OSUnlockMutex(t)
    BY <1>1, <2>1, SMT DEF IInv, TypeOK, Points, OSLockMutex, SetFields, OSUnlockMutex, Goes,
       Level, Waits
  <2>2. CASE OSWaitCond(t)
    BY <1>1, <2>2, SMT DEF IInv, TypeOK, Placed, Points, OSWaitCond, Goes, Level, Waits
  <2>3. CASE GivesLevel(t) \/ TakesLevel(t)
    BY <1>1, <2>3, SMT DEF IInv, TypeOK, Placed, Points, GivesLevel, TakesLevel, NativeLock,
       NativeUnlock, Level, Waits
  <2>4. CASE RestoresFields(t)
    BY <1>1, <2>4, SMT DEF IInv, TypeOK, Placed, Points, RestoresFields, LevelsLeft, Goes, Level, Waits
  <2> QED
    BY <2>1, <2>2, <2>3, <2>4
<1> QED
  BY <1>1, <1>2, <1>3 DEF Mon!vars, Asleep, Woken, Levels

LEMMA NextRefines == IInv /\ [Next]_vars => [Mon!Next]_(Mon!vars)
<1> SUFFICES ASSUME IInv, [Next]_vars PROVE [Mon!Next]_(Mon!vars)
  OBVIOUS
<1>1. CASE UNCHANGED vars
  BY <1>1 DEF vars, Mon!vars, Level
<1>2. CASE OSSignalCond
  BY <1>2, SignalRefines DEF Mon!Next
<1>3. ASSUME NEW t \in Threads, Step(t) PROVE [Mon!Next]_(Mon!vars)
  BY <1>3, LockRefines, UnlockRefines, SleepRefines, WakeRefines, ReturnRefines, StepStutters
     DEF Step, Mon!Next
<1> QED
  BY <1>1, <1>2, <1>3 DEF Next

(* OSWaitCond, OSSignalCond and the mutex calls are together a monitor:    *)
(* no signal is lost between the release of the mutex and the wait, and a  *)
(* wait returns with every level it gave back.                             *)
THEOREM MutexImplementsMonitor == Spec => ImplementsMonitor
  BY InitRefines, NextRefines, SpecIInv, PTL DEF Spec, ImplementsMonitor, Mon!Spec
=============================================================================
