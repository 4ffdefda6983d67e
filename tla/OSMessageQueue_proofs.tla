----------------------- MODULE OSMessageQueue_proofs -----------------------
(***************************************************************************)
(* Proofs about OSMessageQueue, for every set of threads, every set of     *)
(* messages and every capacity: the ring is a bounded queue, no wake-up is *)
(* lost, and the shutdown wakes whoever sleeps.                            *)
(***************************************************************************)
EXTENDS OSMessageQueue, Integers, FiniteSetTheorems, SequenceTheorems, TLAPS

(* Where a thread is, against its call, the mutex and the ring.            *)
Placed(t) ==
    /\ pc[t] = "idle" <=> call[t] = NoCall
    /\ holder = t <=> pc[t] \in {"inside", "parking"}
    /\ pc[t] = "parking" => MustWait(t)
    /\ shutdown = "notified" /\ pc[t] \in {"asleep", "parking"} => t \in missed
IInv == TypeOK /\ \A t \in Threads : Placed(t)

States == {"idle", "locking", "inside", "parking", "asleep", "woken"}

LEMMA NoCallType == NoCall \notin Calls
  BY SMT DEF NoCall, Calls

(* notify_one wakes at most one, who slept, and lets the caller go.        *)
LEMMA NotifiedEffect ==
  ASSUME TypeOK, NEW t \in Threads, pc[t] = "inside", pc' \in Notified(t)
  PROVE  /\ pc' \in [Threads -> States] /\ pc'[t] = "idle"
         /\ \A u \in Threads \ {t} :
              pc'[u] = pc[u] \/ (pc[u] = "asleep" /\ pc'[u] = "woken" /\ IsReceive(u) = ~IsReceive(t))
<1>1. CASE Asleep(~IsReceive(t)) = {}
  <2>1. pc' = [pc EXCEPT ![t] = "idle"]
    BY <1>1 DEF Notified
  <2> QED
    BY <2>1 DEF TypeOK, States
<1>2. CASE Asleep(~IsReceive(t)) # {}
  <2>1. PICK w \in Asleep(~IsReceive(t)) : pc' = [pc EXCEPT ![t] = "idle", ![w] = "woken"]
    BY <1>2 DEF Notified
  <2>2. w \in Threads /\ pc[w] = "asleep" /\ IsReceive(w) = ~IsReceive(t)
    BY <2>1 DEF Asleep
  <2> QED
    BY <2>1, <2>2 DEF TypeOK, States
<1> QED
  BY <1>1, <1>2

(* Indices stay in the ring.                                               *)
LEMMA ModRange ==
  ASSUME NEW a \in Nat PROVE a % Capacity \in 0..Capacity-1
  BY QueueAssumption, SMT
LEMMA ModSmall ==
  ASSUME NEW a \in 0..Capacity-1 PROVE a % Capacity = a
  BY QueueAssumption, SMT
LEMMA ModNext ==
  ASSUME NEW a \in Capacity..2*Capacity-1 PROVE a % Capacity = a - Capacity
  BY QueueAssumption, SMT
-----------------------------------------------------------------------------
LEMMA InitIInv == Init => IInv
  BY QueueAssumption, SMT DEF Init, IInv, TypeOK, Placed, NoCall

(* A call that is through: the ring is as it should be, everybody else is  *)
(* where he was, or woken.                                                 *)
LEMMA AnswersIInv ==
  ASSUME IInv, NEW t \in Threads, pc[t] = "inside", Answers(t), ~ShuttingDown,
         msgArray' \in [0..Capacity-1 -> Messages \union {None}],
         firstIndex' \in 0..Capacity-1, usedCount' \in 0..Capacity,
         got' \in [Threads -> Messages \union {None}]
  PROVE  IInv'
<1>1. /\ pc' \in [Threads -> States] /\ pc'[t] = "idle"
      /\ \A u \in Threads \ {t} :
           pc'[u] = pc[u] \/ (pc[u] = "asleep" /\ pc'[u] = "woken" /\ IsReceive(u) = ~IsReceive(t))
  BY NotifiedEffect DEF IInv, Answers
<1>2. holder = t /\ holder' = None /\ call' = [call EXCEPT ![t] = NoCall]
      /\ shutdown' = shutdown /\ missed' = missed /\ shutdown = "no"
  BY DEF IInv, Placed, Answers, ShuttingDown, TypeOK
<1>3. TypeOK'
  BY <1>1, <1>2 DEF IInv, TypeOK, States
<1>4. \A u \in Threads : pc[u] # "parking" /\ (u # t => pc[u] # "inside")
  BY <1>2 DEF IInv, Placed
<1>5. ASSUME NEW u \in Threads PROVE Placed(u)'
  <2>1. CASE u = t
    BY <1>1, <1>2, <2>1, QueueAssumption DEF Placed, IInv, TypeOK
  <2>2. CASE u # t
    <3>1. call'[u] = call[u]
      BY <1>2, <2>2 DEF IInv, TypeOK
    <3>2. pc'[u] = pc[u] \/ (pc[u] = "asleep" /\ pc'[u] = "woken")
      BY <1>1, <2>2
    <3> QED
      BY <1>2, <1>4, <2>2, <3>1, <3>2, QueueAssumption DEF Placed, IInv
  <2> QED
    BY <2>1, <2>2
<1> QED
  BY <1>3, <1>5 DEF IInv

LEMMA NextIInv == IInv /\ [Next]_vars => IInv'
<1> SUFFICES ASSUME IInv, [Next]_vars PROVE IInv'
  OBVIOUS
<1> USE QueueAssumption
<1>0. CASE UNCHANGED vars
  BY <1>0 DEF vars, queueVars, IInv, TypeOK, Placed, MustWait, IsReceive, Empty, Full
<1>1. ASSUME NEW t \in Threads, Lock(t) PROVE IInv'
  BY <1>1 DEF Lock, queueVars, IInv, TypeOK, Placed, MustWait, IsReceive, Empty, Full
<1>2. ASSUME NEW t \in Threads, SendMessage(t) PROVE IInv'
  <2>1. pc[t] = "inside" /\ call[t] \in Calls /\ call[t].msg \in Messages
    BY <1>2 DEF SendMessage, Inside, IInv, TypeOK, Placed, Calls, NoCall
  <2>2. usedCount' \in 0..Capacity /\ firstIndex' \in 0..Capacity-1
    BY <1>2, SMT DEF SendMessage, Full, IInv, TypeOK
  <2>3. msgArray' \in [0..Capacity-1 -> Messages \union {None}]
    BY <1>2, <2>1 DEF SendMessage, IInv, TypeOK
  <2> QED
    BY <1>2, <2>1, <2>2, <2>3, AnswersIInv DEF SendMessage, IInv, TypeOK
<1>3. ASSUME NEW t \in Threads, JamMessage(t) PROVE IInv'
  <2>1. pc[t] = "inside" /\ call[t] \in Calls /\ call[t].msg \in Messages
    BY <1>3 DEF JamMessage, Inside, IInv, TypeOK, Placed, Calls, NoCall
  <2>2. firstIndex - 1 + Capacity \in Nat
    BY SMT DEF IInv, TypeOK
  <2>3. usedCount' \in 0..Capacity
    BY <1>3, SMT DEF JamMessage, Full, IInv, TypeOK
  <2>5. firstIndex' \in 0..Capacity-1
    <3>1. firstIndex' = (firstIndex - 1 + Capacity) % Capacity
      BY <1>3 DEF JamMessage, Before
    <3> HIDE QueueAssumption
    <3> QED
      BY <2>2, <3>1, ModRange
  <2>4. msgArray' \in [0..Capacity-1 -> Messages \union {None}]
    BY <1>3, <2>1 DEF JamMessage, IInv, TypeOK
  <2> QED
    BY <1>3, <2>1, <2>3, <2>4, <2>5, AnswersIInv DEF JamMessage, IInv, TypeOK
<1>4. ASSUME NEW t \in Threads, ReceiveMessage(t) PROVE IInv'
  <2>1. pc[t] = "inside"
    BY <1>4 DEF ReceiveMessage, Inside
  <2>2. firstIndex + 1 \in Nat
    BY SMT DEF IInv, TypeOK
  <2>3. usedCount' \in 0..Capacity
    BY <1>4, SMT DEF ReceiveMessage, Empty, IInv, TypeOK
  <2>4. firstIndex' \in 0..Capacity-1
    <3>1. firstIndex' = (firstIndex + 1) % Capacity
      BY <1>4 DEF ReceiveMessage
    <3> HIDE QueueAssumption
    <3> QED
      BY <2>2, <3>1, ModRange
  <2> QED
    BY <1>4, <2>1, <2>3, <2>4, AnswersIInv DEF ReceiveMessage, IInv, TypeOK
<1>5. ASSUME NEW t \in Threads, Refused(t) PROVE IInv'
  BY <1>5 DEF Refused, queueVars, IInv, TypeOK, Placed, MustWait, IsReceive, Empty, Full
<1>6. ASSUME NEW t \in Threads, Parks(t) PROVE IInv'
  BY <1>6 DEF Parks, KeepsWaiting, ShuttingDown, queueVars, IInv, TypeOK, Placed, MustWait,
     IsReceive, Empty, Full
<1>7. ASSUME NEW t \in Threads, Sleeps(t) PROVE IInv'
  BY <1>7 DEF Sleeps, queueVars, IInv, TypeOK, Placed, MustWait, IsReceive, Empty, Full
<1>8. ASSUME NEW t \in Threads, SpuriousWake(t) PROVE IInv'
  BY <1>8 DEF SpuriousWake, queueVars, IInv, TypeOK, Placed, MustWait, IsReceive, Empty, Full
<1>9. ASSUME NEW t \in Threads, NEW c \in Calls, Invoke(t, c) PROVE IInv'
  BY <1>9, NoCallType DEF Invoke, queueVars, IInv, TypeOK, Placed, MustWait, IsReceive, Empty, Full
<1>10. CASE StartShutdown
  BY <1>10 DEF StartShutdown, queueVars, IInv, TypeOK, Placed, MustWait, IsReceive, Empty, Full
<1>11. CASE ClearMsgQueueMap
  <2>1. \A t \in Threads : pc[t] = "asleep" <=> t \in ShutdownWakes
    BY DEF ShutdownWakes, Asleep
  <2> QED
    BY <1>11, <2>1 DEF ClearMsgQueueMap, queueVars, IInv, TypeOK, Placed, MustWait, IsReceive,
       Empty, Full
<1> QED
  BY <1>0, <1>1, <1>2, <1>3, <1>4, <1>5, <1>6, <1>7, <1>8, <1>9, <1>10, <1>11 DEF Next, Step

LEMMA SpecIInv == Spec => []IInv
  BY InitIInv, NextIInv, PTL DEF Spec

(* The ring's index and count, the mutex and every thread's place keep     *)
(* their ranges.                                                           *)
THEOREM QueueTypeOK == Spec => []TypeOK
<1>1. IInv => TypeOK
  BY DEF IInv
<1> QED
  BY <1>1, SpecIInv, PTL

(* After the shutdown nobody sleeps but who was between the test and the   *)
(* wait when all were notified.                                            *)
THEOREM ShutdownReachesSleepers == Spec => []ShutdownWakesAll
<1>1. IInv => ShutdownWakesAll
  BY DEF IInv, Placed, ShutdownWakesAll
<1> QED
  BY <1>1, SpecIInv, PTL
-----------------------------------------------------------------------------
(* No lost wake-up.  What one side has to take, messages or free places,   *)
(* is covered by those of it who are awake while anyone of it sleeps.      *)
Due(r) == IF r THEN usedCount ELSE Capacity - usedCount
Enough(r) == Asleep(r) # {} => Due(r) <= Cardinality(Alert(r))
Covered == shutdown = "no" => Enough(TRUE) /\ Enough(FALSE)

LEMMA AlertFinite ==
  ASSUME NEW r PROVE IsFiniteSet(Alert(r)) /\ Cardinality(Alert(r)) \in Nat
<1>1. Alert(r) \in SUBSET Threads
  BY DEF Alert
<1> QED
  BY <1>1, QueueAssumption, FS_Subset, FS_CardinalityType
LEMMA AlertFinitePrime ==
  ASSUME NEW r PROVE IsFiniteSet(Alert(r)') /\ Cardinality(Alert(r)') \in Nat
<1>1. Alert(r)' \in SUBSET Threads
  BY DEF Alert
<1> QED
  BY <1>1, QueueAssumption, FS_Subset, FS_CardinalityType

(* Nobody of a side falls asleep or stops being awake, and there is no     *)
(* more for it than before.                                                *)
LEMMA EnoughKept ==
  ASSUME NEW r \in BOOLEAN, TypeOK, TypeOK', Enough(r),
         Asleep(r)' \subseteq Asleep(r), Alert(r) \subseteq Alert(r)', usedCount' = usedCount
  PROVE  Enough(r)'
<1>1. Cardinality(Alert(r)) <= Cardinality(Alert(r)')
  BY AlertFinitePrime, FS_Subset
<1>2. Due(r)' = Due(r) /\ Due(r) \in Int
  BY QueueAssumption, SMT DEF Due, TypeOK
<1> QED
  BY <1>1, <1>2, AlertFinite, AlertFinitePrime, SMT DEF Enough

(* There is nothing for a side that must wait.                             *)
LEMMA EnoughForNothing ==
  ASSUME NEW t \in Threads, NEW r \in BOOLEAN, r <=> IsReceive(t), TypeOK, MustWait(t),
         usedCount' = usedCount
  PROVE  Enough(r)'
<1>1. Due(r)' = 0
  BY QueueAssumption, SMT DEF Due, MustWait, Empty, Full, TypeOK
<1> QED
  BY <1>1, AlertFinitePrime, SMT DEF Enough

(* A call that is through takes one from its side and leaves one more for  *)
(* the other, where it wakes one, if one sleeps.                           *)
LEMMA EnoughAfterAnswer ==
  ASSUME IInv, IInv', NEW t \in Threads, pc[t] = "inside", call[t] # NoCall, Answers(t),
         usedCount' = IF IsReceive(t) THEN usedCount - 1 ELSE usedCount + 1,
         NEW r \in BOOLEAN, Enough(r)
  PROVE  Enough(r)'
<1> DEFINE away == Asleep(~IsReceive(t))
<1>0. /\ \A u \in Threads \ {t} : call'[u] = call[u]
      /\ pc' \in Notified(t)
      /\ pc \in [Threads -> States] /\ usedCount \in Nat /\ usedCount' \in Nat /\ Capacity \in Nat
  BY QueueAssumption DEF Answers, IInv, TypeOK, States
<1>1. CASE r = IsReceive(t)
  <2>1. /\ pc'[t] = "idle"
        /\ \A u \in Threads \ {t} : IsReceive(u) = IsReceive(t) => pc'[u] = pc[u]
    BY <1>0, NotifiedEffect DEF IInv
  <2>2. Alert(r)' = Alert(r) \ {t}
    BY <1>0, <1>1, <2>1, NotifiedEffect DEF Alert, IsReceive, IInv
  <2>3. Asleep(r)' = Asleep(r)
    BY <1>0, <1>1, <2>1, NotifiedEffect DEF Asleep, IsReceive, IInv
  <2>4. t \in Alert(r)
    BY <1>1 DEF Alert
  <2>5. Cardinality(Alert(r)') = Cardinality(Alert(r)) - 1
    BY <2>2, <2>4, AlertFinite, FS_RemoveElement
  <2>6. Due(r)' = Due(r) - 1
    BY <1>0, <1>1, SMT DEF Due
  <2>7. Due(r) \in Int
    BY <1>0, SMT DEF Due
  <2> QED
    BY <2>3, <2>5, <2>6, <2>7, AlertFinite, SMT DEF Enough
<1>2. CASE r = ~IsReceive(t) /\ away = {}
  <2>1. pc' = [pc EXCEPT ![t] = "idle"]
    BY <1>0, <1>2 DEF Notified
  <2>2. Asleep(r)' = {}
    BY <1>0, <1>2, <2>1 DEF Asleep, IsReceive
  <2> QED
    BY <2>2 DEF Enough
<1>3. CASE r = ~IsReceive(t) /\ away # {}
  <2>1. PICK w \in away : pc' = [pc EXCEPT ![t] = "idle", ![w] = "woken"]
    BY <1>0, <1>3 DEF Notified
  <2>2. w \in Threads /\ w # t /\ pc[w] = "asleep" /\ IsReceive(w) = r
    BY <1>3 DEF Asleep
  <2>3. Alert(r)' = Alert(r) \union {w}
    BY <1>0, <1>3, <2>1, <2>2 DEF Alert, IsReceive
  <2>4. w \notin Alert(r)
    BY <2>2 DEF Alert
  <2>5. Cardinality(Alert(r)') = Cardinality(Alert(r)) + 1
    BY <2>3, <2>4, AlertFinite, FS_AddElement
  <2>6. Due(r)' = Due(r) + 1
    <3>1. r <=> ~IsReceive(t)
      BY <1>3
    <3> QED
      BY <1>0, <3>1, SMT DEF Due
  <2>7. Due(r) \in Int
    BY <1>0, SMT DEF Due
  <2>8. Due(r) <= Cardinality(Alert(r))
    BY <1>3 DEF Enough
  <2> QED
    BY <2>5, <2>6, <2>7, <2>8, AlertFinite, SMT DEF Enough
<1> QED
  BY <1>1, <1>2, <1>3 DEF IsReceive

LEMMA NextCovered == IInv /\ IInv' /\ Covered /\ [Next]_vars => Covered'
<1> SUFFICES ASSUME IInv, IInv', Covered, [Next]_vars, shutdown' = "no"
             PROVE  Enough(TRUE)' /\ Enough(FALSE)'
  BY DEF Covered
<1>0. /\ pc \in [Threads -> States] /\ TypeOK /\ TypeOK' /\ call \in [Threads -> Calls \union {NoCall}]
      /\ \A t \in Threads : Placed(t)
  BY DEF IInv, TypeOK, States
<1>a. shutdown = "no" /\ Enough(TRUE) /\ Enough(FALSE)
  BY DEF Next, Step, vars, Lock, SendMessage, JamMessage, ReceiveMessage, Answers, Refused, Parks,
     Sleeps, SpuriousWake, Invoke, StartShutdown, ClearMsgQueueMap, Covered
<1>1. ASSUME NEW r \in BOOLEAN, UNCHANGED vars PROVE Enough(r)'
  BY <1>1, <1>a DEF vars, queueVars, Enough, Due, Asleep, Alert, IsReceive
<1>2. ASSUME NEW r \in BOOLEAN, NEW t \in Threads, Lock(t) PROVE Enough(r)'
  <2>1. Asleep(r)' \subseteq Asleep(r) /\ Alert(r) \subseteq Alert(r)' /\ usedCount' = usedCount
    BY <1>0, <1>2 DEF Lock, queueVars, Asleep, Alert, IsReceive
  <2> QED
    BY <1>0, <1>a, <2>1, EnoughKept
<1>3. ASSUME NEW r \in BOOLEAN, NEW t \in Threads,
             SendMessage(t) \/ JamMessage(t) \/ ReceiveMessage(t)
      PROVE  Enough(r)'
  <2>1. pc[t] = "inside" /\ Answers(t) /\ call[t] # NoCall
    BY <1>0, <1>3 DEF SendMessage, JamMessage, ReceiveMessage, Inside, Placed
  <2>2. usedCount' = IF IsReceive(t) THEN usedCount - 1 ELSE usedCount + 1
    BY <1>3 DEF SendMessage, JamMessage, ReceiveMessage, Inside, IsReceive
  <2> QED
    BY <1>a, <2>1, <2>2, EnoughAfterAnswer
<1>4. ASSUME NEW r \in BOOLEAN, NEW t \in Threads, Refused(t) \/ Parks(t) \/ Sleeps(t)
      PROVE  Enough(r)'
  <2>1. MustWait(t) /\ usedCount' = usedCount
    BY <1>0, <1>4, <1>a DEF Refused, Parks, Sleeps, KeepsWaiting, ShuttingDown, Placed, queueVars
  <2>2. CASE r <=> IsReceive(t)
    BY <1>0, <2>1, <2>2, EnoughForNothing
  <2>3. CASE ~(r <=> IsReceive(t))
    <3>1. Asleep(r)' \subseteq Asleep(r) /\ Alert(r) \subseteq Alert(r)'
      BY <1>0, <1>4, <2>3 DEF Refused, Parks, Sleeps, queueVars, Asleep, Alert, IsReceive, NoCall
    <3> QED
      BY <1>0, <1>a, <2>1, <3>1, EnoughKept
  <2> QED
    BY <2>2, <2>3
<1>5. ASSUME NEW r \in BOOLEAN, NEW t \in Threads, SpuriousWake(t) PROVE Enough(r)'
  <2>1. Asleep(r)' \subseteq Asleep(r) /\ Alert(r) \subseteq Alert(r)' /\ usedCount' = usedCount
    BY <1>0, <1>5 DEF SpuriousWake, queueVars, Asleep, Alert, IsReceive
  <2> QED
    BY <1>0, <1>a, <2>1, EnoughKept
<1>6. ASSUME NEW r \in BOOLEAN, NEW t \in Threads, NEW c \in Calls, Invoke(t, c) PROVE Enough(r)'
  <2>1. Asleep(r)' \subseteq Asleep(r) /\ Alert(r) \subseteq Alert(r)' /\ usedCount' = usedCount
    BY <1>0, <1>6 DEF Invoke, queueVars, Asleep, Alert, IsReceive
  <2> QED
    BY <1>0, <1>a, <2>1, EnoughKept
<1>7. ~StartShutdown /\ ~ClearMsgQueueMap
  BY <1>a DEF StartShutdown, ClearMsgQueueMap
<1> QED
  BY <1>1, <1>2, <1>3, <1>4, <1>5, <1>6, <1>7 DEF Next, Step

(* One notify_one for each message and for each free place is enough: no   *)
(* thread sleeps over what it waits for, before the shutdown.              *)
THEOREM NoWakeupIsLost == Spec => []NoLostWakeup
<1>1. Init => Covered
  BY DEF Init, Covered, Enough, Asleep
<1>2. TypeOK /\ Covered => NoLostWakeup
  BY DEF Covered, Enough, Due, NoLostWakeup
<1> QED
  BY <1>1, <1>2, SpecIInv, NextCovered, QueueTypeOK, PTL DEF Spec
-----------------------------------------------------------------------------
(* The refinement: the ring, read from firstIndex, is the queue.           *)
Ring(i) == (firstIndex + i - 1) % Capacity
Values == Messages \union {None}

(* How indices wrap round.                                                 *)
LEMMA RingWraps ==
  ASSUME NEW f \in 0..Capacity-1, NEW i \in 1..Capacity
  PROVE  (f + i - 1) % Capacity = IF f + i - 1 < Capacity THEN f + i - 1 ELSE f + i - 1 - Capacity
<1>1. PICK x \in 0..2*Capacity-1 : x = f + i - 1
  BY QueueAssumption, SMT
<1>2. CASE x < Capacity
  <2>1. x \in 0..Capacity-1
    BY <1>2, QueueAssumption, SMT
  <2>2. x % Capacity = x
    BY <2>1, ModSmall
  <2> QED
    BY <1>1, <1>2, <2>2
<1>3. CASE ~(x < Capacity)
  <2>1. x \in Capacity..2*Capacity-1
    BY <1>3, QueueAssumption, SMT
  <2>2. x % Capacity = x - Capacity
    BY <2>1, ModNext
  <2>3. (f + i - 1) % Capacity = x - Capacity /\ x - Capacity = f + i - 1 - Capacity
    <3>1. (f + i - 1) % Capacity = x - Capacity
      BY <1>1, <2>2, Zenon
    <3>2. x - Capacity = f + i - 1 - Capacity
      BY <1>1, QueueAssumption, SMT
    <3> QED
      BY <3>1, <3>2
  <2>4. ~(f + i - 1 < Capacity)
    BY <1>1, <1>3
  <2> QED
    BY <2>3, <2>4, Zenon
<1> QED
  BY <1>2, <1>3

LEMMA RingIndex ==
  ASSUME NEW f \in 0..Capacity-1, NEW i \in 1..Capacity
  PROVE  (f + i - 1) % Capacity \in 0..Capacity-1
  BY RingWraps, QueueAssumption, SMT

LEMMA BeforeWraps ==
  ASSUME NEW f \in 0..Capacity-1
  PROVE  Before(f) = IF f = 0 THEN Capacity - 1 ELSE f - 1
<1>1. Capacity \in 1..Capacity /\ f + Capacity - 1 = f - 1 + Capacity
  BY QueueAssumption, SMT
<1>2. Before(f) = (f + Capacity - 1) % Capacity
  BY <1>1 DEF Before
<1>3. (f + Capacity - 1) % Capacity
        = IF f + Capacity - 1 < Capacity THEN f + Capacity - 1 ELSE f + Capacity - 1 - Capacity
  BY <1>1, RingWraps
<1> QED
  BY <1>2, <1>3, QueueAssumption, SMT
LEMMA AfterWraps ==
  ASSUME NEW f \in 0..Capacity-1
  PROVE  (f + 1) % Capacity = IF f + 1 = Capacity THEN 0 ELSE f + 1
<1>1. CASE Capacity = 1
  BY <1>1, SMT
<1>2. CASE Capacity # 1
  <2>1. 2 \in 1..Capacity /\ f + 2 - 1 = f + 1
    BY <1>2, QueueAssumption, SMT
  <2> QED
    BY <2>1, RingWraps, QueueAssumption, SMT
<1> QED
  BY <1>1, <1>2

LEMMA RingRange ==
  ASSUME TypeOK, NEW i \in 1..Capacity PROVE Ring(i) \in 0..Capacity-1
  BY RingWraps, QueueAssumption, SMT DEF TypeOK, Ring

(* Two places of the ring are different while it is not longer than the    *)
(* array.                                                                  *)
LEMMA RingInjective ==
  ASSUME NEW f \in 0..Capacity-1, NEW i \in 1..Capacity, NEW j \in 1..Capacity, i # j
  PROVE  (f + i - 1) % Capacity # (f + j - 1) % Capacity
  BY RingWraps, QueueAssumption, SMT

LEMMA ContentsIsSeq ==
  ASSUME TypeOK
  PROVE  /\ Contents \in Seq(Values) /\ Len(Contents) = usedCount
         /\ \A i \in 1..usedCount : Contents[i] = msgArray[Ring(i)]
<1>1. usedCount \in Nat /\ 1..usedCount \subseteq 1..Capacity
  BY QueueAssumption, SMT DEF TypeOK
<1>2. ASSUME NEW i \in 1..usedCount PROVE msgArray[Ring(i)] \in Values
  BY <1>1, RingRange DEF TypeOK, Values
<1>3. Contents = [i \in 1..usedCount |-> msgArray[Ring(i)]]
  BY DEF Contents, Ring
<1>4. Contents \in [1..usedCount -> Values]
  BY <1>2, <1>3
<1>5. Contents \in Seq(Values) /\ Len(Contents) = usedCount
  BY <1>1, <1>4, SMT
<1> QED
  BY <1>3, <1>5
LEMMA ContentsIsSeqPrime ==
  ASSUME TypeOK'
  PROVE  /\ Contents' \in Seq(Values) /\ Len(Contents') = usedCount'
         /\ \A i \in 1..usedCount' : Contents'[i] = msgArray'[Ring(i)']
<1>1. usedCount' \in Nat /\ 1..usedCount' \subseteq 1..Capacity
  BY QueueAssumption, SMT DEF TypeOK
<1>2. ASSUME NEW i \in 1..usedCount' PROVE msgArray'[Ring(i)'] \in Values
  <2>1. i \in 1..Capacity /\ firstIndex' \in 0..Capacity-1
    BY <1>1 DEF TypeOK
  <2>2. Ring(i)' \in 0..Capacity-1
    BY <2>1, RingIndex, Zenon DEF Ring
  <2> QED
    BY <2>2 DEF TypeOK, Values
<1>3. Contents' = [i \in 1..usedCount' |-> msgArray'[Ring(i)']]
  BY DEF Contents, Ring
<1>4. Contents' \in [1..usedCount' -> Values]
  BY <1>2, <1>3
<1>5. Contents' \in Seq(Values) /\ Len(Contents') = usedCount'
  BY <1>1, <1>4, SMT
<1> QED
  BY <1>3, <1>5

LEMMA SendAppends ==
  ASSUME IInv, IInv', NEW t \in Threads, SendMessage(t)
  PROVE  Contents' = Append(Contents, call[t].msg)
<1> DEFINE n == usedCount
<1>0. TypeOK /\ TypeOK' /\ n \in Nat /\ n < Capacity /\ Capacity \in Nat /\ usedCount' = n + 1
  BY QueueAssumption, SMT DEF SendMessage, Full, IInv, TypeOK
<1>1. call[t].msg \in Messages /\ firstIndex' = firstIndex
      /\ msgArray' = [msgArray EXCEPT ![Ring(n + 1)] = call[t].msg]
  <2>1. firstIndex + (n + 1) - 1 = firstIndex + n
    BY <1>0, SMT DEF TypeOK
  <2> QED
    BY <2>1 DEF SendMessage, Inside, IInv, TypeOK, Placed, Calls, NoCall, Ring
<1>2. \A i \in 1..n+1 : Ring(i)' = Ring(i)
  BY <1>1 DEF Ring
<1>3. ASSUME NEW i \in 1..n PROVE Contents'[i] = Contents[i]
  <2>1. i \in 1..Capacity /\ n + 1 \in 1..Capacity /\ i # n + 1 /\ i \in 1..n+1
    BY <1>0, SMT
  <2>2. Ring(i) # Ring(n + 1) /\ Ring(i) \in 0..Capacity-1
    BY <1>0, <2>1, RingInjective, RingRange DEF Ring, TypeOK
  <2> QED
    BY <1>0, <1>1, <1>2, <2>1, <2>2, ContentsIsSeq, ContentsIsSeqPrime DEF TypeOK
<1>4. Contents'[n + 1] = call[t].msg
  <2>1. n + 1 \in 1..Capacity /\ n + 1 \in 1..n+1
    BY <1>0, SMT
  <2>2. Ring(n + 1) \in 0..Capacity-1
    BY <1>0, <2>1, RingRange
  <2> QED
    BY <1>0, <1>1, <1>2, <2>1, <2>2, ContentsIsSeqPrime DEF TypeOK
<1>5. call[t].msg \in Values
  BY <1>1 DEF Values
<1>6. /\ Append(Contents, call[t].msg) \in Seq(Values)
      /\ Len(Append(Contents, call[t].msg)) = n + 1
      /\ \A i \in 1..n : Append(Contents, call[t].msg)[i] = Contents[i]
      /\ Append(Contents, call[t].msg)[n + 1] = call[t].msg
  BY <1>0, <1>5, ContentsIsSeq, AppendProperties
<1>7. Contents' \in Seq(Values) /\ Len(Contents') = n + 1
  BY <1>0, ContentsIsSeqPrime
<1>8. \A i \in 1..n+1 : i = n + 1 \/ i \in 1..n
  BY <1>0, SMT
<1> QED
  BY <1>3, <1>4, <1>6, <1>7, <1>8, SeqEqual

LEMMA JamPrepends ==
  ASSUME IInv, IInv', NEW t \in Threads, JamMessage(t)
  PROVE  Contents' = <<call[t].msg>> \o Contents
<1> DEFINE n == usedCount
           m == call[t].msg
<1>0. TypeOK /\ TypeOK' /\ n \in Nat /\ n < Capacity /\ Capacity \in Nat \ {0} /\ usedCount' = n + 1
  BY QueueAssumption, SMT DEF JamMessage, Full, IInv, TypeOK
<1>1. m \in Messages /\ firstIndex' = Before(firstIndex)
      /\ msgArray' = [msgArray EXCEPT ![firstIndex'] = m]
  BY DEF JamMessage, Inside, IInv, TypeOK, Placed, Calls, NoCall
<1>2. firstIndex' = (IF firstIndex = 0 THEN Capacity - 1 ELSE firstIndex - 1)
      /\ firstIndex \in 0..Capacity-1 /\ firstIndex' \in 0..Capacity-1
  BY <1>0, <1>1, BeforeWraps DEF TypeOK
<1>3. Ring(1)' = firstIndex'
  <2>1. 1 \in 1..Capacity
    BY <1>0, SMT
  <2> QED
    BY <1>0, <1>2, <2>1, RingWraps, SMT DEF Ring
<1>4. ASSUME NEW i \in 1..n PROVE Ring(i + 1)' = Ring(i)
  <2>1. i \in 1..Capacity /\ i + 1 \in 1..Capacity
    BY <1>0, SMT
  <2>2. /\ Ring(i) = IF firstIndex + i - 1 < Capacity THEN firstIndex + i - 1
                     ELSE firstIndex + i - 1 - Capacity
        /\ Ring(i + 1)' = IF firstIndex' + (i + 1) - 1 < Capacity THEN firstIndex' + (i + 1) - 1
                          ELSE firstIndex' + (i + 1) - 1 - Capacity
    BY <1>2, <2>1, RingWraps DEF Ring
  <2> QED
    BY <1>0, <1>2, <2>1, <2>2, SMT
<1>5. Contents'[1] = m
  <2>1. 1 \in 1..n+1 /\ firstIndex' \in 0..Capacity-1
    BY <1>0, SMT DEF TypeOK
  <2> QED
    BY <1>0, <1>1, <1>3, <2>1, ContentsIsSeqPrime DEF TypeOK
<1>6. ASSUME NEW i \in 1..n PROVE Contents'[i + 1] = Contents[i]
  <2>1. i \in 1..Capacity /\ i + 1 \in 1..n+1 /\ i + 1 \in 1..Capacity /\ 1 \in 1..Capacity /\ i + 1 # 1
    BY <1>0, SMT
  <2>2. Ring(i) \in 0..Capacity-1
    BY <1>0, <2>1, RingRange
  <2>3. Ring(i) # firstIndex'
    <3>1. Ring(i + 1)' # Ring(1)'
      BY <1>2, <2>1, RingInjective DEF Ring
    <3> QED
      BY <1>0, <1>3, <1>4, <3>1
  <2> QED
    BY <1>0, <1>1, <1>4, <2>1, <2>2, <2>3, ContentsIsSeq, ContentsIsSeqPrime DEF TypeOK
<1>7. <<m>> \in Seq(Values) /\ Len(<<m>>) = 1 /\ <<m>>[1] = m
  BY <1>1 DEF Values
<1>8. /\ <<m>> \o Contents \in Seq(Values) /\ Len(<<m>> \o Contents) = 1 + n
      /\ \A i \in 1..1+n : (<<m>> \o Contents)[i] = IF i <= 1 THEN <<m>>[i] ELSE Contents[i - 1]
  BY <1>0, <1>7, ContentsIsSeq, ConcatProperties
<1>9. Contents' \in Seq(Values) /\ Len(Contents') = n + 1 /\ n + 1 = 1 + n
  BY <1>0, ContentsIsSeqPrime, SMT
<1>10. ASSUME NEW i \in 1..n+1 PROVE Contents'[i] = (<<m>> \o Contents)[i]
  <2>1. CASE i = 1
    BY <1>5, <1>7, <1>8, <1>9, <2>1
  <2>2. CASE i # 1
    <3>1. i - 1 \in 1..n /\ (i - 1) + 1 = i /\ ~(i <= 1) /\ i \in 1..1+n
      BY <1>0, <2>2, SMT
    <3>2. Contents'[(i - 1) + 1] = Contents[i - 1]
      BY <1>6, <3>1
    <3> QED
      BY <1>8, <3>1, <3>2
  <2> QED
    BY <2>1, <2>2
<1> QED
  BY <1>8, <1>9, <1>10, SeqEqual

LEMMA ReceiveTakes ==
  ASSUME IInv, IInv', NEW t \in Threads, ReceiveMessage(t)
  PROVE  /\ Contents # <<>> /\ Contents' = Tail(Contents)
         /\ got' = [got EXCEPT ![t] = Head(Contents)]
<1> DEFINE n == usedCount
<1>0. TypeOK /\ TypeOK' /\ n \in Nat /\ n > 0 /\ n <= Capacity /\ Capacity \in Nat \ {0}
      /\ usedCount' = n - 1 /\ n - 1 \in Nat
  BY QueueAssumption, SMT DEF ReceiveMessage, Empty, IInv, TypeOK
<1>1. firstIndex' = (firstIndex + 1) % Capacity /\ msgArray' = msgArray
      /\ got' = [got EXCEPT ![t] = msgArray[firstIndex]]
  BY DEF ReceiveMessage
<1>2. Contents \in Seq(Values) /\ Len(Contents) = n /\ Contents # <<>>
  BY <1>0, ContentsIsSeq, EmptySeq
<1>3. Head(Contents) = msgArray[firstIndex]
  <2>1. 1 \in 1..n /\ firstIndex + 1 - 1 = firstIndex /\ firstIndex \in 0..Capacity-1
    BY <1>0, SMT DEF TypeOK
  <2>2. Ring(1) = firstIndex
    BY <2>1, ModSmall DEF Ring
  <2>3. Head(Contents) = Contents[1]
    BY <1>2, SMT
  <2> QED
    BY <1>0, <2>1, <2>2, <2>3, ContentsIsSeq
<1>4. ASSUME NEW i \in 1..n-1 PROVE Ring(i)' = Ring(i + 1)
  <2>1. /\ i \in 1..Capacity /\ i + 1 \in 1..Capacity
        /\ firstIndex \in 0..Capacity-1 /\ firstIndex' \in 0..Capacity-1
    BY <1>0, SMT DEF TypeOK
  <2>2. firstIndex' = IF firstIndex + 1 = Capacity THEN 0 ELSE firstIndex + 1
    BY <1>1, <2>1, AfterWraps
  <2>3. /\ Ring(i)' = IF firstIndex' + i - 1 < Capacity THEN firstIndex' + i - 1
                      ELSE firstIndex' + i - 1 - Capacity
        /\ Ring(i + 1) = IF firstIndex + (i + 1) - 1 < Capacity THEN firstIndex + (i + 1) - 1
                         ELSE firstIndex + (i + 1) - 1 - Capacity
    BY <2>1, RingWraps DEF Ring
  <2> QED
    BY <1>0, <2>1, <2>2, <2>3, SMT
<1>5. /\ Tail(Contents) \in Seq(Values) /\ Len(Tail(Contents)) = n - 1
      /\ \A i \in 1..n-1 : Tail(Contents)[i] = Contents[i + 1]
  BY <1>2, HeadTailProperties
<1>6. Contents' \in Seq(Values) /\ Len(Contents') = n - 1
  BY <1>0, ContentsIsSeqPrime
<1>7. ASSUME NEW i \in 1..n-1 PROVE Contents'[i] = Contents[i + 1]
  <2>1. i + 1 \in 1..n
    BY <1>0, SMT
  <2> QED
    BY <1>0, <1>1, <1>4, <2>1, ContentsIsSeq, ContentsIsSeqPrime
<1>8. Contents' = Tail(Contents)
  BY <1>5, <1>6, <1>7, SeqEqual
<1> QED
  BY <1>1, <1>2, <1>3, <1>8

LEMMA InitRefines == Init => Abstract!Init
<1> SUFFICES ASSUME Init PROVE Abstract!Init
  OBVIOUS
<1>1. TypeOK
  BY InitIInv DEF IInv
<1>2. Contents = <<>>
  BY <1>1, ContentsIsSeq, SMT DEF Init
<1> QED
  BY <1>2 DEF Init, Abstract!Init, Abstract!NoCall, NoCall, ShuttingDown

LEMMA NextRefines == IInv /\ IInv' /\ [Next]_vars => [Abstract!Next]_(Abstract!vars)
<1> SUFFICES ASSUME IInv, IInv', [Next]_vars PROVE [Abstract!Next]_(Abstract!vars)
  OBVIOUS
<1>0. TypeOK /\ TypeOK' /\ Len(Contents) = usedCount /\ Abstract!NoCall = NoCall /\ Abstract!Calls = Calls
  BY ContentsIsSeq DEF IInv, Abstract!NoCall, NoCall, Abstract!Calls, Calls
<1>1. ASSUME NEW t \in Threads, SendMessage(t) \/ JamMessage(t) PROVE Abstract!Put(t)
  <2>1. usedCount < Capacity
    BY <1>0, <1>1, QueueAssumption, SMT DEF SendMessage, JamMessage, Full, TypeOK
  <2>2. /\ call[t].op \in {"send", "jam"} /\ call' = [call EXCEPT ![t] = NoCall]
        /\ got' = got /\ shutdown' = shutdown
    BY <1>1 DEF SendMessage, JamMessage, Inside, Answers
  <2>3. Contents' = IF call[t].op = "send" THEN Append(Contents, call[t].msg)
                    ELSE <<call[t].msg>> \o Contents
    BY <1>1, SendAppends, JamPrepends DEF SendMessage, JamMessage, Inside
  <2> QED
    BY <1>0, <2>1, <2>2, <2>3 DEF Abstract!Put, Abstract!Answered, ShuttingDown
<1>2. ASSUME NEW t \in Threads, ReceiveMessage(t) PROVE Abstract!Take(t)
  BY <1>0, <1>2, ReceiveTakes DEF ReceiveMessage, Inside, Answers, Abstract!Take, Abstract!Answered,
     ShuttingDown
<1>3. ASSUME queueVars' = queueVars PROVE Contents' = Contents
  BY <1>3 DEF queueVars, Contents
<1>4. ASSUME NEW t \in Threads, Refused(t) PROVE Abstract!Refuse(t)
  <2>1. call[t] # NoCall /\ call' = [call EXCEPT ![t] = NoCall]
    BY <1>4 DEF Refused, IInv, Placed
  <2>2. MustWait(t) => Abstract!WouldWait(t)
    <3>1. Empty => Contents = <<>>
      BY <1>0, ContentsIsSeq, EmptySeq, SMT DEF Empty
    <3>2. Full => usedCount = Capacity
      BY <1>0, QueueAssumption, SMT DEF Full, TypeOK
    <3> QED
      BY <1>0, <3>1, <3>2 DEF MustWait, IsReceive, Abstract!WouldWait
  <2> QED
    BY <1>0, <1>3, <1>4, <2>1, <2>2 DEF Refused, Abstract!Refuse, Abstract!Answered, ShuttingDown
<1>5. ASSUME NEW t \in Threads, NEW c \in Calls, Invoke(t, c) PROVE Abstract!Invoke(t, c)
  BY <1>0, <1>3, <1>5 DEF Invoke, IInv, Placed, Abstract!Invoke, ShuttingDown
<1>6. StartShutdown => Abstract!Close
  BY <1>3 DEF StartShutdown, Abstract!Close, ShuttingDown
<1>7. ASSUME \/ UNCHANGED vars
             \/ ClearMsgQueueMap
             \/ \E t \in Threads : Lock(t) \/ Parks(t) \/ Sleeps(t) \/ SpuriousWake(t)
      PROVE  UNCHANGED Abstract!vars
  BY <1>3, <1>7 DEF vars, ClearMsgQueueMap, Lock, Parks, Sleeps, SpuriousWake, Abstract!vars,
     ShuttingDown
<1> QED
  BY <1>0, <1>1, <1>2, <1>4, <1>5, <1>6, <1>7 DEF Next, Step, Abstract!Next

(* The ring buffer with its mutex and conditions is a bounded queue: first *)
(* in, first out but for what was jammed, nothing lost or doubled, and no  *)
(* blocking call refused before the shutdown.                              *)
THEOREM RingImplementsQueue == Spec => ImplementsQueue
  BY InitRefines, NextRefines, SpecIInv, PTL DEF Spec, ImplementsQueue, Abstract!Spec
=============================================================================
