--------------------------- MODULE OSMessageQueue ---------------------------
(***************************************************************************)
(* The port's OSMessageQueue (dusk/stubs.cpp): a ring buffer guarded by a  *)
(* host mutex with two condition variables, cvSend for space and cvReceive *)
(* for messages.  A step is what a thread does between two points where    *)
(* the host may switch: before it has the mutex, with the mutex after its  *)
(* test (parking), asleep, woken.  The host wakes whom it likes on         *)
(* notify_one, and anybody at any time (spurious wake-ups).                *)
(* OSResetSystem sets IsShuttingDown and notifies without the mutex.       *)
(***************************************************************************)
EXTENDS Naturals, Sequences, FiniteSets

CONSTANTS Threads, Messages, Capacity, None

ASSUME QueueAssumption ==
    /\ Capacity \in Nat \ {0} /\ None \notin Threads \union Messages
    /\ IsFiniteSet(Threads)

VARIABLES
    msgArray, firstIndex, usedCount,   \* the queue
    holder,                            \* who has data.mtx
    pc, call, got,                     \* where each thread is, in which call; what it received
    shutdown,                          \* no, IsShuttingDown, notified
    missed                             \* history: who was between test and wait when all were notified

queueVars == <<msgArray, firstIndex, usedCount>>
vars == <<queueVars, holder, pc, call, got, shutdown, missed>>

NoCall == [op |-> "none", msg |-> None, block |-> FALSE]
Calls == [op : {"send", "jam"}, msg : Messages, block : BOOLEAN]
         \union [op : {"receive"}, msg : {None}, block : BOOLEAN]
IsReceive(t) == call[t].op = "receive"
Asleep(receive) == {t \in Threads : pc[t] = "asleep" /\ IsReceive(t) = receive}

Init ==
    /\ msgArray = [i \in 0..Capacity-1 |-> None] /\ firstIndex = 0 /\ usedCount = 0
    /\ holder = None
    /\ pc = [t \in Threads |-> "idle"] /\ call = [t \in Threads |-> NoCall]
    /\ got = [t \in Threads |-> None]
    /\ shutdown = "no" /\ missed = {}

Invoke(t, c) ==
    /\ pc[t] = "idle"
    /\ pc' = [pc EXCEPT ![t] = "locking"] /\ call' = [call EXCEPT ![t] = c]
    /\ got' = [got EXCEPT ![t] = None]
    /\ UNCHANGED <<queueVars, holder, shutdown, missed>>

(* The mutex is taken on entry, and again by a thread that was woken.      *)
Lock(t) ==
    /\ pc[t] \in {"locking", "woken"} /\ holder = None
    /\ holder' = t /\ pc' = [pc EXCEPT ![t] = "inside"]
    /\ UNCHANGED <<queueVars, call, got, shutdown, missed>>

Full == usedCount >= Capacity
Empty == usedCount = 0
MustWait(t) == IF IsReceive(t) THEN Empty ELSE Full
ShuttingDown == shutdown # "no"

(* notify_one on the condition the other side waits for.                   *)
(* Mutant: only the first message is announced.                            *)
NotifiedFirst(t) ==
    IF Asleep(~IsReceive(t)) = {} \/ (~IsReceive(t) /\ ~Empty) THEN {[pc EXCEPT ![t] = "idle"]}
    ELSE {[pc EXCEPT ![t] = "idle", ![w] = "woken"] : w \in Asleep(~IsReceive(t))}
Notified(t) ==
    IF Asleep(~IsReceive(t)) = {} THEN {[pc EXCEPT ![t] = "idle"]}
    ELSE {[pc EXCEPT ![t] = "idle", ![w] = "woken"] : w \in Asleep(~IsReceive(t))}

Answers(t) ==
    /\ pc' \in Notified(t)
    /\ holder' = None /\ call' = [call EXCEPT ![t] = NoCall]
    /\ UNCHANGED <<shutdown, missed>>
Inside(t, ops) == pc[t] = "inside" /\ call[t].op \in ops

SendMessage(t) ==
    /\ Inside(t, {"send"}) /\ ~Full /\ ~ShuttingDown
    /\ msgArray' = [msgArray EXCEPT ![(firstIndex + usedCount) % Capacity] = call[t].msg]
    /\ usedCount' = usedCount + 1
    /\ Answers(t) /\ UNCHANGED <<firstIndex, got>>

(* Mutant: the index goes back without wrapping round.                     *)
BeforeUnwrapped(i) == IF i = 0 THEN 0 ELSE i - 1
Before(i) == (i - 1 + Capacity) % Capacity
JamMessage(t) ==
    /\ Inside(t, {"jam"}) /\ ~Full /\ ~ShuttingDown
    /\ firstIndex' = Before(firstIndex)
    /\ msgArray' = [msgArray EXCEPT ![firstIndex'] = call[t].msg]
    /\ usedCount' = usedCount + 1
    /\ Answers(t) /\ UNCHANGED got

ReceiveMessage(t) ==
    /\ Inside(t, {"receive"}) /\ ~Empty /\ ~ShuttingDown
    /\ got' = [got EXCEPT ![t] = msgArray[firstIndex]]
    /\ firstIndex' = (firstIndex + 1) % Capacity /\ usedCount' = usedCount - 1
    /\ Answers(t) /\ UNCHANGED msgArray

(* The call answers 0: it must not block, or the system shuts down.        *)
Refused(t) ==
    /\ pc[t] = "inside"
    /\ ShuttingDown \/ (MustWait(t) /\ ~call[t].block)
    /\ pc' = [pc EXCEPT ![t] = "idle"] /\ holder' = None
    /\ call' = [call EXCEPT ![t] = NoCall]
    /\ UNCHANGED <<queueVars, got, shutdown, missed>>

(* The predicate of wait was false; the mutex is still held.               *)
KeepsWaiting(t) == MustWait(t) /\ ~ShuttingDown
Parks(t) ==
    /\ pc[t] = "inside" /\ call[t].block /\ KeepsWaiting(t)
    /\ pc' = [pc EXCEPT ![t] = "parking"]
    /\ UNCHANGED <<queueVars, holder, call, got, shutdown, missed>>

(* wait releases the mutex and sleeps in one step.                         *)
Sleeps(t) ==
    /\ pc[t] = "parking"
    /\ pc' = [pc EXCEPT ![t] = "asleep"] /\ holder' = None
    /\ UNCHANGED <<queueVars, call, got, shutdown, missed>>

SpuriousWake(t) ==
    /\ pc[t] = "asleep"
    /\ pc' = [pc EXCEPT ![t] = "woken"]
    /\ UNCHANGED <<queueVars, holder, call, got, shutdown, missed>>

(* OSResetSystem, first IsShuttingDown, then ClearMsgQueueMap.             *)
StartShutdown ==
    /\ shutdown = "no" /\ shutdown' = "flagged"
    /\ UNCHANGED <<queueVars, holder, pc, call, got, missed>>

(* Mutant: only the receivers are notified.                                *)
ShutdownWakesReceivers == Asleep(TRUE)
ShutdownWakes == Asleep(TRUE) \union Asleep(FALSE)
ClearMsgQueueMap ==
    /\ shutdown = "flagged" /\ shutdown' = "notified"
    /\ pc' = [t \in Threads |-> IF t \in ShutdownWakes THEN "woken" ELSE pc[t]]
    /\ missed' = {t \in Threads : pc[t] = "parking"}
    /\ UNCHANGED <<queueVars, holder, call, got>>

Step(t) ==
    \/ Lock(t) \/ SendMessage(t) \/ JamMessage(t) \/ ReceiveMessage(t)
    \/ Refused(t) \/ Parks(t) \/ Sleeps(t)
Next ==
    \/ \E t \in Threads : Step(t) \/ SpuriousWake(t) \/ \E c \in Calls : Invoke(t, c)
    \/ StartShutdown \/ ClearMsgQueueMap
Spec == Init /\ [][Next]_vars
-----------------------------------------------------------------------------
TypeOK ==
    /\ msgArray \in [0..Capacity-1 -> Messages \union {None}]
    /\ firstIndex \in 0..Capacity-1 /\ usedCount \in 0..Capacity
    /\ holder \in Threads \union {None}
    /\ pc \in [Threads -> {"idle", "locking", "inside", "parking", "asleep", "woken"}]
    /\ call \in [Threads -> Calls \union {NoCall}]
    /\ got \in [Threads -> Messages \union {None}]
    /\ shutdown \in {"no", "flagged", "notified"} /\ missed \subseteq Threads

(* Until the shutdown: while somebody sleeps for a message, every message  *)
(* in the queue has a receiver that was woken for it or is about to look;  *)
(* the same for space.  So the one notify_one of a call is enough.         *)
Alert(receive) == {t \in Threads : pc[t] \in {"woken", "inside"} /\ IsReceive(t) = receive}
NoLostWakeup ==
    shutdown = "no" =>
        /\ Asleep(TRUE) # {} => usedCount <= Cardinality(Alert(TRUE))
        /\ Asleep(FALSE) # {} => Capacity - usedCount <= Cardinality(Alert(FALSE))

(* After the shutdown only those sleep that had tested IsShuttingDown and  *)
(* were not asleep yet when all were notified: ClearMsgQueueMap does not   *)
(* take the mutex of the queue.                                            *)
ShutdownWakesAll ==
    shutdown = "notified" => \A t \in Threads : pc[t] = "asleep" => t \in missed

Contents == [i \in 1..usedCount |-> msgArray[(firstIndex + i - 1) % Capacity]]
Abstract == INSTANCE BoundedQueue WITH queue <- Contents, closing <- ShuttingDown

(* Every step is a step of the abstract queue: messages come out in the    *)
(* order they were sent or jammed, none is lost or doubled, and no         *)
(* blocking call is refused before the shutdown.                           *)
ImplementsQueue == Abstract!Spec
=============================================================================
