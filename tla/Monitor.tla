------------------------------ MODULE Monitor ------------------------------
(***************************************************************************)
(* What OSMutex and OSCond promise: a mutex one thread holds, as often as  *)
(* it locked it, and a condition.  Who waits lets go of every level of the *)
(* mutex and joins the waiting in one step, so that no signal of a later   *)
(* holder passes it by; it goes on, with all its levels, when it has the   *)
(* mutex again.  It may wake for no reason.                                *)
(***************************************************************************)
EXTENDS Naturals

CONSTANTS Threads, None
VARIABLES holder, level, waiting, signalled, levels
vars == <<holder, level, waiting, signalled, levels>>

Init ==
    /\ holder = None /\ level = 0
    /\ waiting = {} /\ signalled = {}
    /\ levels = [t \in Threads |-> 0]

Active(t) == t \notin waiting \union signalled

Lock(t) ==
    /\ Active(t) /\ holder \in {t, None}
    /\ holder' = t /\ level' = level + 1
    /\ UNCHANGED <<waiting, signalled, levels>>

Unlock(t) ==
    /\ Active(t) /\ holder = t
    /\ level' = level - 1
    /\ holder' = IF level = 1 THEN None ELSE t
    /\ UNCHANGED <<waiting, signalled, levels>>

Wait(t) ==
    /\ Active(t) /\ holder = t
    /\ levels' = [levels EXCEPT ![t] = level]
    /\ holder' = None /\ level' = 0 /\ waiting' = waiting \union {t}
    /\ UNCHANGED signalled

Signal ==
    /\ signalled' = signalled \union waiting /\ waiting' = {}
    /\ UNCHANGED <<holder, level, levels>>

Wake(t) ==
    /\ t \in waiting
    /\ waiting' = waiting \ {t} /\ signalled' = signalled \union {t}
    /\ UNCHANGED <<holder, level, levels>>

Return(t) ==
    /\ t \in signalled /\ holder = None
    /\ signalled' = signalled \ {t}
    /\ holder' = t /\ level' = levels[t]
    /\ levels' = [levels EXCEPT ![t] = 0]
    /\ UNCHANGED waiting

Next ==
    \/ Signal
    \/ \E t \in Threads : Lock(t) \/ Unlock(t) \/ Wait(t) \/ Wake(t) \/ Return(t)
Spec == Init /\ [][Next]_vars
=============================================================================
