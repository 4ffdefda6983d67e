---------------------------- MODULE CommandQueue ----------------------------
(***************************************************************************)
(* What the DVD thread promises the game: the commands it is given are     *)
(* executed one at a time, in the order they were given, each once; a      *)
(* command that was executed is done until the game destroys it.  A        *)
(* command may be lost while it waits and commands are being dropped; then *)
(* nobody is told.                                                         *)
(***************************************************************************)
EXTENDS Naturals, Sequences

CONSTANTS Commands, None
VARIABLES queue, running, done,
          dropping   \* there is no room for the commands that wait; of the environment
vars == <<queue, running, done>>

Queued == {queue[i] : i \in DOMAIN queue}
Given == Queued \union ({running} \ {None}) \union done

Init == queue = <<>> /\ running = None /\ done = {}

Give(c) ==
    /\ c \notin Given
    /\ queue' = Append(queue, c) /\ UNCHANGED <<running, done>>
Begin ==
    /\ running = None /\ queue # <<>>
    /\ running' = Head(queue) /\ queue' = Tail(queue) /\ UNCHANGED done
End ==
    /\ running # None
    /\ done' = done \union {running} /\ running' = None /\ UNCHANGED queue
Destroy(c) ==
    /\ c \in done
    /\ done' = done \ {c} /\ UNCHANGED <<queue, running>>
(* What is sent to the audio may find no room there, or no memory.         *)
Lose(i) ==
    /\ dropping /\ i \in DOMAIN queue
    /\ queue' = SubSeq(queue, 1, i - 1) \o SubSeq(queue, i + 1, Len(queue))
    /\ UNCHANGED <<running, done>>

Serve == Begin \/ End
Next ==
    \/ Serve
    \/ \E c \in Commands : Give(c) \/ Destroy(c)
    \/ \E i \in DOMAIN queue : Lose(i)
(* Spec without the promise that every command is executed in the end.     *)
Safe == Init /\ [][Next]_vars
Spec == Safe /\ WF_vars(Serve)
=============================================================================
