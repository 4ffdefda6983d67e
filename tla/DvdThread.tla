----------------------------- MODULE DvdThread -----------------------------
(***************************************************************************)
(* The DVD thread (m_Do_dvd_thread.cpp).  The game thread creates commands *)
(* and links them into mNodeList under mMutext, the DVD thread cuts them   *)
(* out and either executes them itself or, once the audio has started      *)
(* (SyncWidthSound), sends them to the audio's disc thread, whose queue of *)
(* AudioMessages messages the audio's own tasks share, and which needs     *)
(* memory of JASKernel's command heap for every message.                   *)
(***************************************************************************)
EXTENDS Naturals, Sequences, FiniteSets

CONSTANTS
    Commands,        \* the commands that may exist at a time
    AudioMessages,   \* what the queue of the audio's disc thread holds
    Tasks,           \* bounds the audio's own tasks that wait in it
    Task, None

ASSUME DvdAssumption ==
    /\ AudioMessages \in Nat \ {0} /\ Tasks \in Nat
    /\ Task \notin Commands /\ None \notin Commands \union {Task}

VARIABLES
    made, mIsDone,        \* the commands that exist; those that were executed
    mNodeList, mMutext,   \* the list, and which thread holds its mutex
    kicked,               \* mMessageQueue, of one message that says nothing
    main, dvd,            \* where the two threads are, and with which command
    SyncWidthSound,
    messages, audio,      \* the audio's disc thread: its queue, what it executes
    heapFull              \* the command heap cannot give memory; of the environment

vars == <<made, mIsDone, mNodeList, mMutext, kicked, main, dvd, SyncWidthSound, messages, audio,
          heapFull>>

Queued(seq) == {seq[i] : i \in DOMAIN seq}

Init ==
    /\ made = {} /\ mIsDone = {}
    /\ mNodeList = <<>> /\ mMutext = "nobody" /\ kicked = FALSE
    /\ main = [step |-> 0, command |-> None]
    /\ dvd = [pc |-> "waitForKick", command |-> None]
    /\ SyncWidthSound = FALSE /\ messages = <<>> /\ audio = None /\ heapFull = FALSE

(* kick() does not wait: a second kick before the first is received says   *)
(* nothing new.                                                            *)
Kick == kicked' = TRUE
-----------------------------------------------------------------------------
(* The game thread: create(), which ends in addition(), and destroy().     *)

create(c) ==
    /\ main.step = 0 /\ c \in Commands \ made
    /\ made' = made \union {c}
    /\ main' = [step |-> 1, command |-> c]
    /\ UNCHANGED <<mIsDone, mNodeList, mMutext, kicked, dvd, SyncWidthSound, messages, audio,
                   heapFull>>

(* Mutant: the thread is kicked before the command is in its list.         *)
KickFirst == <<"kick", "lock", "link", "unlock">>
AdditionSteps == <<"lock", "link", "unlock", "kick">>
AdditionDoes(step) == main.step > 0 /\ AdditionSteps[main.step] = step
AdditionGoesOn ==
    /\ main' = IF main.step = Len(AdditionSteps) THEN [step |-> 0, command |-> None]
               ELSE [main EXCEPT !.step = @ + 1]
    /\ UNCHANGED <<made, mIsDone, dvd, SyncWidthSound, messages, audio, heapFull>>

AdditionLocks ==
    /\ AdditionDoes("lock") /\ mMutext = "nobody" /\ mMutext' = "main"
    /\ AdditionGoesOn /\ UNCHANGED <<mNodeList, kicked>>
AdditionLinks ==
    /\ AdditionDoes("link") /\ mNodeList' = Append(mNodeList, main.command)
    /\ AdditionGoesOn /\ UNCHANGED <<mMutext, kicked>>
AdditionUnlocks ==
    /\ AdditionDoes("unlock") /\ mMutext' = "nobody"
    /\ AdditionGoesOn /\ UNCHANGED <<mNodeList, kicked>>
AdditionKicks ==
    /\ AdditionDoes("kick") /\ Kick
    /\ AdditionGoesOn /\ UNCHANGED <<mNodeList, mMutext>>
addition == AdditionLocks \/ AdditionLinks \/ AdditionUnlocks \/ AdditionKicks

(* sync() said that the command is done.                                   *)
destroy(c) ==
    /\ main.step = 0 /\ c \in mIsDone
    /\ made' = made \ {c} /\ mIsDone' = mIsDone \ {c}
    /\ UNCHANGED <<mNodeList, mMutext, kicked, main, dvd, SyncWidthSound, messages, audio,
                   heapFull>>

AudioStarts ==
    /\ main.step = 0 /\ ~SyncWidthSound /\ SyncWidthSound' = TRUE
    /\ UNCHANGED <<made, mIsDone, mNodeList, mMutext, kicked, main, dvd, messages, audio, heapFull>>
-----------------------------------------------------------------------------
(* The DVD thread: mainLoop().                                             *)

DvdGoes(from, to) ==
    /\ dvd.pc = from /\ dvd' = [dvd EXCEPT !.pc = to]
    /\ UNCHANGED <<made, main, SyncWidthSound, audio, heapFull>>

waitForKick ==
    /\ kicked /\ kicked' = FALSE
    /\ DvdGoes("waitForKick", "getFirstCommand")
    /\ UNCHANGED <<mIsDone, mNodeList, mMutext, messages>>

(* The head is read without the mutex.                                     *)
getFirstCommand ==
    /\ dvd.pc = "getFirstCommand"
    /\ dvd' = IF mNodeList = <<>> THEN [pc |-> "waitForKick", command |-> None]
              ELSE [pc |-> "lock", command |-> Head(mNodeList)]
    /\ UNCHANGED <<made, mIsDone, mNodeList, mMutext, kicked, main, SyncWidthSound, messages, audio,
                   heapFull>>

(* cut(): cLs_SingleCut under the mutex, then a kick of its own.           *)
CutLocks ==
    /\ mMutext = "nobody" /\ mMutext' = "dvd" /\ DvdGoes("lock", "cut")
    /\ UNCHANGED <<mIsDone, mNodeList, kicked, messages>>
Without(seq, i) == SubSeq(seq, 1, i - 1) \o SubSeq(seq, i + 1, Len(seq))
CutUnlinks ==
    /\ \E i \in DOMAIN mNodeList :
          mNodeList[i] = dvd.command /\ mNodeList' = Without(mNodeList, i)
    /\ DvdGoes("cut", "unlock")
    /\ UNCHANGED <<mIsDone, mMutext, kicked, messages>>
CutUnlocks ==
    /\ mMutext' = "nobody" /\ DvdGoes("unlock", "kick")
    /\ UNCHANGED <<mIsDone, mNodeList, kicked, messages>>
CutKicks ==
    /\ Kick /\ DvdGoes("kick", "execute")
    /\ UNCHANGED <<mIsDone, mNodeList, mMutext, messages>>

(* sendCmdMsg takes memory for the message (allocCallStack) and does not   *)
(* wait; its answer is not looked at: there is no second try when there is *)
(* no memory or the queue is full.                                         *)
(* Mutant: the queue holds one message less.                               *)
RoomToSpare == Len(messages) + 1 < AudioMessages
HasRoom == Len(messages) < AudioMessages
Accepted == ~heapFull /\ HasRoom
sendCmdMsg ==
    /\ SyncWidthSound
    /\ messages' = IF Accepted THEN Append(messages, dvd.command) ELSE messages
    /\ DvdGoes("execute", "getFirstCommand")
    /\ UNCHANGED <<mIsDone, mNodeList, mMutext, kicked>>

ExecuteBegins ==
    /\ ~SyncWidthSound /\ DvdGoes("execute", "executing")
    /\ UNCHANGED <<mIsDone, mNodeList, mMutext, kicked, messages>>
ExecuteEnds ==
    /\ mIsDone' = mIsDone \union {dvd.command} /\ DvdGoes("executing", "getFirstCommand")
    /\ UNCHANGED <<mNodeList, mMutext, kicked, messages>>

mainLoop ==
    \/ waitForKick \/ getFirstCommand \/ CutLocks \/ CutUnlinks \/ CutUnlocks \/ CutKicks
    \/ sendCmdMsg \/ ExecuteBegins \/ ExecuteEnds
-----------------------------------------------------------------------------
(* The audio's disc thread: JASTaskThread::run(), and the sound archives   *)
(* that are loaded by it.                                                  *)

Waiting(t) == Cardinality({i \in DOMAIN messages : messages[i] = t})
AudioTask ==
    /\ SyncWidthSound /\ Waiting(Task) < Tasks /\ Accepted
    /\ messages' = Append(messages, Task)
    /\ UNCHANGED <<made, mIsDone, mNodeList, mMutext, kicked, main, dvd, SyncWidthSound, audio,
                   heapFull>>
AudioBegins ==
    /\ audio = None /\ messages # <<>>
    /\ audio' = Head(messages) /\ messages' = Tail(messages)
    /\ UNCHANGED <<made, mIsDone, mNodeList, mMutext, kicked, main, dvd, SyncWidthSound, heapFull>>
AudioEnds ==
    /\ audio # None /\ audio' = None
    /\ mIsDone' = mIsDone \union ({audio} \ {Task})
    /\ UNCHANGED <<made, mNodeList, mMutext, kicked, main, dvd, SyncWidthSound, messages, heapFull>>
run == AudioBegins \/ AudioEnds

(* The command heap lives in the audio's heap and in the system's: whether *)
(* it can make another chunk is up to all that uses them.                  *)
CommandHeapChanges ==
    /\ heapFull' = ~heapFull
    /\ UNCHANGED <<made, mIsDone, mNodeList, mMutext, kicked, main, dvd, SyncWidthSound, messages,
                   audio>>

Next ==
    \/ \E c \in Commands : create(c) \/ destroy(c)
    \/ addition \/ AudioStarts \/ mainLoop \/ AudioTask \/ run \/ CommandHeapChanges
Spec == Init /\ [][Next]_vars

(* The host runs every thread that can run.                                *)
FairSpec == Spec /\ WF_vars(addition) /\ WF_vars(mainLoop) /\ WF_vars(run)
-----------------------------------------------------------------------------
TypeOK ==
    /\ made \subseteq Commands /\ mIsDone \subseteq made
    /\ mNodeList \in Seq(made)
    /\ mMutext \in {"nobody", "main", "dvd"} /\ kicked \in BOOLEAN /\ SyncWidthSound \in BOOLEAN
    /\ main \in [step : 0..4, command : made \union {None}]
    /\ dvd \in [pc : {"waitForKick", "getFirstCommand", "lock", "cut", "unlock", "kick",
                      "execute", "executing"}, command : Commands \union {None}]
    /\ messages \in Seq(made \union {Task}) /\ Len(messages) <= AudioMessages
    /\ audio \in made \union {Task, None} /\ heapFull \in BOOLEAN

(* While the DVD thread waits for a kick, nothing is in its list that it   *)
(* was not kicked for or is about to be: the head is read without the      *)
(* mutex and the queue holds one kick for any number of commands, and      *)
(* still no command is slept over.                                         *)
NotSleptOver ==
    dvd.pc = "waitForKick" /\ mNodeList # <<>> => kicked \/ main.step > 0

Cut == dvd.pc \in {"unlock", "kick", "execute", "executing"}
(* What the promise of CommandQueue is about: the commands that wait, from *)
(* the audio's queue back to the list, and the one that is executed.       *)
OnlyCommands(seq) ==
    LET only[i \in 0..Len(seq)] == IF i = 0 THEN <<>>
                                   ELSE IF seq[i] = Task THEN only[i - 1]
                                   ELSE Append(only[i - 1], seq[i])
    IN only[Len(seq)]
InHand == IF Cut /\ dvd.pc # "executing" THEN <<dvd.command>> ELSE <<>>
Awaiting == OnlyCommands(messages) \o InHand \o mNodeList
Executed ==
    IF dvd.pc = "executing" THEN dvd.command ELSE IF audio = Task THEN None ELSE audio
DvdQueue == INSTANCE CommandQueue WITH
    queue <- Awaiting, running <- Executed, done <- mIsDone,
    dropping <- SyncWidthSound /\ (Len(messages) = AudioMessages \/ heapFull)

(* The commands are executed in the order they were given, one at a time,  *)
(* each once, and the queue is served in the end, also across the start of *)
(* the audio, where the executing thread changes.  A command drops out     *)
(* only while the audio's queue is full or the command heap is, for        *)
(* mainLoop does not look at what sendCmdMsg answers; whoever waits for    *)
(* the command then waits for ever.                                        *)
ImplementsCommandQueue == DvdQueue!Spec
=============================================================================
