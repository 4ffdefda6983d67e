------------------------------ MODULE MemCard ------------------------------
(***************************************************************************)
(* The memory card controller (m_Do_MemCard.cpp): the game thread leaves   *)
(* one command in mCardCommand, the card thread runs it and publishes the  *)
(* outcome in mCardState and field_0x1fc8; the game polls.  Its users are  *)
(* the autosave (dusk/autosave.cpp) and the save menu (d_menu_save.cpp),   *)
(* both steps of the game thread, and the return to the title screen.      *)
(* The two threads share an OSMutex and an OSCond, taken as the Monitor    *)
(* that OSMutex implements.  Every game call uses OSTryLockMutex.          *)
(***************************************************************************)
EXTENDS Naturals, FiniteSets

CONSTANTS
    Users,      \* of auto, menu, reset: who is part of the instance
    CardFails   \* the failures the CARD calls may answer

Failures == {"NOCARD", "IOERROR", "BROKEN", "OTHER"}   \* OTHER: one setCardState does not know
ASSUME MemCardAssumption ==
    /\ Users \subseteq {"auto", "menu", "reset"} /\ CardFails \subseteq Failures

VARIABLES
    mCardCommand, mCardState, field_0x1fc8,
    file, buffer,                 \* is gczelda2 on the card; whose data mData has
    card,                         \* where the card thread is
    doing,                        \* the call the game thread makes, and for whom
    mAutoSaveProc, menu,          \* where the autosave and the save menu are
    holder, level, waiting, signalled, levels,            \* mMutex, mCond
    fresh, unsaved, excuse        \* history, see below

(* fresh: the command was given after the card thread last took one.       *)
(* unsaved: what was last given to save() is not on the card.              *)
(* excuse: what went wrong since the autosave or the menu began:           *)
(*   failed    a CARD call answered an error,                              *)
(*   lost      a failure left no answer for the one who polls, a command    *)
(*             was refused by OSTryLockMutex or wiped out, FormatSync        *)
(*             answered for an earlier command, or the return to the title   *)
(*             took an answer of the autosave or left one of the menu,       *)
(*   shared    autosave and menu used the card at the same time.             *)

Threads == {"card", "game"}
OS == INSTANCE Monitor WITH None <- "none"
mutexVars == <<holder, level, waiting, signalled, levels>>
control == <<mCardCommand, mCardState, field_0x1fc8>>
users == <<doing, mAutoSaveProc, menu>>
cardVars == <<file, buffer>>
history == <<fresh, unsaved, excuse>>
vars == <<control, cardVars, card, users, mutexVars, history>>

Commands == {"RESTORE", "STORE", "FORMAT", "ATTACH"}
States == {"NO_CARD", "READY", "NO_FILE", "READ", "WRITE", "FORMAT",
           "BROKEN", "NOSPACE", "FATAL", "PENDING"}   \* PENDING: CARD_STATE_13_e
Idle == [user |-> "none", op |-> "none"]

Init ==
    /\ mCardCommand = "ATTACH" /\ mCardState = "NO_CARD" /\ field_0x1fc8 = FALSE
    /\ file \in BOOLEAN /\ buffer = "card"
    /\ card = "top" /\ doing = Idle
    /\ mAutoSaveProc = 0 /\ menu = "closed"
    /\ OS!Init
    /\ fresh = TRUE /\ unsaved = FALSE /\ excuse = {}
-----------------------------------------------------------------------------
(* The card thread: main().                                                *)

CardLocks ==
    /\ \/ card = "top" /\ OS!Lock("card") /\ card' = "holds"
       \/ card = "sleeps" /\ OS!Return("card") /\ card' = "holds"
       \/ card = "done" /\ OS!Lock("card") /\ card' = "clears"
    /\ UNCHANGED <<control, cardVars, users, history>>
CardWaits ==
    /\ card = "holds" /\ mCardCommand = "NONE"
    /\ OS!Wait("card") /\ card' = "sleeps"
    /\ UNCHANGED <<control, cardVars, users, history>>
CardUnlocks ==
    /\ card = "holds" /\ mCardCommand # "NONE"
    /\ OS!Unlock("card") /\ card' = "picks"
    /\ UNCHANGED <<control, cardVars, users, history>>
CardWakes ==
    /\ OS!Wake("card")
    /\ UNCHANGED <<control, cardVars, card, users, history>>

(* The switch reads mCardCommand without the mutex; all commands but       *)
(* attach begin with field_0x1fc8 = 0.                                     *)
Picks ==
    /\ card = "picks" /\ card' = mCardCommand
    /\ field_0x1fc8' = (field_0x1fc8 /\ mCardCommand = "ATTACH")
    /\ fresh' = FALSE
    /\ UNCHANGED <<mCardCommand, mCardState, cardVars, users, mutexVars, unsaved, excuse>>

CardClears ==
    /\ card = "clears" /\ card' = "top" /\ mCardCommand' = "NONE"
    /\ OS!Unlock("card")
    /\ excuse' = IF fresh THEN excuse \union {"lost"} ELSE excuse
    /\ fresh' = FALSE
    /\ UNCHANGED <<mCardState, field_0x1fc8, cardVars, users, unsaved>>

(* What mCardState may become by setCardState(result).                     *)
setCardState(state, result) ==
    CASE result = "IOERROR" -> {"FATAL"}
      [] result = "NOCARD"  -> {"NO_CARD"}
      [] result \in {"READY", "BROKEN"} -> IF CardFails = {} THEN {state} ELSE {state, "BROKEN"}
      [] result = "NOFILE"  -> {"NO_FILE"}
      [] OTHER -> {state}

Opens == CardFails \union {IF file THEN "READY" ELSE "NOFILE"}
Works == CardFails \union {"READY"}
Fails(results) == IF results \intersect CardFails # {} THEN {"failed"} ELSE {}
Runs(command, next) ==
    /\ card = command /\ card' = next
    /\ UNCHANGED <<mCardCommand, users, mutexVars, fresh>>

(* When the read fails it is the result of the open, READY, that is handed *)
(* to setCardState.                                                        *)
restore ==
    /\ Runs("RESTORE", "answers")
    /\ \E open \in Opens, read \in Works :
          /\ IF open = "READY" /\ read = "READY"
             THEN mCardState' = "READ" /\ buffer' = "card"
             ELSE mCardState' \in setCardState(mCardState, open) /\ UNCHANGED buffer
          /\ excuse' = excuse \union Fails({open, read})
    /\ UNCHANGED <<field_0x1fc8, file, unsaved>>

(* store: CARDCreate when there was no file (EXIST is as good as READY);   *)
(* when it fails setCardState gets its result, twice, and that is all ...  *)
storeCreates ==
    /\ card = "STORE"
    /\ IF mCardState = "NO_FILE"
       THEN \E created \in Works :
              /\ IF created = "READY" THEN mCardState' = "READY" /\ file' = TRUE /\ card' = "STORE2"
                 ELSE /\ mCardState' \in setCardState(mCardState, created)
                      /\ card' = "answers" /\ UNCHANGED file
              /\ excuse' = excuse \union Fails({created})
       ELSE card' = "STORE2" /\ UNCHANGED <<mCardState, file, excuse>>
    /\ UNCHANGED <<mCardCommand, users, mutexVars, fresh, field_0x1fc8, buffer, unsaved>>

(* ... or the write; in any other state than READY setCardState gets the   *)
(* local ret, which nothing has set.                                       *)
(* Mutant: the state says WRITE without a look at the result.              *)
WrittenAnyway(result) == TRUE
Written(result) == result = "READY"
storeWrites ==
    /\ Runs("STORE2", "answers")
    /\ IF mCardState = "READY"
       THEN \E open \in Opens, write \in Works :
              LET result == IF open = "READY" THEN write ELSE open
                  wrote == Written(result)
              IN  /\ IF wrote THEN mCardState' = "WRITE"
                     ELSE mCardState' \in setCardState(mCardState, result)
                  /\ unsaved' = (unsaved /\ ~(result = "READY" /\ buffer = "save"))
                  /\ excuse' = excuse \union Fails({open, write})
                               \union IF mCardState' = "READY" THEN {"lost"} ELSE {}
       ELSE /\ \E ret \in Failures \union {"READY", "NOFILE"} :
                  mCardState' \in setCardState(mCardState, ret)
            /\ UNCHANGED <<unsaved, excuse>>
    /\ UNCHANGED <<field_0x1fc8, file, buffer>>

(* Mutant: a command that failed leaves without an answer.                 *)
AnswersSuccess == mCardState \in {"READ", "WRITE"}
Answers == TRUE
publish ==
    /\ Runs("answers", "done")
    /\ field_0x1fc8' = (field_0x1fc8 \/ Answers)
    /\ UNCHANGED <<mCardState, cardVars, unsaved, excuse>>

(* When OSTryLockMutex fails, format leaves without an answer.             *)
format ==
    /\ Runs("FORMAT", "done")
    /\ \E result \in Works :
          /\ file' = (file /\ result # "READY")
          /\ IF holder = "none"
             THEN /\ mCardState' \in IF result = "READY" THEN {"FORMAT"}
                                     ELSE setCardState(mCardState, result)
                  /\ field_0x1fc8' = TRUE
                  /\ excuse' = excuse \union Fails({result})
             ELSE /\ UNCHANGED <<mCardState, field_0x1fc8>>
                  /\ excuse' = excuse \union {"lost"}
    /\ UNCHANGED <<buffer, unsaved>>

(* attach: probe, mount and loadfile; a failure of loadfile goes on to     *)
(* checkspace.  A mount that answers what it does not know leaves PENDING. *)
attach ==
    /\ card = "ATTACH"
    /\ \/ \E mount \in CardFails :
            /\ card' = "done"
            /\ mCardState' \in setCardState(mCardState, mount)
            /\ excuse' = excuse \union {"failed"}
                         \union IF mCardState' = "PENDING" THEN {"lost"} ELSE {}
       \/ \E open \in Opens :
            /\ card' = IF open = "READY" THEN "done" ELSE "checkspace"
            /\ IF open = "READY" THEN mCardState' = "READY"
               ELSE mCardState' \in setCardState(mCardState, open)
            /\ excuse' = excuse \union Fails({open})
    /\ UNCHANGED <<mCardCommand, field_0x1fc8, cardVars, users, mutexVars, fresh, unsaved>>
checkspace ==
    /\ Runs("checkspace", "done")
    /\ \E free \in Works \union {"NOSPACE"} :
          /\ mCardState' \in CASE free = "READY" -> {"NO_FILE"}
                               [] free = "NOSPACE" -> {"NOSPACE"}
                               [] OTHER -> setCardState(mCardState, free)
          /\ excuse' = excuse \union Fails({free})
                       \union IF mCardState' = "PENDING" THEN {"lost"} ELSE {}
    /\ UNCHANGED <<field_0x1fc8, cardVars, unsaved>>

CardStep ==
    \/ CardLocks \/ CardWaits \/ CardUnlocks \/ Picks \/ CardClears
    \/ restore \/ storeCreates \/ storeWrites \/ publish
    \/ format \/ attach \/ checkspace
-----------------------------------------------------------------------------
(* The game thread.  A call first tries to lock the mutex; the next calls  *)
(* of the same handler follow at once, before another user's.              *)

Call(user, op) == [user |-> user, op |-> op]
Gives(op) == op \in {"load", "save", "format", "attach"}
Free == doing = Idle
At(user, op) == doing = Call(user, op) /\ holder = "game"

TryLocks ==
    /\ doing \notin {Idle, Call("signal", "")} /\ holder = "none"
    /\ OS!Lock("game")
    /\ UNCHANGED <<control, cardVars, card, users, history>>
LockRefused ==
    /\ doing \notin {Idle, Call("signal", "")} /\ holder = "card"
    /\ doing' = Idle
    /\ excuse' = IF Gives(doing.op) THEN excuse \union {"lost"} ELSE excuse
    /\ UNCHANGED <<control, cardVars, card, mAutoSaveProc, menu, mutexVars, fresh, unsaved>>

(* load, save, command_format and command_attach.                          *)
(* Mutant: load leaves the answer of the last command standing.            *)
ForgetsToClear(op) == op = "save"
ClearsAnswer(op) == op \in {"load", "save"}
CommandOf(op) == CASE op = "load" -> "RESTORE" [] op = "save" -> "STORE"
                   [] op = "format" -> "FORMAT" [] op = "attach" -> "ATTACH"
GivesCommand ==
    /\ holder = "game" /\ Gives(doing.op)
    /\ mCardCommand' = CommandOf(doing.op)
    /\ field_0x1fc8' = (field_0x1fc8 /\ ~ClearsAnswer(doing.op))
    /\ mCardState' = IF doing.op = "attach" THEN "PENDING" ELSE mCardState
    /\ IF doing.op = "save" THEN buffer' = "save" /\ unsaved' = TRUE
       ELSE UNCHANGED <<buffer, unsaved>>
    /\ fresh' = TRUE
    /\ excuse' = excuse \union (IF fresh THEN {"lost"} ELSE {})
                        \union (IF mAutoSaveProc # 0 /\ menu # "closed" THEN {"shared"} ELSE {})
    /\ doing' = Call("signal", "")
    /\ OS!Unlock("game")
    /\ UNCHANGED <<file, card, mAutoSaveProc, menu>>
Signals ==
    /\ doing = Call("signal", "") /\ doing' = Idle
    /\ OS!Signal
    /\ UNCHANGED <<control, cardVars, card, mAutoSaveProc, menu, history>>

(* The sync calls look at field_0x1fc8 before they try the mutex.          *)
(* Mutant: they do not.                                                    *)
AsksAnyway == TRUE
MayAsk == field_0x1fc8
Asks(user, op) ==
    /\ Free /\ (op = "status" \/ MayAsk)
    /\ doing' = Call(user, op)
    /\ UNCHANGED <<control, cardVars, card, mAutoSaveProc, menu, mutexVars, history>>

Released == OS!Unlock("game") /\ UNCHANGED <<mCardCommand, field_0x1fc8, cardVars, card, fresh, unsaved>>

(* What went wrong is forgotten when the next user finds the card at rest  *)
(* and the other one gone; but a state nobody asked for is in the way of   *)
(* the autosave, and not of the menu, which attaches the card again.       *)
Unsettled == {"PENDING", "READ", "WRITE", "FORMAT"}
Excused == IF mCardCommand = "NONE" /\ mAutoSaveProc = 0 /\ menu = "closed" THEN {} ELSE excuse

(* Autosave, procs 1 to 4.                                                 *)
triggerAutoSave ==
    /\ "auto" \in Users /\ Free /\ mAutoSaveProc = 0 /\ menu = "closed"
    /\ mAutoSaveProc' = 1
    /\ excuse' = IF mCardState \in Unsettled THEN excuse ELSE Excused
    /\ UNCHANGED <<control, cardVars, card, doing, menu, mutexVars, fresh, unsaved>>
AutoAsks ==
    \/ mAutoSaveProc = 1 /\ Asks("auto", "status")
    \/ mAutoSaveProc = 2 /\ Asks("auto", "loadSync")
    \/ mAutoSaveProc = 3 /\ Asks("auto", "saveSync")
enterAutoSave ==
    /\ At("auto", "status") /\ Released
    /\ IF mCardState = "READY"
       THEN mAutoSaveProc' = 2 /\ doing' = Call("auto", "load")
       ELSE /\ mAutoSaveProc' = IF mCardState \in Unsettled THEN 1 ELSE 0
            /\ doing' = Idle
    /\ UNCHANGED <<mCardState, menu, excuse>>
(* writeAutoSave gives up, and stays in proc 2, when there is no stage.    *)
autoSaving ==
    /\ At("auto", "loadSync") /\ Released
    /\ IF mCardState = "READ"
       THEN /\ mCardState' = "READY"
            /\ \/ mAutoSaveProc' = 3 /\ doing' = Call("auto", "save")
               \/ mAutoSaveProc' = 2 /\ doing' = Idle
       ELSE mCardState' = "NO_FILE" /\ mAutoSaveProc' = 1 /\ doing' = Idle
    /\ UNCHANGED <<menu, excuse>>
waitingForWrite ==
    /\ At("auto", "saveSync") /\ Released /\ doing' = Idle
    /\ mCardState' = IF mCardState = "WRITE" THEN "READY" ELSE mCardState
    /\ mAutoSaveProc' = CASE mCardState = "WRITE" -> 4 [] mCardState = "READY" -> 3 [] OTHER -> 0
    /\ UNCHANGED <<menu, excuse>>
endAutoSave ==
    /\ Free /\ mAutoSaveProc = 4 /\ mAutoSaveProc' = 0
    /\ UNCHANGED <<control, cardVars, card, doing, menu, mutexVars, history>>
AutoStep == AutoAsks \/ enterAutoSave \/ autoSaving \/ waitingForWrite \/ endAutoSave

(* The save menu: what the player does ...                                 *)
MenuGoes(from, to, next) ==
    /\ "menu" \in Users /\ Free /\ menu = from /\ menu' = to /\ doing' = next
    /\ UNCHANGED <<control, cardVars, card, mAutoSaveProc, mutexVars, fresh, unsaved>>
MenuOpens  == MenuGoes("closed", "check", Call("menu", "attach")) /\ excuse' = Excused
dataSave   == MenuGoes("select", "saving", Call("menu", "save")) /\ UNCHANGED excuse
makesFile  == MenuGoes("missing", "making", Call("menu", "save")) /\ UNCHANGED excuse
formats    == MenuGoes("broken", "formatting", Call("menu", "format")) /\ UNCHANGED excuse
MenuCloses ==
    /\ \E from \in {"select", "missing", "broken", "error", "saved"} : MenuGoes(from, "closed", Idle)
    /\ UNCHANGED excuse
Acknowledges ==
    /\ \E from \in {"failed", "created"} : MenuGoes(from, "check", Idle)
    /\ UNCHANGED excuse

(* ... and what it asks.                                                   *)
MenuAsks ==
    \/ menu = "check" /\ Asks("menu", "status")
    \/ menu = "load" /\ Asks("menu", "loadSync")
    \/ menu \in {"saving", "making"} /\ Asks("menu", "saveSync")
    \/ menu = "formatting" /\ Asks("menu", "formatSync")
memCardCheck ==
    /\ At("menu", "status") /\ Released
    /\ menu' = CASE mCardState \in Unsettled -> "check"
                 [] mCardState = "READY"   -> "load"
                 [] mCardState = "NO_FILE" -> "missing"
                 [] mCardState = "BROKEN"  -> "broken"
                 [] OTHER -> "error"
    /\ doing' = IF menu' = "load" THEN Call("menu", "load") ELSE Idle
    /\ UNCHANGED <<mCardState, mAutoSaveProc, excuse>>
memCardDataLoadWait ==
    /\ At("menu", "loadSync") /\ Released /\ doing' = Idle
    /\ IF mCardState = "READ" THEN mCardState' = "READY" /\ menu' = "select"
       ELSE mCardState' = "NO_FILE" /\ menu' = "check"
    /\ UNCHANGED <<mAutoSaveProc, excuse>>
memCardDataSaveWait ==
    /\ At("menu", "saveSync") /\ Released /\ doing' = Idle
    /\ mCardState' = IF mCardState = "WRITE" THEN "READY" ELSE mCardState
    /\ menu' = CASE mCardState = "WRITE" -> IF menu = "saving" THEN "saved" ELSE "created"
                 [] mCardState = "READY" -> menu
                 [] OTHER -> "failed"
    /\ UNCHANGED <<mAutoSaveProc, excuse>>
memCardFormat ==
    /\ At("menu", "formatSync") /\ Released /\ doing' = Idle
    /\ CASE mCardState = "PENDING" -> UNCHANGED <<mCardState, menu>>
         [] mCardState = "FORMAT" -> mCardState' = "NO_FILE" /\ menu' = "created"
         [] OTHER -> mCardState' = mCardState /\ menu' = "failed"
    /\ excuse' = IF menu' = "failed" /\ mCardCommand = "FORMAT" THEN excuse \union {"lost"} ELSE excuse
    /\ UNCHANGED mAutoSaveProc
MenuStep == MenuAsks \/ memCardCheck \/ memCardDataLoadWait \/ memCardDataSaveWait \/ memCardFormat

(* The return to the title: it waits for the card, takes the answer that   *)
(* nobody asks for any more, and the menu goes with its scene, also in the *)
(* middle of a command.                                                    *)
Busy == {"check", "load", "saving", "making", "formatting"}
dComIfG_resetToOpening ==
    /\ "reset" \in Users /\ Free /\ mCardCommand = "NONE"
    /\ menu' = "closed"
    /\ doing' = IF field_0x1fc8 THEN Call("reset", "saveSync") ELSE Idle
    /\ excuse' = IF menu \in Busy THEN excuse \union {"lost"} ELSE excuse
    /\ UNCHANGED <<control, cardVars, card, mAutoSaveProc, mutexVars, fresh, unsaved>>
ResetSyncs ==
    /\ At("reset", "saveSync") /\ Released /\ doing' = Idle
    /\ mCardState' = IF mCardState = "WRITE" THEN "READY" ELSE mCardState
    /\ excuse' = IF mCardState = "WRITE" THEN excuse \union {"lost"} ELSE excuse
    /\ UNCHANGED <<mAutoSaveProc, menu>>

GameStep == TryLocks \/ LockRefused \/ GivesCommand \/ Signals \/ ResetSyncs
Player ==
    \/ triggerAutoSave \/ dComIfG_resetToOpening
    \/ MenuOpens \/ dataSave \/ makesFile \/ formats \/ MenuCloses \/ Acknowledges
Next == CardStep \/ CardWakes \/ GameStep \/ AutoStep \/ MenuStep \/ Player
Spec == Init /\ [][Next]_vars

(* Both threads run, OSLockMutex gets a mutex that is free again and       *)
(* again, every frame gives the autosave and the menu their turn, and the  *)
(* host does not go on for ever to wake the card thread without a signal.  *)
FairSpec ==
    /\ Spec
    /\ WF_vars(CardStep) /\ SF_vars(CardLocks)
    /\ WF_vars(GameStep) /\ SF_vars(AutoStep) /\ SF_vars(MenuStep) /\ WF_vars(Acknowledges)
    /\ <>[][~CardWakes]_vars
-----------------------------------------------------------------------------
TypeOK ==
    /\ mCardCommand \in Commands \union {"NONE"} /\ mCardState \in States
    /\ field_0x1fc8 \in BOOLEAN /\ file \in BOOLEAN /\ buffer \in {"card", "save"}
    /\ card \in Commands \union {"top", "holds", "sleeps", "picks", "STORE2", "answers",
                                 "checkspace", "done", "clears"}
    /\ mAutoSaveProc \in 0..4
    /\ menu \in {"closed", "check", "load", "select", "saving", "missing", "making", "broken",
                 "formatting", "error", "saved", "created", "failed"}
    /\ fresh \in BOOLEAN /\ unsaved \in BOOLEAN
    /\ excuse \subseteq {"failed", "lost", "shared"}

(* "There is no save for this game on the Memory Card in Slot A.": while   *)
(* every CARD call succeeds and every command gets through, the menu says  *)
(* so, and offers to make a save over it, only when the card has none.     *)
NoSaveWhenAllWell == menu = "missing" => ~file \/ excuse # {}

(* Who is told that the data was saved finds it on the card: the answer is *)
(* never an earlier command's, nor that of a write that failed.            *)
ToldSaved ==
    \/ mAutoSaveProc = 3 /\ mAutoSaveProc' = 4
    \/ menu = "saving" /\ menu' = "saved"
    \/ menu = "making" /\ menu' = "created"
SavedIsOnCard == [][ToldSaved => ~unsaved \/ "shared" \in excuse]_vars

(* mData is nobody else's while the card thread reads or writes it.        *)
BufferNotShared ==
    [][doing.op = "save" /\ buffer' = "save" /\ fresh' /\ holder # holder'
        => card \notin {"RESTORE", "STORE", "STORE2"} \/ "shared" \in excuse']_vars

(* An autosave ends, unless its command slipped or its answer was lost.    *)
Lost == excuse \intersect {"lost", "shared"} # {}
AutoSaveEnds == mAutoSaveProc = 1 ~> mAutoSaveProc = 0 \/ Lost

(* So does every wait of the menu.                                         *)
MenuIsAnswered == menu \in Busy ~> menu \notin Busy \/ Lost
(* Nobody who asked the card thread waits for ever: the two together.      *)
WaitsEnd == AutoSaveEnds /\ MenuIsAnswered
=============================================================================
