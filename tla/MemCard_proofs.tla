--------------------------- MODULE MemCard_proofs ---------------------------
(* Proofs about the memory card controller.                                *)
EXTENDS MemCard, TLAPS

(* TypeOK is inductive once the card thread has something to pick; it is   *)
(* split into what the two threads are at and the flags.                   *)
Excuses == {"failed", "lost", "shared"}
ControlOK ==
    /\ mCardCommand \in Commands \union {"NONE"} /\ mCardState \in States
    /\ buffer \in {"card", "save"}
    /\ card \in Commands \union {"top", "holds", "sleeps", "picks", "STORE2", "answers",
                                 "checkspace", "done", "clears"}
    /\ mAutoSaveProc \in 0..4
    /\ menu \in {"closed", "check", "load", "select", "saving", "missing", "making", "broken",
                 "formatting", "error", "saved", "created", "failed"}
    /\ excuse \in SUBSET Excuses
FlagsOK ==
    /\ field_0x1fc8 \in BOOLEAN /\ file \in BOOLEAN
    /\ fresh \in BOOLEAN /\ unsaved \in BOOLEAN

SomethingToPick == card = "picks" => mCardCommand # "NONE"
IInv == ControlOK /\ FlagsOK /\ SomethingToPick

LEMMA InitIInv == Init => IInv
<1>1. Init => ControlOK
  BY DEF Init, ControlOK, Commands, States
<1>2. Init => FlagsOK
  BY Zenon DEF Init, FlagsOK, IInv
<1>3. Init => SomethingToPick
  BY Zenon DEF Init, SomethingToPick
<1> QED
  BY <1>1, <1>2, <1>3 DEF IInv

LEMMA OutcomesAreStates ==
  ASSUME NEW state \in States, NEW result PROVE setCardState(state, result) \subseteq States
  BY DEF setCardState, States

LEMMA ExcusesGrow ==
  ASSUME NEW e \in SUBSET Excuses, NEW results
  PROVE  /\ e \union Fails(results) \subseteq Excuses
         /\ e \union Fails(results) \union {"lost"} \subseteq Excuses
         /\ e \union {"failed"} \subseteq Excuses
         /\ e \union {"failed"} \union {"lost"} \subseteq Excuses
         /\ e \union {"lost"} \subseteq Excuses
  BY DEF Fails, Excuses

LEMMA NoneIsNoCommand == "NONE" \notin Commands
  BY DEF Commands

LEMMA CommandsGiven == ASSUME NEW op, Gives(op) PROVE CommandOf(op) \in Commands
<1>1. op \in {"load", "save", "format", "attach"}
  BY DEF Gives
<1> QED
  BY <1>1 DEF CommandOf, Commands
-----------------------------------------------------------------------------
LEMMA CardTypeStep == ASSUME IInv, CardStep PROVE IInv'
<1>0. ControlOK
  BY DEF IInv
<1>1. CASE CardLocks \/ CardWaits \/ CardUnlocks
  <2>1. ControlOK'
    BY <1>1, <1>0, Zenon DEF CardLocks, CardWaits, CardUnlocks, control, cardVars, users,
       history, ControlOK
  <2>2. FlagsOK'
    BY <1>1, Zenon DEF CardLocks, CardWaits, CardUnlocks, control, cardVars, users, history,
       FlagsOK, IInv
  <2>3. SomethingToPick'
    BY <1>1, Zenon DEF CardLocks, CardWaits, CardUnlocks, control, cardVars, users, history,
       SomethingToPick, IInv
  <2> QED
    BY <2>1, <2>2, <2>3 DEF IInv
<1>2. CASE Picks
  <2>0. card = "picks" => mCardCommand # "NONE"
    BY Zenon DEF IInv, SomethingToPick
  <2>1. ControlOK'
    <3>1. /\ card' = mCardCommand /\ card = "picks"
          /\ UNCHANGED <<mCardCommand, mCardState, buffer, mAutoSaveProc, menu, excuse>>
      BY <1>2, Zenon DEF Picks, cardVars, users
    <3> QED
      BY <3>1, <1>0, <2>0, SMT DEF Commands, ControlOK
  <2>2. FlagsOK'
    BY <1>2, Zenon DEF Picks, cardVars, users, FlagsOK, IInv
  <2>3. SomethingToPick'
    BY <1>2, Zenon DEF Picks, cardVars, users, SomethingToPick, IInv
  <2> QED
    BY <2>1, <2>2, <2>3 DEF IInv
<1>3. CASE CardClears
  <2>1. ControlOK'
    BY <1>3, <1>0, SMT DEF CardClears, cardVars, users, ControlOK, Excuses
  <2>2. FlagsOK'
    BY <1>3, Zenon DEF CardClears, cardVars, users, FlagsOK, IInv
  <2>3. SomethingToPick'
    BY <1>3, Zenon DEF CardClears, cardVars, users, SomethingToPick, IInv
  <2> QED
    BY <2>1, <2>2, <2>3 DEF IInv
<1>4. CASE restore
  <2>1. ControlOK'
    BY <1>4, OutcomesAreStates, <1>0, SMT DEF restore, Runs, Fails, users, States, ControlOK,
       Excuses
  <2>2. FlagsOK'
    BY <1>4, Zenon DEF restore, Runs, users, FlagsOK, IInv
  <2>3. SomethingToPick'
    BY <1>4, Zenon DEF restore, Runs, users, SomethingToPick, IInv
  <2> QED
    BY <2>1, <2>2, <2>3 DEF IInv
<1>5. CASE storeCreates
  <2>1. ControlOK'
    <3>1. mCardState' \in States
      BY <1>5, <1>0, OutcomesAreStates, Zenon DEF storeCreates, users, ControlOK, States
    <3>2. excuse' \in SUBSET Excuses
      BY <1>5, <1>0, ExcusesGrow, Zenon DEF storeCreates, users, ControlOK
    <3>3. card' \in {"STORE2", "answers"} /\ UNCHANGED <<mCardCommand, buffer, mAutoSaveProc, menu>>
      BY <1>5, Zenon DEF storeCreates, users
    <3> QED
      BY <1>0, <3>1, <3>2, <3>3, SMT DEF ControlOK, Commands
  <2>2. FlagsOK'
    BY <1>5, Zenon DEF storeCreates, users, FlagsOK, IInv
  <2>3. SomethingToPick'
    BY <1>5, Zenon DEF storeCreates, users, SomethingToPick, IInv
  <2> QED
    BY <2>1, <2>2, <2>3 DEF IInv
<1>6. CASE storeWrites
  <2>1. ControlOK'
    <3>1. mCardState' \in States
      BY <1>6, <1>0, OutcomesAreStates, Zenon DEF storeWrites, Runs, users, ControlOK, States
    <3>2. excuse' \in SUBSET Excuses
      BY <1>6, <1>0, ExcusesGrow, Zenon DEF storeWrites, Runs, users, ControlOK
    <3>3. card' = "answers" /\ UNCHANGED <<mCardCommand, buffer, mAutoSaveProc, menu>>
      BY <1>6, Zenon DEF storeWrites, Runs, users
    <3> QED
      BY <1>0, <3>1, <3>2, <3>3, SMT DEF ControlOK, Commands
  <2>2. FlagsOK'
    BY <1>6, Zenon DEF storeWrites, Runs, users, FlagsOK, IInv
  <2>3. SomethingToPick'
    BY <1>6, Zenon DEF storeWrites, Runs, users, SomethingToPick, IInv
  <2> QED
    BY <2>1, <2>2, <2>3 DEF IInv
<1>7. CASE publish
  <2>1. ControlOK'
    BY <1>7, <1>0, SMT DEF publish, Runs, users, cardVars, ControlOK
  <2>2. FlagsOK'
    BY <1>7, Zenon DEF publish, Runs, users, cardVars, FlagsOK, IInv
  <2>3. SomethingToPick'
    BY <1>7, Zenon DEF publish, Runs, users, cardVars, SomethingToPick, IInv
  <2> QED
    BY <2>1, <2>2, <2>3 DEF IInv
<1>8. CASE format
  <2>1. ControlOK'
    <3>1. mCardState' \in States
      BY <1>8, <1>0, OutcomesAreStates, Zenon DEF format, Runs, users, ControlOK, States
    <3>2. excuse' \in SUBSET Excuses
      BY <1>8, <1>0, ExcusesGrow, Zenon DEF format, Runs, users, ControlOK
    <3>3. card' = "done" /\ UNCHANGED <<mCardCommand, buffer, mAutoSaveProc, menu>>
      BY <1>8, Zenon DEF format, Runs, users
    <3> QED
      BY <1>0, <3>1, <3>2, <3>3, SMT DEF ControlOK, Commands
  <2>2. FlagsOK'
    BY <1>8, Zenon DEF format, Runs, users, FlagsOK, IInv
  <2>3. SomethingToPick'
    BY <1>8, Zenon DEF format, Runs, users, SomethingToPick, IInv
  <2> QED
    BY <2>1, <2>2, <2>3 DEF IInv
<1>9. CASE attach
  <2>1. ControlOK'
    <3>1. mCardState' \in States
      BY <1>9, <1>0, OutcomesAreStates, Zenon DEF attach, users, cardVars, ControlOK, States
    <3>2. excuse' \in SUBSET Excuses
      BY <1>9, <1>0, ExcusesGrow, Zenon DEF attach, users, cardVars, ControlOK
    <3>3. card' \in {"done", "checkspace"}
          /\ UNCHANGED <<mCardCommand, buffer, mAutoSaveProc, menu>>
      BY <1>9, Zenon DEF attach, users, cardVars
    <3> QED
      BY <1>0, <3>1, <3>2, <3>3, SMT DEF ControlOK, Commands
  <2>2. FlagsOK'
    BY <1>9, Zenon DEF attach, users, cardVars, FlagsOK, IInv
  <2>3. SomethingToPick'
    BY <1>9, Zenon DEF attach, users, cardVars, SomethingToPick, IInv
  <2> QED
    BY <2>1, <2>2, <2>3 DEF IInv
<1>10. CASE checkspace
  <2>1. ControlOK'
    BY <1>10, OutcomesAreStates, <1>0, SMT DEF checkspace, Runs, Fails, users, cardVars,
       States, ControlOK, Excuses
  <2>2. FlagsOK'
    BY <1>10, Zenon DEF checkspace, Runs, users, cardVars, FlagsOK, IInv
  <2>3. SomethingToPick'
    BY <1>10, Zenon DEF checkspace, Runs, users, cardVars, SomethingToPick, IInv
  <2> QED
    BY <2>1, <2>2, <2>3 DEF IInv
<1> QED
  BY <1>1, <1>2, <1>3, <1>4, <1>5, <1>6, <1>7, <1>8, <1>9, <1>10 DEF CardStep

LEMMA GameTypeStep == ASSUME IInv, GameStep PROVE IInv'
<1>0. ControlOK
  BY DEF IInv
<1>1. CASE TryLocks \/ LockRefused \/ Signals
  <2>1. ControlOK'
    <3>1. excuse' \in SUBSET Excuses
      BY <1>1, <1>0, ExcusesGrow, Zenon DEF TryLocks, LockRefused, Signals, history, ControlOK
    <3>2. UNCHANGED <<mCardCommand, mCardState, buffer, card, mAutoSaveProc, menu>>
      BY <1>1, Zenon DEF TryLocks, LockRefused, Signals, users, control, cardVars
    <3> QED
      BY <1>0, <3>1, <3>2, Zenon DEF ControlOK
  <2>2. FlagsOK'
    BY <1>1, Zenon DEF TryLocks, LockRefused, Signals, control, cardVars, history, FlagsOK, IInv
  <2>3. SomethingToPick'
    BY <1>1, Zenon DEF TryLocks, LockRefused, Signals, control, cardVars, history,
       SomethingToPick, IInv
  <2> QED
    BY <2>1, <2>2, <2>3 DEF IInv
<1>2. CASE GivesCommand
  <2>1. ControlOK'
    <3>1. mCardState' \in States
      BY <1>2, <1>0, OutcomesAreStates, Zenon DEF GivesCommand, ControlOK, States
    <3>2. excuse' \in SUBSET Excuses
      BY <1>2, <1>0 DEF GivesCommand, ControlOK, Excuses
    <3>3. mCardCommand' \in Commands /\ buffer' \in {buffer, "save"}
          /\ UNCHANGED <<card, mAutoSaveProc, menu>>
      BY <1>2, CommandsGiven, Zenon DEF GivesCommand
    <3> QED
      BY <1>0, <3>1, <3>2, <3>3, SMT DEF ControlOK, Commands
  <2>2. FlagsOK'
    BY <1>2, Zenon DEF GivesCommand, FlagsOK, IInv
  <2>3. SomethingToPick'
    BY <1>2, CommandsGiven, NoneIsNoCommand, Zenon DEF GivesCommand, SomethingToPick
  <2> QED
    BY <2>1, <2>2, <2>3 DEF IInv
<1>3. CASE ResetSyncs
  <2>1. ControlOK'
    BY <1>3, <1>0, SMT DEF ResetSyncs, Released, cardVars, States, ControlOK, Excuses
  <2>2. FlagsOK'
    BY <1>3, Zenon DEF ResetSyncs, Released, cardVars, FlagsOK, IInv
  <2>3. SomethingToPick'
    BY <1>3, Zenon DEF ResetSyncs, Released, cardVars, SomethingToPick, IInv
  <2> QED
    BY <2>1, <2>2, <2>3 DEF IInv
<1> QED
  BY <1>1, <1>2, <1>3 DEF GameStep

LEMMA AutoTypeStep == ASSUME IInv, AutoStep PROVE IInv'
<1>0. ControlOK
  BY DEF IInv
<1>1. CASE AutoAsks
  <2>1. ControlOK'
    BY <1>1, <1>0, Zenon DEF AutoAsks, Asks, control, cardVars, history, ControlOK
  <2>2. FlagsOK'
    BY <1>1, Zenon DEF AutoAsks, Asks, control, cardVars, history, FlagsOK, IInv
  <2>3. SomethingToPick'
    BY <1>1, Zenon DEF AutoAsks, Asks, control, cardVars, history, SomethingToPick, IInv
  <2> QED
    BY <2>1, <2>2, <2>3 DEF IInv
<1>2. CASE enterAutoSave
  <2>1. ControlOK'
    BY <1>2, <1>0, SMT DEF enterAutoSave, Released, cardVars, ControlOK
  <2>2. FlagsOK'
    BY <1>2, Zenon DEF enterAutoSave, Released, cardVars, FlagsOK, IInv
  <2>3. SomethingToPick'
    BY <1>2, Zenon DEF enterAutoSave, Released, cardVars, SomethingToPick, IInv
  <2> QED
    BY <2>1, <2>2, <2>3 DEF IInv
<1>3. CASE autoSaving
  <2>1. ControlOK'
    BY <1>3, <1>0, SMT DEF autoSaving, Released, cardVars, States, ControlOK
  <2>2. FlagsOK'
    BY <1>3, Zenon DEF autoSaving, Released, cardVars, FlagsOK, IInv
  <2>3. SomethingToPick'
    BY <1>3, Zenon DEF autoSaving, Released, cardVars, SomethingToPick, IInv
  <2> QED
    BY <2>1, <2>2, <2>3 DEF IInv
<1>4. CASE waitingForWrite
  <2>1. ControlOK'
    BY <1>4, <1>0, SMT DEF waitingForWrite, Released, cardVars, States, ControlOK
  <2>2. FlagsOK'
    BY <1>4, Zenon DEF waitingForWrite, Released, cardVars, FlagsOK, IInv
  <2>3. SomethingToPick'
    BY <1>4, Zenon DEF waitingForWrite, Released, cardVars, SomethingToPick, IInv
  <2> QED
    BY <2>1, <2>2, <2>3 DEF IInv
<1>5. CASE endAutoSave
  <2>1. ControlOK'
    BY <1>5, <1>0, SMT DEF endAutoSave, control, cardVars, history, ControlOK
  <2>2. FlagsOK'
    BY <1>5, Zenon DEF endAutoSave, control, cardVars, history, FlagsOK, IInv
  <2>3. SomethingToPick'
    BY <1>5, Zenon DEF endAutoSave, control, cardVars, history, SomethingToPick, IInv
  <2> QED
    BY <2>1, <2>2, <2>3 DEF IInv
<1> QED
  BY <1>1, <1>2, <1>3, <1>4, <1>5 DEF AutoStep

LEMMA MenuTypeStep == ASSUME IInv, MenuStep PROVE IInv'
<1>0. ControlOK
  BY DEF IInv
<1>1. CASE MenuAsks
  <2>1. ControlOK'
    BY <1>1, <1>0, Zenon DEF MenuAsks, Asks, control, cardVars, history, ControlOK
  <2>2. FlagsOK'
    BY <1>1, Zenon DEF MenuAsks, Asks, control, cardVars, history, FlagsOK, IInv
  <2>3. SomethingToPick'
    BY <1>1, Zenon DEF MenuAsks, Asks, control, cardVars, history, SomethingToPick, IInv
  <2> QED
    BY <2>1, <2>2, <2>3 DEF IInv
<1>2. CASE memCardCheck
  <2>1. ControlOK'
    BY <1>2, <1>0, SMT DEF memCardCheck, Released, cardVars, ControlOK
  <2>2. FlagsOK'
    BY <1>2, Zenon DEF memCardCheck, Released, cardVars, FlagsOK, IInv
  <2>3. SomethingToPick'
    BY <1>2, Zenon DEF memCardCheck, Released, cardVars, SomethingToPick, IInv
  <2> QED
    BY <2>1, <2>2, <2>3 DEF IInv
<1>3. CASE memCardDataLoadWait
  <2>1. ControlOK'
    BY <1>3, <1>0, SMT DEF memCardDataLoadWait, Released, cardVars, States, ControlOK
  <2>2. FlagsOK'
    BY <1>3, Zenon DEF memCardDataLoadWait, Released, cardVars, FlagsOK, IInv
  <2>3. SomethingToPick'
    BY <1>3, Zenon DEF memCardDataLoadWait, Released, cardVars, SomethingToPick, IInv
  <2> QED
    BY <2>1, <2>2, <2>3 DEF IInv
<1>4. CASE memCardDataSaveWait
  <2>1. ControlOK'
    BY <1>4, <1>0, SMT DEF memCardDataSaveWait, Released, cardVars, States, At, Call, ControlOK
  <2>2. FlagsOK'
    BY <1>4, Zenon DEF memCardDataSaveWait, Released, cardVars, FlagsOK, IInv
  <2>3. SomethingToPick'
    BY <1>4, Zenon DEF memCardDataSaveWait, Released, cardVars, SomethingToPick, IInv
  <2> QED
    BY <2>1, <2>2, <2>3 DEF IInv
<1>5. CASE memCardFormat
  <2>1. ControlOK'
    BY <1>5, <1>0, SMT DEF memCardFormat, Released, cardVars, States, ControlOK, Excuses
  <2>2. FlagsOK'
    BY <1>5, Zenon DEF memCardFormat, Released, cardVars, FlagsOK, IInv
  <2>3. SomethingToPick'
    BY <1>5, Zenon DEF memCardFormat, Released, cardVars, SomethingToPick, IInv
  <2> QED
    BY <2>1, <2>2, <2>3 DEF IInv
<1> QED
  BY <1>1, <1>2, <1>3, <1>4, <1>5 DEF MenuStep

LEMMA PlayerTypeStep == ASSUME IInv, Player PROVE IInv'
<1>0. ControlOK
  BY DEF IInv
<1>1. Excused \in SUBSET Excuses
  BY <1>0 DEF Excused, ControlOK
<1>2. CASE triggerAutoSave
  <2>1. ControlOK'
    BY <1>1, <1>2, SMT DEF triggerAutoSave, control, cardVars, ControlOK, IInv
  <2>2. FlagsOK'
    BY <1>2, Zenon DEF triggerAutoSave, control, cardVars, FlagsOK, IInv
  <2>3. SomethingToPick'
    BY <1>2, Zenon DEF triggerAutoSave, control, cardVars, SomethingToPick, IInv
  <2> QED
    BY <2>1, <2>2, <2>3 DEF IInv
<1>3. CASE dComIfG_resetToOpening
  <2>1. ControlOK'
    BY <1>3, <1>0, SMT DEF dComIfG_resetToOpening, control, cardVars, ControlOK, Excuses
  <2>2. FlagsOK'
    BY <1>3, Zenon DEF dComIfG_resetToOpening, control, cardVars, FlagsOK, IInv
  <2>3. SomethingToPick'
    BY <1>3, Zenon DEF dComIfG_resetToOpening, control, cardVars, SomethingToPick, IInv
  <2> QED
    BY <2>1, <2>2, <2>3 DEF IInv
<1>4. CASE MenuOpens
  <2>1. ControlOK'
    BY <1>1, <1>4, SMT DEF MenuOpens, MenuGoes, control, cardVars, ControlOK, IInv
  <2>2. FlagsOK'
    BY <1>4, Zenon DEF MenuOpens, MenuGoes, control, cardVars, FlagsOK, IInv
  <2>3. SomethingToPick'
    BY <1>4, Zenon DEF MenuOpens, MenuGoes, control, cardVars, SomethingToPick, IInv
  <2> QED
    BY <2>1, <2>2, <2>3 DEF IInv
<1>5. CASE dataSave \/ makesFile \/ formats \/ MenuCloses \/ Acknowledges
  <2>1. ControlOK'
    BY <1>5, <1>0, Zenon DEF dataSave, makesFile, formats, MenuCloses, Acknowledges,
       MenuGoes, control, cardVars, ControlOK
  <2>2. FlagsOK'
    BY <1>5, Zenon DEF dataSave, makesFile, formats, MenuCloses, Acknowledges, MenuGoes,
       control, cardVars, FlagsOK, IInv
  <2>3. SomethingToPick'
    BY <1>5, Zenon DEF dataSave, makesFile, formats, MenuCloses, Acknowledges, MenuGoes,
       control, cardVars, SomethingToPick, IInv
  <2> QED
    BY <2>1, <2>2, <2>3 DEF IInv
<1> QED
  BY <1>2, <1>3, <1>4, <1>5 DEF Player
-----------------------------------------------------------------------------
LEMMA TypeStep == IInv /\ [Next]_vars => IInv'
<1> SUFFICES ASSUME IInv, [Next]_vars PROVE IInv'
  OBVIOUS
<1>1. CASE CardWakes \/ UNCHANGED vars
  <2>1. UNCHANGED <<control, cardVars, card, users, history>>
    BY <1>1, Zenon DEF CardWakes, vars
  <2>2. UNCHANGED <<mCardCommand, mCardState, buffer, card, mAutoSaveProc, menu, excuse>>
    BY <2>1, Zenon DEF control, cardVars, users, history
  <2>3. UNCHANGED <<field_0x1fc8, file, fresh, unsaved>>
    BY <2>1, Zenon DEF control, cardVars, history
  <2>4. ControlOK' /\ SomethingToPick'
    BY <2>2, Zenon DEF IInv, ControlOK, SomethingToPick
  <2>5. FlagsOK'
    BY <2>3, Zenon DEF IInv, FlagsOK
  <2> QED
    BY <2>4, <2>5, Zenon DEF IInv
<1> QED
  BY <1>1, CardTypeStep, GameTypeStep, AutoTypeStep, MenuTypeStep, PlayerTypeStep, Zenon DEF Next

(* The controller, the autosave and the menu stay in the states the code   *)
(* names: no result of a CARD call, no answer and no player's choice takes *)
(* one of them out of its switch.                                          *)
THEOREM CardTypeOK == Spec => []TypeOK
<1>1. IInv => TypeOK
  BY Zenon DEF IInv, ControlOK, Excuses, FlagsOK, TypeOK
<1> QED
  BY <1>1, InitIInv, TypeStep, PTL DEF Spec
-----------------------------------------------------------------------------
(* What the two threads and the users know of each other.  Exchange is     *)
(* inductive with the types: nobody gives a command while one is under way *)
(* that somebody waits for, so what the card thread publishes is the       *)
(* answer to the last command; WRITE is published only over data that is   *)
(* on the card; and while nothing goes wrong the state never belies the    *)
(* file.  Autosave and menu together break the first two (ProtocolOK says  *)
(* nothing then), any failure the third (FileKnown).                       *)
Signalling == Call("signal", "")

(* A call the game thread makes belongs to where its user is.              *)
DoingOK ==
    \/ doing \in {Idle, Signalling}
    \/ mAutoSaveProc = 1 /\ doing = Call("auto", "status")
    \/ mAutoSaveProc = 2 /\ doing \in {Call("auto", "load"), Call("auto", "loadSync")}
    \/ mAutoSaveProc = 3 /\ doing \in {Call("auto", "save"), Call("auto", "saveSync")}
    \/ menu = "check" /\ doing \in {Call("menu", "attach"), Call("menu", "status")}
    \/ menu = "load" /\ doing \in {Call("menu", "load"), Call("menu", "loadSync")}
    \/ menu \in {"saving", "making"} /\ doing \in {Call("menu", "save"), Call("menu", "saveSync")}
    \/ menu = "formatting" /\ doing \in {Call("menu", "format"), Call("menu", "formatSync")}
    \/ menu = "closed" /\ doing = Call("reset", "saveSync")

(* Without a command the card thread is on its way to sleep.               *)
AtRest == mCardCommand = "NONE" => card \in {"top", "holds", "sleeps"} /\ ~fresh

(* A command that will be picked, or is run.                               *)
Pending(c) == mCardCommand = c /\ card \in {"top", "holds", "sleeps", "picks"}
Loading == Pending("RESTORE") \/ card = "RESTORE"
Storing == Pending("STORE") \/ card \in {"STORE", "STORE2"}
Formatting == Pending("FORMAT") \/ card = "FORMAT"
Attaching == Pending("ATTACH") \/ card = "ATTACH"
Answering == Loading \/ Storing \/ card = "answers"

(* Who gave it waits, for a field_0x1fc8 that is not set before it is done.*)
OneUser == mAutoSaveProc = 0 \/ menu = "closed"
Awaited ==
    /\ Answering => ~field_0x1fc8
    /\ Loading => IF mAutoSaveProc # 0 THEN mAutoSaveProc = 2 ELSE menu = "load"
    /\ Storing => IF mAutoSaveProc # 0 THEN mAutoSaveProc = 3 ELSE menu \in {"saving", "making"}
    /\ card = "answers" => IF mAutoSaveProc # 0 THEN mAutoSaveProc \in {2, 3}
                           ELSE menu \in {"load", "saving", "making"}
    /\ Storing => buffer = "save"
    /\ card \in {"RESTORE", "STORE", "STORE2"} => ~fresh
Asked ==
    /\ doing.op \in {"loadSync", "saveSync"} => ~Answering
    /\ Gives(doing.op) /\ OneUser => ~Answering

(* WRITE says that the last data is on the card.                           *)
WriteMeansSaved ==
    /\ mCardState = "WRITE" /\ unsaved => mAutoSaveProc \in {0, 1} /\ menu \in {"closed", "check"}
    /\ doing.op = "save" /\ OneUser => mCardState # "WRITE"
    /\ menu \in {"select", "missing"} /\ mAutoSaveProc # 3 => mCardState # "WRITE"
ProtocolOK == "shared" \in excuse \/ (Awaited /\ Asked /\ WriteMeansSaved)

(* While all is well ...                                                   *)
Clean == excuse = {} /\ menu # "closed" /\ doing # Call("menu", "attach")
FileKnown ==
    /\ excuse = {} /\ file => ~Formatting /\ card # "checkspace"
    /\ Clean => mAutoSaveProc = 0
    /\ Clean /\ Attaching => mCardState = "PENDING" /\ menu = "check"
    /\ Clean /\ file => 
         /\ mCardState \in {"READY", "READ", "WRITE", "PENDING"}
         /\ menu \notin {"missing", "broken", "formatting"}
         /\ menu = "select" \/ doing = Call("menu", "save") \/ Storing => mCardState = "READY"
         /\ menu = "load" /\ doing # Call("menu", "load")
            /\ (field_0x1fc8 \/ card = "answers" \/ doing = Call("menu", "loadSync"))
            => mCardState = "READ"

Exchange == DoingOK /\ AtRest /\ ProtocolOK /\ FileKnown
CardInv == IInv /\ Exchange

(* What went wrong stays known.                                            *)
ExcuseStays ==
    /\ "shared" \in excuse => "shared" \in excuse'
    /\ excuse' = {} => excuse = {}

LEMMA ExcuseKept == ASSUME NEW more, excuse' = excuse \union more PROVE ExcuseStays
  BY SMT DEF ExcuseStays

LEMMA CallsDiffer == \A u, v, a, b : Call(u, a) = Call(v, b) => u = v /\ a = b
  BY SMT DEF Call

LEMMA CallFields == \A u, a : Call(u, a).user = u /\ Call(u, a).op = a
  BY SMT DEF Call

LEMMA SignalIsNoCall ==
  /\ \A a : Call("auto", a) # Signalling /\ Call("menu", a) # Signalling /\ Call("reset", a) # Signalling
  /\ Signalling.op \notin {"load", "save", "format", "attach", "loadSync", "saveSync"}
<1>1. Signalling.user = "signal" /\ Signalling.op = ""
  BY CallFields, Zenon DEF Signalling
<1>2. "" \notin {"load", "save", "format", "attach", "loadSync", "saveSync"}
  BY Zenon
<1>3. \A a : Call("auto", a).user = "auto" /\ Call("menu", a).user = "menu" /\ Call("reset", a).user = "reset"
  BY CallFields, Zenon
<1>4. "signal" \notin {"auto", "menu", "reset"}
  BY Zenon
<1> QED
  BY <1>1, <1>2, <1>3, <1>4, Zenon

LEMMA IdleIsNoCall ==
  /\ \A a : Call("auto", a) # Idle /\ Call("menu", a) # Idle /\ Call("reset", a) # Idle
  /\ Idle.op \notin {"load", "save", "format", "attach", "loadSync", "saveSync"}
<1>1. Idle.user = "none" /\ Idle.op = "none"
  BY DEF Idle
<1>2. \A a : Call("auto", a).user = "auto" /\ Call("menu", a).user = "menu" /\ Call("reset", a).user = "reset"
  BY CallFields, Zenon
<1> QED
  BY <1>1, <1>2, SMT

(* A call of the menu is one of its page, one of the autosave of its proc. *)
LEMMA CallsBelong ==
  ASSUME DoingOK
  PROVE  /\ doing = Call("auto", "status") => mAutoSaveProc = 1
         /\ doing \in {Call("auto", "load"), Call("auto", "loadSync")} => mAutoSaveProc = 2
         /\ doing \in {Call("auto", "save"), Call("auto", "saveSync")} => mAutoSaveProc = 3
         /\ doing \in {Call("menu", "attach"), Call("menu", "status")} => menu = "check"
         /\ doing \in {Call("menu", "load"), Call("menu", "loadSync")} => menu = "load"
         /\ doing \in {Call("menu", "save"), Call("menu", "saveSync")} => menu \in {"saving", "making"}
         /\ doing \in {Call("menu", "format"), Call("menu", "formatSync")} => menu = "formatting"
         /\ doing = Call("reset", "saveSync") => menu = "closed"
  BY CallsDiffer, SignalIsNoCall, IdleIsNoCall, SMT DEF DoingOK

LEMMA CommandsBelong ==
  ASSUME DoingOK, Gives(doing.op)
  PROVE  \/ mAutoSaveProc = 2 /\ doing = Call("auto", "load")
         \/ mAutoSaveProc = 3 /\ doing = Call("auto", "save")
         \/ menu = "check" /\ doing = Call("menu", "attach")
         \/ menu = "load" /\ doing = Call("menu", "load")
         \/ menu \in {"saving", "making"} /\ doing = Call("menu", "save")
         \/ menu = "formatting" /\ doing = Call("menu", "format")
<1>1. doing.op \in {"load", "save", "format", "attach"}
  BY DEF Gives
<1>2. \A u : doing \notin {Call(u, "status"), Call(u, "loadSync"), Call(u, "saveSync"), Call(u, "formatSync")}
  BY <1>1, CallFields, SMT
<1>3. doing # Idle /\ doing # Signalling
  BY <1>1, IdleIsNoCall, SignalIsNoCall, SMT
<1> QED
  BY <1>2, <1>3, Zenon DEF DoingOK

LEMMA InitExchange == Init => Exchange
<1> SUFFICES ASSUME Init PROVE Exchange
  OBVIOUS
<1>1. /\ mCardCommand = "ATTACH" /\ mCardState = "NO_CARD" /\ ~field_0x1fc8 /\ card = "top"
      /\ doing = Idle /\ mAutoSaveProc = 0 /\ menu = "closed" /\ fresh /\ ~unsaved
      /\ excuse = {} /\ buffer = "card"
  BY Zenon DEF Init
<1>2. DoingOK
  BY <1>1, Zenon DEF DoingOK
<1>3. AtRest
  BY <1>1, SMT DEF AtRest
<1>4. ProtocolOK
  BY <1>1, SMT DEF ProtocolOK, Awaited, Asked, WriteMeansSaved, OneUser, Gives, Answering, Loading,
     Storing, Pending, Idle
<1>5. FileKnown
  BY <1>1, SMT DEF FileKnown, Clean, Formatting, Attaching, Pending
<1> QED
  BY <1>2, <1>3, <1>4, <1>5 DEF Exchange
-----------------------------------------------------------------------------
LEMMA CardMoves ==
  ASSUME Exchange, CardLocks \/ CardWaits \/ CardUnlocks
  PROVE  Exchange'
<1>0. DoingOK /\ AtRest /\ ProtocolOK /\ FileKnown
  BY DEF Exchange
<1>1. /\ UNCHANGED <<mCardCommand, mCardState, field_0x1fc8, file, buffer, fresh, unsaved, excuse>>
      /\ UNCHANGED <<doing, mAutoSaveProc, menu>>
  BY Zenon DEF CardLocks, CardWaits, CardUnlocks, control, cardVars, users, history
<1>2. \/ card \in {"top", "sleeps"} /\ card' = "holds"
      \/ card = "done" /\ card' = "clears"
      \/ card = "holds" /\ card' = "sleeps" /\ mCardCommand = "NONE"
      \/ card = "holds" /\ card' = "picks" /\ mCardCommand # "NONE"
  BY SMT DEF CardLocks, CardWaits, CardUnlocks
<1>3. DoingOK'
  BY <1>0, <1>1, Zenon DEF DoingOK
<1>4. AtRest'
  BY <1>0, <1>1, <1>2, SMT DEF AtRest
<1>5. ProtocolOK'
  BY <1>0, <1>1, <1>2, SMT DEF ProtocolOK, Awaited, Asked, WriteMeansSaved, OneUser, Gives,
     Answering, Loading, Storing, Pending
<1>6. FileKnown'
  BY <1>0, <1>1, <1>2, SMT DEF FileKnown, Clean, Formatting, Attaching, Storing, Pending
<1> QED
  BY <1>3, <1>4, <1>5, <1>6 DEF Exchange

LEMMA PicksKeeps ==
  ASSUME CardInv, Picks
  PROVE  Exchange'
<1>0. DoingOK /\ AtRest /\ ProtocolOK /\ FileKnown
  BY DEF CardInv, Exchange
<1>1. /\ UNCHANGED <<mCardCommand, mCardState, file, buffer, unsaved, excuse>>
      /\ UNCHANGED <<doing, mAutoSaveProc, menu>>
  BY Zenon DEF Picks, cardVars, users
<1>2. /\ card = "picks" /\ card' = mCardCommand /\ ~fresh'
      /\ field_0x1fc8' <=> (field_0x1fc8 /\ mCardCommand = "ATTACH")
  BY Zenon DEF Picks
<1>3. mCardCommand \in Commands
  BY <1>2, Zenon DEF CardInv, IInv, SomethingToPick, ControlOK
<1>4. DoingOK'
  BY <1>0, <1>1, Zenon DEF DoingOK
<1>5. AtRest'
  BY <1>0, <1>1, <1>2, <1>3, SMT DEF AtRest, Commands
<1>6. ProtocolOK'
  BY <1>0, <1>1, <1>2, <1>3, SMT DEF ProtocolOK, Awaited, Asked, WriteMeansSaved, OneUser, Gives,
     Answering, Loading, Storing, Pending, Commands
<1>7. FileKnown'
  BY <1>0, <1>1, <1>2, <1>3, SMT DEF FileKnown, Clean, Formatting, Attaching, Storing, Pending,
     Commands
<1> QED
  BY <1>4, <1>5, <1>6, <1>7 DEF Exchange

LEMMA CardClearsKeeps ==
  ASSUME CardInv, CardClears
  PROVE  Exchange'
<1>0. DoingOK /\ AtRest /\ ProtocolOK /\ FileKnown
  BY DEF CardInv, Exchange
<1>1. /\ UNCHANGED <<mCardState, field_0x1fc8, file, buffer, unsaved>>
      /\ UNCHANGED <<doing, mAutoSaveProc, menu>>
  BY Zenon DEF CardClears, cardVars, users
<1>2. card = "clears" /\ card' = "top" /\ mCardCommand' = "NONE" /\ ~fresh'
  BY Zenon DEF CardClears
<1>3. ExcuseStays
  <2>1. excuse' = excuse \union {"lost"} \/ excuse' = excuse \union {}
    BY SMT DEF CardClears
  <2> QED
    BY <2>1, ExcuseKept
<1>4. DoingOK'
  BY <1>0, <1>1, Zenon DEF DoingOK
<1>5. AtRest'
  BY <1>2, SMT DEF AtRest
<1>6. ProtocolOK'
  BY <1>0, <1>1, <1>2, <1>3, SMT DEF ProtocolOK, Awaited, Asked, WriteMeansSaved, OneUser, Gives,
     Answering, Loading, Storing, Pending, ExcuseStays
<1>7. FileKnown'
  BY <1>0, <1>1, <1>2, <1>3, SMT DEF FileKnown, Clean, Formatting, Attaching, Storing, Pending,
     ExcuseStays
<1> QED
  BY <1>4, <1>5, <1>6, <1>7 DEF Exchange
-----------------------------------------------------------------------------
LEMMA Outcomes ==
  ASSUME NEW state, NEW result, NEW outcome \in setCardState(state, result)
  PROVE  outcome \in {"FATAL", "NO_CARD", "BROKEN", "NO_FILE", state}
  BY DEF setCardState

(* Where nothing failed an open tells whether there is a file, and the     *)
(* rest succeeds.                                                          *)
LEMMA NothingFailed ==
  ASSUME NEW results, Fails(results) = {}
  PROVE  /\ \A open \in results \intersect Opens : open = IF file THEN "READY" ELSE "NOFILE"
         /\ \A done \in results \intersect Works : done = "READY"
<1>1. results \intersect CardFails = {}
  BY SMT DEF Fails
<1> QED
  BY <1>1, SMT DEF Opens, Works

LEMMA restoreKeeps ==
  ASSUME Exchange, restore
  PROVE  Exchange'
<1>0. DoingOK /\ AtRest /\ ProtocolOK /\ FileKnown
  BY DEF Exchange
<1>1. /\ UNCHANGED <<mCardCommand, field_0x1fc8, file, fresh, unsaved>>
      /\ UNCHANGED <<doing, mAutoSaveProc, menu>>
      /\ card = "RESTORE" /\ card' = "answers"
  BY Zenon DEF restore, Runs, users
<1>2. PICK open \in Opens, read \in Works :
          /\ IF open = "READY" /\ read = "READY"
             THEN mCardState' = "READ" /\ buffer' = "card"
             ELSE mCardState' \in setCardState(mCardState, open) /\ UNCHANGED buffer
          /\ excuse' = excuse \union Fails({open, read})
  BY Zenon DEF restore
<1>3. ExcuseStays
  BY <1>2, ExcuseKept
<1>4. mCardState' \in {"READ", "FATAL", "NO_CARD", "BROKEN", "NO_FILE", mCardState}
  BY <1>2, Outcomes
<1>5. excuse' = {} /\ file => mCardState' = "READ"
  <2> SUFFICES ASSUME excuse' = {}, file PROVE mCardState' = "READ"
    OBVIOUS
  <2>1. Fails({open, read}) = {}
    BY <1>2, SMT
  <2>2. open = "READY" /\ read = "READY"
    BY <2>1, NothingFailed
  <2> QED
    BY <1>2, <2>2
<1>6. DoingOK'
  BY <1>0, <1>1, Zenon DEF DoingOK
<1>7. AtRest'
  BY <1>0, <1>1, SMT DEF AtRest
<1>8. ProtocolOK'
  BY <1>0, <1>1, <1>3, <1>4, SMT DEF ProtocolOK, Awaited, Asked, WriteMeansSaved, OneUser, Gives,
     Answering, Loading, Storing, Pending, ExcuseStays
<1>9. FileKnown'
  <2>1. excuse' = {} => excuse = {} /\ Awaited
    BY <1>0, <1>3, SMT DEF ExcuseStays, ProtocolOK
  <2>2. Clean' => Clean /\ mAutoSaveProc = 0 /\ menu = "load"
    BY <1>0, <1>1, <2>1, SMT DEF Clean, Awaited, Loading, FileKnown
  <2>3. Clean' => doing # Call("menu", "save")
    BY <1>0, <2>2, CallsBelong, SMT
  <2> QED
    BY <1>0, <1>1, <1>5, <2>1, <2>2, <2>3, SMT DEF FileKnown, Formatting, Attaching, Storing,
       Pending, Clean
<1> QED
  BY <1>6, <1>7, <1>8, <1>9 DEF Exchange

LEMMA storeCreatesKeeps ==
  ASSUME Exchange, storeCreates
  PROVE  Exchange'
<1>0. DoingOK /\ AtRest /\ ProtocolOK /\ FileKnown
  BY DEF Exchange
<1>1. /\ UNCHANGED <<mCardCommand, field_0x1fc8, buffer, fresh, unsaved>>
      /\ UNCHANGED <<doing, mAutoSaveProc, menu>>
      /\ card = "STORE" /\ card' \in {"STORE2", "answers"}
  BY Zenon DEF storeCreates, users
<1>2. /\ ExcuseStays
      /\ mCardState' \in {"READY", "FATAL", "NO_CARD", "BROKEN", "NO_FILE", mCardState}
      /\ \/ mCardState = "NO_FILE" /\ mCardState' = "READY" /\ card' = "STORE2"
         \/ mCardState' = mCardState /\ card' = "STORE2" /\ file' = file
         \/ excuse' # {}
  <2>1. CASE mCardState # "NO_FILE"
    BY <2>1, Zenon DEF storeCreates, ExcuseStays
  <2>2. CASE mCardState = "NO_FILE"
    <3>1. PICK created \in Works :
              /\ IF created = "READY" THEN mCardState' = "READY" /\ file' = TRUE /\ card' = "STORE2"
                 ELSE /\ mCardState' \in setCardState(mCardState, created)
                      /\ card' = "answers" /\ UNCHANGED file
              /\ excuse' = excuse \union Fails({created})
      BY <2>2, Zenon DEF storeCreates
    <3>2. ExcuseStays
      BY <3>1, ExcuseKept
    <3>3. CASE created = "READY"
      BY <2>2, <3>1, <3>2, <3>3, Zenon
    <3>4. CASE created # "READY"
      <4>1. Fails({created}) # {}
        BY <3>4, NothingFailed
      <4>2. excuse' # {}
        BY <3>1, <4>1, SMT
      <4>3. mCardState' \in {"FATAL", "NO_CARD", "BROKEN", "NO_FILE", mCardState}
        BY <3>1, <3>4, Outcomes
      <4> QED
        BY <3>2, <4>2, <4>3, SMT
    <3> QED
      BY <3>3, <3>4
  <2> QED
    BY <2>1, <2>2
<1>3. DoingOK'
  BY <1>0, <1>1, Zenon DEF DoingOK
<1>4. AtRest'
  BY <1>0, <1>1, SMT DEF AtRest
<1>5. ProtocolOK'
  BY <1>0, <1>1, <1>2, SMT DEF ProtocolOK, Awaited, Asked, WriteMeansSaved, OneUser, Gives,
     Answering, Loading, Storing, Pending, ExcuseStays
<1>6. FileKnown'
  <2>1. excuse' = {} => excuse = {} /\ Awaited
    BY <1>0, <1>2, SMT DEF ExcuseStays, ProtocolOK
  <2>2. Clean' => Clean /\ mAutoSaveProc = 0 /\ menu \in {"saving", "making"}
    BY <1>0, <1>1, <2>1, SMT DEF Clean, Awaited, Storing, FileKnown
  <2>3. card' \notin {"FORMAT", "ATTACH", "checkspace", "top", "holds", "sleeps", "picks"}
    BY <1>1, SMT
  <2> QED
    BY <1>0, <1>1, <1>2, <2>1, <2>2, <2>3, SMT DEF FileKnown, Formatting, Attaching, Storing,
       Pending, Clean
<1> QED
  BY <1>3, <1>4, <1>5, <1>6 DEF Exchange

LEMMA storeWritesKeeps ==
  ASSUME Exchange, storeWrites
  PROVE  Exchange'
<1>0. DoingOK /\ AtRest /\ ProtocolOK /\ FileKnown
  BY DEF Exchange
<1>1. /\ UNCHANGED <<mCardCommand, field_0x1fc8, file, buffer, fresh>>
      /\ UNCHANGED <<doing, mAutoSaveProc, menu>>
      /\ card = "STORE2" /\ card' = "answers"
  BY Zenon DEF storeWrites, Runs, users
<1>2. /\ ExcuseStays
      /\ mCardState' \in {"WRITE", "FATAL", "NO_CARD", "BROKEN", "NO_FILE", mCardState}
      /\ unsaved' => unsaved
      /\ mCardState' = "WRITE" => mCardState = "WRITE" \/ ~(unsaved' /\ buffer = "save")
      /\ mCardState = "READY" /\ file /\ excuse' = {} => mCardState' = "WRITE"
  <2>1. CASE mCardState # "READY"
    <3>1. /\ \E ret \in Failures \union {"READY", "NOFILE"} :
                mCardState' \in setCardState(mCardState, ret)
          /\ UNCHANGED <<unsaved, excuse>>
      BY <2>1, Zenon DEF storeWrites
    <3>2. mCardState' \in {"FATAL", "NO_CARD", "BROKEN", "NO_FILE", mCardState}
      BY <3>1, Outcomes
    <3> QED
      BY <2>1, <3>1, <3>2, SMT DEF ExcuseStays
  <2>2. CASE mCardState = "READY"
    <3> DEFINE result(open, write) == IF open = "READY" THEN write ELSE open
    <3>1. PICK open \in Opens, write \in Works :
              /\ IF result(open, write) = "READY" THEN mCardState' = "WRITE"
                 ELSE mCardState' \in setCardState(mCardState, result(open, write))
              /\ unsaved' = (unsaved /\ ~(result(open, write) = "READY" /\ buffer = "save"))
              /\ excuse' = excuse \union Fails({open, write})
                           \union IF mCardState' = "READY" THEN {"lost"} ELSE {}
      BY <2>2, Zenon DEF storeWrites, Written
    <3>2. ExcuseStays
      BY <3>1, SMT DEF ExcuseStays
    <3>3. unsaved' => unsaved /\ ~(result(open, write) = "READY" /\ buffer = "save")
      BY <3>1, Zenon
    <3>4. CASE result(open, write) = "READY"
      BY <3>1, <3>2, <3>3, <3>4, Zenon
    <3>5. CASE result(open, write) # "READY"
      <4> HIDE DEF result
      <4>1. mCardState' \in {"FATAL", "NO_CARD", "BROKEN", "NO_FILE", mCardState}
        BY <3>1, <3>5, Outcomes
      <4>2. file => Fails({open, write}) # {}
        BY <3>5, NothingFailed DEF result
      <4>3. file => excuse' # {}
        BY <3>1, <4>2, SMT
      <4> QED
        BY <2>2, <3>2, <3>3, <4>1, <4>3, SMT
    <3> QED
      BY <3>4, <3>5
  <2> QED
    BY <2>1, <2>2
<1>3. DoingOK'
  BY <1>0, <1>1, Zenon DEF DoingOK
<1>4. AtRest'
  BY <1>0, <1>1, SMT DEF AtRest
<1>5. ProtocolOK'
  BY <1>0, <1>1, <1>2, SMT DEF ProtocolOK, Awaited, Asked, WriteMeansSaved, OneUser, Gives,
     Answering, Loading, Storing, Pending, ExcuseStays
<1>6. FileKnown'
  <2>1. excuse' = {} => excuse = {} /\ Awaited /\ Asked
    BY <1>0, <1>2, SMT DEF ExcuseStays, ProtocolOK
  <2>2. Clean' => Clean /\ mAutoSaveProc = 0 /\ menu \in {"saving", "making"}
    BY <1>0, <1>1, <2>1, SMT DEF Clean, Awaited, Storing, FileKnown
  <2>3. card' \notin {"FORMAT", "ATTACH", "checkspace", "top", "holds", "sleeps", "picks"}
    BY <1>1, SMT
  <2>4. Clean' => doing # Call("menu", "save")
    <3> SUFFICES ASSUME Clean', doing = Call("menu", "save") PROVE FALSE
      BY Zenon
    <3>1. doing.op = "save"
      BY CallFields, Zenon
    <3>2. excuse' = {}
      BY <1>1, SMT DEF Clean
    <3> QED
      BY <1>1, <2>1, <2>2, <3>1, <3>2, SMT DEF Asked, OneUser, Gives, Answering, Storing
  <2> QED
    BY <1>0, <1>1, <1>2, <2>1, <2>2, <2>3, <2>4, SMT DEF FileKnown, Formatting, Attaching, Storing,
       Pending, Clean
<1> QED
  BY <1>3, <1>4, <1>5, <1>6 DEF Exchange

LEMMA publishKeeps ==
  ASSUME Exchange, publish
  PROVE  Exchange'
<1>0. DoingOK /\ AtRest /\ ProtocolOK /\ FileKnown
  BY DEF Exchange
<1>1. /\ UNCHANGED <<mCardCommand, mCardState, file, buffer, fresh, unsaved, excuse>>
      /\ UNCHANGED <<doing, mAutoSaveProc, menu>>
      /\ card = "answers" /\ card' = "done" /\ field_0x1fc8'
  BY Zenon DEF publish, Runs, Answers, cardVars, users
<1>2. DoingOK'
  BY <1>0, <1>1, Zenon DEF DoingOK
<1>3. AtRest'
  BY <1>0, <1>1, SMT DEF AtRest
<1>4. ProtocolOK'
  BY <1>0, <1>1, SMT DEF ProtocolOK, Awaited, Asked, WriteMeansSaved, OneUser, Gives,
     Answering, Loading, Storing, Pending
<1>5. FileKnown'
  BY <1>0, <1>1, SMT DEF FileKnown, Clean, Formatting, Attaching, Storing, Pending
<1> QED
  BY <1>2, <1>3, <1>4, <1>5 DEF Exchange

LEMMA formatKeeps ==
  ASSUME Exchange, format
  PROVE  Exchange'
<1>0. DoingOK /\ AtRest /\ ProtocolOK /\ FileKnown
  BY DEF Exchange
<1>1. /\ UNCHANGED <<mCardCommand, buffer, fresh, unsaved>>
      /\ UNCHANGED <<doing, mAutoSaveProc, menu>>
      /\ card = "FORMAT" /\ card' = "done"
  BY Zenon DEF format, Runs, users
<1>2. PICK result \in Works :
          /\ file' = (file /\ result # "READY")
          /\ IF holder = "none"
             THEN /\ mCardState' \in IF result = "READY" THEN {"FORMAT"}
                                     ELSE setCardState(mCardState, result)
                  /\ field_0x1fc8' = TRUE
                  /\ excuse' = excuse \union Fails({result})
             ELSE /\ UNCHANGED <<mCardState, field_0x1fc8>>
                  /\ excuse' = excuse \union {"lost"}
  BY Zenon DEF format
<1>3. ExcuseStays
  BY <1>2, ExcuseKept, Zenon
<1>4. mCardState' \in {"FORMAT", "FATAL", "NO_CARD", "BROKEN", "NO_FILE", mCardState}
  <2>1. CASE holder = "none" /\ result # "READY"
    BY <1>2, <2>1, Outcomes
  <2> QED
    BY <1>2, <2>1
<1>5. excuse' = {} => ~file'
  <2> SUFFICES ASSUME excuse' = {} PROVE ~file'
    OBVIOUS
  <2>1. holder = "none" /\ Fails({result}) = {}
    BY <1>2, SMT
  <2>2. result = "READY"
    BY <2>1, NothingFailed
  <2> QED
    BY <1>2, <2>2, Zenon
<1>6. DoingOK'
  BY <1>0, <1>1, Zenon DEF DoingOK
<1>7. AtRest'
  BY <1>0, <1>1, SMT DEF AtRest
<1>8. ProtocolOK'
  BY <1>0, <1>1, <1>3, <1>4, SMT DEF ProtocolOK, Awaited, Asked, WriteMeansSaved, OneUser, Gives,
     Answering, Loading, Storing, Pending, ExcuseStays
<1>9. FileKnown'
  BY <1>0, <1>1, <1>3, <1>5, SMT DEF FileKnown, Clean, Attaching, Pending, ExcuseStays
<1> QED
  BY <1>6, <1>7, <1>8, <1>9 DEF Exchange

LEMMA attachKeeps ==
  ASSUME Exchange, attach
  PROVE  Exchange'
<1>0. DoingOK /\ AtRest /\ ProtocolOK /\ FileKnown
  BY DEF Exchange
<1>1. /\ UNCHANGED <<mCardCommand, field_0x1fc8, file, buffer, fresh, unsaved>>
      /\ UNCHANGED <<doing, mAutoSaveProc, menu>>
      /\ card = "ATTACH" /\ card' \in {"done", "checkspace"}
  BY Zenon DEF attach, cardVars, users
<1>2. /\ ExcuseStays
      /\ mCardState' \in {"READY", "FATAL", "NO_CARD", "BROKEN", "NO_FILE", mCardState}
      /\ excuse' = {} /\ file => mCardState' = "READY" /\ card' = "done"
  <2>1. CASE \E mount \in CardFails :
                /\ card' = "done"
                /\ mCardState' \in setCardState(mCardState, mount)
                /\ excuse' = excuse \union {"failed"}
                             \union IF mCardState' = "PENDING" THEN {"lost"} ELSE {}
    <3>1. excuse' # {} /\ ExcuseStays
      BY <2>1, SMT DEF ExcuseStays
    <3>2. mCardState' \in {"FATAL", "NO_CARD", "BROKEN", "NO_FILE", mCardState}
      BY <2>1, Outcomes
    <3> QED
      BY <3>1, <3>2, SMT
  <2>2. CASE \E open \in Opens :
                /\ card' = IF open = "READY" THEN "done" ELSE "checkspace"
                /\ IF open = "READY" THEN mCardState' = "READY"
                   ELSE mCardState' \in setCardState(mCardState, open)
                /\ excuse' = excuse \union Fails({open})
    <3>1. PICK open \in Opens :
              /\ card' = IF open = "READY" THEN "done" ELSE "checkspace"
              /\ IF open = "READY" THEN mCardState' = "READY"
                 ELSE mCardState' \in setCardState(mCardState, open)
              /\ excuse' = excuse \union Fails({open})
      BY <2>2, Zenon
    <3>2. ExcuseStays
      BY <3>1, ExcuseKept
    <3>3. mCardState' \in {"READY", "FATAL", "NO_CARD", "BROKEN", "NO_FILE", mCardState}
      BY <3>1, Outcomes
    <3>4. excuse' = {} /\ file => open = "READY"
      <4> SUFFICES ASSUME excuse' = {}, file PROVE open = "READY"
        OBVIOUS
      <4>1. Fails({open}) = {}
        BY <3>1, SMT
      <4> QED
        BY <4>1, NothingFailed
    <3> QED
      BY <3>1, <3>2, <3>3, <3>4, Zenon
  <2> QED
    BY <2>1, <2>2, Zenon DEF attach
<1>3. DoingOK'
  BY <1>0, <1>1, Zenon DEF DoingOK
<1>4. AtRest'
  BY <1>0, <1>1, SMT DEF AtRest
<1>5. ProtocolOK'
  BY <1>0, <1>1, <1>2, SMT DEF ProtocolOK, Awaited, Asked, WriteMeansSaved, OneUser, Gives,
     Answering, Loading, Storing, Pending, ExcuseStays
<1>6. FileKnown'
  <2>1. Clean' => Clean /\ menu = "check"
    BY <1>0, <1>1, <1>2, SMT DEF FileKnown, Clean, Attaching, ExcuseStays
  <2> QED
    BY <1>0, <1>1, <1>2, <2>1, SMT DEF FileKnown, Clean, Formatting, Attaching, Storing, Pending,
       ExcuseStays
<1> QED
  BY <1>3, <1>4, <1>5, <1>6 DEF Exchange

LEMMA checkspaceKeeps ==
  ASSUME Exchange, checkspace
  PROVE  Exchange'
<1>0. DoingOK /\ AtRest /\ ProtocolOK /\ FileKnown
  BY DEF Exchange
<1>1. /\ UNCHANGED <<mCardCommand, field_0x1fc8, file, buffer, fresh, unsaved>>
      /\ UNCHANGED <<doing, mAutoSaveProc, menu>>
      /\ card = "checkspace" /\ card' = "done"
  BY Zenon DEF checkspace, Runs, cardVars, users
<1>2. PICK free \in Works \union {"NOSPACE"} :
          /\ mCardState' \in CASE free = "READY" -> {"NO_FILE"}
                               [] free = "NOSPACE" -> {"NOSPACE"}
                               [] OTHER -> setCardState(mCardState, free)
          /\ excuse' = excuse \union Fails({free})
                       \union IF mCardState' = "PENDING" THEN {"lost"} ELSE {}
  BY Zenon DEF checkspace
<1>3. ExcuseStays
  BY <1>2, SMT DEF ExcuseStays
<1>4. mCardState' \in {"NOSPACE", "FATAL", "NO_CARD", "BROKEN", "NO_FILE", mCardState}
  <2>1. CASE free \notin {"READY", "NOSPACE"}
    <3>1. mCardState' \in setCardState(mCardState, free)
      BY <1>2, <2>1
    <3> QED
      BY <3>1, Outcomes
  <2> QED
    BY <1>2, <2>1
<1>5. DoingOK'
  BY <1>0, <1>1, Zenon DEF DoingOK
<1>6. AtRest'
  BY <1>0, <1>1, SMT DEF AtRest
<1>7. ProtocolOK'
  BY <1>0, <1>1, <1>3, <1>4, SMT DEF ProtocolOK, Awaited, Asked, WriteMeansSaved, OneUser, Gives,
     Answering, Loading, Storing, Pending, ExcuseStays
<1>8. FileKnown'
  BY <1>0, <1>1, <1>3, SMT DEF FileKnown, Clean, Formatting, Attaching, Pending, ExcuseStays
<1> QED
  BY <1>5, <1>6, <1>7, <1>8 DEF Exchange

LEMMA CardKeeps == ASSUME CardInv, CardStep PROVE Exchange'
<1>1. Exchange
  BY DEF CardInv
<1> QED
  BY <1>1, CardMoves, PicksKeeps, CardClearsKeeps, restoreKeeps, storeCreatesKeeps,
     storeWritesKeeps, publishKeeps, formatKeeps, attachKeeps, checkspaceKeeps, Zenon DEF CardStep
-----------------------------------------------------------------------------
LEMMA TryLocksKeeps == ASSUME Exchange, TryLocks \/ CardWakes \/ UNCHANGED vars PROVE Exchange'
<1>1. /\ UNCHANGED <<mCardCommand, mCardState, field_0x1fc8, file, buffer, card, fresh, unsaved, excuse>>
      /\ UNCHANGED <<doing, mAutoSaveProc, menu>>
  BY Zenon DEF TryLocks, CardWakes, vars, control, cardVars, users, history
<1>2. DoingOK' /\ AtRest'
  BY <1>1, Zenon DEF Exchange, DoingOK, AtRest
<1>3. ProtocolOK'
  BY <1>1, SMT DEF Exchange, ProtocolOK, Awaited, Asked, WriteMeansSaved, OneUser, Gives,
     Answering, Loading, Storing, Pending
<1>4. FileKnown'
  BY <1>1, SMT DEF Exchange, FileKnown, Clean, Formatting, Attaching, Storing, Pending
<1> QED
  BY <1>2, <1>3, <1>4 DEF Exchange

LEMMA LockRefusedKeeps == ASSUME Exchange, LockRefused \/ Signals PROVE Exchange'
<1>0. DoingOK /\ AtRest /\ ProtocolOK /\ FileKnown
  BY DEF Exchange
<1>1. /\ UNCHANGED <<mCardCommand, mCardState, field_0x1fc8, file, buffer, card, fresh, unsaved>>
      /\ UNCHANGED <<mAutoSaveProc, menu>>
      /\ doing' = Idle
  BY Zenon DEF LockRefused, Signals, control, cardVars, history
<1>2. ExcuseStays /\ (excuse' = {} => ~Gives(doing.op))
  <2>1. CASE LockRefused /\ Gives(doing.op)
    <3>1. excuse' = excuse \union {"lost"}
      BY <2>1, Zenon DEF LockRefused
    <3> QED
      BY <3>1, SMT DEF ExcuseStays
  <2>2. CASE LockRefused /\ ~Gives(doing.op)
    <3>1. excuse' = excuse
      BY <2>2, Zenon DEF LockRefused
    <3> QED
      BY <2>2, <3>1, Zenon DEF ExcuseStays
  <2>3. CASE Signals
    <3>1. doing = Signalling /\ excuse' = excuse
      BY <2>3, Zenon DEF Signals, history, Signalling
    <3> QED
      BY <3>1, SignalIsNoCall, SMT DEF Gives, ExcuseStays
  <2> QED
    BY <2>1, <2>2, <2>3
<1>3. DoingOK'
  BY <1>1, Zenon DEF DoingOK
<1>4. AtRest'
  BY <1>0, <1>1, Zenon DEF AtRest
<1>5. ProtocolOK'
  BY <1>0, <1>1, <1>2, IdleIsNoCall, SMT DEF ProtocolOK, Awaited, Asked, WriteMeansSaved, OneUser,
     Gives, Answering, Loading, Storing, Pending, ExcuseStays
<1>6. FileKnown'
  <2>1. doing' \notin {Call("menu", "attach"), Call("menu", "save"), Call("menu", "loadSync")}
    BY <1>1, IdleIsNoCall, Zenon
  <2>2. excuse' = {} => doing \notin {Call("menu", "attach"), Call("menu", "load")}
    BY <1>2, CallFields, SMT DEF Gives
  <2>3. Clean' => Clean
    BY <1>1, <1>2, <2>2, SMT DEF Clean, ExcuseStays
  <2>4. Clean' => excuse' = {}
    BY Zenon DEF Clean
  <2> QED
    BY <1>0, <1>1, <1>2, <2>1, <2>2, <2>3, <2>4, SMT DEF FileKnown, Formatting, Attaching,
       Storing, Pending, ExcuseStays
<1> QED
  BY <1>3, <1>4, <1>5, <1>6 DEF Exchange

(* A command is given by one who waits for nothing else, and nothing else  *)
(* is under way but when autosave and menu are there together.             *)
LEMMA GivesCommandKeeps == ASSUME CardInv, GivesCommand PROVE Exchange'
<1>0. DoingOK /\ AtRest /\ ProtocolOK /\ FileKnown
  BY DEF CardInv, Exchange
<1>1. /\ UNCHANGED <<file, card, mAutoSaveProc, menu>>
      /\ doing' = Signalling /\ Gives(doing.op)
      /\ mCardCommand' = CommandOf(doing.op)
      /\ field_0x1fc8' <=> (field_0x1fc8 /\ ~ClearsAnswer(doing.op))
      /\ mCardState' = IF doing.op = "attach" THEN "PENDING" ELSE mCardState
  BY Zenon DEF GivesCommand, Signalling
<1>2. IF doing.op = "save" THEN buffer' = "save" /\ unsaved' = TRUE ELSE UNCHANGED <<buffer, unsaved>>
  BY Zenon DEF GivesCommand
<1>3. /\ ExcuseStays
      /\ "shared" \in excuse' \/ OneUser
      /\ excuse' = {} => OneUser
  <2>1. excuse' = excuse \union (IF fresh THEN {"lost"} ELSE {})
                         \union (IF mAutoSaveProc # 0 /\ menu # "closed" THEN {"shared"} ELSE {})
    BY Zenon DEF GivesCommand
  <2> QED
    BY <2>1, SMT DEF ExcuseStays, OneUser
<1>4. doing' \notin {Call("menu", "attach"), Call("menu", "save"), Call("menu", "load"),
                     Call("menu", "loadSync")}
      /\ doing'.op \notin {"load", "save", "format", "attach", "loadSync", "saveSync"}
  BY <1>1, SignalIsNoCall, Zenon
<1>5. \/ doing.op = "load" /\ (mAutoSaveProc = 2 \/ (menu = "load" /\ doing = Call("menu", "load")))
         /\ mCardCommand' = "RESTORE" /\ ~field_0x1fc8' /\ mCardState' = mCardState
      \/ doing.op = "save" /\ mCardCommand' = "STORE" /\ ~field_0x1fc8' /\ mCardState' = mCardState
         /\ (mAutoSaveProc = 3 \/ (menu \in {"saving", "making"} /\ doing = Call("menu", "save")))
      \/ doing.op = "format" /\ menu = "formatting" /\ doing = Call("menu", "format")
         /\ mCardCommand' = "FORMAT" /\ mCardState' = mCardState
      \/ doing.op = "attach" /\ menu = "check" /\ doing = Call("menu", "attach")
         /\ mCardCommand' = "ATTACH" /\ mCardState' = "PENDING"
  <2>2. \/ doing.op = "load" /\ (mAutoSaveProc = 2 \/ (menu = "load" /\ doing = Call("menu", "load")))
        \/ doing.op = "save"
           /\ (mAutoSaveProc = 3 \/ (menu \in {"saving", "making"} /\ doing = Call("menu", "save")))
        \/ doing.op = "format" /\ menu = "formatting" /\ doing = Call("menu", "format")
        \/ doing.op = "attach" /\ menu = "check" /\ doing = Call("menu", "attach")
    <3>1. \/ mAutoSaveProc = 2 /\ doing = Call("auto", "load")
          \/ mAutoSaveProc = 3 /\ doing = Call("auto", "save")
          \/ menu = "check" /\ doing = Call("menu", "attach")
          \/ menu = "load" /\ doing = Call("menu", "load")
          \/ menu \in {"saving", "making"} /\ doing = Call("menu", "save")
          \/ menu = "formatting" /\ doing = Call("menu", "format")
      BY <1>0, <1>1, CommandsBelong
    <3>2. \A u, a : doing = Call(u, a) => doing.op = a
      BY CallFields, Zenon
    <3> QED
      BY <3>1, <3>2, Zenon
  <2>3. /\ doing.op = "load" => mCardCommand' = "RESTORE"
        /\ doing.op = "save" => mCardCommand' = "STORE"
        /\ doing.op = "format" => mCardCommand' = "FORMAT"
        /\ doing.op = "attach" => mCardCommand' = "ATTACH"
    BY <1>1 DEF CommandOf
  <2> QED
    BY <1>1, <2>2, <2>3, SMT DEF ClearsAnswer
<1>6. DoingOK'
  BY <1>1, Zenon DEF DoingOK
<1>7. AtRest'
  BY <1>5, SMT DEF AtRest
<1>8. ProtocolOK'
  <2> SUFFICES ASSUME "shared" \notin excuse' PROVE (Awaited /\ Asked /\ WriteMeansSaved)'
    BY Zenon DEF ProtocolOK
  <2>1. OneUser /\ Awaited /\ Asked /\ WriteMeansSaved
    BY <1>0, <1>3, SMT DEF ProtocolOK, ExcuseStays
  <2>2. ~Answering
    BY <1>1, <2>1, Zenon DEF Asked
  <2>3. Awaited'
    BY <1>1, <1>2, <1>5, <2>1, <2>2, SMT DEF Awaited, Answering, Loading, Storing, Pending, OneUser
  <2>4. Asked'
    BY <1>4, SMT DEF Asked, Gives
  <2>5. WriteMeansSaved'
    BY <1>1, <1>2, <1>4, <1>5, <2>1, SMT DEF WriteMeansSaved, OneUser
  <2> QED
    BY <2>3, <2>4, <2>5, Zenon
<1>9. FileKnown'
  <2>1. CASE excuse' # {}
    BY <2>1, SMT DEF FileKnown, Clean
  <2>2. CASE excuse' = {}
    <3>1. excuse = {} /\ OneUser /\ ~Answering
      BY <1>0, <1>1, <1>3, <2>2, SMT DEF ProtocolOK, ExcuseStays, Asked
    <3>2. doing.op # "attach" => doing # Call("menu", "attach")
      BY CallFields, Zenon
    <3>3. CASE menu = "closed"
      BY <1>0, <1>1, <1>5, <3>1, <3>3, SMT DEF FileKnown, Clean, Formatting, Pending
    <3>4. CASE menu # "closed" /\ doing.op = "attach"
      BY <1>0, <1>1, <1>4, <1>5, <3>1, <3>4, SMT DEF FileKnown, Clean, Formatting, Attaching,
         Storing, Pending, OneUser, Answering
    <3>5. CASE menu # "closed" /\ doing.op # "attach"
      <4>1. Clean
        BY <3>1, <3>2, <3>5, Zenon DEF Clean
      <4> HIDE DEF Clean
      <4>2. mAutoSaveProc = 0 /\ ~(Attaching /\ menu # "check")
        BY <1>0, <4>1, Zenon DEF FileKnown
      <4> QED
        BY <1>0, <1>1, <1>4, <1>5, <3>1, <3>5, <4>1, <4>2, SMT DEF FileKnown, Formatting,
           Attaching, Storing, Pending, Answering
    <3> QED
      BY <3>3, <3>4, <3>5
  <2> QED
    BY <2>1, <2>2
<1> QED
  BY <1>6, <1>7, <1>8, <1>9 DEF Exchange

LEMMA ResetSyncsKeeps == ASSUME Exchange, ResetSyncs PROVE Exchange'
<1>0. DoingOK /\ AtRest /\ ProtocolOK /\ FileKnown
  BY DEF Exchange
<1>1. /\ UNCHANGED <<mCardCommand, field_0x1fc8, file, buffer, card, fresh, unsaved>>
      /\ UNCHANGED <<mAutoSaveProc, menu>>
      /\ doing' = Idle /\ doing = Call("reset", "saveSync")
      /\ mCardState' = IF mCardState = "WRITE" THEN "READY" ELSE mCardState
  BY Zenon DEF ResetSyncs, At, Released, cardVars
<1>2. ExcuseStays
  <2>1. excuse' = excuse \union {"lost"} \/ excuse' = excuse \union {}
    BY SMT DEF ResetSyncs
  <2> QED
    BY <2>1, ExcuseKept
<1>3. menu = "closed"
  BY <1>0, <1>1, CallsBelong, Zenon
<1>4. DoingOK'
  BY <1>1, Zenon DEF DoingOK
<1>5. AtRest'
  BY <1>0, <1>1, Zenon DEF AtRest
<1>6. ProtocolOK'
  BY <1>0, <1>1, <1>2, <1>3, IdleIsNoCall, SMT DEF ProtocolOK, Awaited, Asked, WriteMeansSaved,
     OneUser, Gives, Answering, Loading, Storing, Pending, ExcuseStays
<1>7. FileKnown'
  BY <1>0, <1>1, <1>2, <1>3, SMT DEF FileKnown, Clean, Formatting, Pending, ExcuseStays
<1> QED
  BY <1>4, <1>5, <1>6, <1>7 DEF Exchange

LEMMA GameKeeps == ASSUME CardInv, GameStep PROVE Exchange'
<1>1. Exchange
  BY DEF CardInv
<1> QED
  BY <1>1, TryLocksKeeps, LockRefusedKeeps, GivesCommandKeeps, ResetSyncsKeeps, Zenon DEF GameStep
-----------------------------------------------------------------------------
(* Both users ask only for an answer that is there.                        *)
LEMMA AsksKeeps == ASSUME Exchange, AutoAsks \/ MenuAsks PROVE Exchange'
<1>0. DoingOK /\ AtRest /\ ProtocolOK /\ FileKnown
  BY DEF Exchange
<1>1. /\ UNCHANGED <<mCardCommand, mCardState, field_0x1fc8, file, buffer, card, fresh, unsaved, excuse>>
      /\ UNCHANGED <<mAutoSaveProc, menu>>
      /\ doing = Idle
  BY Zenon DEF AutoAsks, MenuAsks, Asks, Free, control, cardVars, history
<1>2. \/ mAutoSaveProc = 1 /\ doing' = Call("auto", "status")
      \/ mAutoSaveProc = 2 /\ doing' = Call("auto", "loadSync") /\ field_0x1fc8
      \/ mAutoSaveProc = 3 /\ doing' = Call("auto", "saveSync") /\ field_0x1fc8
      \/ menu = "check" /\ doing' = Call("menu", "status")
      \/ menu = "load" /\ doing' = Call("menu", "loadSync") /\ field_0x1fc8
      \/ menu \in {"saving", "making"} /\ doing' = Call("menu", "saveSync") /\ field_0x1fc8
      \/ menu = "formatting" /\ doing' = Call("menu", "formatSync") /\ field_0x1fc8
  <2>1. "loadSync" # "status" /\ "saveSync" # "status" /\ "formatSync" # "status"
    OBVIOUS
  <2> QED
    BY <2>1, Zenon DEF AutoAsks, MenuAsks, Asks, MayAsk
<1>3. /\ doing'.op \notin {"load", "save", "format", "attach"}
      /\ doing'.op \in {"loadSync", "saveSync"} => field_0x1fc8
  <2>1. \A u, a : doing' = Call(u, a) => doing'.op = a
    BY CallFields, Zenon
  <2>2. doing'.op = "status" \/ (doing'.op \in {"loadSync", "saveSync", "formatSync"} /\ field_0x1fc8)
    BY <1>2, <2>1, Zenon
  <2> QED
    BY <2>2, SMT
<1>4. DoingOK'
  BY <1>1, <1>2, Zenon DEF DoingOK
<1>5. AtRest'
  BY <1>0, <1>1, Zenon DEF AtRest
<1>6. ProtocolOK'
  BY <1>0, <1>1, <1>3, SMT DEF ProtocolOK, Awaited, Asked, WriteMeansSaved,
     OneUser, Gives, Answering, Loading, Storing, Pending
<1>7. FileKnown'
  <2>1. \A u, a : doing' = Call(u, a) => doing'.op = a
    BY CallFields, Zenon
  <2>2. doing' \notin {Call("menu", "attach"), Call("menu", "save"), Call("menu", "load")}
    BY <1>3, <2>1, Zenon
  <2>3. doing' = Call("menu", "loadSync") => field_0x1fc8
    BY <1>3, <2>1, Zenon
  <2>4. doing \notin {Call("menu", "attach"), Call("menu", "load")}
    BY <1>1, IdleIsNoCall, Zenon
  <2>5. Clean' <=> Clean
    BY <1>1, <2>2, <2>4, Zenon DEF Clean
  <2> QED
    BY <1>0, <1>1, <2>2, <2>3, <2>4, <2>5, SMT DEF FileKnown, Formatting, Attaching, Storing, Pending
<1> QED
  BY <1>4, <1>5, <1>6, <1>7 DEF Exchange

(* While the autosave is on its way nothing is said of the file.           *)
LEMMA AutoTurnsKeep ==
  ASSUME Exchange, enterAutoSave \/ autoSaving \/ waitingForWrite \/ endAutoSave
  PROVE  Exchange'
<1>0. DoingOK /\ AtRest /\ ProtocolOK /\ FileKnown
  BY DEF Exchange
<1>1. /\ UNCHANGED <<mCardCommand, field_0x1fc8, file, buffer, card, fresh, unsaved, excuse, menu>>
  BY Zenon DEF enterAutoSave, autoSaving, waitingForWrite, endAutoSave, Released, control,
     cardVars, history
<1>2. \/ /\ mAutoSaveProc = 1 /\ doing.op = "status" /\ mCardState' = mCardState
         /\ \/ mAutoSaveProc' = 2 /\ doing' = Call("auto", "load") /\ mCardState = "READY"
            \/ mAutoSaveProc' \in {0, 1} /\ doing' = Idle
      \/ /\ mAutoSaveProc = 2 /\ doing.op = "loadSync" /\ mCardState' \in {"READY", "NO_FILE"}
         /\ \/ mAutoSaveProc' = 3 /\ doing' = Call("auto", "save")
            \/ mAutoSaveProc' \in {1, 2} /\ doing' = Idle
      \/ /\ mAutoSaveProc = 3 /\ doing.op = "saveSync" /\ doing' = Idle
         /\ mCardState' = IF mCardState = "WRITE" THEN "READY" ELSE mCardState
         /\ mAutoSaveProc' \in {0, 3, 4}
      \/ /\ mAutoSaveProc = 4 /\ mAutoSaveProc' = 0 /\ doing = Idle /\ doing' = Idle
         /\ mCardState' = mCardState
  <2>0. \A u, a : doing = Call(u, a) => doing.op = a
    BY CallFields, Zenon
  <2>1. CASE enterAutoSave
    <3>1. mAutoSaveProc = 1 /\ doing.op = "status"
      BY <1>0, <2>0, <2>1, CallsBelong, Zenon DEF enterAutoSave, At
    <3> QED
      BY <2>1, <3>1, SMT DEF enterAutoSave
  <2>2. CASE autoSaving
    <3>1. mAutoSaveProc = 2 /\ doing.op = "loadSync"
      BY <1>0, <2>0, <2>2, CallsBelong, Zenon DEF autoSaving, At
    <3> QED
      BY <2>2, <3>1, SMT DEF autoSaving
  <2>3. CASE waitingForWrite
    <3>1. mAutoSaveProc = 3 /\ doing.op = "saveSync"
      BY <1>0, <2>0, <2>3, CallsBelong, Zenon DEF waitingForWrite, At
    <3>2. mAutoSaveProc' \in {0, 3, 4}
      BY <2>3 DEF waitingForWrite
    <3>3. doing' = Idle /\ mCardState' = IF mCardState = "WRITE" THEN "READY" ELSE mCardState
      BY <2>3, Zenon DEF waitingForWrite
    <3> QED
      BY <3>1, <3>2, <3>3, SMT
  <2>4. CASE endAutoSave
    BY <2>4, Zenon DEF endAutoSave, Free, control
  <2> QED
    BY <2>1, <2>2, <2>3, <2>4
<1>3. /\ doing'.op \notin {"format", "attach", "loadSync", "saveSync"}
      /\ doing'.op = "load" => mAutoSaveProc = 1
      /\ doing'.op = "save" => mAutoSaveProc = 2
  <2>1. \A u, a : doing' = Call(u, a) => doing'.op = a
    BY CallFields, Zenon
  <2>2. doing' = Idle => doing'.op \notin {"load", "save", "format", "attach", "loadSync", "saveSync"}
    BY IdleIsNoCall, Zenon
  <2>3. CASE doing' = Idle
    BY <2>2, <2>3, SMT
  <2>4. CASE doing' = Call("auto", "load") /\ mAutoSaveProc = 1
    <3>1. doing'.op = "load"
      BY <2>1, <2>4, Zenon
    <3> QED
      BY <2>4, <3>1, SMT
  <2>5. CASE doing' = Call("auto", "save") /\ mAutoSaveProc = 2
    <3>1. doing'.op = "save"
      BY <2>1, <2>5, Zenon
    <3> QED
      BY <2>5, <3>1, SMT
  <2> QED
    BY <1>2, <2>3, <2>4, <2>5, Zenon
<1>4. DoingOK'
  BY <1>2, Zenon DEF DoingOK
<1>5. AtRest'
  BY <1>0, <1>1, Zenon DEF AtRest
<1>6. ProtocolOK'
  <2> SUFFICES ASSUME "shared" \notin excuse PROVE (Awaited /\ Asked /\ WriteMeansSaved)'
    BY <1>1, Zenon DEF ProtocolOK
  <2>1. Awaited /\ Asked /\ WriteMeansSaved
    BY <1>0, Zenon DEF ProtocolOK
  <2>2. ~Answering
    BY <1>2, <2>1, SMT DEF Awaited, Asked, Answering
  <2>3. Awaited'
    BY <1>1, <2>2, SMT DEF Awaited, Answering, Loading, Storing, Pending
  <2>4. Asked'
    BY <1>1, <2>2, SMT DEF Asked, Answering, Loading, Storing, Pending
  <2>5. WriteMeansSaved'
    BY <1>1, <1>2, <1>3, <2>1, SMT DEF WriteMeansSaved, OneUser
  <2> QED
    BY <2>3, <2>4, <2>5, Zenon
<1>7. FileKnown'
  <2>1. doing # Call("menu", "attach")
    <3>1. doing.op # "attach"
      BY <1>2, IdleIsNoCall, SMT
    <3> QED
      BY <3>1, CallFields, Zenon
  <2>2. ~Clean'
    BY <1>0, <1>1, <1>2, <2>1, SMT DEF FileKnown, Clean
  <2> QED
    BY <1>0, <1>1, <2>2, SMT DEF FileKnown, Formatting, Pending
<1> QED
  BY <1>4, <1>5, <1>6, <1>7 DEF Exchange

LEMMA AutoKeeps == ASSUME Exchange, AutoStep PROVE Exchange'
  BY AsksKeeps, AutoTurnsKeep, Zenon DEF AutoStep

LEMMA memCardCheckKeeps == ASSUME Exchange, memCardCheck PROVE Exchange'
<1>0. DoingOK /\ AtRest /\ ProtocolOK /\ FileKnown
  BY DEF Exchange
<1>1. /\ UNCHANGED <<mCardCommand, mCardState, field_0x1fc8, file, buffer, card, fresh, unsaved, excuse>>
      /\ UNCHANGED mAutoSaveProc
      /\ doing = Call("menu", "status") /\ menu = "check"
  BY <1>0, CallsBelong, Zenon DEF memCardCheck, At, Released, cardVars
<1>2. \/ mCardState \in Unsettled /\ menu' = "check" /\ doing' = Idle
      \/ mCardState = "READY" /\ menu' = "load" /\ doing' = Call("menu", "load")
      \/ mCardState = "NO_FILE" /\ menu' = "missing" /\ doing' = Idle
      \/ mCardState \notin Unsettled \union {"READY"} /\ menu' \in {"broken", "error"} /\ doing' = Idle
  <2>1. /\ menu' = CASE mCardState \in Unsettled -> "check"
                     [] mCardState = "READY"   -> "load"
                     [] mCardState = "NO_FILE" -> "missing"
                     [] mCardState = "BROKEN"  -> "broken"
                     [] OTHER -> "error"
        /\ menu' = "load" => doing' = Call("menu", "load")
        /\ menu' # "load" => doing' = Idle
    BY Zenon DEF memCardCheck
  <2>2. "READY" \notin Unsettled /\ "NO_FILE" \notin Unsettled /\ "BROKEN" \notin Unsettled
    BY DEF Unsettled
  <2>3. CASE mCardState \in Unsettled
    BY <2>1, <2>2, <2>3
  <2>4. CASE mCardState = "READY"
    BY <2>1, <2>2, <2>4
  <2>5. CASE mCardState = "NO_FILE"
    BY <2>1, <2>2, <2>5
  <2>6. CASE mCardState \notin Unsettled \union {"READY", "NO_FILE"}
    BY <2>1, <2>2, <2>6
  <2> QED
    BY <2>3, <2>4, <2>5, <2>6
<1>3. /\ doing'.op \notin {"save", "format", "attach", "loadSync", "saveSync"}
      /\ doing' \notin {Call("menu", "attach"), Call("menu", "save"), Call("menu", "loadSync")}
      /\ doing # Call("menu", "attach")
  <2>1. /\ \A u, a : doing' = Call(u, a) => doing'.op = a
        /\ \A u, a : doing = Call(u, a) => doing.op = a
    BY CallFields, Zenon
  <2>2. doing'.op \notin {"save", "format", "attach", "loadSync", "saveSync"}
    <3>1. CASE doing' = Idle
      BY <3>1, IdleIsNoCall, SMT
    <3>2. CASE doing' = Call("menu", "load")
      <4>1. doing'.op = "load"
        BY <2>1, <3>2, Zenon
      <4> QED
        BY <4>1, SMT
    <3> QED
      BY <1>2, <3>1, <3>2
  <2>3. doing.op = "status"
    BY <1>1, <2>1, Zenon
  <2> QED
    BY <2>1, <2>2, <2>3, Zenon
<1>4. DoingOK'
  BY <1>2, Zenon DEF DoingOK
<1>5. AtRest'
  BY <1>0, <1>1, Zenon DEF AtRest
<1>6. ProtocolOK'
  BY <1>0, <1>1, <1>2, <1>3, SMT DEF ProtocolOK, Awaited, Asked, WriteMeansSaved,
     OneUser, Gives, Answering, Loading, Storing, Pending, Unsettled
<1>7. FileKnown'
  <2>1. Clean' => Clean
    BY <1>1, <1>3, SMT DEF Clean
  <2>2. /\ menu' = "load" => doing' = Call("menu", "load")
        /\ menu' # "select" /\ menu # "missing"
    BY <1>1, <1>2, SMT
  <2>3. mCardState \in {"READ", "WRITE", "PENDING"} => menu' = "check"
    BY <1>2, SMT DEF Unsettled
  <2>4. mCardState = "READY" => menu' = "load"
    BY <1>2, SMT DEF Unsettled
  <2> QED
    BY <1>0, <1>1, <1>3, <2>1, <2>2, <2>3, <2>4, SMT DEF FileKnown, Formatting, Attaching,
       Storing, Pending
<1> QED
  BY <1>4, <1>5, <1>6, <1>7 DEF Exchange

LEMMA MenuWaitsKeep ==
  ASSUME Exchange, memCardDataLoadWait \/ memCardDataSaveWait \/ memCardFormat
  PROVE  Exchange'
<1>0. DoingOK /\ AtRest /\ ProtocolOK /\ FileKnown
  BY DEF Exchange
<1>1. /\ UNCHANGED <<mCardCommand, field_0x1fc8, file, buffer, card, fresh, unsaved, mAutoSaveProc>>
      /\ doing' = Idle
  BY Zenon DEF memCardDataLoadWait, memCardDataSaveWait, memCardFormat, Released, cardVars
<1>2. ExcuseStays
  <2>1. excuse' = excuse \union {"lost"} \/ excuse' = excuse \union {}
    BY SMT DEF memCardDataLoadWait, memCardDataSaveWait, memCardFormat
  <2> QED
    BY <2>1, ExcuseKept
<1>3. \/ /\ menu = "load" /\ doing = Call("menu", "loadSync")
         /\ \/ mCardState = "READ" /\ mCardState' = "READY" /\ menu' = "select"
            \/ mCardState # "READ" /\ mCardState' = "NO_FILE" /\ menu' = "check"
      \/ /\ menu \in {"saving", "making"} /\ doing = Call("menu", "saveSync")
         /\ mCardState' = IF mCardState = "WRITE" THEN "READY" ELSE mCardState
         /\ menu' \in {menu, "saved", "created", "failed"}
      \/ /\ menu = "formatting" /\ doing = Call("menu", "formatSync")
         /\ mCardState' \in {mCardState, "NO_FILE"} /\ menu' \in {menu, "created", "failed"}
  <2>1. CASE memCardDataLoadWait
    <3>1. menu = "load" /\ doing = Call("menu", "loadSync")
      BY <1>0, <2>1, CallsBelong, Zenon DEF memCardDataLoadWait, At
    <3>2. \/ mCardState = "READ" /\ mCardState' = "READY" /\ menu' = "select"
          \/ mCardState # "READ" /\ mCardState' = "NO_FILE" /\ menu' = "check"
      BY <2>1, Zenon DEF memCardDataLoadWait
    <3> QED
      BY <3>1, <3>2, Zenon
  <2>2. CASE memCardDataSaveWait
    <3>1. menu \in {"saving", "making"} /\ doing = Call("menu", "saveSync")
      BY <1>0, <2>2, CallsBelong, Zenon DEF memCardDataSaveWait, At
    <3>2. mCardState' = IF mCardState = "WRITE" THEN "READY" ELSE mCardState
      BY <2>2, Zenon DEF memCardDataSaveWait
    <3>3. menu' \in {menu, "saved", "created", "failed"}
      BY <2>2 DEF memCardDataSaveWait
    <3> QED
      BY <3>1, <3>2, <3>3, Zenon
  <2>3. CASE memCardFormat
    <3>1. menu = "formatting" /\ doing = Call("menu", "formatSync")
      BY <1>0, <2>3, CallsBelong, Zenon DEF memCardFormat, At
    <3>2. mCardState' \in {mCardState, "NO_FILE"} /\ menu' \in {menu, "created", "failed"}
      BY <2>3 DEF memCardFormat
    <3> QED
      BY <3>1, <3>2, Zenon
  <2> QED
    BY <2>1, <2>2, <2>3
<1>4. /\ doing # Call("menu", "attach") /\ doing # Call("menu", "load") /\ doing # Call("menu", "save")
      /\ menu = "load" => doing.op = "loadSync"
      /\ menu \in {"saving", "making"} => doing.op = "saveSync"
  <2>1. \A u, a : doing = Call(u, a) => doing.op = a
    BY CallFields, Zenon
  <2>2. \/ menu = "load" /\ doing.op = "loadSync"
        \/ menu \in {"saving", "making"} /\ doing.op = "saveSync"
        \/ menu = "formatting" /\ doing.op = "formatSync"
    BY <1>3, <2>1, Zenon
  <2>3. doing.op \notin {"attach", "load", "save"}
    BY <2>2, SMT
  <2>4. /\ menu = "load" => doing.op = "loadSync"
        /\ menu \in {"saving", "making"} => doing.op = "saveSync"
    BY <2>2, SMT
  <2> QED
    BY <2>1, <2>3, <2>4, Zenon
<1>5. doing' \notin {Call("menu", "attach"), Call("menu", "save"), Call("menu", "loadSync")}
      /\ doing'.op \notin {"load", "save", "format", "attach", "loadSync", "saveSync"}
  BY <1>1, IdleIsNoCall, Zenon
<1>6. DoingOK'
  BY <1>1, Zenon DEF DoingOK
<1>7. AtRest'
  BY <1>0, <1>1, Zenon DEF AtRest
<1>8. ProtocolOK'
  <2> SUFFICES ASSUME "shared" \notin excuse' PROVE (Awaited /\ Asked /\ WriteMeansSaved)'
    BY Zenon DEF ProtocolOK
  <2>1. Awaited /\ Asked /\ WriteMeansSaved
    BY <1>0, <1>2, SMT DEF ProtocolOK, ExcuseStays
  <2>2. menu = "formatting" \/ ~Answering
    BY <1>3, <1>4, <2>1, SMT DEF Asked
  <2>3. Awaited'
    <3>1. CASE ~Answering
      BY <1>1, <3>1, SMT DEF Awaited, Answering, Loading, Storing, Pending
    <3>2. CASE menu = "formatting"
      BY <1>1, <2>1, <3>2, SMT DEF Awaited, Answering, Loading, Storing, Pending
    <3> QED
      BY <2>2, <3>1, <3>2
  <2>4. Asked'
    BY <1>5, SMT DEF Asked, Gives
  <2>5. WriteMeansSaved'
    BY <1>1, <1>3, <1>5, <2>1, SMT DEF WriteMeansSaved, OneUser
  <2> QED
    BY <2>3, <2>4, <2>5, Zenon
<1>9. FileKnown'
  <2>1. Clean' => Clean
    BY <1>2, <1>3, <1>4, SMT DEF Clean, ExcuseStays
  <2>2. Clean' => excuse' = {} /\ Awaited /\ Asked
    BY <1>0, <1>2, SMT DEF Clean, ExcuseStays, ProtocolOK
  <2>3. Clean' => menu = "formatting" \/ ~Storing
    BY <1>3, <1>4, <2>2, SMT DEF Asked, Answering
  <2>4. menu # "check" /\ (menu' = "load" => FALSE)
    BY <1>3, SMT
  <2> QED
    BY <1>0, <1>1, <1>2, <1>3, <1>4, <1>5, <2>1, <2>2, <2>3, <2>4, SMT DEF FileKnown, Formatting,
       Attaching, Storing, Pending, ExcuseStays
<1> QED
  BY <1>6, <1>7, <1>8, <1>9 DEF Exchange

LEMMA MenuKeeps == ASSUME Exchange, MenuStep PROVE Exchange'
  BY AsksKeeps, memCardCheckKeeps, MenuWaitsKeep, Zenon DEF MenuStep
-----------------------------------------------------------------------------
(* What was wrong is forgotten only where the card is at rest.             *)
LEMMA ExcusedAtRest ==
  ASSUME AtRest, excuse' \in {excuse, Excused}
  PROVE  \/ excuse' = excuse
         \/ /\ mCardCommand = "NONE" /\ card \in {"top", "holds", "sleeps"}
            /\ mAutoSaveProc = 0 /\ menu = "closed" /\ excuse' = {}
<1>1. CASE mCardCommand = "NONE" /\ mAutoSaveProc = 0 /\ menu = "closed"
  BY <1>1, SMT DEF AtRest, Excused
<1>2. CASE ~(mCardCommand = "NONE" /\ mAutoSaveProc = 0 /\ menu = "closed")
  BY <1>2, SMT DEF Excused
<1> QED
  BY <1>1, <1>2

LEMMA OpensKeep == ASSUME Exchange, triggerAutoSave \/ MenuOpens PROVE Exchange'
<1>0. DoingOK /\ AtRest /\ ProtocolOK /\ FileKnown
  BY DEF Exchange
<1>1. /\ UNCHANGED <<mCardCommand, mCardState, field_0x1fc8, file, buffer, card, fresh, unsaved>>
      /\ doing = Idle /\ menu = "closed"
  BY Zenon DEF triggerAutoSave, MenuOpens, MenuGoes, Free, control, cardVars
<1>2. \/ mAutoSaveProc = 0 /\ mAutoSaveProc' = 1 /\ menu' = "closed" /\ doing' = Idle
      \/ mAutoSaveProc' = mAutoSaveProc /\ menu' = "check" /\ doing' = Call("menu", "attach")
  BY Zenon DEF triggerAutoSave, MenuOpens, MenuGoes, Free
<1>3. \/ excuse' = excuse
      \/ /\ mCardCommand = "NONE" /\ card \in {"top", "holds", "sleeps"}
         /\ mAutoSaveProc = 0 /\ menu = "closed" /\ excuse' = {}
  <2>1. excuse' \in {excuse, Excused}
    BY SMT DEF triggerAutoSave, MenuOpens
  <2> QED
    BY <1>0, <2>1, ExcusedAtRest, Zenon
<1>4. doing'.op \notin {"load", "save", "format", "loadSync", "saveSync"}
  <2>1. \A u, a : doing' = Call(u, a) => doing'.op = a
    BY CallFields, Zenon
  <2>2. doing' = Idle => doing'.op \notin {"load", "save", "format", "attach", "loadSync", "saveSync"}
    BY IdleIsNoCall, Zenon
  <2>3. doing' = Call("menu", "attach") => doing'.op = "attach"
    BY <2>1, Zenon
  <2> QED
    BY <1>2, <2>2, <2>3, SMT
<1>5. DoingOK'
  BY <1>2, Zenon DEF DoingOK
<1>6. AtRest'
  BY <1>0, <1>1, Zenon DEF AtRest
<1>7. ProtocolOK'
  <2>1. CASE excuse' = excuse /\ "shared" \in excuse
    BY <2>1, Zenon DEF ProtocolOK
  <2>2. CASE "shared" \notin excuse
    <3>1. Awaited /\ Asked /\ WriteMeansSaved
      BY <1>0, <2>2, Zenon DEF ProtocolOK
    <3>2. mAutoSaveProc = 0 => ~Answering
      BY <1>1, <3>1, SMT DEF Awaited, Answering
    <3>3. Awaited'
      BY <1>1, <1>2, <3>1, <3>2, SMT DEF Awaited, Answering, Loading, Storing, Pending
    <3>4. Asked'
      BY <1>1, <1>2, <1>4, <3>2, SMT DEF Asked, Answering, Loading, Storing, Pending, Gives, OneUser
    <3>5. WriteMeansSaved'
      BY <1>1, <1>2, <1>4, <3>1, SMT DEF WriteMeansSaved, OneUser
    <3> QED
      BY <3>3, <3>4, <3>5, Zenon DEF ProtocolOK
  <2>3. CASE mCardCommand = "NONE" /\ card \in {"top", "holds", "sleeps"} /\ mAutoSaveProc = 0
    BY <1>1, <1>2, <1>4, <2>3, SMT DEF ProtocolOK, Awaited, Asked, WriteMeansSaved, OneUser, Gives,
       Answering, Loading, Storing, Pending
  <2> QED
    BY <1>3, <2>1, <2>2, <2>3
<1>8. FileKnown'
  <2>1. ~Clean'
    BY <1>2, SMT DEF Clean
  <2> QED
    BY <1>0, <1>1, <1>3, <2>1, SMT DEF FileKnown, Formatting, Pending
<1> QED
  BY <1>5, <1>6, <1>7, <1>8 DEF Exchange

LEMMA resetKeeps == ASSUME Exchange, dComIfG_resetToOpening PROVE Exchange'
<1>0. DoingOK /\ AtRest /\ ProtocolOK /\ FileKnown
  BY DEF Exchange
<1>1. /\ UNCHANGED <<mCardCommand, mCardState, field_0x1fc8, file, buffer, card, fresh, unsaved>>
      /\ UNCHANGED mAutoSaveProc /\ menu' = "closed" /\ mCardCommand = "NONE"
  BY Zenon DEF dComIfG_resetToOpening, control, cardVars
<1>2. doing' \in {Idle, Call("reset", "saveSync")}
  BY Zenon DEF dComIfG_resetToOpening
<1>3. ExcuseStays
  <2>1. excuse' = excuse \union {"lost"} \/ excuse' = excuse \union {}
    BY SMT DEF dComIfG_resetToOpening
  <2> QED
    BY <2>1, ExcuseKept
<1>4. doing'.op \notin {"load", "save", "format", "attach"}
  <2>1. \A u, a : doing' = Call(u, a) => doing'.op = a
    BY CallFields, Zenon
  <2>2. doing' = Idle => doing'.op \notin {"load", "save", "format", "attach", "loadSync", "saveSync"}
    BY IdleIsNoCall, Zenon
  <2>3. doing' = Call("reset", "saveSync") => doing'.op = "saveSync"
    BY <2>1, Zenon
  <2> QED
    BY <1>2, <2>2, <2>3, SMT
<1>5. DoingOK'
  BY <1>1, <1>2, Zenon DEF DoingOK
<1>6. AtRest'
  BY <1>0, <1>1, Zenon DEF AtRest
<1>7. ProtocolOK'
  BY <1>0, <1>1, <1>3, <1>4, SMT DEF AtRest, ProtocolOK, Awaited, Asked, WriteMeansSaved, OneUser,
     Gives, Answering, Loading, Storing, Pending, ExcuseStays
<1>8. FileKnown'
  <2>1. ~Clean'
    BY <1>1, SMT DEF Clean
  <2> QED
    BY <1>0, <1>1, <1>3, <2>1, SMT DEF FileKnown, Formatting, Pending, ExcuseStays
<1> QED
  BY <1>5, <1>6, <1>7, <1>8 DEF Exchange

LEMMA MenuPagesKeep ==
  ASSUME Exchange, dataSave \/ makesFile \/ formats \/ MenuCloses \/ Acknowledges
  PROVE  Exchange'
<1>0. DoingOK /\ AtRest /\ ProtocolOK /\ FileKnown
  BY DEF Exchange
<1>1. /\ UNCHANGED <<mCardCommand, mCardState, field_0x1fc8, file, buffer, card, fresh, unsaved>>
      /\ UNCHANGED <<mAutoSaveProc, excuse>>
      /\ doing = Idle
  BY Zenon DEF dataSave, makesFile, formats, MenuCloses, Acknowledges, MenuGoes, Free, control, cardVars
<1>2. \/ menu = "select" /\ menu' = "saving" /\ doing' = Call("menu", "save")
      \/ menu = "missing" /\ menu' = "making" /\ doing' = Call("menu", "save")
      \/ menu = "broken" /\ menu' = "formatting" /\ doing' = Call("menu", "format")
      \/ menu \in {"select", "missing", "broken", "error", "saved"} /\ menu' = "closed" /\ doing' = Idle
      \/ menu \in {"failed", "created"} /\ menu' = "check" /\ doing' = Idle
  BY Zenon DEF dataSave, makesFile, formats, MenuCloses, Acknowledges, MenuGoes
<1>3. /\ doing'.op \notin {"load", "attach", "loadSync", "saveSync"}
      /\ doing'.op = "save" => menu \in {"select", "missing"} /\ menu' \in {"saving", "making"}
      /\ doing' \notin {Call("menu", "attach"), Call("menu", "loadSync")}
      /\ doing \notin {Call("menu", "attach"), Call("menu", "load"), Call("menu", "save")}
      /\ doing' = Call("menu", "save") => menu' \in {"saving", "making"}
  <2>1. \A u, a : doing' = Call(u, a) => doing'.op = a
    BY CallFields, Zenon
  <2>2. \/ doing'.op = "save" /\ menu \in {"select", "missing"} /\ menu' \in {"saving", "making"}
        \/ doing'.op = "format"
        \/ doing'.op \notin {"load", "save", "format", "attach", "loadSync", "saveSync"}
    BY <1>2, <2>1, IdleIsNoCall, Zenon
  <2>3. /\ doing'.op \notin {"load", "attach", "loadSync", "saveSync"}
        /\ doing'.op = "save" => menu \in {"select", "missing"} /\ menu' \in {"saving", "making"}
    BY <2>2, SMT
  <2>4. doing \notin {Call("menu", "attach"), Call("menu", "load"), Call("menu", "save")}
    BY <1>1, IdleIsNoCall, Zenon
  <2> QED
    BY <2>1, <2>3, <2>4, Zenon
<1>4. DoingOK'
  BY <1>2, Zenon DEF DoingOK
<1>5. AtRest'
  BY <1>0, <1>1, Zenon DEF AtRest
<1>6. ProtocolOK'
  <2> SUFFICES ASSUME "shared" \notin excuse PROVE (Awaited /\ Asked /\ WriteMeansSaved)'
    BY <1>1, Zenon DEF ProtocolOK
  <2>1. Awaited /\ Asked /\ WriteMeansSaved
    BY <1>0, Zenon DEF ProtocolOK
  <2>2. mAutoSaveProc # 0 \/ ~Answering
    BY <1>2, <2>1, SMT DEF Awaited, Answering
  <2>3. menu \notin {"closed", "check"}
    BY <1>2, SMT
  <2>4. Awaited'
    BY <1>1, <2>1, <2>2, SMT DEF Awaited, Answering, Loading, Storing, Pending
  <2>5. Asked'
    <3>1. Gives(doing'.op) /\ OneUser' => mAutoSaveProc = 0
      <4>1. Gives(doing'.op) => menu' # "closed"
        BY <1>2, IdleIsNoCall, SMT DEF Gives
      <4> QED
        BY <1>1, <4>1, SMT DEF OneUser
    <3> QED
      BY <1>1, <1>3, <2>2, <3>1, SMT DEF Asked, Answering, Loading, Storing, Pending
  <2>6. WriteMeansSaved'
    BY <1>1, <1>2, <1>3, <2>1, <2>3, SMT DEF WriteMeansSaved, OneUser
  <2> QED
    BY <2>4, <2>5, <2>6, Zenon
<1>7. FileKnown'
  <2>1. Clean' => Clean
    BY <1>1, <1>2, <1>3, SMT DEF Clean
  <2> QED
    BY <1>0, <1>1, <1>2, <1>3, <2>1, SMT DEF FileKnown, Formatting, Attaching, Storing, Pending
<1> QED
  BY <1>4, <1>5, <1>6, <1>7 DEF Exchange

LEMMA PlayerKeeps == ASSUME Exchange, Player PROVE Exchange'
  BY OpensKeep, resetKeeps, MenuPagesKeep, Zenon DEF Player
-----------------------------------------------------------------------------
LEMMA CardInvStep == CardInv /\ [Next]_vars => CardInv'
<1> SUFFICES ASSUME CardInv, [Next]_vars PROVE CardInv'
  OBVIOUS
<1>1. IInv'
  BY TypeStep, Zenon DEF CardInv
<1>2. Exchange'
  BY TryLocksKeeps, CardKeeps, GameKeeps, AutoKeeps, MenuKeeps, PlayerKeeps, Zenon DEF Next, CardInv
<1> QED
  BY <1>1, <1>2, Zenon DEF CardInv

LEMMA CardInvAlways == Spec => []CardInv
  BY InitIInv, InitExchange, CardInvStep, PTL DEF Spec, CardInv

(* While no CARD call fails, no command is lost and the users keep apart,  *)
(* the menu never offers to make a save over the one the card has.         *)
THEOREM NoSaveIsTrue == Spec => []NoSaveWhenAllWell
<1>1. CardInv => NoSaveWhenAllWell
  <2> SUFFICES ASSUME CardInv, menu = "missing", file, excuse = {} PROVE FALSE
    BY Zenon DEF NoSaveWhenAllWell
  <2>1. DoingOK /\ FileKnown
    BY DEF CardInv, Exchange
  <2>2. doing # Call("menu", "attach")
    BY <2>1, CallsBelong, Zenon
  <2> QED
    BY <2>1, <2>2, SMT DEF FileKnown, Clean
<1> QED
  BY <1>1, CardInvAlways, PTL

LEMMA ToldByWrite == ASSUME DoingOK, Next, ToldSaved PROVE mCardState = "WRITE"
<1>1. CASE CardStep \/ CardWakes \/ GameStep
  <2>1. UNCHANGED <<mAutoSaveProc, menu>>
    BY <1>1, Zenon DEF CardStep, CardWakes, GameStep, CardLocks, CardWaits, CardUnlocks, Picks,
       CardClears, restore, storeCreates, storeWrites, publish, format, attach, checkspace, Runs,
       TryLocks, LockRefused, GivesCommand, Signals, ResetSyncs, users
  <2> QED
    BY <2>1, SMT DEF ToldSaved
<1>2. CASE AutoStep
  <2>1. CASE waitingForWrite
    BY <2>1, SMT DEF waitingForWrite, ToldSaved
  <2>2. CASE AutoAsks \/ enterAutoSave \/ autoSaving \/ endAutoSave
    <3>1. menu' = menu
      BY <2>2, Zenon DEF AutoAsks, Asks, enterAutoSave, autoSaving, endAutoSave
    <3>2. mAutoSaveProc' = mAutoSaveProc \/ mAutoSaveProc' \in {0, 1, 2, 3}
      BY <2>2, SMT DEF AutoAsks, Asks, enterAutoSave, autoSaving, endAutoSave
    <3> QED
      BY <3>1, <3>2, SMT DEF ToldSaved
  <2> QED
    BY <1>2, <2>1, <2>2, Zenon DEF AutoStep
<1>3. CASE MenuStep
  <2>0. mAutoSaveProc' = mAutoSaveProc
    BY <1>3, Zenon DEF MenuStep, MenuAsks, Asks, memCardCheck, memCardDataLoadWait,
       memCardDataSaveWait, memCardFormat
  <2>1. CASE memCardDataSaveWait
    BY <2>0, <2>1 DEF memCardDataSaveWait, ToldSaved
  <2>2. CASE MenuAsks
    BY <2>2, SMT DEF MenuAsks, Asks, ToldSaved
  <2>3. CASE memCardCheck
    <3>1. menu' \in {"check", "load", "missing", "broken", "error"}
      BY <2>3 DEF memCardCheck
    <3> QED
      BY <2>0, <3>1, SMT DEF ToldSaved
  <2>4. CASE memCardDataLoadWait
    BY <2>0, <2>4, SMT DEF memCardDataLoadWait, ToldSaved
  <2>5. CASE memCardFormat
    <3>1. menu = "formatting"
      BY <2>5, CallsBelong, Zenon DEF memCardFormat, At
    <3> QED
      BY <2>0, <3>1, SMT DEF ToldSaved
  <2> QED
    BY <1>3, <2>1, <2>2, <2>3, <2>4, <2>5, Zenon DEF MenuStep
<1>4. CASE Player
  <2>1. /\ mAutoSaveProc' \in {mAutoSaveProc, 1}
        /\ menu' \in {menu, "closed", "check", "saving", "making", "formatting"}
    BY <1>4, Zenon DEF Player, triggerAutoSave, dComIfG_resetToOpening, MenuOpens, dataSave,
       makesFile, formats, MenuCloses, Acknowledges, MenuGoes
  <2> QED
    BY <2>1, SMT DEF ToldSaved
<1> QED
  BY <1>1, <1>2, <1>3, <1>4, Zenon DEF Next

(* Whoever is told that the data was saved finds it on the card, unless    *)
(* autosave and menu used the card at the same time.                       *)
THEOREM SavedDataIsOnCard == Spec => SavedIsOnCard
<1> DEFINE Good == ToldSaved => ~unsaved \/ "shared" \in excuse
<1>1. CardInv /\ [Next]_vars => [Good]_vars
  <2> SUFFICES ASSUME CardInv, Next, ToldSaved, unsaved, "shared" \notin excuse PROVE FALSE
    BY Zenon
  <2>1. WriteMeansSaved
    BY Zenon DEF CardInv, Exchange, ProtocolOK
  <2>2. mCardState = "WRITE"
    BY ToldByWrite, Zenon DEF CardInv, Exchange
  <2> QED
    BY <2>1, <2>2, SMT DEF WriteMeansSaved, ToldSaved
<1>2. Spec => [][Good]_vars
  BY <1>1, CardInvAlways, PTL DEF Spec
<1> QED
  BY <1>2, Zenon DEF SavedIsOnCard

(* Who takes or leaves the mutex forgets nothing, and only a command       *)
(* makes the card's data fresh.                                            *)
LEMMA HolderSteps ==
  ASSUME Next, holder' # holder, "shared" \notin excuse'
  PROVE  "shared" \notin excuse /\ (GivesCommand \/ ~fresh' \/ (fresh' <=> fresh))
<1>1. CASE CardLocks \/ CardWaits \/ CardUnlocks \/ TryLocks
  <2>1. UNCHANGED <<excuse, fresh>>
    BY <1>1, Zenon DEF CardLocks, CardWaits, CardUnlocks, TryLocks, history
  <2> QED
    BY <2>1, Zenon
<1>2. CASE CardClears
  BY <1>2, SMT DEF CardClears
<1>3. CASE GivesCommand
  <2>1. excuse' = excuse \union (IF fresh THEN {"lost"} ELSE {})
                         \union (IF mAutoSaveProc # 0 /\ menu # "closed" THEN {"shared"} ELSE {})
    BY <1>3, Zenon DEF GivesCommand
  <2> QED
    BY <1>3, <2>1, SMT
<1>4. CASE ResetSyncs
  BY <1>4, SMT DEF ResetSyncs, Released
<1>5. CASE enterAutoSave \/ autoSaving \/ waitingForWrite \/ memCardCheck \/ memCardDataLoadWait
           \/ memCardDataSaveWait
  <2>1. UNCHANGED <<excuse, fresh>>
    BY <1>5, Zenon DEF enterAutoSave, autoSaving, waitingForWrite, memCardCheck,
       memCardDataLoadWait, memCardDataSaveWait, Released
  <2> QED
    BY <2>1, Zenon
<1>6. CASE memCardFormat
  BY <1>6, SMT DEF memCardFormat, Released
<1>7. CASE Picks \/ restore \/ storeCreates \/ storeWrites \/ publish \/ format \/ attach \/ checkspace
           \/ CardWakes \/ LockRefused \/ Signals
  BY <1>7, Zenon DEF Picks, restore, storeCreates, storeWrites, publish, format, attach, checkspace,
     Runs, CardWakes, OS!Wake, LockRefused, Signals, OS!Signal, mutexVars
<1>8. CASE AutoAsks \/ MenuAsks \/ endAutoSave \/ Player
  BY <1>8, Zenon DEF AutoAsks, MenuAsks, Asks, endAutoSave, Player, triggerAutoSave,
     dComIfG_resetToOpening, MenuOpens, dataSave, makesFile, formats, MenuCloses, Acknowledges,
     MenuGoes, mutexVars
<1> QED
  BY <1>1, <1>2, <1>3, <1>4, <1>5, <1>6, <1>7, <1>8, Zenon DEF Next, CardStep, GameStep, AutoStep,
     MenuStep

(* While the card thread reads or writes mData nobody gives it other data, *)
(* unless autosave and menu use the card at the same time.                 *)
THEOREM BufferIsNotShared == Spec => BufferNotShared
<1> DEFINE Good == doing.op = "save" /\ buffer' = "save" /\ fresh' /\ holder # holder'
                   => card \notin {"RESTORE", "STORE", "STORE2"} \/ "shared" \in excuse'
<1>1. CardInv /\ [Next]_vars => [Good]_vars
  <2> SUFFICES ASSUME CardInv, Next, fresh', holder # holder', "shared" \notin excuse'
               PROVE  card \notin {"RESTORE", "STORE", "STORE2"}
    BY Zenon
  <2>1. "shared" \notin excuse /\ (GivesCommand \/ (fresh' <=> fresh))
    BY HolderSteps, Zenon
  <2>2. Awaited /\ Asked
    BY <2>1, Zenon DEF CardInv, Exchange, ProtocolOK
  <2>3. CASE GivesCommand
    <3>1. OneUser
      <4>1. excuse' = excuse \union (IF fresh THEN {"lost"} ELSE {})
                             \union (IF mAutoSaveProc # 0 /\ menu # "closed" THEN {"shared"} ELSE {})
        BY <2>3, Zenon DEF GivesCommand
      <4> QED
        BY <4>1, SMT DEF OneUser
    <3>2. Gives(doing.op)
      BY <2>3, Zenon DEF GivesCommand
    <3> QED
      BY <2>2, <3>1, <3>2, SMT DEF Asked, Answering, Loading, Storing
  <2>4. CASE fresh
    BY <2>2, <2>4, SMT DEF Awaited
  <2> QED
    BY <2>1, <2>3, <2>4, Zenon
<1>2. Spec => [][Good]_vars
  BY <1>1, CardInvAlways, PTL DEF Spec
<1> QED
  BY <1>2, Zenon DEF BufferNotShared
=============================================================================
