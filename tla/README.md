# TLA+ models of duskforge

duskforge is a port to the PC of a console game: the decompiled program
(`src/src/f_pc`, `f_op`, `d`, `m_Do`, JSystem) on top of new host code
(`src/src/dusk`).  Everything that lives in the game - scenes, rooms, actors,
cameras, fades - is a *process* of one framework, `src/src/f_pc`; around it a
handful of host threads load archives, write the memory card and play movies.
This project models the framework, the changes of scene on top of it and those
threads with their queues and mutexes in TLA+, checks the models with TLC on
small instances and proves their central properties with TLAPS.

## 1. The system

### Components

| component | state | operations | hard behaviour |
|---|---|---|---|
| create requests (`f_pc_create_*`, `f_pc_stdcreate_req`, `f_pc_fstcreate_req`, `f_pc_base`) | a queue of requests, each with a layer, a phase table, a process, `is_doing`, `is_cancel` | request, fast request, visit, complete, fail, cancel | creation takes many frames; the layer a request was made in may be deleted meanwhile |
| deletion (`f_pc_deletor`, `f_pc_delete_tag`) | a queue of delete tags with a timer and a layer | delete (recursive, may be refused), visit, retry | children and parent are freed in frames of their own |
| layers and nodes (`f_pc_layer*`, `f_pc_node`, `f_pc_leaf`) | lists of processes, `create_count`, `delete_count`, cancel list, the current layer | enter, leave, move, search | raw pointers to layers that are freed with their node |
| execution (`f_pc_executor`, `f_pc_line*`) | the line queue, `init_state` | line, execute | a node that is lined lines everything below it |
| priority (`f_pc_priority`) | a queue of pending moves | change the layer | the move is made a frame after it was asked for |
| node requests (`f_pc_node_req`) | requests to create, delete or change a node | phases, checks against other requests | two requests for one node |
| frame loop (`f_pc_manager`) | - | delete, priority, create, execute, draw, scene management | every method calls back into the queues that are being iterated |
| scene requests and overlaps (`f_op_scene_req`, `f_op_overlap_*`, `d_ovlp_fade`) | the scene request, the single overlap request, the fade, their mailboxes, pause flags | request, close the screen, replace the scene, open, clear, cancel, re-target | four parties that run in different passes of a frame and overwrite each other's messages |
| message queues (`dusk/stubs.cpp`) | a ring of messages, a host mutex, two conditions | send, jam, receive, shut down | lost wake-ups, shutdown without the mutex |
| mutexes and conditions (`dusk/OSMutex.cpp`) | owner and depth, kept twice | lock, try, unlock, wait, signal | waiting gives up a recursive lock at any depth |
| threads (`dusk/OSThread.cpp`) | state, suspension count, sleep queue | create, suspend, resume, sleep | - |
| memory card (`m_Do_MemCard`, `dusk/autosave`, `d_menu_save`) | one command, one state, one answer | load, store, format, poll | two users and one mailbox; a command stored while the last one finishes |
| DVD thread (`m_Do_dvd_thread`) | a command list, a kick queue of one | add, cut, execute, hand over to the audio | lost kicks, reads without the mutex, a change of the executing thread |
| resource control (`d_resorce`, `d_com_inf_game`) | slots with a count, a command, an archive | load in phases, sync, delete | asynchronous loads shared by name and let go of at any time |
| movie player (`d_a_movie_player`) | nine queues of buffers, three threads, two counters | prepare, play, pause, stop | threads stopped by junk in their queues; a counter changed by two threads |
| heaps, archives (JKernel) | free lists | allocate, mount, decompress | - |
| modding, settings, achievements, http, user interface, audio, graphics, actors | various | various | mostly I/O, presentation or game play |

`PROJECT.json` lists them all, with those that are not modelled and why, and,
under `hazards`, what in the code is hard to test, each at its line.

### How they interact

There is one game thread for the framework.  `fapGm_Execute` calls `fpcM_Management` once a frame:

1. `fpcDt_Handler` visits the delete queue (unless `dPa_control_c` asked to
   leave it out this once),
2. `fpcPi_Handler` makes the queued moves,
3. `fpcCt_Handler` visits the create queue,
4. `fpcEx_Handler` visits the line queue; then everything is drawn,
5. the callback `fapGm_After` drives scenes: `fopScnM_Management` runs the node
   requests, `fopOvlpM_Management` the fade.

A visit calls a method of a process (create, delete, execute), and the method
calls the framework: `fpcM_Create`, `fpcM_FastCreate`, `fpcM_Delete`,
`fpcM_ChangeLayerID`, `fopScnM_CreateReq` and so on.  So the concurrency of the
framework is not between threads but between an iteration and the calls made
under it, and between steps of one process that lie frames apart, linked by
pointers to layers.

The other threads meet the game thread in few places.  An actor's create method
asks `dRes_control_c` for its archive, which gives the DVD thread a mount command
and polls it, phase by phase, in later frames; `mDoDvdThd` executes the command
itself or sends it to the audio's disc thread.  The autosave, the save menu and
the return to the title leave a command with the card thread and poll its state.
The movie actor starts three threads, takes their pictures in the retrace
callback and joins them in Stop.  All of them block in `OSReceiveMessage`,
`OSSendMessage` and `OSWaitCond` of the port, which are built from the host's
mutexes and conditions.

Their correctness, per component: the framework's pointers never lead to freed
layers and its counters are exact; a change of scene happens behind a closed fade
and ends; a queue loses no message and no wake-up; whoever is told that the game
was saved finds it on the card; every disc command is executed once, in order;
a held archive stays where it is, whoever else lets go of it; no buffer of a movie is lost
and its threads are gone before their memory is.

## 2. The modules

| module | what it is |
|---|---|
| `ProcessFramework` | the framework, one action per handler step and per call |
| `ProcessTree` | what the framework promises: processes form a tree |
| `ProcessFrameworkTree` | the refinement mapping from the first to the second |
| `SceneRequest` | changes of scene and the fade, over the framework's node requests |
| `BoundedQueue`, `OSMessageQueue` | what a message queue promises; the ring over the host's mutex and conditions |
| `Monitor`, `OSMutex` | what a mutex with a condition promises; the port's fields over the host's |
| `MemCard` | the card thread, the autosave, the save menu, the return to the title; instantiates `Monitor` |
| `CommandQueue`, `DvdThread` | what the DVD thread promises its clients; the list, the kicks and the two executors |
| `ResourceControl` | archives, the actors that ask for them, Link's change of gear; instantiates `CommandQueue` |
| `MoviePlayer` | the movie's threads and queues, each call one step, as `BoundedQueue` has it |
| `MC...` | an instance of each for TLC |
| `..._proofs` | theorems about `ProcessTree`, `ProcessFramework`, `OSMutex`, `OSMessageQueue`, `DvdThread` with `ResourceControl`, `MemCard`, `MoviePlayer`, `SceneRequest` |

Detailed modules stand on the abstract ones of what they use, so that each is small
enough to check: `OSMessageQueue` implements `BoundedQueue`, `OSMutex` implements
`Monitor` and `MemCard` uses `Monitor`; `DvdThread` implements `CommandQueue` and
`ResourceControl` uses that (with `dropping` FALSE: the audio's queue has 0x80
places, `JAUInitializer.cpp:64`, and is taken as large enough).

### ProcessFramework

| variables | code |
|---|---|
| `phase`, `todo`, `next`, `cursor` | where `fpcM_Management` is; the entries of the list that `cNdIt_Method` has not visited, its saved next entry, the process whose method is running |
| `made` | what the running method has fast-created |
| `curLayer`, `savedLayer` | `l_fpcLy_CurrLayer_p`, `save_layer` of `fpcBs_Execute` |
| `life`, `init`, `target` | the process: unborn, requested, in memory, freed; `state.init_state`; `priority.current_info.layer_id` (`None` for the current layer) |
| `failed` | history: whose create method failed |
| `req`, `reqLayer`, `doing` | the create request's phase, layer and `is_doing`; `"dead"` is a cancelled request that stayed in the queue |
| `layers`, `layerOf`, `inLayer`, `inLine` | which layers are registered; `layer_tag.layer`; membership of the layer's lists; of the line queue |
| `inDel`, `timer`, `delLayer` | the delete tag |
| `prioTo` | the queued move (`queue_info.layer_id`) |
| `createCount`, `deleteCount` | `counts` of each layer |
| `nrPhase`, `nrKind`, `nrLayer`, `nrNode` | node requests |

A node's layer is named by the node.  A visit that runs a method is two steps:
`MethodBegins` (the next entry is saved, the method is entered) and `MethodEnds`.
Between them `cursor` is the process and the actions `Call...` can happen, in any
order and number, which is how the model covers every method of the game.
`PROJECT.json` maps each definition to its lines.

*What the calls assume of the game's code.*  Delete methods create nothing.  A
create method deletes only processes it found in a layer or has just made
(`dStage_actorCreate`, `d_stage.cpp:1595`), not one that is in creation elsewhere.
Layer changes before a process executes go up: to its stage or its own room
(`fopAcM_setStageLayer`, `fopAcM_setRoomLayer`); those of an executing process go
to an executing node, and not twice before the first was made.  Actors
fast-create, delete and move leaves only; nodes are deleted by node requests or
with the node above them.  Nothing calls the framework between frames: the port's
actor spawner and its quick transform do (`ImGuiActorSpawner.cpp:98`,
`f_ap_game.cpp:767`), and are not modelled.  An `is_delete` method refuses only while its process
executes.  What depends on these assumptions is in the list of hazards.

*What is abstracted.*  The order of the entries of a list is left open (an entry
that is appended during a pass is visited in it unless the current entry was the
last: the meaning of the saved next pointer is kept).  Process ids are used once,
as in `fpcBs_MakeOfId`; a freed process is `"gone"`, and its memory is not reused.
A fast creation and what its nested create method does are two calls of the
outer method.  On this build `fpcLd_Load` always completes (`c_dylink.cpp:900`),
so load, creation and the first call of the create method are one visit.  The
failures of list insertion (a bad list id in a profile) do not occur.  A paused
process is one that `ExecuteSkips`.  Node requests are driven in any order during
scene management; the fade that paces them is `SceneRequest`.  Of the
uninitialised `create_func` of a failed fast request that could not be cancelled,
only the outcome "completes" is taken: such a process gets into its layer and the line
queue although its create method failed (`CallFastCreate`, `CallFastCreateFails`).

### ProcessTree

`status` and `parent` of each process, and ten lines of actions: request, start,
abandon, enter a layer, move, delete a set closed downwards, free when childless.
`ProcessFrameworkTree` maps `life`, `init`, `inLayer` and the layer fields to them;
a layer that a request, a process or a delete tag points to becomes the parent.

### SceneRequest

| variables | code |
|---|---|
| `pass`, `todo`, `current` | the passes of a frame, as in `ProcessFramework`; the node request in hand |
| `life`, `parent`, `paused`, `made` | scenes and fades: free, in the create queue, waiting for their stage, running, dying; the stage of a room; `pause_flag`; the profile the scene was made from |
| `req`, `scnRqID`, `using` | the node requests with their phase; `l_scnRqID`; `l_fopScnRq_IsUsingOfOverlap` |
| `ov` | `l_fopOvlpM_Request` and `l_fopOvlpM_overlap[0]`: `field_0x4` (`busy`), phase, `overlap_task` (`task`), `peektime`, its `request_base_class` (`base`) |
| `fade`, `executeF` | each fade's `request_base_class`, scene id and timer; the static `dOvlpFd_execute_f` |
| `failed` | history: what could not be created |

The queues of the framework are reduced to what a scene request sees of them: a
scene can be deleted when nothing is being made below it; creations and deletions
take any number of frames and creations may fail.  A request runs its phases,
each a step, until one waits; `Cancelled` and `FadeDeleted` are the cancellation
with the fade.  *Left out:* the fades of `d_ovlp_fade2` and `3` (which stop the new scene once
more, through `fopOvlpM_SceneIsStop`), the speedrun clock.  Calls are made in more states than
by the game's code, which asks `fopOvlpM_IsPeek` first.  A stage that fails does so before it made
rooms.  *What the code does after a failure:* a stage that could not be created leaves
`l_fopScnRq_IsUsingOfOverlap` set, a fade that could not leaves `field_0x4` at 1 and the
scene request waiting; nothing with a fade can be asked for after either.  `OverlapReturns`
and `SceneSettles` exclude these histories by `failed` (hazard at `f_op_scene_req.cpp:98`).

### OSMessageQueue and BoundedQueue, OSMutex and Monitor

`OSMessageQueue` has the ring (`msgArray`, `firstIndex`, `usedCount`), the host
mutex (`holder`), each thread's place in its call (`pc`, `call`, `got`) and the
steps of `OSResetSystem` (`shutdown`).  A step is what a thread does between two
points where the host may switch; the host wakes anyone on `notify_one`, and
anybody at any time.  `BoundedQueue` appends, prepends and takes the head in one
step.  *Left out:* `map.clear()` at the shutdown, which destroys mutexes that may
be in use; that every call ends after the shutdown is shown as an invariant (nobody is
asleep), not as liveness.

`OSMutex` has the host's recursive mutex (`owner`, `depth`), the port's copy of
its state (`thread`, `count`), and the steps of `OSWaitCond` (unlock all levels,
wait, lock them all again).  `Monitor` does each in one step.  *Left out:*
`OSWaitCond` without the mutex (a contract violation, as the code's comment says)
and `try_lock` that fails though the mutex is free.  The two are checked and
proved apart; `OSThread.cpp` is not modelled.

### MemCard

`mCardCommand`, `mCardState`, `field_0x1fc8` are the controller's fields; `card` is
where the card thread's loop or command is, `doing` the call the game thread makes
and for whom, `mAutoSaveProc` and `menu` the states of `autosave.cpp` and
`d_menu_save.cpp`; `holder` to `levels` the `Monitor`.  `file` and `buffer` say
whether the card has the save and whose data the shared buffer has.  Every CARD
call answers READY or a failure of `CardFails`.  The history: `fresh`, `unsaved`,
and `excuse`, what went wrong since the user began:

* `failed` - a CARD call failed;
* `lost` - nobody will answer: `OSTryLockMutex` refused a command (its callers do not
  look), a command was wiped by the card thread as it finished the one before,
  `format` published nothing because the game held the mutex, or the title took the answer;
* `shared` - autosave and menu used the card at once: nothing in the code keeps them apart.

*Left out:* `update()` with its probing and DETACH (no caller), `d_file_select`, the
NAND branches, the end of the thread, the menu's texts and cursor.  A `store` in a
state other than READY hands `setCardState` the local `ret` that nothing has set: any
result.  The autosave is triggered while the menu is closed.  The menu also says "There is no save" after
an open or a read that failed (`d_menu_save.cpp:970`, `m_Do_MemCard.cpp:249`), hence
the excuse in `NoSaveWhenAllWell`; a title reset in the middle of a format keeps
the autosave polling (`lost`).

### DvdThread and CommandQueue

`mNodeList`, `mMutext`, `kicked` are the list, its mutex and the kick queue of one
message; `main` and `dvd` are the places of the two threads in `addition` and
`mainLoop`; `messages` and `audio` are the audio's disc thread, which executes the
commands once the audio is up (`SyncWidthSound`).  `CommandQueue` executes what it
is given, in order, each once, with `Lose` for what `sendCmdMsg`
did not accept: the audio's queue was full, or `JASKernel`'s command heap had no memory for
the message (`heapFull`, which the rest of the audio and of the game changes at any time).
The kinds of command differ in `execute()` only and are one; `suspend()` and the
thread's end are left out; `mIsDone` and the result, plain fields written by one
thread and read by another, are one step.

### ResourceControl

The state and the specification have names of their own (`ResourceInit`, `ResourceNext`,
`NoSlot`), so that one module can reason about this and about `DvdThread`.  `info` is
`mObjectInfo` with count, name, command and archive; `fetched` the slots
whose command has mounted something; `queue`, `running`, `done` the `CommandQueue`;
`actor`, `link`, `gear` those who ask: actors through the phases of
`dComIfG_resLoad`, Link through `loadModelDVD` and `loadShieldModelDVD`; `freed` the
slots whose heap was freed under them, `full` a want of slots.  *Left out:* archives
inside archives, the stage and room tables (the same code), object banks,
`d_bg_parts`, the wrap of the 16-bit `mCount` (`MaxCount` bounds it).  With no free
slot `setRes` calls the destructor of a null pointer (`d_resorce.cpp:803`): the model
ends there (`full`), as after every undefined behaviour (`Sound`).  After a failed
`loadResource` the next requester is told that all is well (`d_resorce.cpp:621`,
`d_com_inf_game.cpp:1294`).  A load of gear that fails is counted and never gives its count
back, so that the next change frees the heap under its archive (`d_a_alink_swindow.inc:87`,
141; `"gearLoad"`).  Who changes gear: the collection screen, when the wait timer of the last
change is zero (`d_menu_collect.cpp:1843` to 1849), and, of the clothes only, the port's save
editors, which do not look at it (`ui/editor.cpp:980`, `ImGuiSaveEditor.cpp:585`): that is
`Impatient`.  The wrestling suit (`FLG2_UNK_280000`) only lets the timer run out, in two frames that are
one step; putting it on while clothes are being loaded is left out.

### MoviePlayer

`queue` holds the nine queues; `reader`, `decoder`, `video` are where each thread
is, with which frame; `videoDecodeCount`, `first`, `dvdError`, `videoError` are
fields they share with the game; `mixing`, `playAudioBuffer`, `curAudioNumber`
belong to the audio device's callback; `state` to `audioExist` to the game thread;
`stop` and `cancelled` are the step of `Stop` and the threads' flags.  Calls of the queues are
single steps, which `OSMessageQueue` is proved to allow.  A buffer without a frame
is `Buffer`, the null pointer that stops a thread `Junk`.  The updates of
`videoDecodeCount` are not atomic on the PC (`OSDisableInterrupts` does nothing):
`Uncounts` may lose either, at most `MaxRaces` times.  *Left out:* a decoded buffer
without a sample, which a sound packet without samples gives and on which `MixAudio` loops for ever
(`d_a_movie_player.cpp:3511` to 3519); movies in memory
or looping (`THPPlayerOpen` and `Prepare` have one call each, which asks for neither),
opening the file, volume, drawing.  A failed `Prepare` ends the model: `Stop` then
does nothing and `Finish` frees the buffers of threads that run (hazard at line 4369).
The flag a thread tests at the top of its loop is read with the step before, fields
nothing reads are reset by `StopBegins`, and `DrawDone` takes all used pictures at once.
A movie that ends with its sound before the last picture was shown is finished for the player; whether the
actor then waits for a button is not modelled.

## 3. Runs

| run | instance | checks | states |
|---|---|---|---|
| `framework_leaves` | a scene, an actor that may refuse deletion and be fast-created, a fade, one node request | `TypeOK`, `CountsExact`, `IteratorSafe`, `FailedStaysOut`, `DeletionIsFinal` | 223 thousand |
| `framework_nodes` | a scene, a room, an actor, two node requests | `LayersAlive`, `DyingLayerEmpty`, `LinedTogether`, `VictimAlive`, `MovesSucceed` | 1.3 million |
| `framework_live` | a scene, a room, an actor (refusing, fast), one node request, with fairness | `DyingIsFreed`, `LeafRequestEnds`, `ImplementsTree` | 155 thousand |
| `process_tree` | two nodes, two actors | `TreeOK`, `Rooted` | 2 thousand |
| `scene_change` | two stages, a room, two fades, two requests, two profiles, failing creations | `OverlapSound`, `ClosedWhileReplacing`, `HeldBehindFade`, `NoneLeftPaused`, `OverlapReturns`, `RetargetHonoured`, `SceneSettles` | 240 thousand |
| `queue` | three threads, two messages, two places | `NoLostWakeup`, `ShutdownWakesAll`, `ImplementsQueue` | 231 thousand |
| `mutex` | three threads, depth three | `FieldsAgree`, `ImplementsMonitor` | 1 thousand |
| `card_users` | autosave, menu, title; three kinds of failure | `NoSaveWhenAllWell`, `SavedIsOnCard`, `BufferNotShared`, `WaitsEnd` | 320 thousand |
| `dvd_thread` | three commands, an audio queue of two | `NotSleptOver`, `ImplementsCommandQueue` | 61 thousand |
| `resources` | three slots, two actors, Link's clothes, a missing archive, failures | `SlotsAgree`, `OnlyFailedIsFreed`, `HeldStays`, `WaitsEnd` | 114 thousand |
| `res_clothes` | Link's clothes, changed at any time, as by the save editors | `NeverDestroyedEarly`, violated | - |
| `movie` | three frames, two read buffers, two texture sets, three audio buffers, failures | `BuffersSound`, `InStep`, `PlayerSettles` | 527 thousand |

What they show:

* `CountsExact` - `create_count` and `delete_count` are exactly the requests and
  node requests of a layer and its deleted, not yet freed processes.  Whether a
  node may be created, deleted or freed is decided from these two numbers alone.
* `LayersAlive`, `DyingLayerEmpty` - no pointer the framework follows leads to a
  freed layer; once a node is dying nothing is in its layer, is being created in
  it or is on its way there.
* `LinedTogether` - a process executes only under an executing node, and all that
  is in an executing node's layer executes.
* `IteratorSafe` - no call of a method cuts the entry the iterator saved.
* `MovesSucceed` - the assertion of `fpcM_Management` that `fpcPi_Handler` made
  every move, though nodes are deleted between the execute pass, in which a move is
  asked for, and the next frame, in which it is made.
* `FailedStaysOut` - an actor whose create method failed gets into no layer and not into
  the line queue, unless it was created at once and the uninitialised `is_doing` of its
  request was not zero: then `fpcCtRq_Cancel` gives up, and the request completes
  (`LeftStale`).  It is stated for leaves: a node that fails while something is being created
  under it cannot be deleted, and its request then completes, too.
* `VictimAlive` - a node request never waits for the deletion of a node that
  something else deleted.
* `DeletionIsFinal`, `DyingIsFreed`, `LeafRequestEnds` - deletion is final and ends;
  an actor's request ends.
* `ImplementsTree` - every step is a step of the tree.
* `OverlapSound` - whoever follows the overlap's pointer to its fade finds one, and a
  request that is cancelled can always delete it (`JUT_ASSERT`, `f_op_scene_mng.cpp:53`).
* `ClosedWhileReplacing`, `HeldBehindFade`, `NoneLeftPaused` - the old scene goes and the new
  one comes behind a closed fade only; the new one starts with the opening; nothing stays
  paused.  `RetargetHonoured` - a change that was given another target makes that one.
* `OverlapReturns`, `SceneSettles` - the overlap comes free after each change; every change
  and every fade ends.  (`fpcNdRq_phase_IsDeleted` waits until the delete queue of the whole
  program is empty; what the game deletes besides scenes, rooms and fades is not in the model.)
* `NoLostWakeup`, `ShutdownWakesAll`, `ImplementsQueue` - nobody sleeps while there is what it
  waits for and nobody awake to take it; the shutdown wakes whoever sleeps when it notifies, but not a
  thread between its test of the flag and its wait (`missed`: the flag is set without the mutex,
  and the code loses that wake-up); the ring is a queue.
* `FieldsAgree`, `ImplementsMonitor` - `OSMutex`'s own fields, which other threads read without
  the mutex, agree with the host's; waiting gives up all levels in one step.
* `SavedIsOnCard`, `BufferNotShared`, `NoSaveWhenAllWell`, `WaitsEnd` - who is told that the data was saved
  finds it on the card, though one flag answers every command; `mData` is nobody else's
  while the card thread reads or writes it; the menu offers to make a save over another only after a failure; every
  wait ends, but for the excuses.
* `NotSleptOver`, `ImplementsCommandQueue` - kicks get lost and no command is slept over; commands
  are executed in order, also across the change of the executing thread.
* `SlotsAgree`, `HeldStays`, `OnlyFailedIsFreed`, `WaitsEnd` - slots and requests agree
  after any errors and deletions in the middle of a load; what is held stays where it is (an
  actor deleted in the middle of a load leaves its count behind, so what nobody holds may stay as well);
  a heap of Link's is freed under no command and no archive but one whose load failed;
  every load ends.
* `BuffersSound` - until the stop not one buffer is lost or doubled, so that no send that
  does not wait ever fails, and no sound is heard twice; afterwards no thread is left that uses their memory.
  `InStep` - the picture is at most one frame ahead of the sound, but for lost counts.
  `PlayerSettles` - playing and stopping end, in a movie whose sound has samples in every
  buffer; the three exceptions are named in the
  module (`Starved`, `Hung`), and each is a history of the code.

*Finding.*  `res_clothes`: a command is destroyed while the DVD thread has it, of which
`m_Do_dvd_thread.cpp:116` warns, when the clothes are changed again while they are
being loaded (`d_a_alink_swindow.inc:83`): the port unregisters them by force.  The
callers are the save editors (`ui/editor.cpp:980`, `ImGuiSaveEditor.cpp:585`); the
collection screen waits for the timer (`d_menu_collect.cpp:1847`).

*Bounds.*  Processes, node requests, commands, slots, threads and frames are the bounds.
`framework_*`: the counters are bounded by the sets, timers run from 1 to 0 as in the
code.  A scene over a room over an actor is the nesting the game uses, so three
processes have every relation between two layers and a process; the second node
request makes requests overlap.  `scene_change`: two requests are a change and a room
request at once; a fade of one frame has both ends; `Peek` 1 makes the overlap wait.
`queue`: three threads on two places give one more waiter of a kind than there is
to take, and the ring wraps.  `mutex`: depth three is one more than the deepest that
differs from no recursion.  `dvd_thread`: three commands are one executed, one on its way and
one being added; two places make the audio's queue full with one of its own tasks, and the command heap may
have no memory at any time.
`resources`: counts to 2 (`MaxCount`), two actors that share and one gear.  `movie`: the code has
10 read buffers, 3 texture sets and 3 audio buffers; two of the former are enough for
the pipeline to have several in flight and be full and empty, three audio buffers
for the decoder to run ahead of the device; three frames have a first, a middle
and a last.  `MaxRaces` 1.  `SYMMETRY` permutes what nothing distinguishes: node
requests, nodes and leaves in `process_tree`, threads and messages; runs with
liveness have none.  Deadlock checking is off in `process_tree` (the tree stops when all
processes are gone), `resources` (the model ends after a want of slots) and `movie` (after
a failed `Prepare`, or when a stop hangs).

*Fairness.*
* Framework: the main loop runs frame after frame and methods return: weak fairness
  of `FrameStep`.  The rest is strong fairness, for each thing happens in a frame
  again and again - one condition for the delete pass, one for all that a process
  does once and that brings it nearer its end (`Finishes`): the delete pass is not left out of every frame (`dPa_control_c`
  asks for single frames), and the methods of the game keep their side, a create
  method ends with success or failure, a post method and a delete method answer 1 in
  the end.  Without these the code gives no progress either: it retries for ever.
* `SceneRequest`: the same loop; strong fairness for creations, frees and the display's readiness
  for the fade, which get a turn each frame and may let a frame pass.
* `MemCard`: both threads run; `OSLockMutex` gets a mutex that is free again and again (strong
  fairness of `CardLocks`: the game only tries for moments); the host does not wake the
  card thread for ever without a signal.
* `DvdThread`, `ResourceControl`: the host runs the threads that can run, actors get their frames.
* `MoviePlayer`: weak fairness of all that has an end in a movie anyway, taken together;
  the audio device asks again and again (strong fairness of what it takes); the
  time for the next picture comes.
* `OSMessageQueue`, `OSMutex`: none; their properties are safety, and so is what they implement.

## 4. Theorems

Each `..._proofs` module is about the module it is named after (`DvdThread_proofs` also about
the client of its queue, `ResourceControl`), for all values of the
constants that satisfy its assumption (`FrameworkAssumption`: nodes are processes,
refusers, fades and fast processes are leaves, the sets are finite, `Root` and `None`
are not processes; `QueueAssumption`: a positive capacity, finitely many threads;
`ResourceAssumption`: finitely many slots and actors, no archive is both an actor's and Link's, ...).

| theorem | statement | argument |
|---|---|---|
| `TreeCorrect` | `Spec => []TreeOK` | invariant `Inv`: types, every existing process has a layer as its parent, `TreeOK`, `Rooted` |
| `TreeRooted` | `Spec => []Rooted` | the same; a process that enters another layer is a leaf, so nothing is below it |
| `TypeCorrect` | `Spec => []TypeOK` | inductive as it stands: each queue and field is only given what its range allows |
| `DyingStaysDying` | `Spec => DeletionIsFinal` | `Lifecycle`: what the phases of a process, its request and its delete tag say of one another, what the cursor is in each pass, which node a node request names |
| `IteratorsSafe` | `Spec => []IteratorSafe` | `Iteration`: the position of a pass, all that is left to visit is in the queue visited, what is in the delete queue is dying |
| `TreeInvariant` | `Spec => []TreeInv` | `Lifecycle`, `Iteration`, `TreeOK`, `Current` and `FailedDying` together (see below) |
| `CountersExact` | `Spec => []CountsExact` | `CreateExact` and `DeleteExact` of `TreeOK`: each step adds or drops one element of the set a counter stands for, and a deletion as many as it queues |
| `PointersAlive` | `Spec => []LayersAlive` | `LayersOf`, `DyingIn`, `Targets`, `Requested`, `Layers`, `Current`: where a pointer leads is a living layer, or a dying one that is not freed yet |
| `DyingLayersEmpty` | `Spec => []DyingLayerEmpty` | the same: what is not dying is in a layer that is not dying |
| `RunsTogether` | `Spec => []LinedTogether` | `Lines`, and `UnderNotLined`: below what is not lined nothing is |
| `VictimsAlive` | `Spec => []VictimAlive` | `Victims`: the node is in the layer that its request keeps from being deleted by its count, and no other request names it |
| `MovesAlwaysSucceed` | `Spec => []MovesSucceed` | `Moves`: the deletion of either end of a move drops it |
| `FailedLeafStaysOut` | `Spec => FailedStaysOut` | `FailedDying`: a failed leaf has nothing below it that could keep it from being deleted at once; `CancelledOrGone`: only the request that a stale `is_doing` kept from being cancelled goes on |
| `TreeImplemented` | `Spec => ImplementsTree` | each action is shown to be a request, a start, an entry, a move, a deletion, a release of the tree, or a stutter; `Deletes` and `Enters` say what `ToDeleteQ` and `ToExecuteQ` do when `TreeInv` holds |
| `SceneInvariant` | `Spec => []SceneInv` of `SceneRequest` | inductive; its parts are named below |
| `OverlapIsSound` | `Spec => []OverlapSound` | `OverlapOK`: from phase 3 on `overlap_task` is the running fade; `FadesOK`: there is no other; `ChangeOK`: from `Create` on the overlap is in phase 4 or later |
| `ScreenStaysClosed` | `Spec => []ClosedWhileReplacing` | `Together`: phases `Delete` to `ClearOverlap` of the change are phase 4 of the overlap; `FadeAt`: there the fade waits |
| `HeldUntilFadeOpens` | `Spec => []HeldBehindFade` | `Held`, which adds that nothing that could start unpaused is being made in the new scene, and `RoomsOK` |
| `PausesEnd` | `Spec => []NoneLeftPaused` | `PausedOK`: what is paused and runs belongs to a change |
| `OverlapComesBack` | `Spec => []OverlapReturns` | `OverlapNeeded` and `Using`: the overlap outlives its change in its last two phases only |
| `RetargetIsMade` | `Spec => []RetargetHonoured` | inductive under `SceneInv`: the name is read when the scene is made, and kept from then on |
| `MutexTypeOK`, `MutexFieldsAgree` | `[]TypeOK`, `[]FieldsAgree` | who is where in a call says which of the two copies is ahead |
| `MutexImplementsMonitor` | `Spec => ImplementsMonitor` | each step maps to a step of `Monitor` or a stutter |
| `NeverSleptOver` | `[]NotSleptOver` | the invariant follows the kick through every place of the loop |
| `CommandInOnePlace`, `DvdTypeOK` | a command is in one place, and exists | `OneInv`: `Places` (of a command), `Apart` (no two places at once), `Shape` (of lists and threads) |
| `CommandsInOrder` | `Spec => DvdQueue!Safe`, the safety half of `ImplementsCommandQueue` | `OrderInv`: `OneInv`; what is cut is the head that was read (`HeadTaken`); the DVD thread executes a command only while the audio has none (`Alone`) |
| `ResourceInvariant` | `ResourceSpec => []ResourceInv` | inductive; its parts are named below |
| `SlotsAgreeUntilDestroyed` | `ResourceSpec => [](NeverDestroyedEarly => SlotsAgree)` | `ResourceInv` says who owns each command; the commands without a slot are the ones destroyed early |
| `ArchivesHeldStay` | `ResourceSpec => HeldStays` | `SlotsStay`: a step takes an archive from its slot only if the count falls to zero, and who still holds it is counted (`ActorsCounted`, `GearCounted`) |
| `CommandsOutliveTheirExecution` | `[]NeverDestroyedEarly`, if not `Impatient` | `GearOK`: gear is let go with its archive loaded; so every step is `Timely`, it takes from a slot only a command that is done |
| `BookkeepingAgrees` | `ResourceSpec => []SlotsAgree`, if not `Impatient` | the two before |
| `HeapsFreedUnderFailedOnly` | `ResourceSpec => []OnlyFailedIsFreed` | `OwnGear`: in a heap of Link's is at most the archive he asks for or holds, counted once unless its load failed, so letting go of it, by force if need be, empties the heap of everything else |
| `QueueTypeOK` | the ring's indices keep their ranges | the remainder of a sum lies in the array, for any capacity |
| `NoWakeupIsLost` | `[]NoLostWakeup` | one awake thread of the right kind per message and per free place |
| `ShutdownReachesSleepers` | `[]ShutdownWakesAll` | who comes between test and wait is accounted for in `missed` |
| `RingImplementsQueue` | `Spec => ImplementsQueue` | the sequence read from `firstIndex` round the array; lemmas on sending, jamming and taking |
| `CardTypeOK` | `Spec => []TypeOK` of `MemCard` | `ControlOK`, `FlagsOK`, and `SomethingToPick`: the card thread never picks the empty command |
| `NoSaveIsTrue` | `Spec => []NoSaveWhenAllWell` of `MemCard` | `FileKnown`: while all is well the state never belies the file |
| `SavedDataIsOnCard` | `Spec => SavedIsOnCard` | `WriteMeansSaved`: WRITE stands only over data that is on the card, but where nobody takes it for an answer |
| `BufferIsNotShared` | `Spec => BufferNotShared` | `Asked`: whoever gives a command waits for no other; `Awaited`: what the card thread works on is not fresh |
| `BuffersAreSound` | `Spec => []BuffersSound` of `MoviePlayer` | junk is in the queues only from the stop on (`Content`), so each step of a thread moves one buffer; `Heard`: what was heard or is on its way was read, once; `Joined`: the step at which `Stop` is says which threads have ended |
| `PicturesInStep` | `Spec => []InStep` of `MoviePlayer` | `Pace`: frames follow one another through the queues; a frame is dropped only for a picture that was due and not there; see below |

The step of each invariant is proved action by action.  In `ProcessFramework_proofs`
`ToDeleteQEffect` and `ToExecuteQEffect` say once what the two large operators do to
the fields the invariants speak of, and `UnderNode`, `UnderLeaf` what the recursion
reaches.  The strengthened invariants were checked by TLC before they were proved.

*The invariant of the framework.*  None of its parts is inductive alone.  A node may be
deleted when `fpcNd_IsCreatingFromUnder` finds the counts zero below it; that nothing is
then being created there needs the counts to be exact (`NothingUnder`).  They stay exact
only while whoever is counted in a layer finds the layer still there, that is, while what
is deleted has no request below it; and this is what the test of the counts was for.
`Under` is a closure (the least set closed under the layers' contents), so that the proofs
work for nodes nested to any depth: `UnderClosed`, `UnderParent` and `UnderTransitive`
are all they know of it.

*The invariant of scene changes.*  Three parties speak through two mailboxes that are
overwritten when nobody collects, so every property rests on where each of them is
whenever another one is somewhere.  `FadeAt` says what the fade does and what its
mailbox holds in each phase of the overlap, `Together` the same of the overlap in each
phase of the change.  The narrowest place is the end: the overlap repeats for one frame
that it is done, and the change must collect that before the overlap deletes its fade.
`Expected` is why it does: the request is still to be visited in this frame's pass of the
scenes, which comes before the overlap's.  All this holds only while there is one fade
and one change (`FadesOK`, `OneChange`), and that because `field_0x4` stays set from the
grant to the fade's deletion (`OverlapOK`).  That no room starts behind the closed fade
needs that none is being made in the new scene any more when it starts (`Held`), which is
`fpcSCtRq_phase_IsComplete`'s test, and that what is paused does not call.  TLC checked
`SceneInv` on `scene_change` and on an instance with two rooms, fades of two frames and no peek time.

*The invariant of the memory card.*  `mCardState` and `field_0x1fc8` answer whoever asks, so
the proof must know that who asks was the one who gave the last command.  `DoingOK` ties
each call to the proc or page of its user; `Awaited` says that a load or a store under way has
its user waiting for it and `field_0x1fc8` down, `Asked` that nobody gives a command while
one of these is under way.  A command given while an attach or a format runs is wiped out when
that ends, and counts as never under way: its user may take the other's answer, but not for
WRITE over data that is not there (`WriteMeansSaved`).  `AtRest` is what makes the
excuses safe to forget: they are dropped only with no command there, where all of this
holds anew.  TLC checked from every state that satisfies `Exchange`, not only the reachable
ones, that a step preserves it (with the card's failures as in `card_users`, and `NOCARD`).

*The invariant of the movie player.*  `InStep` speaks of a picture and a sound, and what
ties them together is a counter that two threads update without a lock.  `Counted`: the
frames taken and counted are no more than `videoDecodeCount` and the pictures that were due
add up to, but for lost updates.  A frame is dropped only while that counter is negative,
so (`Dropped`) the dropped frames are no more than the times a picture was due and none was
there; hence a decoded picture is never ahead of its place in the queue (`Pictures`), and
the display takes the next one only while it is not ahead of the sound.  That the frame
taken is the next one is `InOrder`, through the reader, two queues and the audio decoder;
`Began` says why no picture is due before the first frame was counted.  TLC checked `Pace`
on the states of `movie`.

*The order of the commands.*  The mapping to `CommandQueue` is the point of this proof:
the commands that wait are those in the audio's queue, then the one in the DVD thread's
hand, then the list.  Each hand-over then leaves the whole queue as it is: cutting the
head moves the border between list and hand, sending that between hand and audio, and
`create` appends.  That holds because the head read without the mutex is still the head
when it is cut.  The audio's own tasks are skipped by `OnlyCommands`, a recursive
function; the library's induction theorems cannot be used for it, so its lemmas
(`OnlyAppend`, `OnlyTail`, `OnlyNothing`) go through the least index at which they would
fail (`LeastNat`, from the well-foundedness of `<`).

*The invariant of the resource control.*  `SlotInv` is about the slots and the DVD thread: an
archive is in one slot (`OneSlot`), which has a command or an archive and not both
(`ArchiveOK`), every command is in one place (`DvdOrder`) and a slot's command is one the
thread was given (`Own`).  `RequestInv` is about who asks.  An archive's count is at least
the number of its actors' requests (`ActorsCounted`, a cardinality) and at least one for each
gear that has it: exactly that many it is not, for an actor deleted in the middle of a load
leaves its count behind.  `HeldMounted` ties the two together.  All calls of the game
come to two kinds, and the proof is by these: `Added(n)`, which puts archive `n` into a free
slot, and `Lets`, which frees, counts and looks at slots; what each phase of `dComIfG_resLoad`
is among them is shown once (`Found`, `Deleted`, `Looked`).  `CommandsOutliveTheirExecution` and
`BookkeepingAgrees` assume that the clothes are changed only when the last change is loaded, as
the collection screen does and the save editors do not: without the
assumption TLC refutes the first in the run `res_clothes`.  What needs no
such assumption is stated without it.  After the heap was freed under an archive the model
stops, as after every undefined behaviour; `OnlyFailedIsFreed` says which archive that was.
TLC checked the invariants on `resources`, and `OwnGear` also with impatience and with the shield.

*Only model-checked.*  For good the liveness properties, the promise of
`ImplementsCommandQueue` that the queue is served in the end among them: liveness under
fairness and `ENABLED` are out of the prover's reach.  No module declares a RECURSIVE operator; `Under` and `Above` are
closures, stated as the intersection of closed sets, so that they can be reasoned
about.

## 5. Not modelled, and what is left

In the order in which it would pay:

1. The exact counts of archives as long as no actor is deleted in the middle of a load, and
   the calls of `BoundedQueue` that `MoviePlayer` takes as steps, by an `INSTANCE` of it.
2. The calls between frames (the actor spawner, the quick transform), made in
   whatever layer the last pass left current; a second move of one process; the draw pass.
3. `OSThread.cpp`: suspension counts and sleep queues over the host's threads.
4. The exact list iterator (`c_node_iter` over doubly linked lists) that `Advance`
   abstracts; heaps; the archive and decompression threads; stages, events.

Left out for good: audio and graphics (floating point, host libraries), the user
interface, modding, settings and http (mostly I/O of the host's libraries), the 800 actors (each one
process whose calls are covered by `Call`), generated assets and vendored
libraries.  These are nearly all of the two million lines of the repository, which is why
the models cover a small share of its lines.
