---------------------------- MODULE MoviePlayer ----------------------------
(***************************************************************************)
(* The movie player (d_a_movie_player.cpp): a reader, an audio decoder and *)
(* a video decoder thread pass buffers round in bounded message queues,    *)
(* the audio device's thread mixes what was decoded, and the game thread   *)
(* shows the pictures, at the pace of the sound, from the retrace callback.*)
(* Threads cannot be cancelled on the PC: stopping a movie sets a flag for *)
(* each, pushes junk into the queues it may wait in, and joins it.         *)
(*                                                                         *)
(* The queues are those of BoundedQueue, one step per call.  The files are *)
(* not in memory (onMemory 0) and do not loop (playFlag 0), as in the only *)
(* call of THPPlayerOpen and THPPlayerPrepare.                             *)
(***************************************************************************)
EXTENDS Integers, Sequences, FiniteSets

CONSTANTS
    Frames,                                   \* header.numFrames
    ReadBuffers, TextureSets, AudioBuffers,   \* 10, 3 and 3 in the code
    Audio,        \* whether the movies have sound: a subset of BOOLEAN
    Fails,        \* what may fail: "dvd" (with -1), "short" (otherwise), "decode"
    MaxRaces      \* bounds the updates of videoDecodeCount that are lost

ASSUME MovieAssumption ==
    /\ {Frames, ReadBuffers, TextureSets, AudioBuffers} \subseteq Nat \ {0}
    /\ Audio \subseteq BOOLEAN /\ Fails \subseteq {"dvd", "short", "decode"}
    /\ MaxRaces \in Nat

VARIABLES
    queue,                       \* the message queues
    reader, decoder, video,      \* where each thread is, with which frame
    videoDecodeCount, first,     \* daMP_First
    dvdError, videoError,
    mixing, playAudioBuffer, curAudioNumber,    \* the audio device's thread
    at, state, internalState, retaceCount,      \* the game thread
    curVideoNumber, dispTextureSet, audioExist,
    stop, cancelled,             \* the step of Stop; the threads' flags
    races                        \* history: updates of videoDecodeCount that were lost

threads  == <<reader, decoder, video>>
counts   == <<videoDecodeCount, first, races>>
errors   == <<dvdError, videoError>>
mixer    == <<mixing, playAudioBuffer, curAudioNumber>>
player   == <<at, state, internalState, retaceCount, curVideoNumber, dispTextureSet, audioExist>>
stopping == <<stop, cancelled>>
vars == <<queue, threads, counts, errors, mixer, player, stopping>>

(* Messages: the frame in a buffer, a buffer without one, and nullptr.     *)
Buffer == 0
Junk == -1
Messages == (0..Frames-1) \union {Junk}
Nothing == -1     \* no picture on display
Last == Frames - 1

Capacity == [freeRead |-> ReadBuffers, readed |-> ReadBuffers, readed2 |-> ReadBuffers,
             freeTexture |-> TextureSets, decodedTexture |-> TextureSets, used |-> TextureSets,
             freeAudio |-> AudioBuffers, decodedAudio |-> AudioBuffers, ready |-> 1]
Size(q) == Len(queue[q])
HasRoom(q) == Size(q) < Capacity[q]
Send(q, m) == HasRoom(q) /\ queue' = [queue EXCEPT ![q] = Append(@, m)]
Receive(q) == queue[q] # <<>> /\ queue' = [queue EXCEPT ![q] = Tail(@)]
(* OS_MESSAGE_NOBLOCK                                                      *)
TrySend(q, m) == Send(q, m) \/ (~HasRoom(q) /\ UNCHANGED queue)
TryReceive(q) == Receive(q) \/ (queue[q] = <<>> /\ UNCHANGED queue)
Received(q) == Head(queue[q])

Ended(t) == t.pc \in {"ended", "kept"}     \* kept: with a buffer that was not read
NoThread == [pc |-> "ended", frame |-> 0, late |-> FALSE]
NewThread == [pc |-> "pop", frame |-> 0, late |-> FALSE]
(* while (!Cancelled): each thread makes this test with the last step of   *)
(* its turn.  Only the flag could change in between, and it might have     *)
(* done so before that step just as well.                                  *)
Again(name, top) == IF name \in cancelled THEN "ended" ELSE top
Filled(n) == [i \in 1..n |-> Buffer]

Init ==
    /\ queue = [q \in DOMAIN Capacity |-> <<>>]
    /\ reader = NoThread /\ decoder = NoThread /\ video = NoThread
    /\ videoDecodeCount = 0 /\ first = FALSE /\ races = 0
    /\ dvdError = FALSE /\ videoError = FALSE
    /\ mixing = FALSE /\ playAudioBuffer = FALSE /\ curAudioNumber = 0
    /\ at = "over" /\ state = 0 /\ internalState = 0 /\ retaceCount = 0
    /\ curVideoNumber = 0 /\ dispTextureSet = Nothing /\ audioExist \in Audio
    /\ stop = 0 /\ cancelled = {}
-----------------------------------------------------------------------------
(* The reader thread: daMP_Reader.                                         *)

ReaderStays == UNCHANGED <<decoder, video, counts, mixer, player, stopping>>
PopsFreeReadBuffer ==
    /\ reader.pc = "pop" /\ Receive("freeRead")
    /\ reader' = [reader EXCEPT !.pc = IF Received("freeRead") = Junk THEN "ended" ELSE "read"]
    /\ UNCHANGED errors /\ ReaderStays
(* The read fails, or is cancelled by the stop (DVDCancel), when nothing   *)
(* reads dvdError any more.                                                *)
ReadFails ==
    /\ reader.pc = "read" /\ reader' = [reader EXCEPT !.pc = "kept"]
    /\ \/ "dvd" \in Fails /\ at # "stopping" /\ dvdError' = TRUE
       \/ ("short" \in Fails \/ at = "stopping") /\ UNCHANGED dvdError
    /\ IF reader.frame = 0 THEN Send("ready", FALSE) ELSE UNCHANGED queue
    /\ UNCHANGED videoError /\ ReaderStays
ReadsAndPushes ==
    /\ reader.pc = "read" /\ Send("readed", reader.frame)
    /\ reader' = IF reader.frame = Last THEN [reader EXCEPT !.pc = "ended"]
                 ELSE [reader EXCEPT !.pc = Again("reader", "pop"), !.frame = @ + 1]
    /\ UNCHANGED errors /\ ReaderStays
Reader == PopsFreeReadBuffer \/ ReadFails \/ ReadsAndPushes
-----------------------------------------------------------------------------
(* The audio decoder thread: daMP_AudioDecoder.                            *)

DecoderGoes(from, to, frame) ==
    /\ decoder.pc = from /\ decoder' = [decoder EXCEPT !.pc = to, !.frame = frame]
    /\ UNCHANGED <<reader, video, counts, errors, mixer, player, stopping>>
PopsReadedBuffer ==
    /\ Receive("readed")
    /\ IF Received("readed") = Junk THEN DecoderGoes("pop", "ended", 0)
       ELSE DecoderGoes("pop", "take", Received("readed"))
PopsFreeAudioBuffer ==
    /\ Receive("freeAudio")
    /\ DecoderGoes("take", IF Received("freeAudio") = Junk THEN "give" ELSE "put", decoder.frame)
PushesDecodedAudioBuffer ==
    Send("decodedAudio", decoder.frame) /\ DecoderGoes("put", "give", decoder.frame)
PushesReadedBuffer2 ==
    Send("readed2", decoder.frame) /\ DecoderGoes("give", Again("decoder", "pop"), 0)
AudioDecoder ==
    \/ PopsReadedBuffer \/ PopsFreeAudioBuffer
    \/ PushesDecodedAudioBuffer \/ PushesReadedBuffer2
-----------------------------------------------------------------------------
(* The video decoder thread: daMP_VideoDecoder, which drops the frames the *)
(* display has not waited for, and daMP_VideoDecode.                       *)

VideoGoes(from, to) == video.pc = from /\ video' = [video EXCEPT !.pc = to]
VideoStays == UNCHANGED <<reader, decoder, mixer, player, stopping>>
IsLateOnTime == videoDecodeCount <= 0      \* mutant: a frame that is on time is dropped
IsLate == videoDecodeCount < 0
Chooses ==
    /\ VideoGoes("next", IF audioExist /\ IsLate THEN "skip" ELSE "pop")
    /\ UNCHANGED <<queue, counts, errors>> /\ VideoStays
(* The last frame is decoded even if it is late.                           *)
PopsBuffer(from, q) ==
    /\ video.pc = from /\ Receive(q)
    /\ LET m == Received(q) IN
       video' = [pc |-> IF m = Junk THEN "ended"
                        ELSE IF from = "skip" /\ m # Last THEN "free" ELSE "texture",
                 frame |-> IF m = Junk THEN 0 ELSE m, late |-> from = "skip"]
    /\ UNCHANGED <<counts, errors>> /\ VideoStays
Pops ==
    \/ PopsBuffer("skip", "readed2")
    \/ PopsBuffer("pop", IF audioExist THEN "readed2" ELSE "readed")
PopsFreeTextureSet ==
    /\ Receive("freeTexture")
    /\ VideoGoes("texture", IF Received("freeTexture") = Junk THEN "free" ELSE "decode")
    /\ UNCHANGED <<counts, errors>> /\ VideoStays
(* OSSuspendThread of itself: nobody resumes it.                           *)
DecodeFails ==
    /\ "decode" \in Fails /\ VideoGoes("decode", "suspended")
    /\ videoError' = TRUE /\ first' = FALSE
    /\ IF first THEN Send("ready", FALSE) ELSE UNCHANGED queue
    /\ UNCHANGED <<videoDecodeCount, races, dvdError>> /\ VideoStays
DecodesAndPushes ==
    /\ VideoGoes("decode", "count") /\ Send("decodedTexture", video.frame)
    /\ UNCHANGED <<counts, errors>> /\ VideoStays
CountsFrame ==
    /\ VideoGoes("count", "free")
    /\ videoDecodeCount' = videoDecodeCount + 1 /\ first' = FALSE
    /\ IF first THEN Send("ready", TRUE) ELSE UNCHANGED queue
    /\ UNCHANGED <<races, errors>> /\ VideoStays
GivesBackIfShown ==      \* mutant: the buffer of a dropped frame is not given back
    IF video.late THEN UNCHANGED queue ELSE Send("freeRead", Buffer)
GivesBack == Send("freeRead", Buffer)
PushesFreeReadBuffer ==
    /\ VideoGoes("free", IF video.late THEN "countLate" ELSE Again("video", "next")) /\ GivesBack
    /\ UNCHANGED <<counts, errors>> /\ VideoStays
CountsLate ==
    /\ VideoGoes("countLate", "next") /\ videoDecodeCount' = videoDecodeCount + 1
    /\ UNCHANGED <<queue, first, races, errors>> /\ VideoStays
VideoDecoder ==
    \/ Chooses \/ Pops \/ PopsFreeTextureSet \/ DecodeFails
    \/ DecodesAndPushes \/ CountsFrame \/ PushesFreeReadBuffer \/ CountsLate
-----------------------------------------------------------------------------
(* The audio device's thread: daMP_MixAudio, which returns when it has     *)
(* samples enough or finds no buffer.  Every buffer has samples.           *)

MixStays == UNCHANGED <<threads, counts, errors, player, stopping>>
MixBegins ==
    /\ ~mixing /\ at \in {"open", "stopping"} /\ internalState = 2 /\ audioExist
    /\ mixing' = TRUE
    /\ UNCHANGED <<queue, playAudioBuffer, curAudioNumber>> /\ MixStays
PopsDecodedAudioBuffer ==
    /\ mixing /\ ~playAudioBuffer /\ Receive("decodedAudio")
    /\ playAudioBuffer' = TRUE /\ curAudioNumber' = curAudioNumber + 1
    /\ UNCHANGED mixing /\ MixStays
PushesFreeAudioBuffer ==
    /\ mixing /\ playAudioBuffer /\ TrySend("freeAudio", Buffer)
    /\ playAudioBuffer' = FALSE
    /\ UNCHANGED <<mixing, curAudioNumber>> /\ MixStays
MixEnds ==
    /\ mixing /\ mixing' = FALSE
    /\ UNCHANGED <<queue, playAudioBuffer, curAudioNumber>> /\ MixStays
MixAudio == MixBegins \/ PopsDecodedAudioBuffer \/ PushesFreeAudioBuffer \/ MixEnds
-----------------------------------------------------------------------------
(* The game thread.  Init, Open and Prepare up to the wait: everything is  *)
(* reset, the queues are filled, the threads start.                        *)

GameStays == UNCHANGED <<threads, counts, errors, mixer>>
Prepare ==
    /\ at = "over" /\ at' = "waiting" /\ audioExist' \in Audio
    /\ queue' = [q \in DOMAIN Capacity |->
                    IF q \in {"freeRead", "freeTexture"} \/ (q = "freeAudio" /\ audioExist')
                    THEN Filled(Capacity[q]) ELSE <<>>]
    /\ reader' = NewThread /\ video' = [NewThread EXCEPT !.pc = "next"]
    /\ decoder' = IF audioExist' THEN NewThread ELSE NoThread
    /\ videoDecodeCount' = 0 /\ first' = TRUE /\ races' = 0
    /\ dvdError' = FALSE /\ videoError' = FALSE /\ cancelled' = {}
    /\ playAudioBuffer' = FALSE /\ curAudioNumber' = 0
    /\ curVideoNumber' = 0 /\ dispTextureSet' = Nothing
    /\ UNCHANGED <<mixing, state, internalState, retaceCount, stop>>
(* A failed Prepare leaves the threads where they are, for good: state is  *)
(* still 0, and Stop does nothing.                                         *)
WaitUntilPrepare ==
    /\ at = "waiting" /\ Receive("ready")
    /\ IF Received("ready") THEN at' = "open" /\ state' = 1 ELSE at' = "failed" /\ UNCHANGED state
    /\ UNCHANGED <<internalState, retaceCount, curVideoNumber, dispTextureSet, audioExist>>
    /\ UNCHANGED stopping /\ GameStays

Play ==
    /\ at = "open" /\ state \in {1, 4} /\ state' = 2 /\ retaceCount' = -1
    /\ UNCHANGED <<queue, at, internalState, curVideoNumber, dispTextureSet, audioExist>>
    /\ UNCHANGED stopping /\ GameStays
Pause ==
    /\ at = "open" /\ state = 2 /\ state' = 4 /\ internalState' = 4
    /\ UNCHANGED <<queue, at, retaceCount, curVideoNumber, dispTextureSet, audioExist>>
    /\ UNCHANGED stopping /\ GameStays

(* daMP_PlayControl.  An error ends the movie.                             *)
PlayFails ==
    /\ at = "open" /\ state = 2 /\ (dvdError \/ videoError)
    /\ state' = 5 /\ internalState' = 5
    /\ UNCHANGED <<queue, at, retaceCount, curVideoNumber, dispTextureSet, audioExist>>
    /\ UNCHANGED stopping /\ GameStays

(* videoDecodeCount-- here and ++ in the video decoder are not atomic:     *)
(* OSDisableInterrupts does nothing on the PC, and either may be lost.     *)
Uncounts ==
    \/ videoDecodeCount' = videoDecodeCount - 1 /\ UNCHANGED races
    \/ /\ video.pc \in {"count", "countLate"} /\ races < MaxRaces
       /\ races' = races + 1
       /\ \E lost \in {0, 2} : videoDecodeCount' = videoDecodeCount - lost

(* The next picture: shown, with the one before it given back; Nothing if  *)
(* none is decoded yet.                                                    *)
Popped == IF queue["decodedTexture"] = <<>> THEN Nothing ELSE Received("decodedTexture")
Shows ==
    IF Popped = Nothing THEN UNCHANGED <<queue, dispTextureSet>>
    ELSE /\ dispTextureSet' = Popped
         /\ queue' = [queue EXCEPT
                !["decodedTexture"] = Tail(@),
                !["used"] = IF dispTextureSet # Nothing /\ HasRoom("used")
                            THEN Append(@, Buffer) ELSE @]
AheadOfSound == curVideoNumber - curAudioNumber > 1
(* 1 stands for more as well: internalState is 2 already.                  *)
Retaces == IF retaceCount = 1 THEN 1 ELSE retaceCount + 1
(* The end: the sound was played, or without it, there is no picture more. *)
Finished(shows) ==
    IF audioExist THEN curAudioNumber = Frames /\ ~playAudioBuffer
    ELSE dispTextureSet' = Last /\ shows /\ Popped = Nothing
PlayControl(timing) ==
    /\ at = "open" /\ state = 2 /\ ~dvdError /\ ~videoError
    /\ retaceCount' = IF Retaces = 0 /\ ~timing THEN -1 ELSE Retaces
    /\ LET shows == timing /\ ~(audioExist /\ AheadOfSound)
           starts == retaceCount' = 1 \/ (retaceCount' = 0 /\ ~shows)
       IN /\ IF shows THEN Shows ELSE UNCHANGED <<queue, dispTextureSet>>
          /\ IF shows /\ audioExist THEN Uncounts /\ curVideoNumber' = curVideoNumber + 1
             ELSE UNCHANGED <<videoDecodeCount, races, curVideoNumber>>
          /\ IF Finished(shows) THEN state' = 3 /\ internalState' = 3
             ELSE internalState' = (IF starts THEN 2 ELSE internalState) /\ UNCHANGED state
    /\ UNCHANGED <<threads, first, errors, mixer, at, audioExist, stopping>>

(* DrawDone: the GPU is done with the pictures that were replaced.         *)
DrawDone ==
    /\ at = "open" /\ queue["used"] # <<>>
    /\ LET free == queue["freeTexture"] \o queue["used"] IN
       queue' = [queue EXCEPT !["used"] = <<>>,
                    !["freeTexture"] = IF Len(free) <= Capacity["freeTexture"] THEN free
                                       ELSE SubSeq(free, 1, Capacity["freeTexture"])]
    /\ UNCHANGED <<player, stopping>> /\ GameStays
-----------------------------------------------------------------------------
(* Stop: at the end, when the player skips the movie, after an error (Main)*)
(* or when the actor is deleted.                                           *)

Do(what, on) == [do |-> what, on |-> on]
VideoJunkWithoutSound ==    \* mutant: the queue the decoder waits in with sound is forgotten
    << Do("junk", "freeTexture"), Do("junkWaiting", "readed") >>
VideoJunk == << Do("junk", "freeTexture"), Do("junkWaiting", "readed"), Do("junkWaiting", "readed2") >>
StopSteps ==
    << Do("cancel", "reader"), Do("discard", "readed"), Do("junk", "freeRead"), Do("join", "reader"),
       Do("cancel", "video") >> \o VideoJunk \o << Do("join", "video") >>
    \o (IF ~audioExist THEN <<>> ELSE
    << Do("cancel", "decoder"), Do("junk", "readed"), Do("junk", "freeAudio"),
       Do("discard", "readed2"), Do("discard", "decodedAudio"), Do("join", "decoder"),
       Do("quit", "mixer") >>)
    \o << Do("drain", "used") >>
StopStep == StopSteps[stop]

(* What nothing reads before the next Prepare and Play set it again, the   *)
(* model forgets here.                                                     *)
StopBegins ==
    /\ at = "open" /\ at' = "stopping"
    /\ state' = 0 /\ internalState' = 0 /\ stop' = 1
    /\ retaceCount' = 0 /\ curVideoNumber' = 0 /\ dispTextureSet' = Nothing /\ races' = 0
    /\ dvdError' = FALSE /\ videoError' = FALSE
    /\ UNCHANGED <<queue, audioExist, cancelled, videoDecodeCount, first>>
    /\ UNCHANGED <<threads, mixer>>

Thread(t) == CASE t = "reader" -> reader [] t = "decoder" -> decoder [] t = "video" -> video
(* registerMixCallback takes the lock the audio device's thread mixes      *)
(* under.                                                                  *)
Quits == StopStep.do = "quit" /\ ~mixing /\ UNCHANGED <<queue, cancelled>>
Cancels ==
    /\ StopStep.do = "cancel" /\ cancelled' = cancelled \union {StopStep.on} /\ UNCHANGED queue
Junks ==
    /\ \/ StopStep.do = "junk" /\ TrySend(StopStep.on, Junk)
       \/ StopStep.do = "junkWaiting" /\ Send(StopStep.on, Junk)
    /\ UNCHANGED cancelled
Discards == StopStep.do = "discard" /\ TryReceive(StopStep.on) /\ UNCHANGED cancelled
Joins == StopStep.do = "join" /\ Ended(Thread(StopStep.on)) /\ UNCHANGED <<queue, cancelled>>
Drains ==
    /\ StopStep.do = "drain" /\ queue' = [queue EXCEPT !["used"] = <<>>] /\ UNCHANGED cancelled
StopGoesOn ==
    /\ at = "stopping"
    /\ Cancels \/ Discards \/ Junks \/ Joins \/ Quits \/ Drains
    /\ IF stop = Len(StopSteps) THEN stop' = 0 /\ at' = "over" ELSE stop' = stop + 1 /\ UNCHANGED at
    /\ UNCHANGED <<state, internalState, retaceCount, curVideoNumber, dispTextureSet, audioExist>>
    /\ GameStays

Game ==
    \/ Prepare \/ WaitUntilPrepare \/ Play \/ Pause \/ PlayFails
    \/ \E timing \in BOOLEAN : PlayControl(timing)
    \/ DrawDone \/ StopBegins \/ StopGoesOn
Next == Reader \/ AudioDecoder \/ VideoDecoder \/ MixAudio \/ Game
Spec == Init /\ [][Next]_vars

(* The host runs whatever can go on: what has an end in every movie needs  *)
(* no fairness among its parts.  The audio device asks for samples again   *)
(* and again, and each time uses some; the time for the next picture comes.*)
Works == Reader \/ AudioDecoder \/ VideoDecoder \/ DrawDone \/ StopGoesOn
FairSpec ==
    /\ Spec /\ WF_vars(Works)
    /\ WF_vars(MixBegins \/ MixEnds) /\ SF_vars(PopsDecodedAudioBuffer \/ PushesFreeAudioBuffer)
    /\ WF_vars(PlayFails \/ PlayControl(TRUE))
-----------------------------------------------------------------------------
Pcs == {"pop", "ended", "kept", "read", "take", "put", "give", "next", "skip", "texture", "decode",
        "suspended", "count", "free", "countLate"}
TypeOK ==
    /\ \A q \in DOMAIN Capacity \ {"ready"} : queue[q] \in Seq(Messages)
    /\ \A q \in DOMAIN Capacity : Size(q) <= Capacity[q]
    /\ {reader, decoder, video} \subseteq [pc : Pcs, frame : 0..Last, late : BOOLEAN]
    /\ videoDecodeCount \in Int
    /\ state \in 0..5 /\ internalState \in {0, 2, 3, 4, 5} /\ retaceCount \in -1..1
    /\ curAudioNumber \in Nat /\ curVideoNumber \in Nat
    /\ at \in {"over", "waiting", "failed", "open", "stopping"}
    /\ dispTextureSet \in 0..Last \union {Nothing} /\ stop \in 0..Len(StopSteps)
    /\ cancelled \subseteq {"reader", "decoder", "video"}

(* Until the stop begins no buffer is lost or doubled: not one of the      *)
(* sends that do not wait finds its queue full, and no sound is heard      *)
(* twice.                                                                  *)
Holds(t, pcs) == IF t.pc \in pcs THEN 1 ELSE 0
Shown == IF dispTextureSet = Nothing THEN 0 ELSE 1
Played == IF playAudioBuffer THEN 1 ELSE 0
ReadKept ==
    Size("freeRead") + Size("readed") + Size("readed2")
       + Holds(reader, {"read", "kept"}) + Holds(decoder, {"take", "put", "give"})
       + Holds(video, {"texture", "decode", "count", "free", "suspended"}) = ReadBuffers
TexturesKept ==
    Size("freeTexture") + Size("decodedTexture") + Size("used")
       + Holds(video, {"decode", "suspended"}) + Shown = TextureSets
SoundKept ==
    /\ Size("freeAudio") + Size("decodedAudio") + Holds(decoder, {"put"})
       + Played = AudioBuffers
    /\ curAudioNumber <= Frames
Conserved == ReadKept /\ TexturesKept /\ (audioExist => SoundKept)

(* When Stop returns the game frees the memory of the buffers: no thread   *)
(* is left that uses it.                                                   *)
QuietWhenFreed ==
    at = "over" => Ended(reader) /\ Ended(decoder) /\ Ended(video) /\ ~mixing

BuffersSound == TypeOK /\ (at \in {"waiting", "open"} => Conserved) /\ QuietWhenFreed

(* The picture is at most one frame ahead of the sound, however far the    *)
(* decoders run ahead and whatever frames are dropped: lost updates of     *)
(* videoDecodeCount are the only way to get further.                       *)
InStep == at = "open" /\ audioExist => dispTextureSet <= curAudioNumber + 1 + races

(* A movie whose sound has samples in every buffer (on one without any the *)
(* callback of the audio device would loop for ever) ends when it plays,   *)
(* and so does its stop, unless                                            *)
(*  - the disc gave less than was asked for without an error: the movie    *)
(*    goes on waiting for the rest;                                        *)
(*  - the video decoder suspended itself after an error, and nobody will   *)
(*    resume it: the stop waits for it for ever;                           *)
(*  - the reader ended by itself, its junk fills its queue and the video   *)
(*    decoder cannot give its buffer back: so does the stop.               *)
Starved == state = 2 /\ reader.pc = "kept" /\ ~dvdError
Hung ==
    /\ at = "stopping"
    /\ video.pc = "suspended" \/ (video.pc = "free" /\ ~HasRoom("freeRead") /\ Ended(reader))
Busy == state = 2 \/ at = "stopping"
PlayerSettles == Busy ~> ~Busy \/ Starved \/ Hung
=============================================================================
