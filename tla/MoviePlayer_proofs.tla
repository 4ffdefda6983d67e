------------------------- MODULE MoviePlayer_proofs -------------------------
(***************************************************************************)
(* Proofs about the movie player, for every length of a movie and every    *)
(* number of buffers.                                                      *)
(***************************************************************************)
EXTENDS MoviePlayer, SequenceTheorems, TLAPS

Queues == {"freeRead", "readed", "readed2", "freeTexture", "decodedTexture", "used",
           "freeAudio", "decodedAudio", "ready"}

(* Junk is in the queues only while Stop runs, and after it.               *)
Content(q) ==
    IF q = "ready" THEN BOOLEAN
    ELSE IF at \in {"waiting", "failed", "open"} THEN 0..Last ELSE Messages
QueuesOK ==
    /\ DOMAIN queue = Queues /\ queue = [q \in Queues |-> queue[q]]
    /\ \A q \in Queues : queue[q] \in Seq(Content(q)) /\ Size(q) <= Capacity[q]
ThreadsOK ==
    /\ reader \in [pc : {"pop", "read", "ended", "kept"}, frame : 0..Last, late : BOOLEAN]
    /\ decoder \in [pc : {"pop", "take", "put", "give", "ended"}, frame : 0..Last, late : BOOLEAN]
    /\ video \in [pc : Pcs \ {"kept"}, frame : 0..Last, late : BOOLEAN]
PlayerOK ==
    /\ videoDecodeCount \in Int /\ curAudioNumber \in Nat /\ curVideoNumber \in Nat
    /\ state \in 0..5 /\ internalState \in {0, 2, 3, 4, 5} /\ retaceCount \in -1..1
    /\ at \in {"over", "waiting", "failed", "open", "stopping"}
    /\ dispTextureSet \in 0..Last \union {Nothing}
    /\ cancelled \subseteq {"reader", "decoder", "video"}
FlagsOK == audioExist \in BOOLEAN /\ mixing \in BOOLEAN /\ playAudioBuffer \in BOOLEAN

(* The sound that was heard or is on its way to be was read.               *)
Heard ==
    curAudioNumber + Size("decodedAudio") + Holds(decoder, {"take", "put"})
        + Size("readed") <= reader.frame + Holds(reader, {"ended"})
Flow ==
    at \in {"waiting", "open"} => cancelled = {} /\ Conserved /\ (audioExist => Heard)

(* How far Stop is tells who has ended; nobody begins to mix any more.     *)
EndedFor(s) ==
    /\ s > 4 => Ended(reader)
    /\ s > 9 => Ended(video)
    /\ audioExist /\ s > 15 => Ended(decoder)
    /\ audioExist /\ s > 16 => ~mixing
Joined ==
    /\ ~audioExist => Ended(decoder) /\ ~mixing
    /\ at # "stopping" => stop = 0
    /\ at = "stopping" => stop \in 1..Len(StopSteps) /\ internalState = 0 /\ EndedFor(stop)
    /\ QuietWhenFreed

IInv == QueuesOK /\ ThreadsOK /\ PlayerOK /\ FlagsOK /\ Flow /\ Joined
-----------------------------------------------------------------------------
(* The queues: what a capacity is, and what one call does to a queue.      *)
LEMMA CapacityIs ==
  /\ DOMAIN Capacity = Queues
  /\ \A q \in Queues : Capacity[q] \in Nat \ {0}
  /\ \A q \in {"freeRead", "readed", "readed2"} : Capacity[q] = ReadBuffers
  /\ \A q \in {"freeTexture", "decodedTexture", "used"} : Capacity[q] = TextureSets
  /\ \A q \in {"freeAudio", "decodedAudio"} : Capacity[q] = AudioBuffers
  BY MovieAssumption, SMT DEF Capacity, Queues

(* Nothing is handed over between a movie that plays and one that stops.   *)
SameUse ==
    \/ at' = at
    \/ at = "waiting" /\ at' \in {"failed", "open"}
    \/ at = "stopping" /\ at' = "over"
LEMMA SameQueues ==
  ASSUME QueuesOK, UNCHANGED queue, SameUse PROVE QueuesOK' /\ \A q \in Queues : Size(q)' = Size(q)
  BY DEF QueuesOK, Content, Size, SameUse

LEMMA SizeIsNat ==
  ASSUME QueuesOK PROVE \A q \in Queues : Size(q) \in Nat /\ Size(q) <= Capacity[q]
  BY LenProperties DEF QueuesOK, Size

LEMMA SendEffect ==
  ASSUME QueuesOK, NEW q \in Queues, NEW m \in Content(q), Send(q, m), SameUse
  PROVE  /\ QueuesOK' /\ Size(q) < Capacity[q] /\ Size(q)' = Size(q) + 1
         /\ \A p \in Queues \ {q} : Size(p)' = Size(p)
<1>1. queue' = [queue EXCEPT ![q] = Append(queue[q], m)] /\ Len(queue[q]) < Capacity[q]
  BY DEF Send, HasRoom, Size
<1>2. queue[q] \in Seq(Content(q)) /\ Len(queue[q]) \in Nat /\ DOMAIN queue = Queues
  BY LenProperties DEF QueuesOK
<1>3. Append(queue[q], m) \in Seq(Content(q)) /\ Len(Append(queue[q], m)) = Len(queue[q]) + 1
  BY <1>2, AppendProperties
<1>4. /\ DOMAIN queue' = Queues /\ queue'[q] = Append(queue[q], m)
      /\ \A p \in Queues \ {q} : queue'[p] = queue[p]
      /\ queue' = [p \in Queues |-> queue'[p]]
  BY <1>1, <1>2
<1>5. \A p : Content(p)' = Content(p)
  BY DEF Content, SameUse
<1>6. Len(queue'[q]) <= Capacity[q]
  BY <1>1, <1>2, <1>3, <1>4, CapacityIs, SMT
<1> QED
  BY <1>1, <1>3, <1>4, <1>5, <1>6 DEF QueuesOK, Size

LEMMA ReceiveEffect ==
  ASSUME QueuesOK, NEW q \in Queues, Receive(q), SameUse
  PROVE  /\ QueuesOK' /\ Received(q) \in Content(q) /\ Size(q)' = Size(q) - 1 /\ Size(q) # 0
         /\ \A p \in Queues \ {q} : Size(p)' = Size(p)
<1>1. queue' = [queue EXCEPT ![q] = Tail(queue[q])] /\ queue[q] # <<>>
  BY DEF Receive
<1>2. /\ queue[q] \in Seq(Content(q)) /\ Len(queue[q]) \in Nat \ {0} /\ DOMAIN queue = Queues
      /\ Len(queue[q]) <= Capacity[q]
  BY <1>1, EmptySeq DEF QueuesOK, Size
<1>3. /\ Head(queue[q]) \in Content(q) /\ Tail(queue[q]) \in Seq(Content(q))
      /\ Len(Tail(queue[q])) = Len(queue[q]) - 1
  BY <1>1, <1>2, HeadTailProperties
<1>4. /\ DOMAIN queue' = Queues /\ queue'[q] = Tail(queue[q])
      /\ \A p \in Queues \ {q} : queue'[p] = queue[p]
      /\ queue' = [p \in Queues |-> queue'[p]]
  BY <1>1, <1>2
<1>5. \A p : Content(p)' = Content(p)
  BY DEF Content, SameUse
<1>6. Len(queue'[q]) <= Capacity[q]
  BY <1>2, <1>3, <1>4, CapacityIs, SMT
<1> QED
  BY <1>2, <1>3, <1>4, <1>5, <1>6 DEF QueuesOK, Received, Size

(* What a thread that does not touch the player may do to Joined.          *)
LEMMA JoinedKept ==
  ASSUME Joined, UNCHANGED <<at, stop, internalState, audioExist>>,
         Ended(reader) => Ended(reader)', Ended(decoder) => Ended(decoder)',
         Ended(video) => Ended(video)', mixing' => mixing
  PROVE  Joined'
<1>1. StopSteps' = StopSteps
  BY DEF StopSteps, VideoJunk, Do
<1>2. ASSUME at = "stopping" PROVE EndedFor(stop)'
  BY <1>2 DEF Joined, EndedFor
<1>3. QuietWhenFreed'
  BY Zenon DEF Joined, QuietWhenFreed
<1>4. at' = at /\ stop' = stop /\ internalState' = internalState
  OBVIOUS
<1>5. ~audioExist' => Ended(decoder)' /\ ~mixing'
  BY Zenon DEF Joined
<1> QED
  BY <1>1, <1>2, <1>3, <1>4, <1>5, Zenon DEF Joined

LEMMA PlayerKept ==
  ASSUME PlayerOK, FlagsOK, UNCHANGED <<player, mixer, cancelled>>, videoDecodeCount' \in Int
  PROVE  PlayerOK' /\ FlagsOK' /\ UNCHANGED <<at, internalState, audioExist, mixing>>
<1>1. PlayerOK' /\ UNCHANGED <<at, internalState>>
  BY SMT DEF PlayerOK, player, mixer
<1>2. FlagsOK' /\ UNCHANGED <<audioExist, mixing>>
  BY Zenon DEF FlagsOK, player, mixer
<1> QED
  BY <1>1, <1>2

(* Flow, part by part.                                                     *)
Moving == at \in {"waiting", "open"} /\ cancelled = {}
LEMMA FlowKept ==
  ASSUME Flow, UNCHANGED <<at, cancelled, audioExist>>,
         Moving /\ ReadKept => ReadKept', Moving /\ TexturesKept => TexturesKept',
         Moving /\ audioExist /\ SoundKept /\ Heard => SoundKept' /\ Heard'
  PROVE  Flow'
  BY Zenon DEF Flow, Conserved, Moving

(* The places in the threads that count.                                   *)
LEMMA HoldsIs ==
  ASSUME NEW t, NEW pcs
  PROVE  Holds(t, pcs) \in {0, 1} /\ (t.pc \in pcs => Holds(t, pcs) = 1)
         /\ (t.pc \notin pcs => Holds(t, pcs) = 0)
  BY DEF Holds
-----------------------------------------------------------------------------
LEMMA ReaderStep == ASSUME IInv, Reader PROVE IInv'
<1>1. QueuesOK /\ ThreadsOK /\ PlayerOK /\ FlagsOK /\ Flow /\ Joined
  BY DEF IInv
<1>2. PlayerOK' /\ FlagsOK' /\ UNCHANGED <<at, internalState, audioExist, mixing>>
  <2>1. UNCHANGED <<player, mixer, counts, stopping>>
    BY Zenon DEF Reader, PopsFreeReadBuffer, ReadFails, ReadsAndPushes, ReaderStays
  <2> QED
    BY <1>1, <2>1, PlayerKept DEF counts, stopping, PlayerOK
<1>3. UNCHANGED <<decoder, video, stop, cancelled, curAudioNumber, dispTextureSet>>
  BY Zenon DEF Reader, PopsFreeReadBuffer, ReadFails, ReadsAndPushes, ReaderStays,
               stopping, player, mixer
<1>4. Shown' = Shown /\ Played' = Played
  <2>1. UNCHANGED <<dispTextureSet, playAudioBuffer>>
    BY Zenon DEF Reader, PopsFreeReadBuffer, ReadFails, ReadsAndPushes, ReaderStays, player, mixer
  <2> QED
    BY <2>1, Zenon DEF Shown, Played
<1>5. /\ \A q \in Queues : Size(q) \in Nat
      /\ Shown \in Nat /\ Played \in Nat /\ curAudioNumber \in Nat /\ reader.frame \in 0..Last
      /\ Last \in Nat /\ Last + 1 = Frames
  BY <1>1, SizeIsNat, MovieAssumption, SMT DEF Last, Shown, Played, PlayerOK, ThreadsOK
<1>7. CASE PopsFreeReadBuffer
  <2>1. /\ QueuesOK' /\ Received("freeRead") \in Content("freeRead")
        /\ Size("freeRead")' = Size("freeRead") - 1
        /\ \A p \in Queues \ {"freeRead"} : Size(p)' = Size(p)
    BY <1>1, <1>2, <1>7, ReceiveEffect DEF SameUse, PopsFreeReadBuffer, Queues
  <2>2. /\ reader.pc = "pop" /\ reader'.pc \in {"read", "ended"} /\ reader'.frame = reader.frame
        /\ reader'.pc = "ended" <=> Received("freeRead") = Junk
    BY <1>1, <1>7 DEF PopsFreeReadBuffer, ThreadsOK
  <2>3. ThreadsOK'
    BY <1>1, <1>3, <1>7, <2>2 DEF PopsFreeReadBuffer, ThreadsOK
  <2>4. Joined'
    BY <1>1, <1>2, <1>3, <2>2, JoinedKept DEF Ended
  <2>5. Flow'
    <3>1. ASSUME Moving PROVE reader'.pc = "read"
      BY <1>5, <2>1, <2>2, <3>1, SMT DEF Content, Junk, Moving
    <3>2. /\ Holds(reader, {"read", "kept"}) = 0 /\ Holds(reader, {"ended"}) = 0
          /\ Moving => Holds(reader, {"read", "kept"})' = 1 /\ Holds(reader, {"ended"})' = 0
      BY <2>2, <3>1 DEF Holds
    <3>3. Moving /\ ReadKept => ReadKept'
      BY <1>3, <1>5, <2>1, <3>2, SMT DEF ReadKept, Queues, Holds
    <3>4. TexturesKept => TexturesKept'
      BY <1>3, <1>4, <1>5, <2>1, SMT DEF TexturesKept, Queues, Holds
    <3>5. Moving /\ SoundKept /\ Heard => SoundKept' /\ Heard'
      BY <1>3, <1>4, <1>5, <2>1, <2>2, <3>2, SMT DEF SoundKept, Heard, Queues, Holds
    <3> QED
      BY <1>1, <1>2, <1>3, <3>3, <3>4, <3>5, FlowKept
  <2> QED
    BY <1>2, <2>1, <2>3, <2>4, <2>5 DEF IInv
<1>8. CASE ReadFails
  <2>1. QueuesOK' /\ \A p \in Queues \ {"ready"} : Size(p)' = Size(p)
    <3>1. FALSE \in Content("ready") /\ "ready" \in Queues
      BY DEF Content, Queues
    <3>2. CASE Send("ready", FALSE)
      BY <1>1, <1>2, <3>1, <3>2, SendEffect, Zenon DEF SameUse
    <3>3. CASE UNCHANGED queue
      BY <1>1, <1>2, <3>3, SameQueues, Zenon DEF SameUse
    <3> QED
      BY <1>8, <3>2, <3>3 DEF ReadFails
  <2>2. reader.pc = "read" /\ reader'.pc = "kept" /\ reader'.frame = reader.frame
    BY <1>1, <1>8 DEF ReadFails, ThreadsOK
  <2>3. ThreadsOK'
    BY <1>1, <1>3, <1>8 DEF ReadFails, ThreadsOK
  <2>4. Joined'
    BY <1>1, <1>2, <1>3, <2>2, JoinedKept DEF Ended
  <2>5. Flow'
    <3>1. ReadKept => ReadKept'
      BY <1>3, <1>5, <2>1, <2>2, SMT DEF ReadKept, Queues, Holds
    <3>2. TexturesKept => TexturesKept'
      BY <1>3, <1>4, <1>5, <2>1, SMT DEF TexturesKept, Queues, Holds
    <3>3. SoundKept /\ Heard => SoundKept' /\ Heard'
      BY <1>3, <1>4, <1>5, <2>1, <2>2, SMT DEF SoundKept, Heard, Queues, Holds
    <3> QED
      BY <1>1, <1>2, <1>3, <3>1, <3>2, <3>3, FlowKept
  <2> QED
    BY <1>2, <2>1, <2>3, <2>4, <2>5 DEF IInv
<1>9. CASE ReadsAndPushes
  <2>1. reader.frame \in 0..Last /\ reader.frame \in Content("readed") /\ "readed" \in Queues
    BY <1>1, <1>5, SMT DEF ThreadsOK, Content, Messages, Queues, Last
  <2>2. /\ QueuesOK' /\ Size("readed")' = Size("readed") + 1
        /\ \A p \in Queues \ {"readed"} : Size(p)' = Size(p)
    BY <1>1, <1>2, <1>9, <2>1, SendEffect DEF SameUse, ReadsAndPushes
  <2>3. /\ reader.pc = "read" /\ reader'.pc \in {"pop", "ended"} /\ reader'.late = reader.late
        /\ \/ reader.frame = Last /\ reader'.pc = "ended" /\ reader'.frame = reader.frame
           \/ /\ reader.frame # Last /\ reader'.frame = reader.frame + 1
              /\ Moving => reader'.pc = "pop"
    BY <1>1, <1>9 DEF ReadsAndPushes, ThreadsOK, Again, Moving
  <2>4. ThreadsOK'
    <3>1. reader' = [pc |-> reader'.pc, frame |-> reader'.frame, late |-> reader'.late]
      BY <1>1, <1>9 DEF ReadsAndPushes, ThreadsOK
    <3>2. reader'.frame \in 0..Last
      BY <1>5, <2>1, <2>3, SMT
    <3>3. reader'.late \in BOOLEAN
      BY <1>1, <2>3 DEF ThreadsOK
    <3>4. reader' \in [pc : {"pop", "read", "ended", "kept"}, frame : 0..Last, late : BOOLEAN]
      BY <2>3, <3>1, <3>2, <3>3
    <3> QED
      BY <1>1, <1>3, <3>4 DEF ThreadsOK
  <2>5. Joined'
    BY <1>1, <1>2, <1>3, <2>3, JoinedKept DEF Ended
  <2>6. Flow'
    <3>1. ReadKept => ReadKept'
      BY <1>3, <1>5, <2>2, <2>3, SMT DEF ReadKept, Queues, Holds
    <3>2. TexturesKept => TexturesKept'
      BY <1>3, <1>4, <1>5, <2>2, SMT DEF TexturesKept, Queues, Holds
    <3>3. SoundKept => SoundKept'
      BY <1>3, <1>4, <1>5, <2>2, SMT DEF SoundKept, Queues, Holds
    <3>4. Moving /\ Heard => Heard'
      BY <1>3, <1>5, <2>2, <2>3, SMT DEF Heard, Queues, Holds
    <3> QED
      BY <1>1, <1>2, <1>3, <3>1, <3>2, <3>3, <3>4, FlowKept
  <2> QED
    BY <1>2, <2>2, <2>4, <2>5, <2>6 DEF IInv
<1> QED
  BY <1>7, <1>8, <1>9 DEF Reader
-----------------------------------------------------------------------------
(* A message that is not junk is a frame.                                  *)
LEMMA FrameOf ==
  /\ \A q \in Queues \ {"ready"} : Content(q) \subseteq 0..Last \union {Junk}
  /\ Moving => \A q \in Queues \ {"ready"} : Content(q) = 0..Last
  /\ Last \in Nat /\ Last + 1 = Frames /\ Junk \notin 0..Last /\ Buffer \in 0..Last
  /\ \A q \in Queues \ {"ready"} : 0..Last \subseteq Content(q)
<1>1. Last \in Nat /\ Last + 1 = Frames
  BY MovieAssumption, SMT DEF Last
<1>2. Messages = 0..Last \union {Junk}
  BY DEF Messages, Last
<1>3. Junk \notin 0..Last /\ Buffer \in 0..Last
  BY <1>1, SMT DEF Junk, Buffer
<1> QED
  BY <1>1, <1>2, <1>3 DEF Content, Moving

LEMMA DecoderStep == ASSUME IInv, AudioDecoder PROVE IInv'
<1>1. QueuesOK /\ ThreadsOK /\ PlayerOK /\ FlagsOK /\ Flow /\ Joined
  BY DEF IInv
<1>2. /\ UNCHANGED <<reader, video, counts, errors, mixer, player, stopping>>
      /\ decoder.pc \in {"pop", "take", "put", "give"} /\ decoder'.late = decoder.late
  BY <1>1 DEF AudioDecoder, PopsReadedBuffer, PopsFreeAudioBuffer, PushesDecodedAudioBuffer,
              PushesReadedBuffer2, DecoderGoes, ThreadsOK
<1>3. PlayerOK' /\ FlagsOK' /\ UNCHANGED <<at, internalState, audioExist, mixing>>
  BY <1>1, <1>2, PlayerKept DEF counts, stopping, PlayerOK
<1>4. UNCHANGED <<reader, video, stop, cancelled, curAudioNumber>>
  BY <1>2, Zenon DEF stopping, mixer
<1>5. Shown' = Shown /\ Played' = Played
  BY <1>2, Zenon DEF player, mixer, Shown, Played
<1>6. /\ \A q \in Queues : Size(q) \in Nat
      /\ Shown \in Nat /\ Played \in Nat /\ curAudioNumber \in Nat
      /\ reader.frame \in 0..Last /\ decoder.frame \in 0..Last /\ Last \in Nat
  BY <1>1, SizeIsNat, FrameOf, SMT DEF Shown, Played, PlayerOK, ThreadsOK
<1>7. Joined'
  BY <1>1, <1>2, <1>3, <1>4, JoinedKept DEF Ended
<1>8. CASE PopsReadedBuffer
  <2>1. /\ QueuesOK' /\ Received("readed") \in 0..Last \union {Junk}
        /\ Size("readed")' = Size("readed") - 1
        /\ \A p \in Queues \ {"readed"} : Size(p)' = Size(p)
    BY <1>1, <1>3, <1>8, ReceiveEffect, FrameOf DEF SameUse, PopsReadedBuffer, Queues
  <2>2. /\ decoder.pc = "pop"
        /\ \/ Received("readed") = Junk /\ decoder'.pc = "ended" /\ decoder'.frame = 0
           \/ /\ Received("readed") # Junk
              /\ decoder'.pc = "take" /\ decoder'.frame = Received("readed")
    BY <1>1, <1>8 DEF PopsReadedBuffer, DecoderGoes, ThreadsOK
  <2>3. Moving => decoder'.pc = "take"
    <3>1. Moving => Received("readed") \in Content("readed")
      BY <1>1, <1>3, <1>8, ReceiveEffect DEF SameUse, PopsReadedBuffer, Queues
    <3> QED
      BY <2>2, <3>1, FrameOf DEF Queues
  <2>4. ThreadsOK'
    <3>1. decoder' = [decoder EXCEPT !.pc = decoder'.pc, !.frame = decoder'.frame]
      BY <1>1, <1>8 DEF PopsReadedBuffer, DecoderGoes, ThreadsOK
    <3>2. decoder'.pc \in {"pop", "take", "put", "give", "ended"} /\ decoder'.frame \in 0..Last
      BY <1>6, <2>1, <2>2
    <3> QED
      BY <1>1, <1>4, <3>1, <3>2 DEF ThreadsOK
  <2>5. Moving /\ ReadKept => ReadKept'
    BY <1>4, <1>6, <2>1, <2>2, <2>3, SMT DEF ReadKept, Queues, Holds
  <2>6. TexturesKept => TexturesKept'
    BY <1>4, <1>5, <1>6, <2>1, SMT DEF TexturesKept, Queues, Holds
  <2>7. SoundKept => SoundKept'
    BY <1>4, <1>5, <1>6, <2>1, <2>2, SMT DEF SoundKept, Queues, Holds
  <2>8. Heard => Heard'
    BY <1>4, <1>6, <2>1, <2>2, SMT DEF Heard, Queues, Holds
  <2> QED
    BY <1>1, <1>3, <1>4, <1>7, <2>1, <2>4, <2>5, <2>6, <2>7, <2>8, FlowKept DEF IInv
<1>9. CASE PopsFreeAudioBuffer
  <2>1. /\ QueuesOK' /\ Size("freeAudio")' = Size("freeAudio") - 1
        /\ \A p \in Queues \ {"freeAudio"} : Size(p)' = Size(p)
    BY <1>1, <1>3, <1>9, ReceiveEffect DEF SameUse, PopsFreeAudioBuffer, Queues
  <2>2. /\ decoder.pc = "take" /\ decoder'.pc \in {"put", "give"} /\ decoder'.frame = decoder.frame
        /\ decoder'.pc = "give" <=> Received("freeAudio") = Junk
    BY <1>1, <1>9 DEF PopsFreeAudioBuffer, DecoderGoes, ThreadsOK
  <2>3. Moving => decoder'.pc = "put"
    <3>1. Moving => Received("freeAudio") \in Content("freeAudio")
      BY <1>1, <1>3, <1>9, ReceiveEffect DEF SameUse, PopsFreeAudioBuffer, Queues
    <3> QED
      BY <2>2, <3>1, FrameOf DEF Queues
  <2>4. ThreadsOK'
    BY <1>1, <1>4, <1>9, <2>2 DEF PopsFreeAudioBuffer, DecoderGoes, ThreadsOK
  <2>5. ReadKept => ReadKept'
    BY <1>4, <1>6, <2>1, <2>2, SMT DEF ReadKept, Queues, Holds
  <2>6. TexturesKept => TexturesKept'
    BY <1>4, <1>5, <1>6, <2>1, SMT DEF TexturesKept, Queues, Holds
  <2>7. Moving /\ SoundKept => SoundKept'
    BY <1>4, <1>5, <1>6, <2>1, <2>2, <2>3, SMT DEF SoundKept, Queues, Holds
  <2>8. Heard => Heard'
    BY <1>4, <1>6, <2>1, <2>2, SMT DEF Heard, Queues, Holds
  <2> QED
    BY <1>1, <1>3, <1>4, <1>7, <2>1, <2>4, <2>5, <2>6, <2>7, <2>8, FlowKept DEF IInv
<1>10. CASE PushesDecodedAudioBuffer
  <2>1. /\ QueuesOK' /\ Size("decodedAudio")' = Size("decodedAudio") + 1
        /\ \A p \in Queues \ {"decodedAudio"} : Size(p)' = Size(p)
    <3>1. decoder.frame \in Content("decodedAudio") /\ "decodedAudio" \in Queues
      BY <1>6, FrameOf DEF Queues
    <3> QED
      BY <1>1, <1>3, <1>10, <3>1, SendEffect DEF SameUse, PushesDecodedAudioBuffer
  <2>2. decoder.pc = "put" /\ decoder'.pc = "give" /\ decoder'.frame = decoder.frame
    BY <1>1, <1>10 DEF PushesDecodedAudioBuffer, DecoderGoes, ThreadsOK
  <2>3. ThreadsOK'
    BY <1>1, <1>4, <1>10 DEF PushesDecodedAudioBuffer, DecoderGoes, ThreadsOK
  <2>4. ReadKept => ReadKept'
    BY <1>4, <1>6, <2>1, <2>2, SMT DEF ReadKept, Queues, Holds
  <2>5. TexturesKept => TexturesKept'
    BY <1>4, <1>5, <1>6, <2>1, SMT DEF TexturesKept, Queues, Holds
  <2>6. SoundKept => SoundKept'
    BY <1>4, <1>5, <1>6, <2>1, <2>2, SMT DEF SoundKept, Queues, Holds
  <2>7. Heard => Heard'
    BY <1>4, <1>6, <2>1, <2>2, SMT DEF Heard, Queues, Holds
  <2> QED
    BY <1>1, <1>3, <1>4, <1>7, <2>1, <2>3, <2>4, <2>5, <2>6, <2>7, FlowKept DEF IInv
<1>11. CASE PushesReadedBuffer2
  <2>1. /\ QueuesOK' /\ Size("readed2")' = Size("readed2") + 1
        /\ \A p \in Queues \ {"readed2"} : Size(p)' = Size(p)
    <3>1. decoder.frame \in Content("readed2") /\ "readed2" \in Queues
      BY <1>6, FrameOf DEF Queues
    <3> QED
      BY <1>1, <1>3, <1>11, <3>1, SendEffect DEF SameUse, PushesReadedBuffer2
  <2>2. decoder.pc = "give" /\ decoder'.pc \in {"pop", "ended"} /\ decoder'.frame = 0
    BY <1>1, <1>11 DEF PushesReadedBuffer2, DecoderGoes, ThreadsOK, Again
  <2>3. ThreadsOK'
    <3>1. 0 \in 0..Last
      BY <1>6, SMT
    <3> QED
      BY <1>1, <1>4, <1>11, <2>2, <3>1 DEF PushesReadedBuffer2, DecoderGoes, ThreadsOK, Again
  <2>4. ReadKept => ReadKept'
    BY <1>4, <1>6, <2>1, <2>2, SMT DEF ReadKept, Queues, Holds
  <2>5. TexturesKept => TexturesKept'
    BY <1>4, <1>5, <1>6, <2>1, SMT DEF TexturesKept, Queues, Holds
  <2>6. SoundKept => SoundKept'
    BY <1>4, <1>5, <1>6, <2>1, <2>2, SMT DEF SoundKept, Queues, Holds
  <2>7. Heard => Heard'
    BY <1>4, <1>6, <2>1, <2>2, SMT DEF Heard, Queues, Holds
  <2> QED
    BY <1>1, <1>3, <1>4, <1>7, <2>1, <2>3, <2>4, <2>5, <2>6, <2>7, FlowKept DEF IInv
<1> QED
  BY <1>8, <1>9, <1>10, <1>11 DEF AudioDecoder
-----------------------------------------------------------------------------
LEMMA VideoStep == ASSUME IInv, VideoDecoder PROVE IInv'
<1>1. QueuesOK /\ ThreadsOK /\ PlayerOK /\ FlagsOK /\ Flow /\ Joined
  BY DEF IInv
<1>2. UNCHANGED <<reader, decoder, mixer, player, stopping>>
  BY Zenon DEF VideoDecoder, Chooses, Pops, PopsBuffer, PopsFreeTextureSet, DecodeFails,
               DecodesAndPushes, CountsFrame, PushesFreeReadBuffer, CountsLate, VideoStays
<1>3. PlayerOK' /\ FlagsOK' /\ UNCHANGED <<at, internalState, audioExist, mixing>>
  <2>1. videoDecodeCount' \in {videoDecodeCount, videoDecodeCount + 1}
    BY DEF VideoDecoder, Chooses, Pops, PopsBuffer, PopsFreeTextureSet, DecodeFails,
           DecodesAndPushes, CountsFrame, PushesFreeReadBuffer, CountsLate, counts
  <2>2. videoDecodeCount' \in Int
    BY <1>1, <2>1, SMT DEF PlayerOK
  <2> QED
    BY <1>1, <1>2, <2>2, PlayerKept DEF stopping
<1>4. UNCHANGED <<reader, decoder, stop, cancelled, curAudioNumber>>
  BY <1>2, Zenon DEF stopping, mixer
<1>5. Shown' = Shown /\ Played' = Played
  BY <1>2, Zenon DEF player, mixer, Shown, Played
<1>6. /\ \A q \in Queues : Size(q) \in Nat
      /\ Shown \in Nat /\ Played \in Nat /\ curAudioNumber \in Nat
      /\ reader.frame \in 0..Last /\ video.frame \in 0..Last /\ Last \in Nat
  BY <1>1, SizeIsNat, FrameOf, SMT DEF Shown, Played, PlayerOK, ThreadsOK
<1>7. ~Ended(video)
  BY DEF VideoDecoder, Chooses, Pops, PopsBuffer, PopsFreeTextureSet, DecodeFails,
         DecodesAndPushes, CountsFrame, PushesFreeReadBuffer, CountsLate, VideoGoes, Ended
<1>8. Joined'
  BY <1>1, <1>3, <1>4, <1>7, JoinedKept DEF Ended
(* A step that only moves the thread on.                                   *)
<1>9. ASSUME NEW from \in Pcs, NEW to \in Pcs \ {"kept"}, VideoGoes(from, to)
      PROVE  ThreadsOK' /\ video.pc = from /\ video'.pc = to
  BY <1>1, <1>4, <1>9 DEF VideoGoes, ThreadsOK
<1>10. CASE Chooses \/ CountsLate
  <2>1. UNCHANGED queue
    BY <1>10 DEF Chooses, CountsLate
  <2>2. QueuesOK' /\ \A q \in Queues : Size(q)' = Size(q)
    BY <1>1, <1>3, <2>1, SameQueues DEF SameUse
  <2>3. ThreadsOK' /\ video.pc \in {"next", "countLate"} /\ video'.pc \in {"skip", "pop", "next"}
    BY <1>9, <1>10 DEF Chooses, CountsLate, Pcs
  <2>4. ReadKept => ReadKept'
    BY <1>4, <1>6, <2>2, <2>3, SMT DEF ReadKept, Queues, Holds
  <2>5. TexturesKept => TexturesKept'
    BY <1>5, <1>6, <2>2, <2>3, SMT DEF TexturesKept, Queues, Holds
  <2>6. SoundKept => SoundKept'
    BY <1>4, <1>5, <1>6, <2>2, SMT DEF SoundKept, Queues, Holds
  <2>7. Heard => Heard'
    BY <1>4, <1>6, <2>2, SMT DEF Heard, Queues, Holds
  <2> QED
    BY <1>1, <1>3, <1>4, <1>8, <2>2, <2>3, <2>4, <2>5, <2>6, <2>7, FlowKept DEF IInv
<1>11. ASSUME NEW from \in {"skip", "pop"}, NEW q \in {"readed", "readed2"}, PopsBuffer(from, q)
       PROVE  IInv'
  <2>1. /\ QueuesOK' /\ Received(q) \in Content(q) /\ Size(q)' = Size(q) - 1
        /\ \A p \in Queues \ {q} : Size(p)' = Size(p)
    BY <1>1, <1>3, <1>11, ReceiveEffect DEF SameUse, PopsBuffer, Queues
  <2>2. /\ Received(q) \in 0..Last \union {Junk}
        /\ Moving => Received(q) # Junk
    BY <2>1, FrameOf DEF Queues
  <2>3. /\ video.pc = from /\ video'.pc \in {"ended", "free", "texture"}
        /\ video'.pc = "ended" <=> Received(q) = Junk
        /\ video' = [pc |-> video'.pc, frame |-> IF Received(q) = Junk THEN 0 ELSE Received(q),
                     late |-> from = "skip"]
    BY <1>11 DEF PopsBuffer
  <2>4. ThreadsOK'
    <3>1. (IF Received(q) = Junk THEN 0 ELSE Received(q)) \in 0..Last
      BY <1>6, <2>2, SMT
    <3>2. video' \in [pc : Pcs \ {"kept"}, frame : 0..Last, late : BOOLEAN]
      <4> DEFINE late == from = "skip"
      <4>1. late \in BOOLEAN /\ video'.pc \in Pcs \ {"kept"}
        BY <2>3 DEF Pcs
      <4>2. video' = [pc |-> video'.pc,
                      frame |-> IF Received(q) = Junk THEN 0 ELSE Received(q), late |-> late]
        BY <2>3, Zenon
      <4> HIDE DEF late
      <4> QED
        BY <3>1, <4>1, <4>2
    <3> QED
      BY <1>1, <1>4, <3>2 DEF ThreadsOK
  <2>5. Moving /\ ReadKept => ReadKept'
    <3>1. Moving => video'.pc \in {"free", "texture"}
      BY <2>2, <2>3
    <3>2. Size("readed")' + Size("readed2")' = Size("readed") + Size("readed2") - 1
          /\ Size("freeRead")' = Size("freeRead")
      BY <1>6, <2>1, SMT DEF Queues
    <3>3. /\ Size("readed")' \in Int /\ Size("readed2")' \in Int /\ Size("readed") \in Int
          /\ Size("readed2") \in Int /\ Size("freeRead") \in Int
      BY <1>6, <2>1, SMT DEF Queues
    <3> QED
      BY <1>4, <2>3, <3>1, <3>2, <3>3, SMT DEF ReadKept, Holds
  <2>6. TexturesKept => TexturesKept'
    BY <1>5, <1>6, <2>1, <2>3, SMT DEF TexturesKept, Queues, Holds
  <2>7. SoundKept => SoundKept'
    BY <1>4, <1>5, <1>6, <2>1, SMT DEF SoundKept, Queues, Holds
  <2>8. Heard => Heard'
    BY <1>4, <1>6, <2>1, SMT DEF Heard, Queues, Holds
  <2> QED
    BY <1>1, <1>3, <1>4, <1>8, <2>1, <2>4, <2>5, <2>6, <2>7, <2>8, FlowKept DEF IInv
<1>12. CASE PopsFreeTextureSet
  <2>1. /\ QueuesOK' /\ Received("freeTexture") \in Content("freeTexture")
        /\ Size("freeTexture")' = Size("freeTexture") - 1
        /\ \A p \in Queues \ {"freeTexture"} : Size(p)' = Size(p)
    BY <1>1, <1>3, <1>12, ReceiveEffect DEF SameUse, PopsFreeTextureSet, Queues
  <2>2. /\ ThreadsOK' /\ video.pc = "texture" /\ video'.pc \in {"free", "decode"}
        /\ Moving => video'.pc = "decode"
    <3>1. Moving => Received("freeTexture") # Junk
      BY <2>1, FrameOf DEF Queues
    <3> QED
      BY <1>9, <1>12, <3>1 DEF PopsFreeTextureSet, Pcs
  <2>3. ReadKept => ReadKept'
    BY <1>4, <1>6, <2>1, <2>2, SMT DEF ReadKept, Queues, Holds
  <2>4. Moving /\ TexturesKept => TexturesKept'
    BY <1>5, <1>6, <2>1, <2>2, SMT DEF TexturesKept, Queues, Holds
  <2>5. SoundKept => SoundKept'
    BY <1>4, <1>5, <1>6, <2>1, SMT DEF SoundKept, Queues, Holds
  <2>6. Heard => Heard'
    BY <1>4, <1>6, <2>1, SMT DEF Heard, Queues, Holds
  <2> QED
    BY <1>1, <1>3, <1>4, <1>8, <2>1, <2>2, <2>3, <2>4, <2>5, <2>6, FlowKept DEF IInv
<1>13. CASE DecodeFails \/ CountsFrame
  <2>1. QueuesOK' /\ \A q \in Queues \ {"ready"} : Size(q)' = Size(q)
    <3>1. FALSE \in Content("ready") /\ TRUE \in Content("ready") /\ "ready" \in Queues
      BY DEF Content, Queues
    <3>2. ASSUME NEW told \in BOOLEAN, Send("ready", told)
          PROVE  QueuesOK' /\ \A q \in Queues \ {"ready"} : Size(q)' = Size(q)
      <4>1. told \in Content("ready")
        BY DEF Content
      <4> QED
        BY <1>1, <1>3, <3>1, <3>2, <4>1, SendEffect, Zenon DEF SameUse
    <3>3. CASE UNCHANGED queue
      BY <1>1, <1>3, <3>3, SameQueues, Zenon DEF SameUse
    <3>4. Send("ready", FALSE) \/ Send("ready", TRUE) \/ UNCHANGED queue
      BY <1>13, Zenon DEF DecodeFails, CountsFrame
    <3> QED
      BY <3>2, <3>3, <3>4
  <2>2. /\ ThreadsOK'
        /\ \/ video.pc = "decode" /\ video'.pc = "suspended"
           \/ video.pc = "count" /\ video'.pc = "free"
    BY <1>9, <1>13 DEF DecodeFails, CountsFrame, Pcs
  <2>3. ReadKept => ReadKept'
    BY <1>4, <1>6, <2>1, <2>2, SMT DEF ReadKept, Queues, Holds
  <2>4. TexturesKept => TexturesKept'
    BY <1>5, <1>6, <2>1, <2>2, SMT DEF TexturesKept, Queues, Holds
  <2>5. SoundKept => SoundKept'
    BY <1>4, <1>5, <1>6, <2>1, SMT DEF SoundKept, Queues, Holds
  <2>6. Heard => Heard'
    BY <1>4, <1>6, <2>1, SMT DEF Heard, Queues, Holds
  <2> QED
    BY <1>1, <1>3, <1>4, <1>8, <2>1, <2>2, <2>3, <2>4, <2>5, <2>6, FlowKept DEF IInv
<1>14. CASE DecodesAndPushes
  <2>1. /\ QueuesOK' /\ Size("decodedTexture")' = Size("decodedTexture") + 1
        /\ \A p \in Queues \ {"decodedTexture"} : Size(p)' = Size(p)
    <3>1. video.frame \in Content("decodedTexture") /\ "decodedTexture" \in Queues
      BY <1>6, FrameOf DEF Queues
    <3> QED
      BY <1>1, <1>3, <1>14, <3>1, SendEffect DEF SameUse, DecodesAndPushes
  <2>2. ThreadsOK' /\ video.pc = "decode" /\ video'.pc = "count"
    BY <1>9, <1>14 DEF DecodesAndPushes, Pcs
  <2>3. ReadKept => ReadKept'
    BY <1>4, <1>6, <2>1, <2>2, SMT DEF ReadKept, Queues, Holds
  <2>4. TexturesKept => TexturesKept'
    BY <1>5, <1>6, <2>1, <2>2, SMT DEF TexturesKept, Queues, Holds
  <2>5. SoundKept => SoundKept'
    BY <1>4, <1>5, <1>6, <2>1, SMT DEF SoundKept, Queues, Holds
  <2>6. Heard => Heard'
    BY <1>4, <1>6, <2>1, SMT DEF Heard, Queues, Holds
  <2> QED
    BY <1>1, <1>3, <1>4, <1>8, <2>1, <2>2, <2>3, <2>4, <2>5, <2>6, FlowKept DEF IInv
<1>15. CASE PushesFreeReadBuffer
  <2>1. /\ QueuesOK' /\ Size("freeRead")' = Size("freeRead") + 1
        /\ \A p \in Queues \ {"freeRead"} : Size(p)' = Size(p)
    <3>1. Buffer \in Content("freeRead") /\ "freeRead" \in Queues
      BY FrameOf DEF Queues
    <3> QED
      BY <1>1, <1>3, <1>15, <3>1, SendEffect DEF SameUse, PushesFreeReadBuffer, GivesBack
  <2>2. ThreadsOK' /\ video.pc = "free" /\ video'.pc \in {"countLate", "next", "ended"}
    BY <1>9, <1>15 DEF PushesFreeReadBuffer, Again, Pcs
  <2>3. ReadKept => ReadKept'
    BY <1>4, <1>6, <2>1, <2>2, SMT DEF ReadKept, Queues, Holds
  <2>4. TexturesKept => TexturesKept'
    BY <1>5, <1>6, <2>1, <2>2, SMT DEF TexturesKept, Queues, Holds
  <2>5. SoundKept => SoundKept'
    BY <1>4, <1>5, <1>6, <2>1, SMT DEF SoundKept, Queues, Holds
  <2>6. Heard => Heard'
    BY <1>4, <1>6, <2>1, SMT DEF Heard, Queues, Holds
  <2> QED
    BY <1>1, <1>3, <1>4, <1>8, <2>1, <2>2, <2>3, <2>4, <2>5, <2>6, FlowKept DEF IInv
<1>16. Pops => IInv'
  <2>1. Pops => \E from \in {"skip", "pop"}, q \in {"readed", "readed2"} : PopsBuffer(from, q)
    BY DEF Pops
  <2> QED
    BY <1>11, <2>1
<1> QED
  BY <1>10, <1>12, <1>13, <1>14, <1>15, <1>16 DEF VideoDecoder
-----------------------------------------------------------------------------
LEMMA MixStep == ASSUME IInv, MixAudio PROVE IInv'
<1>1. QueuesOK /\ ThreadsOK /\ PlayerOK /\ FlagsOK /\ Flow /\ Joined
  BY DEF IInv
<1>2. UNCHANGED <<threads, counts, errors, player, stopping>>
  BY Zenon DEF MixAudio, MixBegins, PopsDecodedAudioBuffer, PushesFreeAudioBuffer, MixEnds, MixStays
<1>3. /\ UNCHANGED <<reader, decoder, video, stop, cancelled, videoDecodeCount>>
      /\ UNCHANGED <<at, internalState, audioExist, state, retaceCount, curVideoNumber>>
      /\ UNCHANGED dispTextureSet
  BY <1>2, Zenon DEF threads, counts, player, stopping
<1>4. ThreadsOK' /\ (curAudioNumber' \in Nat => PlayerOK')
  BY <1>1, <1>3 DEF ThreadsOK, PlayerOK
<1>5. /\ \A q \in Queues : Size(q) \in Nat /\ Size(q) <= Capacity[q]
      /\ Shown \in Nat /\ Played \in Nat /\ curAudioNumber \in Nat
      /\ reader.frame \in 0..Last /\ Last \in Nat /\ Last + 1 = Frames
  BY <1>1, SizeIsNat, FrameOf, SMT DEF Shown, Played, PlayerOK, ThreadsOK
<1>6. Shown' = Shown
  BY <1>3, Zenon DEF Shown
<1>7. CASE MixBegins \/ MixEnds
  <2>1. UNCHANGED <<queue, playAudioBuffer, curAudioNumber>> /\ mixing' \in BOOLEAN
    BY <1>7, Zenon DEF MixBegins, MixEnds
  <2>2. QueuesOK' /\ PlayerOK' /\ FlagsOK'
    <3>1. FlagsOK'
      BY <1>1, <1>3, <2>1, Zenon DEF FlagsOK
    <3> QED
      BY <1>1, <1>3, <1>4, <1>5, <2>1, <3>1, SameQueues DEF SameUse
  <2>3. Flow'
    <3>1. ReadKept => ReadKept'
      BY <1>3, <2>1 DEF ReadKept, Size, Holds
    <3>2. TexturesKept => TexturesKept'
      BY <1>3, <2>1, Zenon DEF TexturesKept, Size, Holds, Shown
    <3>3. SoundKept /\ Heard => SoundKept' /\ Heard'
      BY <1>3, <2>1, Zenon DEF SoundKept, Heard, Size, Holds, Played
    <3> QED
      BY <1>1, <1>3, <3>1, <3>2, <3>3, FlowKept
  <2>4. Joined'
    <3>1. CASE MixEnds
      BY <1>1, <1>3, <3>1, JoinedKept, Zenon DEF MixEnds, Ended
    <3>2. CASE MixBegins
      <4>1. internalState = 2 /\ at \in {"open", "stopping"} /\ audioExist
        BY <3>2 DEF MixBegins
      <4>2. at = "open" /\ stop = 0
        BY <1>1, <4>1 DEF Joined
      <4>3. at' = "open" /\ stop' = 0 /\ audioExist'
        BY <1>3, <4>1, <4>2
      <4> QED
        BY <4>3 DEF Joined, QuietWhenFreed
    <3> QED
      BY <1>7, <3>1, <3>2
  <2> QED
    BY <1>4, <2>2, <2>3, <2>4 DEF IInv
<1>8. CASE PopsDecodedAudioBuffer
  <2>1. /\ QueuesOK' /\ Size("decodedAudio")' = Size("decodedAudio") - 1
        /\ Size("decodedAudio") # 0
        /\ \A p \in Queues \ {"decodedAudio"} : Size(p)' = Size(p)
    BY <1>1, <1>3, <1>8, ReceiveEffect DEF SameUse, PopsDecodedAudioBuffer, Queues
  <2>2. curAudioNumber' = curAudioNumber + 1
    BY <1>8 DEF PopsDecodedAudioBuffer
  <2>3. mixing' = mixing /\ ~playAudioBuffer /\ playAudioBuffer'
    BY <1>8, Zenon DEF PopsDecodedAudioBuffer
  <2>4. playAudioBuffer' \in BOOLEAN
    BY <1>8, Zenon DEF PopsDecodedAudioBuffer
  <2>5. PlayerOK' /\ FlagsOK'
    <3>1. FlagsOK'
      BY <1>1, <1>3, <2>3, <2>4, Zenon DEF FlagsOK
    <3> QED
      BY <1>4, <1>5, <2>2, <3>1, SMT
  <2>6. Played = 0 /\ Played' = 1
    BY <2>3, Zenon DEF Played
  <2>7. Flow'
    <3>1. ReadKept => ReadKept'
      BY <1>3, <1>5, <2>1, SMT DEF ReadKept, Queues, Holds
    <3>2. TexturesKept => TexturesKept'
      BY <1>3, <1>5, <1>6, <2>1, SMT DEF TexturesKept, Queues, Holds
    <3>3. Heard => curAudioNumber' <= Frames
      BY <1>5, <2>1, <2>2, SMT DEF Heard, Queues, Holds
    <3>4. SoundKept /\ Heard => SoundKept'
      BY <1>3, <1>5, <2>1, <2>6, <3>3, SMT DEF SoundKept, Queues, Holds
    <3>5. Heard => Heard'
      BY <1>3, <1>5, <2>1, <2>2, SMT DEF Heard, Queues, Holds
    <3> QED
      BY <1>1, <1>3, <3>1, <3>2, <3>4, <3>5, FlowKept
  <2>8. Joined'
    BY <1>1, <1>3, <2>3, JoinedKept, Zenon DEF Ended
  <2> QED
    BY <1>4, <2>1, <2>5, <2>7, <2>8 DEF IInv
<1>9. CASE PushesFreeAudioBuffer
  <2>1. mixing' = mixing /\ playAudioBuffer /\ ~playAudioBuffer' /\ playAudioBuffer' \in BOOLEAN
    BY <1>9, Zenon DEF PushesFreeAudioBuffer
  <2>2. curAudioNumber' = curAudioNumber /\ TrySend("freeAudio", Buffer)
    BY <1>9 DEF PushesFreeAudioBuffer
  <2>3. Played = 1 /\ Played' = 0
    BY <2>1, Zenon DEF Played
  <2>4. PlayerOK' /\ FlagsOK'
    <3>1. FlagsOK'
      BY <1>1, <1>3, <2>1, Zenon DEF FlagsOK
    <3> QED
      BY <1>4, <1>5, <2>2, <3>1
  <2>5. /\ QueuesOK' /\ \A p \in Queues \ {"freeAudio"} : Size(p)' = Size(p)
        /\ \/ Size("freeAudio")' = Size("freeAudio") + 1
           \/ Size("freeAudio")' = Size("freeAudio") /\ Size("freeAudio") >= AudioBuffers
    <3>1. "freeAudio" \in Queues /\ Buffer \in Content("freeAudio")
      BY FrameOf DEF Queues
    <3>2. CASE Send("freeAudio", Buffer)
      BY <1>1, <1>3, <3>1, <3>2, SendEffect DEF SameUse
    <3>3. CASE ~HasRoom("freeAudio") /\ UNCHANGED queue
      <4>1. QueuesOK' /\ \A p \in Queues : Size(p)' = Size(p)
        BY <1>1, <1>3, <3>3, SameQueues DEF SameUse
      <4>2. Size("freeAudio") >= AudioBuffers
        BY <1>5, <3>1, <3>3, CapacityIs, MovieAssumption, SMT DEF HasRoom
      <4> QED
        BY <3>1, <4>1, <4>2
    <3> QED
      BY <2>2, <3>2, <3>3 DEF TrySend
  <2>6. Flow'
    <3>1. ReadKept => ReadKept'
      BY <1>3, <1>5, <2>5, SMT DEF ReadKept, Queues, Holds
    <3>2. TexturesKept => TexturesKept'
      BY <1>3, <1>5, <1>6, <2>5, SMT DEF TexturesKept, Queues, Holds
    <3>3. SoundKept => SoundKept'
      BY <1>3, <1>5, <2>2, <2>3, <2>5, MovieAssumption, SMT DEF SoundKept, Queues, Holds
    <3>4. Heard => Heard'
      BY <1>3, <1>5, <2>2, <2>5, SMT DEF Heard, Queues, Holds
    <3> QED
      BY <1>1, <1>3, <3>1, <3>2, <3>3, <3>4, FlowKept
  <2>7. Joined'
    BY <1>1, <1>3, <2>1, JoinedKept, Zenon DEF Ended
  <2> QED
    BY <1>4, <2>4, <2>5, <2>6, <2>7 DEF IInv
<1> QED
  BY <1>7, <1>8, <1>9 DEF MixAudio
-----------------------------------------------------------------------------
(* Stop, step by step.                                                     *)
LEMMA StepsAre ==
  /\ Len(StopSteps) = IF audioExist THEN 17 ELSE 10
  /\ StopSteps[4] = Do("join", "reader") /\ StopSteps[9] = Do("join", "video")
  /\ audioExist => StopSteps[15] = Do("join", "decoder") /\ StopSteps[16] = Do("quit", "mixer")
<1>1. CASE audioExist
  BY <1>1, SMT DEF StopSteps, VideoJunk
<1>2. CASE ~audioExist
  BY <1>2, SMT DEF StopSteps, VideoJunk
<1> QED
  BY <1>1, <1>2
Kinds == {"junk", "junkWaiting", "discard"}
LEMMA StepsOn ==
  ASSUME NEW i \in 1..Len(StopSteps)
  PROVE  /\ StopSteps[i].do \in Kinds => StopSteps[i].on \in Queues \ {"ready"}
         /\ StopSteps[i].do = "cancel" => StopSteps[i].on \in {"reader", "decoder", "video"}
         /\ StopSteps[i].do = "drain" => i = Len(StopSteps)
<1>1. CASE audioExist
  BY <1>1, SMT DEF StopSteps, VideoJunk, Do, Kinds, Queues
<1>2. CASE ~audioExist
  BY <1>2, SMT DEF StopSteps, VideoJunk, Do, Kinds, Queues
<1> QED
  BY <1>1, <1>2

(* What the game thread leaves alone: the threads and the mixer.           *)
LEMMA GameKeeps ==
  ASSUME IInv, GameStays
  PROVE  /\ ThreadsOK' /\ UNCHANGED <<reader, decoder, video, curAudioNumber, videoDecodeCount>>
         /\ UNCHANGED mixing /\ Played' = Played
         /\ mixing \in BOOLEAN /\ playAudioBuffer' \in BOOLEAN
<1>1. UNCHANGED <<reader, decoder, video, curAudioNumber, videoDecodeCount>>
  BY Zenon DEF GameStays, threads, mixer, counts
<1>2. UNCHANGED <<mixing, playAudioBuffer>> /\ Played' = Played
  BY Zenon DEF GameStays, mixer, Played
<1>3. mixing \in BOOLEAN /\ playAudioBuffer' \in BOOLEAN
  BY <1>2, Zenon DEF IInv, FlagsOK
<1> QED
  BY <1>1, <1>2, <1>3 DEF IInv, ThreadsOK

(* Play, Pause and an error change only what the game sees.                *)
LEMMA PlayStep ==
  ASSUME IInv, Play \/ Pause \/ PlayFails
  PROVE  IInv'
<1>1. QueuesOK /\ ThreadsOK /\ PlayerOK /\ FlagsOK /\ Flow /\ Joined
  BY DEF IInv
<1>2. GameStays /\ UNCHANGED <<queue, at, curVideoNumber, dispTextureSet, stopping>> /\ at = "open"
      /\ state' \in {2, 4, 5} /\ internalState' \in {internalState, 4, 5}
      /\ retaceCount' \in {-1, retaceCount}
  BY DEF Play, Pause, PlayFails
<1>3. UNCHANGED audioExist /\ UNCHANGED <<stop, cancelled>>
  BY Zenon DEF Play, Pause, PlayFails, stopping
<1>4. /\ ThreadsOK' /\ UNCHANGED <<reader, decoder, video, curAudioNumber, videoDecodeCount>>
      /\ UNCHANGED mixing /\ Played' = Played
      /\ mixing \in BOOLEAN /\ playAudioBuffer' \in BOOLEAN
  BY <1>2, GameKeeps
<1>5. QueuesOK'
  BY <1>1, <1>2, SameQueues DEF SameUse
<1>6. PlayerOK'
  BY <1>1, <1>2, <1>3, <1>4, SMT DEF PlayerOK
<1>7. FlagsOK'
  BY <1>1, <1>3, <1>4, Zenon DEF FlagsOK
<1>8. Flow'
  <2>1. ReadKept => ReadKept'
    BY <1>2, <1>4 DEF ReadKept, Size, Holds
  <2>2. TexturesKept => TexturesKept'
    BY <1>2, <1>4, Zenon DEF TexturesKept, Size, Holds, Shown
  <2>3. SoundKept /\ Heard => SoundKept' /\ Heard'
    BY <1>2, <1>4, Zenon DEF SoundKept, Heard, Size, Holds
  <2> QED
    BY <1>1, <1>2, <1>3, <2>1, <2>2, <2>3, FlowKept
<1>9. Joined'
  <2>1. at' = "open" /\ stop' = 0
    BY <1>1, <1>2, <1>3 DEF Joined
  <2>2. ~audioExist' => Ended(decoder)' /\ ~mixing'
    BY <1>1, <1>3, <1>4, Zenon DEF Joined, Ended
  <2> QED
    BY <2>1, <2>2 DEF Joined, QuietWhenFreed
<1> QED
  BY <1>4, <1>5, <1>6, <1>7, <1>8, <1>9 DEF IInv

LEMMA WaitStep == ASSUME IInv, WaitUntilPrepare PROVE IInv'
<1>1. QueuesOK /\ ThreadsOK /\ PlayerOK /\ FlagsOK /\ Flow /\ Joined
  BY DEF IInv
<1>2. GameStays /\ UNCHANGED <<internalState, retaceCount, curVideoNumber, dispTextureSet>>
      /\ at = "waiting" /\ at' \in {"open", "failed"} /\ state' \in {1, state}
      /\ Receive("ready")
  BY DEF WaitUntilPrepare
<1>3. UNCHANGED audioExist /\ UNCHANGED <<stop, cancelled>>
  BY Zenon DEF WaitUntilPrepare, stopping
<1>4. /\ ThreadsOK' /\ UNCHANGED <<reader, decoder, video, curAudioNumber, videoDecodeCount>>
      /\ UNCHANGED mixing /\ Played' = Played
      /\ mixing \in BOOLEAN /\ playAudioBuffer' \in BOOLEAN
  BY <1>2, GameKeeps
<1>5. QueuesOK' /\ \A q \in Queues \ {"ready"} : Size(q)' = Size(q)
  BY <1>1, <1>2, ReceiveEffect DEF SameUse, Queues
<1>6. PlayerOK'
  BY <1>1, <1>2, <1>3, <1>4, SMT DEF PlayerOK
<1>7. FlagsOK'
  BY <1>1, <1>3, <1>4, Zenon DEF FlagsOK
<1>8. Shown' = Shown
  BY <1>2, Zenon DEF Shown
<1>9. /\ \A q \in Queues : Size(q) \in Nat
      /\ Shown \in Nat /\ Played \in Nat /\ curAudioNumber \in Nat /\ reader.frame \in 0..Last
      /\ Last \in Nat
  BY <1>1, SizeIsNat, FrameOf, SMT DEF Shown, Played, PlayerOK, ThreadsOK
<1>10. Flow'
  <2>1. ReadKept => ReadKept'
    BY <1>4, <1>5, <1>9, SMT DEF ReadKept, Queues, Holds
  <2>2. TexturesKept => TexturesKept'
    BY <1>4, <1>5, <1>8, <1>9, SMT DEF TexturesKept, Queues, Holds
  <2>3. SoundKept => SoundKept'
    BY <1>4, <1>5, <1>9, SMT DEF SoundKept, Queues, Holds
  <2>4. Heard => Heard'
    BY <1>4, <1>5, <1>9, SMT DEF Heard, Queues, Holds
  <2>5. cancelled = {} /\ Conserved /\ (audioExist => Heard)
    BY <1>1, <1>2 DEF Flow
  <2> QED
    BY <1>3, <2>1, <2>2, <2>3, <2>4, <2>5, Zenon DEF Flow, Conserved
<1>11. Joined'
  <2>1. at' \in {"open", "failed"} /\ stop' = 0
    BY <1>1, <1>2, <1>3 DEF Joined
  <2>2. ~audioExist' => Ended(decoder)' /\ ~mixing'
    BY <1>1, <1>3, <1>4, Zenon DEF Joined, Ended
  <2> QED
    BY <2>1, <2>2 DEF Joined, QuietWhenFreed
<1> QED
  BY <1>4, <1>5, <1>6, <1>7, <1>10, <1>11 DEF IInv

LEMMA StopBeginsStep == ASSUME IInv, StopBegins PROVE IInv'
<1>1. QueuesOK /\ ThreadsOK /\ PlayerOK /\ FlagsOK /\ Flow /\ Joined
  BY DEF IInv
<1>2. /\ at = "open" /\ at' = "stopping" /\ state' = 0 /\ internalState' = 0 /\ stop' = 1
      /\ retaceCount' = 0 /\ curVideoNumber' = 0 /\ dispTextureSet' = Nothing
      /\ UNCHANGED <<queue, cancelled, videoDecodeCount>>
  BY DEF StopBegins
<1>3. UNCHANGED <<reader, decoder, video, curAudioNumber>>
  BY Zenon DEF StopBegins, threads, mixer
<1>4. UNCHANGED <<mixing, playAudioBuffer, audioExist>>
  BY Zenon DEF StopBegins, mixer
<1>5. QueuesOK'
  <2>1. ASSUME NEW q \in Queues PROVE queue[q] \in Seq(Content(q)')
    <3>1. Content(q) \subseteq Content(q)'
      BY <1>2, FrameOf DEF Content, Messages, Last
    <3>2. queue[q] \in Seq(Content(q))
      BY <1>1 DEF QueuesOK
    <3> QED
      BY <3>1, <3>2, SeqMonotonic
  <2> QED
    BY <1>1, <1>2, <2>1 DEF QueuesOK, Size
<1>6. ThreadsOK'
  BY <1>1, <1>3 DEF ThreadsOK
<1>7. PlayerOK'
  BY <1>1, <1>2, <1>3, SMT DEF PlayerOK, Nothing
<1>8. FlagsOK'
  BY <1>1, <1>4, Zenon DEF FlagsOK
<1>9. Flow'
  BY <1>2 DEF Flow
<1>10. Joined'
  <2>1. (1 \in 1..Len(StopSteps))'
    <3>1. 1 \in 1..Len(StopSteps)
      BY StepsAre, SMT
    <3> QED
      BY <1>4, <3>1, Zenon DEF StopSteps
  <2>2. (stop \in 1..Len(StopSteps))'
    BY <1>2, <2>1
  <2>3. EndedFor(stop)'
    BY <1>2, SMT DEF EndedFor
  <2>4. ~audioExist' => Ended(decoder)' /\ ~mixing'
    BY <1>1, <1>3, <1>4, Zenon DEF Joined, Ended
  <2>5. QuietWhenFreed'
    BY <1>2 DEF QuietWhenFreed
  <2> QED
    BY <1>2, <2>2, <2>3, <2>4, <2>5 DEF Joined
<1> QED
  BY <1>5, <1>6, <1>7, <1>8, <1>9, <1>10 DEF IInv

LEMMA FilledIs ==
  ASSUME NEW n \in Nat PROVE Filled(n) \in Seq({Buffer}) /\ Len(Filled(n)) = n
<1>1. Filled(n) \in [1..n -> {Buffer}]
  BY DEF Filled
<1>2. Filled(n) \in Seq({Buffer})
  BY <1>1, SeqDef
<1>3. DOMAIN Filled(n) = 1..n /\ DOMAIN Filled(n) = 1..Len(Filled(n)) /\ Len(Filled(n)) \in Nat
  BY <1>1, <1>2, LenProperties
<1> QED
  BY <1>2, <1>3, SMT

LEMMA PrepareStep == ASSUME IInv, Prepare PROVE IInv'
<1>1. QueuesOK /\ ThreadsOK /\ PlayerOK /\ FlagsOK /\ Flow /\ Joined
  BY DEF IInv
<1>2. /\ at = "over" /\ at' = "waiting"
      /\ reader' = NewThread /\ video' = [NewThread EXCEPT !.pc = "next"]
      /\ decoder' \in {NewThread, NoThread}
      /\ videoDecodeCount' = 0 /\ cancelled' = {} /\ curAudioNumber' = 0
      /\ curVideoNumber' = 0 /\ dispTextureSet' = Nothing
      /\ UNCHANGED <<state, internalState, retaceCount, stop>>
  BY DEF Prepare
<1>3. /\ audioExist' \in BOOLEAN /\ ~playAudioBuffer' /\ playAudioBuffer' \in BOOLEAN
      /\ mixing' = mixing /\ ~mixing
      /\ audioExist' => decoder' = NewThread
      /\ ~audioExist' => decoder' = NoThread
  <2>1. audioExist' \in BOOLEAN
    BY MovieAssumption, Zenon DEF Prepare
  <2>2. ~playAudioBuffer' /\ playAudioBuffer' \in BOOLEAN /\ mixing' = mixing
    BY Zenon DEF Prepare
  <2>3. ~mixing
    BY <1>1, <1>2, Zenon DEF Joined, QuietWhenFreed
  <2>4. decoder' = IF audioExist' THEN NewThread ELSE NoThread
    BY DEF Prepare
  <2> QED
    BY <2>1, <2>2, <2>3, <2>4, Zenon
<1>4. Last \in Nat /\ 0 \in 0..Last
  BY FrameOf, SMT
<1>5. ThreadsOK'
  <2>1. reader' \in [pc : {"pop", "read", "ended", "kept"}, frame : 0..Last, late : BOOLEAN]
    BY <1>2, <1>4 DEF NewThread
  <2>2. decoder' \in [pc : {"pop", "take", "put", "give", "ended"}, frame : 0..Last, late : BOOLEAN]
    <3> DEFINE all == [pc : {"pop", "take", "put", "give", "ended"}, frame : 0..Last, late : BOOLEAN]
    <3>1. NewThread \in all
      BY <1>4 DEF NewThread
    <3>2. NoThread \in all
      BY <1>4 DEF NoThread
    <3> QED
      BY <1>2, <3>1, <3>2
  <2>3. video' \in [pc : Pcs \ {"kept"}, frame : 0..Last, late : BOOLEAN]
    BY <1>2, <1>4 DEF NewThread, Pcs
  <2> QED
    BY <2>1, <2>2, <2>3 DEF ThreadsOK
<1>6. PlayerOK'
  BY <1>1, <1>2, SMT DEF PlayerOK, Nothing
<1>7. FlagsOK'
  BY <1>1, <1>3, Zenon DEF FlagsOK
<1>8. /\ DOMAIN queue' = Queues /\ queue' = [q \in Queues |-> queue'[q]]
      /\ \A q \in {"freeRead", "freeTexture"} : queue'[q] = Filled(Capacity[q])
      /\ \A q \in Queues \ {"freeRead", "freeTexture", "freeAudio"} : queue'[q] = <<>>
      /\ audioExist' => queue'["freeAudio"] = Filled(Capacity["freeAudio"])
      /\ ~audioExist' => queue'["freeAudio"] = <<>>
  BY CapacityIs, Zenon DEF Prepare, Queues
<1>9. QueuesOK'
  <2>1. ASSUME NEW q \in Queues PROVE queue'[q] \in Seq(Content(q)') /\ Len(queue'[q]) <= Capacity[q]
    <3>1. CASE queue'[q] = <<>>
      BY <3>1, EmptySeq, CapacityIs, SMT
    <3>2. CASE queue'[q] = Filled(Capacity[q]) /\ q # "ready"
      <4>1. Content(q)' = 0..Last /\ {Buffer} \subseteq 0..Last
        BY <1>2, <3>2, FrameOf DEF Content
      <4>2. queue'[q] \in Seq({Buffer}) /\ Len(queue'[q]) = Capacity[q] /\ Capacity[q] \in Nat
        BY <3>2, FilledIs, CapacityIs
      <4>3. queue'[q] \in Seq(0..Last)
        BY <4>1, <4>2, SeqMonotonic
      <4>4. Len(queue'[q]) <= Capacity[q]
        BY <4>2, SMT
      <4> QED
        BY <4>1, <4>3, <4>4, Zenon
    <3> QED
      BY <1>8, <3>1, <3>2, Zenon DEF Queues
  <2> QED
    BY <1>8, <2>1 DEF QueuesOK, Size
<1>10. /\ Size("freeRead")' = ReadBuffers /\ Size("freeTexture")' = TextureSets
       /\ \A q \in Queues \ {"freeRead", "freeTexture", "freeAudio"} : Size(q)' = 0
       /\ audioExist' => Size("freeAudio")' = AudioBuffers
  <2>1. \A q \in Queues : Len(Filled(Capacity[q])) = Capacity[q]
    BY FilledIs, CapacityIs
  <2>2. Len(queue'["freeRead"]) = ReadBuffers /\ Len(queue'["freeTexture"]) = TextureSets
    BY <1>8, <2>1, CapacityIs DEF Queues
  <2>3. audioExist' => Len(queue'["freeAudio"]) = AudioBuffers
    BY <1>8, <2>1, CapacityIs, Zenon DEF Queues
  <2>4. \A q \in Queues \ {"freeRead", "freeTexture", "freeAudio"} : Len(queue'[q]) = 0
    BY <1>8, EmptySeq
  <2> QED
    BY <2>2, <2>3, <2>4, Zenon DEF Size
<1>11. Flow'
  <2>1. Shown' = 0 /\ Played' = 0
    BY <1>2, <1>3, Zenon DEF Shown, Played
  <2>2. reader'.pc = "pop" /\ reader'.frame = 0 /\ video'.pc = "next" /\ decoder'.pc \in {"pop", "ended"}
    BY <1>2 DEF NewThread, NoThread
  <2>3. ReadKept'
    BY <1>10, <2>2, MovieAssumption, SMT DEF ReadKept, Queues, Holds
  <2>4. TexturesKept'
    BY <1>10, <2>1, <2>2, MovieAssumption, SMT DEF TexturesKept, Queues, Holds
  <2>5. audioExist' => SoundKept'
    <3>1. SUFFICES ASSUME audioExist' PROVE SoundKept'
      BY Zenon
    <3>2. Size("freeAudio")' = AudioBuffers
      BY <1>10, <3>1, Zenon
    <3>3. Size("decodedAudio")' = 0
      BY <1>10 DEF Queues
    <3> QED
      BY <1>2, <2>1, <2>2, <3>2, <3>3, MovieAssumption, SMT DEF SoundKept, Holds
  <2>6. Heard'
    <3>1. Size("decodedAudio")' = 0 /\ Size("readed")' = 0
      BY <1>10 DEF Queues
    <3> QED
      BY <1>2, <2>2, <3>1, SMT DEF Heard, Holds
  <2> QED
    BY <1>2, <2>3, <2>4, <2>5, <2>6, Zenon DEF Flow, Conserved
<1>12. Joined'
  <2>1. ~audioExist' => Ended(decoder)' /\ ~mixing'
    <3>1. NoThread.pc = "ended"
      BY DEF NoThread
    <3> QED
      BY <1>3, <3>1, Zenon DEF Ended
  <2>2. stop' = 0
    BY <1>1, <1>2 DEF Joined
  <2> QED
    BY <1>2, <2>1, <2>2 DEF Joined, QuietWhenFreed
<1> QED
  BY <1>5, <1>6, <1>7, <1>9, <1>11, <1>12 DEF IInv

LEMMA DrawDoneStep == ASSUME IInv, DrawDone PROVE IInv'
<1>1. QueuesOK /\ ThreadsOK /\ PlayerOK /\ FlagsOK /\ Flow /\ Joined
  BY DEF IInv
<1>2. /\ at = "open" /\ GameStays /\ UNCHANGED <<player, stopping>>
      /\ UNCHANGED <<at, state, internalState, retaceCount, curVideoNumber, dispTextureSet>>
      /\ UNCHANGED <<stop, cancelled>>
  BY Zenon DEF DrawDone, player, stopping
<1>3. UNCHANGED audioExist
  BY Zenon DEF DrawDone, player
<1>4. /\ ThreadsOK' /\ UNCHANGED <<reader, decoder, video, curAudioNumber, videoDecodeCount>>
      /\ UNCHANGED mixing /\ Played' = Played
      /\ mixing \in BOOLEAN /\ playAudioBuffer' \in BOOLEAN
  BY <1>2, GameKeeps
<1>5. PlayerOK'
  BY <1>1, <1>2, <1>4, SMT DEF PlayerOK
<1>6. FlagsOK'
  BY <1>1, <1>3, <1>4, Zenon DEF FlagsOK
<1>7. Shown' = Shown
  BY <1>2, Zenon DEF Shown
<1>8. /\ \A q \in Queues : Size(q) \in Nat
      /\ Shown \in Nat /\ Played \in Nat /\ curAudioNumber \in Nat /\ reader.frame \in 0..Last
      /\ Last \in Nat
  BY <1>1, SizeIsNat, FrameOf, SMT DEF Shown, Played, PlayerOK, ThreadsOK
<1> DEFINE free == queue["freeTexture"] \o queue["used"]
           kept == IF Len(free) <= Capacity["freeTexture"] THEN free
                   ELSE SubSeq(free, 1, Capacity["freeTexture"])
<1>9. /\ free \in Seq(0..Last) /\ Len(free) = Size("freeTexture") + Size("used")
      /\ Len(free) \in Nat
  <2>1. queue["freeTexture"] \in Seq(0..Last) /\ queue["used"] \in Seq(0..Last)
    BY <1>1, <1>2 DEF QueuesOK, Queues, Content
  <2>2. free \in Seq(0..Last) /\ Len(free) = Size("freeTexture") + Size("used")
    BY <2>1, ConcatProperties DEF Size
  <2> QED
    BY <2>2, LenProperties
<1>10. Capacity["freeTexture"] \in Nat /\ Capacity["freeTexture"] = TextureSets
  BY CapacityIs DEF Queues
<1>11. /\ kept \in Seq(0..Last) /\ Len(kept) <= Capacity["freeTexture"]
       /\ Len(free) <= Capacity["freeTexture"] => kept = free
  <2>1. CASE Len(free) <= Capacity["freeTexture"]
    BY <1>9, <2>1
  <2>2. CASE ~(Len(free) <= Capacity["freeTexture"])
    <3> HIDE DEF free
    <3>1. kept = SubSeq(free, 1, Capacity["freeTexture"])
      BY <2>2
    <3>2. \A i \in 1..Capacity["freeTexture"] : free[i] \in 0..Last
      <4>1. \A i \in 1..Capacity["freeTexture"] : i \in 1..Len(free)
        BY <1>9, <1>10, <2>2, SMT
      <4> QED
        BY <1>9, <4>1, ElementOfSeq
    <3> HIDE DEF kept
    <3>3. /\ kept \in Seq(0..Last)
          /\ Len(kept) = IF 1 <= Capacity["freeTexture"] THEN Capacity["freeTexture"] - 1 + 1 ELSE 0
      BY <1>10, <3>1, <3>2, SubSeqProperties, SMT
    <3> QED
      BY <1>9, <1>10, <2>2, <3>3, SMT
  <2> QED
    BY <2>1, <2>2
<1>12. /\ DOMAIN queue' = Queues /\ queue' = [q \in Queues |-> queue'[q]]
       /\ queue'["used"] = <<>> /\ queue'["freeTexture"] = kept
       /\ \A q \in Queues \ {"used", "freeTexture"} : queue'[q] = queue[q]
  <2>1. queue' = [queue EXCEPT !["used"] = <<>>, !["freeTexture"] = kept]
    BY DEF DrawDone
  <2>2. DOMAIN queue = Queues
    BY <1>1 DEF QueuesOK
  <2> HIDE DEF kept, free
  <2> QED
    BY <2>1, <2>2 DEF Queues
<1> HIDE DEF kept, free
<1>13. QueuesOK'
  <2>1. ASSUME NEW q \in Queues PROVE queue'[q] \in Seq(Content(q)') /\ Len(queue'[q]) <= Capacity[q]
    <3>1. Content(q)' = Content(q)
      BY <1>2 DEF Content
    <3>2. CASE q = "used"
      <4>1. queue'[q] = <<>> /\ Capacity[q] \in Nat /\ Len(<<>>) = 0
        BY <1>12, <3>2, EmptySeq, CapacityIs
      <4> QED
        BY <4>1, EmptySeq
    <3>3. CASE q = "freeTexture"
      BY <1>2, <1>11, <1>12, <3>1, <3>3 DEF Content
    <3>4. CASE q \notin {"used", "freeTexture"}
      BY <1>1, <1>12, <3>1, <3>4 DEF QueuesOK, Size
    <3> QED
      BY <3>2, <3>3, <3>4
  <2> QED
    BY <1>12, <2>1 DEF QueuesOK, Size
<1>14. /\ \A q \in Queues \ {"used", "freeTexture"} : Size(q)' = Size(q)
       /\ Size("used")' = 0 /\ Size("freeTexture")' = Len(kept)
  BY <1>12, EmptySeq DEF Size
<1>15. Flow'
  <2>1. ReadKept => ReadKept'
    BY <1>4, <1>8, <1>14, SMT DEF ReadKept, Queues, Holds
  <2>2. TexturesKept => TexturesKept'
    <3>1. SUFFICES ASSUME TexturesKept PROVE TexturesKept'
      OBVIOUS
    <3>2. Size("freeTexture") + Size("used") <= TextureSets
      BY <1>8, <3>1, MovieAssumption, SMT DEF TexturesKept, Queues, Holds
    <3>3. Len(kept) = Size("freeTexture") + Size("used")
      BY <1>9, <1>10, <1>11, <3>2
    <3>4. Size("freeTexture") \in Nat /\ Size("used") \in Nat /\ Size("decodedTexture") \in Nat
          /\ Size("decodedTexture")' = Size("decodedTexture")
      BY <1>8, <1>14 DEF Queues
    <3> QED
      BY <1>4, <1>7, <1>8, <1>14, <3>1, <3>3, <3>4, SMT DEF TexturesKept, Holds
  <2>3. SoundKept => SoundKept'
    BY <1>4, <1>8, <1>14, SMT DEF SoundKept, Queues, Holds
  <2>4. Heard => Heard'
    BY <1>4, <1>8, <1>14, SMT DEF Heard, Queues, Holds
  <2> QED
    BY <1>1, <1>2, <1>3, <2>1, <2>2, <2>3, <2>4, FlowKept
<1>16. Joined'
  BY <1>1, <1>2, <1>3, <1>4, JoinedKept, Zenon DEF Ended
<1> QED
  BY <1>4, <1>5, <1>6, <1>13, <1>15, <1>16 DEF IInv

LEMMA ShowsEffect ==
  ASSUME QueuesOK, at = "open", at' = at, Shows, dispTextureSet \in 0..Last \union {Nothing}
  PROVE  /\ QueuesOK' /\ dispTextureSet' \in 0..Last \union {Nothing}
         /\ \A q \in Queues \ {"decodedTexture", "used"} : Size(q)' = Size(q)
         /\ TexturesKept /\ UNCHANGED video => TexturesKept'
<1>1. CASE Popped = Nothing
  <2>1. UNCHANGED <<queue, dispTextureSet>>
    BY <1>1 DEF Shows
  <2>2. TexturesKept /\ UNCHANGED video => TexturesKept'
    BY <2>1, Zenon DEF TexturesKept, Size, Holds, Shown
  <2> QED
    BY <2>1, <2>2, SameQueues DEF SameUse
<1>2. CASE Popped # Nothing
  <2> DEFINE old == queue["decodedTexture"]
             full == ~(dispTextureSet # Nothing /\ HasRoom("used"))
             used == IF full THEN queue["used"] ELSE Append(queue["used"], Buffer)
  <2>1. old # <<>> /\ Popped = Head(old)
    BY <1>2 DEF Popped, Received
  <2>2. /\ old \in Seq(0..Last) /\ queue["used"] \in Seq(0..Last) /\ Len(queue["used"]) \in Nat
        /\ Len(queue["used"]) <= TextureSets /\ Len(old) <= TextureSets /\ DOMAIN queue = Queues
        /\ Len(old) \in Nat \ {0} /\ TextureSets \in Nat
        /\ Capacity["used"] = TextureSets /\ Capacity["decodedTexture"] = TextureSets
    <3>1. /\ old \in Seq(0..Last) /\ queue["used"] \in Seq(0..Last) /\ DOMAIN queue = Queues
          /\ Len(queue["used"]) <= Capacity["used"] /\ Len(old) <= Capacity["decodedTexture"]
      BY DEF QueuesOK, Queues, Content, Size
    <3>2. Len(old) \in Nat \ {0} /\ Len(queue["used"]) \in Nat
      BY <2>1, <3>1, EmptySeq, LenProperties
    <3> QED
      BY <3>1, <3>2, CapacityIs, MovieAssumption
  <2>3. Head(old) \in 0..Last /\ Tail(old) \in Seq(0..Last) /\ Len(Tail(old)) = Len(old) - 1
    BY <2>1, <2>2, HeadTailProperties
  <2>4. dispTextureSet' = Head(old) /\ Head(old) # Nothing
    BY <1>2, <2>1 DEF Shows
  <2>5. /\ DOMAIN queue' = Queues /\ queue' = [q \in Queues |-> queue'[q]]
        /\ queue'["decodedTexture"] = Tail(old) /\ queue'["used"] = used
        /\ \A q \in Queues \ {"decodedTexture", "used"} : queue'[q] = queue[q]
    <3>1. queue' = [queue EXCEPT !["decodedTexture"] = Tail(old), !["used"] = used]
      BY <1>2 DEF Shows
    <3> HIDE DEF old, used
    <3> QED
      BY <2>2, <3>1 DEF Queues
  <2>6. /\ used \in Seq(0..Last) /\ Len(used) <= TextureSets
        /\ full => Len(used) = Len(queue["used"])
        /\ ~full => Len(used) = Len(queue["used"]) + 1
    <3>1. CASE full
      BY <2>2, <3>1
    <3>2. CASE ~full
      <4>1. used = Append(queue["used"], Buffer) /\ HasRoom("used")
        BY <3>2
      <4>2. Append(queue["used"], Buffer) \in Seq(0..Last)
            /\ Len(Append(queue["used"], Buffer)) = Len(queue["used"]) + 1
        BY <2>2, FrameOf, AppendProperties
      <4>3. Len(queue["used"]) < TextureSets
        BY <2>2, <4>1 DEF HasRoom, Size
      <4>4. Len(queue["used"]) + 1 <= TextureSets
        BY <2>2, <4>3, SMT
      <4> QED
        BY <3>2, <4>1, <4>2, <4>4
    <3> QED
      BY <3>1, <3>2
  <2>7. QueuesOK'
    <3>1. ASSUME NEW q \in Queues PROVE queue'[q] \in Seq(Content(q)') /\ Len(queue'[q]) <= Capacity[q]
      <4>1. Content(q)' = Content(q) /\ (q # "ready" => Content(q) = 0..Last)
        BY DEF Content
      <4>2. CASE q = "decodedTexture"
        <5>1. Len(Tail(old)) <= TextureSets
          BY <2>2, <2>3, SMT
        <5> QED
          BY <2>2, <2>3, <2>5, <4>1, <4>2, <5>1
      <4>3. CASE q = "used"
        BY <2>2, <2>5, <2>6, <4>1, <4>3
      <4>4. CASE q \notin {"decodedTexture", "used"}
        BY <2>5, <4>1, <4>4 DEF QueuesOK, Size
      <4> QED
        BY <4>2, <4>3, <4>4
    <3> QED
      BY <2>5, <3>1 DEF QueuesOK, Size
  <2>8. /\ \A q \in Queues \ {"decodedTexture", "used"} : Size(q)' = Size(q)
        /\ Size("decodedTexture") = Len(old) /\ Size("used") = Len(queue["used"])
        /\ Size("decodedTexture")' = Len(old) - 1 /\ Size("used")' = Len(used)
    BY <2>3, <2>5 DEF Size
  <2>9. ASSUME TexturesKept, UNCHANGED video PROVE TexturesKept'
    <3>1. Size("freeTexture")' = Size("freeTexture") /\ Size("freeTexture") \in Nat
          /\ Size("used") \in Nat /\ Size("decodedTexture") \in Nat \ {0}
      BY <2>2, <2>8, SizeIsNat DEF Queues
    <3>2. Shown' = 1
      BY <2>4 DEF Shown
    <3>3. Shown = 0 => Size("used")' = Size("used")
      BY <2>6, <2>8 DEF Shown
    <3>4. Shown = 1 => Size("used")' = Size("used") + 1
      <4>1. SUFFICES ASSUME Shown = 1 PROVE ~full
        BY <2>6, <2>8
      <4>2. Size("used") < TextureSets
        BY <2>9, <3>1, <4>1, MovieAssumption, SMT DEF TexturesKept, Holds
      <4> QED
        BY <2>2, <4>1, <4>2 DEF Shown, HasRoom
    <3>5. Shown \in {0, 1} /\ Size("decodedTexture")' = Size("decodedTexture") - 1
      BY <2>8 DEF Shown
    <3> HIDE DEF old, used, full
    <3> QED
      BY <2>9, <3>1, <3>2, <3>3, <3>4, <3>5, SMT DEF TexturesKept, Holds
  <2> QED
    BY <2>3, <2>4, <2>7, <2>8, <2>9
<1> QED
  BY <1>1, <1>2

LEMMA PlayControlStep == ASSUME IInv, NEW timing \in BOOLEAN, PlayControl(timing) PROVE IInv'
<1>1. QueuesOK /\ ThreadsOK /\ PlayerOK /\ FlagsOK /\ Flow /\ Joined
  BY DEF IInv
<1>2. at = "open" /\ UNCHANGED <<threads, mixer, stopping>> /\ at' = at
      /\ state' \in {3, state} /\ internalState' \in {2, 3, internalState}
  BY DEF PlayControl
<1>3. UNCHANGED <<reader, decoder, video, curAudioNumber, stop, cancelled>>
  BY <1>2, Zenon DEF threads, mixer, stopping
<1>4. UNCHANGED <<mixing, playAudioBuffer, audioExist>> /\ Played' = Played
  <2>1. UNCHANGED audioExist
    BY Zenon DEF PlayControl
  <2> QED
    BY <1>2, <2>1, Zenon DEF mixer, Played
<1>5. ThreadsOK'
  BY <1>1, <1>3 DEF ThreadsOK
<1>6. FlagsOK'
  BY <1>1, <1>4, Zenon DEF FlagsOK
<1>7. Shows \/ UNCHANGED <<queue, dispTextureSet>>
  BY Zenon DEF PlayControl
<1>8. \/ Uncounts /\ curVideoNumber' = curVideoNumber + 1
      \/ UNCHANGED <<videoDecodeCount, curVideoNumber>>
  BY Zenon DEF PlayControl
<1>9. /\ QueuesOK' /\ dispTextureSet' \in 0..Last \union {Nothing}
      /\ \A q \in Queues \ {"decodedTexture", "used"} : Size(q)' = Size(q)
      /\ TexturesKept => TexturesKept'
  <2>1. dispTextureSet \in 0..Last \union {Nothing}
    BY <1>1 DEF PlayerOK
  <2>2. CASE Shows
    BY <1>1, <1>2, <1>3, <2>1, <2>2, ShowsEffect
  <2>3. CASE UNCHANGED <<queue, dispTextureSet>>
    <3>1. TexturesKept => TexturesKept'
      BY <1>3, <2>3, Zenon DEF TexturesKept, Size, Holds, Shown
    <3> QED
      BY <1>1, <1>2, <2>1, <2>3, <3>1, SameQueues DEF SameUse
  <2> QED
    BY <1>7, <2>2, <2>3
<1>10. PlayerOK'
  <2>1. videoDecodeCount' \in Int
    <3>1. videoDecodeCount \in Int
      BY <1>1 DEF PlayerOK
    <3>2. CASE Uncounts
      <4>1. \/ videoDecodeCount' = videoDecodeCount - 1
            \/ \E lost \in {0, 2} : videoDecodeCount' = videoDecodeCount - lost
        BY <3>2 DEF Uncounts
      <4> QED
        BY <3>1, <4>1, SMT
    <3>3. CASE UNCHANGED videoDecodeCount
      BY <3>1, <3>3
    <3> QED
      BY <1>8, <3>2, <3>3
  <2>2. curVideoNumber' \in Nat
    BY <1>1, <1>8, SMT DEF PlayerOK
  <2>3. retaceCount' \in -1..1
    <3>1. retaceCount' \in {-1, Retaces}
      BY Zenon DEF PlayControl
    <3> QED
      BY <1>1, <3>1, SMT DEF PlayerOK, Retaces
  <2>4. state' \in 0..5 /\ internalState' \in {0, 2, 3, 4, 5}
    BY <1>1, <1>2 DEF PlayerOK
  <2> QED
    BY <1>1, <1>2, <1>3, <1>9, <2>1, <2>2, <2>3, <2>4 DEF PlayerOK
<1>11. Flow'
  <2>1. \A q \in Queues : Size(q) \in Nat
    BY <1>1, SizeIsNat
  <2>2. Played \in Nat /\ curAudioNumber \in Nat /\ reader.frame \in 0..Last /\ Last \in Nat
    BY <1>1, FrameOf, SMT DEF Played, PlayerOK, ThreadsOK
  <2>3. ReadKept => ReadKept'
    BY <1>3, <1>9, <2>1, SMT DEF ReadKept, Queues, Holds
  <2>4. SoundKept => SoundKept'
    BY <1>3, <1>4, <1>9, <2>1, <2>2, SMT DEF SoundKept, Queues, Holds
  <2>5. Heard => Heard'
    BY <1>3, <1>9, <2>1, <2>2, SMT DEF Heard, Queues, Holds
  <2> QED
    BY <1>1, <1>2, <1>3, <1>4, <1>9, <2>3, <2>4, <2>5, FlowKept
<1>12. Joined'
  <2>1. at' = "open" /\ stop' = 0
    BY <1>1, <1>2, <1>3 DEF Joined
  <2>2. ~audioExist' => Ended(decoder)' /\ ~mixing'
    BY <1>1, <1>3, <1>4, Zenon DEF Joined, Ended
  <2> QED
    BY <2>1, <2>2 DEF Joined, QuietWhenFreed
<1> QED
  BY <1>5, <1>6, <1>9, <1>10, <1>11, <1>12 DEF IInv

LEMMA StopGoesOnStep == ASSUME IInv, StopGoesOn PROVE IInv'
<1>1. QueuesOK /\ ThreadsOK /\ PlayerOK /\ FlagsOK /\ Flow /\ Joined
  BY DEF IInv
<1>2. /\ at = "stopping" /\ GameStays
      /\ \/ stop = Len(StopSteps) /\ stop' = 0 /\ at' = "over"
         \/ stop # Len(StopSteps) /\ stop' = stop + 1 /\ at' = at
      /\ UNCHANGED <<state, internalState, retaceCount, curVideoNumber, dispTextureSet>>
  BY DEF StopGoesOn
<1>3. UNCHANGED audioExist
  BY Zenon DEF StopGoesOn
<1>4. /\ ThreadsOK' /\ UNCHANGED <<reader, decoder, video, curAudioNumber, videoDecodeCount>>
      /\ UNCHANGED mixing /\ Played' = Played
      /\ mixing \in BOOLEAN /\ playAudioBuffer' \in BOOLEAN
  BY <1>2, GameKeeps
<1>5. FlagsOK'
  BY <1>1, <1>3, <1>4, Zenon DEF FlagsOK
<1>6. stop \in 1..Len(StopSteps) /\ internalState = 0 /\ EndedFor(stop)
  BY <1>1, <1>2 DEF Joined
<1>7. SameUse /\ \A q \in Queues \ {"ready"} : Content(q) = Messages
  BY <1>2 DEF SameUse, Content
<1>8. QueuesOK'
  <2>1. CASE UNCHANGED queue
    BY <1>1, <1>7, <2>1, SameQueues
  <2>2. ASSUME NEW q \in Queues \ {"ready"}, Send(q, Junk) PROVE QueuesOK'
    <3>1. Junk \in Content(q)
      BY <1>7 DEF Messages
    <3> QED
      BY <1>1, <1>7, <2>2, <3>1, SendEffect
  <2>3. ASSUME NEW q \in Queues \ {"ready"}, Receive(q) PROVE QueuesOK'
    BY <1>1, <1>7, <2>3, ReceiveEffect
  <2>4. CASE Junks
    <3>1. StopStep.on \in Queues \ {"ready"}
      BY <1>6, <2>4, StepsOn DEF Junks, StopStep, Kinds
    <3>2. Send(StopStep.on, Junk) \/ UNCHANGED queue
      BY <2>4, Zenon DEF Junks, TrySend
    <3> QED
      BY <2>1, <2>2, <3>1, <3>2
  <2>5. CASE Discards
    <3>1. StopStep.on \in Queues \ {"ready"}
      BY <1>6, <2>5, StepsOn DEF Discards, StopStep, Kinds
    <3>2. Receive(StopStep.on) \/ UNCHANGED queue
      BY <2>5, Zenon DEF Discards, TryReceive
    <3> QED
      BY <2>1, <2>3, <3>1, <3>2
  <2>6. CASE Drains
    <3>1. /\ DOMAIN queue' = Queues /\ queue' = [q \in Queues |-> queue'[q]]
          /\ queue'["used"] = <<>> /\ \A q \in Queues \ {"used"} : queue'[q] = queue[q]
      BY <1>1, <2>6 DEF Drains, QueuesOK, Queues
    <3>2. \A q \in Queues : Content(q)' = Content(q)
      BY <1>7 DEF SameUse, Content
    <3>3. queue'["used"] \in Seq(Content("used")) /\ Len(queue'["used"]) <= Capacity["used"]
      <4>1. Capacity["used"] \in Nat /\ Len(<<>>) = 0
        BY CapacityIs, EmptySeq DEF Queues
      <4> QED
        BY <3>1, <4>1, EmptySeq
    <3>4. ASSUME NEW q \in Queues
          PROVE  queue'[q] \in Seq(Content(q)') /\ Len(queue'[q]) <= Capacity[q]
      BY <1>1, <3>1, <3>2, <3>3 DEF QueuesOK, Size
    <3> QED
      BY <3>1, <3>4 DEF QueuesOK, Size
  <2> QED
    BY <2>1, <2>4, <2>5, <2>6, Zenon DEF StopGoesOn, Cancels, Joins, Quits
<1>9. PlayerOK'
  <2>1. cancelled' \subseteq {"reader", "decoder", "video"}
    <3>1. CASE Cancels
      <4>1. StopStep.on \in {"reader", "decoder", "video"}
        BY <1>6, <3>1, StepsOn DEF Cancels, StopStep
      <4> QED
        BY <1>1, <3>1, <4>1 DEF Cancels, PlayerOK
    <3>2. CASE UNCHANGED cancelled
      BY <1>1, <3>2 DEF PlayerOK
    <3> QED
      BY <3>1, <3>2, Zenon DEF StopGoesOn, Discards, Junks, Joins, Quits, Drains
  <2>2. at' \in {"over", "stopping"}
    BY <1>2
  <2> QED
    BY <1>1, <1>2, <1>4, <2>1, <2>2, SMT DEF PlayerOK
<1>10. Flow'
  BY <1>2 DEF Flow
<1>11. UNCHANGED <<reader, decoder, video>> /\ StopSteps' = StopSteps
       /\ (Len(StopSteps) = IF audioExist THEN 17 ELSE 10)
  BY <1>3, <1>4, StepsAre, Zenon DEF StopSteps
<1>12. Joined'
  <2>1. ~audioExist' => Ended(decoder)' /\ ~mixing'
    BY <1>1, <1>3, <1>4, Zenon DEF Joined, Ended
  <2>2. CASE stop = Len(StopSteps) /\ stop' = 0 /\ at' = "over"
    <3>1. stop > 4 /\ stop > 9 /\ (audioExist => stop > 15 /\ stop > 16)
      BY <1>11, <2>2, SMT
    <3>2. Ended(reader) /\ Ended(video) /\ (audioExist => Ended(decoder) /\ ~mixing)
      BY <1>6, <3>1, Zenon DEF EndedFor
    <3>3. QuietWhenFreed'
      BY <1>1, <1>4, <1>11, <3>2, Zenon DEF Joined, QuietWhenFreed, Ended
    <3> QED
      BY <2>1, <2>2, <3>3 DEF Joined
  <2>3. CASE stop # Len(StopSteps) /\ stop' = stop + 1 /\ at' = at
    <3>1. stop + 1 \in 1..Len(StopSteps)
      BY <1>6, <1>11, <2>3, SMT
    <3>2. ASSUME NEW t, StopStep = Do("join", t) PROVE Ended(Thread(t))
      BY <3>2 DEF StopGoesOn, Cancels, Discards, Junks, Joins, Quits, Drains, Do
    <3>3. StopStep = Do("quit", "mixer") => ~mixing
      <4>1. Do("quit", "mixer").do = "quit"
        BY DEF Do
      <4>2. \A k \in {"cancel", "discard", "junk", "junkWaiting", "join", "drain"} : k # "quit"
        OBVIOUS
      <4> QED
        BY <4>1, <4>2, Zenon DEF StopGoesOn, Cancels, Discards, Junks, Joins, Quits, Drains
    <3>4. stop + 1 > 4 => Ended(reader)
      <4>1. CASE stop = 4
        BY <3>2, <4>1, StepsAre DEF StopStep, Thread
      <4>2. CASE stop > 4
        BY <1>6, <4>2 DEF EndedFor
      <4> QED
        BY <1>6, <1>11, <4>1, <4>2, SMT
    <3>5. stop + 1 > 9 => Ended(video)
      <4>1. CASE stop = 9
        BY <3>2, <4>1, StepsAre DEF StopStep, Thread
      <4>2. CASE stop > 9
        BY <1>6, <4>2 DEF EndedFor
      <4> QED
        BY <1>6, <1>11, <4>1, <4>2, SMT
    <3>6. audioExist /\ stop + 1 > 15 => Ended(decoder)
      <4>1. CASE stop = 15
        BY <3>2, <4>1, StepsAre DEF StopStep, Thread
      <4>2. CASE stop > 15
        BY <1>6, <4>2, Zenon DEF EndedFor
      <4> QED
        BY <1>6, <1>11, <4>1, <4>2, SMT
    <3>7. audioExist /\ stop + 1 > 16 => ~mixing
      <4>1. CASE stop = 16
        BY <3>3, <4>1, StepsAre, Zenon DEF StopStep
      <4>2. CASE stop > 16
        BY <1>6, <4>2, Zenon DEF EndedFor
      <4>3. stop + 1 > 16 => stop = 16 \/ stop > 16
        BY <1>6, <1>11, SMT
      <4> QED
        BY <4>1, <4>2, <4>3, Zenon
    <3>8. EndedFor(stop)'
      BY <1>3, <1>4, <1>11, <2>3, <3>4, <3>5, <3>6, <3>7, Zenon DEF EndedFor, Ended
    <3>9. QuietWhenFreed' /\ at' = "stopping" /\ internalState' = 0
      BY <1>2, <1>6, <2>3 DEF QuietWhenFreed
    <3>10. stop' \in 1..Len(StopSteps')
      BY <1>11, <2>3, <3>1, Zenon
    <3> QED
      BY <2>1, <3>8, <3>9, <3>10 DEF Joined
  <2> QED
    BY <1>2, <2>2, <2>3
<1> QED
  BY <1>4, <1>5, <1>8, <1>9, <1>10, <1>12 DEF IInv
-----------------------------------------------------------------------------
LEMMA InitIInv == Init => IInv
<1> SUFFICES ASSUME Init PROVE IInv
  OBVIOUS
<1>1. /\ at = "over" /\ stop = 0 /\ cancelled = {} /\ queue = [q \in Queues |-> <<>>]
      /\ reader = NoThread /\ decoder = NoThread /\ video = NoThread
      /\ videoDecodeCount = 0 /\ curAudioNumber = 0 /\ curVideoNumber = 0
      /\ state = 0 /\ internalState = 0 /\ retaceCount = 0 /\ dispTextureSet = Nothing
  BY CapacityIs DEF Init
<1>2. FlagsOK /\ ~mixing
  BY MovieAssumption, Zenon DEF Init, FlagsOK
<1>3. QueuesOK
  <2>1. ASSUME NEW q \in Queues PROVE queue[q] \in Seq(Content(q)) /\ Len(queue[q]) <= Capacity[q]
    <3>1. queue[q] = <<>> /\ Capacity[q] \in Nat /\ Len(<<>>) = 0
      BY <1>1, EmptySeq, CapacityIs
    <3> QED
      BY <3>1, EmptySeq
  <2> QED
    BY <1>1, <2>1 DEF QueuesOK, Size
<1>4. NoThread.pc = "ended" /\ NoThread.frame = 0 /\ 0 \in 0..Last
  BY FrameOf, SMT DEF NoThread
<1>5. ThreadsOK
  BY <1>1, <1>4 DEF ThreadsOK, NoThread, Pcs
<1>6. PlayerOK
  BY <1>1, SMT DEF PlayerOK, Nothing
<1>7. Flow
  BY <1>1 DEF Flow
<1>8. Ended(reader) /\ Ended(decoder) /\ Ended(video)
  BY <1>1, <1>4 DEF Ended
<1>9. Joined
  BY <1>1, <1>2, <1>8, Zenon DEF Joined, QuietWhenFreed
<1> QED
  BY <1>2, <1>3, <1>5, <1>6, <1>7, <1>9 DEF IInv

LEMMA NextIInv == IInv /\ [Next]_vars => IInv'
<1> SUFFICES ASSUME IInv, [Next]_vars PROVE IInv'
  OBVIOUS
<1>1. CASE Reader \/ AudioDecoder \/ VideoDecoder \/ MixAudio
  BY <1>1, ReaderStep, DecoderStep, VideoStep, MixStep
<1>2. CASE Game
  BY <1>2, PrepareStep, WaitStep, PlayStep, PlayControlStep, DrawDoneStep, StopBeginsStep,
     StopGoesOnStep DEF Game
<1>3. CASE UNCHANGED vars
  <2>1. /\ UNCHANGED <<queue, reader, decoder, video, videoDecodeCount, curAudioNumber>>
        /\ UNCHANGED <<at, state, internalState, retaceCount, curVideoNumber, dispTextureSet>>
        /\ UNCHANGED <<stop, cancelled>>
    BY <1>3, Zenon DEF vars, threads, counts, mixer, player, stopping
  <2>2. UNCHANGED <<mixing, playAudioBuffer, audioExist>>
    BY <1>3, Zenon DEF vars, mixer, player
  <2>3. QueuesOK' /\ ThreadsOK' /\ PlayerOK'
    BY <2>1, SameQueues DEF IInv, SameUse, ThreadsOK, PlayerOK
  <2>4. FlagsOK'
    BY <2>2, Zenon DEF IInv, FlagsOK
  <2>5. Flow'
    BY <2>1, <2>2, Zenon DEF IInv, Flow, Conserved, ReadKept, TexturesKept, SoundKept, Heard,
                              Holds, Size, Shown, Played
  <2>6. Joined'
    BY <2>1, <2>2, JoinedKept, Zenon DEF IInv, Ended
  <2> QED
    BY <2>3, <2>4, <2>5, <2>6 DEF IInv
<1> QED
  BY <1>1, <1>2, <1>3 DEF Next

LEMMA IInvSound == IInv => BuffersSound
<1> SUFFICES ASSUME IInv PROVE BuffersSound
  OBVIOUS
<1>1. QueuesOK /\ ThreadsOK /\ PlayerOK /\ FlagsOK /\ Flow /\ Joined
  BY DEF IInv
<1>2. ASSUME NEW q \in DOMAIN Capacity \ {"ready"} PROVE queue[q] \in Seq(Messages)
  <2>1. q \in Queues \ {"ready"} /\ queue[q] \in Seq(Content(q))
    BY <1>1, CapacityIs DEF QueuesOK
  <2>2. Content(q) \subseteq Messages
    BY <2>1 DEF Content, Messages, Last
  <2> QED
    BY <2>1, <2>2, SeqMonotonic
<1>3. \A q \in DOMAIN Capacity : Size(q) <= Capacity[q]
  BY <1>1, CapacityIs DEF QueuesOK
<1>4. {reader, decoder, video} \subseteq [pc : Pcs, frame : 0..Last, late : BOOLEAN]
  BY <1>1 DEF ThreadsOK, Pcs
<1>5. stop \in 0..Len(StopSteps)
  <2>1. CASE at = "stopping"
    <3>1. stop \in 1..Len(StopSteps)
      BY <1>1, <2>1 DEF Joined
    <3> QED
      BY <3>1, StepsAre, SMT
  <2>2. CASE at # "stopping"
    <3>1. stop = 0
      BY <1>1, <2>2 DEF Joined
    <3> QED
      BY <3>1, StepsAre, SMT
  <2> QED
    BY <2>1, <2>2
<1>6. TypeOK
  BY <1>1, <1>2, <1>3, <1>4, <1>5, Zenon DEF TypeOK, PlayerOK
<1> QED
  BY <1>1, <1>6, Zenon DEF BuffersSound, Flow, Joined

(* For every length of a movie and every number of buffers, with and       *)
(* without sound, whatever fails: no buffer is lost or doubled while a     *)
(* movie is prepared or plays, no sound is heard twice, and when Stop has  *)
(* returned no thread is left that could use the memory that is then       *)
(* freed.                                                                  *)
THEOREM BuffersAreSound == Spec => []BuffersSound
<1>1. Init => IInv
  BY InitIInv
<1>2. IInv /\ [Next]_vars => IInv'
  BY NextIInv
<1>3. IInv => BuffersSound
  BY IInvSound
<1> QED
  BY <1>1, <1>2, <1>3, PTL DEF Spec
-----------------------------------------------------------------------------
(* While a movie with sound is prepared or plays, the frames go through    *)
(* the queues one after the other.  Taken: the frame the video decoder     *)
(* takes next.                                                             *)
Running == at \in {"waiting", "open"} /\ audioExist
Taken == IF first /\ video.pc \in {"next", "pop"} THEN 0 ELSE video.frame + 1
InDecoder == Holds(decoder, {"take", "put", "give"})
Began ==
    /\ at = "open" => ~first
    /\ first => /\ video.pc \in {"next", "pop", "texture", "decode", "count"}
                /\ videoDecodeCount = 0
                /\ \A i \in 1..Size("ready") : queue["ready"][i] = FALSE
Readed2Next == \A i \in 1..Size("readed2") : queue["readed2"][i] = Taken + i - 1
DecoderNext == InDecoder = 1 => decoder.frame = Taken + Size("readed2")
ReadedNext ==
    \A i \in 1..Size("readed") : queue["readed"][i] = Taken + Size("readed2") + InDecoder + i - 1
ReaderNext ==
    reader.pc \in {"pop", "read"} =>
        reader.frame = Taken + Size("readed2") + InDecoder + Size("readed")
InOrder == Readed2Next /\ DecoderNext /\ ReadedNext /\ ReaderNext

(* The frames that were taken and counted are no more than the pictures    *)
(* that were due and those videoDecodeCount is ahead, lost updates aside.  *)
NotCounted ==
    IF video.pc = "free" THEN (IF video.late THEN 1 ELSE 0)
    ELSE Holds(video, {"texture", "decode", "suspended", "count", "countLate"})
Counted == Taken - NotCounted <= videoDecodeCount + curVideoNumber + races
(* So a frame is dropped only when a picture that was due was not there,   *)
(* and no decoded picture is ahead of its place.                           *)
Dropping == Holds(video, {"skip"})
NotPushed == Holds(video, {"texture", "decode", "suspended"})
Dropped ==
    Taken - NotPushed + Dropping <= curVideoNumber + races + Size("decodedTexture")
Pictures ==
    \A i \in 1..Size("decodedTexture") :
        queue["decodedTexture"][i] <= curVideoNumber + races + i - 1
Display == dispTextureSet <= curAudioNumber + 1 + races
Paced == Began /\ InOrder /\ Counted /\ Dropped /\ Pictures /\ Display
Pace == races \in Nat /\ (Running => Paced)

(* What one call does to the places of a queue.                            *)
LEMMA SendAt ==
  ASSUME QueuesOK, NEW q \in Queues, NEW m \in Content(q), Send(q, m)
  PROVE  /\ Size(q)' = Size(q) + 1 /\ queue'[q][Size(q) + 1] = m
         /\ \A i \in 1..Size(q) : queue'[q][i] = queue[q][i]
         /\ \A p \in Queues \ {q} : queue'[p] = queue[p] /\ Size(p)' = Size(p)
<1>1. queue' = [queue EXCEPT ![q] = Append(queue[q], m)]
  BY DEF Send
<1>2. queue[q] \in Seq(Content(q)) /\ Len(queue[q]) \in Nat /\ DOMAIN queue = Queues
  BY LenProperties DEF QueuesOK
<1>3. /\ Len(Append(queue[q], m)) = Len(queue[q]) + 1
      /\ \A i \in 1..Len(queue[q]) : Append(queue[q], m)[i] = queue[q][i]
      /\ Append(queue[q], m)[Len(queue[q]) + 1] = m
  BY <1>2, AppendProperties
<1>4. /\ queue'[q] = Append(queue[q], m)
      /\ \A p \in Queues \ {q} : queue'[p] = queue[p]
  BY <1>1, <1>2
<1> QED
  BY <1>3, <1>4 DEF Size

LEMMA ReceiveAt ==
  ASSUME QueuesOK, NEW q \in Queues, Receive(q)
  PROVE  /\ Size(q) \in Nat \ {0} /\ Size(q)' = Size(q) - 1 /\ Received(q) = queue[q][1]
         /\ \A i \in 1..Size(q) - 1 : queue'[q][i] = queue[q][i + 1]
         /\ \A p \in Queues \ {q} : queue'[p] = queue[p] /\ Size(p)' = Size(p)
<1>1. queue' = [queue EXCEPT ![q] = Tail(queue[q])] /\ queue[q] # <<>>
  BY DEF Receive
<1>2. queue[q] \in Seq(Content(q)) /\ Len(queue[q]) \in Nat \ {0} /\ DOMAIN queue = Queues
  BY <1>1, EmptySeq DEF QueuesOK
<1>3. /\ Len(Tail(queue[q])) = Len(queue[q]) - 1
      /\ \A i \in 1..Len(Tail(queue[q])) : Tail(queue[q])[i] = queue[q][i + 1]
      /\ Head(queue[q]) = queue[q][1]
  BY <1>1, <1>2, HeadTailProperties
<1>4. /\ queue'[q] = Tail(queue[q])
      /\ \A p \in Queues \ {q} : queue'[p] = queue[p]
  BY <1>1, <1>2
<1> QED
  BY <1>2, <1>3, <1>4 DEF Size, Received

LEMMA PaceTypes ==
  ASSUME IInv, Pace
  PROVE  /\ \A q \in Queues : Size(q) \in Nat
         /\ Taken \in Nat /\ InDecoder \in {0, 1} /\ NotCounted \in {0, 1} /\ NotPushed \in {0, 1}
         /\ Dropping \in {0, 1} /\ videoDecodeCount \in Int /\ curVideoNumber \in Nat
         /\ curAudioNumber \in Nat /\ races \in Nat /\ video.frame \in Nat /\ decoder.frame \in Nat
         /\ reader.frame \in Nat /\ dispTextureSet \in Int /\ Last \in Nat
<1>1. QueuesOK /\ ThreadsOK /\ PlayerOK
  BY DEF IInv
<1>2. video.frame \in 0..Last /\ decoder.frame \in 0..Last /\ reader.frame \in 0..Last /\ Last \in Nat
  BY <1>1, FrameOf DEF ThreadsOK
<1>3. video.frame \in Nat /\ decoder.frame \in Nat /\ reader.frame \in Nat
  BY <1>2, SMT
<1>4. Taken \in Nat
  BY <1>3, SMT DEF Taken
<1>5. dispTextureSet \in Int
  BY <1>1, <1>2, SMT DEF PlayerOK, Nothing
<1> QED
  BY <1>1, <1>2, <1>3, <1>4, <1>5, SizeIsNat
     DEF PlayerOK, Pace, InDecoder, NotCounted, NotPushed, Dropping, Holds

(* What a step leaves alone.                                               *)
LEMMA BeganKept ==
  ASSUME UNCHANGED <<at, first, videoDecodeCount>>, video'.pc = video.pc,
         queue'["ready"] = queue["ready"]
  PROVE  Began => Began'
  BY DEF Began, Size
LEMMA OrderKept ==
  ASSUME UNCHANGED <<first, video, decoder, reader>>,
         queue'["readed"] = queue["readed"], queue'["readed2"] = queue["readed2"]
  PROVE  InOrder => InOrder'
  BY DEF InOrder, Readed2Next, DecoderNext, ReadedNext, ReaderNext, Taken, InDecoder, Holds, Size
LEMMA PicturesKept ==
  ASSUME UNCHANGED <<first, video, videoDecodeCount, curVideoNumber, races>>,
         queue'["decodedTexture"] = queue["decodedTexture"]
  PROVE  Counted /\ Dropped /\ Pictures => Counted' /\ Dropped' /\ Pictures'
<1>1. Taken' = Taken /\ NotCounted' = NotCounted /\ NotPushed' = NotPushed /\ Dropping' = Dropping
  BY DEF Taken, NotCounted, NotPushed, Dropping, Holds
<1> QED
  BY <1>1 DEF Counted, Dropped, Pictures, Size
-----------------------------------------------------------------------------
LEMMA ReaderPaced == ASSUME IInv, Pace, Reader PROVE Pace'
<1>1. /\ UNCHANGED <<at, audioExist, decoder, video, first, videoDecodeCount, curVideoNumber>>
      /\ UNCHANGED <<races, cancelled, dispTextureSet, curAudioNumber>>
  <2>1. ReaderStays
    BY DEF Reader, PopsFreeReadBuffer, ReadFails, ReadsAndPushes
  <2> QED
    BY <2>1, Zenon DEF ReaderStays, counts, mixer, player, stopping
<1> SUFFICES ASSUME Running' PROVE Paced'
  BY <1>1 DEF Pace
<1>2. Running /\ Moving /\ Paced /\ QueuesOK
  BY <1>1, Zenon DEF Running, Moving, Pace, IInv, Flow
<1>3. Display' /\ Taken' = Taken /\ InDecoder' = InDecoder
  BY <1>1, <1>2 DEF Paced, Display, Taken, InDecoder, Holds
<1>4. /\ \A q \in Queues : Size(q) \in Nat
      /\ Taken \in Nat /\ InDecoder \in {0, 1} /\ reader.frame \in Nat
  BY PaceTypes
<1>5. "freeRead" \in Queues /\ "readed" \in Queues /\ "readed2" \in Queues /\ "ready" \in Queues
      /\ "decodedTexture" \in Queues
  BY DEF Queues
<1>6. CASE PopsFreeReadBuffer
  <2>1. \A p \in Queues \ {"freeRead"} : queue'[p] = queue[p] /\ Size(p)' = Size(p)
    BY <1>2, <1>5, <1>6, ReceiveAt DEF PopsFreeReadBuffer
  <2>2. reader.pc = "pop" /\ reader'.frame = reader.frame
    BY <1>6 DEF PopsFreeReadBuffer, IInv, ThreadsOK
  <2>3. InOrder'
    BY <1>1, <1>2, <1>3, <1>5, <2>1, <2>2
       DEF Paced, InOrder, Readed2Next, DecoderNext, ReadedNext, ReaderNext
  <2> QED
    BY <1>1, <1>2, <1>3, <1>5, <2>1, <2>3, BeganKept, PicturesKept DEF Paced
<1>7. CASE ReadFails
  <2>1. /\ \A p \in Queues \ {"ready"} : queue'[p] = queue[p] /\ Size(p)' = Size(p)
        /\ \/ queue'["ready"] = queue["ready"]
           \/ /\ Size("ready")' = Size("ready") + 1
              /\ queue'["ready"][Size("ready") + 1] = FALSE
              /\ \A i \in 1..Size("ready") : queue'["ready"][i] = queue["ready"][i]
    <3>1. CASE Send("ready", FALSE)
      <4>1. FALSE \in Content("ready")
        BY DEF Content
      <4> QED
        BY <1>2, <1>5, <3>1, <4>1, SendAt, Zenon
    <3>2. CASE UNCHANGED queue
      BY <3>2, Zenon DEF Size
    <3> QED
      BY <1>7, <3>1, <3>2 DEF ReadFails
  <2>2. reader'.pc = "kept"
    BY <1>7 DEF ReadFails, IInv, ThreadsOK
  <2>3. InOrder'
    BY <1>1, <1>2, <1>3, <1>5, <2>1, <2>2
       DEF Paced, InOrder, Readed2Next, DecoderNext, ReadedNext, ReaderNext
  <2>4. Began'
    <3>1. ASSUME first PROVE \A i \in 1..Size("ready")' : queue'["ready"][i] = FALSE
      <4>1. \A i \in 1..Size("ready") : queue["ready"][i] = FALSE
        BY <1>2, <3>1 DEF Paced, Began
      <4>2. CASE queue'["ready"] = queue["ready"]
        BY <4>1, <4>2 DEF Size
      <4>3. CASE /\ Size("ready")' = Size("ready") + 1
                 /\ queue'["ready"][Size("ready") + 1] = FALSE
                 /\ \A i \in 1..Size("ready") : queue'["ready"][i] = queue["ready"][i]
        <5>1. Size("ready") \in Nat
          BY <1>4, <1>5
        <5> TAKE i \in 1..Size("ready")'
        <5>2. i \in 1..Size("ready") \/ i = Size("ready") + 1
          BY <4>3, <5>1, SMT
        <5> QED
          BY <4>1, <4>3, <5>2, Zenon
      <4> QED
        BY <2>1, <4>2, <4>3
    <3> QED
      BY <1>1, <1>2, <3>1, Zenon DEF Paced, Began
  <2> QED
    BY <1>1, <1>2, <1>3, <1>5, <2>1, <2>3, <2>4, PicturesKept DEF Paced
<1>8. CASE ReadsAndPushes
  <2>1. /\ Size("readed")' = Size("readed") + 1 /\ queue'["readed"][Size("readed") + 1] = reader.frame
        /\ \A i \in 1..Size("readed") : queue'["readed"][i] = queue["readed"][i]
        /\ \A p \in Queues \ {"readed"} : queue'[p] = queue[p] /\ Size(p)' = Size(p)
    <3>1. reader.frame \in Content("readed")
      BY <1>2, FrameOf DEF IInv, ThreadsOK, Queues
    <3> QED
      BY <1>2, <1>5, <1>8, <3>1, SendAt DEF ReadsAndPushes
  <2>2. /\ reader.pc = "read"
        /\ reader'.pc = "ended" \/ reader'.frame = reader.frame + 1
    BY <1>8 DEF ReadsAndPushes, IInv, ThreadsOK
  <2>3. Size("readed") \in Nat /\ Size("readed2") \in Nat
    BY <1>4, <1>5
  <2>4. reader.frame = Taken + Size("readed2") + InDecoder + Size("readed")
    BY <1>2, <2>2 DEF Paced, InOrder, ReaderNext
  <2>5. queue'["readed2"] = queue["readed2"] /\ Size("readed2")' = Size("readed2")
    BY <1>5, <2>1
  <2>6. Readed2Next' /\ DecoderNext'
    BY <1>1, <1>2, <1>3, <2>5 DEF Paced, InOrder, Readed2Next, DecoderNext
  <2>7. ReaderNext'
    BY <1>3, <1>4, <2>1, <2>2, <2>3, <2>4, <2>5, SMT DEF ReaderNext
  <2>8. ReadedNext'
    <3>1. \A i \in 1..Size("readed") : queue["readed"][i] = Taken + Size("readed2") + InDecoder + i - 1
      BY <1>2 DEF Paced, InOrder, ReadedNext
    <3>2. \A i \in 1..Size("readed") + 1 :
             queue'["readed"][i] = Taken + Size("readed2") + InDecoder + i - 1
      BY <1>4, <2>1, <2>3, <2>4, <3>1, SMT
    <3> QED
      BY <1>3, <2>1, <2>5, <3>2 DEF ReadedNext
  <2> QED
    BY <1>1, <1>2, <1>3, <1>5, <2>1, <2>6, <2>7, <2>8, BeganKept, PicturesKept DEF Paced, InOrder
<1> QED
  BY <1>6, <1>7, <1>8 DEF Reader

LEMMA DecoderPaced == ASSUME IInv, Pace, AudioDecoder PROVE Pace'
<1>1. /\ UNCHANGED <<at, audioExist, reader, video, first, videoDecodeCount, curVideoNumber>>
      /\ UNCHANGED <<races, cancelled, dispTextureSet, curAudioNumber>>
  <2>1. UNCHANGED <<reader, video, counts, errors, mixer, player, stopping>>
    BY DEF AudioDecoder, PopsReadedBuffer, PopsFreeAudioBuffer, PushesDecodedAudioBuffer,
           PushesReadedBuffer2, DecoderGoes
  <2> QED
    BY <2>1, Zenon DEF counts, mixer, player, stopping
<1> SUFFICES ASSUME Running' PROVE Paced'
  BY <1>1 DEF Pace
<1>2. Running /\ Moving /\ Paced /\ QueuesOK /\ InOrder
  BY <1>1, Zenon DEF Running, Moving, Pace, Paced, IInv, Flow
<1>3. Display' /\ Taken' = Taken
  BY <1>1, <1>2 DEF Paced, Display, Taken
<1>4. /\ Taken \in Nat /\ decoder.frame \in Nat /\ reader.frame \in Nat
      /\ Size("readed") \in Nat /\ Size("readed2") \in Nat
  BY PaceTypes DEF Queues
<1>5. {"readed", "readed2", "ready", "decodedTexture", "freeAudio", "decodedAudio"} \subseteq Queues
  BY DEF Queues
(* What the queues before and after the decoder must keep.                 *)
<1>6. ASSUME InOrder', queue'["ready"] = queue["ready"],
             queue'["decodedTexture"] = queue["decodedTexture"]
      PROVE  Paced'
  BY <1>1, <1>2, <1>3, <1>6, BeganKept, PicturesKept DEF Paced
<1>7. CASE PopsReadedBuffer
  <2>1. /\ Size("readed") \in Nat \ {0} /\ Size("readed")' = Size("readed") - 1
        /\ Received("readed") = queue["readed"][1]
        /\ \A i \in 1..Size("readed") - 1 : queue'["readed"][i] = queue["readed"][i + 1]
        /\ \A p \in Queues \ {"readed"} : queue'[p] = queue[p] /\ Size(p)' = Size(p)
    BY <1>2, <1>5, <1>7, ReceiveAt DEF PopsReadedBuffer
  <2>2. decoder.pc = "pop" /\ decoder'.pc = "take" /\ decoder'.frame = Received("readed")
    <3>1. Received("readed") # Junk
      <4>1. Received("readed") \in Content("readed")
        BY <1>1, <1>2, <1>5, <1>7, ReceiveEffect DEF SameUse, PopsReadedBuffer
      <4> QED
        BY <1>2, <4>1, FrameOf DEF Queues
    <3> QED
      BY <1>7, <3>1 DEF PopsReadedBuffer, DecoderGoes, IInv, ThreadsOK
  <2>3. InDecoder = 0 /\ InDecoder' = 1
    BY <2>2 DEF InDecoder, Holds
  <2>4. queue'["readed2"] = queue["readed2"] /\ Size("readed2")' = Size("readed2")
    BY <1>5, <2>1
  <2>5. \A i \in 1..Size("readed") : queue["readed"][i] = Taken + Size("readed2") + i - 1
    BY <1>2, <1>4, <2>3, SMT DEF InOrder, ReadedNext
  <2>6. Readed2Next'
    BY <1>2, <1>3, <2>4 DEF InOrder, Readed2Next
  <2>7. DecoderNext'
    BY <1>3, <1>4, <2>1, <2>2, <2>4, <2>5, SMT DEF DecoderNext
  <2>8. ReadedNext'
    <3>1. \A i \in 1..Size("readed") - 1 : queue'["readed"][i] = Taken + Size("readed2") + 1 + i - 1
      BY <1>4, <2>1, <2>5, SMT
    <3> QED
      BY <1>3, <2>1, <2>3, <2>4, <3>1 DEF ReadedNext
  <2>9. ReaderNext'
    BY <1>1, <1>2, <1>3, <1>4, <2>1, <2>3, <2>4, SMT DEF InOrder, ReaderNext
  <2> QED
    BY <1>5, <1>6, <2>1, <2>6, <2>7, <2>8, <2>9 DEF InOrder
<1>8. CASE PopsFreeAudioBuffer \/ PushesDecodedAudioBuffer
  <2>1. \A p \in Queues \ {"freeAudio", "decodedAudio"} : queue'[p] = queue[p] /\ Size(p)' = Size(p)
    <3>1. CASE PopsFreeAudioBuffer
      BY <1>2, <1>5, <3>1, ReceiveAt DEF PopsFreeAudioBuffer
    <3>2. CASE PushesDecodedAudioBuffer
      <4>1. decoder.frame \in Content("decodedAudio")
        BY <1>2, FrameOf DEF IInv, ThreadsOK, Queues
      <4> QED
        BY <1>2, <1>5, <3>2, <4>1, SendAt DEF PushesDecodedAudioBuffer
    <3> QED
      BY <1>8, <3>1, <3>2
  <2>2. decoder'.frame = decoder.frame /\ InDecoder = 1 /\ InDecoder' = 1
    BY <1>8 DEF PopsFreeAudioBuffer, PushesDecodedAudioBuffer, DecoderGoes, InDecoder, Holds,
                IInv, ThreadsOK
  <2>3. InOrder'
    BY <1>1, <1>2, <1>3, <1>5, <2>1, <2>2
       DEF InOrder, Readed2Next, DecoderNext, ReadedNext, ReaderNext
  <2> QED
    BY <1>5, <1>6, <2>1, <2>3
<1>9. CASE PushesReadedBuffer2
  <2>1. /\ Size("readed2")' = Size("readed2") + 1
        /\ queue'["readed2"][Size("readed2") + 1] = decoder.frame
        /\ \A i \in 1..Size("readed2") : queue'["readed2"][i] = queue["readed2"][i]
        /\ \A p \in Queues \ {"readed2"} : queue'[p] = queue[p] /\ Size(p)' = Size(p)
    <3>1. decoder.frame \in Content("readed2")
      BY <1>2, FrameOf DEF IInv, ThreadsOK, Queues
    <3> QED
      BY <1>2, <1>5, <1>9, <3>1, SendAt DEF PushesReadedBuffer2
  <2>2. decoder.pc = "give" /\ decoder'.pc = "pop"
    BY <1>2, <1>9 DEF PushesReadedBuffer2, DecoderGoes, IInv, ThreadsOK, Again, Moving
  <2>3. InDecoder = 1 /\ InDecoder' = 0
    BY <2>2 DEF InDecoder, Holds
  <2>4. queue'["readed"] = queue["readed"] /\ Size("readed")' = Size("readed")
    BY <1>5, <2>1
  <2>5. decoder.frame = Taken + Size("readed2")
    BY <1>2, <2>3 DEF InOrder, DecoderNext
  <2>6. Readed2Next'
    <3>1. \A i \in 1..Size("readed2") : queue["readed2"][i] = Taken + i - 1
      BY <1>2 DEF InOrder, Readed2Next
    <3>2. \A i \in 1..Size("readed2") + 1 : queue'["readed2"][i] = Taken + i - 1
      BY <1>4, <2>1, <2>5, <3>1, SMT
    <3> QED
      BY <1>3, <2>1, <3>2 DEF Readed2Next
  <2>7. DecoderNext'
    BY <2>3 DEF DecoderNext
  <2>8. ReadedNext'
    <3>1. \A i \in 1..Size("readed") : queue["readed"][i] = Taken + Size("readed2") + 1 + i - 1
      BY <1>2, <2>3 DEF InOrder, ReadedNext
    <3>2. \A i \in 1..Size("readed") : queue["readed"][i] = Taken + (Size("readed2") + 1) + 0 + i - 1
      BY <1>4, <3>1, SMT
    <3> QED
      BY <1>3, <2>1, <2>3, <2>4, <3>2 DEF ReadedNext
  <2>9. ReaderNext'
    BY <1>1, <1>2, <1>3, <1>4, <2>1, <2>3, <2>4, SMT DEF InOrder, ReaderNext
  <2> QED
    BY <1>5, <1>6, <2>1, <2>6, <2>7, <2>8, <2>9 DEF InOrder
<1> QED
  BY <1>7, <1>8, <1>9 DEF AudioDecoder
-----------------------------------------------------------------------------
(* The video decoder, from and to a place, without the queues it takes     *)
(* frames from or puts pictures in.                                        *)
LEMMA VideoOrder ==
  ASSUME UNCHANGED <<decoder, reader>>, Taken' = Taken,
         queue'["readed"] = queue["readed"], queue'["readed2"] = queue["readed2"]
  PROVE  InOrder => InOrder'
  BY DEF InOrder, Readed2Next, DecoderNext, ReadedNext, ReaderNext, InDecoder, Holds, Size
LEMMA SamePictures ==
  ASSUME UNCHANGED <<curVideoNumber, races>>, queue'["decodedTexture"] = queue["decodedTexture"]
  PROVE  Pictures => Pictures'
  BY DEF Pictures, Size

LEMMA VideoPaced == ASSUME IInv, Pace, VideoDecoder PROVE Pace'
<1>1. /\ UNCHANGED <<at, audioExist, reader, decoder, curVideoNumber>>
      /\ UNCHANGED <<races, cancelled, dispTextureSet, curAudioNumber>>
  <2>1. VideoStays /\ UNCHANGED races
    BY Zenon DEF VideoDecoder, Chooses, Pops, PopsBuffer, PopsFreeTextureSet, DecodeFails,
       DecodesAndPushes, CountsFrame, PushesFreeReadBuffer, CountsLate, counts
  <2> QED
    BY <2>1, Zenon DEF VideoStays, mixer, player, stopping
<1> SUFFICES ASSUME Running' PROVE Paced'
  BY <1>1 DEF Pace
<1>2. Running /\ Moving /\ Paced /\ QueuesOK
  BY <1>1, Zenon DEF Running, Moving, Pace, IInv, Flow
<1>3. Began /\ InOrder /\ Counted /\ Dropped /\ Pictures /\ Display'
  BY <1>1, <1>2 DEF Paced, Display
<1>4. /\ video.frame \in Nat /\ decoder.frame \in Nat /\ reader.frame \in Nat
      /\ Size("readed") \in Nat /\ Size("readed2") \in Nat /\ Size("decodedTexture") \in Nat
      /\ Size("ready") \in Nat
      /\ videoDecodeCount \in Int /\ curVideoNumber \in Nat /\ races \in Nat /\ Last \in Nat
      /\ Taken \in Nat /\ InDecoder \in {0, 1}
  BY PaceTypes DEF Queues
<1>5. {"freeRead", "readed", "readed2", "ready", "decodedTexture", "freeTexture"} \subseteq Queues
  BY DEF Queues
<1>6. video = [pc |-> video.pc, frame |-> video.frame, late |-> video.late] /\ video.late \in BOOLEAN
  BY DEF IInv, ThreadsOK
(* A step of the thread alone.                                             *)
<1>7. ASSUME NEW from, NEW to, VideoGoes(from, to)
      PROVE  video.pc = from /\ video'.pc = to /\ video'.frame = video.frame /\ video'.late = video.late
  BY <1>6, <1>7 DEF VideoGoes
<1>8. CASE Chooses
  <2>1. /\ video.pc = "next" /\ video'.frame = video.frame /\ video'.late = video.late
        /\ video'.pc = "pop" \/ (video'.pc = "skip" /\ videoDecodeCount < 0)
        /\ UNCHANGED <<queue, first, videoDecodeCount>>
    <3>1. UNCHANGED <<queue, first, videoDecodeCount>>
      BY <1>8, Zenon DEF Chooses, counts
    <3>2. CASE audioExist /\ IsLate
      BY <1>7, <1>8, <3>1, <3>2 DEF Chooses, IsLate
    <3>3. CASE ~(audioExist /\ IsLate)
      BY <1>7, <1>8, <3>1, <3>3 DEF Chooses
    <3> QED
      BY <3>2, <3>3
  <2>2. first => video'.pc = "pop"
    BY <1>3, <1>4, <2>1, SMT DEF Began
  <2>3. Taken' = Taken
    BY <2>1, <2>2 DEF Taken
  <2>4. NotCounted = 0 /\ NotCounted' = 0 /\ NotPushed = 0 /\ NotPushed' = 0
        /\ Dropping' \in {0, 1} /\ (Dropping' = 1 => videoDecodeCount < 0)
    BY <2>1 DEF NotCounted, NotPushed, Dropping, Holds
  <2>5. Size("ready")' = Size("ready") /\ Size("decodedTexture")' = Size("decodedTexture")
    BY <2>1 DEF Size
  <2>6. Began'
    BY <1>1, <1>3, <2>1, <2>2, <2>5 DEF Began
  <2>7. Counted'
    BY <1>1, <1>3, <2>1, <2>3, <2>4 DEF Counted
  <2>8. Dropped'
    <3>1. Taken <= videoDecodeCount + curVideoNumber + races
      BY <1>3, <1>4, <2>4, SMT DEF Counted
    <3>2. Taken <= curVideoNumber + races + Size("decodedTexture")
      <4>1. Dropping = 0
        BY <2>1 DEF Dropping, Holds
      <4> QED
        BY <1>3, <1>4, <2>4, <4>1, SMT DEF Dropped
    <3> QED
      BY <1>1, <1>4, <2>3, <2>4, <2>5, <3>1, <3>2, SMT DEF Dropped
  <2> QED
    BY <1>1, <1>3, <2>1, <2>3, <2>6, <2>7, <2>8, VideoOrder, SamePictures DEF Paced
<1>9. CASE CountsLate
  <2>1. /\ video.pc = "countLate" /\ video'.pc = "next" /\ video'.frame = video.frame
        /\ videoDecodeCount' = videoDecodeCount + 1 /\ UNCHANGED <<queue, first>>
    BY <1>7, <1>9 DEF CountsLate
  <2>2. ~first
    BY <1>3, <2>1 DEF Began
  <2>3. Taken' = Taken
    BY <2>1, <2>2 DEF Taken
  <2>4. NotCounted = 1 /\ NotCounted' = 0 /\ NotPushed = 0 /\ NotPushed' = 0
        /\ Dropping = 0 /\ Dropping' = 0
    BY <2>1 DEF NotCounted, NotPushed, Dropping, Holds
  <2>5. Began'
    BY <2>1, <2>2 DEF Began
  <2>6. Counted'
    BY <1>1, <1>3, <1>4, <2>1, <2>3, <2>4, SMT DEF Counted
  <2>7. Dropped'
    BY <1>1, <1>3, <2>1, <2>3, <2>4 DEF Dropped, Size
  <2> QED
    BY <1>1, <1>3, <2>1, <2>3, <2>5, <2>6, <2>7, VideoOrder, SamePictures DEF Paced
<1>10. ASSUME NEW from \in {"skip", "pop"}, PopsBuffer(from, "readed2")
       PROVE  Paced'
  <2>1. /\ Size("readed2") \in Nat \ {0} /\ Size("readed2")' = Size("readed2") - 1
        /\ Received("readed2") = queue["readed2"][1]
        /\ \A i \in 1..Size("readed2") - 1 : queue'["readed2"][i] = queue["readed2"][i + 1]
        /\ \A p \in Queues \ {"readed2"} : queue'[p] = queue[p] /\ Size(p)' = Size(p)
    BY <1>2, <1>5, <1>10, ReceiveAt DEF PopsBuffer
  <2>2. Received("readed2") # Junk
    <3>1. Received("readed2") \in Content("readed2")
      BY <1>1, <1>2, <1>5, <1>10, ReceiveEffect DEF SameUse, PopsBuffer
    <3> QED
      BY <1>2, <3>1, FrameOf DEF Queues
  <2>3. /\ video.pc = from /\ video'.frame = Received("readed2")
        /\ \/ video'.pc = "texture"
           \/ video'.pc = "free" /\ video'.late /\ from = "skip"
    BY <1>10, <2>2 DEF PopsBuffer
  <2>4. UNCHANGED <<first, videoDecodeCount>>
    BY <1>10, Zenon DEF PopsBuffer, counts
  <2>5. Received("readed2") = Taken
    <3>1. queue["readed2"][1] = Taken + 1 - 1
      BY <1>3, <2>1, SMT DEF InOrder, Readed2Next
    <3> QED
      BY <1>4, <2>1, <3>1, SMT
  <2>6. Taken' = Taken + 1
    BY <2>3, <2>5 DEF Taken
  <2>7. /\ NotCounted = 0 /\ NotCounted' = 1 /\ NotPushed = 0
        /\ \/ Dropping = 1 /\ Dropping' = 0 /\ NotPushed' \in {0, 1}
           \/ Dropping = 0 /\ Dropping' = 0 /\ NotPushed' = 1
    <3>1. CASE from = "skip"
      BY <2>3, <3>1 DEF NotCounted, NotPushed, Dropping, Holds
    <3>2. CASE from = "pop"
      BY <2>3, <3>2 DEF NotCounted, NotPushed, Dropping, Holds
    <3> QED
      BY <3>1, <3>2
  <2>8. Began'
    <3>1. first => video'.pc = "texture"
      BY <1>3, <2>3 DEF Began
    <3> QED
      BY <1>1, <1>3, <1>5, <2>1, <2>4, <3>1 DEF Began
  <2>9. InOrder'
    <3>1. /\ queue'["readed"] = queue["readed"] /\ Size("readed")' = Size("readed")
          /\ InDecoder' = InDecoder /\ UNCHANGED <<decoder, reader>>
      BY <1>1, <1>5, <2>1 DEF InDecoder, Holds
    <3>2. Taken' + Size("readed2")' = Taken + Size("readed2")
      BY <1>4, <2>1, <2>6, SMT
    <3>3. Readed2Next'
      <4>1. \A i \in 1..Size("readed2") : queue["readed2"][i] = Taken + i - 1
        BY <1>3 DEF InOrder, Readed2Next
      <4>2. \A i \in 1..Size("readed2") - 1 : queue'["readed2"][i] = Taken + 1 + i - 1
        BY <1>4, <2>1, <4>1, SMT
      <4> QED
        BY <2>1, <2>6, <4>2 DEF Readed2Next
    <3>4. DecoderNext'
      BY <1>3, <3>1, <3>2 DEF InOrder, DecoderNext
    <3>5. ReadedNext' /\ ReaderNext'
      BY <1>3, <3>1, <3>2 DEF InOrder, ReadedNext, ReaderNext
    <3> QED
      BY <3>3, <3>4, <3>5 DEF InOrder
  <2>10. Counted'
    BY <1>1, <1>3, <1>4, <2>4, <2>6, <2>7, SMT DEF Counted
  <2>11. Size("decodedTexture")' = Size("decodedTexture")
         /\ queue'["decodedTexture"] = queue["decodedTexture"]
    BY <1>5, <2>1
  <2>12. Dropped'
    BY <1>1, <1>3, <1>4, <2>6, <2>7, <2>11, SMT DEF Dropped
  <2> QED
    BY <1>1, <1>3, <2>8, <2>9, <2>10, <2>11, <2>12, SamePictures DEF Paced
<1>11. CASE PopsFreeTextureSet
  <2>1. \A p \in Queues \ {"freeTexture"} : queue'[p] = queue[p] /\ Size(p)' = Size(p)
    BY <1>2, <1>5, <1>11, ReceiveAt DEF PopsFreeTextureSet
  <2>2. Received("freeTexture") # Junk
    <3>1. Received("freeTexture") \in Content("freeTexture")
      BY <1>1, <1>2, <1>5, <1>11, ReceiveEffect DEF SameUse, PopsFreeTextureSet
    <3> QED
      BY <1>2, <3>1, FrameOf DEF Queues
  <2>3. /\ video.pc = "texture" /\ video'.pc = "decode" /\ video'.frame = video.frame
        /\ UNCHANGED <<first, videoDecodeCount>>
    <3>1. UNCHANGED <<first, videoDecodeCount>>
      BY <1>11, Zenon DEF PopsFreeTextureSet, counts
    <3> QED
      BY <1>7, <1>11, <2>2, <3>1 DEF PopsFreeTextureSet
  <2>4. Taken' = Taken /\ NotCounted' = NotCounted /\ NotPushed' = NotPushed /\ Dropping' = Dropping
    BY <2>3 DEF Taken, NotCounted, NotPushed, Dropping, Holds
  <2>5. Began' /\ Counted' /\ Dropped'
    BY <1>1, <1>3, <1>5, <2>1, <2>3, <2>4 DEF Began, Counted, Dropped
  <2> QED
    BY <1>1, <1>3, <1>5, <2>1, <2>4, <2>5, VideoOrder, SamePictures DEF Paced
<1>12. CASE DecodesAndPushes
  <2>1. /\ Size("decodedTexture")' = Size("decodedTexture") + 1
        /\ queue'["decodedTexture"][Size("decodedTexture") + 1] = video.frame
        /\ \A i \in 1..Size("decodedTexture") :
              queue'["decodedTexture"][i] = queue["decodedTexture"][i]
        /\ \A p \in Queues \ {"decodedTexture"} : queue'[p] = queue[p] /\ Size(p)' = Size(p)
    <3>1. video.frame \in Content("decodedTexture")
      BY <1>2, FrameOf DEF IInv, ThreadsOK, Queues
    <3> QED
      BY <1>2, <1>5, <1>12, <3>1, SendAt DEF DecodesAndPushes
  <2>2. /\ video.pc = "decode" /\ video'.pc = "count" /\ video'.frame = video.frame
        /\ UNCHANGED <<first, videoDecodeCount>>
    <3>1. UNCHANGED <<first, videoDecodeCount>>
      BY <1>12, Zenon DEF DecodesAndPushes, counts
    <3> QED
      BY <1>7, <1>12, <3>1 DEF DecodesAndPushes
  <2>3. Taken = video.frame + 1 /\ Taken' = Taken
    BY <2>2 DEF Taken
  <2>4. /\ NotCounted' = NotCounted /\ NotPushed = 1 /\ NotPushed' = 0
        /\ Dropping = 0 /\ Dropping' = 0
    BY <2>2 DEF NotCounted, NotPushed, Dropping, Holds
  <2>5. Began' /\ Counted'
    BY <1>1, <1>3, <1>5, <2>1, <2>2, <2>3, <2>4 DEF Began, Counted
  <2>6. video.frame <= curVideoNumber + races + Size("decodedTexture")
    BY <1>3, <1>4, <2>3, <2>4, SMT DEF Dropped
  <2>7. Dropped'
    BY <1>1, <1>4, <2>1, <2>3, <2>4, <2>6, SMT DEF Dropped
  <2>8. Pictures'
    <3>1. \A i \in 1..Size("decodedTexture") :
             queue["decodedTexture"][i] <= curVideoNumber + races + i - 1
      BY <1>3 DEF Pictures
    <3>2. \A i \in 1..Size("decodedTexture") + 1 :
             queue'["decodedTexture"][i] <= curVideoNumber + races + i - 1
      BY <1>4, <2>1, <2>6, <3>1, SMT
    <3> QED
      BY <1>1, <2>1, <3>2 DEF Pictures
  <2> QED
    BY <1>1, <1>3, <1>5, <2>1, <2>3, <2>5, <2>7, <2>8, VideoOrder DEF Paced
<1>13. CASE DecodeFails \/ CountsFrame
  <2>1. /\ \A p \in Queues \ {"ready"} : queue'[p] = queue[p] /\ Size(p)' = Size(p)
    <3>1. ASSUME NEW told \in BOOLEAN, Send("ready", told)
          PROVE  \A p \in Queues \ {"ready"} : queue'[p] = queue[p] /\ Size(p)' = Size(p)
      <4>1. told \in Content("ready")
        BY DEF Content
      <4> QED
        BY <1>2, <1>5, <3>1, <4>1, SendAt, Zenon
    <3>2. CASE UNCHANGED queue
      BY <3>2, Zenon DEF Size
    <3>3. Send("ready", FALSE) \/ Send("ready", TRUE) \/ UNCHANGED queue
      BY <1>13, Zenon DEF DecodeFails, CountsFrame
    <3> QED
      BY <3>1, <3>2, <3>3
  <2>2. /\ first' = FALSE /\ video'.frame = video.frame /\ video'.late = video.late
        /\ \/ video.pc = "decode" /\ video'.pc = "suspended" /\ videoDecodeCount' = videoDecodeCount
           \/ video.pc = "count" /\ video'.pc = "free" /\ videoDecodeCount' = videoDecodeCount + 1
    BY <1>7, <1>13 DEF DecodeFails, CountsFrame
  <2>3. Taken' = Taken
    BY <2>2 DEF Taken
  <2>4. Began'
    BY <2>2 DEF Began
  <2>5. NotPushed' = NotPushed /\ Dropping' = Dropping
    BY <2>2 DEF NotPushed, Dropping, Holds
  <2>6. NotCounted = 1 /\ NotCounted' \in {0, 1}
        /\ (NotCounted' = 1 \/ videoDecodeCount' = videoDecodeCount + 1)
        /\ videoDecodeCount' \in {videoDecodeCount, videoDecodeCount + 1}
    BY <2>2 DEF NotCounted, Holds
  <2>7. Counted'
    <3>1. Taken - 1 <= videoDecodeCount + curVideoNumber + races
      BY <1>3, <2>6 DEF Counted
    <3>2. CASE NotCounted' = 1
      <4>1. CASE videoDecodeCount' = videoDecodeCount
        BY <1>1, <2>3, <3>1, <3>2, <4>1 DEF Counted
      <4>2. CASE videoDecodeCount' = videoDecodeCount + 1
        BY <1>1, <1>4, <2>3, <3>1, <3>2, <4>2, SMT DEF Counted
      <4> QED
        BY <2>6, <4>1, <4>2
    <3>3. CASE NotCounted' = 0 /\ videoDecodeCount' = videoDecodeCount + 1
      BY <1>1, <1>4, <2>3, <3>1, <3>3, SMT DEF Counted
    <3> QED
      BY <2>6, <3>2, <3>3
  <2>8. Dropped'
    BY <1>1, <1>3, <1>5, <2>1, <2>3, <2>5 DEF Dropped
  <2> QED
    BY <1>1, <1>3, <1>5, <2>1, <2>3, <2>4, <2>7, <2>8, VideoOrder, SamePictures DEF Paced
<1>14. CASE PushesFreeReadBuffer
  <2>1. \A p \in Queues \ {"freeRead"} : queue'[p] = queue[p] /\ Size(p)' = Size(p)
    <3>1. Buffer \in Content("freeRead")
      BY FrameOf DEF Queues
    <3> QED
      BY <1>2, <1>5, <1>14, <3>1, SendAt DEF PushesFreeReadBuffer, GivesBack
  <2>2. /\ video.pc = "free" /\ video'.frame = video.frame /\ video'.late = video.late
        /\ video'.pc = IF video.late THEN "countLate" ELSE "next"
        /\ UNCHANGED <<first, videoDecodeCount>>
    <3>1. UNCHANGED <<first, videoDecodeCount>>
      BY <1>14, Zenon DEF PushesFreeReadBuffer, counts
    <3>2. Again("video", "next") = "next"
      BY <1>2 DEF Again, Moving
    <3> QED
      BY <1>7, <1>14, <3>1, <3>2 DEF PushesFreeReadBuffer
  <2>3. ~first
    BY <1>3, <2>2 DEF Began
  <2>4. Taken' = Taken
    BY <2>2, <2>3 DEF Taken
  <2>5. NotCounted' = NotCounted /\ NotPushed' = NotPushed /\ Dropping' = Dropping
    <3>1. CASE video.late
      BY <2>2, <3>1 DEF NotCounted, NotPushed, Dropping, Holds
    <3>2. CASE ~video.late
      BY <2>2, <3>2 DEF NotCounted, NotPushed, Dropping, Holds
    <3> QED
      BY <3>1, <3>2
  <2>6. Began' /\ Counted' /\ Dropped'
    BY <1>1, <1>3, <1>5, <2>1, <2>2, <2>3, <2>4, <2>5 DEF Began, Counted, Dropped
  <2> QED
    BY <1>1, <1>3, <1>5, <2>1, <2>4, <2>6, VideoOrder, SamePictures DEF Paced
<1>15. Pops => \E from \in {"skip", "pop"} : PopsBuffer(from, "readed2")
  BY <1>2 DEF Pops, Running
<1> QED
  BY <1>8, <1>9, <1>10, <1>11, <1>12, <1>13, <1>14, <1>15 DEF VideoDecoder
-----------------------------------------------------------------------------
LEMMA MixPaced == ASSUME IInv, Pace, MixAudio PROVE Pace'
<1>1. /\ UNCHANGED <<at, audioExist, reader, decoder, video, first, videoDecodeCount>>
      /\ UNCHANGED <<curVideoNumber, races, dispTextureSet>>
  <2>1. MixStays
    BY Zenon DEF MixAudio, MixBegins, PopsDecodedAudioBuffer, PushesFreeAudioBuffer, MixEnds
  <2> QED
    BY <2>1, Zenon DEF MixStays, threads, counts, player
<1> SUFFICES ASSUME Running' PROVE Paced'
  BY <1>1 DEF Pace
<1>2. Running /\ Paced /\ QueuesOK
  BY <1>1, Zenon DEF Running, Pace, IInv
<1>3. {"readed", "readed2", "ready", "decodedTexture", "freeAudio", "decodedAudio"} \subseteq Queues
  BY DEF Queues
<1>4. /\ \A p \in Queues \ {"freeAudio", "decodedAudio"} : queue'[p] = queue[p]
      /\ curAudioNumber' \in {curAudioNumber, curAudioNumber + 1}
  <2>1. CASE MixBegins \/ MixEnds
    BY <2>1 DEF MixBegins, MixEnds
  <2>2. CASE PopsDecodedAudioBuffer
    BY <1>2, <1>3, <2>2, ReceiveAt DEF PopsDecodedAudioBuffer
  <2>3. CASE PushesFreeAudioBuffer
    <3>1. Buffer \in Content("freeAudio")
      BY FrameOf DEF Queues
    <3>2. CASE Send("freeAudio", Buffer)
      BY <1>2, <1>3, <2>3, <3>1, <3>2, SendAt DEF PushesFreeAudioBuffer
    <3>3. CASE UNCHANGED queue
      BY <2>3, <3>3 DEF PushesFreeAudioBuffer
    <3> QED
      BY <2>3, <3>2, <3>3 DEF PushesFreeAudioBuffer, TrySend
  <2> QED
    BY <2>1, <2>2, <2>3 DEF MixAudio
<1>5. Display'
  <2>1. /\ dispTextureSet <= curAudioNumber + 1 + races
        /\ dispTextureSet \in Int /\ curAudioNumber \in Nat /\ races \in Nat
    BY <1>2, PaceTypes DEF Paced, Display
  <2>2. CASE curAudioNumber' = curAudioNumber
    BY <1>1, <2>1, <2>2 DEF Display
  <2>3. CASE curAudioNumber' = curAudioNumber + 1
    BY <1>1, <2>1, <2>3, SMT DEF Display
  <2> QED
    BY <1>4, <2>2, <2>3
<1> QED
  BY <1>1, <1>2, <1>3, <1>4, <1>5, BeganKept, OrderKept, PicturesKept DEF Paced

(* Steps of the game that touch neither pictures nor frames.               *)
LEMMA GamePaced ==
  ASSUME IInv, Pace, Play \/ Pause \/ PlayFails \/ DrawDone PROVE Pace'
<1>1. /\ UNCHANGED <<at, audioExist, reader, decoder, video, first, videoDecodeCount>>
      /\ UNCHANGED <<curVideoNumber, races, dispTextureSet, curAudioNumber>>
  <2>1. GameStays /\ UNCHANGED <<at, audioExist, curVideoNumber, dispTextureSet>>
    BY Zenon DEF Play, Pause, PlayFails, DrawDone, player
  <2> QED
    BY <2>1, Zenon DEF GameStays, threads, counts, mixer
<1> SUFFICES ASSUME Running' PROVE Paced'
  BY <1>1 DEF Pace
<1>2. Running /\ Paced /\ DOMAIN queue = Queues
  BY <1>1, Zenon DEF Running, Pace, IInv, QueuesOK
<1>3. {"readed", "readed2", "ready", "decodedTexture", "used", "freeTexture"} \subseteq Queues
  BY DEF Queues
<1>4. \A p \in Queues \ {"used", "freeTexture"} : queue'[p] = queue[p]
  <2>1. CASE UNCHANGED queue
    BY <2>1
  <2>2. CASE DrawDone
    <3>1. PICK f : queue' = [queue EXCEPT !["used"] = <<>>, !["freeTexture"] = f]
      BY <2>2 DEF DrawDone
    <3> QED
      BY <1>2, <1>3, <3>1
  <2> QED
    BY <2>1, <2>2 DEF Play, Pause, PlayFails
<1>5. Display'
  BY <1>1, <1>2 DEF Paced, Display
<1> QED
  BY <1>1, <1>2, <1>3, <1>4, <1>5, BeganKept, OrderKept, PicturesKept DEF Paced

LEMMA WaitPaced == ASSUME IInv, Pace, WaitUntilPrepare PROVE Pace'
<1>1. /\ UNCHANGED <<audioExist, reader, decoder, video, first, videoDecodeCount>>
      /\ UNCHANGED <<curVideoNumber, races, dispTextureSet, curAudioNumber>>
      /\ at = "waiting" /\ Receive("ready")
      /\ at' = "open" => Received("ready")
      /\ at' \in {"open", "failed"}
  <2>1. GameStays /\ UNCHANGED <<audioExist, curVideoNumber, dispTextureSet>>
    BY Zenon DEF WaitUntilPrepare
  <2>2. UNCHANGED <<reader, decoder, video, first, videoDecodeCount, races, curAudioNumber>>
    BY <2>1, Zenon DEF GameStays, threads, counts, mixer
  <2> QED
    BY <2>1, <2>2 DEF WaitUntilPrepare
<1> SUFFICES ASSUME Running' PROVE Paced'
  BY <1>1 DEF Pace
<1>2. Running /\ Paced /\ QueuesOK
  BY <1>1, Zenon DEF Running, Pace, IInv
<1>3. {"readed", "readed2", "ready", "decodedTexture"} \subseteq Queues
  BY DEF Queues
<1>4. /\ Size("ready") \in Nat \ {0} /\ Received("ready") = queue["ready"][1]
      /\ \A p \in Queues \ {"ready"} : queue'[p] = queue[p]
  BY <1>1, <1>2, <1>3, ReceiveAt
<1>5. ~first
  <2>1. queue["ready"][1] # FALSE
    BY <1>1, <1>4 DEF Running
  <2>2. 1 \in 1..Size("ready")
    BY <1>4, SMT
  <2> QED
    BY <1>2, <2>1, <2>2 DEF Paced, Began
<1>6. Began' /\ Display'
  BY <1>1, <1>2, <1>5 DEF Paced, Began, Display
<1> QED
  BY <1>1, <1>2, <1>3, <1>4, <1>6, OrderKept, PicturesKept DEF Paced

LEMMA StopPaced == ASSUME IInv, Pace, StopBegins \/ StopGoesOn PROVE Pace'
<1>1. at' \in {"stopping", "over"} /\ races' \in {races, 0}
  <2>1. CASE StopBegins
    BY <2>1 DEF StopBegins
  <2>2. CASE StopGoesOn
    <3>1. GameStays
      BY <2>2 DEF StopGoesOn
    <3>2. races' = races
      BY <3>1, Zenon DEF GameStays, counts
    <3> QED
      BY <2>2, <3>2 DEF StopGoesOn
  <2> QED
    BY <2>1, <2>2
<1> QED
  BY <1>1 DEF Pace, Running

LEMMA PreparePaced == ASSUME IInv, Prepare PROVE Pace'
<1>1. /\ at' = "waiting" /\ first' = TRUE /\ races' = 0 /\ videoDecodeCount' = 0
      /\ curVideoNumber' = 0 /\ dispTextureSet' = Nothing /\ curAudioNumber' = 0
      /\ reader' = NewThread /\ video' = [NewThread EXCEPT !.pc = "next"]
      /\ decoder' \in {NewThread, NoThread}
      /\ queue' = [q \in DOMAIN Capacity |->
                    IF q \in {"freeRead", "freeTexture"} \/ (q = "freeAudio" /\ audioExist')
                    THEN Filled(Capacity[q]) ELSE <<>>]
  BY DEF Prepare
<1>2. /\ video'.pc = "next" /\ reader'.pc = "pop" /\ reader'.frame = 0
      /\ decoder'.pc \in {"pop", "ended"}
  BY <1>1 DEF NewThread, NoThread
<1>3. \A q \in {"readed", "readed2", "decodedTexture", "ready"} : queue'[q] = <<>> /\ Size(q)' = 0
  <2>1. \A q \in {"readed", "readed2", "decodedTexture", "ready"} : queue'[q] = <<>>
    BY <1>1, CapacityIs DEF Queues
  <2> QED
    BY <2>1, EmptySeq DEF Size
<1>4. Taken' = 0 /\ InDecoder' = 0 /\ NotCounted' = 0 /\ NotPushed' = 0 /\ Dropping' = 0
  BY <1>1, <1>2 DEF Taken, InDecoder, NotCounted, NotPushed, Dropping, Holds
<1>5. \A i \in 1..0 : FALSE
  BY SMT
<1>6. Began'
  BY <1>1, <1>2, <1>3, <1>5 DEF Began
<1>7. InOrder'
  BY <1>2, <1>3, <1>4, <1>5, SMT DEF InOrder, Readed2Next, DecoderNext, ReadedNext, ReaderNext
<1>8. Counted' /\ Dropped' /\ Pictures'
  BY <1>1, <1>3, <1>4, <1>5, SMT DEF Counted, Dropped, Pictures
<1>9. Display'
  BY <1>1, SMT DEF Display, Nothing
<1> QED
  BY <1>1, <1>6, <1>7, <1>8, <1>9 DEF Pace, Paced

LEMMA PlayControlPaced ==
  ASSUME IInv, Pace, NEW timing \in BOOLEAN, PlayControl(timing) PROVE Pace'
<1>1. /\ UNCHANGED <<at, audioExist, reader, decoder, video, first, curAudioNumber>>
  <2>1. UNCHANGED <<threads, first, errors, mixer, at, audioExist, stopping>>
    BY Zenon DEF PlayControl
  <2> QED
    BY <2>1, Zenon DEF threads, mixer
<1>2. \/ UNCHANGED <<queue, dispTextureSet, videoDecodeCount, races, curVideoNumber>>
      \/ audioExist /\ ~AheadOfSound /\ Shows /\ Uncounts /\ curVideoNumber' = curVideoNumber + 1
      \/ ~audioExist /\ UNCHANGED races
  BY Zenon DEF PlayControl
<1>3. at = "open" /\ QueuesOK
  BY DEF PlayControl, IInv
<1>4. races \in Nat
  BY DEF Pace
<1>5. CASE UNCHANGED <<queue, dispTextureSet, videoDecodeCount, races, curVideoNumber>>
  <2> SUFFICES ASSUME Running' PROVE Paced'
    BY <1>4, <1>5 DEF Pace
  <2>1. Paced
    BY <1>1, Zenon DEF Running, Pace
  <2>2. Display'
    BY <1>1, <1>5, <2>1 DEF Paced, Display
  <2> QED
    BY <1>1, <1>5, <2>1, <2>2, BeganKept, OrderKept, PicturesKept DEF Paced
<1>6. CASE ~audioExist /\ UNCHANGED races
  BY <1>1, <1>4, <1>6 DEF Pace, Running
<1>7. CASE audioExist /\ ~AheadOfSound /\ Shows /\ Uncounts /\ curVideoNumber' = curVideoNumber + 1
  <2>1. Paced
    BY <1>3, <1>7, Zenon DEF Pace, Running
  <2>2. /\ Size("decodedTexture") \in Nat /\ Taken \in Nat /\ NotCounted \in {0, 1}
        /\ NotPushed \in {0, 1} /\ Dropping \in {0, 1}
        /\ videoDecodeCount \in Int /\ curVideoNumber \in Nat
        /\ curAudioNumber \in Nat /\ dispTextureSet \in Int
    BY PaceTypes DEF Queues
  <2>3. /\ Taken' = Taken /\ NotCounted' = NotCounted /\ NotPushed' = NotPushed
        /\ Dropping' = Dropping
    BY <1>1 DEF Taken, NotCounted, NotPushed, Dropping, Holds
  <2>4. PICK r \in Nat, d \in Int : /\ races' = r /\ videoDecodeCount' = d
                                   /\ r >= races /\ d + r >= videoDecodeCount + races - 1
    <3>1. CASE videoDecodeCount' = videoDecodeCount - 1 /\ UNCHANGED races
      BY <1>4, <2>2, <3>1, SMT
    <3>2. CASE races' = races + 1 /\ videoDecodeCount' = videoDecodeCount - 0
      BY <1>4, <2>2, <3>2, SMT
    <3>3. CASE races' = races + 1 /\ videoDecodeCount' = videoDecodeCount - 2
      BY <1>4, <2>2, <3>3, SMT
    <3> QED
      BY <1>7, <3>1, <3>2, <3>3 DEF Uncounts
  (* The queue of pictures: either nothing was there, or its first is shown. *)
  <2>5. /\ \A p \in Queues \ {"decodedTexture", "used"} : queue'[p] = queue[p]
        /\ \/ UNCHANGED <<queue, dispTextureSet>>
           \/ /\ Size("decodedTexture") # 0 /\ dispTextureSet' = queue["decodedTexture"][1]
              /\ Size("decodedTexture")' = Size("decodedTexture") - 1
              /\ \A i \in 1..Size("decodedTexture") - 1 :
                    queue'["decodedTexture"][i] = queue["decodedTexture"][i + 1]
    <3>1. CASE Popped = Nothing
      BY <1>7, <3>1 DEF Shows
    <3>2. CASE Popped # Nothing
      <4> DEFINE old == queue["decodedTexture"]
      <4>1. old # <<>> /\ Popped = Head(old)
        BY <3>2 DEF Popped, Received
      <4>2. old \in Seq(Content("decodedTexture")) /\ DOMAIN queue = Queues
        BY <1>3 DEF QueuesOK, Queues
      <4>3. /\ Len(old) \in Nat \ {0} /\ Len(Tail(old)) = Len(old) - 1
            /\ \A i \in 1..Len(Tail(old)) : Tail(old)[i] = old[i + 1]
            /\ Head(old) = old[1]
        BY <4>1, <4>2, HeadTailProperties, EmptySeq
      <4>4. PICK used : queue' = [queue EXCEPT !["decodedTexture"] = Tail(old), !["used"] = used]
        BY <1>7, <3>2 DEF Shows
      <4>5. /\ queue'["decodedTexture"] = Tail(old)
            /\ \A p \in Queues \ {"decodedTexture", "used"} : queue'[p] = queue[p]
        <5> HIDE DEF old
        <5> QED
          BY <4>2, <4>4 DEF Queues
      <4>6. dispTextureSet' = Popped
        BY <1>7, <3>2 DEF Shows
      <4> QED
        BY <4>1, <4>3, <4>5, <4>6 DEF Size
    <3> QED
      BY <3>1, <3>2
  <2>6. queue'["ready"] = queue["ready"] /\ queue'["readed"] = queue["readed"]
        /\ queue'["readed2"] = queue["readed2"]
    BY <2>5 DEF Queues
  <2>7. InOrder'
    BY <1>1, <2>1, <2>6, OrderKept DEF Paced
  <2>8. Began'
    BY <1>1, <1>3, <2>1 DEF Paced, Began
  <2>9. Counted'
    <3>1. Taken - NotCounted <= videoDecodeCount + curVideoNumber + races
      BY <2>1 DEF Paced, Counted
    <3>2. Taken - NotCounted <= d + (curVideoNumber + 1) + r
      BY <1>4, <2>2, <2>4, <3>1, SMT
    <3> QED
      BY <1>7, <2>3, <2>4, <3>2 DEF Counted
  <2>10. \A i \in 1..Size("decodedTexture") :
            queue["decodedTexture"][i] <= curVideoNumber + races + i - 1
    BY <2>1 DEF Paced, Pictures
  <2>11. Taken - NotPushed + Dropping <= curVideoNumber + races + Size("decodedTexture")
    BY <2>1 DEF Paced, Dropped
  <2>12. /\ \A i \in 1..Size("decodedTexture") : queue["decodedTexture"][i] \in Int
    <3>1. queue["decodedTexture"] \in Seq(0..Last)
      BY <1>3 DEF QueuesOK, Queues, Content
    <3>2. \A i \in 1..Size("decodedTexture") : queue["decodedTexture"][i] \in 0..Last
      BY <3>1, ElementOfSeq DEF Size
    <3> QED
      BY <3>2, FrameOf, SMT
  <2>13. dispTextureSet <= curAudioNumber + 1 + races
    BY <2>1 DEF Paced, Display
  <2>14. curVideoNumber <= curAudioNumber + 1
    BY <1>7, <2>2, SMT DEF AheadOfSound
  <2>15. CASE UNCHANGED <<queue, dispTextureSet>>
    <3>1. Size("decodedTexture")' = Size("decodedTexture")
      BY <2>15 DEF Size
    <3>2. Dropped'
      BY <1>4, <1>7, <2>2, <2>3, <2>4, <2>11, <3>1, SMT DEF Dropped
    <3>3. Pictures'
      <4>1. \A i \in 1..Size("decodedTexture") :
              queue["decodedTexture"][i] <= (curVideoNumber + 1) + r + i - 1
        BY <1>4, <2>2, <2>4, <2>10, <2>12, SMT
      <4> QED
        BY <1>7, <2>4, <2>15, <3>1, <4>1 DEF Pictures
    <3>4. Display'
      <4>1. dispTextureSet <= curAudioNumber + 1 + r
        BY <1>4, <2>2, <2>4, <2>13, SMT
      <4> QED
        BY <1>1, <2>4, <2>15, <4>1 DEF Display
    <3> QED
      BY <2>4, <2>7, <2>8, <2>9, <3>2, <3>3, <3>4 DEF Pace, Paced
  <2>16. CASE /\ Size("decodedTexture") # 0 /\ dispTextureSet' = queue["decodedTexture"][1]
              /\ Size("decodedTexture")' = Size("decodedTexture") - 1
              /\ \A i \in 1..Size("decodedTexture") - 1 :
                    queue'["decodedTexture"][i] = queue["decodedTexture"][i + 1]
    <3>1. Dropped'
      <4>1. Taken - NotPushed + Dropping
              <= (curVideoNumber + 1) + r + (Size("decodedTexture") - 1)
        BY <1>4, <2>2, <2>4, <2>11, SMT
      <4> QED
        BY <1>7, <2>3, <2>4, <2>16, <4>1 DEF Dropped
    <3>2. Pictures'
      <4>1. \A i \in 1..Size("decodedTexture") - 1 :
              queue["decodedTexture"][i + 1] <= (curVideoNumber + 1) + r + i - 1
        <5> TAKE i \in 1..Size("decodedTexture") - 1
        <5>1. i \in Nat /\ i + 1 \in 1..Size("decodedTexture")
          BY <2>2, SMT
        <5>2. queue["decodedTexture"][i + 1] <= curVideoNumber + races + (i + 1) - 1
              /\ queue["decodedTexture"][i + 1] \in Int
          BY <2>10, <2>12, <5>1
        <5> QED
          BY <1>4, <2>2, <2>4, <5>1, <5>2, SMT
      <4> QED
        BY <1>7, <2>4, <2>16, <4>1 DEF Pictures
    <3>3. Display'
      <4>1. 1 \in 1..Size("decodedTexture")
        BY <2>2, <2>16, SMT
      <4>2. queue["decodedTexture"][1] <= curVideoNumber + races + 1 - 1
            /\ queue["decodedTexture"][1] \in Int
        BY <2>10, <2>12, <4>1
      <4>3. queue["decodedTexture"][1] <= curAudioNumber + 1 + r
        BY <1>4, <2>2, <2>4, <2>14, <4>2, SMT
      <4> QED
        BY <1>1, <2>4, <2>16, <4>3 DEF Display
    <3> QED
      BY <2>4, <2>7, <2>8, <2>9, <3>1, <3>2, <3>3 DEF Pace, Paced
  <2> QED
    BY <2>5, <2>15, <2>16
<1> QED
  BY <1>2, <1>5, <1>6, <1>7

LEMMA NextPace == IInv /\ Pace /\ [Next]_vars => Pace'
<1> SUFFICES ASSUME IInv, Pace, [Next]_vars PROVE Pace'
  OBVIOUS
<1>1. CASE Reader \/ AudioDecoder \/ VideoDecoder \/ MixAudio
  BY <1>1, ReaderPaced, DecoderPaced, VideoPaced, MixPaced
<1>2. CASE Game
  BY <1>2, PreparePaced, WaitPaced, GamePaced, PlayControlPaced, StopPaced DEF Game
<1>3. CASE UNCHANGED vars
  <2>1. /\ UNCHANGED <<at, audioExist, reader, decoder, video, first, videoDecodeCount>>
        /\ UNCHANGED <<queue, curVideoNumber, races, dispTextureSet, curAudioNumber>>
    BY <1>3, Zenon DEF vars, threads, counts, mixer, player
  <2>2. Paced => Paced'
    BY <2>1, BeganKept, OrderKept, PicturesKept DEF Paced, Display
  <2> QED
    BY <2>1, <2>2, Zenon DEF Pace, Running
<1> QED
  BY <1>1, <1>2, <1>3 DEF Next

(* For every length of a movie and every number of buffers, whatever the   *)
(* decoders, the mixer and the display do, and whatever frames are dropped:*)
(* the picture is at most one frame ahead of the sound, and one more for   *)
(* every update of videoDecodeCount that was lost.                         *)
THEOREM PicturesInStep == Spec => []InStep
<1>1. Init => IInv /\ Pace
  <2>1. Init => at = "over" /\ races = 0
    BY DEF Init
  <2> QED
    BY <2>1, InitIInv DEF Pace, Running
<1>2. IInv /\ Pace /\ [Next]_vars => IInv' /\ Pace'
  BY NextIInv, NextPace
<1>3. Pace => InStep
  BY DEF Pace, Running, Paced, Display, InStep
<1> QED
  BY <1>1, <1>2, <1>3, PTL DEF Spec
=============================================================================
