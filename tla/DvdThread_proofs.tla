-------------------------- MODULE DvdThread_proofs --------------------------
(***************************************************************************)
(* Proofs about the DVD thread and its clients.                            *)
(*                                                                         *)
(* First DvdThread: the DVD thread sleeps over no command, each command is *)
(* in one place at a time, and the commands are executed in the order they *)
(* were given, as CommandQueue says, for any number of commands and of     *)
(* messages of the audio.                                                  *)
(*                                                                         *)
(* Then ResourceControl, which stands on CommandQueue: the slots, the      *)
(* requests counted in them and the DVD thread's commands agree, what is   *)
(* held stays, and no heap is freed under an archive, for any archives,    *)
(* slots and actors.                                                       *)
(***************************************************************************)
EXTENDS DvdThread, ResourceControl, SequenceTheorems, FiniteSetTheorems, WellFoundedInduction,
        Integers, TLAPS

(* NotSleptOver is inductive with the shape of the two program counters.   *)
Counters ==
    /\ main = [step |-> main.step, command |-> main.command] /\ main.step \in 0..4
    /\ dvd = [pc |-> dvd.pc, command |-> dvd.command]
IInv == Counters /\ (mNodeList # <<>> => dvd.pc # "waitForKick" \/ kicked \/ main.step > 0)

LEMMA InitIInv == Init => IInv
  BY SMT DEF Init, IInv, Counters

LEMMA NextIInv == IInv /\ [Next]_vars => IInv'
<1> SUFFICES ASSUME IInv, [Next]_vars PROVE IInv'
  OBVIOUS
<1>1. CASE UNCHANGED vars
  BY <1>1, SMT DEF vars, IInv, Counters
<1>2. ASSUME NEW c \in Commands, create(c) PROVE IInv'
  BY <1>2, SMT DEF create, IInv, Counters
<1>3. ASSUME NEW c \in Commands, destroy(c) PROVE IInv'
  BY <1>3, SMT DEF destroy, IInv, Counters
<1>4. CASE AdditionLocks \/ AdditionLinks \/ AdditionUnlocks
  <2>1. main.step \in 1..3 /\ main' = [main EXCEPT !.step = @ + 1]
    BY <1>4, SMT DEF AdditionLocks, AdditionLinks, AdditionUnlocks, AdditionDoes, AdditionGoesOn,
       AdditionSteps, IInv, Counters
  <2>2. dvd' = dvd
    BY <1>4 DEF AdditionLocks, AdditionLinks, AdditionUnlocks, AdditionGoesOn
  <2> QED
    BY <2>1, <2>2, SMT DEF IInv, Counters
<1>5. CASE AdditionKicks
  <2>1. main' = [step |-> main'.step, command |-> main'.command] /\ main'.step \in 0..4
    BY <1>5, SMT DEF AdditionKicks, AdditionDoes, AdditionGoesOn, AdditionSteps, IInv, Counters
  <2>2. dvd' = dvd /\ kicked'
    BY <1>5 DEF AdditionKicks, AdditionGoesOn, Kick
  <2> QED
    BY <2>1, <2>2 DEF IInv, Counters
<1>6. CASE AudioStarts \/ AudioTask \/ run \/ CommandHeapChanges
  BY <1>6, SMT DEF AudioStarts, AudioTask, run, AudioBegins, AudioEnds, CommandHeapChanges, IInv,
     Counters
<1>7. CASE getFirstCommand
  BY <1>7, SMT DEF getFirstCommand, IInv, Counters
<1>8. CASE mainLoop /\ ~getFirstCommand
  BY <1>8, SMT DEF mainLoop, waitForKick, CutLocks, CutUnlinks, CutUnlocks, CutKicks, sendCmdMsg,
     ExecuteBegins, ExecuteEnds, DvdGoes, IInv, Counters
<1> QED
  BY <1>1, <1>2, <1>3, <1>4, <1>5, <1>6, <1>7, <1>8 DEF Next, addition

(* The thread never waits for a kick while the list holds a command nobody *)
(* will kick it for, though the list is read without the mutex.            *)
THEOREM NeverSleptOver == Spec => []NotSleptOver
<1>1. IInv => NotSleptOver
  BY SMT DEF IInv, Counters, NotSleptOver
<1> QED
  BY <1>1, InitIInv, NextIInv, PTL DEF Spec
-----------------------------------------------------------------------------
(* A command is in one place at a time: new, in the list, cut out of it,   *)
(* sent to the audio, executed there, or done.                             *)
Messages == Commands \union {Task}
Once(seq) == \A i, j \in DOMAIN seq : i # j /\ seq[i] \in Commands => seq[i] # seq[j]

New == IF main.step \in {1, 2} THEN {main.command} ELSE {}
Linked == Queued(mNodeList)
CutOut == IF Cut THEN {dvd.command} ELSE {}
Sent == Queued(messages) \ {Task}
Playing == {audio} \ {Task, None}

Places ==
    /\ made \subseteq Commands /\ mIsDone \subseteq made
    /\ New \subseteq made /\ Linked \subseteq made /\ CutOut \subseteq made
    /\ Sent \subseteq made /\ Playing \subseteq made
Apart ==
    /\ New \intersect (Linked \union CutOut \union Sent \union Playing \union mIsDone) = {}
    /\ Linked \intersect (CutOut \union Sent \union Playing \union mIsDone) = {}
    /\ CutOut \intersect (Sent \union Playing \union mIsDone) = {}
    /\ Sent \intersect (Playing \union mIsDone) = {}
    /\ Playing \intersect mIsDone = {}
Shape ==
    /\ mNodeList \in Seq(Commands) /\ Once(mNodeList)
    /\ messages \in Seq(Messages) /\ Once(messages) /\ Len(messages) <= AudioMessages
    /\ audio \in Messages \union {None}
    /\ main = [step |-> main.step, command |-> main.command] /\ main.step \in 0..4
    /\ main.command \in made \union {None} /\ (main.step = 0 => main.command = None)
    /\ dvd = [pc |-> dvd.pc, command |-> dvd.command]
    /\ dvd.pc \in {"waitForKick", "getFirstCommand", "lock", "cut", "unlock", "kick",
                   "execute", "executing"}
    /\ dvd.command \in Commands \union {None}
    /\ mMutext \in {"nobody", "main", "dvd"}
OneInv == Places /\ Apart /\ Shape

LEMMA AppendQueued ==
  ASSUME NEW S, NEW seq \in Seq(S), NEW e \in S
  PROVE  /\ Append(seq, e) \in Seq(S) /\ Len(Append(seq, e)) = Len(seq) + 1
         /\ Queued(Append(seq, e)) = Queued(seq) \union {e}
         /\ Once(seq) /\ (e \in Commands => e \notin Queued(seq)) => Once(Append(seq, e))
<1> DEFINE app == Append(seq, e)
<1>1. /\ app \in Seq(S) /\ Len(app) = Len(seq) + 1 /\ Len(seq) \in Nat
      /\ DOMAIN app = 1..Len(seq)+1 /\ DOMAIN seq = 1..Len(seq)
      /\ \A i \in 1..Len(seq) : app[i] = seq[i]
      /\ app[Len(seq)+1] = e
  BY AppendProperties, LenProperties
<1> HIDE DEF app
<1>2. Queued(app) = Queued(seq) \union {e}
  <2>1. ASSUME NEW x \in Queued(app) PROVE x \in Queued(seq) \union {e}
    BY <1>1, SMT DEF Queued
  <2>2. ASSUME NEW x \in Queued(seq) PROVE x \in Queued(app)
    BY <1>1, SMT DEF Queued
  <2>3. e \in Queued(app)
    BY <1>1, SMT DEF Queued
  <2> QED
    BY <2>1, <2>2, <2>3
<1>3. Once(seq) /\ (e \in Commands => e \notin Queued(seq)) => Once(app)
  BY <1>1, SMT DEF Once, Queued
<1> QED
  BY <1>1, <1>2, <1>3 DEF app

LEMMA TailQueued ==
  ASSUME NEW S, NEW seq \in Seq(S), seq # <<>>
  PROVE  /\ Tail(seq) \in Seq(S) /\ Len(Tail(seq)) = Len(seq) - 1 /\ Len(seq) \in Nat
         /\ Head(seq) \in S /\ Head(seq) \in Queued(seq)
         /\ Queued(seq) = Queued(Tail(seq)) \union {Head(seq)}
         /\ Once(seq) => Once(Tail(seq)) /\ (Head(seq) \in Commands => Head(seq) \notin Queued(Tail(seq)))
<1> DEFINE rest == Tail(seq)
<1>1. /\ rest \in Seq(S) /\ Len(rest) = Len(seq) - 1 /\ Len(seq) \in Nat \ {0}
      /\ DOMAIN rest = 1..Len(seq)-1 /\ DOMAIN seq = 1..Len(seq)
      /\ \A i \in 1..Len(seq)-1 : rest[i] = seq[i+1]
      /\ Head(seq) = seq[1] /\ Head(seq) \in S
  BY HeadTailProperties, LenProperties, EmptySeq
<1> HIDE DEF rest
<1>2. Queued(seq) = Queued(rest) \union {seq[1]}
  <2>1. ASSUME NEW i \in 1..Len(seq) PROVE seq[i] \in Queued(rest) \union {seq[1]}
    <3>1. CASE i = 1
      BY <3>1
    <3>2. CASE i # 1
      <4>1. i - 1 \in 1..Len(seq)-1 /\ (i - 1) + 1 = i
        BY <1>1, <3>2, SMT
      <4>2. rest[i-1] = seq[i]
        BY <1>1, <4>1
      <4> QED
        BY <1>1, <4>1, <4>2 DEF Queued
    <3> QED
      BY <3>1, <3>2
  <2>2. ASSUME NEW i \in 1..Len(seq)-1 PROVE rest[i] \in Queued(seq)
    <3>1. i + 1 \in 1..Len(seq)
      BY <1>1, SMT
    <3> QED
      BY <1>1, <3>1 DEF Queued
  <2>3. seq[1] \in Queued(seq)
    BY <1>1, SMT DEF Queued
  <2>4. \A x \in Queued(seq) : x \in Queued(rest) \union {seq[1]}
    BY <1>1, <2>1 DEF Queued
  <2>5. \A x \in Queued(rest) : x \in Queued(seq)
    BY <1>1, <2>2, Zenon DEF Queued
  <2> QED
    BY <2>3, <2>4, <2>5
<1>3. ASSUME Once(seq)
      PROVE  Once(rest) /\ (seq[1] \in Commands => seq[1] \notin Queued(rest))
  <2>1. Once(rest)
    <3>1. SUFFICES ASSUME NEW i \in 1..Len(seq)-1, NEW j \in 1..Len(seq)-1, i # j,
                          rest[i] \in Commands
                   PROVE  rest[i] # rest[j]
      BY <1>1 DEF Once
    <3>2. i + 1 \in 1..Len(seq) /\ j + 1 \in 1..Len(seq) /\ i + 1 # j + 1
      BY <1>1, <3>1, SMT
    <3>3. rest[i] = seq[i+1] /\ rest[j] = seq[j+1]
      BY <1>1
    <3>4. seq[i+1] \in Commands
      BY <3>1, <3>3
    <3>5. seq[i+1] # seq[j+1]
      BY <1>3, <3>2, <3>4 DEF Once
    <3> QED
      BY <3>3, <3>5
  <2>2. ASSUME seq[1] \in Commands, NEW i \in 1..Len(seq)-1 PROVE rest[i] # seq[1]
    BY <1>1, <1>3, <2>2, SMT DEF Once
  <2> QED
    BY <1>1, <2>1, <2>2 DEF Queued
<1> QED
  BY <1>1, <1>2, <1>3 DEF rest

LEMMA WithoutQueued ==
  ASSUME NEW S, NEW seq \in Seq(S), NEW k \in 1..Len(seq)
  PROVE  /\ Without(seq, k) \in Seq(S) /\ Queued(Without(seq, k)) \subseteq Queued(seq)
         /\ seq[k] \in Queued(seq)
         /\ Once(seq) => /\ Once(Without(seq, k))
                         /\ seq[k] \in Commands => seq[k] \notin Queued(Without(seq, k))
<1> DEFINE n == Len(seq)
           first == SubSeq(seq, 1, k - 1)
           last == SubSeq(seq, k + 1, n)
           rest == first \o last
<1>1. n \in Nat /\ DOMAIN seq = 1..n /\ \A i \in 1..n : seq[i] \in S
  BY LenProperties
<1>2. /\ first \in Seq(S) /\ Len(first) = k - 1 /\ \A i \in 1..k-1 : first[i] = seq[i]
  <2>1. \A i \in 1..k-1 : seq[i] \in S
    BY <1>1, SMT
  <2> QED
    BY <1>1, <2>1, SubSeqProperties, SMT
<1>3. /\ last \in Seq(S) /\ Len(last) = n - k /\ \A i \in 1..n-k : last[i] = seq[k + i]
  <2>1. k + 1 \in Int /\ n \in Int /\ \A i \in k+1..n : seq[i] \in S
    BY <1>1, SMT
  <2>2. /\ last \in Seq(S) /\ Len(last) = IF k + 1 <= n THEN n - (k + 1) + 1 ELSE 0
        /\ \A i \in 1..n-(k+1)+1 : last[i] = seq[k + 1 + i - 1]
    BY <2>1, SubSeqProperties, SMT
  <2>3. n \in Nat /\ k \in Nat /\ k <= n
    BY <1>1, SMT
  <2>4. (IF k + 1 <= n THEN n - (k + 1) + 1 ELSE 0) = n - k
    <3> HIDE DEF n
    <3> QED BY <2>3, SMT
  <2>5. n - (k + 1) + 1 = n - k
    <3> HIDE DEF n
    <3> QED BY <2>3, SMT
  <2>6. ASSUME NEW i \in 1..n-k PROVE k + 1 + i - 1 = k + i
    <3> HIDE DEF n
    <3> QED BY <2>3, <2>6, SMT
  <2> QED
    BY <2>2, <2>4, <2>5, <2>6
<1> HIDE DEF first, last
<1>4. /\ rest \in Seq(S) /\ Len(rest) = n - 1 /\ DOMAIN rest = 1..n-1
      /\ \A i \in 1..n-1 : rest[i] = IF i < k THEN seq[i] ELSE seq[i + 1]
  <2>1. rest \in Seq(S) /\ Len(rest) = Len(first) + Len(last)
        /\ \A i \in 1..Len(first) + Len(last) :
              rest[i] = IF i <= Len(first) THEN first[i] ELSE last[i - Len(first)]
    BY <1>2, <1>3, ConcatProperties
  <2>2. DOMAIN rest = 1..Len(rest)
    BY <2>1, LenProperties
  <2>3. ASSUME NEW i \in 1..n-1 PROVE rest[i] = IF i < k THEN seq[i] ELSE seq[i + 1]
    <3>1. i \in 1..Len(first) + Len(last) /\ n \in Nat
      BY <1>1, <1>2, <1>3, SMT
    <3>2. CASE i < k
      <4>1. i <= Len(first) /\ i \in 1..k-1
        BY <1>2, <3>2, SMT
      <4> QED
        BY <1>2, <2>1, <3>1, <3>2, <4>1
    <3>3. CASE ~(i < k)
      <4>1. ~(i <= Len(first)) /\ i - Len(first) \in 1..n-k /\ k + (i - Len(first)) = i + 1
        BY <1>1, <1>2, <3>3, SMT
      <4> QED
        BY <1>3, <2>1, <3>1, <3>3, <4>1
    <3> QED
      BY <3>2, <3>3
  <2>4. Len(rest) = n - 1
    BY <1>1, <1>2, <1>3, <2>1, SMT
  <2> QED
    BY <2>1, <2>2, <2>3, <2>4
<1>5. rest = Without(seq, k)
  BY DEF Without, first, last
<1> HIDE DEF rest
<1>6. Queued(rest) \subseteq Queued(seq) /\ seq[k] \in Queued(seq)
  <2>1. ASSUME NEW i \in 1..n-1 PROVE rest[i] \in Queued(seq)
    <3>1. i \in 1..n /\ i + 1 \in 1..n
      BY <1>1, SMT
    <3> QED
      BY <1>1, <1>4, <3>1 DEF Queued
  <2>2. Queued(rest) \subseteq Queued(seq)
    BY <1>4, <2>1, Zenon DEF Queued
  <2> QED
    BY <1>1, <2>2 DEF Queued
<1>7. ASSUME Once(seq)
      PROVE  Once(rest) /\ (seq[k] \in Commands => seq[k] \notin Queued(rest))
  <2>1. Once(rest)
    <3>1. SUFFICES ASSUME NEW i \in 1..n-1, NEW j \in 1..n-1, i # j, rest[i] \in Commands
                   PROVE  rest[i] # rest[j]
      BY <1>4 DEF Once
    <3> DEFINE from(h) == IF h < k THEN h ELSE h + 1
    <3>2. from(i) \in 1..n /\ from(j) \in 1..n /\ from(i) # from(j)
      BY <1>1, <3>1, SMT
    <3>3. rest[i] = seq[from(i)] /\ rest[j] = seq[from(j)]
      BY <1>4, Zenon
    <3>4. \A g, h \in 1..n : g # h /\ seq[g] \in Commands => seq[g] # seq[h]
      BY <1>1, <1>7, Zenon DEF Once
    <3> QED
      BY <3>1, <3>2, <3>3, <3>4, Zenon
  <2>2. ASSUME seq[k] \in Commands, NEW i \in 1..n-1 PROVE rest[i] # seq[k]
    BY <1>1, <1>4, <1>7, <2>2, SMT DEF Once
  <2> QED
    BY <1>4, <2>1, <2>2 DEF Queued
<1> QED
  BY <1>4, <1>5, <1>6, <1>7

LEMMA InitOneInv == Init => OneInv
<1> SUFFICES ASSUME Init PROVE OneInv
  OBVIOUS
<1>1. mNodeList = <<>> /\ messages = <<>> /\ audio = None /\ main.step = 0 /\ dvd.pc = "waitForKick"
      /\ made = {} /\ mIsDone = {}
  BY SMT DEF Init
<1>2. New = {} /\ Linked = {} /\ CutOut = {} /\ Sent = {} /\ Playing = {}
  BY <1>1, SMT DEF New, Linked, CutOut, Cut, Sent, Playing, Queued
<1>3. Places /\ Apart
  BY <1>1, <1>2 DEF Places, Apart
<1>4. Shape
  BY DvdAssumption, SMT DEF Init, Shape, Once
<1> QED
  BY <1>3, <1>4 DEF OneInv

(* The steps that move no command.                                         *)
LEMMA NothingMoves ==
  ASSUME OneInv, Shape',
         UNCHANGED <<made, mIsDone, mNodeList, messages, audio>>, New' = New, CutOut' = CutOut
  PROVE  OneInv'
<1>1. Linked' = Linked /\ Sent' = Sent /\ Playing' = Playing
  BY DEF Linked, Sent, Playing, Queued
<1> QED
  BY <1>1, Zenon DEF OneInv, Places, Apart

LEMMA CreateOneInv == ASSUME OneInv, NEW c \in Commands, create(c) PROVE OneInv'
<1>1. /\ New = {} /\ New' = {c} /\ CutOut' = CutOut /\ c \notin made /\ made' = made \union {c}
      /\ UNCHANGED <<mIsDone, mNodeList, messages, audio>>
  BY SMT DEF create, New, CutOut, Cut
<1>2. Linked' = Linked /\ Sent' = Sent /\ Playing' = Playing
  BY <1>1 DEF Linked, Sent, Playing, Queued
<1>3. Places' /\ Apart'
  BY <1>1, <1>2 DEF OneInv, Places, Apart
<1>4. Shape'
  BY SMT DEF create, OneInv, Shape, Once
<1> QED
  BY <1>3, <1>4 DEF OneInv

LEMMA DestroyOneInv == ASSUME OneInv, NEW c \in Commands, destroy(c) PROVE OneInv'
<1>1. /\ New = {} /\ New' = {} /\ CutOut' = CutOut /\ c \in mIsDone
      /\ made' = made \ {c} /\ mIsDone' = mIsDone \ {c}
      /\ UNCHANGED <<mNodeList, messages, audio>>
  BY SMT DEF destroy, New, CutOut, Cut
<1>2. Linked' = Linked /\ Sent' = Sent /\ Playing' = Playing
  BY <1>1 DEF Linked, Sent, Playing, Queued
<1>3. Places' /\ Apart'
  BY <1>1, <1>2 DEF OneInv, Places, Apart
<1>4. Shape'
  BY SMT DEF destroy, OneInv, Shape, Once
<1> QED
  BY <1>3, <1>4 DEF OneInv

LEMMA AdditionOneInv == ASSUME OneInv, addition PROVE OneInv'
<1>0. Shape
  BY DEF OneInv
<1>1. UNCHANGED <<made, mIsDone, dvd, messages, audio, SyncWidthSound>> /\ CutOut' = CutOut
  BY DEF addition, AdditionLocks, AdditionLinks, AdditionUnlocks, AdditionKicks, AdditionGoesOn,
     CutOut, Cut
<1>2. CASE AdditionLocks
  <2>1. main.step = 1 /\ main' = [main EXCEPT !.step = 2] /\ mNodeList' = mNodeList /\ mMutext' = "main"
    BY <1>0, <1>2, SMT DEF AdditionLocks, AdditionDoes, AdditionGoesOn, AdditionSteps, Shape
  <2>2. New' = New
    BY <1>0, <2>1, SMT DEF New, Shape
  <2>3. Shape'
    BY <1>0, <1>1, <2>1, SMT DEF Shape, Once
  <2> QED
    BY <1>1, <2>1, <2>2, <2>3, NothingMoves
<1>3. CASE AdditionLinks
  <2>1. /\ main.step = 2 /\ main' = [main EXCEPT !.step = 3] /\ mMutext' = mMutext
        /\ mNodeList' = Append(mNodeList, main.command)
    BY <1>0, <1>3, SMTT(60) DEF AdditionLinks, AdditionDoes, AdditionGoesOn, AdditionSteps, Shape
  <2>2. New = {main.command} /\ New' = {}
    BY <1>0, <2>1, SMT DEF New, Shape
  <2>3. main.command \in Commands /\ main.command \notin Linked
    BY <2>2 DEF OneInv, Places, Apart
  <2>4. /\ mNodeList' \in Seq(Commands) /\ Once(mNodeList')
        /\ Queued(mNodeList') = Linked \union {main.command}
    BY <1>0, <2>1, <2>3, AppendQueued DEF Shape, Linked
  <2>5. Linked' = Linked \union {main.command} /\ Sent' = Sent /\ Playing' = Playing
    BY <1>1, <2>4 DEF Linked, Sent, Playing, Queued
  <2>6. Places' /\ Apart'
    BY <1>1, <2>2, <2>5 DEF OneInv, Places, Apart
  <2>7. Shape'
    <3>1. main' = [step |-> main'.step, command |-> main'.command] /\ main'.step = 3
          /\ main'.command = main.command
      BY <1>0, <2>1, SMT DEF Shape
    <3> QED
      BY <1>0, <1>1, <2>1, <2>4, <3>1, SMT DEF Shape, Once
  <2> QED
    BY <2>6, <2>7 DEF OneInv
<1>4. CASE AdditionUnlocks \/ AdditionKicks
  <2>1. /\ main.step \in {3, 4} /\ mNodeList' = mNodeList /\ mMutext' \in {mMutext, "nobody"}
        /\ main' = IF main.step = 4 THEN [step |-> 0, command |-> None] ELSE [main EXCEPT !.step = 4]
    BY <1>0, <1>4, SMT DEF AdditionUnlocks, AdditionKicks, AdditionDoes, AdditionGoesOn,
       AdditionSteps, Shape
  <2>2. New' = New
    BY <1>0, <2>1, SMT DEF New, Shape
  <2>3. Shape'
    BY <1>0, <1>1, <2>1, SMT DEF Shape, Once
  <2> QED
    BY <1>1, <2>1, <2>2, <2>3, NothingMoves
<1> QED
  BY <1>2, <1>3, <1>4 DEF addition

LEMMA MainLoopOneInv == ASSUME OneInv, mainLoop PROVE OneInv'
<1>0. Shape
  BY DEF OneInv
<1>1. UNCHANGED <<made, main, audio, SyncWidthSound>> /\ New' = New /\ Playing' = Playing
  BY DEF mainLoop, waitForKick, getFirstCommand, CutLocks, CutUnlinks, CutUnlocks, CutKicks,
     sendCmdMsg, ExecuteBegins, ExecuteEnds, DvdGoes, New, Playing
<1>2. CASE getFirstCommand
  <2>1. /\ UNCHANGED <<mIsDone, mNodeList, messages, mMutext>> /\ dvd.pc = "getFirstCommand"
        /\ dvd' = IF mNodeList = <<>> THEN [pc |-> "waitForKick", command |-> None]
                  ELSE [pc |-> "lock", command |-> Head(mNodeList)]
    BY <1>2 DEF getFirstCommand
  <2>2. mNodeList # <<>> => Head(mNodeList) \in Commands
    BY <1>0, HeadTailProperties DEF Shape
  <2>3. CutOut' = CutOut
    BY <2>1, SMT DEF CutOut, Cut
  <2>4. Shape'
    BY <1>0, <1>1, <2>1, <2>2, SMT DEF Shape, Once
  <2> QED
    BY <1>1, <2>1, <2>3, <2>4, NothingMoves
<1>3. CASE CutUnlinks
  <2>1. PICK i \in DOMAIN mNodeList :
           mNodeList[i] = dvd.command /\ mNodeList' = Without(mNodeList, i)
    BY <1>3 DEF CutUnlinks
  <2>2. UNCHANGED <<mIsDone, messages, mMutext>> /\ dvd.pc = "cut" /\ dvd' = [dvd EXCEPT !.pc = "unlock"]
    BY <1>3 DEF CutUnlinks, DvdGoes
  <2>3. dvd' = [pc |-> "unlock", command |-> dvd.command] /\ dvd'.pc = "unlock"
        /\ dvd'.command = dvd.command
    BY <1>0, <2>2, SMT DEF Shape
  <2>4. i \in 1..Len(mNodeList) /\ mNodeList[i] \in Commands
    BY <1>0, <2>1, LenProperties DEF Shape
  <2>5. /\ mNodeList' \in Seq(Commands) /\ Queued(mNodeList') \subseteq Linked
        /\ dvd.command \in Linked /\ Once(mNodeList') /\ dvd.command \notin Queued(mNodeList')
    BY <1>0, <2>1, <2>4, WithoutQueued DEF Shape, Linked
  <2>6. /\ CutOut = {} /\ CutOut' = {dvd.command} /\ Linked' \subseteq Linked
        /\ dvd.command \notin Linked' /\ Sent' = Sent
    BY <2>2, <2>3, <2>5 DEF CutOut, Cut, Linked, Sent, Queued
  <2>7. Places' /\ Apart'
    BY <1>1, <2>2, <2>5, <2>6 DEF OneInv, Places, Apart
  <2>8. Shape'
    BY <1>0, <1>1, <2>2, <2>3, <2>5, SMT DEF Shape, Once
  <2> QED
    BY <2>7, <2>8 DEF OneInv
<1>4. CASE sendCmdMsg
  <2>1. /\ UNCHANGED <<mIsDone, mNodeList, mMutext>> /\ dvd.pc = "execute"
        /\ messages' = IF Accepted THEN Append(messages, dvd.command) ELSE messages
        /\ dvd' = [dvd EXCEPT !.pc = "getFirstCommand"]
    BY <1>4 DEF sendCmdMsg, DvdGoes
  <2>2. dvd' = [pc |-> "getFirstCommand", command |-> dvd.command] /\ dvd'.pc = "getFirstCommand"
        /\ dvd'.command = dvd.command
    BY <1>0, <2>1, SMT DEF Shape
  <2>3. CutOut = {dvd.command} /\ CutOut' = {} /\ Linked' = Linked
    BY <2>1, <2>2 DEF CutOut, Cut, Linked, Queued
  <2>4. dvd.command \in Commands /\ dvd.command \notin Sent /\ dvd.command \in Messages
        /\ dvd.command # Task
    BY <2>3, DvdAssumption DEF OneInv, Places, Apart, Messages
  <2>5. /\ messages' \in Seq(Messages) /\ Once(messages') /\ Len(messages') <= AudioMessages
        /\ Queued(messages') \subseteq Queued(messages) \union {dvd.command}
    <3>1. CASE Accepted
      <4>1. /\ messages' \in Seq(Messages) /\ Len(messages') = Len(messages) + 1
            /\ Queued(messages') = Queued(messages) \union {dvd.command} /\ Once(messages')
        BY <1>0, <2>1, <2>4, <3>1, AppendQueued DEF Shape, Sent
      <4>2. Len(messages) \in Nat
        BY <1>0, LenProperties DEF Shape
      <4> QED
        BY <3>1, <4>1, <4>2, DvdAssumption, SMT DEF Accepted, HasRoom
    <3>2. CASE ~Accepted
      BY <1>0, <2>1, <3>2 DEF Shape
    <3> QED
      BY <3>1, <3>2
  <2>6. Sent' \subseteq Sent \union {dvd.command}
    BY <2>5 DEF Sent, Queued
  <2>7. Places' /\ Apart'
    BY <1>1, <2>1, <2>3, <2>6 DEF OneInv, Places, Apart
  <2>8. Shape'
    BY <1>0, <1>1, <2>1, <2>2, <2>5, SMT DEF Shape, Once
  <2> QED
    BY <2>7, <2>8 DEF OneInv
<1>5. CASE ExecuteEnds
  <2>1. /\ UNCHANGED <<mNodeList, messages, mMutext>> /\ mIsDone' = mIsDone \union {dvd.command}
        /\ dvd.pc = "executing" /\ dvd' = [dvd EXCEPT !.pc = "getFirstCommand"]
    BY <1>5 DEF ExecuteEnds, DvdGoes
  <2>2. dvd' = [pc |-> "getFirstCommand", command |-> dvd.command] /\ dvd'.pc = "getFirstCommand"
        /\ dvd'.command = dvd.command
    BY <1>0, <2>1, SMT DEF Shape
  <2>3. CutOut = {dvd.command} /\ CutOut' = {} /\ Linked' = Linked /\ Sent' = Sent
    BY <2>1, <2>2 DEF CutOut, Cut, Linked, Sent, Queued
  <2>4. Places' /\ Apart'
    BY <1>1, <2>1, <2>3 DEF OneInv, Places, Apart
  <2>5. Shape'
    BY <1>0, <1>1, <2>1, <2>2, SMT DEF Shape, Once
  <2> QED
    BY <2>4, <2>5 DEF OneInv
<1>6. CASE waitForKick \/ CutLocks \/ CutUnlocks \/ CutKicks \/ ExecuteBegins
  <2>1. /\ UNCHANGED <<mIsDone, mNodeList, messages>> /\ mMutext' \in {mMutext, "nobody", "dvd"}
        /\ \E from, to \in {"waitForKick", "getFirstCommand", "lock", "cut", "unlock", "kick",
                            "execute", "executing"} :
              /\ dvd.pc = from /\ dvd' = [dvd EXCEPT !.pc = to]
              /\ from \in {"unlock", "kick", "execute"} <=> to \in {"kick", "execute", "executing"}
    BY <1>6 DEF waitForKick, CutLocks, CutUnlocks, CutKicks, ExecuteBegins, DvdGoes
  <2>2. PICK from, to \in {"waitForKick", "getFirstCommand", "lock", "cut", "unlock", "kick",
                           "execute", "executing"} :
              /\ dvd.pc = from /\ dvd' = [dvd EXCEPT !.pc = to]
              /\ from \in {"unlock", "kick", "execute"} <=> to \in {"kick", "execute", "executing"}
    BY <2>1
  <2>3. dvd' = [pc |-> to, command |-> dvd.command] /\ dvd'.pc = to /\ dvd'.command = dvd.command
    BY <1>0, <2>2, SMT DEF Shape
  <2>4. CutOut' = CutOut
    BY <1>6, <2>2, <2>3 DEF CutOut, Cut, waitForKick, CutLocks, CutUnlocks, CutKicks,
       ExecuteBegins, DvdGoes
  <2>5. Shape'
    BY <1>0, <1>1, <2>1, <2>3, SMT DEF Shape, Once
  <2> QED
    BY <1>1, <2>1, <2>4, <2>5, NothingMoves
<1> QED
  BY <1>2, <1>3, <1>4, <1>5, <1>6 DEF mainLoop

LEMMA AudioOneInv == ASSUME OneInv, AudioTask \/ run PROVE OneInv'
<1>0. Shape
  BY DEF OneInv
<1>1. /\ UNCHANGED <<made, mNodeList, mMutext, main, dvd>> /\ New' = New /\ CutOut' = CutOut
      /\ Linked' = Linked
  BY DEF AudioTask, run, AudioBegins, AudioEnds, New, CutOut, Cut, Linked, Queued
<1>2. CASE AudioTask
  <2>1. Accepted /\ messages' = Append(messages, Task) /\ UNCHANGED <<mIsDone, audio>>
    BY <1>2 DEF AudioTask
  <2>2. /\ messages' \in Seq(Messages) /\ Len(messages') = Len(messages) + 1 /\ Once(messages')
        /\ Queued(messages') = Queued(messages) \union {Task}
    BY <1>0, <2>1, AppendQueued, DvdAssumption DEF Shape, Messages
  <2>3. Len(messages') <= AudioMessages
    <3>1. Len(messages) \in Nat
      BY <1>0, LenProperties DEF Shape
    <3> QED
      BY <2>1, <2>2, <3>1, DvdAssumption, SMT DEF Accepted, HasRoom
  <2>4. Sent' = Sent /\ Playing' = Playing
    BY <2>1, <2>2 DEF Sent, Playing, Queued
  <2>5. Places' /\ Apart'
    BY <1>1, <2>1, <2>4 DEF OneInv, Places, Apart
  <2>6. Shape'
    BY <1>0, <1>1, <2>1, <2>2, <2>3, SMT DEF Shape, Once
  <2> QED
    BY <2>5, <2>6 DEF OneInv
<1>3. CASE AudioBegins
  <2>1. /\ audio = None /\ messages # <<>> /\ audio' = Head(messages) /\ messages' = Tail(messages)
        /\ mIsDone' = mIsDone
    BY <1>3 DEF AudioBegins
  <2>2. /\ messages' \in Seq(Messages) /\ Len(messages') <= AudioMessages /\ Once(messages')
        /\ audio' \in Messages /\ Queued(messages) = Queued(messages') \union {audio'}
        /\ audio' \in Commands => audio' \notin Queued(messages')
    <3>1. /\ messages' \in Seq(Messages) /\ Len(messages') = Len(messages) - 1
          /\ Len(messages) \in Nat /\ Once(messages')
          /\ audio' \in Messages /\ Queued(messages) = Queued(messages') \union {audio'}
          /\ audio' \in Commands => audio' \notin Queued(messages')
      BY <1>0, <2>1, TailQueued DEF Shape
    <3> QED
      BY <1>0, <3>1, DvdAssumption, SMT DEF Shape
  <2>3. Playing = {} /\ Playing' = {audio'} \ {Task} /\ Sent = Sent' \union Playing'
        /\ Sent' \intersect Playing' = {}
    BY <2>1, <2>2, DvdAssumption DEF Sent, Playing, Queued, Messages
  <2>4. Places' /\ Apart'
    BY <1>1, <2>1, <2>3 DEF OneInv, Places, Apart
  <2>5. Shape'
    BY <1>0, <1>1, <2>2, SMT DEF Shape, Once
  <2> QED
    BY <2>4, <2>5 DEF OneInv
<1>4. CASE AudioEnds
  <2>1. audio' = None /\ mIsDone' = mIsDone \union Playing /\ messages' = messages
    BY <1>4 DEF AudioEnds, Playing
  <2>2. Playing' = {} /\ Sent' = Sent
    BY <2>1 DEF Playing, Sent, Queued
  <2>3. Places' /\ Apart'
    BY <1>1, <2>1, <2>2 DEF OneInv, Places, Apart
  <2>4. Shape'
    BY <1>0, <1>1, <2>1, SMT DEF Shape, Once
  <2> QED
    BY <2>3, <2>4 DEF OneInv
<1> QED
  BY <1>2, <1>3, <1>4 DEF run

LEMMA NextOneInv == OneInv /\ [Next]_vars => OneInv'
<1> SUFFICES ASSUME OneInv, [Next]_vars PROVE OneInv'
  OBVIOUS
<1>1. CASE AudioStarts \/ CommandHeapChanges \/ UNCHANGED vars
  <2>1. UNCHANGED <<made, mIsDone, mNodeList, mMutext, main, dvd, messages, audio>>
    BY <1>1 DEF AudioStarts, CommandHeapChanges, vars
  <2>2. New' = New /\ CutOut' = CutOut
    BY <2>1 DEF New, CutOut, Cut
  <2>3. Shape'
    BY <2>1, SMT DEF OneInv, Shape, Once
  <2> QED
    BY <2>1, <2>2, <2>3, NothingMoves
<1> QED
  BY <1>1, CreateOneInv, DestroyOneInv, AdditionOneInv, MainLoopOneInv, AudioOneInv DEF Next

(* A sequence is one of what it holds.                                     *)
LEMMA SeqOfQueued ==
  ASSUME NEW S, NEW T, NEW seq \in Seq(S), Queued(seq) \subseteq T
  PROVE  seq \in Seq(T)
<1>1. Len(seq) \in Nat /\ DOMAIN seq = 1..Len(seq) /\ seq = [i \in 1..Len(seq) |-> seq[i]]
  BY LenProperties
<1>2. \A i \in 1..Len(seq) : seq[i] \in T
  BY <1>1 DEF Queued
<1>3. seq \in [1..Len(seq) -> T]
  BY <1>1, <1>2
<1> QED
  BY <1>1, <1>3, SMT

(* Each command is in one place at a time, though the list, the audio's    *)
(* queue and the two threads pass it on without a lock around it all:      *)
(* nobody executes it twice, and who destroys it when it is done destroys  *)
(* nothing that is still in a list.                                        *)
THEOREM CommandInOnePlace == Spec => [](Places /\ Apart)
<1>1. OneInv => Places /\ Apart
  BY Zenon DEF OneInv
<1> QED
  BY <1>1, InitOneInv, NextOneInv, PTL DEF Spec

Flags == kicked \in BOOLEAN /\ SyncWidthSound \in BOOLEAN /\ heapFull \in BOOLEAN
LEMMA NextFlags == Flags /\ [Next]_vars => Flags'
  BY Zenon DEF Flags, Next, vars, create, destroy, addition, AdditionLocks, AdditionLinks,
     AdditionUnlocks, AdditionKicks, AdditionGoesOn, Kick, AudioStarts, mainLoop, waitForKick,
     getFirstCommand, CutLocks, CutUnlinks, CutUnlocks, CutKicks, sendCmdMsg, ExecuteBegins,
     ExecuteEnds, DvdGoes, AudioTask, run, AudioBegins, AudioEnds, CommandHeapChanges

(* The list and the audio's queue hold commands that exist, and not more   *)
(* than they have room for.                                                *)
THEOREM DvdTypeOK == Spec => []TypeOK
<1>1. Init => Flags
  BY Zenon DEF Init, Flags
<1>2. ASSUME OneInv, Flags PROVE TypeOK
  <2>1. Shape /\ Places
    BY <1>2 DEF OneInv
  <2>2. mNodeList \in Seq(made)
    BY <2>1, SeqOfQueued DEF Shape, Places, Linked
  <2>3. messages \in Seq(made \union {Task})
    <3>1. Queued(messages) \subseteq made \union {Task}
      BY <2>1 DEF Places, Sent
    <3> QED
      BY <2>1, <3>1, SeqOfQueued DEF Shape
  <2>4. audio \in made \union {Task, None}
    BY <2>1 DEF Places, Playing
  <2>5. main \in [step : 0..4, command : made \union {None}]
    BY <2>1, SMT DEF Shape
  <2>6. dvd \in [pc : {"waitForKick", "getFirstCommand", "lock", "cut", "unlock", "kick",
                       "execute", "executing"}, command : Commands \union {None}]
    BY <2>1, SMT DEF Shape
  <2>7. made \subseteq Commands /\ mIsDone \subseteq made /\ Len(messages) <= AudioMessages
        /\ mMutext \in {"nobody", "main", "dvd"}
    BY <2>1 DEF Shape, Places
  <2> QED
    BY <1>2, <2>2, <2>3, <2>4, <2>5, <2>6, <2>7, Zenon DEF TypeOK, Flags
<1> QED
  BY <1>1, <1>2, InitOneInv, NextOneInv, NextFlags, PTL DEF Spec
-----------------------------------------------------------------------------
(* What the mapping of CommandQueue computes: OnlyCommands, a recursive    *)
(* function, is reached through the least index at which a fact about it   *)
(* would fail.                                                             *)
LEMMA LeastNat ==
  ASSUME NEW T, T \subseteq Nat, T # {}
  PROVE  \E n \in T : \A m \in T : n <= m
<1> DEFINE R == OpToRel(<, Nat)
<1>1. IsWellFoundedOn(R, Nat)
  BY NatLessThanWellFounded
<1>2. PICK n \in T : \A m \in T : ~(<<m, n>> \in R)
  BY <1>1, WFMin
<1>3. \A m \in T : ~ (m < n)
  BY <1>2 DEF OpToRel
<1> QED
  BY <1>3

(* f[i] is what OnlyCommands keeps of the first i messages.                *)
Grown(commands, message) == IF message = Task THEN commands ELSE Append(commands, message)
FilteredTo(n, seq, f) ==
    /\ f = [i \in 0..n |-> f[i]] /\ f[0] = <<>>
    /\ \A i \in 1..n : f[i] = Grown(f[i - 1], seq[i])

LEMMA FilterExists ==
  ASSUME NEW seq, NEW N \in Nat
  PROVE  \E f : FilteredTo(N, seq, f)
<1> DEFINE T == {n \in Nat : ~ \E f : FilteredTo(n, seq, f)}
<1>1. SUFFICES ASSUME T # {} PROVE FALSE
  OBVIOUS
<1>2. PICK n \in T : \A m \in T : n <= m
  BY <1>1, LeastNat
<1>3. CASE n = 0
  <2> DEFINE g == [i \in 0..0 |-> <<>>]
  <2>1. FilteredTo(0, seq, g)
    BY SMT DEF FilteredTo
  <2> QED
    BY <1>2, <1>3, <2>1
<1>4. CASE n # 0
  <2>1. n - 1 \in Nat /\ ~(n <= n - 1) /\ n \in Nat
    BY <1>2, <1>4, SMT
  <2>2. PICK f : FilteredTo(n - 1, seq, f)
    BY <1>2, <2>1
  <2> DEFINE g == [i \in 0..n |-> IF i = n THEN Grown(f[n - 1], seq[n]) ELSE f[i]]
  <2>3. g[0] = <<>>
    BY <1>4, <2>1, <2>2, SMT DEF FilteredTo
  <2>4. ASSUME NEW i \in 1..n PROVE g[i] = Grown(g[i - 1], seq[i])
    <3>1. i \in 0..n /\ i - 1 \in 0..n /\ i - 1 # n
      BY <2>1, SMT
    <3>2. g[i - 1] = f[i - 1]
      BY <3>1
    <3>3. CASE i = n
      BY <3>1, <3>2, <3>3
    <3>4. CASE i # n
      <4>1. i \in 1..n - 1
        BY <2>1, <3>4, SMT
      <4> QED
        BY <2>2, <3>1, <3>2, <3>4, <4>1 DEF FilteredTo
    <3> QED
      BY <3>3, <3>4
  <2>5. FilteredTo(n, seq, g)
    <3>1. g = [i \in 0..n |-> g[i]]
      OBVIOUS
    <3> HIDE DEF g
    <3> QED
      BY <2>3, <2>4, <3>1 DEF FilteredTo
  <2> QED
    BY <1>2, <2>5
<1> QED
  BY <1>3, <1>4

LEMMA FilterDef ==
  ASSUME NEW S, NEW seq \in Seq(S)
  PROVE  \E f : FilteredTo(Len(seq), seq, f) /\ OnlyCommands(seq) = f[Len(seq)]
<1> DEFINE Rec(f) == f = [i \in 0..Len(seq) |-> IF i = 0 THEN <<>>
                                   ELSE IF seq[i] = Task THEN f[i - 1]
                                   ELSE Append(f[i - 1], seq[i])]
<1>0. Len(seq) \in Nat
  BY LenProperties
<1>1. PICK f : FilteredTo(Len(seq), seq, f)
  BY <1>0, FilterExists
<1>2. Rec(f)
  <2>1. ASSUME NEW i \in 0..Len(seq)
        PROVE  f[i] = IF i = 0 THEN <<>> ELSE IF seq[i] = Task THEN f[i - 1] ELSE Append(f[i - 1], seq[i])
    BY <1>0, <1>1, SMT DEF FilteredTo, Grown
  <2>2. f = [i \in 0..Len(seq) |-> f[i]]
    BY <1>1, Zenon DEF FilteredTo
  <2> QED
    BY <2>1, <2>2, Zenon
<1> DEFINE g == CHOOSE h : Rec(h)
<1>3. Rec(g)
  BY <1>2, Zenon
<1>4. OnlyCommands(seq) = g[Len(seq)]
  BY Zenon DEF OnlyCommands
<1>5. FilteredTo(Len(seq), seq, g)
  <2> HIDE DEF g
  <2>1. \A i \in 0..Len(seq) : g[i] = IF i = 0 THEN <<>>
                                   ELSE IF seq[i] = Task THEN g[i - 1]
                                   ELSE Append(g[i - 1], seq[i])
    BY <1>3, Zenon
  <2>2. g = [i \in 0..Len(seq) |-> g[i]]
    BY <1>3, <2>1, Zenon
  <2>3. \A i \in 1..Len(seq) : g[i] = Grown(g[i - 1], seq[i])
    BY <1>0, <2>1, SMT DEF Grown
  <2>4. g[0] = <<>>
    BY <1>0, <2>1, SMT
  <2> QED
    BY <2>2, <2>3, <2>4, Zenon DEF FilteredTo
<1> QED
  BY <1>4, <1>5

(* What is kept of the first k messages depends on these alone.            *)
LEMMA FilterPrefix ==
  ASSUME NEW k \in Nat, NEW s, NEW f, FilteredTo(k, s, f),
         NEW n \in Nat, NEW t, NEW g, FilteredTo(n, t, g),
         k <= n, \A i \in 1..k : t[i] = s[i]
  PROVE  g[k] = f[k]
<1> DEFINE T == {i \in 0..k : f[i] # g[i]}
<1>1. SUFFICES ASSUME T # {} PROVE FALSE
  BY SMT
<1>2. T \subseteq Nat
  OBVIOUS
<1>3. PICK i \in T : \A j \in T : i <= j
  BY <1>1, <1>2, LeastNat
<1>4. i \in 1..k /\ i \in 1..n
  BY <1>3, SMT DEF FilteredTo
<1>5. i - 1 \in 0..k /\ ~(i <= i - 1)
  BY <1>4, SMT
<1>6. f[i - 1] = g[i - 1]
  BY <1>3, <1>5
<1>7. t[i] = s[i]
  BY <1>4
<1>8. f[i] = Grown(f[i - 1], s[i]) /\ g[i] = Grown(g[i - 1], t[i])
  BY <1>4, Zenon DEF FilteredTo
<1> QED
  BY <1>3, <1>6, <1>7, <1>8, Zenon

LEMMA Associate ==
  ASSUME NEW p \in Seq(Commands), NEW q \in Seq(Commands), NEW r \in Seq(Commands)
  PROVE  (p \o q) \o r = p \o (q \o r)
  BY ConcatAssociative, SMTT(60)

LEMMA FilterTyped ==
  ASSUME NEW s \in Seq(Messages), NEW f, FilteredTo(Len(s), s, f), NEW k \in 0..Len(s)
  PROVE  f[k] \in Seq(Commands) /\ Queued(f[k]) \subseteq Queued(s) \ {Task}
<1> DEFINE Good(x) == x \in Seq(Commands) /\ Queued(x) \subseteq Queued(s) \ {Task}
           T == {i \in 0..Len(s) : ~Good(f[i])}
<1>0. Len(s) \in Nat /\ DOMAIN s = 1..Len(s) /\ \A i \in 1..Len(s) : s[i] \in Messages
  BY LenProperties
<1>1. SUFFICES ASSUME T # {} PROVE FALSE
  OBVIOUS
<1>2. T \subseteq Nat
  BY <1>0
<1>3. PICK i \in T : \A j \in T : i <= j
  BY <1>1, <1>2, LeastNat
<1>4. i # 0
  <2>1. Good(<<>>)
    BY SMT DEF Queued
  <2> QED
    BY <1>3, <2>1 DEF FilteredTo
<1>5. i \in 1..Len(s) /\ i - 1 \in 0..Len(s) /\ ~(i <= i - 1)
  BY <1>0, <1>3, <1>4, SMT
<1>6. Good(f[i - 1])
  BY <1>3, <1>5
<1>7. f[i] = Grown(f[i - 1], s[i])
  BY <1>5 DEF FilteredTo
<1>8. CASE s[i] = Task
  BY <1>3, <1>6, <1>7, <1>8 DEF Grown
<1>9. CASE s[i] # Task
  <2>1. s[i] \in Commands /\ s[i] \in Queued(s)
    BY <1>0, <1>5, <1>9 DEF Messages, Queued
  <2>2. f[i] = Append(f[i - 1], s[i])
    BY <1>7, <1>9 DEF Grown
  <2>3. Good(f[i])
    BY <1>6, <1>9, <2>1, <2>2, AppendQueued
  <2> QED
    BY <1>3, <2>3
<1> QED
  BY <1>8, <1>9

LEMMA OnlyTyped ==
  ASSUME NEW s \in Seq(Messages)
  PROVE  OnlyCommands(s) \in Seq(Commands) /\ Queued(OnlyCommands(s)) \subseteq Queued(s) \ {Task}
<1>1. PICK f : FilteredTo(Len(s), s, f) /\ OnlyCommands(s) = f[Len(s)]
  BY FilterDef
<1>2. Len(s) \in 0..Len(s)
  BY LenProperties, SMT
<1> QED
  BY <1>1, <1>2, FilterTyped

LEMMA OnlyNothing ==
  ASSUME NEW s \in Seq(Messages), Queued(s) \subseteq {Task}
  PROVE  OnlyCommands(s) = <<>>
<1>1. OnlyCommands(s) \in Seq(Commands) /\ Queued(OnlyCommands(s)) = {}
  BY OnlyTyped
<1> DEFINE x == OnlyCommands(s)
<1>2. x \in Seq(Commands) /\ Queued(x) = {}
  BY <1>1
<1> HIDE DEF x
<1>3. x = <<>>
  BY <1>2, SMT DEF Queued
<1> QED
  BY <1>3 DEF x

LEMMA OnlyAppend ==
  ASSUME NEW s \in Seq(Messages), NEW e \in Messages
  PROVE  OnlyCommands(Append(s, e)) = Grown(OnlyCommands(s), e)
<1> DEFINE t == Append(s, e)
<1>1. /\ t \in Seq(Messages) /\ Len(s) \in Nat /\ Len(t) = Len(s) + 1
      /\ \A i \in 1..Len(s) : t[i] = s[i]
      /\ t[Len(s) + 1] = e
  BY AppendProperties, LenProperties
<1>2. PICK f : FilteredTo(Len(s), s, f) /\ OnlyCommands(s) = f[Len(s)]
  BY FilterDef
<1>3. PICK g : FilteredTo(Len(t), t, g) /\ OnlyCommands(t) = g[Len(t)]
  BY <1>1, FilterDef
<1> HIDE DEF t
<1>4. g[Len(s)] = f[Len(s)]
  <2>1. Len(s) <= Len(s) /\ Len(s) <= Len(t) /\ Len(t) \in Nat
    BY <1>1, SMT
  <2> DEFINE k == Len(s)
             n == Len(t)
  <2>2. /\ k \in Nat /\ n \in Nat /\ k <= k /\ k <= n /\ \A i \in 1..k : t[i] = s[i]
        /\ FilteredTo(n, t, g) /\ FilteredTo(k, s, f)
    BY <1>1, <1>2, <1>3, <2>1
  <2> HIDE DEF k, n
  <2>3. g[k] = f[k]
    BY <2>2, FilterPrefix, SMTT(30)
  <2> QED
    BY <2>3 DEF k
<1>5. Len(t) \in 1..Len(t) /\ Len(t) - 1 = Len(s)
  BY <1>1, SMT
<1>6. g[Len(t)] = Grown(g[Len(s)], e)
  BY <1>1, <1>3, <1>5 DEF FilteredTo
<1> QED
  BY <1>2, <1>3, <1>4, <1>6 DEF t

LEMMA OnlyTail ==
  ASSUME NEW s \in Seq(Messages), s # <<>>
  PROVE  OnlyCommands(s) = (IF Head(s) = Task THEN <<>> ELSE <<Head(s)>>) \o OnlyCommands(Tail(s))
<1> DEFINE t == Tail(s)
           h == IF s[1] = Task THEN <<>> ELSE <<s[1]>>
<1>1. /\ t \in Seq(Messages) /\ Len(s) \in Nat \ {0} /\ Len(t) = Len(s) - 1
      /\ DOMAIN s = 1..Len(s) /\ \A i \in 1..Len(s) : s[i] \in Messages
      /\ \A i \in 1..Len(t) : t[i] = s[i + 1]
      /\ Head(s) = s[1]
  BY HeadTailProperties, LenProperties, EmptySeq
<1>2. PICK f : FilteredTo(Len(s), s, f) /\ OnlyCommands(s) = f[Len(s)]
  BY FilterDef
<1>3. PICK g : FilteredTo(Len(t), t, g) /\ OnlyCommands(t) = g[Len(t)]
  BY <1>1, FilterDef
<1>4. h \in Seq(Commands)
  <2>1. s[1] \in Messages
    BY <1>1, SMT
  <2>2. s[1] # Task => s[1] \in Commands
    BY <2>1 DEF Messages
  <2> QED
    BY <2>2, SMT
<1>5. Grown(<<>>, s[1]) = h
  BY SMT DEF Grown
<1> HIDE DEF t, h
<1> DEFINE T == {i \in 0..Len(t) : f[i + 1] # h \o g[i]}
<1>6. SUFFICES ASSUME T # {} PROVE FALSE
  <2>1. Len(t) \in 0..Len(t) /\ Len(t) + 1 = Len(s)
    BY <1>1, SMT
  <2>2. T = {} => f[Len(s)] = h \o g[Len(t)]
    BY <2>1
  <2> QED
    BY <1>1, <1>2, <1>3, <2>2 DEF t, h
<1>7. T \subseteq Nat
  BY <1>1
<1>8. PICK i \in T : \A j \in T : i <= j
  BY <1>6, <1>7, LeastNat
<1>9. i # 0
  <2>1. 1 \in 1..Len(s) /\ 1 - 1 = 0 /\ 0 + 1 = 1
    BY <1>1, SMT
  <2>2. f[1] = h
    BY <1>2, <1>5, <2>1 DEF FilteredTo
  <2>3. h \o <<>> = h
    BY <1>4, ConcatEmptySeq
  <2>4. g[0] = <<>>
    BY <1>3 DEF FilteredTo
  <2> QED
    BY <1>8, <2>1, <2>2, <2>3, <2>4
<1>10. /\ i \in 1..Len(t) /\ i - 1 \in 0..Len(t) /\ ~(i <= i - 1) /\ i + 1 \in 1..Len(s)
       /\ (i + 1) - 1 = i /\ (i - 1) + 1 = i
  BY <1>1, <1>8, <1>9, SMT
<1>11. f[i] = h \o g[i - 1]
  BY <1>8, <1>10
<1>12. f[i + 1] = Grown(f[i], s[i + 1]) /\ g[i] = Grown(g[i - 1], s[i + 1])
  BY <1>1, <1>2, <1>3, <1>10 DEF FilteredTo
<1>13. g[i - 1] \in Seq(Commands)
  BY <1>1, <1>3, <1>10, FilterTyped
<1>14. CASE s[i + 1] = Task
  BY <1>8, <1>11, <1>12, <1>14 DEF Grown
<1>15. CASE s[i + 1] # Task
  <2>1. s[i + 1] \in Commands
    BY <1>1, <1>10, <1>15 DEF Messages
  <2>2. Append(h \o g[i - 1], s[i + 1]) = h \o Append(g[i - 1], s[i + 1])
    <3> DEFINE a == h
               b == g[i - 1]
               c == s[i + 1]
    <3>1. /\ Append(b, c) = b \o <<c>> /\ Append(a \o b, c) = (a \o b) \o <<c>>
          /\ <<c>> \in Seq(Commands) /\ a \o b \in Seq(Commands)
      <4>1. a \o b \in Seq(Commands)
        BY <1>4, <1>13, ConcatProperties
      <4>2. \A q \in Seq(Commands), e \in Commands : Append(q, e) = q \o <<e>>
        BY AppendIsConcat
      <4>3. <<c>> \in Seq(Commands)
        BY <2>1, SMT
      <4> QED
        BY <1>13, <2>1, <4>1, <4>2, <4>3, Zenon
    <3>3. (a \o b) \o <<c>> = a \o (b \o <<c>>)
      BY <1>4, <1>13, <3>1, Associate, Zenon
    <3> QED
      BY <3>1, <3>3
  <2> QED
    BY <1>8, <1>11, <1>12, <1>15, <2>2 DEF Grown
<1> QED
  BY <1>14, <1>15

(* Sequences put together.                                                 *)
LEMMA QueuedJoined ==
  ASSUME NEW S, NEW p \in Seq(S), NEW q \in Seq(S)
  PROVE  p \o q \in Seq(S) /\ Queued(p \o q) \subseteq Queued(p) \union Queued(q)
<1>1. /\ p \o q \in Seq(S) /\ Len(p) \in Nat /\ Len(q) \in Nat
      /\ DOMAIN p = 1..Len(p) /\ DOMAIN q = 1..Len(q)
      /\ DOMAIN (p \o q) = 1..Len(p)+Len(q)
      /\ \A i \in 1..Len(p)+Len(q) : (p \o q)[i] = IF i <= Len(p) THEN p[i] ELSE q[i - Len(p)]
  BY ConcatProperties, LenProperties
<1> DEFINE pq == p \o q
<1> HIDE DEF pq
<1>2. ASSUME NEW i \in 1..Len(p)+Len(q) PROVE (p \o q)[i] \in Queued(p) \union Queued(q)
  <2>1. CASE i <= Len(p)
    <3>1. i \in 1..Len(p)
      BY <1>1, <2>1, SMT
    <3> QED
      BY <1>1, <2>1, <3>1 DEF Queued
  <2>2. CASE ~(i <= Len(p))
    <3>1. i - Len(p) \in 1..Len(q)
      BY <1>1, <2>2, SMT
    <3> QED
      BY <1>1, <2>2, <3>1 DEF Queued
  <2> QED
    BY <2>1, <2>2
<1> QED
  BY <1>1, <1>2, Zenon DEF Queued

LEMMA Joined ==
  ASSUME NEW p \in Seq(Commands), NEW q \in Seq(Commands), NEW c \in Commands
  PROVE  /\ p \o q \in Seq(Commands) /\ <<c>> \in Seq(Commands)
         /\ p \o <<>> = p /\ <<>> \o p = p
         /\ Append(p, c) = p \o <<c>>
         /\ Append(p \o q, c) = p \o Append(q, c)
         /\ p # <<>> => p = <<Head(p)>> \o Tail(p)
         /\ Head(<<c>> \o p) = c /\ Tail(<<c>> \o p) = p /\ <<c>> \o p # <<>>
<1>1. p \o q \in Seq(Commands)
  BY ConcatProperties
<1>2. <<c>> \in Seq(Commands)
  BY SMT
<1>3. p \o <<>> = p /\ <<>> \o p = p
  BY ConcatEmptySeq
<1>4. Append(p, c) = p \o <<c>> /\ Append(q, c) = q \o <<c>>
  BY AppendIsConcat
<1>5. Append(p \o q, c) = (p \o q) \o <<c>>
  BY <1>1, AppendIsConcat
<1>6. (p \o q) \o <<c>> = p \o (q \o <<c>>)
  BY <1>2, Associate, Zenon
<1>7. p # <<>> => p = <<Head(p)>> \o Tail(p)
  BY HeadTailProperties
<1>8. Head(<<c>> \o p) = c /\ Tail(<<c>> \o p) = p /\ <<c>> \o p # <<>>
  BY <1>2, SMT
<1> QED
  BY <1>1, <1>2, <1>3, <1>4, <1>5, <1>6, <1>7, <1>8, Zenon

LEMMA JoinedWithout ==
  ASSUME NEW p \in Seq(Commands), NEW q \in Seq(Commands), NEW c \in Commands
  PROVE  \E k \in DOMAIN ((p \o <<c>>) \o q) : Without((p \o <<c>>) \o q, k) = p \o q
<1> DEFINE all == (p \o <<c>>) \o q
           k == Len(p) + 1
           n == Len(p) + 1 + Len(q)
<1>1. Len(p) \in Nat /\ Len(q) \in Nat /\ p = [i \in 1..Len(p) |-> p[i]] /\ q = [i \in 1..Len(q) |-> q[i]]
  BY LenProperties
<1>2. /\ all \in Seq(Commands) /\ Len(all) = n /\ DOMAIN all = 1..n
      /\ \A i \in 1..Len(p) : all[i] = p[i]
      /\ \A i \in 1..Len(q) : all[k + i] = q[i]
  BY <1>1, SMT
<1> HIDE DEF all
<1>3. SubSeq(all, 1, k - 1) = p
  BY <1>1, <1>2, SMT
<1>4. SubSeq(all, k + 1, n) = q
  <2>1. k + 1 \in Int /\ n \in Int /\ \A i \in k + 1..n : all[i] \in Commands
    <3>1. \A i \in 1..n : all[i] \in Commands
      BY <1>2, LenProperties
    <3>2. k + 1 \in Int /\ n \in Int /\ k + 1..n \subseteq 1..n
      BY <1>1, SMT
    <3> QED
      BY <3>1, <3>2
  <2> DEFINE last == SubSeq(all, k + 1, n)
  <2>2. /\ last \in Seq(Commands) /\ Len(last) = IF k + 1 <= n THEN n - (k + 1) + 1 ELSE 0
        /\ \A i \in 1..n - (k + 1) + 1 : last[i] = all[(k + 1) + i - 1]
    BY <2>1, SubSeqProperties
  <2> HIDE DEF last
  <2>3. Len(last) = Len(q)
    BY <1>1, <2>2, SMT
  <2>4. ASSUME NEW i \in 1..Len(last) PROVE last[i] = q[i]
    <3>1. i \in 1..n - (k + 1) + 1 /\ i \in 1..Len(q) /\ (k + 1) + i - 1 = k + i
      BY <1>1, <2>3, SMT
    <3> QED
      BY <1>2, <2>2, <3>1
  <2>5. last = q
    BY <2>2, <2>3, <2>4, SeqEqual
  <2> QED
    BY <2>5 DEF last
<1>5. k \in 1..n
  BY <1>1, SMT
<1>6. Without(all, k) = p \o q
  BY <1>2, <1>3, <1>4 DEF Without
<1> HIDE DEF k
<1>7. \E i \in DOMAIN all : Without(all, i) = p \o q
  BY <1>2, <1>5, <1>6
<1> QED
  BY <1>7 DEF all

(* The command the DVD thread is about to cut is still the head of the     *)
(* list: only the thread itself takes commands out.  And it executes a     *)
(* command itself only before any was sent to the audio, so there is one   *)
(* that executes at a time.                                                *)
HeadTaken == dvd.pc \in {"lock", "cut"} => mNodeList # <<>> /\ Head(mNodeList) = dvd.command
Alone == ~SyncWidthSound \/ dvd.pc = "executing" => Sent = {} /\ Playing = {}
OrderInv == OneInv /\ HeadTaken /\ Alone

LEMMA DvdMoves ==
  ASSUME Shape, NEW from, NEW to, DvdGoes(from, to)
  PROVE  dvd.pc = from /\ dvd'.pc = to /\ dvd'.command = dvd.command
  BY SMT DEF Shape, DvdGoes

LEMMA SentChanges ==
  ASSUME OneInv
  PROVE  /\ messages' = messages => Sent' = Sent
         /\ messages' = Append(messages, Task) => Sent' = Sent
         /\ messages # <<>> /\ messages' = Tail(messages) => Sent = Sent' \union ({Head(messages)} \ {Task})
<1>1. messages \in Seq(Messages) /\ Task \in Messages
  BY DEF OneInv, Shape, Messages
<1>2. messages' = Append(messages, Task) => Queued(messages') = Queued(messages) \union {Task}
  BY <1>1, AppendQueued
<1>3. messages # <<>> /\ messages' = Tail(messages) =>
         Queued(messages) = Queued(messages') \union {Head(messages)}
  BY <1>1, TailQueued
<1>4. Sent = Queued(messages) \ {Task} /\ Sent' = Queued(messages') \ {Task}
  BY Zenon DEF Sent, Queued
<1> QED
  BY <1>2, <1>3, <1>4, Zenon DEF Queued

LEMMA NextHeadTaken == OrderInv /\ [Next]_vars => HeadTaken'
<1> SUFFICES ASSUME OrderInv, [Next]_vars PROVE HeadTaken'
  OBVIOUS
<1>0. Shape /\ HeadTaken
  BY DEF OrderInv, OneInv
<1>1. CASE UNCHANGED <<mNodeList, dvd>>
  BY <1>0, <1>1 DEF HeadTaken
<1>2. CASE AdditionLinks
  <2>1. mNodeList' = Append(mNodeList, main.command) /\ dvd' = dvd
    BY <1>2 DEF AdditionLinks, AdditionGoesOn
  <2>2. mNodeList # <<>> => mNodeList' # <<>> /\ Head(mNodeList') = Head(mNodeList)
    BY <1>0, <2>1, SMT DEF Shape
  <2> QED
    BY <1>0, <2>1, <2>2 DEF HeadTaken
<1>3. CASE getFirstCommand
  BY <1>3, SMT DEF getFirstCommand, HeadTaken
<1>4. CASE CutLocks
  <2>1. dvd.pc = "lock" /\ dvd'.command = dvd.command /\ mNodeList' = mNodeList
    BY <1>0, <1>4, DvdMoves DEF CutLocks
  <2> QED
    BY <1>0, <2>1 DEF HeadTaken
<1>5. CASE mainLoop /\ ~getFirstCommand /\ ~CutLocks
  <2>1. dvd'.pc \notin {"lock", "cut"}
    BY <1>0, <1>5, DvdMoves DEF mainLoop, waitForKick, CutUnlinks, CutUnlocks, CutKicks, sendCmdMsg,
       ExecuteBegins, ExecuteEnds
  <2> QED
    BY <2>1 DEF HeadTaken
<1> QED
  BY <1>1, <1>2, <1>3, <1>4, <1>5, Zenon DEF Next, vars, create, destroy, addition, AdditionLocks,
     AdditionUnlocks, AdditionKicks, AdditionGoesOn, AudioStarts, AudioTask, run, AudioBegins, AudioEnds,
     CommandHeapChanges

LEMMA NextAlone == OrderInv /\ [Next]_vars => Alone'
<1> SUFFICES ASSUME OrderInv, [Next]_vars PROVE Alone'
  OBVIOUS
<1>0. Shape /\ OneInv /\ Alone
  BY DEF OrderInv, OneInv
<1>1. CASE UNCHANGED <<messages, audio, SyncWidthSound, dvd>>
  <2>1. Sent' = Sent /\ Playing' = Playing
    BY <1>1 DEF Sent, Playing, Queued
  <2> QED
    BY <1>0, <1>1, <2>1 DEF Alone
<1>2. CASE AudioStarts
  <2>1. Sent' = Sent /\ Playing' = Playing /\ dvd' = dvd /\ ~SyncWidthSound
    BY <1>2 DEF AudioStarts, Sent, Playing, Queued
  <2> QED
    BY <1>0, <2>1 DEF Alone
<1>3. CASE AudioTask
  <2>1. Sent' = Sent /\ Playing' = Playing /\ UNCHANGED <<dvd, SyncWidthSound>>
    BY <1>0, <1>3, SentChanges DEF AudioTask, Playing
  <2> QED
    BY <1>0, <2>1 DEF Alone
<1>4. CASE AudioBegins
  <2>1. Sent = Sent' \union Playing' /\ UNCHANGED <<dvd, SyncWidthSound>>
    <3>1. messages # <<>> /\ messages' = Tail(messages) /\ audio' = Head(messages)
          /\ UNCHANGED <<dvd, SyncWidthSound>>
      BY <1>4 DEF AudioBegins
    <3>2. Head(messages) \in Messages
      BY <1>0, <3>1, HeadTailProperties DEF Shape
    <3>3. Playing' = {Head(messages)} \ {Task}
      BY <3>1, <3>2, DvdAssumption DEF Playing, Messages
    <3> QED
      BY <1>0, <3>1, <3>3, SentChanges
  <2> QED
    BY <1>0, <2>1 DEF Alone
<1>5. CASE AudioEnds
  <2>1. Sent' = Sent /\ Playing' = {} /\ UNCHANGED <<dvd, SyncWidthSound>>
    BY <1>5 DEF AudioEnds, Sent, Playing, Queued
  <2> QED
    BY <1>0, <2>1 DEF Alone
<1>6. CASE sendCmdMsg
  <2>1. dvd'.pc = "getFirstCommand" /\ SyncWidthSound /\ SyncWidthSound' = SyncWidthSound
    BY <1>0, <1>6, DvdMoves DEF sendCmdMsg, DvdGoes
  <2> QED
    BY <2>1 DEF Alone
<1>7. CASE ExecuteBegins
  <2>1. ~SyncWidthSound /\ Sent' = Sent /\ Playing' = Playing
    BY <1>7 DEF ExecuteBegins, DvdGoes, Sent, Playing, Queued
  <2> QED
    BY <1>0, <2>1 DEF Alone
<1>8. CASE mainLoop /\ ~sendCmdMsg /\ ~ExecuteBegins
  <2>1. UNCHANGED <<messages, audio, SyncWidthSound>>
    BY <1>8, Zenon DEF mainLoop, waitForKick, getFirstCommand, CutLocks, CutUnlinks, CutUnlocks,
       CutKicks, ExecuteEnds, DvdGoes
  <2>2. dvd'.pc # "executing"
    <3>1. CASE getFirstCommand
      BY <3>1, SMT DEF getFirstCommand
    <3>2. CASE ~getFirstCommand
      BY <1>0, <1>8, <3>2, DvdMoves DEF mainLoop, waitForKick, CutLocks, CutUnlinks, CutUnlocks,
         CutKicks, ExecuteEnds
    <3> QED
      BY <3>1, <3>2
  <2>3. Sent' = Sent /\ Playing' = Playing
    BY <2>1 DEF Sent, Playing, Queued
  <2> QED
    BY <1>0, <2>1, <2>2, <2>3 DEF Alone
<1> QED
  BY <1>1, <1>2, <1>3, <1>4, <1>5, <1>6, <1>7, <1>8, Zenon DEF Next, vars, create, destroy, addition,
     AdditionLocks, AdditionLinks, AdditionUnlocks, AdditionKicks, AdditionGoesOn, run,
     CommandHeapChanges

LEMMA InitOrder == Init => OrderInv
<1> SUFFICES ASSUME Init PROVE OrderInv
  OBVIOUS
<1>1. messages = <<>> /\ audio = None /\ dvd.pc = "waitForKick"
  BY SMT DEF Init
<1>2. Sent = {} /\ Playing = {}
  BY <1>1, SMT DEF Sent, Playing, Queued
<1> QED
  BY <1>1, <1>2, InitOneInv DEF OrderInv, HeadTaken, Alone

LEMMA NextOrder == OrderInv /\ [Next]_vars => OrderInv'
  BY NextOneInv, NextHeadTaken, NextAlone DEF OrderInv
-----------------------------------------------------------------------------
(* Every step is a step of CommandQueue under the mapping of DvdThread, or *)
(* changes nothing there.                                                  *)
LEMMA AwaitingIs ==
  /\ Awaiting = (OnlyCommands(messages) \o InHand) \o mNodeList
  /\ Awaiting' = (OnlyCommands(messages') \o InHand') \o mNodeList'
<1>1. Awaiting = (OnlyCommands(messages) \o InHand) \o mNodeList
  BY Zenon DEF Awaiting
<1>2. Awaiting' = (OnlyCommands(messages') \o InHand') \o mNodeList'
  BY Zenon DEF Awaiting, OnlyCommands
<1> QED
  BY <1>1, <1>2

LEMMA AwaitingTyped ==
  ASSUME OneInv
  PROVE  /\ OnlyCommands(messages) \in Seq(Commands) /\ InHand \in Seq(Commands)
         /\ OnlyCommands(messages) \o InHand \in Seq(Commands)
         /\ mNodeList \in Seq(Commands) /\ Awaiting \in Seq(Commands)
         /\ Queued(Awaiting) \subseteq Sent \union CutOut \union Linked
         /\ Executed \in CutOut \union Playing \union {None}
<1>1. messages \in Seq(Messages) /\ mNodeList \in Seq(Commands) /\ audio \in Messages \union {None}
  BY DEF OneInv, Shape
<1>2. OnlyCommands(messages) \in Seq(Commands) /\ Queued(OnlyCommands(messages)) \subseteq Sent
  BY <1>1, OnlyTyped DEF Sent
<1>3. InHand \in Seq(Commands) /\ Queued(InHand) \subseteq CutOut
  <2>1. CASE Cut /\ dvd.pc # "executing"
    <3>1. InHand = <<dvd.command>> /\ CutOut = {dvd.command}
      BY <2>1 DEF InHand, CutOut
    <3>2. dvd.command \in Commands
      BY <3>1 DEF OneInv, Places
    <3>3. <<dvd.command>> \in Seq(Commands) /\ Queued(<<dvd.command>>) \subseteq {dvd.command}
      BY <3>2, SMT DEF Queued
    <3> QED
      BY <3>1, <3>3
  <2>2. CASE ~(Cut /\ dvd.pc # "executing")
    <3>1. InHand = <<>>
      BY <2>2 DEF InHand
    <3>2. <<>> \in Seq(Commands) /\ Queued(<<>>) = {}
      BY SMT DEF Queued
    <3> QED
      BY <3>1, <3>2
  <2> QED
    BY <2>1, <2>2
<1>4. /\ OnlyCommands(messages) \o InHand \in Seq(Commands)
      /\ Queued(OnlyCommands(messages) \o InHand) \subseteq Sent \union CutOut
  <2> DEFINE x == OnlyCommands(messages)
  <2>1. x \in Seq(Commands) /\ Queued(x) \subseteq Sent
    BY <1>2
  <2> HIDE DEF x
  <2>2. x \o InHand \in Seq(Commands) /\ Queued(x \o InHand) \subseteq Queued(x) \union Queued(InHand)
    BY <1>3, <2>1, QueuedJoined
  <2>3. x \o InHand \in Seq(Commands) /\ Queued(x \o InHand) \subseteq Sent \union CutOut
    BY <1>3, <2>1, <2>2, Zenon
  <2> QED
    BY <2>3, Zenon DEF x
<1>5. Awaiting \in Seq(Commands) /\ Queued(Awaiting) \subseteq Sent \union CutOut \union Linked
  <2> DEFINE x == OnlyCommands(messages) \o InHand
  <2>1. x \in Seq(Commands) /\ Queued(x) \subseteq Sent \union CutOut /\ Awaiting = x \o mNodeList
    BY <1>4, AwaitingIs
  <2> HIDE DEF x
  <2>2. /\ x \o mNodeList \in Seq(Commands)
        /\ Queued(x \o mNodeList) \subseteq Queued(x) \union Queued(mNodeList)
    BY <1>1, <2>1, QueuedJoined
  <2> QED
    BY <2>1, <2>2, Zenon DEF Linked
<1>6. Executed \in CutOut \union Playing \union {None}
  BY <1>1 DEF Executed, CutOut, Cut, Playing
<1> QED
  BY <1>1, <1>2, <1>3, <1>4, <1>5, <1>6, Zenon

LEMMA Stutter ==
  ASSUME Awaiting' = Awaiting, Executed' = Executed, mIsDone' = mIsDone
  PROVE  [DvdQueue!Next]_(DvdQueue!vars)
  BY DEF DvdQueue!vars

LEMMA SameInHand ==
  ASSUME dvd' = dvd
  PROVE  InHand' = InHand
  BY DEF InHand, Cut

LEMMA CreateStep ==
  ASSUME NEW c \in Commands, create(c)
  PROVE  Awaiting' = Awaiting /\ Executed' = Executed /\ mIsDone' = mIsDone
  BY AwaitingIs, SameInHand DEF create, Executed

LEMMA DestroyStep ==
  ASSUME OneInv, NEW c \in Commands, destroy(c)
  PROVE  [DvdQueue!Next]_(DvdQueue!vars)
<1>1. Awaiting' = Awaiting /\ Executed' = Executed /\ c \in mIsDone /\ mIsDone' = mIsDone \ {c}
  BY AwaitingIs, SameInHand DEF destroy, Executed
<1>2. DvdQueue!Destroy(c)
  BY <1>1 DEF DvdQueue!Destroy
<1> QED
  BY <1>2 DEF DvdQueue!Next

LEMMA AdditionStep ==
  ASSUME OrderInv, addition
  PROVE  [DvdQueue!Next]_(DvdQueue!vars)
<1>0. OneInv /\ Shape
  BY DEF OrderInv, OneInv
<1>1. UNCHANGED <<mIsDone, dvd, messages, audio>> /\ Executed' = Executed /\ InHand' = InHand
  BY SameInHand DEF addition, AdditionLocks, AdditionLinks, AdditionUnlocks, AdditionKicks,
     AdditionGoesOn, Executed
<1>2. CASE AdditionLinks
  <2>1. main.step = 2 /\ mNodeList' = Append(mNodeList, main.command)
    BY <1>0, <1>2, SMT DEF AdditionLinks, AdditionDoes, AdditionSteps, Shape
  <2>2. New = {main.command}
    BY <2>1 DEF New
  <2>3. main.command \in Commands /\ main.command # None
        /\ main.command \notin Sent \union CutOut \union Linked \union Playing \union mIsDone
    BY <1>0, <2>2, DvdAssumption DEF OneInv, Places, Apart
  <2>4. main.command \notin DvdQueue!Given
    <3>1. DvdQueue!Queued = Queued(Awaiting)
      BY DEF DvdQueue!Queued, Queued
    <3> QED
      BY <1>0, <2>3, <3>1, AwaitingTyped DEF DvdQueue!Given
  <2>5. Awaiting' = Append(Awaiting, main.command)
    BY <1>0, <1>1, <2>1, <2>3, AwaitingIs, AwaitingTyped, Joined, SMTT(60)
  <2>6. DvdQueue!Give(main.command)
    BY <1>1, <2>4, <2>5 DEF DvdQueue!Give
  <2> QED
    BY <2>3, <2>6 DEF DvdQueue!Next
<1>3. CASE AdditionLocks \/ AdditionUnlocks \/ AdditionKicks
  <2>1. Awaiting' = Awaiting
    BY <1>1, <1>3, AwaitingIs DEF AdditionLocks, AdditionUnlocks, AdditionKicks
  <2> QED
    BY <1>1, <2>1, Stutter
<1> QED
  BY <1>2, <1>3 DEF addition

LEMMA MainLoopStep ==
  ASSUME OrderInv, mainLoop
  PROVE  [DvdQueue!Next]_(DvdQueue!vars)
<1> DEFINE sent == OnlyCommands(messages)
<1>0. /\ OneInv /\ Shape /\ HeadTaken /\ Alone
      /\ sent \in Seq(Commands) /\ mNodeList \in Seq(Commands)
  BY AwaitingTyped DEF OrderInv, OneInv
<1>1. audio' = audio
  BY Zenon DEF mainLoop, waitForKick, getFirstCommand, CutLocks, CutUnlinks, CutUnlocks, CutKicks,
     sendCmdMsg, ExecuteBegins, ExecuteEnds, DvdGoes
<1>2. Cut => dvd.command \in Commands /\ dvd.command # None
  <2>1. Cut => dvd.command \in Commands
    BY <1>0 DEF CutOut, OneInv, Places
  <2> QED
    BY <2>1, DvdAssumption
<1>3. CASE waitForKick \/ getFirstCommand \/ CutLocks \/ CutUnlocks \/ CutKicks
  <2>1. UNCHANGED <<messages, mNodeList, mIsDone>>
    BY <1>3, Zenon DEF waitForKick, getFirstCommand, CutLocks, CutUnlocks, CutKicks
  <2>2. dvd.pc # "executing" /\ dvd'.pc # "executing" /\ InHand' = InHand
    <3>1. CASE getFirstCommand
      BY <3>1, SMT DEF getFirstCommand, InHand, Cut
    <3>2. CASE ~getFirstCommand
      BY <1>0, <1>3, <3>2, DvdMoves DEF waitForKick, CutLocks, CutUnlocks, CutKicks, InHand, Cut
    <3> QED
      BY <3>1, <3>2
  <2>3. Awaiting' = Awaiting /\ Executed' = Executed
    BY <1>1, <2>1, <2>2, AwaitingIs DEF Executed
  <2> QED
    BY <2>1, <2>3, Stutter
<1>4. CASE CutUnlinks
  <2>1. PICK i \in DOMAIN mNodeList :
           mNodeList[i] = dvd.command /\ mNodeList' = Without(mNodeList, i)
    BY <1>4 DEF CutUnlinks
  <2>2. /\ UNCHANGED <<messages, mIsDone>>
        /\ dvd.pc = "cut" /\ dvd'.pc = "unlock" /\ dvd'.command = dvd.command
    BY <1>0, <1>4, DvdMoves DEF CutUnlinks
  <2>3. /\ mNodeList # <<>> /\ Head(mNodeList) = dvd.command /\ Len(mNodeList) \in Nat \ {0}
        /\ DOMAIN mNodeList = 1..Len(mNodeList) /\ mNodeList[1] = dvd.command
        /\ dvd.command \in Commands
    BY <1>0, <2>2, SMT DEF HeadTaken
  <2>4. i = 1
    <3>1. \A g, h \in DOMAIN mNodeList :
             g # h /\ mNodeList[g] \in Commands => mNodeList[g] # mNodeList[h]
      BY <1>0, Zenon DEF Shape, Once
    <3>2. 1 \in DOMAIN mNodeList
      BY <2>3, SMT
    <3> QED
      BY <2>1, <2>3, <3>1, <3>2, Zenon
  <2>5. mNodeList' = Tail(mNodeList)
    BY <1>0, <2>1, <2>3, <2>4, SMT DEF Without
  <2>6. InHand = <<>> /\ InHand' = <<dvd.command>>
    BY <2>2 DEF InHand, Cut
  <2>7. mNodeList = <<dvd.command>> \o Tail(mNodeList) /\ Tail(mNodeList) \in Seq(Commands)
        /\ <<dvd.command>> \in Seq(Commands) /\ sent \o <<>> = sent
    BY <1>0, <2>3, Joined, HeadTailProperties
  <2>8. Awaiting' = Awaiting
    <3>1. Awaiting = sent \o (<<dvd.command>> \o Tail(mNodeList))
      BY <2>6, <2>7, AwaitingIs, Zenon
    <3>2. Awaiting' = (sent \o <<dvd.command>>) \o Tail(mNodeList)
      BY <2>2, <2>5, <2>6, AwaitingIs, Zenon
    <3> QED
      BY <1>0, <2>7, <3>1, <3>2, Associate, Zenon
  <2>9. Executed' = Executed
    BY <1>1, <2>2 DEF Executed
  <2> QED
    BY <2>2, <2>8, <2>9, Stutter
<1>5. CASE sendCmdMsg
  <2>1. /\ UNCHANGED <<mNodeList, mIsDone>> /\ SyncWidthSound
        /\ dvd.pc = "execute" /\ dvd'.pc = "getFirstCommand"
        /\ messages' = IF Accepted THEN Append(messages, dvd.command) ELSE messages
    BY <1>0, <1>5, DvdMoves DEF sendCmdMsg
  <2>2. InHand = <<dvd.command>> /\ InHand' = <<>> /\ dvd.command \in Commands /\ Executed' = Executed
    BY <1>1, <1>2, <2>1 DEF InHand, Cut, Executed
  <2>3. CASE Accepted
    <3>1. OnlyCommands(messages') = Append(sent, dvd.command)
      <4>1. messages \in Seq(Messages) /\ dvd.command \in Messages /\ dvd.command # Task
        BY <1>0, <2>2, DvdAssumption DEF Shape, Messages
      <4>2. messages' = Append(messages, dvd.command)
        BY <2>1, <2>3
      <4> QED
        BY <4>1, <4>2, OnlyAppend DEF Grown
    <3>2. Append(sent, dvd.command) = sent \o <<dvd.command>> /\ Append(sent, dvd.command) \in Seq(Commands)
      BY <1>0, <2>2, Joined
    <3>3. Append(sent, dvd.command) \o <<>> = Append(sent, dvd.command)
      BY <2>2, <3>2, Joined
    <3>4. Awaiting' = Awaiting
      BY <2>1, <2>2, <3>1, <3>2, <3>3, AwaitingIs, Zenon
    <3> QED
      BY <2>1, <2>2, <3>4, Stutter
  <2>4. CASE ~Accepted
    <3>1. messages' = messages /\ (Len(messages) = AudioMessages \/ heapFull)
      BY <1>0, <2>1, <2>4, DvdAssumption, SMT DEF Accepted, HasRoom, Shape
    <3>2. PICK i \in DOMAIN ((sent \o <<dvd.command>>) \o mNodeList) :
             Without((sent \o <<dvd.command>>) \o mNodeList, i) = sent \o mNodeList
      BY <1>0, <2>2, JoinedWithout
    <3>3. Awaiting = (sent \o <<dvd.command>>) \o mNodeList /\ Awaiting' = sent \o mNodeList
      BY <1>0, <2>1, <2>2, <3>1, AwaitingIs, Joined
    <3>4. i \in DOMAIN Awaiting /\ Awaiting' = Without(Awaiting, i)
      BY <3>2, <3>3, Zenon
    <3>5. DvdQueue!Lose(i)
      BY <2>1, <2>2, <3>1, <3>4, Zenon DEF DvdQueue!Lose, Without
    <3> QED
      BY <3>4, <3>5, Zenon DEF DvdQueue!Next
  <2> QED
    BY <2>3, <2>4
<1>6. CASE ExecuteBegins
  <2>1. /\ UNCHANGED <<mNodeList, mIsDone, messages>> /\ ~SyncWidthSound
        /\ dvd.pc = "execute" /\ dvd'.pc = "executing" /\ dvd'.command = dvd.command
    BY <1>0, <1>6, DvdMoves DEF ExecuteBegins
  <2>2. InHand = <<dvd.command>> /\ InHand' = <<>> /\ dvd.command \in Commands
    BY <1>2, <2>1 DEF InHand, Cut
  <2>3. sent = <<>> /\ Playing = {}
    <3>1. Queued(messages) \subseteq {Task} /\ Playing = {}
      BY <1>0, <2>1 DEF Alone, Sent
    <3> QED
      BY <1>0, <3>1, OnlyNothing DEF Shape
  <2>4. Executed = None /\ Executed' = dvd.command
    BY <2>1, <2>3 DEF Executed, Playing
  <2>5. Awaiting = <<dvd.command>> \o mNodeList /\ Awaiting' = mNodeList
    <3>1. /\ <<>> \o <<dvd.command>> = <<dvd.command>> /\ <<>> \o <<>> = <<>>
          /\ <<>> \o mNodeList = mNodeList
      <4>1. <<dvd.command>> \in Seq(Commands) /\ <<>> \in Seq(Commands)
        BY <2>2, SMT
      <4> QED
        BY <1>0, <4>1, ConcatEmptySeq
    <3> QED
      BY <2>1, <2>2, <2>3, <3>1, AwaitingIs, Zenon
  <2>6. Head(Awaiting) = dvd.command /\ Tail(Awaiting) = mNodeList /\ Awaiting # <<>>
    BY <1>0, <2>2, <2>5, Joined
  <2>7. DvdQueue!Begin
    BY <2>1, <2>4, <2>5, <2>6 DEF DvdQueue!Begin
  <2> QED
    BY <2>7 DEF DvdQueue!Next, DvdQueue!Serve
<1>7. CASE ExecuteEnds
  <2>1. /\ UNCHANGED <<mNodeList, messages>> /\ mIsDone' = mIsDone \union {dvd.command}
        /\ dvd.pc = "executing" /\ dvd'.pc = "getFirstCommand"
    BY <1>0, <1>7, DvdMoves DEF ExecuteEnds
  <2>2. InHand = <<>> /\ InHand' = <<>> /\ Executed = dvd.command /\ dvd.command # None
    BY <1>2, <2>1 DEF InHand, Cut, Executed
  <2>3. Playing = {}
    BY <1>0, <2>1 DEF Alone
  <2>4. Executed' = None
    BY <1>1, <2>1, <2>3 DEF Executed, Playing
  <2>5. Awaiting' = Awaiting
    BY <2>1, <2>2, AwaitingIs
  <2>6. DvdQueue!End
    BY <2>1, <2>2, <2>4, <2>5 DEF DvdQueue!End
  <2> QED
    BY <2>6 DEF DvdQueue!Next, DvdQueue!Serve
<1> QED
  BY <1>3, <1>4, <1>5, <1>6, <1>7 DEF mainLoop

LEMMA AudioStep ==
  ASSUME OrderInv, AudioStarts \/ CommandHeapChanges \/ AudioTask \/ run
  PROVE  [DvdQueue!Next]_(DvdQueue!vars)
<1>0. OneInv /\ Shape /\ Alone /\ messages \in Seq(Messages)
  BY DEF OrderInv, OneInv, Shape
<1>1. UNCHANGED <<mNodeList, dvd>> /\ InHand' = InHand
  BY SameInHand DEF AudioStarts, CommandHeapChanges, AudioTask, run, AudioBegins, AudioEnds
<1>2. CASE AudioStarts \/ CommandHeapChanges
  <2>1. UNCHANGED <<messages, mIsDone, audio>>
    BY <1>2 DEF AudioStarts, CommandHeapChanges
  <2>2. Awaiting' = Awaiting /\ Executed' = Executed
    BY <1>1, <2>1, AwaitingIs DEF Executed
  <2> QED
    BY <2>1, <2>2, Stutter
<1>3. CASE AudioTask
  <2>1. messages' = Append(messages, Task) /\ UNCHANGED <<mIsDone, audio>>
    BY <1>3 DEF AudioTask
  <2>2. OnlyCommands(messages') = OnlyCommands(messages)
    BY <1>0, <2>1, OnlyAppend DEF Grown, Messages
  <2>3. Awaiting' = Awaiting /\ Executed' = Executed
    BY <1>1, <2>1, <2>2, AwaitingIs DEF Executed
  <2> QED
    BY <2>1, <2>3, Stutter
<1>4. CASE AudioBegins
  <2>1. /\ audio = None /\ messages # <<>> /\ audio' = Head(messages) /\ messages' = Tail(messages)
        /\ mIsDone' = mIsDone
    BY <1>4 DEF AudioBegins
  <2>2. messages' \in Seq(Messages) /\ audio' \in Messages /\ audio' \in Queued(messages)
    BY <1>0, <2>1, TailQueued
  <2>3. OnlyCommands(messages) = (IF audio' = Task THEN <<>> ELSE <<audio'>>) \o OnlyCommands(messages')
        /\ OnlyCommands(messages') \in Seq(Commands)
    BY <1>0, <2>1, <2>2, OnlyTail, OnlyTyped
  <2>4. CASE audio' = Task
    <3>1. OnlyCommands(messages) = OnlyCommands(messages')
      BY <2>3, <2>4, ConcatEmptySeq
    <3>2. Executed' = Executed /\ Awaiting' = Awaiting
      BY <1>1, <2>1, <2>4, <3>1, AwaitingIs, DvdAssumption DEF Executed
    <3> QED
      BY <2>1, <3>2, Stutter
  <2>5. CASE audio' # Task
    <3>1. audio' \in Commands /\ audio' \in Sent
      BY <2>2, <2>5 DEF Messages, Sent
    <3>2. Executed = None /\ Executed' = audio'
      BY <1>0, <1>1, <2>1, <2>5, <3>1, DvdAssumption DEF Alone, Executed
    <3> DEFINE x == OnlyCommands(messages')
               y == InHand \o mNodeList
    <3>3. Awaiting = <<audio'>> \o Awaiting' /\ Awaiting' \in Seq(Commands)
      <4>1. /\ x \in Seq(Commands) /\ InHand \in Seq(Commands) /\ mNodeList \in Seq(Commands)
            /\ <<audio'>> \in Seq(Commands) /\ x \o InHand \in Seq(Commands)
            /\ OnlyCommands(messages) = <<audio'>> \o x
        BY <1>0, <2>3, <2>5, <3>1, AwaitingTyped, Joined
      <4>2. (<<audio'>> \o x) \o InHand = <<audio'>> \o (x \o InHand)
        BY <4>1, Associate
      <4>3. (<<audio'>> \o (x \o InHand)) \o mNodeList = <<audio'>> \o ((x \o InHand) \o mNodeList)
        BY <4>1, Associate
      <4>4. Awaiting = ((<<audio'>> \o x) \o InHand) \o mNodeList
            /\ Awaiting' = (x \o InHand) \o mNodeList
        BY <1>1, <4>1, AwaitingIs, Zenon
      <4>5. (x \o InHand) \o mNodeList \in Seq(Commands)
        BY <4>1, ConcatProperties
      <4> QED
        BY <4>2, <4>3, <4>4, <4>5, Zenon
    <3>4. Head(Awaiting) = audio' /\ Tail(Awaiting) = Awaiting' /\ Awaiting # <<>>
      BY <3>1, <3>3, Joined
    <3>5. DvdQueue!Begin
      BY <2>1, <3>2, <3>4, Zenon DEF DvdQueue!Begin
    <3> QED
      BY <3>5, Zenon DEF DvdQueue!Next, DvdQueue!Serve
  <2> QED
    BY <2>4, <2>5
<1>5. CASE AudioEnds
  <2>1. audio # None /\ audio' = None /\ mIsDone' = mIsDone \union ({audio} \ {Task})
        /\ messages' = messages
    BY <1>5 DEF AudioEnds
  <2>2. Awaiting' = Awaiting
    BY <1>1, <2>1, AwaitingIs
  <2>3. CASE audio = Task
    <3>1. Executed' = Executed /\ mIsDone' = mIsDone
      BY <1>1, <2>1, <2>3, DvdAssumption DEF Executed
    <3> QED
      BY <2>2, <3>1, Stutter
  <2>4. CASE audio # Task
    <3>1. audio \in Playing
      BY <2>1, <2>4 DEF Playing
    <3>2. dvd.pc # "executing"
      BY <1>0, <3>1 DEF Alone
    <3>3. Executed = audio /\ Executed' = None /\ mIsDone' = mIsDone \union {audio}
      BY <1>1, <2>1, <2>4, <3>2 DEF Executed
    <3>4. DvdQueue!End
      BY <2>1, <2>2, <3>3 DEF DvdQueue!End
    <3> QED
      BY <3>4 DEF DvdQueue!Next, DvdQueue!Serve
  <2> QED
    BY <2>3, <2>4
<1> QED
  BY <1>2, <1>3, <1>4, <1>5 DEF run

LEMMA InitAwaiting == Init => DvdQueue!Init
<1> SUFFICES ASSUME Init PROVE DvdQueue!Init
  OBVIOUS
<1>1. messages = <<>> /\ mNodeList = <<>> /\ dvd.pc = "waitForKick" /\ audio = None /\ mIsDone = {}
  BY SMT DEF Init
<1>2. InHand = <<>> /\ Executed = None
  BY <1>1 DEF InHand, Cut, Executed
<1>3. OnlyCommands(messages) = <<>>
  <2>1. messages \in Seq(Messages) /\ Queued(messages) \subseteq {Task}
    BY <1>1, SMT DEF Queued
  <2> QED
    BY <2>1, OnlyNothing
<1>4. Awaiting = <<>>
  <2>1. <<>> \o <<>> = <<>>
    BY SMT
  <2> QED
    BY <1>1, <1>2, <1>3, <2>1, AwaitingIs
<1> QED
  BY <1>1, <1>2, <1>4 DEF DvdQueue!Init

(* The commands are executed one at a time, in the order create() was      *)
(* called, each once, whether the DVD thread executes them or the audio    *)
(* does, and also across the start of the audio; a command drops out only  *)
(* while sendCmdMsg finds the queue of the audio full, or no memory for    *)
(* the message.                                                            *)
THEOREM CommandsInOrder == Spec => DvdQueue!Safe
<1>1. OrderInv /\ [Next]_vars => [DvdQueue!Next]_(DvdQueue!vars)
  <2> SUFFICES ASSUME OrderInv, [Next]_vars PROVE [DvdQueue!Next]_(DvdQueue!vars)
    OBVIOUS
  <2>1. CASE UNCHANGED vars
    <3>1. Awaiting' = Awaiting /\ Executed' = Executed /\ mIsDone' = mIsDone
      BY <2>1, AwaitingIs, SameInHand DEF vars, Executed
    <3> QED
      BY <3>1, Stutter
  <2>2. ASSUME NEW c \in Commands, create(c) PROVE [DvdQueue!Next]_(DvdQueue!vars)
    BY <2>2, CreateStep, Stutter
  <2>3. ASSUME NEW c \in Commands, destroy(c) PROVE [DvdQueue!Next]_(DvdQueue!vars)
    BY <2>3, DestroyStep DEF OrderInv
  <2> QED
    BY <2>1, <2>2, <2>3, AdditionStep, MainLoopStep, AudioStep DEF Next
<1> QED
  BY <1>1, InitOrder, NextOrder, InitAwaiting, PTL DEF Spec, DvdQueue!Safe
-----------------------------------------------------------------------------
(* The slots, field by field.                                              *)
NamesOr == Names \union {NoName}
Archives == {"none", "part", "whole"}
Counts == 0..MaxCount
Infos == [mCount : Counts, name : NamesOr, mDMCommand : BOOLEAN,
          mArchive : Archives, mDataHeap : BOOLEAN]
InfoOK ==
    /\ info \in [Slots -> Infos]
    /\ \A s \in Slots : info[s].mCount = 0 => info[s] = NoInfo
Of(s, n) == info[s].mCount # 0 /\ info[s].name = n
OneSlot == \A s, t \in Slots :
    info[s].mCount # 0 /\ info[t].mCount # 0 /\ info[s].name = info[t].name => s = t

LEMMA SlotsAre ==
  /\ Slots \subseteq Nat /\ NoSlot \notin Slots /\ IsFiniteSet(Slots)
<1>1. Cardinality(Slots) \in Nat
  BY ResourceAssumption, FS_CardinalityType
<1> QED
  BY <1>1, ResourceAssumption, SMT DEF NoSlot

LEMMA MinIn ==
  ASSUME NEW S \in SUBSET Slots, S # {}
  PROVE  Min(S) \in S
<1>1. \E x \in S : \A y \in S : x <= y
  BY SlotsAre, LeastNat
<1> QED
  BY <1>1, Zenon DEF Min

LEMMA CountedIs ==
  ASSUME InfoOK, NEW s \in Slots, info[s].mCount < MaxCount
  PROVE  /\ Counted(s) \in Infos /\ Counted(s).mCount = info[s].mCount + 1
         /\ Counted(s).name = info[s].name /\ Counted(s).mDMCommand = info[s].mDMCommand
         /\ Counted(s).mArchive = info[s].mArchive
<1>1. PICK i \in Infos : i = info[s]
  BY DEF InfoOK
<1>2. PICK c : c = i.mCount + 1
  OBVIOUS
<1>3. i.mCount \in Counts
  BY DEF Infos
<1>4. c \in Counts
  BY <1>1, <1>2, <1>3, ResourceAssumption DEF Counts
<1>5. Counted(s) = [i EXCEPT !.mCount = c]
  BY <1>1, <1>2 DEF Counted
<1>6. /\ [i EXCEPT !.mCount = c] \in Infos /\ [i EXCEPT !.mCount = c].mCount = c
      /\ [i EXCEPT !.mCount = c].name = i.name
      /\ [i EXCEPT !.mCount = c].mDMCommand = i.mDMCommand
      /\ [i EXCEPT !.mCount = c].mArchive = i.mArchive
  BY <1>4 DEF Infos
<1> QED
  BY <1>1, <1>2, <1>5, <1>6

LEMMA MountedIs ==
  ASSUME NEW s \in Slots, NEW inf \in Infos, NEW m \in Mounted(s, inf)
  PROVE  /\ m.i \in Infos /\ m.i.mCount = inf.mCount /\ m.i.name = inf.name /\ ~m.i.mDMCommand
         /\ m.ret \in {"failed", "ready"} /\ (m.ret = "ready" => m.i.mArchive # "none")
         /\ m.ret = "failed" => m.i.mArchive = inf.mArchive \/ m.i.mArchive = "part"
<1>1. PICK i : i = [inf EXCEPT !.mDMCommand = FALSE]
  OBVIOUS
<1>2. /\ i \in Infos /\ i.mCount = inf.mCount /\ i.name = inf.name /\ ~i.mDMCommand
      /\ i.mArchive = inf.mArchive
  BY <1>1 DEF Infos
<1>3. "whole" \in Archives /\ "part" \in Archives /\ "whole" # "none"
  BY DEF Archives
<1>4. ASSUME NEW a \in Archives, NEW h \in BOOLEAN, NEW j, j = [i EXCEPT !.mArchive = a, !.mDataHeap = h]
      PROVE  /\ j \in Infos /\ j.mCount = inf.mCount /\ j.name = inf.name /\ ~j.mDMCommand
             /\ j.mArchive = a
  <2>1. /\ j \in Infos /\ j.mCount = i.mCount /\ j.name = i.name /\ j.mDMCommand = i.mDMCommand
        /\ j.mArchive = a
    BY <1>2, <1>4 DEF Infos
  <2> QED
    BY <1>2, <2>1, Zenon
<1>5. \/ m = [i |-> i, ret |-> "failed"]
      \/ m = [i |-> [i EXCEPT !.mArchive = "whole", !.mDataHeap = TRUE], ret |-> "ready"]
      \/ \E f \in Fails \intersect (IF OwnHeap(i.name) THEN {"gearLoad"} ELSE {"heap", "load"}) :
            m = [i |-> [i EXCEPT !.mArchive = "part", !.mDataHeap = (f # "heap")], ret |-> "failed"]
  BY <1>1, Zenon DEF Mounted
<1>6. CASE m = [i |-> i, ret |-> "failed"]
  <2>1. m.i = i /\ m.ret = "failed"
    BY <1>6
  <2> QED
    BY <1>2, <2>1
<1>7. CASE m = [i |-> [i EXCEPT !.mArchive = "whole", !.mDataHeap = TRUE], ret |-> "ready"]
  <2>1. PICK j : j = [i EXCEPT !.mArchive = "whole", !.mDataHeap = TRUE]
    OBVIOUS
  <2>2. m.i = j /\ m.ret = "ready"
    BY <1>7, <2>1, Zenon
  <2>3. /\ j \in Infos /\ j.mCount = inf.mCount /\ j.name = inf.name /\ ~j.mDMCommand
        /\ j.mArchive = "whole"
    BY <1>3, <1>4, <2>1, ZenonT(60)
  <2> QED
    BY <1>3, <2>2, <2>3
<1>8. CASE \E f \in Fails \intersect (IF OwnHeap(i.name) THEN {"gearLoad"} ELSE {"heap", "load"}) :
            m = [i |-> [i EXCEPT !.mArchive = "part", !.mDataHeap = (f # "heap")], ret |-> "failed"]
  <2>0. PICK f \in Fails \intersect (IF OwnHeap(i.name) THEN {"gearLoad"} ELSE {"heap", "load"}) :
            m = [i |-> [i EXCEPT !.mArchive = "part", !.mDataHeap = (f # "heap")], ret |-> "failed"]
    BY <1>8, Zenon
  <2>1. PICK h \in BOOLEAN : h = (f # "heap")
    OBVIOUS
  <2>2. PICK j : j = [i EXCEPT !.mArchive = "part", !.mDataHeap = h]
    OBVIOUS
  <2>3. m.i = j /\ m.ret = "failed"
    <3>1. m = [i |-> j, ret |-> "failed"]
      BY <2>0, <2>1, <2>2, Zenon
    <3> QED
      BY <3>1
  <2>4. /\ j \in Infos /\ j.mCount = inf.mCount /\ j.name = inf.name /\ ~j.mDMCommand
        /\ j.mArchive = "part"
    BY <1>3, <1>4, <2>2, ZenonT(60)
  <2> QED
    BY <2>3, <2>4
<1> QED
  BY <1>5, <1>6, <1>7, <1>8, Zenon

(* The slots and the DVD thread: every command is in one place, every slot *)
(* with a command is known to the thread, an archive is registered once.   *)
InDvd == Dvd!Queued \union ({running} \ {NoSlot})
DvdType == queue \in Seq(Slots) /\ running \in Slots \union {NoSlot} /\ done \subseteq Slots
           /\ fetched \subseteq done
DvdOrder ==
    /\ \A i, j \in DOMAIN queue : i # j => queue[i] # queue[j]
    /\ running \notin Dvd!Queued
    /\ done \intersect InDvd = {}
Own == \A s \in Slots :
    /\ info[s].mDMCommand => s \in Dvd!Given
    /\ s \in done => info[s].mDMCommand
ArchiveOK == \A s \in Slots : info[s].mArchive # "none" => ~info[s].mDMCommand
SlotInv == InfoOK /\ OneSlot /\ ArchiveOK /\ DvdType /\ DvdOrder /\ Own

(* What the calls of the game do to a slot, but for registering: it is     *)
(* freed, or counted and looked at.                                        *)
Kept(s) ==
    \/ info'[s] = NoInfo
    \/ /\ info[s].mCount # 0 /\ info'[s].mCount # 0 /\ info'[s].name = info[s].name
       /\ info'[s].mDMCommand => info[s].mDMCommand
       /\ info'[s].mArchive # "none" => ~info'[s].mDMCommand
       /\ info[s].mArchive # "none" => info'[s].mArchive = info[s].mArchive
       /\ info'[s].mArchive # "none" => info[s].mArchive # "none" \/ info[s].mDMCommand
Lets ==
    /\ info' \in [Slots -> Infos] /\ \A s \in Slots : Kept(s)
    /\ queue' = queue /\ running' = running
    /\ done' = {s \in done : info'[s].mDMCommand}
    /\ fetched' = {s \in fetched : info'[s].mDMCommand}

LEMMA NoInfoIs ==
  /\ NoInfo \in Infos /\ NoInfo.mCount = 0 /\ NoInfo.name = NoName /\ NoInfo.mDMCommand = FALSE
  /\ NoInfo.mArchive = "none"
<1>1. 0 \in Counts /\ NoName \in NamesOr /\ "none" \in Archives
  BY ResourceAssumption DEF Counts, NamesOr, Archives
<1> QED
  BY <1>1 DEF NoInfo, Infos

LEMMA DvdIs ==
  /\ InDvd = {queue[i] : i \in DOMAIN queue} \union ({running} \ {NoSlot})
  /\ Dvd!Given = InDvd \union done
BY DEF InDvd, Dvd!Given, Dvd!Queued

LEMMA LetsKeeps ==
  ASSUME SlotInv, Lets
  PROVE  SlotInv'
<1>1. InfoOK'
  <2>1. \A s \in Slots : info'[s].mCount = 0 => info'[s] = NoInfo
    BY DEF Lets, Kept
  <2> QED
    BY <2>1 DEF Lets, InfoOK
<1>2. \A s \in Slots : info'[s].mCount # 0 => info[s].mCount # 0 /\ info'[s].name = info[s].name
  BY NoInfoIs, Zenon DEF Lets, Kept
<1>3. OneSlot'
  BY <1>2, Zenon DEF SlotInv, OneSlot
<1>4. ArchiveOK'
  BY NoInfoIs, Zenon DEF Lets, Kept, ArchiveOK
<1>5. DvdType'
  BY DEF SlotInv, Lets, DvdType
<1>6. InDvd' = InDvd /\ Dvd!Queued' = Dvd!Queued
  BY DEF Lets, InDvd, Dvd!Queued
<1>7. DvdOrder'
  BY <1>6 DEF SlotInv, Lets, DvdOrder
<1>8. Own'
  <2>1. Dvd!Given' = InDvd' \union done'
    BY DEF InDvd, Dvd!Given, Dvd!Queued
  <2>2. \A s \in Slots : info'[s].mDMCommand => info[s].mDMCommand
    BY NoInfoIs, Zenon DEF Lets, Kept
  <2>3. \A s \in Slots : info'[s].mDMCommand => s \in Dvd!Given'
    BY <1>6, <2>1, <2>2, DvdIs DEF Lets, SlotInv, Own
  <2>4. \A s \in Slots : s \in done' => info'[s].mDMCommand
    BY DEF Lets
  <2> QED
    BY <2>3, <2>4 DEF Own
<1> QED
  BY <1>1, <1>3, <1>4, <1>5, <1>7, <1>8 DEF SlotInv

LEMMA NothingLets ==
  ASSUME SlotInv, UNCHANGED resources
  PROVE  Lets
<1>1. info' = info /\ queue' = queue /\ running' = running /\ done' = done /\ fetched' = fetched
  BY DEF resources, dvdVars
<1>2. \A s \in Slots : Kept(s)
  BY <1>1, Zenon DEF SlotInv, InfoOK, ArchiveOK, Kept
<1>3. done = {s \in done : info[s].mDMCommand} /\ fetched = {s \in fetched : info[s].mDMCommand}
  BY DEF SlotInv, Own, DvdType
<1> QED
  BY <1>1, <1>2, <1>3 DEF Lets, SlotInv, InfoOK

(* A record of the slot as a caller sees it before it looks.               *)
Seen(s, inf) ==
    /\ inf \in Infos /\ inf.mCount # 0 /\ inf.name = info[s].name
    /\ inf.mDMCommand = info[s].mDMCommand /\ inf.mArchive = info[s].mArchive

LEMMA SyncedIs ==
  ASSUME SlotInv, NEW s \in Slots, NEW inf, Seen(s, inf), NEW m \in Synced(s, inf)
  PROVE  /\ m.i \in Infos /\ m.i.mCount = inf.mCount /\ m.i.name = inf.name
         /\ m.i.mDMCommand => inf.mDMCommand
         /\ inf.mDMCommand /\ ~m.i.mDMCommand => s \in done
         /\ inf.mArchive # "none" => m.i.mArchive = inf.mArchive
         /\ m.i.mArchive # "none" => ~m.i.mDMCommand
         /\ m.i.mArchive # "none" => inf.mArchive # "none" \/ inf.mDMCommand
         /\ m.ret = "ready" => m.i.mArchive # "none"
         /\ m.ret = "failed" => (m.i.mArchive = "none" \/ m.i.mArchive = "part") /\ ~m.i.mDMCommand
<1>1. inf.mArchive # "none" => ~inf.mDMCommand
  BY DEF SlotInv, ArchiveOK, Seen
<1>2. \/ Unreadable(s) /\ m = [i |-> inf, ret |-> "failed"]
      \/ inf.mArchive # "none" /\ m = [i |-> inf, ret |-> "ready"]
      \/ inf.mArchive = "none" /\ ~Unreadable(s) /\ s \in done /\ m \in Mounted(s, inf)
      \/ m = [i |-> inf, ret |-> "waiting"]
  BY Zenon DEF Synced
<1>3. CASE Unreadable(s) /\ m = [i |-> inf, ret |-> "failed"]
  <2>1. m.i = inf /\ m.ret = "failed"
    BY <1>3
  <2> QED
    BY <1>3, <2>1 DEF Unreadable, Seen
<1>4. CASE inf.mArchive # "none" /\ m = [i |-> inf, ret |-> "ready"]
  <2>1. m.i = inf /\ m.ret = "ready"
    BY <1>4
  <2> QED
    BY <1>1, <1>4, <2>1 DEF Seen
<1>5. CASE inf.mArchive = "none" /\ ~Unreadable(s) /\ s \in done /\ m \in Mounted(s, inf)
  <2>1. inf \in Infos
    BY DEF Seen
  <2>2. /\ m.i \in Infos /\ m.i.mCount = inf.mCount /\ m.i.name = inf.name /\ ~m.i.mDMCommand
        /\ m.ret \in {"failed", "ready"} /\ (m.ret = "ready" => m.i.mArchive # "none")
        /\ m.ret = "failed" => m.i.mArchive = inf.mArchive \/ m.i.mArchive = "part"
    BY <1>5, <2>1, MountedIs, Zenon
  <2>3. inf.mDMCommand
    BY <1>5 DEF Unreadable, Seen
  <2> QED
    BY <1>5, <2>2, <2>3, Zenon
<1>6. CASE m = [i |-> inf, ret |-> "waiting"]
  <2>1. m.i = inf /\ m.ret = "waiting"
    BY <1>6
  <2> QED
    BY <1>1, <2>1 DEF Seen
<1> QED
  BY <1>2, <1>3, <1>4, <1>5, <1>6, Zenon

(* What a look at slot s, seen as inf, leaves of it.                       *)
Looked(s, inf, ret) ==
    /\ Lets
    /\ \A t \in Slots : t # s => info'[t] = info[t]
    /\ info'[s].mCount = inf.mCount /\ info'[s].name = inf.name
    /\ info[s].mDMCommand /\ ~info'[s].mDMCommand => s \in done
    /\ ret = "ready" => info'[s].mArchive # "none"
    /\ ret = "failed" =>
          (info'[s].mArchive = "none" \/ info'[s].mArchive = "part") /\ ~info'[s].mDMCommand

LEMMA SyncLets ==
  ASSUME SlotInv, NEW s \in Slots, info[s].mCount # 0, NEW inf, Seen(s, inf), NEW ret,
         syncRes(s, inf, ret)
  PROVE  Looked(s, inf, ret)
<1>1. PICK m \in Synced(s, inf) :
        /\ m.ret = ret /\ info' = [info EXCEPT ![s] = m.i]
        /\ IF inf.mDMCommand /\ ~m.i.mDMCommand
           THEN Dvd!Destroy(s) /\ fetched' = fetched \ {s}
           ELSE UNCHANGED <<dvdVars, fetched>>
  BY Zenon DEF syncRes
<1>0. PICK i : i = m.i
  OBVIOUS
<1>a. /\ m.i \in Infos /\ m.i.mCount = inf.mCount /\ m.i.name = inf.name
      /\ m.i.mDMCommand => inf.mDMCommand
      /\ inf.mDMCommand /\ ~m.i.mDMCommand => s \in done
      /\ inf.mArchive # "none" => m.i.mArchive = inf.mArchive
      /\ m.i.mArchive # "none" => ~m.i.mDMCommand
      /\ m.i.mArchive # "none" => inf.mArchive # "none" \/ inf.mDMCommand
      /\ m.ret = "ready" => m.i.mArchive # "none"
      /\ m.ret = "failed" => (m.i.mArchive = "none" \/ m.i.mArchive = "part") /\ ~m.i.mDMCommand
  BY SyncedIs
<1>2. /\ i \in Infos /\ i.mCount = inf.mCount /\ i.name = inf.name
      /\ i.mDMCommand => inf.mDMCommand
      /\ inf.mDMCommand /\ ~i.mDMCommand => s \in done
      /\ inf.mArchive # "none" => i.mArchive = inf.mArchive
      /\ i.mArchive # "none" => ~i.mDMCommand
      /\ i.mArchive # "none" => inf.mArchive # "none" \/ inf.mDMCommand
      /\ ret = "ready" => i.mArchive # "none"
      /\ ret = "failed" => (i.mArchive = "none" \/ i.mArchive = "part") /\ ~i.mDMCommand
  BY <1>0, <1>1, <1>a, Zenon
<1>3. /\ info' = [info EXCEPT ![s] = i]
      /\ IF inf.mDMCommand /\ ~i.mDMCommand
         THEN Dvd!Destroy(s) /\ fetched' = fetched \ {s}
         ELSE UNCHANGED <<dvdVars, fetched>>
  BY <1>0, <1>1
<1>4. info \in [Slots -> Infos]
  BY DEF SlotInv, InfoOK
<1>5. info' \in [Slots -> Infos] /\ info'[s] = i /\ \A t \in Slots : t # s => info'[t] = info[t]
  BY <1>2, <1>3, <1>4
<1>6. /\ i.mCount # 0 /\ i.name = info[s].name /\ inf.mDMCommand = info[s].mDMCommand
      /\ inf.mArchive = info[s].mArchive
  BY <1>2 DEF Seen
<1>7. Kept(s)
  BY <1>2, <1>5, <1>6, Zenon DEF Kept
<1>8. ASSUME NEW t \in Slots, t # s PROVE Kept(t)
  BY <1>5, <1>8, Zenon DEF Kept, SlotInv, InfoOK, ArchiveOK
<1>9. /\ queue' = queue /\ running' = running
      /\ IF inf.mDMCommand /\ ~i.mDMCommand
         THEN done' = done \ {s} /\ fetched' = fetched \ {s}
         ELSE done' = done /\ fetched' = fetched
  BY <1>3 DEF Dvd!Destroy, dvdVars
<1>10. \A t \in done : t \in Slots /\ info[t].mDMCommand
  BY DEF SlotInv, Own, DvdType
<1>11. ASSUME NEW t \in done PROVE t \in done' <=> info'[t].mDMCommand
  <2>1. CASE t = s
    BY <1>2, <1>5, <1>6, <1>9, <1>10, <2>1
  <2>2. CASE t # s
    BY <1>5, <1>9, <1>10, <2>2
  <2> QED
    BY <2>1, <2>2
<1>12. \A t \in fetched : t \in fetched' <=> t \in done'
  BY <1>9 DEF SlotInv, DvdType
<1>13. done' \subseteq done /\ fetched' \subseteq fetched /\ fetched \subseteq done
  BY <1>9 DEF SlotInv, DvdType
<1>14. Lets
  <2>1. done' = {t \in done : info'[t].mDMCommand}
    BY <1>11, <1>13, Zenon
  <2>2. fetched' = {t \in fetched : info'[t].mDMCommand}
    BY <1>11, <1>12, <1>13, Zenon
  <2> QED
    BY <1>5, <1>7, <1>8, <1>9, <2>1, <2>2, Zenon DEF Lets
<1> QED
  BY <1>2, <1>5, <1>6, <1>14, Zenon DEF Looked

LEMMA AllLets ==
  ASSUME SlotInv, syncAllRes
  PROVE  /\ Lets
         /\ \A s \in Slots : /\ info'[s].mCount = info[s].mCount /\ info'[s].name = info[s].name
                             /\ info[s].mDMCommand /\ ~info'[s].mDMCommand => s \in done
                             /\ info[s].mDMCommand \/ info'[s] = info[s]
<1> DEFINE pending == {s \in Slots : info[s].mDMCommand}
           looked == {s \in pending : \A p \in pending : p <= s => p \in done}
<1>1. PICK m \in [looked -> UNION {Mounted(s, info[s]) : s \in looked}] :
        /\ \A s \in looked : m[s] \in Mounted(s, info[s])
        /\ info' = [s \in Slots |-> IF s \in looked THEN m[s].i ELSE info[s]]
        /\ done' = done \ looked /\ fetched' = fetched \ looked
        /\ UNCHANGED <<queue, running>>
  BY Zenon DEF syncAllRes
<1>2. \A s \in looked : s \in Slots /\ info[s].mDMCommand /\ s \in done
  BY SlotsAre
<1> HIDE DEF looked, pending
<1>3. info \in [Slots -> Infos]
  BY DEF SlotInv, InfoOK
<1>4. ASSUME NEW s \in looked
      PROVE  /\ info'[s] \in Infos /\ info'[s].mCount = info[s].mCount /\ info'[s].name = info[s].name
             /\ ~info'[s].mDMCommand
  <2>0. PICK k \in Mounted(s, info[s]) : k = m[s]
    BY <1>1
  <2>1. info'[s] = k.i
    BY <1>1, <1>2, <2>0
  <2>2. info[s] \in Infos
    BY <1>2, <1>3
  <2>3. /\ k.i \in Infos /\ k.i.mCount = info[s].mCount /\ k.i.name = info[s].name
        /\ ~k.i.mDMCommand
    BY <1>2, <2>2, MountedIs
  <2> QED
    BY <2>1, <2>3, Zenon
<1>5. ASSUME NEW s \in Slots, s \notin looked PROVE info'[s] = info[s]
  BY <1>1, <1>5
<1>6. info' \in [Slots -> Infos]
  <2>1. \A s \in Slots : info'[s] \in Infos
    BY <1>3, <1>4, <1>5
  <2>2. info' = [s \in Slots |-> info'[s]]
    BY <1>1
  <2> HIDE <1>1
  <2> QED
    BY <2>1, <2>2
<1>7. ASSUME NEW s \in looked PROVE Kept(s)
  <2>1. info[s].mArchive = "none" /\ info[s].mCount # 0
    BY <1>2, NoInfoIs, Zenon DEF SlotInv, ArchiveOK, InfoOK
  <2> QED
    BY <1>2, <1>4, <2>1, Zenon DEF Kept
<1>8. ASSUME NEW s \in Slots, s \notin looked PROVE Kept(s)
  BY <1>5, <1>8, Zenon DEF Kept, SlotInv, InfoOK, ArchiveOK
<1>9. \A t \in done : t \in Slots /\ info[t].mDMCommand
  BY DEF SlotInv, Own, DvdType
<1>10. \A t \in done : info'[t].mDMCommand <=> t \notin looked
  BY <1>4, <1>5, <1>9
<1>11. fetched \subseteq done
  BY DEF SlotInv, DvdType
<1>12. Lets
  <2>1. done' = {t \in done : info'[t].mDMCommand} /\ fetched' = {t \in fetched : info'[t].mDMCommand}
    BY <1>1, <1>10, <1>11
  <2> QED
    BY <1>1, <1>6, <1>7, <1>8, <2>1, Zenon DEF Lets
<1> QED
  BY <1>2, <1>4, <1>5, <1>12, Zenon

(* What letting go of archive n leaves of the slots.                       *)
Deleted(n) ==
    /\ Lets
    /\ \A t \in Slots : ~Of(t, n) => info'[t] = info[t]
    /\ \A s \in Slots : Of(s, n) =>
          \/ info[s].mCount = 1 /\ info'[s] = NoInfo
          \/ /\ info[s].mCount > 1 /\ info'[s].mCount = info[s].mCount - 1
             /\ info'[s].name = info[s].name /\ info'[s].mDMCommand = info[s].mDMCommand
             /\ info'[s].mArchive = info[s].mArchive

LEMMA FindsSlot ==
  ASSUME NEW n
  PROVE  /\ getResInfo(n) \in Slots \union {NoSlot}
         /\ getResInfo(n) = NoSlot => \A s \in Slots : ~Of(s, n)
         /\ getResInfo(n) # NoSlot => getResInfo(n) \in Slots /\ Of(getResInfo(n), n)
         /\ OneSlot => \A s \in Slots : Of(s, n) => getResInfo(n) = s
<1>1. InfosOf(n) \in SUBSET Slots /\ \A s : s \in InfosOf(n) <=> s \in Slots /\ Of(s, n)
  BY DEF InfosOf, Of
<1>2. CASE InfosOf(n) = {}
  <2>1. getResInfo(n) = NoSlot
    BY <1>2 DEF getResInfo
  <2> QED
    BY <1>1, <1>2, <2>1
<1>3. CASE InfosOf(n) # {}
  <2>1. getResInfo(n) \in InfosOf(n)
    BY <1>1, <1>3, MinIn DEF getResInfo
  <2>2. getResInfo(n) # NoSlot
    BY <1>1, <2>1, SlotsAre
  <2>3. \A s, t \in Slots : Of(s, n) /\ Of(t, n) /\ OneSlot => s = t
    BY DEF Of, OneSlot
  <2> QED
    BY <1>1, <2>1, <2>2, <2>3
<1> QED
  BY <1>2, <1>3

LEMMA LessCount ==
  ASSUME NEW i \in Infos, i.mCount # 0, NEW j, j = [i EXCEPT !.mCount = @ - 1]
  PROVE  /\ j \in Infos /\ j.mCount = i.mCount - 1 /\ j.name = i.name
         /\ j.mDMCommand = i.mDMCommand /\ j.mArchive = i.mArchive
<1>1. PICK c : c = i.mCount - 1
  OBVIOUS
<1>2. i.mCount \in Counts
  BY DEF Infos
<1>3. c \in Counts
  BY <1>1, <1>2, ResourceAssumption DEF Counts
<1>4. j = [i EXCEPT !.mCount = c]
  BY <1>1
<1> QED
  BY <1>1, <1>3, <1>4 DEF Infos

LEMMA DeleteLets ==
  ASSUME SlotInv, NEW n, deleteRes(n)
  PROVE  Deleted(n)
<1> DEFINE s == getResInfo(n)
<1>1. CASE s = NoSlot
  <2>1. Lets /\ info' = info
    BY <1>1, NothingLets, Zenon DEF deleteRes, resources
  <2> QED
    BY <1>1, <2>1, FindsSlot, Zenon DEF Deleted
<1>2. CASE s # NoSlot
  <2>1. s \in Slots /\ Of(s, n) /\ \A t \in Slots : Of(t, n) => t = s
    BY <1>2, FindsSlot, Zenon DEF SlotInv
  <2>2. \/ /\ info[s].mCount # 1 /\ info' = [info EXCEPT ![s].mCount = @ - 1]
           /\ UNCHANGED <<fetched, dvdVars>>
        \/ /\ info[s].mCount = 1 /\ info' = [info EXCEPT ![s] = NoInfo] /\ fetched' = fetched \ {s}
           /\ done' = done \ {s} /\ UNCHANGED <<queue, running>>
    BY <1>2, Zenon DEF deleteRes, LastOf
  <2> HIDE DEF s
  <2>3. info \in [Slots -> Infos] /\ \A t \in done : t \in Slots /\ info[t].mDMCommand
    BY DEF SlotInv, InfoOK, Own, DvdType
  <2>4. info[s].mCount \in Counts /\ info[s].mCount # 0
    BY <2>1, <2>3 DEF Infos, Of
  <2>5. CASE /\ info[s].mCount # 1 /\ info' = [info EXCEPT ![s].mCount = @ - 1]
             /\ UNCHANGED <<fetched, dvdVars>>
    <3>1. PICK j : j = [info[s] EXCEPT !.mCount = @ - 1]
      OBVIOUS
    <3>2. info' = [info EXCEPT ![s] = j]
      BY <2>5, <3>1
    <3>3. /\ j \in Infos /\ j.mCount = info[s].mCount - 1 /\ j.name = info[s].name
          /\ j.mDMCommand = info[s].mDMCommand /\ j.mArchive = info[s].mArchive
      BY <2>1, <2>3, <2>4, <3>1, LessCount
    <3>4. /\ info' \in [Slots -> Infos] /\ info'[s] = j
          /\ \A t \in Slots : t # s => info'[t] = info[t]
      BY <2>1, <2>3, <3>2, <3>3
    <3>5. info[s].mCount > 1 /\ j.mCount # 0
      BY <2>4, <2>5, <3>3, ResourceAssumption DEF Counts
    <3>6. Kept(s)
      BY <2>1, <2>4, <3>3, <3>4, <3>5, Zenon DEF Kept, SlotInv, ArchiveOK
    <3>7. ASSUME NEW t \in Slots, t # s PROVE Kept(t)
      BY <3>4, <3>7, Zenon DEF Kept, SlotInv, InfoOK, ArchiveOK
    <3>8. \A t \in Slots : info'[t].mDMCommand = info[t].mDMCommand
      BY <3>3, <3>4, Zenon
    <3>9. done' = done /\ fetched' = fetched /\ queue' = queue /\ running' = running
      BY <2>5 DEF dvdVars
    <3>10. done' = {t \in done : info'[t].mDMCommand} /\ fetched' = {t \in fetched : info'[t].mDMCommand}
      BY <2>3, <3>8, <3>9 DEF SlotInv, DvdType
    <3>11. Lets
      BY <3>4, <3>6, <3>7, <3>9, <3>10, Zenon DEF Lets
    <3> QED
      BY <2>1, <3>3, <3>4, <3>5, <3>11, Zenon DEF Deleted
  <2>6. CASE /\ info[s].mCount = 1 /\ info' = [info EXCEPT ![s] = NoInfo] /\ fetched' = fetched \ {s}
             /\ done' = done \ {s} /\ UNCHANGED <<queue, running>>
    <3>1. /\ info' \in [Slots -> Infos] /\ info'[s] = NoInfo
          /\ \A t \in Slots : t # s => info'[t] = info[t]
      BY <2>1, <2>3, <2>6, NoInfoIs
    <3>2. ASSUME NEW t \in Slots, t # s PROVE Kept(t)
      BY <3>1, <3>2, Zenon DEF Kept, SlotInv, InfoOK, ArchiveOK
    <3>3. Kept(s)
      BY <3>1, Zenon DEF Kept
    <3>4. \A t \in done : info'[t].mDMCommand <=> t # s
      BY <2>3, <3>1, NoInfoIs
    <3>5. done' = {t \in done : info'[t].mDMCommand} /\ fetched' = {t \in fetched : info'[t].mDMCommand}
      BY <2>6, <3>4 DEF SlotInv, DvdType
    <3>6. Lets
      BY <2>6, <3>1, <3>2, <3>3, <3>5, Zenon DEF Lets
    <3> QED
      BY <2>1, <2>6, <3>1, <3>6, Zenon DEF Deleted
  <2> QED
    BY <2>2, <2>5, <2>6, Zenon
<1> QED
  BY <1>1, <1>2

(* What registering archive n does.                                        *)
Added(n) ==
    \E s \in Slots :
        /\ info[s].mCount = 0 /\ info' \in [Slots -> Infos]
        /\ \A t \in Slots : t # s => info'[t] = info[t]
        /\ info'[s].mCount = 1 /\ info'[s].name = n /\ info'[s].mDMCommand
        /\ info'[s].mArchive = "none"
        /\ s \notin Dvd!Given /\ queue' = Append(queue, s)
        /\ running' = running /\ done' = done /\ fetched' = fetched
        /\ \A t \in Slots : ~Of(t, n)

LEMMA NewInfo ==
  ASSUME NEW n \in Names, NEW i, i = [NoInfo EXCEPT !.name = n, !.mCount = 1, !.mDMCommand = TRUE]
  PROVE  /\ i \in Infos /\ i.mCount = 1 /\ i.name = n /\ i.mDMCommand /\ i.mArchive = "none"
<1>1. 1 \in Counts /\ n \in NamesOr /\ TRUE \in BOOLEAN
  BY ResourceAssumption DEF Counts, NamesOr
<1>2. PICK c, b : c = 1 /\ b = TRUE
  OBVIOUS
<1>3. i = [NoInfo EXCEPT !.name = n, !.mCount = c, !.mDMCommand = b]
  BY <1>2
<1>4. /\ i \in Infos /\ i.mCount = c /\ i.name = n /\ i.mDMCommand = b /\ i.mArchive = NoInfo.mArchive
  BY <1>1, <1>2, <1>3, NoInfoIs DEF Infos
<1> QED
  BY <1>2, <1>4, NoInfoIs

LEMMA RegistersAdds ==
  ASSUME SlotInv, NEW n \in Names, Registers(n)
  PROVE  Added(n)
<1> DEFINE s == Min(FreeInfos)
<1>1. s \in Slots /\ info[s].mCount = 0
  <2>1. FreeInfos \in SUBSET Slots /\ FreeInfos # {} /\ \A t \in FreeInfos : info[t].mCount = 0
    BY DEF FreeInfos, Registers
  <2> QED
    BY <2>1, MinIn
<1>2. /\ info' = [info EXCEPT ![s] = [NoInfo EXCEPT !.name = n, !.mCount = 1, !.mDMCommand = TRUE]]
      /\ Dvd!Give(s) /\ fetched' = fetched /\ getResInfo(n) = NoSlot
  BY Zenon DEF Registers
<1> HIDE DEF s
<1>3. PICK i : i = [NoInfo EXCEPT !.name = n, !.mCount = 1, !.mDMCommand = TRUE]
  OBVIOUS
<1>4. i \in Infos /\ i.mCount = 1 /\ i.name = n /\ i.mDMCommand /\ i.mArchive = "none"
  BY <1>3, NewInfo
<1>5. info' = [info EXCEPT ![s] = i]
  BY <1>2, <1>3, Zenon
<1>6. info' \in [Slots -> Infos] /\ info'[s] = i /\ \A t \in Slots : t # s => info'[t] = info[t]
  BY <1>1, <1>4, <1>5 DEF SlotInv, InfoOK
<1>7. s \notin Dvd!Given /\ queue' = Append(queue, s) /\ running' = running /\ done' = done
  BY <1>2 DEF Dvd!Give
<1>8. \A t \in Slots : ~Of(t, n)
  BY <1>2, FindsSlot
<1> QED
  BY <1>1, <1>2, <1>4, <1>6, <1>7, <1>8, Zenon DEF Added

LEMMA AppendIs ==
  ASSUME NEW S, NEW seq \in Seq(S), NEW s \in S
  PROVE  /\ Append(seq, s) \in Seq(S)
         /\ \A i \in DOMAIN seq : i \in DOMAIN Append(seq, s) /\ Append(seq, s)[i] = seq[i]
         /\ \A i \in DOMAIN Append(seq, s) : i \in DOMAIN seq \/ (i = Len(seq) + 1 /\ Append(seq, s)[i] = s)
         /\ Len(seq) + 1 \in DOMAIN Append(seq, s) /\ Append(seq, s)[Len(seq) + 1] = s
  OBVIOUS

LEMMA AddedKeeps ==
  ASSUME SlotInv, NEW n, Added(n)
  PROVE  SlotInv'
<1>1. PICK s \in Slots :
        /\ info[s].mCount = 0 /\ info' \in [Slots -> Infos]
        /\ \A t \in Slots : t # s => info'[t] = info[t]
        /\ info'[s].mCount = 1 /\ info'[s].name = n /\ info'[s].mDMCommand
        /\ info'[s].mArchive = "none"
        /\ s \notin Dvd!Given /\ queue' = Append(queue, s)
        /\ running' = running /\ done' = done /\ fetched' = fetched
        /\ \A t \in Slots : ~Of(t, n)
  BY Zenon DEF Added
<1>2. InfoOK'
  BY <1>1 DEF SlotInv, InfoOK
<1>3. OneSlot'
  <2>1. ASSUME NEW t \in Slots, NEW u \in Slots, t # u, info'[t].mCount # 0, info'[u].mCount # 0,
               info'[t].name = info'[u].name
        PROVE  FALSE
    <3>1. CASE t # s /\ u # s
      BY <1>1, <2>1, <3>1 DEF SlotInv, OneSlot
    <3>2. CASE t = s
      BY <1>1, <2>1, <3>2 DEF Of
    <3>3. CASE u = s
      BY <1>1, <2>1, <3>3 DEF Of
    <3> QED
      BY <3>1, <3>2, <3>3
  <2> QED
    BY <2>1 DEF OneSlot
<1>4. ArchiveOK'
  BY <1>1 DEF SlotInv, ArchiveOK
<1>5. /\ queue' \in Seq(Slots)
      /\ \A i \in DOMAIN queue : i \in DOMAIN queue' /\ queue'[i] = queue[i]
      /\ \A i \in DOMAIN queue' : i \in DOMAIN queue \/ (i = Len(queue) + 1 /\ queue'[i] = s)
      /\ Len(queue) + 1 \in DOMAIN queue' /\ queue'[Len(queue) + 1] = s
  BY <1>1, AppendIs DEF SlotInv, DvdType
<1>6. DvdType'
  BY <1>1, <1>5 DEF SlotInv, DvdType
<1>7. Dvd!Queued' = Dvd!Queued \union {s}
  BY <1>5 DEF Dvd!Queued
<1>8. s \notin Dvd!Queued /\ s # running /\ s \notin done
  BY <1>1, SlotsAre DEF Dvd!Given
<1>9. InDvd' = InDvd \union {s} /\ Dvd!Given' = Dvd!Given \union {s}
  BY <1>1, <1>7 DEF InDvd, Dvd!Given
<1>10. DvdOrder'
  <2>1. ASSUME NEW i \in DOMAIN queue', NEW j \in DOMAIN queue', i # j, queue'[i] = queue'[j]
        PROVE  FALSE
    <3>1. \A k \in DOMAIN queue : queue'[k] \in Dvd!Queued
      BY <1>5 DEF Dvd!Queued
    <3>2. CASE i \in DOMAIN queue /\ j \in DOMAIN queue
      BY <1>5, <2>1, <3>2 DEF SlotInv, DvdOrder
    <3>3. CASE i \notin DOMAIN queue \/ j \notin DOMAIN queue
      BY <1>5, <1>8, <2>1, <3>1, <3>3
    <3> QED
      BY <3>2, <3>3
  <2>2. running' \notin Dvd!Queued' /\ done' \intersect InDvd' = {}
    BY <1>1, <1>7, <1>8, <1>9 DEF SlotInv, DvdOrder
  <2> QED
    BY <2>1, <2>2 DEF DvdOrder
<1>11. Own'
  BY <1>1, <1>8, <1>9 DEF SlotInv, Own
<1> QED
  BY <1>2, <1>3, <1>4, <1>6, <1>10, <1>11 DEF SlotInv

LEMMA BeginsKeeps ==
  ASSUME SlotInv, DvdBegins
  PROVE  SlotInv' /\ InDvd' = InDvd
<1>1. /\ running = NoSlot /\ queue # <<>> /\ running' = Head(queue) /\ queue' = Tail(queue)
      /\ done' = done /\ info' = info /\ fetched' = fetched
  BY DEF DvdBegins, Dvd!Begin
<1>2. /\ queue \in Seq(Slots) /\ queue' \in Seq(Slots) /\ running' \in Slots
      /\ running' = queue[1] /\ 1 \in DOMAIN queue
      /\ \A i \in DOMAIN queue' : i + 1 \in DOMAIN queue /\ queue'[i] = queue[i + 1] /\ i \in Nat \ {0}
      /\ \A i \in DOMAIN queue : i # 1 => i - 1 \in DOMAIN queue' /\ queue'[i - 1] = queue[i]
  <2>1. queue \in Seq(Slots)
    BY DEF SlotInv, DvdType
  <2> QED
    BY <1>1, <2>1
<1>3. Dvd!Queued = Dvd!Queued' \union {running'}
  <2>1. \A x : x \in Dvd!Queued <=> \E i \in DOMAIN queue : x = queue[i]
    BY DEF Dvd!Queued
  <2>2. \A x : x \in Dvd!Queued' <=> \E i \in DOMAIN queue' : x = queue'[i]
    BY DEF Dvd!Queued
  <2>3. ASSUME NEW x \in Dvd!Queued PROVE x \in Dvd!Queued' \/ x = running'
    <3>1. PICK i \in DOMAIN queue : x = queue[i]
      BY <2>1, <2>3
    <3>2. CASE i = 1
      BY <1>2, <3>1, <3>2
    <3>3. CASE i # 1
      <4>1. i - 1 \in DOMAIN queue' /\ queue'[i - 1] = x
        BY <1>2, <3>1, <3>3
      <4> QED
        BY <2>2, <4>1, Zenon
    <3> QED
      BY <3>2, <3>3
  <2>4. ASSUME NEW x \in Dvd!Queued' PROVE x \in Dvd!Queued
    BY <1>2, <2>1, <2>2, <2>4
  <2>5. running' \in Dvd!Queued
    BY <1>2, <2>1
  <2> QED
    BY <2>3, <2>4, <2>5
<1>4. running' # NoSlot
  BY <1>2, SlotsAre
<1>5. InDvd' = InDvd
  BY <1>1, <1>3, <1>4 DEF InDvd
<1>6. DvdOrder'
  <2>1. \A i, j \in DOMAIN queue : i # j => queue[i] # queue[j]
    BY DEF SlotInv, DvdOrder
  <2>2. \A i, j \in DOMAIN queue' : i # j => queue'[i] # queue'[j]
    BY <1>2, <2>1
  <2>3. running' \notin Dvd!Queued'
    <3>1. \A i \in DOMAIN queue' : queue'[i] # queue[1]
      BY <1>2, <2>1
    <3> QED
      BY <1>2, <3>1 DEF Dvd!Queued
  <2>4. done' \intersect InDvd' = {}
    BY <1>1, <1>5 DEF SlotInv, DvdOrder
  <2> QED
    BY <2>2, <2>3, <2>4 DEF DvdOrder
<1>7. Dvd!Given' = Dvd!Given
  <2>1. Dvd!Given' = InDvd' \union done'
    BY DEF InDvd, Dvd!Given
  <2> QED
    BY <1>1, <1>5, <2>1, DvdIs
<1>8. DvdType' /\ Own'
  BY <1>1, <1>2, <1>7 DEF SlotInv, DvdType, Own
<1>9. InfoOK' /\ OneSlot' /\ ArchiveOK'
  BY <1>1 DEF SlotInv, InfoOK, OneSlot, ArchiveOK
<1> QED
  BY <1>5, <1>6, <1>8, <1>9 DEF SlotInv

LEMMA EndsKeeps ==
  ASSUME SlotInv, Dangling = {}, DvdEnds
  PROVE  SlotInv' /\ InDvd' \subseteq InDvd
<1>1. /\ running # NoSlot /\ running' = NoSlot /\ queue' = queue
      /\ done' = done \union {running} /\ info' = info
      /\ fetched' = fetched \/ fetched' = fetched \union {running}
  BY DEF DvdEnds, Dvd!End
<1>2. Dvd!Queued' = Dvd!Queued
  BY <1>1 DEF Dvd!Queued
<1>3. InDvd' \subseteq InDvd /\ running \in InDvd /\ running \notin InDvd'
  BY <1>1, <1>2 DEF InDvd, SlotInv, DvdOrder
<1>4. NoSlot \notin Dvd!Queued'
  BY <1>2, SlotsAre DEF Dvd!Queued, SlotInv, DvdType
<1>5. DvdOrder'
  BY <1>1, <1>2, <1>3, <1>4 DEF SlotInv, DvdOrder
<1>6. DvdType'
  BY <1>1 DEF SlotInv, DvdType
<1>7. info[running].mDMCommand
  BY <1>3 DEF Dangling, InDvd
<1>8. Dvd!Given' = Dvd!Given
  BY <1>1, <1>2 DEF Dvd!Given
<1>9. Own'
  BY <1>1, <1>7, <1>8 DEF SlotInv, Own
<1>10. InfoOK' /\ OneSlot' /\ ArchiveOK'
  BY <1>1 DEF SlotInv, InfoOK, OneSlot, ArchiveOK
<1> QED
  BY <1>3, <1>5, <1>6, <1>9, <1>10 DEF SlotInv

(* What one call of dComIfG_resLoad by a request at id leaves of the slots *)
(* when it finds the archive registered in s.                              *)
Found(s, n, id, o) ==
    /\ Lets /\ Of(s, n)
    /\ \A t \in Slots : t # s => info'[t] = info[t]
    /\ info'[s].mCount = (IF id = 0 THEN info[s].mCount + 1 ELSE info[s].mCount)
    /\ info'[s].name = n
    /\ info[s].mDMCommand /\ ~info'[s].mDMCommand => s \in done
    /\ o.id = 2 => info'[s].mArchive # "none"
    /\ o.id = 0 =>
          (info'[s].mArchive = "none" \/ info'[s].mArchive = "part") /\ ~info'[s].mDMCommand

LEMMA OutcomesAre ==
  /\ Complete.id = 2 /\ Ready.id = 2 /\ StillWaiting.id = 1 /\ Error.id = 0
  /\ Complete.phase = "COMPLEATE" /\ Ready.phase # "COMPLEATE" /\ StillWaiting.phase # "COMPLEATE"
  /\ Error.phase # "COMPLEATE"
BY DEF Complete, Ready, StillWaiting, Error

LEMMA LooksIs ==
  ASSUME SlotInv, NEW s \in Slots, info[s].mCount # 0, NEW inf, Seen(s, inf),
         NEW o, Looks(s, inf, o)
  PROVE  /\ o \in Outcomes /\ full' = full
         /\ \E ret : Looked(s, inf, ret) /\ (o.id = 2 => ret = "ready") /\ (o.id = 0 => ret = "failed")
<1>1. \/ o \in {Ready, Complete} /\ syncRes(s, inf, "ready")
      \/ o = StillWaiting /\ syncRes(s, inf, "waiting")
      \/ o = Error /\ syncRes(s, inf, "failed")
  BY Zenon DEF Looks
<1>2. o \in Outcomes /\ full' = full
  <2>1. full' = full
    BY DEF Looks
  <2>2. o \in Outcomes
    BY <1>1, Zenon DEF Outcomes
  <2> QED
    BY <2>1, <2>2
<1>3. CASE o \in {Ready, Complete} /\ syncRes(s, inf, "ready")
  <2>1. o.id = 2
    BY <1>3, OutcomesAre
  <2>2. Looked(s, inf, "ready")
    BY <1>3, SyncLets, Zenon
  <2> QED
    BY <1>2, <2>1, <2>2
<1>4. CASE o = StillWaiting /\ syncRes(s, inf, "waiting")
  <2>1. o.id = 1
    BY <1>4, OutcomesAre
  <2>2. Looked(s, inf, "waiting")
    BY <1>4, SyncLets, Zenon
  <2> QED
    BY <1>2, <2>1, <2>2
<1>5. CASE o = Error /\ syncRes(s, inf, "failed")
  <2>1. o.id = 0
    BY <1>5, OutcomesAre
  <2>2. Looked(s, inf, "failed")
    BY <1>5, SyncLets, Zenon
  <2> QED
    BY <1>2, <2>1, <2>2
<1> QED
  BY <1>1, <1>3, <1>4, <1>5, Zenon

LEMMA LoadIs ==
  ASSUME SlotInv, NEW n \in Names, NEW id \in 0..2, NEW o, resLoad(n, id, o)
  PROVE  /\ o \in Outcomes
         /\ full \in BOOLEAN => full' \in BOOLEAN
         /\ \/ id = 2 /\ o.id = 2 /\ UNCHANGED <<resources, full>>
            \/ o.id = 0 /\ UNCHANGED resources /\ \A s \in Slots : ~Of(s, n)
            \/ id = 0 /\ o.id = 1 /\ Added(n) /\ full' = full
            \/ id # 2 /\ full' = full /\ \E s \in Slots : Found(s, n, id, o)
<1>1. \/ id = 2 /\ o = Complete /\ UNCHANGED <<resources, full>>
      \/ id = 0 /\ o = Error /\ Refused(n)
      \/ id = 0 /\ o = StillWaiting /\ Registers(n)
      \/ \E s \in {getResInfo(n)} \ {NoSlot} :
           \/ id = 0 /\ info[s].mCount < MaxCount /\ Looks(s, Counted(s), o)
           \/ id = 1 /\ Looks(s, info[s], o)
      \/ id = 1 /\ o = Error /\ getResInfo(n) = NoSlot /\ UNCHANGED <<resources, full>>
  BY Zenon DEF resLoad
<1>2. CASE id = 2 /\ o = Complete /\ UNCHANGED <<resources, full>>
  BY <1>2, OutcomesAre, Zenon DEF Outcomes
<1>3. CASE id = 0 /\ o = Error /\ Refused(n)
  <2>1. UNCHANGED resources /\ \A s \in Slots : ~Of(s, n)
    BY <1>3, FindsSlot, Zenon DEF Refused
  <2>2. full' \in BOOLEAN
    BY <1>3 DEF Refused
  <2> QED
    BY <1>3, <2>1, <2>2, OutcomesAre, Zenon DEF Outcomes
<1>4. CASE id = 0 /\ o = StillWaiting /\ Registers(n)
  <2>1. Added(n) /\ full' = full
    BY <1>4, RegistersAdds, Zenon DEF Registers
  <2> QED
    BY <1>4, <2>1, OutcomesAre, Zenon DEF Outcomes
<1>5. CASE id = 1 /\ o = Error /\ getResInfo(n) = NoSlot /\ UNCHANGED <<resources, full>>
  BY <1>5, FindsSlot, OutcomesAre, Zenon DEF Outcomes
<1>6. ASSUME NEW s, s = getResInfo(n), s # NoSlot,
             \/ id = 0 /\ info[s].mCount < MaxCount /\ Looks(s, Counted(s), o)
             \/ id = 1 /\ Looks(s, info[s], o)
      PROVE  o \in Outcomes /\ full' = full /\ s \in Slots /\ Found(s, n, id, o) /\ id # 2
  <2>1. s \in Slots /\ info[s].mCount # 0 /\ info[s].name = n /\ Of(s, n)
    BY <1>6, FindsSlot DEF Of
  <2>2. PICK inf : /\ Seen(s, inf) /\ Looks(s, inf, o) /\ id # 2
                   /\ inf.mCount = (IF id = 0 THEN info[s].mCount + 1 ELSE info[s].mCount)
    <3>1. CASE id = 0 /\ info[s].mCount < MaxCount /\ Looks(s, Counted(s), o)
      <4>1. /\ Counted(s) \in Infos /\ Counted(s).mCount = info[s].mCount + 1
            /\ Counted(s).name = info[s].name /\ Counted(s).mDMCommand = info[s].mDMCommand
            /\ Counted(s).mArchive = info[s].mArchive
        BY <2>1, <3>1, CountedIs DEF SlotInv
      <4>2. info[s].mCount \in Nat
        BY <2>1, ResourceAssumption DEF SlotInv, InfoOK, Infos, Counts
      <4>3. Counted(s).mCount # 0
        BY <4>1, <4>2
      <4> QED
        BY <3>1, <4>1, <4>3 DEF Seen
    <3>2. CASE id = 1 /\ Looks(s, info[s], o)
      <4>1. info[s] \in Infos
        BY <2>1 DEF SlotInv, InfoOK
      <4>2. Seen(s, info[s])
        BY <2>1, <4>1 DEF Seen
      <4> QED
        BY <3>2, <4>2
    <3> QED
      BY <1>6, <3>1, <3>2
  <2>3. PICK ret : Looked(s, inf, ret) /\ (o.id = 2 => ret = "ready") /\ (o.id = 0 => ret = "failed")
    BY <2>1, <2>2, LooksIs, Zenon
  <2>4. o \in Outcomes /\ full' = full
    BY <2>1, <2>2, LooksIs, Zenon
  <2>5. inf.name = n
    BY <2>1, <2>2 DEF Seen
  <2>6. Found(s, n, id, o)
    BY <2>1, <2>2, <2>3, <2>5, Zenon DEF Looked, Found
  <2> QED
    BY <2>1, <2>2, <2>4, <2>6, Zenon
<1>7. CASE \E s \in {getResInfo(n)} \ {NoSlot} :
           \/ id = 0 /\ info[s].mCount < MaxCount /\ Looks(s, Counted(s), o)
           \/ id = 1 /\ Looks(s, info[s], o)
  <2>1. PICK s : /\ s = getResInfo(n) /\ s # NoSlot
                 /\ \/ id = 0 /\ info[s].mCount < MaxCount /\ Looks(s, Counted(s), o)
                    \/ id = 1 /\ Looks(s, info[s], o)
    BY <1>7, Zenon
  <2>2. o \in Outcomes /\ full' = full /\ s \in Slots /\ Found(s, n, id, o) /\ id # 2
    BY <2>1, <1>6, Zenon
  <2> QED
    BY <2>2, Zenon
<1> QED
  BY <1>1, <1>2, <1>3, <1>4, <1>5, <1>7, Zenon

(* A call of the game is either: nothing is registered, or one archive is. *)
LEMMA LoadMoves ==
  ASSUME SlotInv, NEW n \in Names, NEW id \in 0..2, NEW o, resLoad(n, id, o)
  PROVE  Lets \/ Added(n)
  BY LoadIs, NothingLets, Zenon DEF Found, resources, dvdVars

LEMMA ResDeleteMoves ==
  ASSUME SlotInv, NEW n, NEW id, resDelete(n, id)
  PROVE  Lets
  BY DeleteLets, NothingLets, Zenon DEF resDelete, Deleted

(* Who asks for archives, and that they are counted and, once they hold    *)
(* one, that it is mounted.                                                *)
Ids == 0..2
ActorPlaces == {"gone", "creating", "created", "failed"}
Timers == {0, 2, 3, 4}
LinkPlaces == {"creating", "playing", "leaving"}
ActorRecords == [at : ActorPlaces, name : NamesOr, id : Ids]
GearRecords == [timer : Timers, name : Names, id : Ids]
RequestType ==
    /\ actor \in [Actors -> ActorRecords] /\ gear \in [Gears -> GearRecords]
    /\ link \in LinkPlaces /\ freed \subseteq Slots /\ full \in BOOLEAN
Requesters ==
    /\ \A a \in Actors : IF actor[a].at = "gone" THEN actor[a].id = 0 ELSE actor[a].name \in Wants
    /\ \A g \in Gears : gear[g].name \in Wardrobe[g]

Registered(n) == \E s \in Slots : Of(s, n)
MountedIn(n) == \A s \in Slots : Of(s, n) => info[s].mArchive # "none"
Loading(n) == {a \in Actors : actor[a].name = n /\ actor[a].id # 0}
ActorsCounted == \A n \in Wants : Loading(n) # {} =>
    \E s \in Slots : Of(s, n) /\ info[s].mCount >= Cardinality(Loading(n))
GearCounted == \A g \in Gears : gear[g].id # 0 => Registered(gear[g].name)
HeldMounted ==
    /\ \A a \in Actors : actor[a].id = 2 => MountedIn(actor[a].name)
    /\ \A g \in Gears : gear[g].id = 2 => MountedIn(gear[g].name)
RequestInv == RequestType /\ Requesters /\ ActorsCounted /\ GearCounted /\ HeldMounted

Moves == Lets \/ \E m : Added(m)
OthersKept(n) == \A s \in Slots : \A m : m # n /\ Of(s, m) =>
    info'[s].name = m /\ info'[s].mCount = info[s].mCount

LEMMA NameOf ==
  /\ \A a \in Actors : Requesters /\ actor[a].id # 0 => actor[a].name \in Wants
  /\ \A n \in Wants : n \in Names
  /\ \A g \in Gears : Wardrobe[g] \subseteq Names /\ Wardrobe[g] \intersect Wants = {}
  /\ \A g, h \in Gears : g # h => Wardrobe[g] \intersect Wardrobe[h] = {}
  BY ResourceAssumption, Zenon DEF Requesters

LEMMA CountIs ==
  ASSUME SlotInv, NEW s \in Slots
  PROVE  info[s].mCount \in Nat
  BY ResourceAssumption DEF SlotInv, InfoOK, Infos, Counts

LEMMA MountedKept ==
  ASSUME SlotInv, Moves, NEW n, Registered(n), MountedIn(n)
  PROVE  MountedIn(n)'
<1> SUFFICES ASSUME NEW s \in Slots, info'[s].mCount # 0, info'[s].name = n
             PROVE  info'[s].mArchive # "none"
  BY DEF MountedIn, Of
<1>1. CASE Lets
  <2>1. info'[s] # NoInfo
    BY NoInfoIs
  <2>2. Of(s, n) /\ (info[s].mArchive # "none" => info'[s].mArchive = info[s].mArchive)
    BY <1>1, <2>1 DEF Lets, Kept, Of
  <2> QED
    BY <2>2 DEF MountedIn
<1>2. ASSUME NEW m, Added(m) PROVE info'[s].mArchive # "none"
  <2>1. PICK t \in Slots : /\ \A u \in Slots : u # t => info'[u] = info[u]
                           /\ info'[t].name = m /\ \A u \in Slots : ~Of(u, m)
    BY <1>2, Zenon DEF Added
  <2>2. s # t
    BY <2>1 DEF Registered
  <2> QED
    BY <2>1, <2>2 DEF MountedIn, Of
<1> QED
  BY <1>1, <1>2 DEF Moves

LEMMA RegisteredKept ==
  ASSUME NEW n, NEW m, m # n, OthersKept(n), Registered(m)
  PROVE  Registered(m)'
<1>1. PICK s \in Slots : Of(s, m)
  BY DEF Registered
<1>2. info'[s].name = m /\ info'[s].mCount # 0
  BY <1>1 DEF OthersKept, Of
<1> QED
  BY <1>2 DEF Registered, Of

LEMMA LoadingFinite ==
  ASSUME NEW n
  PROVE  /\ IsFiniteSet(Loading(n)) /\ Cardinality(Loading(n)) \in Nat
         /\ Cardinality(Loading(n)) = 0 <=> Loading(n) = {}
<1>1. IsFiniteSet(Loading(n))
  BY ResourceAssumption, FS_Subset DEF Loading
<1> QED
  BY <1>1, FS_CardinalityType, FS_EmptySet

LEMMA ActorRegistered ==
  ASSUME RequestInv, NEW a \in Actors, actor[a].id # 0
  PROVE  /\ Registered(actor[a].name) /\ actor[a].name \in Wants
         /\ a \in Loading(actor[a].name)
<1>1. a \in Loading(actor[a].name) /\ actor[a].name \in Wants
  BY NameOf DEF Loading, RequestInv
<1> QED
  BY <1>1, Zenon DEF RequestInv, ActorsCounted, Registered

(* Who asks for another archive does not notice.                           *)
LEMMA OtherWants ==
  ASSUME SlotInv, ActorsCounted, NEW n, OthersKept(n), NEW m \in Wants, m # n,
         Loading(m)' = Loading(m)
  PROVE  Loading(m)' # {} => \E s \in Slots : Of(s, m)' /\ info'[s].mCount >= Cardinality(Loading(m)')
<1> SUFFICES ASSUME Loading(m) # {}
             PROVE  \E s \in Slots : Of(s, m)' /\ info'[s].mCount >= Cardinality(Loading(m))
  OBVIOUS
<1>1. PICK s \in Slots : Of(s, m) /\ info[s].mCount >= Cardinality(Loading(m))
  BY DEF ActorsCounted
<1>2. info'[s].name = m /\ info'[s].mCount = info[s].mCount
  BY <1>1 DEF OthersKept
<1> QED
  BY <1>1, <1>2 DEF Of

LEMMA OtherGear ==
  ASSUME SlotInv, RequestInv, Moves, NEW n, OthersKept(n), NEW g \in Gears,
         gear'[g] = gear[g], gear[g].name # n
  PROVE  \A m : m = gear'[g].name => /\ gear'[g].id # 0 => Registered(m)'
                                     /\ gear'[g].id = 2 => MountedIn(m)'
<1>1. PICK m, id : m = gear[g].name /\ id = gear[g].id
  OBVIOUS
<1>2. id # 0 => Registered(m)
  BY <1>1 DEF RequestInv, GearCounted
<1>3. id = 2 => MountedIn(m)
  BY <1>1 DEF RequestInv, HeldMounted
<1>4. id # 0 => Registered(m)'
  BY <1>1, <1>2, RegisteredKept
<1>5. id = 2 => MountedIn(m)'
  BY <1>2, <1>3, MountedKept
<1>6. gear'[g].name = m /\ gear'[g].id = id
  BY <1>1
<1> QED
  BY <1>4, <1>5, <1>6

LEMMA ActorMounted ==
  ASSUME SlotInv, RequestInv, Moves, NEW a \in Actors,
         actor[a].id = 2, actor'[a] = actor[a]
  PROVE  \A m : m = actor'[a].name => MountedIn(m)'
<1>1. PICK m : m = actor[a].name
  OBVIOUS
<1>2. Registered(m) /\ MountedIn(m)
  BY <1>1, ActorRegistered DEF RequestInv, HeldMounted
<1>3. MountedIn(m)'
  BY <1>2, MountedKept
<1> QED
  BY <1>1, <1>3

LEMMA LoadOthers ==
  ASSUME SlotInv, NEW n,
         \/ UNCHANGED resources
         \/ Added(n) \/ \E s \in Slots : \E id, o : Found(s, n, id, o)
  PROVE  Moves /\ OthersKept(n)
<1>1. CASE UNCHANGED resources
  BY <1>1, NothingLets, Zenon DEF Moves, OthersKept, resources, Of
<1>2. CASE Added(n)
  <2>1. PICK t \in Slots : /\ \A u \in Slots : u # t => info'[u] = info[u]
                           /\ info[t].mCount = 0
    BY <1>2, Zenon DEF Added
  <2>2. OthersKept(n)
    BY <2>1, Zenon DEF OthersKept, Of
  <2> QED
    BY <1>2, <2>2, Zenon DEF Moves
<1>3. CASE \E s \in Slots : \E id, o : Found(s, n, id, o)
  <2>1. PICK s, id, o : s \in Slots /\ Found(s, n, id, o)
    BY <1>3, Zenon
  <2>2. OthersKept(n)
    BY <2>1, Zenon DEF OthersKept, Found, Of
  <2> QED
    BY <2>1, <2>2, Zenon DEF Moves, Found
<1> QED
  BY <1>1, <1>2, <1>3

LEMMA DeleteOthers ==
  ASSUME SlotInv, NEW n, Deleted(n)
  PROVE  Moves /\ OthersKept(n)
  BY Zenon DEF Moves, Deleted, OthersKept, Of

(* The counts in the next state, seen archive by archive.                  *)
LEMMA NextCounted ==
  /\ (\A g \in Gears : \A m : m = gear'[g].name => (gear'[g].id # 0 => Registered(m)')) => GearCounted'
  /\ (\A n \in Wants : Loading(n)' # {} =>
         \E s \in Slots : Of(s, n)' /\ info'[s].mCount >= Cardinality(Loading(n)')) => ActorsCounted'
<1>1. ASSUME \A g \in Gears : \A m : m = gear'[g].name => (gear'[g].id # 0 => Registered(m)')
      PROVE  GearCounted'
  BY <1>1 DEF GearCounted, Registered, Of
<1>2. ASSUME \A n \in Wants : Loading(n)' # {} =>
         \E s \in Slots : Of(s, n)' /\ info'[s].mCount >= Cardinality(Loading(n)')
      PROVE  ActorsCounted'
  BY <1>2 DEF ActorsCounted, Of, Loading
<1> QED
  BY <1>1, <1>2

LEMMA NextMounted ==
  ASSUME \A a \in Actors : \A m : actor'[a].id = 2 /\ m = actor'[a].name => MountedIn(m)',
         \A g \in Gears : \A m : gear'[g].id = 2 /\ m = gear'[g].name => MountedIn(m)'
  PROVE  HeldMounted'
  BY DEF HeldMounted, MountedIn, Of

(* One actor's request changes, the others' do not.                        *)
LEMMA LoadingChanges ==
  ASSUME RequestInv, NEW a \in Actors, \A b \in Actors : b # a => actor'[b] = actor[b],
         NEW n, n = actor[a].name,
         actor'[a].id = 0 \/ actor'[a].name = n
  PROVE  /\ \A m : m # n => Loading(m)' = Loading(m)
         /\ actor[a].id # 0 /\ actor'[a].id # 0 => Loading(n)' = Loading(n)
         /\ actor[a].id = 0 /\ actor'[a].id # 0 =>
               /\ Loading(n)' = Loading(n) \union {a} /\ a \notin Loading(n)
               /\ Cardinality(Loading(n)') = Cardinality(Loading(n)) + 1
         /\ actor'[a].id = 0 => Loading(n)' = Loading(n) \ {a}
         /\ actor[a].id # 0 /\ actor'[a].id = 0 =>
               Cardinality(Loading(n)') = Cardinality(Loading(n)) - 1
         /\ actor'[a].id = 0 /\ Cardinality(Loading(n)') = 0 => Loading(n)' = {}
         /\ Cardinality(Loading(n)) \in Nat
<1>1. \A m : m # n => Loading(m)' = Loading(m)
  BY DEF Loading
<1>2. actor[a].id # 0 /\ actor'[a].id # 0 => Loading(n)' = Loading(n)
  BY DEF Loading
<1>3. actor[a].id = 0 /\ actor'[a].id # 0 => Loading(n)' = Loading(n) \union {a} /\ a \notin Loading(n)
  BY DEF Loading
<1>4. actor'[a].id = 0 => Loading(n)' = Loading(n) \ {a}
  BY DEF Loading
<1>5. actor[a].id # 0 => a \in Loading(n)
  BY DEF Loading
<1>6. PICK L : L = Loading(n)
  OBVIOUS
<1>7. IsFiniteSet(L) /\ Cardinality(L) \in Nat
  BY <1>6, LoadingFinite
<1>8. a \notin L => Cardinality(L \union {a}) = Cardinality(L) + 1
  BY <1>7, FS_AddElement
<1>9. a \in L => Cardinality(L \ {a}) = Cardinality(L) - 1
  BY <1>7, FS_RemoveElement
<1>10. Cardinality(L \ {a}) = 0 => L \ {a} = {}
  BY <1>7, FS_RemoveElement, FS_EmptySet
<1> QED
  BY <1>1, <1>2, <1>3, <1>4, <1>5, <1>6, <1>7, <1>8, <1>9, <1>10

LEMMA ActorCreatesIs ==
  ASSUME RequestInv, NEW a \in Actors, ActorCreates(a)
  PROVE  \E o, n, id :
            /\ n = actor[a].name /\ id = actor[a].id /\ n \in Wants /\ n \in Names /\ id \in 0..2
            /\ resLoad(n, id, o)
            /\ (o \in Outcomes => actor' \in [Actors -> ActorRecords])
            /\ \A b \in Actors : b # a => actor'[b] = actor[b]
            /\ actor'[a].id = o.id /\ actor'[a].name = n /\ actor'[a].at # "gone"
            /\ gear' = gear /\ link' = link /\ freed' = freed
<1>1. PICK o \in Outcomes :
          /\ resLoad(actor[a].name, actor[a].id, o)
          /\ actor' = [actor EXCEPT ![a].id = o.id, ![a].at =
               CASE o = Complete -> "created" [] o = Error -> "failed" [] OTHER -> "creating"]
  BY Zenon DEF ActorCreates
<1>2. PICK p : p = CASE o = Complete -> "created" [] o = Error -> "failed" [] OTHER -> "creating"
  OBVIOUS
<1>3. p \in {"created", "failed", "creating"}
  BY <1>2, Zenon
<1>4. p \in ActorPlaces /\ p # "gone"
  BY <1>3 DEF ActorPlaces
<1>5. actor' = [actor EXCEPT ![a].id = o.id, ![a].at = p]
  BY <1>1, <1>2, Zenon
<1>6. o.id \in Ids
  BY <1>1, OutcomesAre DEF Outcomes, Ids
<1>7. actor \in [Actors -> ActorRecords]
  BY DEF RequestInv, RequestType
<1>8. PICK r : r = actor[a]
  OBVIOUS
<1>9. PICK i : i = o.id
  OBVIOUS
<1>10. r \in ActorRecords
  BY <1>7, <1>8
<1>11. PICK q : q = [r EXCEPT !.id = i, !.at = p]
  OBVIOUS
<1>12. q \in ActorRecords /\ q.id = i /\ q.name = r.name /\ q.at = p
  BY <1>4, <1>6, <1>9, <1>10, <1>11 DEF ActorRecords
<1>13. actor' = [actor EXCEPT ![a] = q]
  BY <1>5, <1>8, <1>9, <1>11
<1>14. /\ actor' \in [Actors -> ActorRecords] /\ actor'[a] = q
       /\ \A b \in Actors : b # a => actor'[b] = actor[b]
  BY <1>7, <1>12, <1>13
<1>15. actor[a].at = "creating" /\ gear' = gear /\ link' = link /\ freed' = freed
  BY DEF ActorCreates
<1>16. actor[a].name \in Wants /\ actor[a].name \in Names
  BY <1>15, NameOf DEF RequestInv, Requesters
<1>17. actor[a].id \in 0..2
  BY <1>8, <1>10 DEF ActorRecords, Ids
<1> QED
  BY <1>1, <1>4, <1>8, <1>9, <1>12, <1>14, <1>15, <1>16, <1>17

LEMMA TypeNext ==
  ASSUME RequestInv, actor' \in [Actors -> ActorRecords], gear' \in [Gears -> GearRecords],
         link' \in LinkPlaces, freed' \in SUBSET Slots, full' \in BOOLEAN
  PROVE  RequestType'
  BY DEF RequestType

LEMMA CreatesKeeps ==
  ASSUME SlotInv, RequestInv, NEW a \in Actors, ActorCreates(a)
  PROVE  Moves /\ RequestInv'
<1>1. PICK o, n, id :
            /\ n = actor[a].name /\ id = actor[a].id /\ n \in Wants /\ n \in Names /\ id \in 0..2
            /\ resLoad(n, id, o)
            /\ (o \in Outcomes => actor' \in [Actors -> ActorRecords])
            /\ \A b \in Actors : b # a => actor'[b] = actor[b]
            /\ actor'[a].id = o.id /\ actor'[a].name = n /\ actor'[a].at # "gone"
            /\ gear' = gear /\ link' = link /\ freed' = freed
  BY ActorCreatesIs, Zenon
<1>2. /\ o \in Outcomes
      /\ full \in BOOLEAN => full' \in BOOLEAN
      /\ \/ id = 2 /\ o.id = 2 /\ UNCHANGED <<resources, full>>
         \/ o.id = 0 /\ UNCHANGED resources /\ \A s \in Slots : ~Of(s, n)
         \/ id = 0 /\ o.id = 1 /\ Added(n) /\ full' = full
         \/ id # 2 /\ full' = full /\ \E s \in Slots : Found(s, n, id, o)
  BY <1>1, LoadIs, Zenon
<1>3. Moves /\ OthersKept(n)
  BY <1>2, LoadOthers, Zenon
<1>4. /\ \A m : m # n => Loading(m)' = Loading(m)
      /\ id # 0 /\ o.id # 0 => Loading(n)' = Loading(n)
      /\ id = 0 /\ o.id # 0 =>
            /\ Loading(n)' = Loading(n) \union {a} /\ a \notin Loading(n)
            /\ Cardinality(Loading(n)') = Cardinality(Loading(n)) + 1
      /\ o.id = 0 => Loading(n)' = Loading(n) \ {a}
      /\ id # 0 /\ o.id = 0 => Cardinality(Loading(n)') = Cardinality(Loading(n)) - 1
      /\ Cardinality(Loading(n)) \in Nat
  BY <1>1, LoadingChanges
<1>5. Loading(n) # {} => \E s \in Slots : Of(s, n) /\ info[s].mCount >= Cardinality(Loading(n))
  BY <1>1 DEF RequestInv, ActorsCounted
<1>6. Cardinality(Loading(n)) = 0 <=> Loading(n) = {}
  BY LoadingFinite
<1>7. Loading(n)' # {} => \E s \in Slots : Of(s, n)' /\ info'[s].mCount >= Cardinality(Loading(n)')
  <2>1. CASE id = 2 /\ o.id = 2 /\ UNCHANGED <<resources, full>>
    <3>1. Loading(n)' = Loading(n) /\ info' = info
      BY <1>4, <2>1 DEF resources
    <3> QED
      BY <1>5, <3>1 DEF Of
  <2>2. CASE o.id = 0 /\ UNCHANGED resources /\ \A s \in Slots : ~Of(s, n)
    BY <1>4, <1>5, <2>2
  <2>3. CASE id = 0 /\ o.id = 1 /\ Added(n)
    <3>1. PICK s \in Slots : /\ info'[s].mCount = 1 /\ info'[s].name = n
                             /\ \A t \in Slots : ~Of(t, n)
      BY <2>3, Zenon DEF Added
    <3>2. Cardinality(Loading(n)') = 1
      BY <1>4, <1>5, <1>6, <2>3, <3>1
    <3>3. Of(s, n)'
      BY <3>1 DEF Of
    <3> QED
      BY <3>1, <3>2, <3>3
  <2>4. CASE id # 2 /\ \E s \in Slots : Found(s, n, id, o)
    <3>1. PICK s \in Slots : Found(s, n, id, o)
      BY <2>4
    <3>2. info[s].mCount \in Nat /\ info[s].mCount # 0 /\ Of(s, n)
      BY <3>1, CountIs DEF Found, Of
    <3>3. info'[s].mCount = (IF id = 0 THEN info[s].mCount + 1 ELSE info[s].mCount) /\ info'[s].name = n
      BY <3>1 DEF Found
    <3>4. info[s].mCount >= Cardinality(Loading(n))
      <4>1. CASE Loading(n) = {}
        BY <1>6, <3>2, <4>1
      <4>2. CASE Loading(n) # {}
        <5>1. PICK t \in Slots : Of(t, n) /\ info[t].mCount >= Cardinality(Loading(n))
          BY <1>5, <4>2
        <5>2. t = s
          BY <3>2, <5>1 DEF SlotInv, OneSlot, Of
        <5> QED
          BY <5>1, <5>2
      <4> QED
        BY <4>1, <4>2
    <3>5. Of(s, n)'
      BY <3>2, <3>3 DEF Of
    <3>6. Cardinality(Loading(n)') \in Nat /\
          Cardinality(Loading(n)') <= Cardinality(Loading(n)) + (IF id = 0 THEN 1 ELSE 0)
      <4>1. CASE o.id # 0
        BY <1>4, <4>1
      <4>2. CASE o.id = 0 /\ id # 0
        <5>1. Loading(n) # {}
          BY <1>1, <4>2 DEF Loading
        <5> QED
          BY <1>4, <1>6, <4>2, <5>1
      <4>3. CASE o.id = 0 /\ id = 0
        <5>1. a \notin Loading(n)
          BY <1>1, <4>3 DEF Loading
        <5>2. Loading(n)' = Loading(n)
          BY <1>4, <4>3, <5>1
        <5> QED
          BY <1>4, <4>3, <5>2
      <4> QED
        BY <4>1, <4>2, <4>3
    <3>7. PICK c, k, d, j : /\ c = info[s].mCount /\ k = info'[s].mCount
                            /\ d = Cardinality(Loading(n)) /\ j = Cardinality(Loading(n)')
      OBVIOUS
    <3>8. k >= j
      BY <1>4, <3>2, <3>3, <3>4, <3>6, <3>7
    <3> QED
      BY <3>5, <3>7, <3>8
  <2> QED
    BY <1>2, <2>1, <2>2, <2>3, <2>4
<1>8. ActorsCounted'
  <2>1. \A m \in Wants : Loading(m)' # {} =>
           \E s \in Slots : Of(s, m)' /\ info'[s].mCount >= Cardinality(Loading(m)')
    BY <1>3, <1>4, <1>7, OtherWants, Zenon DEF RequestInv
  <2> QED
    BY <2>1, NextCounted
<1>9. \A g \in Gears : gear'[g] = gear[g] /\ gear[g].name # n
  BY <1>1, NameOf DEF RequestInv, Requesters
<1>10. \A g \in Gears : \A m : m = gear'[g].name =>
          (gear'[g].id # 0 => Registered(m)') /\ (gear'[g].id = 2 => MountedIn(m)')
  BY <1>3, <1>9, OtherGear, Zenon
<1>11. GearCounted'
  BY <1>10, NextCounted, Zenon
<1>12. o.id = 2 => MountedIn(n)'
  <2>1. CASE id = 2 /\ o.id = 2
    <3>0. actor[a].id # 0
      BY <1>1, <2>1
    <3>1. Registered(n)
      BY <1>1, <3>0, ActorRegistered, Zenon
    <3>2. MountedIn(n)
      BY <1>1, <2>1 DEF RequestInv, HeldMounted
    <3> QED
      BY <1>3, <3>1, <3>2, MountedKept
  <2>2. CASE o.id = 2 /\ \E s \in Slots : Found(s, n, id, o)
    <3>1. PICK s \in Slots : Found(s, n, id, o)
      BY <2>2
    <3>2. \A t \in Slots : t # s => ~Of(t, n) /\ info'[t] = info[t]
      BY <3>1 DEF Found, SlotInv, OneSlot, Of
    <3>3. info'[s].mArchive # "none"
      BY <2>2, <3>1 DEF Found
    <3> QED
      BY <3>2, <3>3 DEF MountedIn, Of
  <2> QED
    BY <1>2, <2>1, <2>2
<1>13. HeldMounted'
  <2>1. ASSUME NEW b \in Actors, actor'[b].id = 2 PROVE \A m : m = actor'[b].name => MountedIn(m)'
    <3>1. CASE b = a
      BY <1>1, <1>12, <2>1, <3>1
    <3>2. CASE b # a
      <4>1. actor'[b] = actor[b] /\ actor[b].id = 2
        BY <1>1, <2>1, <3>2
      <4> QED
        BY <1>3, <4>1, ActorMounted, Zenon
    <3> QED
      BY <3>1, <3>2
  <2> QED
    BY <1>10, <2>1, NextMounted, Zenon
<1>14. Requesters'
  <2>1. ASSUME NEW b \in Actors
        PROVE IF actor'[b].at = "gone" THEN actor'[b].id = 0 ELSE actor'[b].name \in Wants
    BY <1>1 DEF RequestInv, Requesters
  <2> QED
    BY <1>1, <2>1 DEF RequestInv, Requesters
<1>15. RequestType'
  BY <1>1, <1>2, TypeNext DEF RequestInv, RequestType
<1> QED
  BY <1>3, <1>8, <1>11, <1>13, <1>14, <1>15 DEF RequestInv

(* The deletion of an actor: it lets go of what it held.                   *)
LEMMA DeletedKeeps ==
  ASSUME SlotInv, RequestInv, NEW a \in Actors, ActorDeleted(a)
  PROVE  Moves /\ RequestInv'
<1>1. PICK n, id : n = actor[a].name /\ id = actor[a].id
  OBVIOUS
<1>2. /\ actor[a].at # "gone" /\ resDelete(n, id) /\ actor' = [actor EXCEPT ![a] = Gone]
      /\ link' = link /\ gear' = gear /\ freed' = freed /\ full' = full
  BY <1>1 DEF ActorDeleted
<1>3. Gone \in ActorRecords /\ Gone.id = 0 /\ Gone.at = "gone"
  <2>1. "gone" \in ActorPlaces /\ NoName \in NamesOr /\ 0 \in Ids
    BY DEF ActorPlaces, NamesOr, Ids
  <2> QED
    BY <2>1 DEF Gone, ActorRecords
<1>4. /\ actor' \in [Actors -> ActorRecords] /\ actor'[a] = Gone
      /\ \A b \in Actors : b # a => actor'[b] = actor[b]
  BY <1>2, <1>3 DEF RequestInv, RequestType
<1>5. n \in Wants
  BY <1>1, <1>2 DEF RequestInv, Requesters
<1>6. IF id = 2 THEN Deleted(n) ELSE UNCHANGED resources
  BY <1>2, DeleteLets, Zenon DEF resDelete, GivesBack
<1>7. Moves /\ OthersKept(n)
  BY <1>6, LoadOthers, DeleteOthers, Zenon
<1>8. actor'[a].id = 0
  BY <1>3, <1>4
<1>9. /\ \A m : m # n => Loading(m)' = Loading(m)
      /\ Loading(n)' = Loading(n) \ {a}
      /\ id # 0 => Cardinality(Loading(n)') = Cardinality(Loading(n)) - 1
      /\ Cardinality(Loading(n)') = 0 => Loading(n)' = {}
      /\ Cardinality(Loading(n)) \in Nat
  BY <1>1, <1>4, <1>8, LoadingChanges
<1>10. Loading(n) # {} => \E s \in Slots : Of(s, n) /\ info[s].mCount >= Cardinality(Loading(n))
  BY <1>5 DEF RequestInv, ActorsCounted
<1>11. id = 0 => Loading(n)' = Loading(n)
  BY <1>1, <1>9 DEF Loading
<1>12. Loading(n)' # {} => \E s \in Slots : Of(s, n)' /\ info'[s].mCount >= Cardinality(Loading(n)')
  <2>1. SUFFICES ASSUME Loading(n)' # {}
                 PROVE  \E s \in Slots : Of(s, n)' /\ info'[s].mCount >= Cardinality(Loading(n)')
    OBVIOUS
  <2>2. PICK s \in Slots : Of(s, n) /\ info[s].mCount >= Cardinality(Loading(n))
    BY <1>9, <1>10, <2>1
  <2>3. PICK c, k, d, j : /\ c = info[s].mCount /\ k = info'[s].mCount
                          /\ d = Cardinality(Loading(n)) /\ j = Cardinality(Loading(n)')
    OBVIOUS
  <2>4. c \in Nat /\ d \in Nat /\ c >= d
    BY <1>9, <2>2, <2>3, CountIs
  <2>5. CASE id = 2
    <3>1. j = d - 1 /\ j # 0
      BY <1>9, <2>1, <2>3, <2>5
    <3>a. d # 0
      <4>1. actor[a].id # 0 /\ actor[a].name = n
        BY <1>1, <2>5
      <4>2. a \in Loading(n)
        BY <4>1, Zenon DEF Loading
      <4> QED
        BY <2>3, <4>2, LoadingFinite
    <3>2. c > 1
      BY <2>4, <3>1, <3>a
    <3>3. k = c - 1 /\ info'[s].name = n
      BY <1>6, <2>2, <2>3, <2>5, <3>2 DEF Deleted, Of
    <3>4. k >= j /\ k # 0
      BY <2>4, <3>1, <3>2, <3>3
    <3> QED
      BY <2>3, <3>3, <3>4 DEF Of
  <2>6. CASE id # 2
    <3>1. info' = info
      BY <1>6, <2>6 DEF resources
    <3>2. d >= j
      BY <1>9, <1>11, <2>3
    <3>3. c >= j
      <4>1. j = d \/ j = d - 1
        BY <1>9, <1>11, <2>3
      <4> QED
        BY <2>4, <4>1
    <3> QED
      BY <2>2, <2>3, <3>1, <3>3 DEF Of
  <2> QED
    BY <2>5, <2>6
<1>13. ActorsCounted'
  <2>1. \A m \in Wants : Loading(m)' # {} =>
           \E s \in Slots : Of(s, m)' /\ info'[s].mCount >= Cardinality(Loading(m)')
    BY <1>7, <1>9, <1>12, OtherWants, Zenon DEF RequestInv
  <2> QED
    BY <2>1, NextCounted
<1>14. \A g \in Gears : gear'[g] = gear[g] /\ gear[g].name # n
  BY <1>2, <1>5, NameOf DEF RequestInv, Requesters
<1>15. \A g \in Gears : \A m : m = gear'[g].name =>
          (gear'[g].id # 0 => Registered(m)') /\ (gear'[g].id = 2 => MountedIn(m)')
  BY <1>7, <1>14, OtherGear, Zenon
<1>16. GearCounted'
  BY <1>15, NextCounted, Zenon
<1>17. HeldMounted'
  <2>1. ASSUME NEW b \in Actors, actor'[b].id = 2 PROVE \A m : m = actor'[b].name => MountedIn(m)'
    <3>1. actor'[b] = actor[b] /\ actor[b].id = 2
      BY <1>4, <1>8, <2>1
    <3> QED
      BY <1>7, <3>1, ActorMounted, Zenon
  <2> QED
    BY <1>15, <2>1, NextMounted, Zenon
<1>18. Requesters'
  <2>1. ASSUME NEW b \in Actors
        PROVE IF actor'[b].at = "gone" THEN actor'[b].id = 0 ELSE actor'[b].name \in Wants
    BY <1>3, <1>4 DEF RequestInv, Requesters
  <2> QED
    BY <1>2, <2>1 DEF RequestInv, Requesters
<1>19. RequestType'
  BY <1>2, <1>4, TypeNext DEF RequestInv, RequestType
<1> QED
  BY <1>7, <1>13, <1>16, <1>17, <1>18, <1>19 DEF RequestInv

(* A step of Link's that only touches the archive of one of his gear.      *)
LEMMA GearKeeps ==
  ASSUME SlotInv, RequestInv, NEW g \in Gears, NEW n, n = gear[g].name, Moves, OthersKept(n),
         actor' = actor, \A h \in Gears : h # g => gear'[h] = gear[h],
         RequestType', gear'[g].name \in Wardrobe[g],
         \A m : m = gear'[g].name => /\ gear'[g].id # 0 => Registered(m)'
                                     /\ gear'[g].id = 2 => MountedIn(m)'
  PROVE  RequestInv'
<1>1. n \in Wardrobe[g] /\ n \notin Wants
  BY NameOf DEF RequestInv, Requesters
<1>2. \A m : Loading(m)' = Loading(m)
  BY DEF Loading
<1>3. ActorsCounted'
  <2>1. \A m \in Wants : Loading(m)' # {} =>
           \E s \in Slots : Of(s, m)' /\ info'[s].mCount >= Cardinality(Loading(m)')
    BY <1>1, <1>2, OtherWants, Zenon DEF RequestInv
  <2> QED
    BY <2>1, NextCounted
<1>4. \A h \in Gears : h # g => gear'[h] = gear[h] /\ gear[h].name # n
  BY <1>1, NameOf DEF RequestInv, Requesters
<1>5. \A h \in Gears : \A m : m = gear'[h].name =>
          (gear'[h].id # 0 => Registered(m)') /\ (gear'[h].id = 2 => MountedIn(m)')
  <2>1. ASSUME NEW h \in Gears
        PROVE  \A m : m = gear'[h].name =>
          (gear'[h].id # 0 => Registered(m)') /\ (gear'[h].id = 2 => MountedIn(m)')
    <3>1. CASE h = g
      BY <3>1, Zenon
    <3>2. CASE h # g
      BY <1>4, <3>2, OtherGear, Zenon
    <3> QED
      BY <3>1, <3>2
  <2> QED
    BY <2>1, Zenon
<1>6. GearCounted'
  BY <1>5, NextCounted, Zenon
<1>7. HeldMounted'
  <2>1. ASSUME NEW b \in Actors, actor'[b].id = 2 PROVE \A m : m = actor'[b].name => MountedIn(m)'
    BY <2>1, ActorMounted, Zenon
  <2> QED
    BY <1>5, <2>1, NextMounted, Zenon
<1>8. Requesters'
  <2>1. \A h \in Gears : gear'[h].name \in Wardrobe[h]
    BY <1>4 DEF RequestInv, Requesters
  <2> QED
    BY <2>1 DEF RequestInv, Requesters
<1> QED
  BY <1>3, <1>6, <1>7, <1>8 DEF RequestInv

(* A step that leaves the requests and what is registered as they are.     *)
LEMMA QuietKeeps ==
  ASSUME SlotInv, RequestInv,
         \A s \in Slots : /\ info'[s].mCount = info[s].mCount /\ info'[s].name = info[s].name
                          /\ info[s].mArchive # "none" => info'[s].mArchive # "none",
         \A a \in Actors : /\ actor'[a].id = actor[a].id
                           /\ actor[a].id # 0 => actor'[a].name = actor[a].name,
         \A g \in Gears : gear'[g].id = gear[g].id /\ gear'[g].name = gear[g].name,
         RequestType', Requesters'
  PROVE  RequestInv'
<1>1. \A s \in Slots : \A n : Of(s, n)' <=> Of(s, n)
  BY DEF Of
<1>2. \A n : Loading(n)' = Loading(n)
  BY DEF Loading
<1>3. \A n : (Registered(n)' <=> Registered(n)) /\ (MountedIn(n) => MountedIn(n)')
  BY <1>1 DEF Registered, MountedIn
<1>4. ActorsCounted'
  <2>1. \A n \in Wants : Loading(n)' # {} =>
         \E s \in Slots : Of(s, n)' /\ info'[s].mCount >= Cardinality(Loading(n)')
    BY <1>1, <1>2 DEF RequestInv, ActorsCounted
  <2> QED
    BY <2>1, NextCounted
<1>5. GearCounted'
  <2>1. \A g \in Gears : \A m : m = gear'[g].name => (gear'[g].id # 0 => Registered(m)')
    BY <1>3 DEF RequestInv, GearCounted
  <2> QED
    BY <2>1, NextCounted
<1>6. HeldMounted'
  <2>1. \A a \in Actors : \A m : actor'[a].id = 2 /\ m = actor'[a].name => MountedIn(m)'
    BY <1>3 DEF RequestInv, HeldMounted
  <2>2. \A g \in Gears : \A m : gear'[g].id = 2 /\ m = gear'[g].name => MountedIn(m)'
    BY <1>3 DEF RequestInv, HeldMounted
  <2> QED
    BY <2>1, <2>2, NextMounted
<1> QED
  BY <1>4, <1>5, <1>6 DEF RequestInv

(* What a frame of loadModelDVD or loadShieldModelDVD asks for and gets.   *)
LEMMA GearLoadIs ==
  ASSUME SlotInv, RequestInv, NEW g \in Gears, NEW again \in {0, 2}, GearLoads(g, again)
  PROVE  \E o, n, id :
            /\ n = gear[g].name /\ id = gear[g].id /\ n \in Names /\ n \in Wardrobe[g]
            /\ o \in Outcomes
            /\ full \in BOOLEAN => full' \in BOOLEAN
            /\ \/ id = 2 /\ o.id = 2 /\ UNCHANGED <<resources, full>>
               \/ o.id = 0 /\ UNCHANGED resources /\ \A s \in Slots : ~Of(s, n)
               \/ id = 0 /\ o.id = 1 /\ Added(n) /\ full' = full
               \/ id # 2 /\ full' = full /\ \E s \in Slots : Found(s, n, id, o)
            /\ gear' \in [Gears -> GearRecords]
            /\ \A h \in Gears : h # g => gear'[h] = gear[h]
            /\ gear'[g].id = o.id /\ gear'[g].name = n
            /\ gear'[g].timer = 0 => o.id = 2 \/ again = 0
            /\ gear'[g].timer \in {0, again}
            /\ actor' = actor /\ link' = link /\ freed' = freed
<1>1. PICK o \in Outcomes :
          /\ resLoad(gear[g].name, gear[g].id, o)
          /\ gear' = [gear EXCEPT ![g].id = o.id, ![g].timer = TimerAfter(o, again)]
  BY Zenon DEF GearLoads
<1>2. PICK t : t = TimerAfter(o, again)
  OBVIOUS
<1>3. t \in {0, again} /\ (t = 0 => o.id = 2 \/ again = 0)
  BY <1>1, <1>2, OutcomesAre DEF TimerAfter, Outcomes
<1>4. t \in Timers
  BY <1>3 DEF Timers
<1>5. o.id \in Ids
  BY <1>1, OutcomesAre DEF Outcomes, Ids
<1>6. gear \in [Gears -> GearRecords]
  BY DEF RequestInv, RequestType
<1>7. PICK r, i : r = gear[g] /\ i = o.id
  OBVIOUS
<1>8. PICK q : q = [r EXCEPT !.id = i, !.timer = t]
  OBVIOUS
<1>9. r \in GearRecords
  BY <1>6, <1>7
<1>10. q \in GearRecords /\ q.id = i /\ q.name = r.name /\ q.timer = t
  BY <1>4, <1>5, <1>7, <1>8, <1>9 DEF GearRecords
<1>11. gear' = [gear EXCEPT ![g] = q]
  BY <1>1, <1>2, <1>7, <1>8
<1>12. /\ gear' \in [Gears -> GearRecords] /\ gear'[g] = q
       /\ \A h \in Gears : h # g => gear'[h] = gear[h]
  BY <1>6, <1>10, <1>11
<1>13. PICK n, id : n = gear[g].name /\ id = gear[g].id
  OBVIOUS
<1>14. n \in Wardrobe[g] /\ n \in Names
  BY <1>13, NameOf DEF RequestInv, Requesters
<1>15. id \in 0..2
  BY <1>7, <1>9, <1>13 DEF GearRecords, Ids
<1>16. resLoad(n, id, o)
  BY <1>1, <1>13
<1>17. /\ full \in BOOLEAN => full' \in BOOLEAN
       /\ \/ id = 2 /\ o.id = 2 /\ UNCHANGED <<resources, full>>
          \/ o.id = 0 /\ UNCHANGED resources /\ \A s \in Slots : ~Of(s, n)
          \/ id = 0 /\ o.id = 1 /\ Added(n) /\ full' = full
          \/ id # 2 /\ full' = full /\ \E s \in Slots : Found(s, n, id, o)
  BY <1>14, <1>15, <1>16, LoadIs, Zenon
<1>18. /\ gear'[g].id = o.id /\ gear'[g].name = n /\ gear'[g].timer = t
  BY <1>7, <1>10, <1>12, <1>13
<1>19. actor' = actor /\ link' = link /\ freed' = freed
  BY DEF GearLoads
<1> QED
  BY <1>1, <1>3, <1>12, <1>13, <1>14, <1>17, <1>18, <1>19, Zenon

LEMMA GearLoadKeeps ==
  ASSUME SlotInv, RequestInv, NEW g \in Gears, NEW again \in {0, 2}, GearLoads(g, again)
  PROVE  Moves /\ RequestInv'
<1>1. PICK o, n, id :
            /\ n = gear[g].name /\ id = gear[g].id /\ n \in Names /\ n \in Wardrobe[g]
            /\ o \in Outcomes
            /\ full \in BOOLEAN => full' \in BOOLEAN
            /\ \/ id = 2 /\ o.id = 2 /\ UNCHANGED <<resources, full>>
               \/ o.id = 0 /\ UNCHANGED resources /\ \A s \in Slots : ~Of(s, n)
               \/ id = 0 /\ o.id = 1 /\ Added(n) /\ full' = full
               \/ id # 2 /\ full' = full /\ \E s \in Slots : Found(s, n, id, o)
            /\ gear' \in [Gears -> GearRecords]
            /\ \A h \in Gears : h # g => gear'[h] = gear[h]
            /\ gear'[g].id = o.id /\ gear'[g].name = n
            /\ gear'[g].timer = 0 => o.id = 2 \/ again = 0
            /\ gear'[g].timer \in {0, again}
            /\ actor' = actor /\ link' = link /\ freed' = freed
  BY GearLoadIs, Zenon
<1>2. Moves /\ OthersKept(n)
  BY <1>1, LoadOthers, Zenon
<1>3. RequestType'
  BY <1>1, TypeNext DEF RequestInv, RequestType
<1>4. (o.id # 0 => Registered(n)') /\ (o.id = 2 => MountedIn(n)')
  <2>1. CASE id = 2 /\ o.id = 2 /\ UNCHANGED <<resources, full>>
    <3>1. gear[g].id = 2 /\ gear[g].id # 0
      BY <1>1, <2>1
    <3>2. Registered(n) /\ MountedIn(n)
      BY <1>1, <3>1, Zenon DEF RequestInv, GearCounted, HeldMounted
    <3>3. info' = info
      BY <2>1 DEF resources
    <3> QED
      BY <3>2, <3>3 DEF Registered, MountedIn, Of
  <2>2. CASE o.id = 0 /\ UNCHANGED resources /\ \A s \in Slots : ~Of(s, n)
    BY <2>2
  <2>3. CASE id = 0 /\ o.id = 1 /\ Added(n)
    <3>1. PICK s \in Slots : info'[s].mCount = 1 /\ info'[s].name = n
      BY <2>3, Zenon DEF Added
    <3>2. Of(s, n)'
      BY <3>1 DEF Of
    <3>3. Registered(n)'
      BY <3>2 DEF Registered
    <3> QED
      BY <2>3, <3>3
  <2>4. CASE \E s \in Slots : Found(s, n, id, o)
    <3>1. PICK s \in Slots : Found(s, n, id, o)
      BY <2>4
    <3>2. \A t \in Slots : t # s => ~Of(t, n) /\ info'[t] = info[t]
      BY <3>1 DEF Found, SlotInv, OneSlot, Of
    <3>3. o.id = 2 => info'[s].mArchive # "none"
      BY <3>1 DEF Found
    <3>4. info[s].mCount \in Nat /\ info[s].mCount # 0
      BY <3>1, CountIs DEF Found, Of
    <3>5. info'[s].mCount # 0 /\ info'[s].name = n
      BY <3>1, <3>4 DEF Found
    <3>6. Registered(n)'
      BY <3>5 DEF Registered, Of
    <3>7. o.id = 2 => MountedIn(n)'
      BY <3>2, <3>3 DEF MountedIn, Of
    <3> QED
      BY <3>6, <3>7
  <2> QED
    BY <1>1, <2>1, <2>2, <2>3, <2>4, Zenon
<1>5. RequestInv'
  BY <1>1, <1>2, <1>3, <1>4, GearKeeps, Zenon
<1> QED
  BY <1>2, <1>5

(* Letting go of the archive of gear g, before another is asked for.       *)
LEMMA UnregisterIs ==
  ASSUME SlotInv, NEW g, NEW n, n = gear[g].name,
         Unregister(g) \/ resDelete(gear[g].name, gear[g].id)
  PROVE  /\ Moves /\ OthersKept(n)
         /\ gear[g].id = 2 => Deleted(n)
         /\ Deleted(n) \/ UNCHANGED resources
<1>1. deleteRes(n) \/ UNCHANGED resources
  BY Zenon DEF Unregister, resDelete
<1>2. gear[g].id = 2 => deleteRes(n)
  BY Zenon DEF Unregister, resDelete, GivesBack, ByForce
<1> QED
  BY <1>1, <1>2, DeleteLets, DeleteOthers, LoadOthers, Zenon

LEMMA GearFreedKeeps ==
  ASSUME SlotInv, RequestInv, NEW g \in Gears,
         Unregister(g) \/ resDelete(gear[g].name, gear[g].id), HeapFreed(g),
         gear' \in [Gears -> GearRecords], \A h \in Gears : h # g => gear'[h] = gear[h],
         gear'[g].id = 0, gear'[g].name \in Wardrobe[g],
         actor' = actor, link' = link, full' = full
  PROVE  Moves /\ RequestInv'
<1>1. PICK n : n = gear[g].name
  OBVIOUS
<1>2. Moves /\ OthersKept(n)
  BY <1>1, UnregisterIs, Zenon
<1>3. freed' \in SUBSET Slots
  BY DEF HeapFreed, RequestInv, RequestType
<1>4. RequestType'
  BY <1>3, TypeNext DEF RequestInv, RequestType
<1>5. RequestInv'
  <2>1. \A m : m = gear'[g].name => /\ gear'[g].id # 0 => Registered(m)'
                                    /\ gear'[g].id = 2 => MountedIn(m)'
    OBVIOUS
  <2> QED
    BY <1>1, <1>2, <1>4, <2>1, GearKeeps, Zenon
<1> QED
  BY <1>2, <1>5

(* The steps of Link's gear, field by field.                               *)
Frees(g) ==
    /\ HeapFreed(g)
    /\ gear' \in [Gears -> GearRecords] /\ \A h \in Gears : h # g => gear'[h] = gear[h]
    /\ gear'[g].id = 0 /\ gear'[g].name \in Wardrobe[g]
    /\ actor' = actor /\ link' = link /\ full' = full
    /\ \/ gear[g].timer = 3 /\ gear'[g].timer = 2 /\ Unregister(g)
       \/ /\ gear[g].timer = 0 /\ gear'[g].timer = 0 /\ gear[g].id = 2 /\ link = "leaving"
          /\ resDelete(gear[g].name, gear[g].id)
Waits(g) ==
    /\ gear' \in [Gears -> GearRecords] /\ \A h \in Gears : h # g => gear'[h] = gear[h]
    /\ gear'[g].id = gear[g].id /\ gear'[g].name = gear[g].name
    /\ \/ /\ gear'[g].timer = 4 /\ link = "playing"
          /\ gear[g].timer = 0 \/ (Impatient /\ g = "clothes")
       \/ gear'[g].timer = 3 /\ gear[g].timer = 4
       \/ gear'[g].timer = 0 /\ gear[g].timer = 3 /\ gear[g].id = 2
    /\ UNCHANGED <<resources, actor, link, freed, full>>

LEMMA GearChange ==
  ASSUME RequestInv, NEW g \in Gears, NEW q \in GearRecords, gear' = [gear EXCEPT ![g] = q]
  PROVE  /\ gear' \in [Gears -> GearRecords] /\ gear'[g] = q
         /\ \A h \in Gears : h # g => gear'[h] = gear[h]
  BY DEF RequestInv, RequestType

LEMMA GearRecord ==
  ASSUME RequestInv, NEW g \in Gears
  PROVE  /\ gear[g] \in GearRecords /\ gear[g].id \in 0..2 /\ gear[g].timer \in {0, 2, 3, 4}
         /\ gear[g].name \in Names /\ gear[g].name \in Wardrobe[g]
  BY DEF RequestInv, RequestType, Requesters, GearRecords, Ids, Timers

LEMMA GearWaits ==
  ASSUME RequestInv, NEW g \in Gears,
         \/ GearChanged(g)
         \/ /\ gear[g].timer = 4 /\ gear' = [gear EXCEPT ![g].timer = 3]
            /\ UNCHANGED <<resources, actor, link, freed, full>>
         \/ /\ gear[g].timer = 3 /\ gear[g].id = 2 /\ gear' = [gear EXCEPT ![g].timer = 0]
            /\ UNCHANGED <<resources, actor, link, freed, full>>
  PROVE  Waits(g)
<1>1. PICK t : /\ gear' = [gear EXCEPT ![g].timer = t] /\ t \in {0, 3, 4}
               /\ UNCHANGED <<resources, actor, link, freed, full>>
               /\ \/ /\ t = 4 /\ link = "playing"
                     /\ gear[g].timer = 0 \/ (Impatient /\ g = "clothes")
                  \/ t = 3 /\ gear[g].timer = 4
                  \/ t = 0 /\ gear[g].timer = 3 /\ gear[g].id = 2
  BY Zenon DEF GearChanged
<1>2. PICK r : r = gear[g]
  OBVIOUS
<1>3. PICK q : q = [r EXCEPT !.timer = t]
  OBVIOUS
<1>4. r \in GearRecords /\ t \in Timers
  BY <1>1, <1>2, GearRecord DEF Timers
<1>5. q \in GearRecords /\ q.timer = t /\ q.id = r.id /\ q.name = r.name
  BY <1>3, <1>4 DEF GearRecords
<1>6. gear' = [gear EXCEPT ![g] = q]
  BY <1>1, <1>2, <1>3
<1> QED
  BY <1>1, <1>2, <1>5, <1>6, GearChange, Zenon DEF Waits

LEMMA GearFrees ==
  ASSUME RequestInv, NEW g \in Gears,
         \/ /\ gear[g].timer = 3 /\ Unregister(g) /\ HeapFreed(g)
            /\ \E n \in Wardrobe[g] : gear' = [gear EXCEPT ![g] = [timer |-> 2, name |-> n, id |-> 0]]
            /\ UNCHANGED <<actor, link, full>>
         \/ LinkDeleted(g)
  PROVE  Frees(g)
<1>1. CASE /\ gear[g].timer = 3 /\ Unregister(g) /\ HeapFreed(g)
           /\ \E n \in Wardrobe[g] : gear' = [gear EXCEPT ![g] = [timer |-> 2, name |-> n, id |-> 0]]
           /\ UNCHANGED <<actor, link, full>>
  <2>1. PICK n \in Wardrobe[g] : gear' = [gear EXCEPT ![g] = [timer |-> 2, name |-> n, id |-> 0]]
    BY <1>1
  <2>2. n \in Names
    BY NameOf
  <2>3. PICK q : q = [timer |-> 2, name |-> n, id |-> 0]
    OBVIOUS
  <2>4. q \in GearRecords /\ q.timer = 2 /\ q.name = n /\ q.id = 0
    BY <2>2, <2>3 DEF GearRecords, Timers, Ids
  <2>5. gear' = [gear EXCEPT ![g] = q]
    BY <2>1, <2>3
  <2> QED
    BY <1>1, <2>4, <2>5, GearChange DEF Frees
<1>2. CASE LinkDeleted(g)
  <2>1. /\ link = "leaving" /\ gear[g].timer = 0 /\ gear[g].id = 2
        /\ resDelete(gear[g].name, gear[g].id) /\ HeapFreed(g)
        /\ gear' = [gear EXCEPT ![g].id = 0] /\ UNCHANGED <<actor, link, full>>
    BY <1>2, Zenon DEF LinkDeleted
  <2>2. PICK r : r = gear[g]
    OBVIOUS
  <2>3. PICK q : q = [r EXCEPT !.id = 0]
    OBVIOUS
  <2>4. r \in GearRecords /\ 0 \in Ids /\ r.timer = 0 /\ r.name \in Wardrobe[g]
    BY <2>1, <2>2, GearRecord DEF Ids
  <2>5. q \in GearRecords /\ q.id = 0 /\ q.name = r.name /\ q.timer = r.timer
    BY <2>3, <2>4 DEF GearRecords
  <2>6. gear' = [gear EXCEPT ![g] = q]
    BY <2>1, <2>2, <2>3
  <2>7. /\ gear' \in [Gears -> GearRecords] /\ gear'[g] = q
        /\ \A h \in Gears : h # g => gear'[h] = gear[h]
    BY <2>5, <2>6, GearChange
  <2> QED
    BY <2>1, <2>4, <2>5, <2>7 DEF Frees
<1> QED
  BY <1>1, <1>2

(* A step of the game, its parts.                                          *)
GearLoading ==
    \E g \in Gears : \/ link = "creating" /\ GearLoads(g, 0)
                     \/ /\ link \in {"playing", "leaving"} /\ gear[g].timer = 2
                        /\ GearLoads(g, 2)
LinkMoves ==
    /\ UNCHANGED <<resources, actor, gear, freed, full>>
    /\ \/ link = "creating" /\ link' = "playing" /\ Unloaded = {}
       \/ link = "playing" /\ link' = "leaving"
       \/ /\ link = "leaving" /\ link' = "creating"
          /\ \A g \in Gears : gear[g].timer = 0 /\ gear[g].id = 0

LEMMA FrameIs ==
  ASSUME RequestInv, Frame
  PROVE  \/ SceneSyncs \/ LinkMoves \/ GearLoading
         \/ \E a \in Actors : ActorRequested(a) \/ ActorCreates(a) \/ ActorDeleted(a)
         \/ \E g \in Gears : Waits(g) \/ Frees(g)
<1>1. CASE LinkCreates
  <2>1. CASE Unloaded = {}
    BY <1>1, <2>1 DEF LinkCreates, LinkMoves
  <2>2. CASE Unloaded # {}
    <3>1. /\ link = "creating"
          /\ GearLoads(IF "clothes" \in Unloaded THEN "clothes" ELSE "shield", 0)
      BY <1>1, <2>2, Zenon DEF LinkCreates
    <3>2. (IF "clothes" \in Unloaded THEN "clothes" ELSE "shield") \in Gears
      BY <2>2, ResourceAssumption DEF Unloaded
    <3> QED
      BY <3>1, <3>2, Zenon DEF GearLoading
  <2> QED
    BY <2>1, <2>2
<1>2. CASE LinkLeaves \/ LinkRequested
  BY <1>2 DEF LinkLeaves, LinkRequested, LinkMoves
<1>3. ASSUME NEW g \in Gears, GearChanged(g) \/ GearFrame(g) \/ LinkDeleted(g)
      PROVE  Waits(g) \/ Frees(g) \/ GearLoading
  <2>1. CASE LinkDeleted(g)
    BY <2>1, GearFrees
  <2>2. CASE GearChanged(g)
    BY <2>2, GearWaits
  <2>3. CASE GearFrame(g)
    <3>1. /\ link \in {"playing", "leaving"}
          /\ \/ /\ gear[g].timer = 4 /\ gear' = [gear EXCEPT ![g].timer = 3]
                /\ UNCHANGED <<resources, actor, link, freed, full>>
             \/ /\ gear[g].timer = 3 /\ Unregister(g) /\ HeapFreed(g)
                /\ \E n \in Wardrobe[g] :
                      gear' = [gear EXCEPT ![g] = [timer |-> 2, name |-> n, id |-> 0]]
                /\ UNCHANGED <<actor, link, full>>
             \/ /\ gear[g].timer = 3 /\ gear[g].id = 2 /\ gear' = [gear EXCEPT ![g].timer = 0]
                /\ UNCHANGED <<resources, actor, link, freed, full>>
             \/ gear[g].timer = 2 /\ GearLoads(g, 2)
      BY <2>3, Zenon DEF GearFrame
    <3> QED
      BY <3>1, GearWaits, GearFrees, Zenon DEF GearLoading
  <2> QED
    BY <1>3, <2>1, <2>2, <2>3
<1> QED
  BY <1>1, <1>2, <1>3, Zenon DEF Frame

LEMMA QuietMoves ==
  ASSUME SlotInv, RequestInv, UNCHANGED resources,
         \A a \in Actors : /\ actor'[a].id = actor[a].id
                           /\ actor[a].id # 0 => actor'[a].name = actor[a].name,
         \A g \in Gears : gear'[g].id = gear[g].id /\ gear'[g].name = gear[g].name,
         RequestType', Requesters'
  PROVE  Moves /\ RequestInv'
<1>1. Moves
  BY NothingLets, Zenon DEF Moves
<1>2. info' = info
  BY DEF resources
<1> QED
  BY <1>1, <1>2, QuietKeeps, Zenon

LEMMA RequestedIs ==
  ASSUME RequestInv, NEW a \in Actors, ActorRequested(a)
  PROVE  /\ actor' \in [Actors -> ActorRecords]
         /\ \A b \in Actors : b # a => actor'[b] = actor[b]
         /\ actor'[a].id = 0 /\ actor[a].id = 0 /\ actor'[a].at # "gone" /\ actor'[a].name \in Wants
         /\ UNCHANGED <<resources, link, gear, freed, full>>
<1>1. PICK n \in Wants : actor' = [actor EXCEPT ![a] = [at |-> "creating", name |-> n, id |-> 0]]
  BY Zenon DEF ActorRequested
<1>2. actor[a].at = "gone" /\ UNCHANGED <<resources, link, gear, freed, full>>
  BY DEF ActorRequested
<1>3. PICK q : q = [at |-> "creating", name |-> n, id |-> 0]
  OBVIOUS
<1>4. n \in NamesOr /\ "creating" \in ActorPlaces /\ 0 \in Ids /\ "creating" # "gone"
  BY NameOf DEF NamesOr, ActorPlaces, Ids
<1>5. q \in ActorRecords /\ q.at # "gone" /\ q.name = n /\ q.id = 0
  BY <1>3, <1>4 DEF ActorRecords
<1>6. actor' = [actor EXCEPT ![a] = q]
  BY <1>1, <1>3
<1>7. /\ actor' \in [Actors -> ActorRecords] /\ actor'[a] = q
      /\ \A b \in Actors : b # a => actor'[b] = actor[b]
  BY <1>5, <1>6 DEF RequestInv, RequestType
<1>8. actor[a].id = 0
  BY <1>2 DEF RequestInv, Requesters
<1> QED
  BY <1>2, <1>5, <1>7, <1>8

LEMMA FrameKeeps ==
  ASSUME SlotInv, RequestInv, Frame
  PROVE  Moves /\ RequestInv'
<1>1. CASE SceneSyncs
  <2>1. /\ syncAllRes /\ actor' = actor /\ gear' = gear /\ link' = link /\ freed' = freed
        /\ full' = full
    BY <1>1 DEF SceneSyncs
  <2>2. /\ Lets
        /\ \A s \in Slots : info'[s].mCount = info[s].mCount /\ info'[s].name = info[s].name
    BY <2>1, AllLets, Zenon
  <2>3. \A s \in Slots : info[s].mArchive # "none" => info'[s].mArchive # "none"
    <3>1. ASSUME NEW s \in Slots, info[s].mArchive # "none" PROVE info'[s].mArchive # "none"
      <4>1. ~info[s].mDMCommand
        BY <3>1 DEF SlotInv, ArchiveOK
      <4>2. info'[s] = info[s]
        BY <2>1, <4>1, AllLets, Zenon
      <4> QED
        BY <3>1, <4>2
    <3> QED
      BY <3>1
  <2>4. RequestType' /\ Requesters'
    BY <2>1 DEF RequestInv, RequestType, Requesters
  <2>5. RequestInv'
    BY <2>1, <2>2, <2>3, <2>4, QuietKeeps, Zenon
  <2> QED
    BY <2>2, <2>5 DEF Moves
<1>2. CASE LinkMoves
  <2>1. actor' = actor /\ gear' = gear /\ UNCHANGED resources /\ freed' = freed /\ full' = full
    BY <1>2 DEF LinkMoves
  <2>2. link' \in LinkPlaces
    BY <1>2 DEF LinkMoves, LinkPlaces
  <2>3. RequestType' /\ Requesters'
    BY <2>1, <2>2 DEF RequestInv, RequestType, Requesters
  <2> QED
    BY <2>1, <2>3, QuietMoves, Zenon
<1>3. CASE GearLoading
  <2>1. PICK g \in Gears, again \in {0, 2} : GearLoads(g, again)
    BY <1>3, Zenon DEF GearLoading
  <2> QED
    BY <2>1, GearLoadKeeps, Zenon
<1>4. ASSUME NEW a \in Actors, ActorRequested(a)
      PROVE  Moves /\ RequestInv'
  <2>1. /\ actor' \in [Actors -> ActorRecords]
        /\ \A b \in Actors : b # a => actor'[b] = actor[b]
        /\ actor'[a].id = 0 /\ actor[a].id = 0 /\ actor'[a].at # "gone" /\ actor'[a].name \in Wants
        /\ UNCHANGED <<resources, link, gear, freed, full>>
    BY <1>4, RequestedIs, Zenon
  <2>2. \A b \in Actors : /\ actor'[b].id = actor[b].id
                          /\ actor[b].id # 0 => actor'[b].name = actor[b].name
    BY <2>1, Zenon
  <2>3. RequestType' /\ Requesters'
    BY <2>1 DEF RequestInv, RequestType, Requesters
  <2> QED
    BY <2>1, <2>2, <2>3, QuietMoves, Zenon
<1>5. ASSUME NEW g \in Gears, Waits(g)
      PROVE  Moves /\ RequestInv'
  <2>1. \A h \in Gears : gear'[h].id = gear[h].id /\ gear'[h].name = gear[h].name
    BY <1>5, Zenon DEF Waits
  <2>2. actor' = actor /\ UNCHANGED resources /\ RequestType'
    BY <1>5 DEF Waits, RequestInv, RequestType
  <2>3. Requesters'
    BY <2>1, <2>2 DEF RequestInv, Requesters
  <2> QED
    BY <2>1, <2>2, <2>3, QuietMoves, Zenon
<1>6. ASSUME NEW g \in Gears, Frees(g)
      PROVE  Moves /\ RequestInv'
  BY <1>6, GearFreedKeeps, Zenon DEF Frees
<1> QED
  BY <1>1, <1>2, <1>3, <1>4, <1>5, <1>6, FrameIs, CreatesKeeps, DeletedKeeps, Zenon

(* All parts together, through every step.                                 *)
ResourceInv == SlotInv /\ RequestInv

LEMMA MovesKeeps ==
  ASSUME SlotInv, Moves
  PROVE  SlotInv'
  BY LetsKeeps, AddedKeeps, Zenon DEF Moves

LEMMA DvdSame ==
  ASSUME RequestInv, Loads
  PROVE  /\ info' = info /\ actor' = actor /\ link' = link /\ gear' = gear /\ freed' = freed
         /\ full' = full
  BY DEF Loads, DvdBegins, DvdEnds

LEMMA DvdKeeps ==
  ASSUME SlotInv, RequestInv, Dangling = {}, Loads
  PROVE  SlotInv' /\ RequestInv' /\ InDvd' \subseteq InDvd
<1>1. SlotInv' /\ InDvd' \subseteq InDvd
  BY BeginsKeeps, EndsKeeps DEF Loads
<1>2. /\ info' = info /\ actor' = actor /\ link' = link /\ gear' = gear /\ freed' = freed
      /\ full' = full
  BY DvdSame
<1>3. RequestType' /\ Requesters'
  BY <1>2 DEF RequestInv, RequestType, Requesters
<1>4. RequestInv'
  BY <1>2, <1>3, QuietKeeps, Zenon
<1> QED
  BY <1>1, <1>4

LEMMA InitResourceInv ==
  ASSUME ResourceInit
  PROVE  ResourceInv
<1>1. info = [s \in Slots |-> NoInfo] /\ fetched = {} /\ queue = <<>> /\ running = NoSlot /\ done = {}
  BY DEF ResourceInit, Dvd!Init
<1>2. \A s \in Slots : info[s] = NoInfo
  BY <1>1
<1>3. InfoOK /\ OneSlot /\ ArchiveOK
  <2>1. info \in [Slots -> Infos]
    BY <1>1, NoInfoIs
  <2> QED
    BY <1>2, <2>1, NoInfoIs DEF InfoOK, OneSlot, ArchiveOK
<1>4. Dvd!Queued = {} /\ InDvd = {} /\ Dvd!Given = {}
  BY <1>1 DEF Dvd!Queued, InDvd, Dvd!Given
<1>5. DvdType /\ DvdOrder
  BY <1>1, <1>4 DEF DvdType, DvdOrder
<1>6. Own
  BY <1>1, <1>2, NoInfoIs DEF Own
<1>7. SlotInv
  BY <1>3, <1>5, <1>6 DEF SlotInv
<1>8. /\ actor = [a \in Actors |-> Gone] /\ link = "creating"
      /\ gear \in [Gears -> [timer : {0}, name : Names, id : {0}]]
      /\ \A g \in Gears : gear[g].name \in Wardrobe[g]
      /\ freed = {} /\ full = FALSE
  BY DEF ResourceInit
<1>9. Gone \in ActorRecords /\ Gone.id = 0 /\ Gone.at = "gone"
  <2>1. "gone" \in ActorPlaces /\ NoName \in NamesOr /\ 0 \in Ids
    BY DEF ActorPlaces, NamesOr, Ids
  <2> QED
    BY <2>1 DEF Gone, ActorRecords
<1>10. \A g \in Gears : gear[g] \in GearRecords /\ gear[g].id = 0
  <2>1. ASSUME NEW r \in [timer : {0}, name : Names, id : {0}] PROVE r \in GearRecords /\ r.id = 0
    <3>1. 0 \in Timers /\ 0 \in Ids
      BY DEF Timers, Ids
    <3> QED
      BY <3>1 DEF GearRecords
  <2> QED
    BY <1>8, <2>1
<1>11. gear \in [Gears -> GearRecords]
  BY <1>8, <1>10
<1>12. actor \in [Actors -> ActorRecords] /\ \A a \in Actors : actor[a].id = 0 /\ actor[a].at = "gone"
  BY <1>8, <1>9
<1>13. RequestType /\ Requesters
  BY <1>8, <1>11, <1>12 DEF RequestType, Requesters, LinkPlaces
<1>14. \A n : Loading(n) = {}
  BY <1>12 DEF Loading
<1>15. ActorsCounted /\ GearCounted /\ HeldMounted
  BY <1>10, <1>12, <1>14 DEF ActorsCounted, GearCounted, HeldMounted
<1> QED
  BY <1>7, <1>13, <1>15 DEF ResourceInv, RequestInv

LEMMA NextResourceInv ==
  ASSUME ResourceInv, [ResourceNext]_resourceVars
  PROVE  ResourceInv'
<1>1. CASE UNCHANGED resourceVars
  <2>1. /\ UNCHANGED resources /\ actor' = actor /\ link' = link /\ gear' = gear /\ freed' = freed
        /\ full' = full
    BY <1>1 DEF resourceVars
  <2>2. RequestType' /\ Requesters'
    BY <2>1 DEF ResourceInv, RequestInv, RequestType, Requesters
  <2>3. Moves /\ RequestInv'
    BY <2>1, <2>2, QuietMoves, Zenon DEF ResourceInv
  <2> QED
    BY <2>3, MovesKeeps DEF ResourceInv
<1>2. CASE ResourceNext
  <2>1. Dangling = {} /\ (Loads \/ Frame)
    BY <1>2 DEF ResourceNext, Sound
  <2> QED
    BY <2>1, DvdKeeps, FrameKeeps, MovesKeeps DEF ResourceInv
<1> QED
  BY <1>1, <1>2

(* Whatever the actors, Link and the DVD thread do with setRes, syncRes    *)
(* and deleteRes of d_resorce.cpp: an archive is registered in one slot, a *)
(* slot has a command or an archive or is free, its command is in one      *)
(* place of the DVD thread's, no count of a slot is below the requests     *)
(* made and not let go, and what a requester was told is ready is mounted. *)
(* With impatience too, until a command is destroyed early.                *)
THEOREM ResourceInvariant == ResourceSpec => []ResourceInv
BY InitResourceInv, NextResourceInv, PTL DEF ResourceSpec

(* What the properties say follows from ResourceInv.                       *)
LEMMA TypeHolds == ResourceInv => ResourceTypeOK
<1> SUFFICES ASSUME ResourceInv PROVE ResourceTypeOK
  OBVIOUS
<1>1. /\ info \in [Slots -> [mCount : 0..MaxCount, name : Names \union {NoName}, mDMCommand : BOOLEAN,
                           mArchive : {"none", "part", "whole"}, mDataHeap : BOOLEAN]]
      /\ \A s \in Slots : info[s].mCount = 0 => info[s] = NoInfo
  BY Zenon DEF ResourceInv, SlotInv, InfoOK, Infos, Counts, NamesOr, Archives
<1>2. /\ queue \in Seq(Slots) /\ running \in Slots \union {NoSlot} /\ done \subseteq Slots
      /\ fetched \subseteq done
  BY Zenon DEF ResourceInv, SlotInv, DvdType
<1>3. /\ actor \in [Actors -> [at : {"gone", "creating", "created", "failed"},
                             name : Names \union {NoName}, id : 0..2]]
      /\ link \in {"creating", "playing", "leaving"}
      /\ gear \in [Gears -> [timer : {0, 2, 3, 4}, name : Names, id : 0..2]]
      /\ freed \subseteq Slots /\ full \in BOOLEAN
  BY Zenon DEF ResourceInv, RequestInv, RequestType, ActorRecords, GearRecords, ActorPlaces, NamesOr,
     Ids, Timers, LinkPlaces
<1> QED
  BY <1>1, <1>2, <1>3, Zenon DEF ResourceTypeOK

LEMMA RequestsCounted == ResourceInv => EveryRequestCounted
<1> SUFFICES ASSUME ResourceInv, NEW n \in Names
             PROVE  /\ Cardinality(InfosOf(n)) <= 1
                    /\ Requests(n) # 0 => \E s \in InfosOf(n) : info[s].mCount >= Requests(n)
  BY DEF EveryRequestCounted
<1>1. \A s : s \in InfosOf(n) <=> s \in Slots /\ Of(s, n)
  BY DEF InfosOf, Of
<1>2. Cardinality(InfosOf(n)) <= 1
  <2>1. CASE InfosOf(n) = {}
    BY <2>1, FS_EmptySet
  <2>2. CASE InfosOf(n) # {}
    <3>1. PICK s : s \in InfosOf(n)
      BY <2>2
    <3>2. InfosOf(n) = {s}
      BY <1>1, <3>1 DEF ResourceInv, SlotInv, OneSlot, Of
    <3>3. Cardinality(InfosOf(n)) = 1
      BY <3>2, FS_Singleton
    <3> QED
      BY <3>3
  <2> QED
    BY <2>1, <2>2
<1> DEFINE Asking == {g \in Gears : gear[g].name = n /\ gear[g].id # 0}
<1>3. Requests(n) = Cardinality(Loading(n)) + Cardinality(Asking)
  BY DEF Requests, Loading
<1>4. PICK A : A = Asking
  OBVIOUS
<1>5. \A g : g \in A <=> g \in Gears /\ gear[g].name = n /\ gear[g].id # 0
  BY <1>4
<1>6. PICK c, d : c = Cardinality(Loading(n)) /\ d = Cardinality(A)
  OBVIOUS
<1>7. Requests(n) = c + d
  BY <1>3, <1>4, <1>6
<1> HIDE DEF Asking
<1>8. c \in Nat /\ (c = 0 <=> Loading(n) = {})
  BY <1>6, LoadingFinite
<1>9. Requesters /\ ActorsCounted /\ GearCounted
  BY DEF ResourceInv, RequestInv
<1>10. CASE n \in Wants
  <2>1. A = {}
    BY <1>5, <1>9, <1>10, NameOf DEF Requesters
  <2>2. d = 0
    BY <1>6, <2>1, FS_EmptySet
  <2>3. c # 0 => \E s \in Slots : Of(s, n) /\ info[s].mCount >= c
    BY <1>6, <1>8, <1>9, <1>10 DEF ActorsCounted
  <2>4. Requests(n) = c
    BY <1>7, <1>8, <2>2
  <2> QED
    BY <1>1, <1>2, <2>3, <2>4
<1>11. CASE n \notin Wants
  <2>1. Loading(n) = {}
    BY <1>9, <1>11, NameOf DEF Loading
  <2>2. c = 0
    BY <1>8, <2>1
  <2>3. CASE A = {}
    <3>1. d = 0
      BY <1>6, <2>3, FS_EmptySet
    <3> QED
      BY <1>2, <1>7, <2>2, <3>1
  <2>4. CASE A # {}
    <3>1. PICK g : g \in A
      BY <2>4
    <3>2. A = {g}
      <4>1. ASSUME NEW h \in A PROVE h = g
        BY <1>5, <1>9, <3>1, <4>1, NameOf DEF Requesters
      <4> QED
        BY <3>1, <4>1
    <3>3. d = 1
      BY <1>6, <3>2, FS_Singleton
    <3>4. Registered(n)
      BY <1>5, <1>9, <3>1 DEF GearCounted
    <3>5. PICK s \in Slots : Of(s, n)
      BY <3>4 DEF Registered
    <3>6. info[s].mCount \in Nat /\ info[s].mCount # 0
      BY <3>5, CountIs DEF Of, ResourceInv
    <3>7. Requests(n) = 1
      BY <1>7, <2>2, <3>3
    <3>8. info[s].mCount >= 1
      BY <3>6
    <3> QED
      BY <1>1, <1>2, <3>5, <3>7, <3>8
  <2> QED
    BY <2>3, <2>4
<1> QED
  BY <1>10, <1>11

LEMMA OwnedCommands == ResourceInv /\ Dangling = {} => CommandsOwned
<1> SUFFICES ASSUME ResourceInv, Dangling = {}
             PROVE  CommandsOwned
  OBVIOUS
<1>1. Dvd!Given \subseteq Slots
  <2>1. queue \in Seq(Slots) /\ running \in Slots \union {NoSlot} /\ done \subseteq Slots
    BY DEF ResourceInv, SlotInv, DvdType
  <2>2. \A i \in DOMAIN queue : queue[i] \in Slots
    BY <2>1
  <2> QED
    BY <2>1, <2>2 DEF Dvd!Given, Dvd!Queued
<1>2. \A s \in Slots : s \in Dvd!Queued \union ({running} \ {NoSlot}) => info[s].mDMCommand
  BY DEF Dangling
<1>3. \A s \in Slots : s \in Dvd!Given => info[s].mDMCommand
  BY <1>2 DEF Dvd!Given, ResourceInv, SlotInv, Own
<1>4. \A s \in Slots : info[s].mDMCommand => s \in Dvd!Given
  BY DEF ResourceInv, SlotInv, Own
<1> QED
  BY <1>1, <1>3, <1>4 DEF CommandsOwned

(* The slots of mObjectInfo, their counts and the DVD thread's commands    *)
(* agree (setRes, deleteRes and dComIfG_resLoad, dComIfG_resDelete) up to  *)
(* the moment at which ~dRes_info_c destroys a command that the DVD thread *)
(* still has, for any game, impatient or not.                              *)
THEOREM SlotsAgreeUntilDestroyed == ResourceSpec => [](NeverDestroyedEarly => SlotsAgree)
<1>1. ResourceInv => (NeverDestroyedEarly => SlotsAgree)
  BY TypeHolds, RequestsCounted, OwnedCommands DEF SlotsAgree, NeverDestroyedEarly
<1> QED
  BY <1>1, ResourceInvariant, PTL

(* A slot only comes to an archive that was registered nowhere, and keeps  *)
(* what is mounted.                                                        *)
SlotsStay == \A s \in Slots : \A n : Of(s, n)' /\ Registered(n) =>
    Of(s, n) /\ (info[s].mArchive # "none" => info'[s].mArchive = info[s].mArchive)

LEMMA MovesStay ==
  ASSUME SlotInv, Moves
  PROVE  SlotsStay
<1> SUFFICES ASSUME NEW s \in Slots, NEW n, info'[s].mCount # 0, info'[s].name = n, Registered(n)
             PROVE  Of(s, n) /\ (info[s].mArchive # "none" => info'[s].mArchive = info[s].mArchive)
  BY Zenon DEF SlotsStay, Of
<1>1. CASE Lets
  <2>1. info'[s] # NoInfo
    BY NoInfoIs
  <2> QED
    BY <1>1, <2>1 DEF Lets, Kept, Of
<1>2. ASSUME NEW m, Added(m)
      PROVE  Of(s, n) /\ (info[s].mArchive # "none" => info'[s].mArchive = info[s].mArchive)
  <2>1. PICK t \in Slots : /\ \A u \in Slots : u # t => info'[u] = info[u]
                           /\ info'[t].name = m /\ \A u \in Slots : ~Of(u, m)
    BY <1>2, Zenon DEF Added
  <2>2. s # t
    BY <2>1 DEF Registered
  <2> QED
    BY <2>1, <2>2 DEF Of
<1> QED
  BY <1>1, <1>2 DEF Moves

AllHeld == \A n : Held(n) => Registered(n) /\ MountedIn(n)
AllFound == \A n : \A s \in Slots : Of(s, n) => getResInfo(n) = s

LEMMA HeldIs == ResourceInv => AllHeld /\ AllFound
<1> SUFFICES ASSUME ResourceInv PROVE AllHeld /\ AllFound
  OBVIOUS
<1>1. ASSUME NEW n, Held(n) PROVE Registered(n) /\ MountedIn(n)
  <2>1. CASE \E a \in Actors : actor[a].name = n /\ actor[a].id = 2
    <3>1. PICK a \in Actors : actor[a].name = n /\ actor[a].id = 2
      BY <2>1
    <3>2. actor[a].id # 0
      BY <3>1
    <3>3. Registered(n)
      BY <3>1, <3>2, ActorRegistered, Zenon DEF ResourceInv
    <3>4. MountedIn(n)
      BY <3>1, Zenon DEF ResourceInv, RequestInv, HeldMounted
    <3> QED
      BY <3>3, <3>4
  <2>2. CASE \E g \in Gears : gear[g].name = n /\ gear[g].id = 2
    <3>1. PICK g \in Gears : gear[g].name = n /\ gear[g].id = 2
      BY <2>2
    <3>2. gear[g].id # 0
      BY <3>1
    <3> QED
      BY <3>1, <3>2, Zenon DEF ResourceInv, RequestInv, HeldMounted, GearCounted
  <2> QED
    BY <1>1, <2>1, <2>2 DEF Held
<1>2. AllFound
  BY FindsSlot, Zenon DEF AllFound, ResourceInv, SlotInv
<1> QED
  BY <1>1, <1>2 DEF AllHeld

LEMMA StepStays ==
  ASSUME ResourceInv, [ResourceNext]_resourceVars
  PROVE  SlotsStay
<1>1. CASE info' = info
  BY <1>1 DEF SlotsStay, Of
<1>2. CASE ResourceNext
  <2>1. Loads \/ Frame
    BY <1>2 DEF ResourceNext
  <2>2. CASE Loads
    BY <1>1, <2>2, DvdSame DEF ResourceInv
  <2>3. CASE Frame
    BY <2>3, FrameKeeps, MovesStay DEF ResourceInv
  <2> QED
    BY <2>1, <2>2, <2>3
<1> QED
  BY <1>1, <1>2 DEF resourceVars, resources

LEMMA HeldStep ==
  ASSUME ResourceInv, SlotsStay, AllHeld, AllFound, AllHeld', AllFound',
         NEW n \in Names, Held(n), Held(n)'
  PROVE  /\ getResInfo(n) # NoSlot /\ getResInfo(n)' = getResInfo(n)
         /\ info[getResInfo(n)].mArchive # "none"
         /\ info'[getResInfo(n)].mArchive = info[getResInfo(n)].mArchive
<1>1. Registered(n) /\ MountedIn(n)
  BY DEF AllHeld
<1>2. Registered(n)'
  BY DEF AllHeld
<1>3. PICK s \in Slots : Of(s, n)'
  BY <1>2 DEF Registered
<1>4. Of(s, n) /\ (info[s].mArchive # "none" => info'[s].mArchive = info[s].mArchive)
  BY <1>1, <1>3 DEF SlotsStay
<1>5. getResInfo(n) = s
  BY <1>4 DEF AllFound
<1>6. getResInfo(n)' = s
  BY <1>3 DEF AllFound
<1>7. info[s].mArchive # "none" /\ s # NoSlot
  BY <1>1, <1>4, SlotsAre DEF MountedIn
<1> QED
  BY <1>4, <1>5, <1>6, <1>7, Zenon

(* An archive that dComIfG_resLoad said is complete stays registered in    *)
(* the same slot and mounted as long as some actor or Link holds it,       *)
(* whoever else calls deleteRes for it: deleteRes frees a slot at a count  *)
(* of zero only.                                                           *)
THEOREM ArchivesHeldStay == ResourceSpec => HeldStays
<1>1. ResourceInv /\ [ResourceNext]_resourceVars => SlotsStay
  BY StepStays
<1>2. ASSUME ResourceInv, SlotsStay, AllHeld, AllFound, AllHeld', AllFound'
      PROVE  \A n \in Names : Held(n) /\ Held(n)' =>
                /\ getResInfo(n) # NoSlot /\ getResInfo(n)' = getResInfo(n)
                /\ info[getResInfo(n)].mArchive # "none"
                /\ info'[getResInfo(n)].mArchive = info[getResInfo(n)].mArchive
  BY <1>2, HeldStep
<1> QED
  BY <1>1, <1>2, HeldIs, ResourceInvariant, PTL DEF ResourceSpec, HeldStays

(* Gear is changed once its archive is loaded, and let go then only, where *)
(* the timer is minded: always of the shield, and of the clothes when they *)
(* are not changed impatiently.  So no command is destroyed too early.     *)
Minded == {g \in Gears : ~Impatient \/ g # "clothes"}
GearOK == \A g \in Minded :
    /\ gear[g].timer \in {3, 4} => gear[g].id = 2
    /\ gear[g].timer # 0 => link \in {"playing", "leaving"}
    /\ link = "playing" /\ gear[g].timer = 0 => gear[g].id = 2
PatientInv == ResourceInv /\ GearOK /\ Dangling = {}

OnlyDone == \A s \in Slots : info[s].mDMCommand /\ ~info'[s].mDMCommand => s \in done
Timely == (Lets /\ OnlyDone) \/ \E n : Added(n)

LEMMA NothingTimely ==
  ASSUME SlotInv, UNCHANGED resources
  PROVE  Timely
  BY NothingLets, Zenon DEF Timely, OnlyDone, resources

LEMMA FoundTimely ==
  ASSUME NEW s \in Slots, NEW n, NEW id, NEW o, Found(s, n, id, o)
  PROVE  Timely
<1>1. OnlyDone
  BY Zenon DEF Found, OnlyDone
<1> QED
  BY <1>1 DEF Found, Timely

LEMMA DeletedTimely ==
  ASSUME SlotInv, NEW n, Deleted(n), MountedIn(n)
  PROVE  Timely
<1>1. ASSUME NEW s \in Slots, info[s].mDMCommand, ~info'[s].mDMCommand PROVE FALSE
  <2>1. Of(s, n)
    BY <1>1 DEF Deleted
  <2> QED
    BY <1>1, <2>1 DEF MountedIn, SlotInv, ArchiveOK
<1> QED
  BY <1>1 DEF Timely, OnlyDone, Deleted

LEMMA CallTimely ==
  ASSUME SlotInv, NEW n, NEW id, NEW o,
         \/ id = 2 /\ o.id = 2 /\ UNCHANGED <<resources, full>>
         \/ o.id = 0 /\ UNCHANGED resources /\ \A s \in Slots : ~Of(s, n)
         \/ id = 0 /\ o.id = 1 /\ Added(n) /\ full' = full
         \/ id # 2 /\ full' = full /\ \E s \in Slots : Found(s, n, id, o)
  PROVE  Timely
<1>1. CASE UNCHANGED resources
  BY <1>1, NothingTimely
<1>2. CASE Added(n)
  BY <1>2, Zenon DEF Timely
<1>3. CASE \E s \in Slots : Found(s, n, id, o)
  BY <1>3, FoundTimely, Zenon
<1> QED
  BY <1>1, <1>2, <1>3, Zenon

LEMMA FrameTimely ==
  ASSUME ~Impatient, ResourceInv, GearOK, Frame
  PROVE  Timely
<1>1. CASE SceneSyncs
  <2>1. Lets /\ \A s \in Slots : info[s].mDMCommand /\ ~info'[s].mDMCommand => s \in done
    BY <1>1, AllLets, Zenon DEF SceneSyncs, ResourceInv
  <2> QED
    BY <2>1 DEF Timely, OnlyDone
<1>2. CASE LinkMoves \/ (\E g \in Gears : Waits(g)) \/ \E a \in Actors : ActorRequested(a)
  <2>1. UNCHANGED resources
    BY <1>2, Zenon DEF LinkMoves, Waits, ActorRequested
  <2> QED
    BY <2>1, NothingTimely DEF ResourceInv
<1>3. CASE GearLoading
  <2>1. PICK g \in Gears, again \in {0, 2} : GearLoads(g, again)
    BY <1>3, Zenon DEF GearLoading
  <2>2. SlotInv /\ RequestInv
    BY DEF ResourceInv
  <2>3. PICK o, n, id :
            \/ id = 2 /\ o.id = 2 /\ UNCHANGED <<resources, full>>
            \/ o.id = 0 /\ UNCHANGED resources /\ \A s \in Slots : ~Of(s, n)
            \/ id = 0 /\ o.id = 1 /\ Added(n) /\ full' = full
            \/ id # 2 /\ full' = full /\ \E s \in Slots : Found(s, n, id, o)
    BY <2>1, <2>2, GearLoadIs, ZenonT(60)
  <2> QED
    BY <2>2, <2>3, CallTimely, Zenon
<1>4. ASSUME NEW a \in Actors, ActorCreates(a)
      PROVE  Timely
  <2>1. SlotInv /\ RequestInv
    BY DEF ResourceInv
  <2>2. PICK o, n, id : n \in Names /\ id \in 0..2 /\ resLoad(n, id, o)
    BY <1>4, <2>1, ActorCreatesIs, Zenon
  <2>3. \/ id = 2 /\ o.id = 2 /\ UNCHANGED <<resources, full>>
        \/ o.id = 0 /\ UNCHANGED resources /\ \A s \in Slots : ~Of(s, n)
        \/ id = 0 /\ o.id = 1 /\ Added(n) /\ full' = full
        \/ id # 2 /\ full' = full /\ \E s \in Slots : Found(s, n, id, o)
    BY <2>1, <2>2, LoadIs, Zenon
  <2> QED
    BY <2>1, <2>3, CallTimely, Zenon
<1>5. ASSUME NEW a \in Actors, ActorDeleted(a)
      PROVE  Timely
  <2>1. SlotInv /\ RequestInv
    BY DEF ResourceInv
  <2>2. PICK n : n = actor[a].name
    OBVIOUS
  <2>3. resDelete(n, actor[a].id)
    BY <1>5, <2>2 DEF ActorDeleted
  <2>4. CASE actor[a].id = 2
    <3>1. Deleted(n)
      BY <2>1, <2>3, <2>4, DeleteLets, Zenon DEF resDelete, GivesBack
    <3>2. MountedIn(n)
      BY <2>1, <2>2, <2>4 DEF RequestInv, HeldMounted
    <3> QED
      BY <2>1, <3>1, <3>2, DeletedTimely
  <2>5. CASE actor[a].id # 2
    BY <2>1, <2>3, <2>5, NothingTimely, Zenon DEF resDelete, GivesBack
  <2> QED
    BY <2>4, <2>5
<1>6. ASSUME NEW g \in Gears, Frees(g)
      PROVE  Timely
  <2>1. SlotInv /\ RequestInv
    BY DEF ResourceInv
  <2>2. PICK n : n = gear[g].name
    OBVIOUS
  <2>3. gear[g].id = 2
    BY <1>6 DEF Frees, GearOK, Minded
  <2>4. Deleted(n)
    BY <1>6, <2>1, <2>2, <2>3, UnregisterIs, Zenon DEF Frees
  <2>5. MountedIn(n)
    BY <2>1, <2>2, <2>3 DEF RequestInv, HeldMounted
  <2> QED
    BY <2>1, <2>4, <2>5, DeletedTimely
<1> QED
  BY <1>1, <1>2, <1>3, <1>4, <1>5, <1>6, FrameIs, Zenon DEF ResourceInv

LEMMA TimelyKeeps ==
  ASSUME SlotInv, Dangling = {}, Timely
  PROVE  Dangling' = {}
<1>1. \A s \in InDvd : info[s].mDMCommand
  BY DEF Dangling, InDvd
<1>2. Dangling' = {s \in InDvd' : ~info'[s].mDMCommand}
  BY DEF Dangling, InDvd
<1>3. CASE Lets /\ OnlyDone
  <2>1. InDvd' = InDvd
    BY <1>3 DEF Lets, InDvd, Dvd!Queued
  <2>2. \A s \in InDvd : s \notin done
    BY DEF SlotInv, DvdOrder
  <2>3. \A s \in InDvd : s \in Slots
    <3>1. queue \in Seq(Slots) /\ running \in Slots \union {NoSlot}
      BY DEF SlotInv, DvdType
    <3>2. \A i \in DOMAIN queue : queue[i] \in Slots
      BY <3>1
    <3> QED
      BY <3>1, <3>2 DEF InDvd, Dvd!Queued
  <2>4. \A s \in InDvd : info'[s].mDMCommand
    BY <1>1, <1>3, <2>2, <2>3 DEF OnlyDone
  <2> QED
    BY <1>2, <2>1, <2>4
<1>4. ASSUME NEW n, Added(n) PROVE Dangling' = {}
  <2>1. PICK s \in Slots : /\ \A t \in Slots : t # s => info'[t] = info[t]
                           /\ info'[s].mDMCommand /\ queue' = Append(queue, s)
                           /\ running' = running
    BY <1>4, Zenon DEF Added
  <2>2. queue \in Seq(Slots) /\ running \in Slots \union {NoSlot}
    BY DEF SlotInv, DvdType
  <2>3. \A i \in DOMAIN queue' : queue'[i] = s \/ (i \in DOMAIN queue /\ queue'[i] = queue[i])
    BY <2>1, <2>2, AppendIs
  <2>4. \A t \in InDvd' : t = s \/ t \in InDvd
    BY <2>1, <2>3 DEF InDvd, Dvd!Queued
  <2>5. \A t \in InDvd : t \in Slots
    <3>1. \A i \in DOMAIN queue : queue[i] \in Slots
      BY <2>2
    <3> QED
      BY <2>2, <3>1 DEF InDvd, Dvd!Queued
  <2>6. \A t \in InDvd' : info'[t].mDMCommand
    BY <1>1, <2>1, <2>4, <2>5
  <2> QED
    BY <1>2, <2>6
<1> QED
  BY <1>3, <1>4 DEF Timely

LEMMA GearOKKeeps ==
  ASSUME ResourceInv, GearOK, Frame
  PROVE  GearOK'
<1>0. RequestInv /\ SlotInv
  BY DEF ResourceInv
<1>1. CASE SceneSyncs
  BY <1>1 DEF SceneSyncs, GearOK
<1>2. CASE LinkMoves
  <2>1. gear' = gear
    BY <1>2 DEF LinkMoves
  <2>2. \A g \in Gears : Unloaded = {} => gear[g].id = 2
    BY DEF Unloaded
  <2>3. \A g \in Minded : link = "creating" => gear[g].timer = 0
    BY DEF GearOK
  <2> QED
    BY <1>2, <2>1, <2>2, <2>3 DEF LinkMoves, GearOK, Minded
<1>3. CASE GearLoading
  <2>1. PICK g \in Gears, again \in {0, 2} :
          /\ GearLoads(g, again)
          /\ \/ link = "creating" /\ again = 0
             \/ link \in {"playing", "leaving"} /\ again = 2
    BY <1>3, Zenon DEF GearLoading
  <2>2. PICK o : /\ \A h \in Gears : h # g => gear'[h] = gear[h]
                 /\ gear'[g].id = o.id
                 /\ gear'[g].timer = 0 => o.id = 2 \/ again = 0
                 /\ gear'[g].timer \in {0, again} /\ link' = link
    BY <1>0, <2>1, GearLoadIs, ZenonT(60)
  <2>3. ASSUME NEW h \in Minded
        PROVE  /\ gear'[h].timer \in {3, 4} => gear'[h].id = 2
               /\ gear'[h].timer # 0 => link' \in {"playing", "leaving"}
               /\ link' = "playing" /\ gear'[h].timer = 0 => gear'[h].id = 2
    <3>1. CASE h = g
      <4>1. gear'[h].timer \in {0, 2}
        BY <2>1, <2>2, <3>1
      <4>2. gear'[h].timer # 0 => link' \in {"playing", "leaving"}
        BY <2>1, <2>2, <3>1
      <4>3. link' = "playing" /\ gear'[h].timer = 0 => gear'[h].id = 2
        BY <2>1, <2>2, <3>1
      <4> QED
        BY <4>1, <4>2, <4>3
    <3>2. CASE h # g
      BY <2>2, <3>2 DEF GearOK, Minded
    <3> QED
      BY <3>1, <3>2
  <2> QED
    BY <2>3 DEF GearOK, Minded
<1>4. CASE \E a \in Actors : ActorRequested(a) \/ ActorCreates(a) \/ ActorDeleted(a)
  BY <1>4 DEF ActorRequested, ActorCreates, ActorDeleted, GearOK
<1>5. ASSUME NEW g \in Gears, Waits(g) PROVE GearOK'
  BY <1>5 DEF Waits, GearOK, Minded
<1>6. ASSUME NEW g \in Gears, Frees(g) PROVE GearOK'
  <2>1. /\ \A h \in Gears : h # g => gear'[h] = gear[h]
        /\ link' = link
        /\ \/ gear[g].timer = 3 /\ gear'[g].timer = 2
           \/ gear'[g].timer = 0 /\ link = "leaving"
    BY <1>6, Zenon DEF Frees
  <2> QED
    BY <2>1 DEF GearOK, Minded
<1> QED
  BY <1>0, <1>1, <1>2, <1>3, <1>4, <1>5, <1>6, FrameIs, Zenon

LEMMA InitPatient ==
  ASSUME ResourceInit
  PROVE  PatientInv
<1>1. queue = <<>> /\ running = NoSlot /\ link = "creating"
  BY DEF ResourceInit, Dvd!Init
<1>2. Dangling = {}
  BY <1>1 DEF Dangling, Dvd!Queued
<1>3. GearOK
  BY <1>1 DEF ResourceInit, GearOK, Minded
<1> QED
  BY <1>2, <1>3, InitResourceInv DEF PatientInv

LEMMA NextPatient ==
  ASSUME ~Impatient, PatientInv, [ResourceNext]_resourceVars
  PROVE  PatientInv'
<1>1. ResourceInv'
  BY NextResourceInv DEF PatientInv
<1>2. CASE UNCHANGED resourceVars
  BY <1>1, <1>2 DEF resourceVars, resources, dvdVars, PatientInv, GearOK, Dangling, Dvd!Queued
<1>3. CASE ResourceNext /\ Loads
  <2>1. SlotInv /\ RequestInv /\ Dangling = {}
    BY DEF PatientInv, ResourceInv
  <2>2. InDvd' \subseteq InDvd
    BY <1>3, <2>1, DvdKeeps
  <2>3. info' = info /\ gear' = gear /\ link' = link
    BY <1>3, <2>1, DvdSame
  <2>4. Dangling' = {s \in InDvd' : ~info'[s].mDMCommand} /\ Dangling = {s \in InDvd : ~info[s].mDMCommand}
    BY DEF Dangling, InDvd
  <2>5. Dangling' = {}
    BY <2>1, <2>2, <2>3, <2>4
  <2>6. GearOK'
    BY <2>3 DEF PatientInv, GearOK
  <2> QED
    BY <1>1, <2>5, <2>6 DEF PatientInv
<1>4. CASE ResourceNext /\ Frame
  <2>1. Timely
    BY <1>4, FrameTimely DEF PatientInv
  <2>2. Dangling' = {}
    BY <2>1, TimelyKeeps DEF PatientInv, ResourceInv
  <2>3. GearOK'
    BY <1>4, GearOKKeeps DEF PatientInv
  <2> QED
    BY <1>1, <2>2, <2>3 DEF PatientInv
<1> QED
  BY <1>2, <1>3, <1>4 DEF ResourceNext

(* When Link's gear is changed only after the archive of the last change   *)
(* is loaded, no ~dRes_info_c destroys a command that is in the DVD        *)
(* thread's list or being executed: syncRes gives a command up once it is  *)
(* done, deleteRes is called by who holds a mounted archive.  The run      *)
(* res_clothes shows what happens otherwise.                               *)
THEOREM CommandsOutliveTheirExecution ==
  ASSUME ~Impatient
  PROVE  ResourceSpec => []NeverDestroyedEarly
<1>1. PatientInv /\ [ResourceNext]_resourceVars => PatientInv'
  BY NextPatient
<1>2. PatientInv => NeverDestroyedEarly
  BY DEF PatientInv, NeverDestroyedEarly
<1> QED
  BY <1>1, <1>2, InitPatient, PTL DEF ResourceSpec

(* So the slots, their counts and the commands of the DVD thread agree for *)
(* ever, for any archives, slots and actors and any failures to mount or   *)
(* load.                                                                   *)
THEOREM BookkeepingAgrees ==
  ASSUME ~Impatient
  PROVE  ResourceSpec => []SlotsAgree
BY SlotsAgreeUntilDestroyed, CommandsOutliveTheirExecution, PTL

(* In Link's heaps is at most the archive he is asking for or holds, and   *)
(* it is counted once, unless a load failed on it.                         *)
InUse(s) == info[s].mDMCommand \/ info[s].mArchive # "none"
OwnIn(g, s) ==
    /\ gear[g].name = info[s].name
    /\ info[s].mArchive = "part" \/ (info[s].mCount = 1 /\ gear[g].id # 0)
OwnGear == \A g \in Gears, s \in Slots :
    info[s].name \in Wardrobe[g] /\ InUse(s) => OwnIn(g, s)
HeapInv == ResourceInv /\ GearOK /\ OnlyFailedIsFreed /\ (freed = {} => OwnGear)

(* A call about archive n is about nothing else.                           *)
OnlyAbout(n) == \A s \in Slots : info'[s] = info[s] \/ info'[s] = NoInfo \/ info'[s].name = n

LEMMA UsedIsOf ==
  ASSUME SlotInv, NEW s \in Slots, InUse(s)
  PROVE  Of(s, info[s].name)
  BY NoInfoIs DEF SlotInv, InfoOK, InUse, Of

LEMMA CallAbout ==
  ASSUME NEW n,
         \/ UNCHANGED resources \/ Added(n) \/ Deleted(n)
         \/ \E s \in Slots : \E id, o : Found(s, n, id, o)
  PROVE  OnlyAbout(n)
<1>1. CASE UNCHANGED resources
  BY <1>1 DEF resources, OnlyAbout
<1>2. CASE Added(n)
  BY <1>2, Zenon DEF Added, OnlyAbout
<1>3. CASE Deleted(n)
  BY <1>3, Zenon DEF Deleted, OnlyAbout, Of
<1>4. CASE \E s \in Slots : \E id, o : Found(s, n, id, o)
  BY <1>4, Zenon DEF Found, OnlyAbout
<1> QED
  BY <1>1, <1>2, <1>3, <1>4

LEMMA OtherHeap ==
  ASSUME SlotInv, OwnGear, NEW n, OnlyAbout(n), NEW g \in Gears, n \notin Wardrobe[g],
         gear'[g].id = gear[g].id, gear'[g].name = gear[g].name,
         NEW s \in Slots, info'[s].name \in Wardrobe[g], InUse(s)'
  PROVE  OwnIn(g, s)'
<1>1. info'[s] # NoInfo
  BY NoInfoIs DEF InUse
<1>2. info'[s] = info[s]
  BY <1>1 DEF OnlyAbout
<1>3. InUse(s)
  BY <1>2 DEF InUse
<1> QED
  BY <1>2, <1>3 DEF OwnGear, OwnIn

LEMMA NextOwn ==
  ASSUME \A g \in Gears, s \in Slots : info'[s].name \in Wardrobe[g] /\ InUse(s)' =>
            OwnIn(g, s)'
  PROVE  OwnGear'
  BY DEF OwnGear, InUse

LEMMA ActorOwn ==
  ASSUME SlotInv, OwnGear, NEW n \in Wants, OnlyAbout(n), gear' = gear
  PROVE  OwnGear'
<1>1. \A g \in Gears : n \notin Wardrobe[g]
  BY NameOf
<1>2. \A g \in Gears, s \in Slots : info'[s].name \in Wardrobe[g] /\ InUse(s)' =>
            OwnIn(g, s)'
  BY <1>1, OtherHeap
<1> QED
  BY <1>2, NextOwn

LEMMA GearOwn ==
  ASSUME SlotInv, RequestInv, OwnGear, NEW g \in Gears, NEW n, n = gear[g].name, OnlyAbout(n),
         \A h \in Gears : h # g => gear'[h] = gear[h],
         \A s \in Slots : info'[s].name \in Wardrobe[g] /\ InUse(s)' =>
            OwnIn(g, s)'
  PROVE  OwnGear'
<1>1. n \in Wardrobe[g]
  BY DEF RequestInv, Requesters
<1>2. ASSUME NEW h \in Gears, NEW s \in Slots, info'[s].name \in Wardrobe[h], InUse(s)'
      PROVE  OwnIn(h, s)'
  <2>1. CASE h = g
    BY <1>2, <2>1
  <2>2. CASE h # g
    <3>1. n \notin Wardrobe[h] /\ gear'[h] = gear[h]
      BY <1>1, <2>2, NameOf
    <3> QED
      BY <1>2, <3>1, OtherHeap
  <2> QED
    BY <2>1, <2>2
<1> QED
  BY <1>2, NextOwn

LEMMA LoadOwn ==
  ASSUME SlotInv, RequestInv, OwnGear, NEW g \in Gears, NEW again \in {0, 2}, GearLoads(g, again)
  PROVE  OwnGear'
<1>1. PICK o, n, id :
            /\ n = gear[g].name /\ id = gear[g].id /\ n \in Names /\ n \in Wardrobe[g]
            /\ o \in Outcomes
            /\ full \in BOOLEAN => full' \in BOOLEAN
            /\ \/ id = 2 /\ o.id = 2 /\ UNCHANGED <<resources, full>>
               \/ o.id = 0 /\ UNCHANGED resources /\ \A s \in Slots : ~Of(s, n)
               \/ id = 0 /\ o.id = 1 /\ Added(n) /\ full' = full
               \/ id # 2 /\ full' = full /\ \E s \in Slots : Found(s, n, id, o)
            /\ gear' \in [Gears -> GearRecords]
            /\ \A h \in Gears : h # g => gear'[h] = gear[h]
            /\ gear'[g].id = o.id /\ gear'[g].name = n
            /\ gear'[g].timer = 0 => o.id = 2 \/ again = 0
            /\ gear'[g].timer \in {0, again}
            /\ actor' = actor /\ link' = link /\ freed' = freed
  BY GearLoadIs, Zenon
<1>2. OnlyAbout(n)
  BY <1>1, CallAbout, Zenon
<1>3. \A s \in Slots : info[s].name \in Wardrobe[g] /\ InUse(s) =>
         Of(s, n) /\ (info[s].mArchive = "part" \/ (info[s].mCount = 1 /\ id # 0))
  BY <1>1, UsedIsOf DEF OwnGear, OwnIn, Of
<1>4. ASSUME NEW s \in Slots, info'[s].name \in Wardrobe[g], InUse(s)'
      PROVE  /\ info'[s].name = n
             /\ info'[s].mArchive = "part" \/ (info'[s].mCount = 1 /\ o.id # 0)
  <2>1. CASE id = 2 /\ o.id = 2 /\ UNCHANGED <<resources, full>>
    <3>1. info' = info /\ InUse(s)
      BY <1>4, <2>1 DEF resources, InUse
    <3> QED
      BY <1>3, <1>4, <2>1, <3>1 DEF Of
  <2>2. CASE o.id = 0 /\ UNCHANGED resources /\ \A t \in Slots : ~Of(t, n)
    <3>1. info' = info /\ InUse(s)
      BY <1>4, <2>2 DEF resources, InUse
    <3> QED
      BY <1>3, <1>4, <2>2, <3>1
  <2>3. CASE id = 0 /\ o.id = 1 /\ Added(n)
    <3>1. PICK t \in Slots : /\ \A u \in Slots : u # t => info'[u] = info[u]
                             /\ info'[t].mCount = 1 /\ info'[t].name = n /\ \A u \in Slots : ~Of(u, n)
      BY <2>3, Zenon DEF Added
    <3>2. CASE s = t
      BY <2>3, <3>1, <3>2
    <3>3. CASE s # t
      <4>1. info'[s] = info[s] /\ InUse(s)
        BY <1>4, <3>1, <3>3 DEF InUse
      <4> QED
        BY <1>3, <1>4, <3>1, <4>1
    <3> QED
      BY <3>2, <3>3
  <2>4. CASE \E t \in Slots : Found(t, n, id, o)
    <3>1. PICK t \in Slots : Found(t, n, id, o)
      BY <2>4
    <3>2. CASE s = t
      <4>1. info'[s] # NoInfo
        BY <1>4, NoInfoIs DEF InUse
      <4>2. info[s].name = n /\ InUse(s) /\ info'[s].name = n
        <5>1. Kept(s)
          BY <3>1 DEF Found, Lets
        <5>2. (info'[s].mDMCommand => info[s].mDMCommand)
              /\ (info'[s].mArchive # "none" => info[s].mArchive # "none" \/ info[s].mDMCommand)
          BY <4>1, <5>1 DEF Kept
        <5>3. InUse(s)
          BY <1>4, <5>2 DEF InUse
        <5> QED
          BY <3>1, <3>2, <5>3 DEF Found, Of
      <4>3. CASE info[s].mArchive = "part"
        <5>1. Kept(s) /\ info[s].mArchive # "none"
          BY <3>1, <4>3 DEF Found, Lets
        <5>2. info'[s].mArchive = "part"
          BY <4>1, <4>3, <5>1 DEF Kept
        <5> QED
          BY <4>2, <5>2
      <4>4. CASE info[s].mCount = 1 /\ id # 0
        <5>1. info'[s].mCount = 1
          BY <3>1, <3>2, <4>4 DEF Found
        <5>2. o.id = 0 => info'[s].mArchive = "part"
          BY <1>4, <3>1, <3>2 DEF Found, InUse
        <5> QED
          BY <4>2, <5>1, <5>2
      <4> QED
        BY <1>1, <1>3, <4>2, <4>3, <4>4
    <3>3. CASE s # t
      <4>1. info'[s] = info[s] /\ InUse(s)
        BY <1>4, <3>1, <3>3 DEF InUse, Found
      <4>2. Of(s, n)
        BY <1>3, <1>4, <4>1
      <4> QED
        BY <3>1, <3>3, <4>2 DEF Found, SlotInv, OneSlot, Of
    <3> QED
      BY <3>2, <3>3
  <2> QED
    BY <1>1, <2>1, <2>2, <2>3, <2>4, Zenon
<1>5. \A s \in Slots : info'[s].name \in Wardrobe[g] /\ InUse(s)' =>
            OwnIn(g, s)'
  BY <1>1, <1>4 DEF OwnIn
<1> QED
  BY <1>1, <1>2, <1>5, GearOwn, Zenon

(* When a heap is freed, the archive in it was let go, by force if need be *)
(* when it is that of the clothes.  One it is still counted in had failed. *)
LEMMA FreesDeletes ==
  ASSUME SlotInv, GearOK, NEW g \in Gears, Frees(g), NEW n, n = gear[g].name
  PROVE  Deleted(n)
<1>1. CASE gear[g].id = 2
  BY <1>1, UnregisterIs, Zenon DEF Frees
<1>2. CASE gear[g].id # 2
  <2>1. gear[g].timer = 3 /\ Unregister(g)
    BY <1>2, Zenon DEF Frees
  <2>2. g = "clothes"
    BY <1>2, <2>1 DEF GearOK, Minded
  <2>3. deleteRes(n)
    BY <1>2, <2>1, <2>2, Zenon DEF Unregister, ByForce, GivesBack
  <2> QED
    BY <2>3, DeleteLets, Zenon
<1> QED
  BY <1>1, <1>2

LEMMA FreesOwn ==
  ASSUME SlotInv, RequestInv, GearOK, OwnGear, freed = {}, NEW g \in Gears, Frees(g)
  PROVE  OnlyFailedIsFreed' /\ (freed' = {} => OwnGear')
<1>1. PICK n : n = gear[g].name
  OBVIOUS
<1>2. Deleted(n) /\ OnlyAbout(n)
  BY <1>1, FreesDeletes, CallAbout, Zenon
<1>3. freed' = {s \in Slots : info'[s].name \in Wardrobe[g] /\ InUse(s)'}
  BY DEF Frees, HeapFreed, InUse
<1>4. ASSUME NEW s \in Slots, info'[s].name \in Wardrobe[g], InUse(s)'
      PROVE  info'[s].mArchive = "part" /\ ~info'[s].mDMCommand
  <2>1. info'[s] # NoInfo
    BY <1>4, NoInfoIs DEF InUse
  <2>2. CASE Of(s, n)
    <3>1. /\ info[s].mCount > 1 /\ info'[s].name = info[s].name
          /\ info'[s].mDMCommand = info[s].mDMCommand /\ info'[s].mArchive = info[s].mArchive
      BY <1>2, <2>1, <2>2 DEF Deleted
    <3>2. InUse(s) /\ info[s].name \in Wardrobe[g] /\ info[s].mCount # 1
      BY <1>4, <3>1 DEF InUse
    <3>3. info[s].mArchive = "part"
      BY <3>2 DEF OwnGear, OwnIn
    <3>4. ~info[s].mDMCommand
      BY <3>3 DEF SlotInv, ArchiveOK
    <3> QED
      BY <3>1, <3>3, <3>4
  <2>3. CASE ~Of(s, n)
    <3>1. info'[s] = info[s]
      BY <1>2, <2>3 DEF Deleted
    <3>2. InUse(s) /\ info[s].name \in Wardrobe[g]
      BY <1>4, <3>1 DEF InUse
    <3>3. info[s].name = n
      BY <1>1, <3>2 DEF OwnGear, OwnIn
    <3> QED
      BY <2>3, <3>2, <3>3, UsedIsOf
  <2> QED
    BY <2>2, <2>3
<1>5. OnlyFailedIsFreed'
  BY <1>3, <1>4 DEF OnlyFailedIsFreed
<1>6. ASSUME freed' = {} PROVE OwnGear'
  <2>1. \A s \in Slots : info'[s].name \in Wardrobe[g] /\ InUse(s)' => OwnIn(g, s)'
    BY <1>3, <1>6
  <2>2. \A h \in Gears : h # g => gear'[h] = gear[h]
    BY DEF Frees
  <2> QED
    BY <1>1, <1>2, <2>1, <2>2, GearOwn, Zenon
<1> QED
  BY <1>5, <1>6

LEMMA SameOwn ==
  ASSUME OwnGear, info' = info,
         \A g \in Gears : gear'[g].id = gear[g].id /\ gear'[g].name = gear[g].name
  PROVE  OwnGear'
  BY DEF OwnGear, OwnIn, InUse

LEMMA FrameOwn ==
  ASSUME ResourceInv, GearOK, OwnGear, freed = {}, Frame
  PROVE  OnlyFailedIsFreed' /\ (freed' = {} => OwnGear')
<1>0. SlotInv /\ RequestInv
  BY DEF ResourceInv
<1>1. ASSUME SceneSyncs PROVE OwnGear' /\ freed' = {}
  <2>1. syncAllRes /\ gear' = gear /\ freed' = freed
    BY <1>1 DEF SceneSyncs
  <2>2. \A s \in Slots : /\ info'[s].mCount = info[s].mCount /\ info'[s].name = info[s].name
                         /\ info[s].mDMCommand \/ info'[s] = info[s]
    BY <1>0, <2>1, AllLets, Zenon
  <2>3. ASSUME NEW s \in Slots, InUse(s)' PROVE InUse(s)
    BY <2>2, <2>3 DEF InUse
  <2>4. \A g \in Gears, s \in Slots : info'[s].name \in Wardrobe[g] /\ InUse(s)' =>
            OwnIn(g, s)'
    BY <1>0, <2>1, <2>2, <2>3 DEF OwnGear, OwnIn, SlotInv, ArchiveOK
  <2> QED
    BY <2>1, <2>4, NextOwn
<1>2. ASSUME LinkMoves \/ (\E g \in Gears : Waits(g)) \/ \E a \in Actors : ActorRequested(a)
      PROVE  OwnGear' /\ freed' = {}
  <2>1. info' = info /\ freed' = freed
    BY <1>2, Zenon DEF LinkMoves, Waits, ActorRequested, resources
  <2>2. \A g \in Gears : gear'[g].id = gear[g].id /\ gear'[g].name = gear[g].name
    BY <1>2, Zenon DEF LinkMoves, Waits, ActorRequested
  <2> QED
    BY <2>1, <2>2, SameOwn
<1>3. ASSUME GearLoading PROVE OwnGear' /\ freed' = {}
  <2>1. PICK g \in Gears, again \in {0, 2} : GearLoads(g, again)
    BY <1>3, Zenon DEF GearLoading
  <2>2. freed' = freed
    BY <2>1 DEF GearLoads
  <2> QED
    BY <1>0, <2>1, <2>2, LoadOwn
<1>4. ASSUME NEW a \in Actors, ActorCreates(a)
      PROVE  OwnGear' /\ freed' = {}
  <2>1. PICK o, n, id : /\ n \in Wants /\ n \in Names /\ id \in 0..2 /\ resLoad(n, id, o)
                        /\ gear' = gear /\ freed' = freed
    BY <1>0, <1>4, ActorCreatesIs, Zenon
  <2>2. \/ id = 2 /\ o.id = 2 /\ UNCHANGED <<resources, full>>
        \/ o.id = 0 /\ UNCHANGED resources /\ \A s \in Slots : ~Of(s, n)
        \/ id = 0 /\ o.id = 1 /\ Added(n) /\ full' = full
        \/ id # 2 /\ full' = full /\ \E s \in Slots : Found(s, n, id, o)
    BY <1>0, <2>1, LoadIs, Zenon
  <2>3. OnlyAbout(n)
    BY <2>2, CallAbout, Zenon
  <2> QED
    BY <1>0, <2>1, <2>3, ActorOwn
<1>5. ASSUME NEW a \in Actors, ActorDeleted(a)
      PROVE  OwnGear' /\ freed' = {}
  <2>1. PICK n, id : n = actor[a].name /\ id = actor[a].id
    OBVIOUS
  <2>2. /\ actor[a].at # "gone" /\ resDelete(n, id) /\ gear' = gear /\ freed' = freed
    BY <1>5, <2>1 DEF ActorDeleted
  <2>3. n \in Wants
    BY <1>0, <2>1, <2>2 DEF RequestInv, Requesters
  <2>4. UNCHANGED resources \/ Deleted(n)
    BY <1>0, <2>2, DeleteLets, Zenon DEF resDelete
  <2>5. OnlyAbout(n)
    BY <2>4, CallAbout, Zenon
  <2> QED
    BY <1>0, <2>2, <2>3, <2>5, ActorOwn
<1>6. ASSUME NEW g \in Gears, Frees(g)
      PROVE  OnlyFailedIsFreed' /\ (freed' = {} => OwnGear')
  BY <1>0, <1>6, FreesOwn, Zenon
<1>7. freed' = {} => OnlyFailedIsFreed'
  BY DEF OnlyFailedIsFreed
<1> QED
  BY <1>0, <1>1, <1>2, <1>3, <1>4, <1>5, <1>6, <1>7, FrameIs, Zenon

LEMMA InitHeap ==
  ASSUME ResourceInit
  PROVE  HeapInv
<1>1. info = [s \in Slots |-> NoInfo] /\ freed = {}
  BY DEF ResourceInit
<1>2. \A s \in Slots : ~InUse(s)
  BY <1>1, NoInfoIs DEF InUse
<1> QED
  BY <1>1, <1>2, InitPatient DEF HeapInv, PatientInv, OwnGear, OnlyFailedIsFreed

LEMMA NextHeap ==
  ASSUME HeapInv, [ResourceNext]_resourceVars
  PROVE  HeapInv'
<1>1. ResourceInv'
  BY NextResourceInv DEF HeapInv
<1>2. ASSUME info' = info, gear' = gear, link' = link, freed' = freed
      PROVE  HeapInv'
  <2>1. GearOK' /\ OnlyFailedIsFreed'
    BY <1>2 DEF HeapInv, GearOK, Minded, OnlyFailedIsFreed
  <2>2. freed' = {} => OwnGear'
    BY <1>2, SameOwn DEF HeapInv
  <2> QED
    BY <1>1, <2>1, <2>2 DEF HeapInv
<1>3. CASE UNCHANGED resourceVars
  BY <1>2, <1>3 DEF resourceVars, resources
<1>4. CASE ResourceNext /\ Loads
  BY <1>2, <1>4, DvdSame DEF HeapInv, ResourceInv
<1>5. CASE ResourceNext /\ Frame
  <2>1. freed = {}
    BY <1>5 DEF ResourceNext, Sound
  <2>2. GearOK'
    BY <1>5, GearOKKeeps DEF HeapInv
  <2>3. OnlyFailedIsFreed' /\ (freed' = {} => OwnGear')
    BY <1>5, <2>1, FrameOwn DEF HeapInv
  <2> QED
    BY <1>1, <2>2, <2>3 DEF HeapInv
<1> QED
  BY <1>3, <1>4, <1>5 DEF ResourceNext

(* loadModelDVD and loadShieldModelDVD free the heap of the gear before    *)
(* they ask for the next archive (d_a_alink_swindow.inc:87, 141): in it is *)
(* never a command of the DVD thread's nor an archive that was read whole, *)
(* whatever mounts and loads fail and however impatiently the clothes are  *)
(* changed.  One that was read in part, of a load that failed, can be.     *)
THEOREM HeapsFreedUnderFailedOnly == ResourceSpec => []OnlyFailedIsFreed
<1>1. HeapInv /\ [ResourceNext]_resourceVars => HeapInv'
  BY NextHeap
<1>2. HeapInv => OnlyFailedIsFreed
  BY DEF HeapInv
<1> QED
  BY <1>1, <1>2, InitHeap, PTL DEF ResourceSpec
=============================================================================
