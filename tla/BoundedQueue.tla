---------------------------- MODULE BoundedQueue ----------------------------
(***************************************************************************)
(* What a message queue promises its callers: a sequence of at most        *)
(* Capacity messages; a message that is sent goes to the back, one that is *)
(* jammed to the front, the front one is received.  A call is answered     *)
(* "refused" only when it would have to wait and does not want to, or when *)
(* the system shuts down.                                                  *)
(***************************************************************************)
EXTENDS Naturals, Sequences

CONSTANTS Threads, Messages, Capacity, None

VARIABLES queue, call, got, closing
vars == <<queue, call, got, closing>>

NoCall == [op |-> "none", msg |-> None, block |-> FALSE]
Calls == [op : {"send", "jam"}, msg : Messages, block : BOOLEAN]
         \union [op : {"receive"}, msg : {None}, block : BOOLEAN]

Init ==
    /\ queue = <<>> /\ closing = FALSE
    /\ call = [t \in Threads |-> NoCall]
    /\ got = [t \in Threads |-> None]

Invoke(t, c) ==
    /\ call[t] = NoCall
    /\ call' = [call EXCEPT ![t] = c] /\ got' = [got EXCEPT ![t] = None]
    /\ UNCHANGED <<queue, closing>>

Answered(t) == call' = [call EXCEPT ![t] = NoCall] /\ UNCHANGED closing

Put(t) ==
    /\ call[t].op \in {"send", "jam"} /\ Len(queue) < Capacity
    /\ queue' = IF call[t].op = "send" THEN Append(queue, call[t].msg) ELSE <<call[t].msg>> \o queue
    /\ Answered(t) /\ UNCHANGED got

Take(t) ==
    /\ call[t].op = "receive" /\ queue # <<>>
    /\ got' = [got EXCEPT ![t] = Head(queue)]
    /\ queue' = Tail(queue)
    /\ Answered(t)

WouldWait(t) == IF call[t].op = "receive" THEN queue = <<>> ELSE Len(queue) = Capacity
Refuse(t) ==
    /\ call[t] # NoCall
    /\ closing \/ (WouldWait(t) /\ ~call[t].block)
    /\ Answered(t) /\ UNCHANGED <<queue, got>>

Close == closing' = TRUE /\ UNCHANGED <<queue, call, got>>

Next ==
    \/ \E t \in Threads : Put(t) \/ Take(t) \/ Refuse(t) \/ \E c \in Calls : Invoke(t, c)
    \/ Close
Spec == Init /\ [][Next]_vars
=============================================================================
