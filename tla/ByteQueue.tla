----------------------------- MODULE ByteQueue -----------------------------
(***************************************************************************)
(* What a fifo_t promises its users: a queue that holds at most Capacity   *)
(* bytes, refuses a byte when it is full and gives back the bytes it took  *)
(* in the order it took them.  answer is what the last call returned.      *)
(***************************************************************************)
EXTENDS Naturals, Sequences

CONSTANTS Byte, Capacity

VARIABLES queue, answer

Init == queue = <<>> /\ answer = <<"clear">>

Put(b) ==
    IF Len(queue) < Capacity
    THEN queue' = Append(queue, b) /\ answer' = <<"put", 1>>
    ELSE UNCHANGED queue /\ answer' = <<"put", 0>>

Get ==
    IF queue = <<>>
    THEN UNCHANGED queue /\ answer' = <<"get", 0>>
    ELSE queue' = Tail(queue) /\ answer' = <<"get", 1, Head(queue)>>

Check == UNCHANGED queue /\ answer' = <<"check", Len(queue)>>

Clear == queue' = <<>> /\ answer' = <<"clear">>

Next == (\E b \in Byte : Put(b)) \/ Get \/ Check \/ Clear

Spec == Init /\ [][Next]_<<queue, answer>>
=============================================================================
